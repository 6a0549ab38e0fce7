------------------------------ MODULE SearchBar ------------------------------
(***************************************************************************)
(* A text typed in the search bar token by token, over each of several     *)
(* settings of environments, and what a search of the segments (Storage,   *)
(* QueryService) and the live tail (LiveTail) make of it.                  *)
(***************************************************************************)
EXTENDS Search

CONSTANTS
    Tokens,       \* the tokens that may be typed
    MaxTokens,    \* bound: tokens of a text
    Settings,     \* settings of environments
    LogRows,      \* logs
    Multiline     \* the values of several lines

VARIABLES
    text,
    settings,
    stream        \* the settings under which the live tail of the text was opened; Null: it is closed

searchVars == <<text, settings, stream>>

TypeOK == text \in BoundedSeq(Tokens, MaxTokens) /\ settings \in Settings /\ stream \in Settings \cup {Null}

Init == text = <<>> /\ settings \in Settings /\ stream = Null

\* One more token; the page leaves the stream of the text before.
Type ==
    /\ Len(text) < MaxTokens
    /\ \E token \in Tokens : text' = Append(text, token)
    /\ stream' = Null
    /\ UNCHANGED settings

\* The settings of environments change; a search reads them at each query, an open stream does not.
Configure ==
    /\ \E other \in Settings \ {settings} : settings' = other
    /\ UNCHANGED <<text, stream>>

\* GET /logs/tail: the stream keeps the query it was opened with, and the filter in it.
Open ==
    /\ stream = Null
    /\ stream' = settings
    /\ UNCHANGED <<text, settings>>

Close ==
    /\ stream # Null
    /\ stream' = Null
    /\ UNCHANGED <<text, settings>>

Next == Type \/ Configure \/ Open \/ Close

-----------------------------------------------------------------------------
Query == Parse(text)
Filter == EnvironmentFilter(settings)

\* crash:true is asked, of logs none of which has a fingerprint.
Lacking(query, rows) == query.crash = TRUE /\ \A r \in rows : r.fingerprint = Null

\* SegmentIndex.cs, SearchQuery.cs:157: a segment that a search does not open holds nothing that the
\* search would return, whether its index was written at once, merged from two, or is unknown.  A crash
\* without a fingerprint is the exception: SearchQuery.cs:162 opens for crash:true only the segments that
\* hold a fingerprint, and OtlpConverter.cs:62 and :74 take the two from what the client sends.
PrunedHoldsNoMatch ==
    LET query == Query
        found == {r \in LogRows : LogFilters(Filter, query, r)}
    IN  \A r \in found :
            /\ \A s \in LogRows :
                   \/ Lacking(query, {r, s})
                   \/ MayMatch(query, Merge(IndexOf(r), IndexOf(s))) /\ MayMatch(query, Merge(IndexOf(s), IndexOf(r)))
            /\ Lacking(query, {r}) \/ MayMatch(query, IndexOf(r))
            /\ MayMatch(query, Unknown({r.service}))

\* Where the two readings of a log differ.  SearchQuery.cs:202 compares the value as received with an
\* excluded environment, :267 the environment it means.
Excludes(query, filter) == \E c \in query.notColumns : Configured(filter, c)

\* ApiEndpoints.cs:121: the stream goes by the environments of its opening.
Outdated(query) ==
    /\ stream # settings
    /\ \E c \in query.columns : Configured(EnvironmentFilter(stream), c) \/ Configured(Filter, c)

\* SearchQuery.cs:207: a JSON null that is asked for, or excluded, by its name.
NullAsked(query, r) ==
    \E a \in query.attributes \cup query.notAttributes : a[1] \in DOMAIN r.attributes /\ r.attributes[a[1]] = Null

\* SearchQuery.cs:235: a pattern, before a value of several lines.
ManyLines(query, r) ==
    LET starred(list) == ToSet(list) \cap DOMAIN Globs # {}
    IN  \/ \E c \in query.columns \cup query.notColumns : starred(c[2]) /\ ColumnValue(r, c[1]) \in Multiline
        \/ \E a \in query.attributes \cup query.notAttributes :
               starred(a[2]) /\ StoredAttribute(r, a[1]) \in Multiline

\* README.md:478, the environment filter applies everywhere: an open live tail shows exactly the logs
\* that a search of its text would return, but for the differences above.
LiveAgreesWithSearch ==
    LET query == Query
    IN  stream # Null =>
            \A r \in LogRows :
                \/ Matches(EnvironmentFilter(stream), query, r) = LogFilters(Filter, query, r)
                \/ Excludes(query, Filter) \/ Outdated(query) \/ NullAsked(query, r) \/ ManyLines(query, r)

=============================================================================
