------------------------------- MODULE Search -------------------------------
(***************************************************************************)
(* The search bar (Query/SearchQuery.cs): what a text asks for, the three  *)
(* places that decide whether a log answers it (the SQL of a search, the   *)
(* test in memory of the live tail, the index that lets a segment be       *)
(* skipped), and the configured environments they all refer to             *)
(* (Query/EnvironmentFilter.cs).                                           *)
(*                                                                         *)
(* A text is a sequence of characters, so that trigrams mean what they     *)
(* mean in the code.  A value is a string, and the list "a,b" of the       *)
(* search bar a sequence of patterns.                                      *)
(***************************************************************************)
EXTENDS Integers, Sequences, FiniteSets, SequencesExt

CONSTANTS
    Null,        \* an absent value: null in memory, NULL in SQL
    LowerCase,   \* the lower case of each name of an environment
    FoldCase,    \* the lower case of each character; "-" stands for any that is no letter or digit
    Globs,       \* the values that each pattern with * stands for in SQL, where * is any text
    LiveGlobs,   \* and in memory, where * is any text of one line
    Hash,        \* the two halves of the hash of each trace identifier
    Bits         \* the size of a Bloom filter

-----------------------------------------------------------------------------
\* Environments.  The settings hold the environments in order, each with its aliases, and for some
\* applications a sequence of pairs: what it sends, and the environment it means ("" for none).

Key(value) == LowerCase[value]

\* Dictionary.TryAdd over a sequence of pairs: the first value of a key stays.
FirstOf(pairs) ==
    [k \in {p[1] : p \in ToSet(pairs)} |-> pairs[SelectInSeq(pairs, LAMBDA p : p[1] = k)][2]]

FindIn(byName, name) ==
    IF name \in DOMAIN LowerCase /\ Key(name) \in DOMAIN byName THEN byName[Key(name)].name ELSE Null

\* The constructor: names first, then aliases, then what each application says.
EnvironmentFilter(settings) ==
    LET byName     == FirstOf([i \in DOMAIN settings.environments |->
                                  <<Key(settings.environments[i].name), settings.environments[i]>>])
        kept       == SelectSeq(settings.environments, LAMBDA e : byName[Key(e.name)] = e)
        names      == [i \in DOMAIN kept |-> <<Key(kept[i].name), kept[i].name>>]
        aliases    == FlattenSeq([i \in DOMAIN kept |->
                          [j \in DOMAIN kept[i].aliases |-> <<Key(kept[i].aliases[j]), kept[i].name>>]])
        known(app) == SelectSeq(app, LAMBDA a : a[1] # "" /\ (a[2] = "" \/ FindIn(byName, a[2]) # Null))
        map(app)   == FirstOf([i \in DOMAIN known(app) |->
                          <<Key(known(app)[i][1]),
                            IF known(app)[i][2] = "" THEN Null ELSE FindIn(byName, known(app)[i][2])>>])
    IN  [byName     |-> byName,
         everywhere |-> FirstOf(names \o aliases),
         apps       |-> [s \in {a \in DOMAIN settings.apps : known(settings.apps[a]) # <<>>} |->
                             map(settings.apps[s])]]

Find(filter, name) == FindIn(filter.byName, name)

\* The environment of a value received from an application.
Resolve(filter, service, raw) ==
    IF raw \in {Null, ""} THEN Null
    ELSE IF service \in DOMAIN filter.apps /\ Key(raw) \in DOMAIN filter.apps[service]
         THEN filter.apps[service][Key(raw)]
    ELSE IF Key(raw) \in DOMAIN filter.everywhere THEN filter.everywhere[Key(raw)]
    ELSE Null

EnvironmentMatches(filter, selected, service, raw) ==
    IF Find(filter, selected) = Null THEN raw = selected
    ELSE Resolve(filter, service, raw) = Find(filter, selected)

ValuesOf(filter, name) == {v \in DOMAIN filter.everywhere : filter.everywhere[v] = name}

\* The SQL ignores what each application says.
EnvironmentCondition_noParticular(filter, selected, service, raw) ==
    IF Find(filter, selected) = Null THEN raw = selected
    ELSE raw # Null /\ Key(raw) \in ValuesOf(filter, Find(filter, selected))

\* Whether the SQL of Condition holds of a row: one clause for each application whose own aliases
\* touch the environment, and one for all the others.
EnvironmentCondition(filter, selected, service, raw) ==
    LET name       == Find(filter, selected)
        everywhere == ValuesOf(filter, name)
        values(s)  == {v \in DOMAIN filter.apps[s] : filter.apps[s][v] = name}
                          \cup {v \in everywhere : v \notin DOMAIN filter.apps[s]}
        particular == {s \in DOMAIN filter.apps : values(s) # everywhere}
    IN  IF name = Null THEN raw = selected
        ELSE /\ raw # Null
             /\ \/ service \in particular /\ Key(raw) \in values(service)
                \/ service \notin particular /\ Key(raw) \in everywhere

-----------------------------------------------------------------------------
\* From the text to the query.  A token is a word or a phrase (key "", its text in value), or a
\* key and its list of patterns; neg is the "-" before it.

ColumnAliases == [host |-> "host", env |-> "env", environment |-> "env"]

LevelToSeverity(level) ==
    CASE level = "trace" -> 1  [] level = "debug" -> 5  [] level = "info" -> 9
      [] level = "warn" -> 13  [] level = "error" -> 17 [] level = "fatal" -> 21 [] OTHER -> 0

EmptyQuery ==
    [services |-> {}, severity |-> 0, terms |-> {}, trace |-> Null, fingerprint |-> Null,
     crash |-> Null, exceptions |-> FALSE, columns |-> {}, attributes |-> {},
     notTerms |-> {}, notServices |-> {}, notColumns |-> {}, notAttributes |-> {}]

Excluded(q, t) ==
    IF t.key = "" THEN [q EXCEPT !.notTerms = @ \cup {t.value}]
    ELSE IF t.key = "service" THEN [q EXCEPT !.notServices = @ \cup ToSet(t.value)]
    ELSE IF t.key \in DOMAIN ColumnAliases
         THEN [q EXCEPT !.notColumns = @ \cup {<<ColumnAliases[t.key], t.value>>}]
    ELSE [q EXCEPT !.notAttributes = @ \cup {<<t.key, t.value>>}]

Asked(q, t) ==
    LET one == t.value[1] IN
    CASE t.key = "" -> [q EXCEPT !.terms = @ \cup {t.value}]
      [] t.key = "service" -> [q EXCEPT !.services = @ \cup ToSet(t.value)]
      [] t.key = "level" -> [q EXCEPT !.severity = IF LevelToSeverity(one) > @ THEN LevelToSeverity(one) ELSE @]
      [] t.key = "trace" -> [q EXCEPT !.trace = one]
      [] t.key = "fingerprint" -> [q EXCEPT !.fingerprint = one]
      [] t.key = "crash" -> [q EXCEPT !.crash = one \in {"true", "1", "yes"}]
      [] t.key = "has" /\ one = "exception" -> [q EXCEPT !.exceptions = TRUE]
      [] t.key \in DOMAIN ColumnAliases -> [q EXCEPT !.columns = @ \cup {<<ColumnAliases[t.key], t.value>>}]
      [] OTHER -> [q EXCEPT !.attributes = @ \cup {<<t.key, t.value>>}]

Taken(q, t) == IF t.neg THEN Excluded(q, t) ELSE Asked(q, t)

\* The tokens are taken one after the other.
Parse(tokens) ==
    LET after[i \in 0 .. Len(tokens)] == IF i = 0 THEN EmptyQuery ELSE Taken(after[i - 1], tokens[i])
    IN  after[Len(tokens)]

-----------------------------------------------------------------------------
\* One log: service, host, env, severity, trace, fingerprint, crash, body, exception, attributes.

ColumnValue(row, column) == IF column = "env" THEN row.env ELSE row.host

\* An attribute of the JSON text, Null for a JSON null: GetRawText makes it a text, json_extract_string
\* an absent value.
Attribute(row, key) ==
    IF key \notin DOMAIN row.attributes THEN Null
    ELSE IF row.attributes[key] = Null THEN "null" ELSE row.attributes[key]

StoredAttribute(row, key) == IF key \in DOMAIN row.attributes THEN row.attributes[key] ELSE Null

HasText(text, term) ==
    /\ text # Null
    /\ \E i \in 0..(Len(text) - Len(term)) : \A k \in 1..Len(term) : FoldCase[text[i + k]] = FoldCase[term[k]]

\* Equality, or a pattern with *; of a list, any.
WildcardEquals(actual, patterns) ==
    /\ actual # Null
    /\ \E p \in ToSet(patterns) : IF p \in DOMAIN LiveGlobs THEN actual \in LiveGlobs[p] ELSE actual = p

\* A condition on the environment whose name is a configured one.
Configured(filter, c) == c[1] = "env" /\ Len(c[2]) = 1 /\ Find(filter, c[2][1]) # Null

\* Whether the live tail shows a log.
Matches(filter, q, row) ==
    /\ q.services # {} => row.service \in q.services
    /\ row.service \notin q.notServices
    /\ row.severity >= q.severity
    /\ q.trace # Null => row.trace = q.trace
    /\ q.fingerprint # Null => row.fingerprint = q.fingerprint
    /\ q.crash # Null => row.crash = q.crash
    /\ q.exceptions => row.fingerprint # Null
    /\ \A term \in q.terms : HasText(row.body, term) \/ HasText(row.exception, term)
    /\ \A term \in q.notTerms : ~HasText(row.body, term)
    /\ \A c \in q.columns :
           IF Configured(filter, c)
           THEN EnvironmentMatches(filter, c[2][1], row.service, row.env)
           ELSE WildcardEquals(ColumnValue(row, c[1]), c[2])
    /\ \A c \in q.notColumns : ~WildcardEquals(ColumnValue(row, c[1]), c[2])
    /\ \A a \in q.attributes : WildcardEquals(Attribute(row, a[1]), a[2])
    /\ \A a \in q.notAttributes : ~WildcardEquals(Attribute(row, a[1]), a[2])

\* The condition on a column and the one on a list of values, true of a row (NULL is not true).
ValueFilter(actual, patterns) ==
    actual # Null /\ \E p \in ToSet(patterns) : actual \in IF p \in DOMAIN Globs THEN Globs[p] ELSE {p}

ColumnFilter(filter, row, c) ==
    IF Configured(filter, c)
    THEN EnvironmentCondition(filter, c[2][1], row.service, row.env)
    ELSE ValueFilter(ColumnValue(row, c[1]), c[2])

Exclusions(filter, q, row) ==
    /\ row.service \notin q.notServices
    /\ \A c \in q.notColumns : ~ColumnFilter(filter, row, c)
    /\ \A a \in q.notAttributes : ~ValueFilter(StoredAttribute(row, a[1]), a[2])

\* Whether the SQL of a search returns a log.
LogFilters(filter, q, row) ==
    /\ q.services # {} => row.service \in q.services
    /\ q.severity > 0 => row.severity >= q.severity
    /\ q.trace # Null => row.trace = q.trace
    /\ q.fingerprint # Null => row.fingerprint = q.fingerprint
    /\ q.crash # Null => row.crash = q.crash
    /\ q.exceptions => row.fingerprint # Null
    /\ \A term \in q.terms : HasText(row.body, term) \/ HasText(row.exception, term)
    /\ \A term \in q.notTerms : ~HasText(row.body, term)
    /\ \A c \in q.columns : ColumnFilter(filter, row, c)
    /\ \A a \in q.attributes : ValueFilter(StoredAttribute(row, a[1]), a[2])
    /\ Exclusions(filter, q, row)

-----------------------------------------------------------------------------
\* The index of a segment: the services and the traces it holds, its highest severity, whether it
\* holds an exception, and the trigrams of its texts.

IsCode(char) == FoldCase[char] # "-"

Trigrams(text) ==
    {<<FoldCase[text[i - 2]], FoldCase[text[i - 1]], FoldCase[text[i]]>> :
        i \in {j \in 3..Len(text) : \A k \in (j - 2)..j : IsCode(text[k])}}

AllTrigrams == LET letters == {FoldCase[c] : c \in DOMAIN FoldCase} IN letters \X letters \X letters

\* BloomFilter.Add and MayContain: four positions, from the two halves of the hash.
Positions(trace) ==
    LET h2 == 2 * (Hash[trace][2] \div 2) + 1 IN {(Hash[trace][1] + i * h2) % Bits : i \in 0..3}

\* What a row adds to the index.
IndexOf(row) ==
    [services   |-> {row.service},
     severity   |-> row.severity,
     exceptions |-> row.fingerprint # Null,
     traces     |-> IF row.trace = Null THEN Null ELSE Positions(row.trace),
     text       |-> Trigrams(row.body) \cup (IF row.exception = Null THEN {} ELSE Trigrams(row.exception))]

Both(a, b) == IF a = Null THEN b ELSE IF b = Null THEN a ELSE a \cup b

\* The texts of the second segment are forgotten.
Merge_firstText(i, j) ==
    [services   |-> i.services \cup j.services,
     severity   |-> IF j.severity > i.severity THEN j.severity ELSE i.severity,
     exceptions |-> i.exceptions \/ j.exceptions,
     traces     |-> Both(i.traces, j.traces),
     text       |-> i.text]

\* SegmentIndex.Merge, which compaction uses.
Merge(i, j) ==
    [services   |-> i.services \cup j.services,
     severity   |-> IF j.severity > i.severity THEN j.severity ELSE i.severity,
     exceptions |-> i.exceptions \/ j.exceptions,
     traces     |-> Both(i.traces, j.traces),
     text       |-> Both(i.text, j.text)]

\* The index of a segment whose index file is lost.
Unknown(services) ==
    [services |-> services, severity |-> 255, exceptions |-> TRUE, traces |-> 0..(Bits - 1), text |-> AllTrigrams]

\* Whether a search opens the segment.
MayMatch(q, index) ==
    /\ q.services # {} => q.services \cap index.services # {}
    /\ q.severity > 0 => index.severity >= q.severity
    /\ (q.exceptions \/ q.fingerprint # Null \/ q.crash = TRUE) => index.exceptions
    /\ q.trace # Null => index.traces # Null /\ Positions(q.trace) \subseteq index.traces
    /\ index.text # Null => \A term \in q.terms : Trigrams(term) \subseteq index.text
=============================================================================
