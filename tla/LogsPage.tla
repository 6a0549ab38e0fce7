------------------------------- MODULE LogsPage -------------------------------
(***************************************************************************)
(* The page of the logs (ui/src/app/pages/logs.ts) and its list, a window  *)
(* that slides over millions of logs (ui/src/app/core/windowed-list.ts),   *)
(* over what the server answers: a page of logs around a cursor            *)
(* (QueryService.SearchLogs), or the logs as they come (LiveTail).         *)
(*                                                                         *)
(* The browser runs one handler at a time; answers come when they come,    *)
(* and the server stores logs, late ones too, between any two steps.  A    *)
(* query stands for all that a search depends on: text, level, service,    *)
(* environment and period.  The histogram and the open log are left out.   *)
(***************************************************************************)
EXTENDS Integers, Sequences, FiniteSets, SequencesExt

CONSTANTS
    Logs,          \* the logs that may come: the tick of 100 ns of each, and its key
    Precision,     \* the ticks in a microsecond, which is all that DuckDB keeps
    Matching,      \* the logs that each query asks for
    FirstQuery,    \* the query of the page as it opens
    PageSize, MaxItems, MaxLive,
    ChannelSize,   \* logs that wait for the browser, at most
    BatchSize,     \* logs of one message of the stream, at most
    MaxSegments,   \* bound: segments
    MaxActs,       \* bound: changes of query, turns to the stream and back, lost connections, failed requests
    Null           \* nothing

VARIABLES
    hot, segments,          \* the server: the logs in memory, and those of each segment
    announced,              \* the log that was stored and is not published yet
    query,                  \* appliedQuery, level, service, environment and period
    live,
    items, hasOlder, hasNewer,
    search,                 \* subs: the request of load() and what the server answered
    more,                   \* sub, loadingMore: the request of the list
    stream,                 \* source: the query of the stream, whether it is open, what waits in its channel
    error,                  \* a search failed
    acts,
    \* history
    known,                  \* the logs that were stored when the search of the list was answered
    before,                 \* the logs that were published when the stream began
    overdue                 \* a search was under way when it did

logVars == <<hot, segments, announced, query, live, items, hasOlder, hasNewer, search, more, stream, error, acts,
             known, before, overdue>>

Queries == DOMAIN Matching
Stored == hot \cup UNION segments

Micro(r) == r.tick \div Precision

\* ORDER BY ts DESC, key DESC: whether a comes before b in the list.
Above(a, b) == Micro(a) > Micro(b) \/ (Micro(a) = Micro(b) /\ a.key > b.key)

TypeOK ==
    /\ hot \subseteq Logs /\ segments \subseteq SUBSET Logs /\ announced \in Logs \cup {Null}
    /\ query \in Queries /\ live \in BOOLEAN
    /\ ToSet(items) \subseteq Logs /\ {hasOlder, hasNewer, error, overdue} \subseteq BOOLEAN
    /\ search = Null \/ (search.query \in Queries /\ search.stored \subseteq Logs)
    /\ more = Null \/ (more.query \in Queries /\ more.direction \in {"older", "newer"} /\ more.from \in Logs)
    /\ stream = Null \/ (stream.query \in Queries /\ ToSet(stream.channel) \subseteq Logs)
    /\ acts \in 0..MaxActs /\ known \subseteq Logs /\ before \subseteq Logs

-----------------------------------------------------------------------------
\* SearchLogs.  A cursor is a log, of which the browser knows the microsecond and the key.

\* Whether a segment may hold logs between two moments, given in microseconds.
Overlaps(segment, lower, upper) ==
    /\ \E r \in segment : r.tick >= Precision * (lower - 1)
    /\ \E r \in segment : r.tick <= Precision * (upper + 1)

\* The logs that the source of the query opens.
Source(lower, upper) == hot \cup UNION {s \in segments : Overlaps(s, lower, upper)}

UpTo(n, s) == IF Len(s) <= n THEN s ELSE SubSeq(s, 1, n)

\* A set of logs, in the order of the list.
Listed(rows) ==
    CHOOSE s \in [1 .. Cardinality(rows) -> rows] : \A i, j \in DOMAIN s : i < j => Above(s[i], s[j])

\* The first of a set of logs.
Newest(rows) == UpTo(PageSize, Listed(rows))

\* The last of a set of logs: ORDER BY ts ASC, key ASC, LIMIT, then reversed.
Oldest(rows) ==
    LET all == Listed(rows)
    IN  IF Len(all) <= PageSize THEN all ELSE SubSeq(all, Len(all) - PageSize + 1, Len(all))

Lowest  == CHOOSE m \in {Micro(r) : r \in Logs} : \A r \in Logs : m <= Micro(r)
Highest == CHOOSE m \in {Micro(r) : r \in Logs} : \A r \in Logs : m >= Micro(r)

FirstPage(q) == Newest(Source(Lowest, Highest) \cap Matching[q])

OlderThan(q, c) ==
    Newest({r \in Source(Lowest, Micro(c)) \cap Matching[q] :
                Micro(r) <= Micro(c) /\ (Micro(r) < Micro(c) \/ r.key < c.key)})

NewerThan(q, c) ==
    Oldest({r \in Source(Micro(c), Highest) \cap Matching[q] :
                Micro(r) >= Micro(c) /\ (Micro(r) > Micro(c) \/ r.key > c.key)})

-----------------------------------------------------------------------------
\* The server.

\* TryWrite in a bounded channel that drops its oldest log.
Written(channel, r) ==
    LET longer == Append(channel, r) IN IF Len(longer) > ChannelSize THEN Tail(longer) ELSE longer

\* A log is stored: it may be read.
Store(r) ==
    /\ r \notin Stored /\ announced = Null
    /\ hot' = hot \cup {r} /\ announced' = r
    /\ UNCHANGED <<segments, query, live, items, hasOlder, hasNewer, search, more, stream, error, acts,
                   known, before, overdue>>

\* RowsStored, Publish: it is sent to the stream that asks for it.  The writer does this before it
\* stores or flushes anything else.
Publish ==
    /\ announced # Null
    /\ announced' = Null
    /\ stream' = IF stream # Null /\ stream.open /\ announced \in Matching[stream.query]
                 THEN [stream EXCEPT !.channel = Written(@, announced)] ELSE stream
    /\ UNCHANGED <<hot, segments, query, live, items, hasOlder, hasNewer, search, more, error, acts,
                   known, before, overdue>>

\* The logs in memory become a segment.
Flush ==
    /\ hot # {} /\ announced = Null /\ Cardinality(segments) < MaxSegments
    /\ segments' = segments \cup {hot} /\ hot' = {}
    /\ UNCHANGED <<announced, query, live, items, hasOlder, hasNewer, search, more, stream, error, acts,
                   known, before, overdue>>

\* GET /api/logs is evaluated; its answer is on its way.
Serve ==
    /\ search # Null /\ search.page = Null
    /\ search' = [search EXCEPT !.page = FirstPage(search.query), !.stored = Stored]
    /\ UNCHANGED <<hot, announced, segments, query, live, items, hasOlder, hasNewer, more, stream, error, acts,
                   known, before, overdue>>

ServeMore ==
    /\ more # Null /\ more.page = Null
    /\ more' = [more EXCEPT !.page = IF more.direction = "older" THEN OlderThan(more.query, more.from)
                                                                 ELSE NewerThan(more.query, more.from)]
    /\ UNCHANGED <<hot, announced, segments, query, live, items, hasOlder, hasNewer, search, stream, error, acts,
                   known, before, overdue>>

\* GET /api/logs/tail: Subscribe.
Open ==
    /\ stream # Null /\ ~stream.open
    /\ stream' = [stream EXCEPT !.open = TRUE]
    /\ UNCHANGED <<hot, announced, segments, query, live, items, hasOlder, hasNewer, search, more, error, acts,
                   known, before, overdue>>

-----------------------------------------------------------------------------
\* The list.

Asking(q) == [query |-> q, page |-> Null, stored |-> {}]

\* What the list was asking for goes on.
Reset_keepsRequest(first) ==
    /\ items' = first
    /\ hasOlder' = (Len(first) >= PageSize) /\ hasNewer' = FALSE
    /\ UNCHANGED more

\* reset: what the list was asking for is cancelled.
Reset(first) ==
    /\ items' = first
    /\ hasOlder' = (Len(first) >= PageSize) /\ hasNewer' = FALSE
    /\ more' = Null

\* onRange, while the logs of the bottom or those of the top are in sight; not while live.
Scroll(bottom, top) ==
    /\ ~live /\ more = Null /\ items # <<>>
    /\ LET asks(direction, from) ==
               more' = [query |-> query, direction |-> direction, from |-> from, page |-> Null]
       IN  \/ bottom /\ hasOlder /\ asks("older", Last(items))
           \/ ~(bottom /\ hasOlder) /\ top /\ hasNewer /\ asks("newer", Head(items))
    /\ UNCHANGED <<hot, announced, segments, query, live, items, hasOlder, hasNewer, search, stream, error, acts,
                   known, before, overdue>>

\* The answer of the list: the window grows on one side and gives up what is too much on the other.
MoreAnswer ==
    /\ more # Null /\ more.page # Null
    /\ LET full   == Len(more.page) >= PageSize
           next   == IF more.direction = "older" THEN items \o more.page ELSE more.page \o items
           excess == Len(next) - MaxItems
       IN  IF more.direction = "older"
           THEN /\ items' = IF excess > 0 THEN SubSeq(next, excess + 1, Len(next)) ELSE next
                /\ hasOlder' = full /\ hasNewer' = (hasNewer \/ excess > 0)
           ELSE /\ items' = UpTo(MaxItems, next)
                /\ hasNewer' = full /\ hasOlder' = (hasOlder \/ excess > 0)
    /\ more' = Null
    /\ UNCHANGED <<hot, announced, segments, query, live, search, stream, error, acts, known, before, overdue>>

-----------------------------------------------------------------------------
\* The page.

\* load: the search under way is cancelled.
Load(q) ==
    /\ search' = Asking(q) /\ error' = FALSE
    /\ UNCHANGED <<items, hasOlder, hasNewer, more>>

\* startLive: the stream before is closed; a search under way goes on.
StartLive(q) ==
    /\ stream' = [query |-> q, open |-> FALSE, channel |-> <<>>]
    /\ Reset(<<>>)
    /\ before' = Stored \ {announced} /\ overdue' = (search # Null)

Act == acts < MaxActs /\ acts' = acts + 1

\* The query changes, or is asked again: the effect of the constructor.
Apply ==
    /\ Act
    /\ \E q \in Queries :
           /\ query' = q
           /\ \/ live /\ StartLive(q) /\ UNCHANGED <<search, error>>
              \/ ~live /\ Load(q) /\ UNCHANGED <<stream, before, overdue>>
    /\ UNCHANGED <<hot, announced, segments, live, known>>

\* toggleLive.
ToggleLive ==
    /\ Act
    /\ live' = ~live
    /\ \/ ~live /\ StartLive(query) /\ UNCHANGED <<search, error>>
       \/ live /\ stream' = Null /\ Load(query) /\ UNCHANGED <<before, overdue>>
    /\ UNCHANGED <<hot, announced, segments, query, known>>

\* The answer of the search.
Answer ==
    /\ search # Null /\ search.page # Null
    /\ Reset(search.page)
    /\ search' = Null
    /\ known' = search.stored
    /\ UNCHANGED <<hot, announced, segments, query, live, stream, error, acts, before, overdue>>

\* The search fails: the list stays as it is.
Fail ==
    /\ Act /\ search # Null
    /\ search' = Null /\ error' = TRUE
    /\ UNCHANGED <<hot, announced, segments, query, live, items, hasOlder, hasNewer, more, stream,
                   known, before, overdue>>

FailMore ==
    /\ Act /\ more # Null
    /\ more' = Null
    /\ UNCHANGED <<hot, announced, segments, query, live, items, hasOlder, hasNewer, search, stream, error,
                   known, before, overdue>>

\* A message of the stream: its logs enter the list from above, which forgets its oldest.
Message ==
    /\ stream # Null /\ stream.channel # <<>>
    /\ \E n \in 1..BatchSize :
           /\ n <= Len(stream.channel) /\ (n = Len(stream.channel) \/ n = BatchSize)
           /\ items' = UpTo(MaxLive, Reverse(SubSeq(stream.channel, 1, n)) \o items)
           /\ stream' = [stream EXCEPT !.channel = SubSeq(@, n + 1, Len(@))]
    /\ UNCHANGED <<hot, announced, segments, query, live, hasOlder, hasNewer, search, more, error, acts,
                   known, before, overdue>>

\* The connection of the stream is lost; the browser opens it again.
Disconnect ==
    /\ Act /\ stream # Null /\ stream.open
    /\ stream' = [stream EXCEPT !.open = FALSE, !.channel = <<>>]
    /\ UNCHANGED <<hot, announced, segments, query, live, items, hasOlder, hasNewer, search, more, error,
                   known, before, overdue>>

-----------------------------------------------------------------------------
Init ==
    /\ hot = {} /\ segments = {} /\ announced = Null
    /\ query = FirstQuery /\ live = FALSE
    /\ items = <<>> /\ hasOlder = FALSE /\ hasNewer = FALSE
    /\ search = Asking(FirstQuery) /\ more = Null /\ stream = Null
    /\ error = FALSE /\ acts = 0
    /\ known = {} /\ before = {} /\ overdue = FALSE

Next ==
    \/ \E r \in Logs : Store(r)
    \/ Publish \/ Flush \/ Serve \/ ServeMore \/ Open
    \/ \E bottom, top \in BOOLEAN : Scroll(bottom, top)
    \/ MoreAnswer \/ Apply \/ ToggleLive \/ Answer \/ Fail \/ FailMore \/ Message \/ Disconnect

-----------------------------------------------------------------------------
\* The list is in order, without a log twice.
InOrder == \A i, j \in DOMAIN items : i < j => Above(items[i], items[j])

\* Of the logs that were there when the search was answered, all those between the first and the
\* last of the list are in it, and the others may still be reached by scrolling.
WindowIsWhole ==
    \A r \in known \cap Matching[query] :
        \/ r \in ToSet(items)
        \/ items # <<>> /\ Above(Last(items), r) /\ hasOlder
        \/ items # <<>> /\ Above(r, Head(items)) /\ hasNewer

\* logs.ts:129: live, the list holds logs received since the stream began, none twice.
LiveIsNew ==
    /\ \A i, j \in DOMAIN items : i # j => items[i] # items[j]
    /\ ToSet(items) \cap before = {}

\* windowed-list.ts:26: one scrolls through millions of logs, of which the page keeps a few, and
\* misses none; the live list is not a search, and a search is not the live list.  What is shown
\* while a search is under way, or after it failed, answers the one before.  A search that was under
\* way when the stream began puts its logs in the live list (logs.ts:787 does not cancel it).
ListFollowsQuery ==
    /\ ~live /\ search = Null /\ ~error => ToSet(items) \subseteq Matching[query] /\ InOrder /\ WindowIsWhole
    /\ live /\ ~overdue => ToSet(items) \subseteq Matching[query] /\ LiveIsNew

=============================================================================
