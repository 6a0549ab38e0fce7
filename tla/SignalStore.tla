----------------------------- MODULE SignalStore -----------------------------
(***************************************************************************)
(* Storage pipeline of one signal (logs, spans, metrics, analytics):       *)
(* Wolflog.Server/Storage/SignalStore.cs and Wal.cs.                       *)
(*                                                                         *)
(* Requests enter a bounded channel.  One writer takes them by batches,    *)
(* appends the payloads to the write-ahead log of the current generation,  *)
(* appends the rows to the hot table of that generation, answers the       *)
(* callers and, from time to time, turns the hot table into a Parquet      *)
(* segment.  Compactors, retention and deferred jobs run beside the writer *)
(* and share with it only the immutable snapshot.  The process may crash   *)
(* at any step; the WAL files and the Parquet files are what remains.      *)
(*                                                                         *)
(* Data abstraction: an IngestAsync call is a member of Batches; rows,     *)
(* payload bytes and index contents are left out.  How many copies of a    *)
(* batch a file or a table holds is kept as none, one or several.          *)
(***************************************************************************)
EXTENDS Naturals, Sequences, FiniteSets

CONSTANTS
    Batches,         \* IngestAsync calls, each with its own rows and payload
    Flushes,         \* FlushAsync calls
    Tick,            \* the flush request of the timer, which nobody awaits
    Compactors,      \* threads running CompactAsync: "timer" and/or "api"
    Queries,         \* concurrent readers of a snapshot
    LastHour,        \* bound: wall-clock hours are 0..LastHour
    BatchLimit,      \* items one turn of the writer takes (256 in the code)
    ChannelCapacity, \* capacity of the channel (4096 in the code)
    Retention,       \* whether retention runs
    Crashes,         \* whether the process may crash
    Faults,          \* the kinds of I/O failure that may happen
    MaxFaults,       \* bound on the number of such failures
    MaxStarts,       \* bound on the number of starts of the process
    MaxCompactions   \* bound on the number of merged segments written

FaultKinds == {"wal", "torn", "open", "append", "parquet", "walDelete",
               "fileDelete", "replay", "load"}

ASSUME ConstantsAssumption ==
    /\ Batches \cap Flushes = {}
    /\ Tick \notin Batches \cup Flushes
    /\ Compactors \subseteq {"timer", "api"}
    /\ LastHour \in Nat
    /\ BatchLimit \in Nat \ {0}
    /\ ChannelCapacity \in Nat \ {0}
    /\ Retention \in BOOLEAN /\ Crashes \in BOOLEAN
    /\ Faults \subseteq FaultKinds
    /\ MaxFaults \in Nat /\ MaxStarts \in Nat /\ MaxCompactions \in Nat

VARIABLES
    \* on disk
    wal,        \* generation -> what Wal.Read returns of its file
    parquet,    \* segment path -> its rows
    \* the writer
    pc,         \* where the writer (or Start, or DisposeAsync) stands
    ctx,        \* which of the three called FlushCore
    gen,        \* Wal.Generation, also the suffix of _hotTable
    walOpen,    \* whether the stream of the current generation is usable
    dirty,      \* _hotRows > 0
    tables,     \* generation -> rows of its in-memory table
    batch,      \* the items of the current turn
    replaying,  \* WAL files Recover still has to delete
    \* shared
    channel,
    closed,     \* DisposeAsync has completed the channel
    snapshot,   \* _snapshot
    drops,      \* deferred DROP TABLE jobs
    deletes,    \* deferred file deletions
    compaction, \* compactor -> groups left, and the one being merged
    victims,    \* segments retention has chosen and not removed yet
    queries,    \* reader -> the snapshot it reads
    \* callers
    answer,     \* outcome of each call, as its caller knows it
    released,   \* batches that retention has removed (history)
    \* environment
    hour, ticks, starts, faults

diskVars   == <<wal, parquet>>
writerVars == <<pc, ctx, gen, walOpen, dirty, tables, batch, replaying>>
otherVars  == <<compaction, victims, queries>>
clockVars  == <<hour, ticks, starts, faults>>
vars == <<wal, parquet, pc, ctx, gen, walOpen, dirty, tables, batch, replaying,
          channel, closed, snapshot, drops, deletes, compaction, victims,
          queries, answer, released, hour, ticks, starts, faults>>

Requests == Batches \cup Flushes
Hours    == 0 .. LastHour
Paths    == [kind : {"seg", "cmp"}, id : Nat, hour : Hours]
Contents == [rows : SUBSET Batches, twice : SUBSET Batches]
WalFiles == [ok : SUBSET Batches, torn : BOOLEAN]

-----------------------------------------------------------------------------
(* Contents of a table or of a segment: the batches present, and those     *)
(* present more than once.                                                 *)

Empty == [rows |-> {}, twice |-> {}]

\* AppendRows of the batches B, each once.
Plus(c, B) == [rows |-> c.rows \cup B, twice |-> c.twice \cup (c.rows \cap B)]

\* UNION ALL of several sources: the contents c[x] for x in S.
UnionAll(c, S) ==
    [rows  |-> UNION {c[x].rows : x \in S},
     twice |-> (UNION {c[x].twice : x \in S})
               \cup {b \in Batches : \E x, y \in S :
                        x # y /\ b \in c[x].rows \cap c[y].rows}]

Without(f, S) == [x \in DOMAIN f \ S |-> f[x]]
With(f, x, v) == [y \in DOMAIN f \cup {x} |-> IF y = x THEN v ELSE f[y]]

NoSnapshot   == [segments |-> {}, tables |-> {}]
NoCompaction == [groups |-> {}, sources |-> {}, merged |-> {}]

\* The batches among the first n items of s.
DataOf(s, n) == {s[i] : i \in 1 .. n} \cap Batches

May(kind) == kind \in Faults /\ faults < MaxFaults
Fault     == faults' = faults + 1

\* The process has started, and its timers and endpoints are open.
Serving == pc # "down" /\ ctx # "start" /\ ~closed

WaitingAmong(R) == {r \in R : answer[r] = "waiting"}
Answered(R, outcome) ==
    [r \in Requests |-> IF r \in WaitingAmong(R) THEN outcome ELSE answer[r]]
Items == {batch[i] : i \in 1 .. Len(batch)} \cap Requests

-----------------------------------------------------------------------------
(* The write-ahead log.  Read stops at the first torn record, so what is   *)
(* appended behind one is never read back.                                 *)

\* Open appends to the file of the generation, new unless it exists.
Opened(g) ==
    With(wal, g, IF g \in DOMAIN wal THEN wal[g] ELSE [ok |-> {}, torn |-> FALSE])

\* Mutant: Commit is forgotten.
Logged_uncommitted(w, B) == w

Logged(w, B) == IF w.torn THEN w ELSE [w EXCEPT !.ok = @ \cup B]

Highest(S) == CHOOSE m \in S : \A x \in S : x <= m

\* Every generation a WAL file or a segment that was loaded bears: a merged segment bears none.
Generations(loaded) ==
    {0} \cup DOMAIN wal \cup {p.id : p \in {q \in loaded : q.kind = "seg"}}

\* Mutant: generations start again from 1.
NextGeneration_fromOne(loaded) == 1

\* Start: one more than any of them.
NextGeneration(loaded) == 1 + Highest(Generations(loaded))

-----------------------------------------------------------------------------
Init ==
    /\ wal = << >> /\ parquet = << >>
    /\ pc = "down" /\ ctx = "loop" /\ gen = 0 /\ walOpen = FALSE
    /\ dirty = FALSE /\ tables = << >> /\ batch = << >> /\ replaying = {}
    /\ channel = << >> /\ closed = FALSE /\ snapshot = NoSnapshot
    /\ drops = {} /\ deletes = {} /\ victims = {}
    /\ compaction = [c \in Compactors |-> NoCompaction]
    /\ queries = [q \in Queries |-> NoSnapshot]
    /\ answer = [r \in Requests |-> "none"] /\ released = {}
    /\ hour = 0 /\ ticks = 0 /\ starts = 0 /\ faults = 0

\* Whatever ends the process, its memory goes and its callers get no answer.
ProcessGone ==
    /\ pc' = "down" /\ ctx' = "loop" /\ gen' = 0 /\ walOpen' = FALSE
    /\ dirty' = FALSE /\ tables' = << >> /\ batch' = << >> /\ replaying' = {}
    /\ channel' = << >> /\ closed' = FALSE /\ snapshot' = NoSnapshot
    /\ drops' = {} /\ deletes' = {} /\ victims' = {}
    /\ compaction' = [c \in Compactors |-> NoCompaction]
    /\ queries' = [q \in Queries |-> NoSnapshot]
    /\ answer' = Answered(Requests, "failed")
    /\ UNCHANGED <<released, clockVars>>

\* A crash of the process, or an exception that leaves Start.  Between Append
\* and Commit any number of whole records may have reached the file; a partial
\* one ends it, and nothing is appended to that file any more.
Crash ==
    /\ Crashes /\ pc # "down"
    /\ IF pc = "wal" /\ walOpen
         THEN \E n \in 0 .. Len(batch) :
                wal' = [wal EXCEPT ![gen] = Logged(@, DataOf(batch, n))]
         ELSE UNCHANGED wal
    /\ UNCHANGED parquet
    /\ ProcessGone

-----------------------------------------------------------------------------
(* Start: load every segment file, open a fresh generation, replay the WAL *)
(* files that were there, flush, delete them.                              *)

Started(loaded) ==
    /\ pc = "down" /\ starts < MaxStarts /\ starts' = starts + 1
    /\ gen' = NextGeneration(loaded) /\ walOpen' = TRUE /\ dirty' = FALSE
    /\ tables' = [g \in {gen'} |-> Empty]
    /\ snapshot' = [segments |-> loaded, tables |-> {gen'}]
    /\ wal' = Opened(gen')
    /\ replaying' = DOMAIN wal
    /\ IF DOMAIN wal = {}
         THEN pc' = "idle" /\ ctx' = "loop"
         ELSE pc' = "replay" /\ ctx' = "start"
    /\ UNCHANGED <<parquet, batch, channel, closed, drops, deletes, otherVars,
                   answer, released, hour, ticks>>

Start == Started(DOMAIN parquet) /\ UNCHANGED faults

\* LoadSegments skips the segments that it cannot read: they stay on disk, unseen until a later
\* start reads them.
StartSkipping ==
    /\ May("load") /\ Fault
    /\ \E loaded \in SUBSET DOMAIN parquet : loaded # DOMAIN parquet /\ Started(loaded)

\* Recover reads every file and appends its records to the hot table.  A record
\* whose AppendRows fails is logged and skipped.
Replay ==
    /\ pc = "replay" /\ pc' = "flush"
    /\ \E skipped \in SUBSET UNION {wal[g].ok : g \in replaying} :
         /\ \/ skipped = {} /\ UNCHANGED faults
            \/ skipped # {} /\ May("replay") /\ Fault
         /\ LET files == [g \in replaying |->
                            [rows |-> wal[g].ok \ skipped, twice |-> {}]]
            IN  /\ tables' = [tables EXCEPT ![gen] = UnionAll(files, replaying)]
                /\ dirty' = (tables'[gen].rows # {})
    /\ UNCHANGED <<diskVars, ctx, gen, walOpen, batch, replaying, channel,
                   closed, snapshot, drops, deletes, otherVars, answer,
                   released, hour, ticks, starts>>

\* Once flushed, the replayed files are deleted one by one; a file that cannot
\* be deleted stays.
DeleteReplayed(g) ==
    /\ pc = "cleanup" /\ g \in replaying
    /\ replaying' = replaying \ {g}
    /\ \/ wal' = Without(wal, {g}) /\ UNCHANGED faults
       \/ May("walDelete") /\ Fault /\ UNCHANGED wal
    /\ UNCHANGED <<parquet, pc, ctx, gen, walOpen, dirty, tables, batch, channel,
                   closed, snapshot, drops, deletes, otherVars, answer,
                   released, hour, ticks, starts>>

Recovered ==
    /\ pc = "cleanup" /\ replaying = {}
    /\ pc' = "idle" /\ ctx' = "loop"
    /\ UNCHANGED <<diskVars, gen, walOpen, dirty, tables, batch, replaying,
                   channel, closed, snapshot, drops, deletes, otherVars,
                   answer, released, clockVars>>

-----------------------------------------------------------------------------
(* Callers and timer.                                                      *)

Submit(r) ==
    /\ Serving /\ Len(channel) < ChannelCapacity
    /\ channel' = Append(channel, r)
    /\ UNCHANGED <<diskVars, writerVars, closed, snapshot, drops, deletes,
                   otherVars, released, clockVars>>

\* IngestAsync or FlushAsync, up to the await of its answer.
Call(r) ==
    /\ answer[r] = "none"
    /\ Submit(r)
    /\ answer' = [answer EXCEPT ![r] = "waiting"]

\* TimerLoop asks for a flush when the interval has elapsed.  Bound: one such
\* request in the channel at a time.
TimerFlush ==
    /\ dirty /\ \A i \in 1 .. Len(channel) : channel[i] # Tick
    /\ Submit(Tick)
    /\ UNCHANGED answer

\* The request of the caller is aborted: it stops waiting, its item remains.
Cancel(b) ==
    /\ answer[b] = "waiting"
    /\ answer' = [answer EXCEPT ![b] = "failed"]
    /\ UNCHANGED <<diskVars, writerVars, channel, closed, snapshot, drops,
                   deletes, otherVars, released, clockVars>>

-----------------------------------------------------------------------------
(* WriterLoop.                                                             *)

TakeBatch ==
    /\ pc = "idle" /\ channel # << >>
    /\ LET n == IF Len(channel) < BatchLimit THEN Len(channel) ELSE BatchLimit
       IN  /\ batch' = SubSeq(channel, 1, n)
           /\ channel' = SubSeq(channel, n + 1, Len(channel))
    /\ pc' = "wal"
    /\ UNCHANGED <<diskVars, ctx, gen, walOpen, dirty, tables, replaying,
                   closed, snapshot, drops, deletes, otherVars, answer,
                   released, clockVars>>

\* Mutant: the exception is logged and nobody is told.
Raise_silent ==
    /\ pc' = IF ctx = "loop" THEN "idle" ELSE "stopped"
    /\ UNCHANGED answer
    /\ batch' = << >>

\* Mutant: the callers get a success from a finally block.
Raise_success ==
    /\ pc' = IF ctx = "loop" THEN "idle" ELSE "stopped"
    /\ answer' = Answered(Items, "acked")
    /\ batch' = << >>

\* The catch blocks: of the loop, where every item still waiting gets the
\* exception, and of the final flush, where it is only logged.
Raise ==
    /\ IF ctx = "loop"
         THEN pc' = "idle" /\ answer' = Answered(Items, "failed")
         ELSE pc' = "stopped" /\ UNCHANGED answer
    /\ batch' = << >>

\* Append of every payload, then Commit.
WriteWal ==
    /\ pc = "wal"
    /\ LET B == DataOf(batch, Len(batch))
       IN  \/ B = {} /\ UNCHANGED wal
           \/ B # {} /\ walOpen /\ wal' = [wal EXCEPT ![gen] = Logged(@, B)]
    /\ pc' = "append"
    /\ UNCHANGED <<parquet, ctx, gen, walOpen, dirty, tables, batch, replaying,
                   channel, closed, snapshot, drops, deletes, otherVars,
                   answer, released, clockVars>>

\* Append or Commit throws: the stream is unusable since a failed Open, or the
\* disk refuses.  What is buffered may reach the file later all the same, and a
\* record larger than the buffer may be left torn.
WalFails ==
    /\ pc = "wal" /\ DataOf(batch, Len(batch)) # {}
    /\ \/ ~walOpen /\ UNCHANGED <<wal, faults>>
       \/ /\ walOpen /\ May("wal") /\ Fault
          /\ \E n \in 0 .. Len(batch) :
               wal' = [wal EXCEPT ![gen] = Logged(@, DataOf(batch, n))]
       \/ /\ walOpen /\ May("torn") /\ Fault
          /\ \E n \in 0 .. Len(batch) - 1 :
               wal' = [wal EXCEPT ![gen] =
                         [Logged(@, DataOf(batch, n)) EXCEPT !.torn = TRUE]]
    /\ Raise
    /\ UNCHANGED <<parquet, ctx, gen, walOpen, dirty, tables, replaying,
                   channel, closed, snapshot, drops, deletes, otherVars,
                   released, hour, ticks, starts>>

AppendBatch ==
    /\ pc = "append" /\ pc' = "ack"
    /\ tables' = [tables EXCEPT ![gen] = Plus(@, DataOf(batch, Len(batch)))]
    /\ dirty' = (dirty \/ DataOf(batch, Len(batch)) # {})
    /\ UNCHANGED <<diskVars, ctx, gen, walOpen, batch, replaying, channel,
                   closed, snapshot, drops, deletes, otherVars, answer,
                   released, clockVars>>

\* AppendRows throws on item n + 1: the items before it are in the table, and
\* disposing the appender may have pushed some of its rows as well, uncounted.
AppendFails ==
    /\ pc = "append" /\ May("append") /\ Fault
    /\ \E n \in 0 .. Len(batch) - 1 :
         /\ batch[n + 1] \in Batches
         /\ \E m \in {n, n + 1} :
              tables' = [tables EXCEPT ![gen] = Plus(@, DataOf(batch, m))]
         /\ dirty' = (dirty \/ DataOf(batch, n) # {})
    /\ Raise
    /\ UNCHANGED <<diskVars, ctx, gen, walOpen, replaying, channel, closed,
                   snapshot, drops, deletes, otherVars, released, hour, ticks,
                   starts>>

\* Mutant: only the size and the age of the table lead to a flush.
Requested_never == FALSE

\* An item of the turn asks for a flush.
Requested == \E i \in 1 .. Len(batch) : batch[i] \notin Batches

\* Ingestion is answered; then the turn flushes when an item asks for it, and
\* may when the number of rows or the age of the table reaches its limit.
AckData ==
    /\ pc = "ack"
    /\ answer' = Answered(Items \cap Batches, "acked")
    /\ \/ (Requested \/ dirty) /\ pc' = "flush"
       \/ ~Requested /\ pc' = "ackflush"
    /\ UNCHANGED <<diskVars, ctx, gen, walOpen, dirty, tables, batch,
                   replaying, channel, closed, snapshot, drops, deletes,
                   otherVars, released, clockVars>>

AckFlush ==
    /\ pc = "ackflush" /\ pc' = "idle" /\ batch' = << >>
    /\ answer' = Answered(Items \cap Flushes, "acked")
    /\ UNCHANGED <<diskVars, ctx, gen, walOpen, dirty, tables, replaying,
                   channel, closed, snapshot, drops, deletes, otherVars,
                   released, clockVars>>

-----------------------------------------------------------------------------
(* FlushCore.                                                              *)

FlushReturns ==
    /\ pc' = CASE ctx = "start" -> "cleanup"
               [] ctx = "loop"  -> "ackflush"
               [] ctx = "stop"  -> "stopped"
    /\ UNCHANGED <<answer, batch>>

FlushNothing ==
    /\ pc = "flush" /\ ~dirty
    /\ FlushReturns
    /\ UNCHANGED <<diskVars, ctx, gen, walOpen, dirty, tables, replaying,
                   channel, closed, snapshot, drops, deletes, otherVars,
                   released, clockVars>>

\* OpenHotTable(generation + 1): new table, new WAL file, then the snapshot
\* under its lock.
FlushOpen ==
    /\ pc = "flush" /\ dirty /\ pc' = "write"
    /\ gen' = gen + 1 /\ dirty' = FALSE /\ walOpen' = TRUE
    /\ tables' = With(tables, gen', Empty)
    /\ wal' = Opened(gen')
    /\ snapshot' = [snapshot EXCEPT !.tables = @ \cup {gen'}]
    /\ UNCHANGED <<parquet, ctx, batch, replaying, channel, closed, drops,
                   deletes, otherVars, answer, released, clockVars>>

\* When Wal.Open throws, the table and the generation have already changed, the
\* stream is closed and the snapshot has not been touched.  CREATE TABLE, before
\* it, is taken to succeed: the tables are in memory.
FlushOpenFails ==
    /\ pc = "flush" /\ dirty /\ ctx # "start" /\ May("open") /\ Fault
    /\ gen' = gen + 1 /\ dirty' = FALSE /\ walOpen' = FALSE
    /\ tables' = With(tables, gen', Empty)
    /\ Raise
    /\ UNCHANGED <<diskVars, ctx, replaying, channel, closed, snapshot, drops,
                   deletes, otherVars, released, hour, ticks, starts>>

\* Mutant: the exchange forgets every hot table, the new one included.
Exchanged_noTable(file) ==
    [segments |-> snapshot.segments \cup {file}, tables |-> {}]

\* Mutant: the table stays beside its segment.
Exchanged_both(file) ==
    [segments |-> snapshot.segments \cup {file}, tables |-> snapshot.tables]

\* The segment takes the place of the table it was written from.
Exchanged(file) ==
    [segments |-> snapshot.segments \cup {file},
     tables |-> snapshot.tables \ {gen - 1}]

\* COPY to a temporary file, write its index, move it into place; then the
\* snapshot exchanges the table for the segment in one step, under its lock.
FlushWrite ==
    /\ pc = "write" /\ pc' = "delete"
    /\ LET file == [kind |-> "seg", id |-> gen - 1, hour |-> hour]
       IN  /\ parquet' = With(parquet, file, tables[gen - 1])
           /\ snapshot' = Exchanged(file)
    /\ UNCHANGED <<wal, ctx, gen, walOpen, dirty, tables, batch, replaying,
                   channel, closed, drops, deletes, otherVars, answer,
                   released, clockVars>>

\* The table stays queryable and the WAL file is kept.
FlushWriteFails ==
    /\ pc = "write" /\ ctx # "start" /\ May("parquet") /\ Fault
    /\ Raise
    /\ UNCHANGED <<diskVars, ctx, gen, walOpen, dirty, tables, replaying,
                   channel, closed, snapshot, drops, deletes, otherVars,
                   released, hour, ticks, starts>>

\* Wal.Delete, which swallows an IOException, and the deferred DROP TABLE.
FlushDelete ==
    /\ pc = "delete"
    /\ \/ wal' = Without(wal, {gen - 1}) /\ UNCHANGED faults
       \/ May("walDelete") /\ Fault /\ UNCHANGED wal
    /\ drops' = drops \cup {gen - 1}
    /\ FlushReturns
    /\ UNCHANGED <<parquet, ctx, gen, walOpen, dirty, tables, replaying,
                   channel, closed, snapshot, deletes, otherVars, released,
                   hour, ticks, starts>>

-----------------------------------------------------------------------------
(* CompactAsync, run by the timer and by POST /system/compact.             *)

\* The groups of one snapshot: the segments of each hour that has several.
\* The timer leaves the current hour alone, the endpoint forces it.
Groups(force) ==
    {G \in {{p \in snapshot.segments : p.hour = h} :
              h \in {k \in Hours : force \/ k < hour}} : Cardinality(G) > 1}

\* Bound: no new compaction once MaxCompactions files have been written.
CompactPick(c) ==
    /\ Serving /\ compaction[c] = NoCompaction /\ ticks < MaxCompactions
    /\ Groups(c = "api") # {}
    /\ compaction' = [compaction EXCEPT ![c].groups = Groups(c = "api")]
    /\ UNCHANGED <<diskVars, writerVars, channel, closed, snapshot, drops,
                   deletes, victims, queries, answer, released, clockVars>>

\* The clock gives the merged file its name.
MergedPath(G) ==
    [kind |-> "cmp", id |-> ticks, hour |-> (CHOOSE p \in G : TRUE).hour]

\* WriteParquet of one group.
CompactWrite(c) ==
    /\ compaction[c].sources = {}
    /\ \E G \in compaction[c].groups :
         /\ G \subseteq DOMAIN parquet
         /\ parquet' = With(parquet, MergedPath(G), UnionAll(parquet, G))
         /\ compaction' = [compaction EXCEPT ![c].sources = G,
                                             ![c].merged = {MergedPath(G)}]
    /\ ticks' = ticks + 1
    /\ UNCHANGED <<wal, writerVars, channel, closed, snapshot, drops, deletes,
                   victims, queries, answer, released, hour, starts, faults>>

\* COPY fails, or a source file is gone: the exception abandons the groups left.
CompactFails(c) ==
    /\ compaction[c].sources = {} /\ compaction[c].groups # {}
    /\ \/ May("parquet") /\ Fault
       \/ /\ \E G \in compaction[c].groups : ~(G \subseteq DOMAIN parquet)
          /\ UNCHANGED faults
    /\ compaction' = [compaction EXCEPT ![c] = NoCompaction]
    /\ UNCHANGED <<diskVars, writerVars, channel, closed, snapshot, drops,
                   deletes, victims, queries, answer, released, hour, ticks,
                   starts>>

\* The sources leave the snapshot (RemoveRange ignores those that are no longer
\* in it), the merged file enters it.
AfterMerge(c) ==
    (snapshot.segments \ compaction[c].sources) \cup compaction[c].merged

\* Under the lock; then the deletion of the sources is deferred.
CompactSwap(c) ==
    /\ compaction[c].sources # {}
    /\ snapshot' = [snapshot EXCEPT !.segments = AfterMerge(c)]
    /\ deletes' = deletes \cup compaction[c].sources
    /\ compaction' = [compaction EXCEPT ![c] =
                        [groups |-> @.groups \ {@.sources},
                         sources |-> {}, merged |-> {}]]
    /\ UNCHANGED <<diskVars, writerVars, channel, closed, drops, victims,
                   queries, answer, released, clockVars>>

-----------------------------------------------------------------------------
(* Retention (by age or by disk limit: StorageHost.ApplyRetention) and     *)
(* deferred jobs.                                                          *)

\* Mutant: the deletions are queued before the segments leave the snapshot.
RetentionPick_early ==
    /\ Serving /\ Retention /\ victims = {}
    /\ \E V \in SUBSET snapshot.segments :
         V # {} /\ victims' = V /\ deletes' = deletes \cup V
    /\ UNCHANGED <<diskVars, writerVars, channel, closed, snapshot, drops,
                   compaction, queries, answer, released, clockVars>>

RetentionPick ==
    /\ Serving /\ Retention /\ victims = {}
    /\ \E V \in SUBSET snapshot.segments : V # {} /\ victims' = V
    /\ UNCHANGED <<diskVars, writerVars, channel, closed, snapshot, drops,
                   deletes, compaction, queries, answer, released, clockVars>>

RetentionRemove ==
    /\ victims # {} /\ victims' = {}
    /\ snapshot' = [snapshot EXCEPT !.segments = @ \ victims]
    /\ deletes' = deletes \cup victims
    /\ released' = released \cup
         UNION {parquet[p].rows : p \in victims \cap snapshot.segments}
    /\ UNCHANGED <<diskVars, writerVars, channel, closed, drops, compaction,
                   queries, answer, clockVars>>

\* CompactAsync and RunDeferred take turns in TimerLoop.
TimerFree == "timer" \in Compactors => compaction["timer"] = NoCompaction

\* RunDeferred, one due job.  Assumption on the delays (60 s and 120 s): a
\* query that took its snapshot before the job was queued has ended by then.
RunDrop(g) ==
    /\ Serving /\ TimerFree /\ g \in drops
    /\ \A q \in Queries : g \notin queries[q].tables
    /\ tables' = Without(tables, {g}) /\ drops' = drops \ {g}
    /\ UNCHANGED <<diskVars, pc, ctx, gen, walOpen, dirty, batch, replaying,
                   channel, closed, snapshot, deletes, otherVars, answer,
                   released, clockVars>>

\* A deletion that throws is queued again.
RunDelete(p) ==
    /\ Serving /\ TimerFree /\ p \in deletes
    /\ \A q \in Queries : p \notin queries[q].segments
    /\ parquet' = Without(parquet, {p}) /\ deletes' = deletes \ {p}
    /\ UNCHANGED <<wal, writerVars, channel, closed, snapshot, drops,
                   otherVars, answer, released, clockVars>>

-----------------------------------------------------------------------------
(* DisposeAsync: complete the channel and stop the timers (StorageHost has *)
(* already waited for retention), let the writer drain and flush, wait for *)
(* the timer task, run every deferred job.                                 *)

Stop ==
    /\ Serving /\ victims = {} /\ closed' = TRUE
    /\ UNCHANGED <<diskVars, writerVars, channel, snapshot, drops, deletes,
                   otherVars, answer, released, clockVars>>

FinalFlush ==
    /\ pc = "idle" /\ closed /\ channel = << >>
    /\ pc' = "flush" /\ ctx' = "stop"
    /\ UNCHANGED <<diskVars, gen, walOpen, dirty, tables, batch, replaying,
                   channel, closed, snapshot, drops, deletes, otherVars,
                   answer, released, clockVars>>

\* A forced deletion that throws is not queued again.
Shutdown ==
    /\ pc = "stopped" /\ TimerFree
    /\ \E kept \in SUBSET deletes :
         /\ kept # {} => May("fileDelete")
         /\ parquet' = Without(parquet, deletes \ kept)
    /\ UNCHANGED wal
    /\ ProcessGone

-----------------------------------------------------------------------------
(* Readers and clock.                                                      *)

QueryStart(q) ==
    /\ Serving /\ queries[q] = NoSnapshot
    /\ queries' = [queries EXCEPT ![q] = snapshot]
    /\ UNCHANGED <<diskVars, writerVars, channel, closed, snapshot, drops,
                   deletes, compaction, victims, answer, released, clockVars>>

QueryEnd(q) ==
    /\ queries[q] # NoSnapshot
    /\ queries' = [queries EXCEPT ![q] = NoSnapshot]
    /\ UNCHANGED <<diskVars, writerVars, channel, closed, snapshot, drops,
                   deletes, compaction, victims, answer, released, clockVars>>

HourPasses ==
    /\ hour < LastHour /\ hour' = hour + 1
    /\ UNCHANGED <<diskVars, writerVars, channel, closed, snapshot, drops,
                   deletes, otherVars, answer, released, ticks, starts, faults>>

-----------------------------------------------------------------------------
Boot ==
    Start \/ Replay \/ (\E g \in replaying : DeleteReplayed(g)) \/ Recovered

Writer ==
    \/ TakeBatch \/ WriteWal \/ WalFails \/ AppendBatch \/ AppendFails
    \/ AckData \/ FlushNothing \/ FlushOpen \/ FlushOpenFails \/ FlushWrite
    \/ FlushWriteFails \/ FlushDelete \/ AckFlush \/ FinalFlush

Compactor(c) ==
    CompactPick(c) \/ CompactWrite(c) \/ CompactFails(c) \/ CompactSwap(c)

Callers ==
    \/ \E r \in Requests : Call(r)
    \/ \E b \in Batches : Cancel(b)
    \/ TimerFlush

Maintenance ==
    \/ RetentionPick \/ RetentionRemove
    \/ \E g \in drops : RunDrop(g)
    \/ \E p \in deletes : RunDelete(p)

Readers == \E q \in Queries : QueryStart(q) \/ QueryEnd(q)

Steps ==
    \/ Boot \/ Writer \/ Callers \/ Maintenance \/ Readers
    \/ \E c \in Compactors : Compactor(c)
    \/ Stop \/ Shutdown \/ Crash \/ HourPasses

Next == Steps \/ StartSkipping

Spec == Init /\ [][Next]_vars

\* The writer is a dedicated thread which nothing blocks for ever.
FairSpec == Spec /\ WF_vars(Boot) /\ WF_vars(Writer)

-----------------------------------------------------------------------------
(* Properties.                                                             *)

Snapshots == [segments : SUBSET Paths, tables : SUBSET Nat]

WalType     == DOMAIN wal \subseteq Nat /\ \A g \in DOMAIN wal : wal[g] \in WalFiles
ParquetType == DOMAIN parquet \subseteq Paths
               /\ \A p \in DOMAIN parquet : parquet[p] \in Contents
TablesType  == DOMAIN tables \subseteq Nat
               /\ \A g \in DOMAIN tables : tables[g] \in Contents
ShownType   == snapshot \in Snapshots /\ queries \in [Queries -> Snapshots]
JobsType    == drops \subseteq Nat /\ deletes \subseteq Paths /\ victims \subseteq Paths
MergesType  == compaction \in [Compactors -> [groups : SUBSET SUBSET Paths,
                                              sources : SUBSET Paths,
                                              merged : SUBSET Paths]]
CallersType ==
    /\ channel \in Seq(Requests \cup {Tick}) /\ closed \in BOOLEAN
    /\ answer \in [Requests -> {"none", "waiting", "acked", "failed"}]
    /\ released \subseteq Batches
WriterType ==
    /\ pc \in {"down", "replay", "cleanup", "idle", "wal", "append", "ack",
               "flush", "write", "delete", "ackflush", "stopped"}
    /\ ctx \in {"start", "loop", "stop"}
    /\ gen \in Nat /\ walOpen \in BOOLEAN /\ dirty \in BOOLEAN
    /\ batch \in Seq(Requests \cup {Tick}) /\ replaying \subseteq Nat
ClocksType == hour \in Hours /\ ticks \in Nat /\ starts \in Nat /\ faults \in Nat

\* Every variable has its type; what the threads keep refers to paths and
\* generations of the right kind.
TypeOK ==
    /\ WalType /\ ParquetType /\ TablesType /\ ShownType /\ JobsType
    /\ MergesType /\ CallersType /\ WriterType /\ ClocksType

Acked == {b \in Batches : answer[b] = "acked"}

\* What a start of the process would find on disk.
Recoverable == (UNION {wal[g].ok : g \in DOMAIN wal})
               \cup (UNION {parquet[p].rows : p \in DOMAIN parquet})

\* What a query over the snapshot s returns.
InSegments(s) == UNION {parquet[p].rows : p \in s.segments}
InTables(s)   == UNION {tables[g].rows : g \in s.tables}

\* Whatever step the process dies at, an acknowledged batch that retention has
\* not removed is on disk, in a WAL file at a place Read reaches or in a
\* segment file (README: "WAL : lot ecrit sur disque avant l'accuse").
AckedDurable == Acked \ released \subseteq Recoverable

\* Once the process serves, an acknowledged batch is in the current snapshot:
\* after an answer, across a flush, a failed flush, a merge and a restart.
AckedVisible ==
    pc # "down" /\ ctx # "start" =>
        Acked \ released \subseteq InSegments(snapshot) \cup InTables(snapshot)

\* Every file and table of the snapshot, and of any snapshot a query still
\* reads, exists: deferred jobs and other compactors never pull one away.
SnapshotReadable ==
    \A s \in {snapshot} \cup {queries[q] : q \in Queries} :
        s.segments \subseteq DOMAIN parquet /\ s.tables \subseteq DOMAIN tables

\* A query never sees a batch twice: not within one segment or table, and not
\* in two of them, while tables become segments and segments are merged.
SeenOnce ==
    /\ \A p \in snapshot.segments : parquet[p].twice = {}
    /\ \A g \in snapshot.tables : tables[g].twice = {}
    /\ \A p, q \in snapshot.segments :
         p # q => parquet[p].rows \cap parquet[q].rows = {}
    /\ \A g, h \in snapshot.tables :
         g # h => tables[g].rows \cap tables[h].rows = {}
    /\ InSegments(snapshot) \cap InTables(snapshot) = {}

\* A segment file is never rewritten while it exists, across restarts too: no
\* generation number comes back while a file still bears it.
SegmentsImmutable ==
    [][\A p \in DOMAIN parquet \cap DOMAIN parquet' :
          parquet'[p] = parquet[p]]_vars

\* When a FlushAsync call succeeds, every batch acknowledged before is in a
\* segment, no longer only in memory ("donnees en memoire incluses").
FlushCoversAcked ==
    [][\A f \in Flushes :
          answer[f] # "acked" /\ answer'[f] = "acked" =>
              Acked \ released \subseteq InSegments(snapshot)]_vars

\* Every call is answered, by a success or by an error.
EveryCallAnswered ==
    \A r \in Requests : answer[r] = "waiting" ~> answer[r] # "waiting"

\* The store as its callers see it: what is stored is what a start would find.
Promise == INSTANCE EventStore WITH stored <- Recoverable

\* Every behaviour of the pipeline is one of the abstract store.
ImplementsEventStore == Promise!EventSpec
=============================================================================
