------------------------------ MODULE FileSource ------------------------------
(***************************************************************************)
(* A log source of Wolflog.Server that follows a file: FileTailer,         *)
(* FilePositions, BatchingSink and SourceHost (Wolflog.Server/Sources).    *)
(*                                                                         *)
(* An application appends lines to the file, which may be rotated.  A      *)
(* worker is a tailer, which reads the file by polling and records where   *)
(* the lines that it has read end, and a sink, which sends the entries by  *)
(* batches.  The host cancels a worker and starts another when the         *)
(* settings of the source change; the two share the recorded positions.    *)
(* The positions are saved at each scan, and are all that a new process    *)
(* knows.                                                                  *)
(*                                                                         *)
(* Data abstraction: a line is written in two parts, the second with its   *)
(* end of line; positions count parts.  A text is what the tailer takes    *)
(* for a line, an entry the texts it joins.  The file is the only one that *)
(* the pattern matches; rotation, by truncation or removal, happens        *)
(* between two lines.  The open file does not change during one read.      *)
(***************************************************************************)
EXTENDS Naturals, Sequences, FiniteSets

CONSTANTS
    Slots,         \* numbers for the workers that exist at the same time
    MaxLines,      \* bound on the lines the application writes
    Continuations, \* lines that continue the entry before them (IsContinuation)
    ReadLimit,     \* parts that one read takes (4 MB)
    Capacity,      \* entries that the channel of a sink holds (50 000)
    BatchLimit,    \* entries of a batch (1 000)
    MaxTroubles,   \* bound on rotations, edits, crashes, errors and pauses together
    Absent         \* no file

ASSUME ConstantsAssumption ==
    /\ Slots \subseteq Nat /\ MaxLines \in Nat /\ Continuations \subseteq 1 .. MaxLines
    /\ ReadLimit \in Nat \ {0} /\ Capacity \in Nat \ {0} /\ BatchLimit \in Nat \ {0}
    /\ MaxTroubles \in Nat

VARIABLES
    file,       \* content of the file, a sequence of parts, or Absent
    epoch,      \* rotations of the file so far, plus one (history)
    written,    \* parts written so far
    startAtEnd, \* StartAtEnd
    up,         \* the process runs
    recorded,   \* FilePositions: the position in memory
    dirty,      \* FilePositions._dirty
    saved,      \* sources-positions.json
    tail,       \* slot -> its FileTailer
    sink,       \* slot -> its BatchingSink
    count,      \* line -> times it was ingested: 0, 1 or 2 (several)
    fate,       \* line -> why it may never be, if so (history)
    broken,     \* a text that is no whole line was ingested (history)
    missed,     \* a rotation went unseen: the file had grown past the position (history)
    late,       \* a cancelled worker has recorded a position (history)
    crashed,    \* the process has ended once (history)
    paused,     \* a sink was paused between its two looks at the clock (history)
    troubles    \* rotations, edits, crashes, errors and pauses so far

fileVars  == <<file, epoch, written, startAtEnd>>
placeVars == <<recorded, dirty, saved>>
sentVars  == <<count, broken>>
pastVars  == <<crashed, paused, troubles>>
vars == <<fileVars, up, placeVars, tail, sink, sentVars, fate, missed, late, pastVars>>

Lines == 1 .. MaxLines
Parts == Lines \X {1, 2}

\* A file is not its absence.
ASSUME AbsentAssumption == Absent \notin Seq(Parts)

NoPosition == [pos |-> 0, epoch |-> 0]
NoTail == [at |-> "none", cancelled |-> FALSE, first |-> TRUE, tracked |-> FALSE,
           pos |-> 0, epoch |-> 0, pending |-> << >>, todo |-> << >>]
NoSink == [at |-> "none", queue |-> << >>, batch |-> << >>]

-----------------------------------------------------------------------------
(* Texts and entries.                                                      *)

\* The elements of a finite set of numbers, in their order.
Increasing(S) ==
    CHOOSE q \in [1 .. Cardinality(S) -> S] :
        \A i, j \in DOMAIN q : i < j => q[i] < q[j]

\* Where lines end in s.
Ends(s)    == Increasing({i \in DOMAIN s : s[i][2] = 2})
LastEnd(s) == IF Ends(s) = << >> THEN 0 ELSE Ends(s)[Len(Ends(s))]

\* The texts of s, each up to an end of line.
Texts(s) ==
    [k \in DOMAIN Ends(s) |->
        SubSeq(s, IF k = 1 THEN 1 ELSE Ends(s)[k - 1] + 1, Ends(s)[k])]

Continues(text) == text[1][2] = 1 /\ text[1][1] \in Continuations

\* Where entries start among the texts t.
Starts(t) == Increasing({k \in DOMAIN t : k = 1 \/ ~Continues(t[k])})

\* Mutant: the entry that the end of the read closes is forgotten.
Entries_open(s) ==
    LET t      == Texts(s)
        starts == Starts(t)
    IN  [j \in 1 .. (IF starts = << >> THEN 0 ELSE Len(starts) - 1) |->
           SubSeq(t, starts[j], starts[j + 1] - 1)]

\* A continuation joins the entry before it, if the same read has one.
Entries(s) ==
    LET t      == Texts(s)
        starts == Starts(t)
    IN  [j \in DOMAIN starts |->
           SubSeq(t, starts[j], IF j = Len(starts) THEN Len(t) ELSE starts[j + 1] - 1)]

TextsOf(entries) ==
    UNION {{entries[i][j] : j \in DOMAIN entries[i]} : i \in DOMAIN entries}
LineOf(text)   == text[Len(text)][1]
LinesOf(entries) == {LineOf(text) : text \in TextsOf(entries)}
Whole(text)    == text = <<<<LineOf(text), 1>>, <<LineOf(text), 2>>>>

\* Lines that worker s has read and not sent.
InHand(s) ==
    LinesOf(Entries(tail[s].pending)) \cup LinesOf(tail[s].todo)
        \cup LinesOf(sink[s].queue) \cup LinesOf(sink[s].batch)

\* Lines whose end lies after position p of the file.
Ahead(p) ==
    IF file = Absent THEN {}
    ELSE {file[i][1] : i \in {j \in DOMAIN file : j > p /\ file[j][2] = 2}}

GivenUp(L, why) ==
    fate' = [l \in Lines |-> IF l \in L /\ count[l] = 0 /\ fate[l] = "none"
                               THEN why ELSE fate[l]]

Trouble == troubles < MaxTroubles /\ troubles' = troubles + 1

-----------------------------------------------------------------------------
Init ==
    /\ file = Absent /\ epoch = 1 /\ written = 0 /\ startAtEnd \in BOOLEAN
    /\ up = TRUE /\ recorded = NoPosition /\ dirty = FALSE /\ saved = NoPosition
    /\ tail = [s \in Slots |-> NoTail] /\ sink = [s \in Slots |-> NoSink]
    /\ count = [l \in Lines |-> 0] /\ fate = [l \in Lines |-> "none"]
    /\ broken = FALSE /\ missed = FALSE /\ late = FALSE
    /\ crashed = FALSE /\ paused = FALSE /\ troubles = 0

-----------------------------------------------------------------------------
(* The application.                                                        *)

Write ==
    /\ written < 2 * MaxLines /\ written' = written + 1
    /\ LET part == <<(written \div 2) + 1, (written % 2) + 1>>
       IN  file' = IF file = Absent THEN <<part>> ELSE Append(file, part)
    /\ UNCHANGED <<epoch, startAtEnd, up, placeVars, tail, sink, sentVars, fate,
                   missed, late, pastVars>>

\* What no worker has read by then is lost.
Rotate ==
    /\ file # Absent /\ file # << >> /\ written % 2 = 0
    /\ Trouble /\ epoch' = epoch + 1
    /\ file' \in {<< >>, Absent}
    /\ GivenUp(Ahead(0) \ UNION {InHand(s) : s \in Slots}, "lost")
    /\ UNCHANGED <<written, startAtEnd, up, placeVars, tail, sink, sentVars,
                   missed, late, crashed, paused>>

-----------------------------------------------------------------------------
(* FileTailer, in worker s.                                                *)

SetTail(s, t) == tail' = [tail EXCEPT ![s] = t]
Goes(s)       == ~tail[s].cancelled

\* No file matches: the tailer forgets it, and the scan ends.
ScanNothing(s) ==
    /\ tail[s].at = "scan" /\ Goes(s) /\ file = Absent
    /\ SetTail(s, [tail[s] EXCEPT !.at = "save", !.tracked = FALSE, !.pending = << >>])
    /\ UNCHANGED <<fileVars, up, placeVars, sink, sentVars, fate, missed, late, pastVars>>

\* Mutant: StartAtEnd also skips a file that appears later.
Resumed_end(s) ==
    IF tail[s].tracked THEN [pos |-> tail[s].pos, epoch |-> tail[s].epoch]
    ELSE IF recorded # NoPosition /\ recorded.pos <= Len(file) THEN recorded
    ELSE [pos |-> IF startAtEnd THEN Len(file) ELSE 0, epoch |-> epoch]

\* Where the tailer looks first: where it was, else at the recorded position
\* unless the file is shorter, else at one end of the file.
Resumed(s) ==
    IF tail[s].tracked THEN [pos |-> tail[s].pos, epoch |-> tail[s].epoch]
    ELSE IF recorded # NoPosition /\ recorded.pos <= Len(file) THEN recorded
    ELSE [pos |-> IF tail[s].first /\ startAtEnd THEN Len(file) ELSE 0, epoch |-> epoch]

FromEnd(s) ==
    /\ ~tail[s].tracked /\ tail[s].first /\ startAtEnd
    /\ recorded = NoPosition \/ recorded.pos > Len(file)

\* Mutant: a file that has not grown is taken for a new one.
Rotated_same(p) == Len(file) <= p

\* The file was truncated or replaced: the reading starts again.
Rotated(p) == Len(file) < p

\* Open and ReadAsync.
Read(s) ==
    /\ tail[s].at = "scan" /\ Goes(s) /\ file # Absent
    /\ LET from  == Resumed(s)
           start == IF Rotated(from.pos) THEN 0 ELSE from.pos
           end   == IF Len(file) < start + ReadLimit THEN Len(file) ELSE start + ReadLimit
       IN  /\ SetTail(s, [tail[s] EXCEPT
                !.at = IF end = start THEN "save" ELSE "record",
                !.tracked = TRUE, !.pos = end, !.epoch = epoch,
                !.pending = (IF Rotated(from.pos) THEN << >> ELSE @)
                            \o SubSeq(file, start + 1, end)])
           /\ missed' = (missed \/ (start > 0 /\ from.epoch # epoch))
           /\ GivenUp(IF FromEnd(s) THEN {file[i][1] : i \in 1 .. start} ELSE {}, "before")
    /\ UNCHANGED <<fileVars, up, placeVars, sink, sentVars, late, pastVars>>

\* Mutant: the text that waits for its end of line is not deducted.
Position_pending(s, rest) == tail[s].pos

\* The position of the first text that has not been read to its end.
Position(s, rest) == tail[s].pos - Len(rest)

\* The texts are parsed, and the position recorded before they are sent.
Record(s) ==
    /\ tail[s].at = "record"
    /\ LET text == tail[s].pending
           rest == SubSeq(text, LastEnd(text) + 1, Len(text))
       IN  /\ SetTail(s, [tail[s] EXCEPT !.at = "add", !.pending = rest,
                                         !.todo = Entries(text)])
           /\ recorded' = [pos |-> Position(s, rest), epoch |-> tail[s].epoch]
    /\ dirty' = TRUE /\ late' = (late \/ ~Goes(s))
    /\ UNCHANGED <<fileVars, up, saved, sink, sentVars, fate, missed, pastVars>>

\* BatchingSink.Add: one entry enters the channel, which may be full.
Add(s) ==
    /\ tail[s].at = "add" /\ Goes(s) /\ tail[s].todo # << >>
    /\ Len(sink[s].queue) < Capacity
    /\ SetTail(s, [tail[s] EXCEPT !.todo = Tail(@)])
    /\ sink' = [sink EXCEPT ![s].queue = Append(@, Head(tail[s].todo))]
    /\ UNCHANGED <<fileVars, up, placeVars, sentVars, fate, missed, late, pastVars>>

\* The end of a scan: FilePositions.Save.  A write that fails is not tried again
\* before the next change.
Save(s) ==
    /\ tail[s].at \in {"save", "add"} /\ tail[s].todo = << >>
    /\ SetTail(s, [tail[s] EXCEPT !.at = "scan", !.first = FALSE])
    /\ dirty' = FALSE
    /\ \/ saved' = (IF dirty THEN recorded ELSE saved) /\ UNCHANGED troubles
       \/ dirty /\ Trouble /\ UNCHANGED saved
    /\ UNCHANGED <<fileVars, up, recorded, sink, sentVars, fate, missed, late,
                   crashed, paused>>

\* A cancelled tailer ends at its next wait: the delay between two scans, the
\* read or the channel.
TailEnds(s) ==
    /\ tail[s].at \in {"scan", "add"} /\ ~Goes(s)
    /\ tail[s].at = "add" => tail[s].todo # << >>
    /\ SetTail(s, NoTail)
    /\ GivenUp(LinesOf(tail[s].todo), "lost")
    /\ UNCHANGED <<fileVars, up, placeVars, sink, sentVars, missed, late, pastVars>>

-----------------------------------------------------------------------------
(* BatchingSink, in worker s.  The worker that ends is cancelled, and its  *)
(* tail may have ended before.                                             *)

SetSink(s, k) == sink' = [sink EXCEPT ![s] = k]
Cancelled(s)  == tail[s].cancelled \/ tail[s].at = "none"

Take(s) ==
    /\ sink[s].at \in {"idle", "gather", "endless"} /\ sink[s].queue # << >>
    /\ Len(sink[s].batch) < BatchLimit
    /\ SetSink(s, [at |-> "gather", queue |-> Tail(sink[s].queue),
                   batch |-> Append(sink[s].batch, Head(sink[s].queue))])
    /\ UNCHANGED <<fileVars, up, placeVars, tail, sentVars, fate, missed, late, pastVars>>

\* The thread pauses between the check of the deadline and CancelAfter, past the
\* deadline: a delay that has become -1 ms never ends, a shorter one throws.  The
\* task of the sink is nobody's to await.
Pause(s) ==
    /\ sink[s].at = "gather" /\ Len(sink[s].batch) < BatchLimit
    /\ Trouble /\ paused' = TRUE
    /\ \/ SetSink(s, [sink[s] EXCEPT !.at = "endless"]) /\ UNCHANGED fate
       \/ /\ SetSink(s, [sink[s] EXCEPT !.at = "dead", !.batch = << >>])
          /\ GivenUp(LinesOf(sink[s].batch), "lost")
    /\ UNCHANGED <<fileVars, up, placeVars, tail, sentVars, missed, late, crashed>>

Ingested(s) ==
    /\ count' = [l \in Lines |->
                   IF l \in LinesOf(sink[s].batch)
                     THEN IF count[l] = 0 THEN 1 ELSE 2 ELSE count[l]]
    /\ broken' = (broken \/ \E t \in TextsOf(sink[s].batch) :
                               ~Whole(t) /\ fate[LineOf(t)] # "before")

\* Mutant: the batch is not cleared.
AfterSend_kept(s) == [sink[s] EXCEPT !.at = "idle"]

\* The batch is forgotten, sent or not.
AfterSend(s) == [sink[s] EXCEPT !.at = "idle", !.batch = << >>]

\* Half a second has passed, or the batch is full, and it is sent.
Send(s) ==
    /\ sink[s].at = "gather" /\ Ingested(s)
    /\ SetSink(s, AfterSend(s))
    /\ UNCHANGED <<fileVars, up, placeVars, tail, fate, missed, late, pastVars>>

SendFails(s) ==
    /\ sink[s].at = "gather" /\ Trouble
    /\ SetSink(s, AfterSend(s))
    /\ GivenUp(LinesOf(sink[s].batch), "lost")
    /\ UNCHANGED <<fileVars, up, placeVars, tail, sentVars, missed, late,
                   crashed, paused>>

\* A cancelled sink ends at its next wait, and its entries with it.
SinkEnds(s) ==
    /\ sink[s].at # "none" /\ Cancelled(s)
    /\ SetSink(s, NoSink)
    /\ GivenUp(LinesOf(sink[s].queue) \cup LinesOf(sink[s].batch), "lost")
    /\ UNCHANGED <<fileVars, up, placeVars, tail, sentVars, missed, late, pastVars>>

-----------------------------------------------------------------------------
(* SourceHost.                                                             *)

Free(s)  == tail[s].at = "none" /\ sink[s].at = "none"
Wanted   == up /\ \A s \in Slots : tail[s].at = "none" \/ ~Goes(s)

\* Reconcile starts a worker for an enabled source that has none.  Workers differ in
\* nothing, so that it takes the first free number.
StartWorker(s) ==
    /\ Wanted /\ Free(s) /\ \A r \in Slots : Free(r) => s <= r
    /\ SetTail(s, [NoTail EXCEPT !.at = "scan"])
    /\ SetSink(s, [NoSink EXCEPT !.at = "idle"])
    /\ UNCHANGED <<fileVars, up, placeVars, sentVars, fate, missed, late, pastVars>>

\* The source is changed or disabled: its worker is cancelled.
Edit(s) ==
    /\ tail[s].at # "none" /\ Goes(s) /\ Trouble
    /\ SetTail(s, [tail[s] EXCEPT !.cancelled = TRUE])
    /\ UNCHANGED <<fileVars, up, placeVars, sink, sentVars, fate, missed, late,
                   crashed, paused>>

\* The process ends, in order or not: WaitForNextTickAsync throws when the host
\* stops, so that the last Save of ExecuteAsync is not reached.
Crash ==
    /\ up /\ up' = FALSE /\ Trouble /\ crashed' = TRUE
    /\ tail' = [s \in Slots |-> NoTail] /\ sink' = [s \in Slots |-> NoSink]
    /\ recorded' = NoPosition /\ dirty' = FALSE
    /\ GivenUp((UNION {InHand(s) : s \in Slots}) \ Ahead(saved.pos), "lost")
    /\ UNCHANGED <<fileVars, saved, sentVars, missed, late, paused>>

Boot ==
    /\ ~up /\ up' = TRUE /\ recorded' = saved
    /\ UNCHANGED <<fileVars, dirty, saved, tail, sink, sentVars, fate, missed,
                   late, pastVars>>

-----------------------------------------------------------------------------
Tailing(s) ==
    \/ ScanNothing(s) \/ Read(s) \/ Record(s) \/ Add(s) \/ Save(s)
    \/ TailEnds(s)

Sinking(s) == Take(s) \/ Send(s) \/ SinkEnds(s)

Hosting == Boot \/ \E s \in Slots : StartWorker(s)

Next ==
    \/ Write \/ Rotate \/ Crash \/ Hosting
    \/ \E s \in Slots : Tailing(s) \/ Sinking(s) \/ Pause(s) \/ SendFails(s) \/ Edit(s)

Spec == Init /\ [][Next]_vars

\* The tailer polls every second, a sink waits half a second at most, the host
\* looks every three seconds, and a source is not disabled for ever.
FairSpec ==
    /\ Spec /\ WF_vars(Hosting)
    /\ \A s \in Slots : WF_vars(Tailing(s)) /\ WF_vars(Sinking(s))

-----------------------------------------------------------------------------
(* Properties.                                                             *)

Entry == Seq(Seq(Parts))

TypeOK ==
    /\ file = Absent \/ file \in Seq(Parts)
    /\ epoch \in 1 .. MaxTroubles + 1 /\ written \in 0 .. 2 * MaxLines
    /\ {startAtEnd, up, dirty, broken, missed, late, crashed, paused} \subseteq BOOLEAN
    /\ {recorded, saved} \subseteq [pos : 0 .. 2 * MaxLines, epoch : 0 .. MaxTroubles + 1]
    /\ \A s \in Slots :
         /\ tail[s].at \in {"none", "scan", "record", "add", "save"}
         /\ tail[s].cancelled \in BOOLEAN /\ tail[s].first \in BOOLEAN
         /\ tail[s].tracked \in BOOLEAN
         /\ tail[s].pos \in 0 .. 2 * MaxLines /\ tail[s].epoch \in 0 .. MaxTroubles + 1
         /\ tail[s].pending \in Seq(Parts) /\ tail[s].todo \in Seq(Entry)
         /\ sink[s].at \in {"none", "idle", "gather", "endless", "dead"}
         /\ sink[s].queue \in Seq(Entry) /\ Len(sink[s].queue) <= Capacity
         /\ sink[s].batch \in Seq(Entry) /\ Len(sink[s].batch) <= BatchLimit
         /\ sink[s].at \in {"idle", "none", "dead"} <=> sink[s].batch = << >>
    /\ troubles \in 0 .. MaxTroubles /\ count \in [Lines -> 0 .. 2]
    /\ fate \in [Lines -> {"none", "before", "lost"}]

\* As long as the process runs, no line is ingested twice, whatever the rotations,
\* the changes of the source and the refusals: workers that succeed each other share
\* one position, recorded before the lines are sent.  A cancelled worker that still
\* records may take that position back, and is excluded.
NoLineTwice == ~crashed /\ ~late => \A l \in Lines : count[l] <= 1

\* What is ingested is made of whole lines, across polls, restarts and rotations: the
\* recorded position leaves out the line that waits for its end.  Only a file that
\* has outgrown the position by the next poll after its rotation escapes.
WholeLines == broken => missed

\* Every line that lies before the recorded position has been ingested, is on its way
\* through a tailer or its sink, or has been given up for a reason known here.
LinesAccountedFor ==
    ~missed /\ recorded.epoch = epoch /\ file # Absent =>
        \A i \in DOMAIN file :
            i <= recorded.pos /\ file[i][2] = 2 =>
                \/ count[file[i][1]] > 0 \/ fate[file[i][1]] # "none"
                \/ \E s \in Slots : file[i][1] \in InHand(s)

\* Once the application is quiet, every line it has ended gets ingested, unless it
\* was given up, a rotation went unseen or the sink was paused at the wrong place.
LinesAreSent ==
    <>[](missed \/ paused \/
           \A l \in Lines : written >= 2 * l => count[l] > 0 \/ fate[l] # "none")

=============================================================================
