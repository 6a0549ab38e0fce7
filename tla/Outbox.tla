-------------------------------- MODULE Outbox --------------------------------
(***************************************************************************)
(* Delivery of telemetry by Wolflog.Client: WolflogTransport and           *)
(* DiskOutbox.                                                             *)
(*                                                                         *)
(* Each process has one export thread per signal, which hands its batches  *)
(* to Deliver one after the other, and one retry loop, which sends what    *)
(* the buffer directory holds.  Processes of one service share this        *)
(* directory; nothing else is shared.  The server may be down, refuse a    *)
(* batch for its content, or store it while its answer is lost.            *)
(*                                                                         *)
(* Data abstraction: a batch is its export thread and its rank; a file is  *)
(* the stamp its name starts with, so that stamps order the names; every   *)
(* file has the same size.                                                 *)
(***************************************************************************)
EXTENDS Naturals, FiniteSets

CONSTANTS
    Processes,   \* application processes that share the buffer directory
    Exporters,   \* export threads <<process, signal>>
    Rejected,    \* ranks of the batches that the server refuses for their content
    Capacity,    \* files that MaxBufferSizeMb allows
    MaxBatches,  \* bound on the batches of one export thread
    MaxOutages,  \* bound on the outages of the server
    MaxLost,     \* bound on the answers lost while the batch was stored
    MaxCrashes,  \* bound on the ends of a process, each followed by a restart
    MaxIoErrors, \* bound on the writes and deletions that the buffer directory refuses
    NoBatch      \* no batch

ASSUME ConstantsAssumption ==
    /\ \A e \in Exporters : e[1] \in Processes
    /\ Rejected \subseteq Nat \ {0} /\ Capacity \in Nat \ {0}
    /\ MaxBatches \in Nat /\ MaxOutages \in Nat /\ MaxLost \in Nat
    /\ MaxCrashes \in Nat /\ MaxIoErrors \in Nat

VARIABLES
    outbox,    \* the buffer directory: stamp -> batch
    clock,     \* last stamp given
    hint,      \* process -> _pendingHint: "unknown", "none" or "some"
    circuit,   \* process -> whether CircuitOpen still holds
    count,     \* export thread -> batches it has handed to Deliver
    export,    \* export thread -> where Deliver stands
    drain,     \* process -> where its retry loop stands
    server,    \* "up" or "down"
    received,  \* batch -> times the server stored it: 0, 1 or 2 (several)
    fate,      \* batch -> why the client gave it up, if it did (history)
    again,     \* the batches with a reason to be sent again though they are stored (history)
    outages, lost, crashes, ioErrors

clientVars == <<hint, circuit, count, export, drain>>
boundVars  == <<outages, lost, crashes, ioErrors>>
vars == <<outbox, clock, clientVars, server, received, fate, again, boundVars>>

Batches   == [from : Exporters, rank : 1 .. MaxBatches]
Stamps    == DOMAIN outbox

NoFile  == 0
Idle    == [at |-> "idle", seen |-> FALSE, stamp |-> NoFile]
Resting == [at |-> "idle", seen |-> FALSE, todo |-> {}, stamp |-> NoFile,
            batch |-> NoBatch]

\* Mutant: the rank of the next batch is taken for that of this one.
Current_next(e) == [from |-> e, rank |-> count[e] + 1]

\* The batch that export thread e holds.
Current(e) == [from |-> e, rank |-> count[e]]
Step(e, at) == export' = [export EXCEPT ![e].at = at]

Removed(S) == [s \in Stamps \ S |-> outbox[s]]

-----------------------------------------------------------------------------
Init ==
    /\ outbox = << >> /\ clock = 0
    /\ hint = [p \in Processes |-> "unknown"]
    /\ circuit = [p \in Processes |-> FALSE]
    /\ count = [e \in Exporters |-> 0]
    /\ export = [e \in Exporters |-> Idle]
    /\ drain = [p \in Processes |-> Resting]
    /\ server = "up" /\ received = [b \in Batches |-> 0]
    /\ fate = [b \in Batches |-> "none"] /\ again = {}
    /\ outages = 0 /\ lost = 0 /\ crashes = 0 /\ ioErrors = 0

-----------------------------------------------------------------------------
(* HasPending, called by the export threads and by the retry loop: a hint  *)
(* of "none" is the answer; otherwise the directory is enumerated, and     *)
(* what was seen becomes the hint in a later step.                         *)

Noted(p, seen) == hint' = [hint EXCEPT ![p] = IF seen THEN "some" ELSE "none"]

-----------------------------------------------------------------------------
(* Send and Classify: one HTTP exchange for batch b.                       *)

Stores(b) == received' = [received EXCEPT ![b] = IF @ = 0 THEN 1 ELSE 2]

\* A batch whose answer is lost is stored, and its sender does not know it.
Answers(b, result) ==
    \/ /\ server = "up" /\ b.rank \notin Rejected /\ result = "ok"
       /\ Stores(b) /\ UNCHANGED <<lost, again>>
    \/ /\ server = "up" /\ b.rank \in Rejected /\ result = "drop"
       /\ UNCHANGED <<received, lost, again>>
    \/ /\ server = "up" /\ b.rank \notin Rejected /\ result = "retry"
       /\ lost < MaxLost /\ lost' = lost + 1 /\ Stores(b)
       /\ again' = again \cup {b}
    \/ /\ server = "down" /\ result = "retry"
       /\ UNCHANGED <<received, lost, again>>

-----------------------------------------------------------------------------
(* Deliver, in the export thread e = <<process, signal>>.                  *)

\* A new batch: straight to the buffer while the circuit is open.
Deliver(e) ==
    /\ export[e].at = "idle" /\ count[e] < MaxBatches
    /\ count' = [count EXCEPT ![e] = @ + 1]
    /\ Step(e, IF circuit[e[1]] THEN "store" ELSE "pending")
    /\ UNCHANGED <<outbox, clock, hint, circuit, drain, server, received, fate, again,
                   boundVars>>

\* HasPending: from the hint, or by enumerating the directory.
CheckPending(e) ==
    /\ export[e].at = "pending"
    /\ IF hint[e[1]] = "none"
         THEN Step(e, "send")
         ELSE export' = [export EXCEPT ![e] =
                           [@ EXCEPT !.at = "note", !.seen = (Stamps # {})]]
    /\ UNCHANGED <<outbox, clock, hint, circuit, count, drain, server,
                   received, fate, again, boundVars>>

NotePending(e) ==
    /\ export[e].at = "note"
    /\ Noted(e[1], export[e].seen)
    /\ export' = [export EXCEPT ![e] =
                    [Idle EXCEPT !.at = IF export[e].seen THEN "store" ELSE "send"]]
    /\ UNCHANGED <<outbox, clock, circuit, count, drain, server, received,
                   fate, again, boundVars>>

\* Send.  A transient failure opens the circuit, and the batch is buffered.
SendNow(e) ==
    /\ export[e].at = "send"
    /\ \E result \in {"ok", "drop", "retry"} :
         /\ Answers(Current(e), result)
         /\ Step(e, IF result = "retry" THEN "store" ELSE "idle")
         /\ circuit' = [circuit EXCEPT ![e[1]] = @ \/ result = "retry"]
         /\ fate' = [fate EXCEPT ![Current(e)] =
                       IF result = "drop" THEN "rejected" ELSE @]
    /\ UNCHANGED <<outbox, clock, hint, count, drain, server, outages, crashes,
                   ioErrors>>

\* Store: the name is made, the bytes go to a temporary file ...
StoreName(e) ==
    /\ export[e].at = "store"
    /\ clock' = clock + 1
    /\ export' = [export EXCEPT ![e].at = "move", ![e].stamp = clock']
    /\ UNCHANGED <<outbox, hint, circuit, count, drain, server, received, fate, again,
                   boundVars>>

\* ... which is moved into place.
StoreMove(e) ==
    /\ export[e].at = "move"
    /\ outbox' = [s \in Stamps \cup {export[e].stamp} |->
                    IF s = export[e].stamp THEN Current(e) ELSE outbox[s]]
    /\ Step(e, "limit")
    /\ UNCHANGED <<clock, hint, circuit, count, drain, server, received, fate, again,
                   boundVars>>

\* The directory refuses the write: a warning, and the batch is gone.
StoreFails(e) ==
    /\ export[e].at = "move" /\ ioErrors < MaxIoErrors
    /\ ioErrors' = ioErrors + 1
    /\ fate' = [fate EXCEPT ![Current(e)] = "unwritten"]
    /\ export' = [export EXCEPT ![e] = Idle]
    /\ UNCHANGED <<outbox, clock, hint, circuit, count, drain, server, received,
                   again, outages, lost, crashes>>

\* The files open for one process only: Dispose has not closed them yet.
Claimed == {drain[p].stamp : p \in {q \in Processes : drain[q].at \in {"send", "close"}}}

\* The oldest files in excess.
Excess ==
    LET over == IF Cardinality(Stamps) > Capacity
                  THEN Cardinality(Stamps) - Capacity ELSE 0
    IN  {s \in Stamps : Cardinality({t \in Stamps : t < s}) < over}

\* The hint, then EnforceLimit.  A claimed file is deleted on Unix, and refuses
\* the deletion on Windows: its size is deducted all the same.
StoreLimit(e) ==
    /\ export[e].at = "limit"
    /\ Noted(e[1], TRUE)
    /\ \E kept \in {{}, Excess \cap Claimed} :
         /\ outbox' = Removed(Excess \ kept)
         /\ fate' = [b \in Batches |->
                       IF \E s \in Excess \ kept : outbox[s] = b
                         THEN "evicted" ELSE fate[b]]
    /\ export' = [export EXCEPT ![e] = Idle]
    /\ UNCHANGED <<clock, circuit, count, drain, server, received, again, boundVars>>

-----------------------------------------------------------------------------
(* RetryLoop and DrainOutboxAsync, in process p.                           *)

LoopCheck(p) ==
    /\ drain[p].at = "idle" /\ hint[p] # "none"
    /\ drain' = [drain EXCEPT ![p] = [@ EXCEPT !.at = "note", !.seen = (Stamps # {})]]
    /\ UNCHANGED <<outbox, clock, hint, circuit, count, export, server,
                   received, fate, again, boundVars>>

\* Pending lists the directory when its enumeration starts.
LoopNote(p) ==
    /\ drain[p].at = "note"
    /\ Noted(p, drain[p].seen)
    /\ drain' = [drain EXCEPT ![p] =
                   IF drain[p].seen THEN [Resting EXCEPT !.at = "next", !.todo = Stamps]
                             ELSE Resting]
    /\ UNCHANGED <<outbox, clock, circuit, count, export, server, received,
                   fate, again, boundVars>>

\* The oldest of the files left to send.
Oldest(S) == CHOOSE s \in S : \A t \in S : s <= t

Free(s) == s \in Stamps \ Claimed

\* The file of an answered batch that its sender has closed and is about to delete.
Answered(s) == \E q \in Processes : drain[q].at = "delete" /\ drain[q].stamp = s

\* TryClaim, exclusive among processes; a file that is gone or held is skipped.
Claim(p) ==
    /\ drain[p].at = "next" /\ drain[p].todo # {}
    /\ LET s    == Oldest(drain[p].todo)
           left == [drain[p] EXCEPT !.todo = @ \ {s}]
       IN /\ drain' = [drain EXCEPT ![p] =
             IF Free(s)
               THEN [left EXCEPT !.at = "send", !.stamp = s, !.batch = outbox[s]]
               ELSE left]
          /\ again' = IF Free(s) /\ Answered(s) THEN again \cup {outbox[s]} ELSE again
    /\ UNCHANGED <<outbox, clock, hint, circuit, count, export, server,
                   received, fate, boundVars>>

\* Mutant: the drain lock is not released when the server still fails.
GiveUp_locked(p) == [drain[p] EXCEPT !.at = "locked", !.stamp = NoFile]

\* The loop gives up until its next delay has passed; the claim is released and
\* the hint left as it is.
GiveUp(p) == Resting

\* Mutant: the claim is completed whatever the answer.
AfterSend_always(p, result) == [drain[p] EXCEPT !.at = "close"]

\* Mutant: the claim is completed for a refused batch only.
AfterSend_forgets(p, result) ==
    IF result # "drop" THEN GiveUp(p) ELSE [drain[p] EXCEPT !.at = "close"]

\* Dispose deletes the file only if the server has answered.
AfterSend(p, result) ==
    IF result = "retry" THEN GiveUp(p) ELSE [drain[p] EXCEPT !.at = "close"]

Resend(p) ==
    /\ drain[p].at = "send"
    /\ \E result \in {"ok", "drop", "retry"} :
         /\ Answers(drain[p].batch, result)
         /\ drain' = [drain EXCEPT ![p] = AfterSend(p, result)]
         /\ circuit' = [circuit EXCEPT ![p] = @ \/ result = "retry"]
         /\ fate' = [fate EXCEPT ![drain[p].batch] =
                       IF result = "drop" THEN "rejected" ELSE @]
    /\ UNCHANGED <<outbox, clock, hint, count, export, server, outages,
                   crashes, ioErrors>>

\* Claim.Dispose closes the file, which ends the claim ...
CloseClaim(p) ==
    /\ drain[p].at = "close"
    /\ drain' = [drain EXCEPT ![p] = [@ EXCEPT !.at = "delete"]]
    /\ UNCHANGED <<outbox, clock, hint, circuit, count, export, server,
                   received, fate, again, boundVars>>

GoesOn(p) == [Resting EXCEPT !.at = "next", !.todo = drain[p].todo]

\* ... then deletes it; on Windows a file claimed meanwhile refuses that.
DeleteSent(p) ==
    /\ drain[p].at = "delete"
    /\ \/ outbox' = Removed({drain[p].stamp})
       \/ drain[p].stamp \in Claimed /\ UNCHANGED outbox
    /\ drain' = [drain EXCEPT ![p] = GoesOn(p)]
    /\ UNCHANGED <<clock, hint, circuit, count, export, server, received, fate, again,
                   boundVars>>

\* The directory refuses the deletion: the file stays and is sent again.  An IOException
\* is swallowed, any other ends this turn of the loop.
DeleteFails(p) ==
    /\ drain[p].at = "delete" /\ drain[p].stamp \in Stamps /\ ioErrors < MaxIoErrors
    /\ ioErrors' = ioErrors + 1
    /\ again' = again \cup {drain[p].batch}
    /\ \E next \in {GoesOn(p), GiveUp(p)} : drain' = [drain EXCEPT ![p] = next]
    /\ UNCHANGED <<outbox, clock, hint, circuit, count, export, server, received, fate,
                   outages, lost, crashes>>

\* Every file has been tried: the hint is forgotten and the circuit closes.
Drained(p) ==
    /\ drain[p].at = "next" /\ drain[p].todo = {}
    /\ drain' = [drain EXCEPT ![p] = Resting]
    /\ hint' = [hint EXCEPT ![p] = "unknown"]
    /\ circuit' = [circuit EXCEPT ![p] = FALSE]
    /\ UNCHANGED <<outbox, clock, count, export, server, received, fate, again,
                   boundVars>>

-----------------------------------------------------------------------------
(* Time, the server and the end of a process.                              *)

\* The ten seconds of MarkUnavailable are over.
CircuitCloses(p) ==
    /\ circuit[p] /\ circuit' = [circuit EXCEPT ![p] = FALSE]
    /\ UNCHANGED <<outbox, clock, hint, count, export, drain, server, received,
                   fate, again, boundVars>>

ServerStops ==
    /\ server = "up" /\ outages < MaxOutages
    /\ server' = "down" /\ outages' = outages + 1
    /\ UNCHANGED <<outbox, clock, clientVars, received, fate, again, lost, crashes, ioErrors>>

ServerStarts ==
    /\ server = "down" /\ server' = "up"
    /\ UNCHANGED <<outbox, clock, clientVars, received, fate, again, boundVars>>

InHand(b) ==
    /\ export[b.from].at \in {"pending", "note", "send", "store", "move"}
    /\ b = Current(b.from)

\* A process dies and starts again; what its export threads held is gone, the
\* buffer directory stays, and its claims end.  A file whose answer it had and which it
\* had not deleted yet is sent again.
Crash(p) ==
    /\ crashes < MaxCrashes /\ crashes' = crashes + 1
    /\ fate' = [b \in Batches |->
                  IF b.from[1] = p /\ InHand(b) THEN "killed" ELSE fate[b]]
    /\ hint' = [hint EXCEPT ![p] = "unknown"]
    /\ circuit' = [circuit EXCEPT ![p] = FALSE]
    /\ export' = [e \in Exporters |-> IF e[1] = p THEN Idle ELSE export[e]]
    /\ drain' = [drain EXCEPT ![p] = Resting]
    /\ again' = IF drain[p].at \in {"close", "delete"} THEN again \cup {drain[p].batch} ELSE again
    /\ UNCHANGED <<outbox, clock, count, server, received, outages, lost, ioErrors>>

-----------------------------------------------------------------------------
Export(e) ==
    \/ CheckPending(e) \/ NotePending(e) \/ SendNow(e)
    \/ StoreName(e) \/ StoreMove(e) \/ StoreFails(e) \/ StoreLimit(e)

RetryLoop(p) ==
    \/ LoopCheck(p) \/ LoopNote(p) \/ Claim(p) \/ Resend(p)
    \/ CloseClaim(p) \/ DeleteSent(p) \/ DeleteFails(p) \/ Drained(p)

Next ==
    \/ \E e \in Exporters : Deliver(e) \/ Export(e)
    \/ \E p \in Processes : RetryLoop(p) \/ CircuitCloses(p) \/ Crash(p)
    \/ ServerStops \/ ServerStarts

Spec == Init /\ [][Next]_vars

\* A batch handed to Deliver is carried on by its thread, the retry loop of each
\* process goes round every 5 to 30 s, and an outage ends.  Claims last one
\* request: two loops do not meet for ever at the file they both have sent.
FairSpec ==
    /\ Spec
    /\ \A e \in Exporters : WF_vars(Export(e))
    /\ \A p \in Processes :
         WF_vars(RetryLoop(p)) /\ SF_vars(DeleteSent(p) /\ outbox' # outbox)
    /\ WF_vars(ServerStarts)

-----------------------------------------------------------------------------
(* Properties.                                                             *)

FilesType  == /\ clock \in Nat /\ Stamps \subseteq 1 .. clock
              /\ \A s \in Stamps : outbox[s] \in Batches
HintsType  == /\ hint \in [Processes -> {"unknown", "none", "some"}]
              /\ circuit \in [Processes -> BOOLEAN]
CountType  == count \in [Exporters -> 0 .. MaxBatches]
Places     == [at : {"idle", "pending", "note", "send", "store", "move", "limit"},
               seen : BOOLEAN, stamp : Nat]
Drains     == [at : {"idle", "note", "next", "send", "close", "delete"},
               seen : BOOLEAN, todo : SUBSET (1 .. clock), stamp : Nat,
               batch : Batches \cup {NoBatch}]
ExportType == export \in [Exporters -> Places]
DrainType  == drain \in [Processes -> Drains]
ServerType == server \in {"up", "down"} /\ received \in [Batches -> 0 .. 2]
FateType   == fate \in [Batches -> {"none", "rejected", "evicted", "unwritten",
                                    "killed"}]
AgainType  == again \subseteq Batches

\* Every variable has its type.
TypeOK ==
    /\ FilesType /\ HintsType /\ CountType /\ ExportType /\ DrainType
    /\ ServerType /\ FateType /\ AgainType

\* No batch vanishes: what Deliver was given is stored by the server, in the
\* buffer, in the hands of its thread, or was given up for a stated reason, a
\* refusal of its content, the limit of the buffer, a refused write or the death
\* of its process.  An outage is not one ("l'application n'est jamais bloquee").
Accounted ==
    \A b \in Batches : b.rank <= count[b.from] =>
        \/ received[b] > 0 \/ fate[b] # "none" \/ InHand(b)
        \/ \E s \in Stamps : outbox[s] = b

\* DiskOutbox.cs:63, "évite qu'un autre processus l'envoie en double": the server stores
\* a batch a second time only when its answer was lost, its process died between the
\* answer and the deletion of the file, the deletion failed, or another process claimed
\* the file after Dispose had closed it and before it was deleted.
StoredOnce == \A b \in Batches : received[b] = 2 => b \in again

\* The retry loop of p knows, or will look, that files wait.
Attentive(p) ==
    /\ hint[p] # "none"
    /\ drain[p].at = "note" => drain[p].seen
    /\ \A e \in Exporters :
         e[1] = p /\ export[e].at = "note" => export[e].seen

\* A buffered file that some process has noticed is eventually sent or evicted,
\* through outages, lost answers, crashes and claims by other processes.
NoticedIsResent ==
    \A s \in 1 .. (MaxBatches * Cardinality(Exporters)) :
        (s \in Stamps /\ \E p \in Processes : Attentive(p)) ~> s \notin Stamps

\* A buffered file is eventually sent or evicted ("renvoyes dans l'ordre des que
\* le serveur repond").
BufferedIsResent ==
    \A s \in 1 .. (MaxBatches * Cardinality(Exporters)) :
        s \in Stamps ~> s \notin Stamps
=============================================================================
