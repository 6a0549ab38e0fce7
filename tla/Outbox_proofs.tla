----------------------------- MODULE Outbox_proofs -----------------------------
(***************************************************************************)
(* Proofs about the disk outbox of the client: for every number of         *)
(* processes, export threads and batches, every batch is accounted for and *)
(* is stored twice for a known reason only.                                *)
(***************************************************************************)
EXTENDS Outbox, TLAPS

\* A busy export thread holds a numbered batch.
NumberedInv == \A e \in Exporters : export[e].at # "idle" => count[e] > 0

\* The name of a file being written is its own.
Claiming(p) == drain[p].at \in {"send", "close", "delete"}

MoveInv ==
    \A e \in Exporters : export[e].at = "move" =>
        /\ export[e].stamp \in (1 .. clock) \ Stamps
        /\ \A f \in Exporters : f # e /\ export[f].at = "move" =>
              export[f].stamp # export[e].stamp
        /\ \A p \in Processes : Claiming(p) => drain[p].stamp # export[e].stamp

\* The file claimed, as long as it exists, is the batch being sent.
ClaimInv ==
    \A p \in Processes : Claiming(p) =>
        /\ drain[p].batch \in Batches /\ drain[p].stamp \in 1 .. clock
        /\ drain[p].stamp \in Stamps => outbox[drain[p].stamp] = drain[p].batch

\* A file is deleted after an answer.
Settled(b) == received[b] > 0 \/ fate[b] # "none"

AnsweredInv ==
    \A p \in Processes : drain[p].at \in {"close", "delete"} => Settled(drain[p].batch)

\* No file is open twice.
OneClaimInv ==
    \A p, q \in Processes :
        p # q /\ {drain[p].at, drain[q].at} \subseteq {"send", "close"} =>
            drain[p].stamp # drain[q].stamp

\* A batch has one name: that of its file, or of the file it was read from.  Until it has
\* one it is in the hands of its thread.
HeldAs(b, s) ==
    \/ s \in Stamps /\ outbox[s] = b
    \/ \E p \in Processes : Claiming(p) /\ drain[p].stamp = s /\ drain[p].batch = b

OneFileInv ==
    \A b \in Batches : \A s, t \in Nat :
        /\ HeldAs(b, s) => b.rank <= count[b.from] /\ ~InHand(b)
        /\ HeldAs(b, s) /\ HeldAs(b, t) => s = t

\* A loop has the answer for the file of stamp s and is about to delete it.
Done(s) == \E p \in Processes : drain[p].at \in {"close", "delete"} /\ drain[p].stamp = s

\* A batch that is stored has no sender left, and its file, if it still has one, is about
\* to be deleted.
StoredInv ==
    \A b \in Batches \ again :
        /\ received[b] # 2
        /\ received[b] = 1 =>
              /\ b.rank <= count[b.from] /\ ~InHand(b)
              /\ \A p \in Processes : drain[p].at = "send" => drain[p].batch # b
              /\ \A s \in Stamps : outbox[s] = b => Done(s)

OutboxInv ==
    /\ TypeOK /\ NumberedInv /\ MoveInv /\ ClaimInv /\ AnsweredInv
    /\ OneClaimInv /\ Accounted /\ OneFileInv /\ StoredInv

-----------------------------------------------------------------------------
(* What the steps share.                                                   *)

\* The batch an export thread holds is one of the batches.
LEMMA CurrentType ==
    ASSUME TypeOK, NumberedInv, NEW e \in Exporters, export[e].at # "idle"
    PROVE  Current(e) \in Batches
BY DEF TypeOK, CountType, NumberedInv, Current, Batches

\* An answer only adds to what the server holds.
LEMMA AnswersType ==
    ASSUME TypeOK, NEW b \in Batches, NEW r \in {"ok", "drop", "retry"}, Answers(b, r)
    PROVE  /\ received' \in [Batches -> 0 .. 2]
           /\ \A c \in Batches : received[c] > 0 => received'[c] > 0
           /\ r = "ok" => received'[b] > 0
<1>1. received \in [Batches -> 0 .. 2]
  BY DEF TypeOK, ServerType
<1>2. CASE received' = received /\ r # "ok"
  BY <1>1, <1>2
<1>3. CASE Stores(b)
  BY SMTT(90), <1>1, <1>3 DEF Stores
<1> QED
  BY <1>2, <1>3 DEF Answers

-----------------------------------------------------------------------------
(* Types.                                                                  *)

\* The names given are in the past, and what is stored under them are batches.
LEMMA FilesStep ==
    ASSUME TypeOK, NumberedInv, MoveInv, [Next]_vars
    PROVE  FilesType' /\ clock <= clock'
<1> USE DEF TypeOK, FilesType, Stamps
<1>1. ASSUME NEW e \in Exporters, StoreMove(e) PROVE FilesType' /\ clock <= clock'
  <2>1. Current(e) \in Batches /\ export[e].stamp \in 1 .. clock
    BY <1>1, CurrentType DEF StoreMove, MoveInv
  <2> QED
    BY <1>1, <2>1 DEF StoreMove
<1>2. ASSUME NEW e \in Exporters, StoreLimit(e) PROVE FilesType' /\ clock <= clock'
  BY <1>2 DEF StoreLimit, Removed
<1>3. ASSUME NEW e \in Exporters, StoreName(e) PROVE FilesType' /\ clock <= clock'
  BY <1>3 DEF StoreName
<1>4. ASSUME NEW p \in Processes, DeleteSent(p) PROVE FilesType' /\ clock <= clock'
  BY <1>4 DEF DeleteSent, Removed
<1>5. CASE UNCHANGED <<outbox, clock>>
  BY <1>5
<1> QED
  BY ZenonT(90), <1>1, <1>2, <1>3, <1>4, <1>5 DEF Next, Export, RetryLoop, Deliver, CheckPending,
    NotePending, SendNow, StoreFails, LoopCheck, LoopNote, Claim, Resend,
    CloseClaim, DeleteFails, GoesOn, Drained, CircuitCloses, Crash, ServerStops, ServerStarts, vars

\* The hints and the circuits keep their types.
LEMMA HintsStep ==
    ASSUME ConstantsAssumption, TypeOK, [Next]_vars
    PROVE  HintsType'
<1> USE DEF TypeOK, HintsType, clientVars
<1>1. CASE UNCHANGED <<hint, circuit>>
  BY <1>1
<1>2. ASSUME NEW e \in Exporters, NotePending(e) \/ SendNow(e) \/ StoreLimit(e)
      PROVE HintsType'
  BY <1>2 DEF NotePending, Noted, SendNow, StoreLimit, ConstantsAssumption
<1>3. ASSUME NEW p \in Processes,
             \/ LoopNote(p) \/ Resend(p) \/ Drained(p) \/ CircuitCloses(p)
             \/ Crash(p)
      PROVE HintsType'
  BY <1>3 DEF LoopNote, Noted, Resend, Drained, CircuitCloses, Crash
<1> QED
  BY ZenonT(90), <1>1, <1>2, <1>3 DEF Next, Export, RetryLoop, Deliver, CheckPending,
    StoreName, StoreMove, StoreFails, LoopCheck, Claim, CloseClaim, DeleteFails, GoesOn,
    DeleteSent, ServerStops, ServerStarts, vars

\* The count of the batches of each thread keeps its type.
LEMMA CountStep ==
    ASSUME ConstantsAssumption, TypeOK, [Next]_vars
    PROVE  CountType'
<1> USE DEF TypeOK, CountType
<1>1. CASE UNCHANGED count
  BY <1>1
<1>2. ASSUME NEW e \in Exporters, Deliver(e) PROVE CountType'
  BY <1>2 DEF Deliver, ConstantsAssumption
<1> QED
  BY ZenonT(90), <1>1, <1>2 DEF Next, Export, RetryLoop, CheckPending, NotePending, SendNow,
    StoreName, StoreMove, StoreFails, StoreLimit, LoopCheck, LoopNote, Claim,
    Resend, CloseClaim, DeleteFails, GoesOn, DeleteSent, Drained, CircuitCloses, Crash, ServerStops,
    ServerStarts, vars, clientVars

\* Where an export thread stands after a step.
LEMMA ExportStep ==
    ASSUME TypeOK, [Next]_vars
    PROVE  ExportType'
<1>0. export \in [Exporters -> Places] /\ clock \in Nat
  BY DEF TypeOK, ExportType, FilesType
<1>1. CASE UNCHANGED export
  BY <1>0, <1>1 DEF ExportType
<1>2. ASSUME NEW e \in Exporters, NEW x \in Places, export' = [export EXCEPT ![e] = x]
      PROVE  ExportType'
  BY <1>0, <1>2 DEF ExportType
<1>3. Idle \in Places
  BY DEF Idle, Places, NoFile
<1>4. ASSUME NEW x \in Places, NEW a \in {"idle", "pending", "note", "send", "store",
                                          "move", "limit"},
             NEW s \in BOOLEAN, NEW n \in Nat
      PROVE  /\ [x EXCEPT !.at = a] \in Places
             /\ [x EXCEPT !.at = a, !.seen = s] \in Places
             /\ [[x EXCEPT !.at = a] EXCEPT !.stamp = n] \in Places
  BY DEF Places
<1>5. ASSUME NEW e \in Exporters, NEW a \in {"idle", "pending", "note", "send",
                                             "store", "move", "limit"}, Step(e, a)
      PROVE  ExportType'
  BY ZenonT(90), <1>0, <1>2, <1>4, <1>5 DEF Step
<1>6. ASSUME NEW e \in Exporters, Deliver(e) \/ SendNow(e) \/ StoreMove(e)
      PROVE  ExportType'
  BY <1>5, <1>6 DEF Deliver, SendNow, StoreMove
<1>7. ASSUME NEW e \in Exporters, CheckPending(e)
      PROVE  ExportType'
  <2>1. CASE Step(e, "send")
    BY <1>5, <2>1
  <2>2. CASE export' = [export EXCEPT ![e] = [@ EXCEPT !.at = "note", !.seen = (Stamps # {})]]
    <3>1. [export[e] EXCEPT !.at = "note", !.seen = (Stamps # {})] \in Places
      BY ZenonT(90), <1>0, <1>4
    <3> QED
      BY ZenonT(90), <1>2, <2>2, <3>1
  <2> QED
    BY <1>7, <2>1, <2>2 DEF CheckPending
<1>8. ASSUME NEW e \in Exporters, NotePending(e) \/ StoreFails(e) \/ StoreLimit(e)
      PROVE  ExportType'
  BY ZenonT(90), <1>2, <1>3, <1>4, <1>8 DEF NotePending, StoreFails, StoreLimit
<1>9. ASSUME NEW e \in Exporters, StoreName(e)
      PROVE  ExportType'
  <2>1. [[export[e] EXCEPT !.at = "move"] EXCEPT !.stamp = clock + 1] \in Places
    <3>1. export[e] \in Places /\ clock + 1 \in Nat
      BY <1>0
    <3> QED
      BY <3>1 DEF Places
  <2>2. export' = [export EXCEPT ![e] =
                     [[export[e] EXCEPT !.at = "move"] EXCEPT !.stamp = clock + 1]]
    BY <1>0, <1>9 DEF StoreName
  <2> QED
    BY <1>2, <2>1, <2>2
<1>10. ASSUME NEW p \in Processes, Crash(p)
       PROVE  ExportType'
  BY <1>0, <1>3, <1>10 DEF Crash, ExportType
<1> QED
  BY ZenonT(90), <1>1, <1>6, <1>7, <1>8, <1>9, <1>10 DEF Next, Export, RetryLoop, LoopCheck,
    LoopNote, Claim, Resend, CloseClaim, DeleteFails, GoesOn, DeleteSent, Drained, CircuitCloses,
    ServerStops, ServerStarts, vars, clientVars

\* Where a retry loop stands after a step.
LEMMA DrainStep ==
    ASSUME TypeOK, NumberedInv, MoveInv, [Next]_vars
    PROVE  DrainType'
<1>0. /\ clock \in Nat /\ clock' \in Nat /\ clock <= clock'
      /\ Stamps \subseteq 1 .. clock
      /\ \A s \in Stamps : outbox[s] \in Batches
      /\ drain \in [Processes -> Drains]
  BY FilesStep DEF TypeOK, FilesType, DrainType
<1>1. \A x \in Drains : x \in Drains'
  BY <1>0 DEF Drains
<1>2. CASE UNCHANGED drain
  BY <1>0, <1>1, <1>2 DEF DrainType
<1>3. ASSUME NEW p \in Processes, NEW x \in Drains, drain' = [drain EXCEPT ![p] = x]
      PROVE  DrainType'
  BY <1>0, <1>1, <1>3 DEF DrainType
<1>4. Resting \in Drains
  BY DEF Resting, Drains, NoFile
<1>5. ASSUME NEW p \in Processes
      PROVE  drain[p] \in Drains /\ drain[p].todo \in SUBSET (1 .. clock)
  BY <1>0 DEF Drains
<1>6. ASSUME NEW p \in Processes, LoopCheck(p)
      PROVE  DrainType'
  <2>1. [drain[p] EXCEPT !.at = "note", !.seen = (Stamps # {})] \in Drains
    BY <1>5 DEF Drains
  <2> QED
    BY <1>3, <1>6, <2>1 DEF LoopCheck
<1>7. ASSUME NEW p \in Processes, CloseClaim(p)
      PROVE  DrainType'
  <2>1. [drain[p] EXCEPT !.at = "delete"] \in Drains
    BY <1>5 DEF Drains
  <2> QED
    BY <1>3, <1>7, <2>1 DEF CloseClaim
<1>8. ASSUME NEW p \in Processes, LoopNote(p) \/ Drained(p)
      PROVE  DrainType'
  <2>1. [Resting EXCEPT !.at = "next", !.todo = Stamps] \in Drains
    BY <1>0 DEF Resting, Drains, NoFile
  <2> QED
    BY <1>3, <1>4, <1>8, <2>1 DEF LoopNote, Drained
<1>9. ASSUME NEW p \in Processes, Crash(p)
      PROVE  DrainType'
  BY <1>3, <1>4, <1>9 DEF Crash
<1>10. ASSUME NEW p \in Processes, Claim(p)
       PROVE  DrainType'
  <2> DEFINE s == Oldest(drain[p].todo)
             left == [drain[p] EXCEPT !.todo = @ \ {s}]
  <2>1. left \in Drains
    <3> HIDE DEF s
    <3> QED
      BY <1>5 DEF Drains
  <2>2. CASE Free(s)
    <3> HIDE DEF s, left
    <3>1. s \in Nat /\ outbox[s] \in Batches
      BY <1>0, <2>2 DEF Free
    <3>2. [left EXCEPT !.at = "send", !.stamp = s, !.batch = outbox[s]] \in Drains
      BY <2>1, <3>1 DEF Drains
    <3> USE DEF s, left
    <3> QED
      BY <1>3, <1>10, <2>2, <3>2 DEF Claim
  <2>3. CASE ~Free(s)
    BY <1>3, <1>10, <2>1, <2>3 DEF Claim
  <2> QED
    BY <2>2, <2>3
<1>11. ASSUME NEW p \in Processes, Resend(p)
       PROVE  DrainType'
  <2>1. [drain[p] EXCEPT !.at = "close"] \in Drains
    BY <1>5 DEF Drains
  <2> QED
    BY <1>3, <1>4, <1>11, <2>1 DEF Resend, AfterSend, GiveUp
<1>12. ASSUME NEW p \in Processes, DeleteSent(p)
       PROVE  DrainType'
  <2>2. [Resting EXCEPT !.at = "next", !.todo = drain[p].todo] \in Drains
    BY <1>5 DEF Resting, Drains, NoFile
  <2> QED
    BY <1>3, <1>12, <2>2 DEF DeleteSent, GoesOn
<1>13. ASSUME NEW p \in Processes, DeleteFails(p)
       PROVE  DrainType'
  <2>2. GoesOn(p) \in Drains
    BY <1>5 DEF Resting, Drains, NoFile, GoesOn
  <2>3. GiveUp(p) \in Drains
    BY <1>4 DEF GiveUp
  <2> QED
    BY <1>3, <1>13, <2>2, <2>3 DEF DeleteFails
<1> QED
  BY <1>2, <1>6, <1>7, <1>8, <1>9, <1>10, <1>11, <1>12, <1>13 DEF Next, Export,
    RetryLoop, Deliver, CheckPending, NotePending, SendNow, StoreName,
    StoreMove, StoreFails, StoreLimit, CircuitCloses, ServerStops,
    ServerStarts, vars, clientVars

\* The batch of a request is a batch.
LEMMA RequestType ==
    ASSUME TypeOK, NumberedInv, ClaimInv
    PROVE  /\ \A e \in Exporters : SendNow(e) => Current(e) \in Batches
           /\ \A p \in Processes : Resend(p) => drain[p].batch \in Batches
BY CurrentType DEF SendNow, Resend, ClaimInv, Claiming

ServerGrows ==
    /\ ServerType' /\ FateType'
    /\ \A b \in Batches : Settled(b) => Settled(b)'

\* What the server holds only grows, and what is given up stays given up.
LEMMA ServerStep ==
    ASSUME TypeOK, NumberedInv, ClaimInv, [Next]_vars
    PROVE  ServerGrows
<1>0. /\ fate \in [Batches -> {"none", "rejected", "evicted", "unwritten", "killed"}]
      /\ received \in [Batches -> 0 .. 2] /\ server \in {"up", "down"}
  BY DEF TypeOK, FateType, ServerType
<1>1. ASSUME NEW b \in Batches, NEW r \in {"ok", "drop", "retry"}, Answers(b, r),
             fate' = [fate EXCEPT ![b] = IF r = "drop" THEN "rejected" ELSE @],
             server' = server
      PROVE  ServerGrows
  BY <1>0, <1>1, AnswersType DEF ServerType, FateType, ServerGrows, Settled
<1>2. ASSUME NEW e \in Exporters, SendNow(e) PROVE ServerGrows
  BY <1>1, <1>2, RequestType DEF SendNow
<1>3. ASSUME NEW p \in Processes, Resend(p) PROVE ServerGrows
  BY ZenonT(90), <1>1, <1>3, RequestType DEF Resend
<1>4. ASSUME NEW e \in Exporters, StoreFails(e) \/ StoreLimit(e) PROVE ServerGrows
  BY <1>0, <1>4 DEF StoreFails, StoreLimit, ServerType, FateType, ServerGrows, Settled
<1>5. ASSUME NEW p \in Processes, Crash(p) PROVE ServerGrows
  BY <1>0, <1>5 DEF Crash, ServerType, FateType, ServerGrows, Settled
<1>6. CASE UNCHANGED <<received, fate>> /\ server' \in {"up", "down"}
  BY <1>0, <1>6 DEF ServerType, FateType, ServerGrows, Settled
<1>7. ASSUME NEW e \in Exporters, Deliver(e) \/ Export(e) PROVE ServerGrows
  BY <1>0, <1>2, <1>4, <1>6, <1>7 DEF Export, Deliver, CheckPending, NotePending,
    StoreName, StoreMove
<1>8. ASSUME NEW p \in Processes, RetryLoop(p) \/ CircuitCloses(p) \/ Crash(p)
      PROVE  ServerGrows
  BY <1>0, <1>3, <1>5, <1>6, <1>8 DEF RetryLoop, LoopCheck, LoopNote, Claim,
    CloseClaim, DeleteFails, GoesOn, DeleteSent, Drained, CircuitCloses
<1>9. CASE ServerStops \/ ServerStarts \/ UNCHANGED vars
  BY <1>0, <1>6, <1>9 DEF ServerStops, ServerStarts, vars
<1> QED
  BY <1>7, <1>8, <1>9 DEF Next

\* An answer is only a reason to send again when it is lost.
LEMMA AnswersOnce ==
    ASSUME TypeOK, NEW b \in Batches, NEW r \in {"ok", "drop", "retry"}, Answers(b, r)
    PROVE  /\ \A c \in Batches : c # b => received'[c] = received[c]
           /\ again \subseteq again' /\ again' \subseteq Batches
           /\ r # "ok" => received'[b] = received[b] \/ b \in again'
           /\ received[b] = 0 => received'[b] < 2
<1>1. received \in [Batches -> 0 .. 2] /\ again \subseteq Batches
  BY DEF TypeOK, ServerType, AgainType
<1>2. ASSUME Stores(b)
      PROVE  /\ \A c \in Batches : c # b => received'[c] = received[c]
             /\ received[b] = 0 => received'[b] < 2
  BY <1>1, <1>2 DEF Stores
<1>3. CASE received' = received /\ again' = again
  BY <1>1, <1>3
<1>4. CASE Stores(b) /\ ((r = "ok" /\ again' = again) \/ again' = again \cup {b})
  BY <1>1, <1>2, <1>4
<1> QED
  BY <1>3, <1>4 DEF Answers

\* What may be sent again stays so, and is a batch.
LEMMA AgainStep ==
    ASSUME TypeOK, NumberedInv, ClaimInv, [Next]_vars
    PROVE  again \subseteq again' /\ again' \subseteq Batches
<1>0. again \subseteq Batches /\ \A s \in Stamps : outbox[s] \in Batches
  BY DEF TypeOK, AgainType, FilesType
<1>1. ASSUME NEW e \in Exporters, SendNow(e) PROVE again \subseteq again' /\ again' \subseteq Batches
  BY <1>1, RequestType, AnswersOnce DEF SendNow
<1>2. ASSUME NEW p \in Processes, Resend(p) PROVE again \subseteq again' /\ again' \subseteq Batches
  BY <1>2, RequestType, AnswersOnce DEF Resend
<1>3. ASSUME NEW p \in Processes, DeleteFails(p) \/ Crash(p)
      PROVE  again \subseteq again' /\ again' \subseteq Batches
  BY <1>0, <1>3 DEF DeleteFails, Crash, ClaimInv, Claiming
<1>4. ASSUME NEW p \in Processes, Claim(p)
      PROVE  again \subseteq again' /\ again' \subseteq Batches
  BY <1>0, <1>4 DEF Claim, Free
<1>5. CASE UNCHANGED again
  BY <1>0, <1>5
<1> QED
  BY ZenonT(90), <1>1, <1>2, <1>3, <1>4, <1>5 DEF Next, Export, RetryLoop, Deliver, CheckPending,
    NotePending, StoreName, StoreMove, StoreFails, StoreLimit, LoopCheck, LoopNote, CloseClaim,
    DeleteSent, Drained, CircuitCloses, ServerStops, ServerStarts, vars

\* Every step keeps the types.
LEMMA TypeStep ==
    ASSUME ConstantsAssumption, OutboxInv, [Next]_vars
    PROVE  TypeOK'
BY FilesStep, HintsStep, CountStep, ExportStep, DrainStep, ServerStep, AgainStep
  DEF OutboxInv, TypeOK, ServerGrows, AgainType

-----------------------------------------------------------------------------
(* What one step does to one thread, one loop or one file.                 *)

\* An export thread moves by its own steps or dies with its process.
LEMMA ExportFrame ==
    ASSUME TypeOK, [Next]_vars, NEW e \in Exporters
    PROVE  \/ export'[e] = export[e] /\ count'[e] = count[e]
           \/ Deliver(e) \/ Export(e)
           \/ export'[e] = Idle /\ count'[e] = count[e] /\ Crash(e[1])
<1> DEFINE Same == export'[e] = export[e] /\ count'[e] = count[e]
<1>0. /\ \A x \in Exporters : export[x] \in Places
      /\ export \in [Exporters -> Places] /\ count \in [Exporters -> 0 .. MaxBatches]
  BY DEF TypeOK, ExportType, CountType
<1>1. CASE UNCHANGED <<export, count>>
  BY <1>1
<1>2. ASSUME NEW x \in Exporters, x # e, Deliver(x) \/ Export(x) PROVE Same
  BY <1>0, <1>2 DEF Deliver, Export, CheckPending, NotePending, SendNow, StoreName,
    StoreMove, StoreFails, StoreLimit, Step
<1>3. ASSUME NEW p \in Processes, Crash(p) PROVE Same \/ (export'[e] = Idle /\ count'[e] = count[e] /\ p = e[1])
  BY <1>0, <1>3 DEF Crash
<1>4. ASSUME NEW p \in Processes, RetryLoop(p) \/ CircuitCloses(p) PROVE Same
  BY <1>4 DEF RetryLoop, LoopCheck, LoopNote, Claim, Resend, CloseClaim, DeleteFails, GoesOn, DeleteSent,
    Drained, CircuitCloses
<1>5. CASE ServerStops \/ ServerStarts \/ UNCHANGED vars
  BY <1>5 DEF ServerStops, ServerStarts, vars, clientVars
<1> HIDE DEF Same
<1>6. Same \/ Deliver(e) \/ Export(e)
      \/ (export'[e] = Idle /\ count'[e] = count[e] /\ Crash(e[1]))
  <2>1. CASE \E x \in Exporters : Deliver(x) \/ Export(x)
    BY <1>2, <2>1
  <2>2. CASE \E p \in Processes : RetryLoop(p) \/ CircuitCloses(p) \/ Crash(p)
    BY <1>3, <1>4, <2>2
  <2>3. CASE ServerStops \/ ServerStarts \/ UNCHANGED vars
    BY <1>5, <2>3 DEF Same
  <2> QED
    BY <2>1, <2>2, <2>3 DEF Next
<1> QED
  BY <1>6 DEF Same

\* Its position after a step of its own.
LEMMA ExportMoves ==
    ASSUME TypeOK, NEW e \in Exporters, Export(e)
    PROVE  /\ export[e].at # "idle" /\ count' = count
           /\ CheckPending(e) => export'[e].at \in {"send", "note"}
           /\ NotePending(e) => export'[e].at \in {"store", "send"}
           /\ SendNow(e) => export'[e].at \in {"store", "idle"}
           /\ StoreName(e) => export'[e].at = "move" /\ export'[e].stamp = clock + 1
           /\ StoreMove(e) => export'[e].at = "limit"
           /\ StoreFails(e) \/ StoreLimit(e) => export'[e].at = "idle"
<1>0. export \in [Exporters -> Places] /\ export[e] \in Places
  BY DEF TypeOK, ExportType
<1>1. export[e].at # "idle" /\ count' = count
  BY DEF Export, CheckPending, NotePending, SendNow, StoreName, StoreMove,
    StoreFails, StoreLimit
<1>2. ASSUME NEW a, Step(e, a) PROVE export'[e].at = a
  BY <1>0, <1>2 DEF Step, Places
<1>3. CheckPending(e) => export'[e].at \in {"send", "note"}
  <2>1. CASE Step(e, "send")
    BY <1>2, <2>1
  <2>2. CASE export' = [export EXCEPT ![e] = [@ EXCEPT !.at = "note", !.seen = (Stamps # {})]]
    BY <1>0, <2>2 DEF Places
  <2> QED
    BY <2>1, <2>2 DEF CheckPending
<1>4. NotePending(e) => export'[e].at \in {"store", "send"}
  BY <1>0 DEF NotePending, Places, Idle
<1>5. SendNow(e) => export'[e].at \in {"store", "idle"}
  BY <1>2 DEF SendNow
<1>6. StoreName(e) => export'[e].at = "move" /\ export'[e].stamp = clock + 1
  BY <1>0 DEF StoreName, Places
<1>7. StoreMove(e) => export'[e].at = "limit"
  BY <1>2 DEF StoreMove
<1>8. StoreFails(e) \/ StoreLimit(e) => export'[e].at = "idle"
  <2>1. StoreFails(e) \/ StoreLimit(e) => export' = [export EXCEPT ![e] = Idle]
    BY DEF StoreFails, StoreLimit
  <2> QED
    BY <1>0, <2>1 DEF Idle
<1> QED
  BY <1>1, <1>3, <1>4, <1>5, <1>6, <1>7, <1>8

\* A claim is made on a free file, then goes from the request to the deletion.
LEMMA DrainMoves ==
    ASSUME TypeOK, [Next]_vars, NEW p \in Processes, Claiming(p)'
    PROVE  \/ /\ Claiming(p) /\ drain'[p].stamp = drain[p].stamp
              /\ drain'[p].batch = drain[p].batch
              /\ \/ drain'[p].at = drain[p].at
                 \/ Resend(p) /\ drain'[p].at = "close"
                 \/ drain[p].at = "close" /\ drain'[p].at = "delete"
           \/ /\ Claim(p) /\ Free(drain'[p].stamp) /\ drain'[p].at = "send"
              /\ drain'[p].batch = outbox[drain'[p].stamp]
              /\ \A q \in Processes : q # p => drain'[q] = drain[q]
<1>0. /\ drain \in [Processes -> Drains] /\ drain[p] \in Drains
      /\ drain[p].at \in {"idle", "note", "next", "send", "close", "delete"}
  BY DEF TypeOK, DrainType, Drains
<1>1. CASE drain'[p] = drain[p]
  BY <1>1 DEF Claiming
<1>2. CASE Resend(p)
  <2>1. \/ drain' = [drain EXCEPT ![p] = Resting]
        \/ drain' = [drain EXCEPT ![p] = [drain[p] EXCEPT !.at = "close"]]
    BY <1>2 DEF Resend, AfterSend, GiveUp
  <2>2. drain[p].at = "send"
    BY <1>2 DEF Resend
  <2> QED
    BY <1>0, <1>2, <2>1, <2>2 DEF Resting, Claiming, Drains
<1>3. CASE CloseClaim(p)
  BY <1>0, <1>3 DEF CloseClaim, DeleteFails, GoesOn, Claiming, Drains
<1>4. CASE Claim(p)
  <2> DEFINE s == Oldest(drain[p].todo)
             left == [drain[p] EXCEPT !.todo = @ \ {s}]
  <2>1. CASE Free(s)
    <3>1. drain' = [drain EXCEPT ![p] =
                      [left EXCEPT !.at = "send", !.stamp = s, !.batch = outbox[s]]]
      BY <1>4, <2>1 DEF Claim
    <3> HIDE DEF s
    <3> QED
      BY <1>0, <1>4, <2>1, <3>1 DEF Drains
  <2>2. CASE ~Free(s)
    <3>1. drain' = [drain EXCEPT ![p] = left] /\ drain[p].at = "next"
      BY <1>4, <2>2 DEF Claim
    <3> HIDE DEF s
    <3> QED
      BY <1>0, <3>1 DEF Claiming, Drains
  <2> QED
    BY <2>1, <2>2
<1>5. CASE LoopCheck(p) \/ LoopNote(p) \/ DeleteSent(p) \/ DeleteFails(p) \/ Drained(p) \/ Crash(p)
  <2>1. Resting.at = "idle" /\ \A T : [Resting EXCEPT !.at = "next", !.todo = T].at = "next"
    BY DEF Resting
  <2>2. ASSUME NEW x, drain' = [drain EXCEPT ![p] = x], x.at \in {"idle", "note", "next"}
        PROVE  ~Claiming(p)'
    BY <1>0, <2>2 DEF Claiming
  <2>3. CASE LoopCheck(p)
    <3>1. [drain[p] EXCEPT !.at = "note", !.seen = (Stamps # {})].at = "note"
      BY <1>0 DEF Drains
    <3>2. drain' = [drain EXCEPT ![p] =
                      [drain[p] EXCEPT !.at = "note", !.seen = (Stamps # {})]]
      BY <2>3 DEF LoopCheck
    <3> QED
      BY <2>2, <3>1, <3>2
  <2>4. CASE LoopNote(p)
    BY <2>1, <2>2, <2>4 DEF LoopNote
  <2>5. CASE DeleteSent(p) \/ DeleteFails(p)
    BY <2>1, <2>2, <2>5 DEF DeleteSent, DeleteFails, GoesOn, GiveUp
  <2>6. CASE Drained(p) \/ Crash(p)
    BY <2>1, <2>2, <2>6 DEF Drained, Crash
  <2> QED
    BY <1>5, <2>3, <2>4, <2>5, <2>6
<1>6. ASSUME NEW q \in Processes, q # p, RetryLoop(q) \/ Crash(q)
      PROVE  drain'[p] = drain[p]
  BY <1>0, <1>6 DEF RetryLoop, LoopCheck, LoopNote, Claim, Resend, CloseClaim, DeleteFails, GoesOn,
    DeleteSent, Drained, Crash
<1>7. ASSUME NEW e \in Exporters, Deliver(e) \/ Export(e)
      PROVE  drain'[p] = drain[p]
  BY <1>7 DEF Deliver, Export, CheckPending, NotePending, SendNow, StoreName,
    StoreMove, StoreFails, StoreLimit
<1>8. CASE ServerStops \/ ServerStarts \/ UNCHANGED vars \/ (\E q \in Processes : CircuitCloses(q))
  BY <1>1, <1>8 DEF ServerStops, ServerStarts, vars, clientVars, CircuitCloses
<1> QED
  <2>1. CASE \E e \in Exporters : Deliver(e) \/ Export(e)
    BY <1>1, <1>7, <2>1
  <2>2. CASE \E q \in Processes : RetryLoop(q) \/ Crash(q)
    BY <1>1, <1>2, <1>3, <1>4, <1>5, <1>6, <2>2 DEF RetryLoop
  <2> QED
    BY <1>8, <2>1, <2>2 DEF Next

\* A file is written once, whole, and taken away by the limit or after an answer.
LEMMA FilesChange ==
    ASSUME [Next]_vars
    PROVE  \/ UNCHANGED outbox
           \/ \E e \in Exporters : StoreMove(e) \/ StoreLimit(e)
           \/ \E p \in Processes : DeleteSent(p)
BY ZenonT(90) DEF Next, Export, RetryLoop, Deliver, CheckPending, NotePending, SendNow,
  StoreName, StoreFails, LoopCheck, LoopNote, Claim, Resend, CloseClaim, DeleteFails, GoesOn, Drained,
  CircuitCloses, Crash, ServerStops, ServerStarts, vars

\* A file of the buffer was there, or an export thread moves it there with its batch.
LEMMA NewFile ==
    ASSUME [Next]_vars, NEW s \in Stamps'
    PROVE  \/ s \in Stamps /\ outbox'[s] = outbox[s]
           \/ \E e \in Exporters :
                StoreMove(e) /\ s = export[e].stamp /\ outbox'[s] = Current(e)
<1>1. ASSUME NEW e \in Exporters, StoreMove(e)
      PROVE  \/ s \in Stamps /\ outbox'[s] = outbox[s]
             \/ s = export[e].stamp /\ outbox'[s] = Current(e)
  BY <1>1 DEF StoreMove, Stamps
<1>2. ASSUME NEW e \in Exporters, StoreLimit(e)
      PROVE  s \in Stamps /\ outbox'[s] = outbox[s]
  BY <1>2 DEF StoreLimit, Stamps, Removed
<1>3. ASSUME NEW p \in Processes, DeleteSent(p)
      PROVE  s \in Stamps /\ outbox'[s] = outbox[s]
  BY <1>3 DEF DeleteSent, Stamps, Removed
<1> QED
  BY <1>1, <1>2, <1>3, FilesChange DEF Stamps

-----------------------------------------------------------------------------
(* The invariants.                                                         *)

\* A thread goes on numbering its batches in their order.
LEMMA NumberedStep ==
    ASSUME TypeOK, NumberedInv, [Next]_vars
    PROVE  NumberedInv'
<1>0. /\ \A e \in Exporters : count[e] \in Nat
      /\ count \in [Exporters -> 0 .. MaxBatches]
  BY DEF TypeOK, CountType
<1>1. SUFFICES ASSUME NEW e \in Exporters, export'[e].at # "idle"
               PROVE  count'[e] > 0
  BY DEF NumberedInv
<1>2. CASE Deliver(e)
  BY <1>0, <1>2 DEF Deliver
<1>3. CASE Export(e)
  BY <1>3, ExportMoves DEF NumberedInv
<1> QED
  BY <1>1, <1>2, <1>3, ExportFrame DEF NumberedInv, Idle

\* A thread that is moving a file keeps the name it has given.
LEMMA MoveKept ==
    ASSUME TypeOK, [Next]_vars, NEW e \in Exporters, export'[e].at = "move"
    PROVE  \/ StoreName(e) /\ export'[e].stamp = clock + 1
           \/ export[e].at = "move" /\ export'[e].stamp = export[e].stamp
<1>1. CASE Export(e)
  BY <1>1, ExportMoves DEF Export
<1>2. CASE Deliver(e)
  BY <1>2 DEF Deliver, Step, TypeOK, ExportType, Places
<1> QED
  BY <1>1, <1>2, ExportFrame DEF Idle

\* The stamp a thread is about to use stays its own until the file is there.
LEMMA MoveStep ==
    ASSUME TypeOK, NumberedInv, MoveInv, ClaimInv, [Next]_vars
    PROVE  MoveInv'
<1>0. clock \in Nat /\ clock' \in Nat /\ clock <= clock' /\ Stamps \subseteq 1 .. clock
  BY FilesStep DEF TypeOK, FilesType
<1>1. SUFFICES ASSUME NEW e \in Exporters, export'[e].at = "move"
      PROVE  /\ export'[e].stamp \in 1 .. clock' /\ export'[e].stamp \notin Stamps'
             /\ \A f \in Exporters : f # e /\ export'[f].at = "move" =>
                   export'[f].stamp # export'[e].stamp
             /\ \A p \in Processes : Claiming(p)' => drain'[p].stamp # export'[e].stamp
  BY DEF MoveInv
<1>2. ASSUME NEW x \in Exporters, StoreName(x)
      PROVE  /\ clock' = clock + 1 /\ Stamps' = Stamps /\ drain' = drain
             /\ \A f \in Exporters : f # x => export'[f] = export[f]
  BY <1>2 DEF StoreName, Stamps, TypeOK, ExportType
<1>3. CASE StoreName(e) /\ export'[e].stamp = clock + 1
  <2>1. \A f \in Exporters : f # e /\ export'[f].at = "move" => export'[f].stamp <= clock
    BY <1>0, <1>2, <1>3 DEF MoveInv
  <2>2. \A p \in Processes : Claiming(p)' => drain'[p].stamp <= clock
    BY <1>0, <1>2, <1>3 DEF ClaimInv, Claiming
  <2> QED
    BY <1>0, <1>2, <1>3, <2>1, <2>2
<1>4. CASE export[e].at = "move" /\ export'[e].stamp = export[e].stamp
  <2>1. export[e].stamp \in 1 .. clock /\ export[e].stamp \notin Stamps
    BY <1>4 DEF MoveInv
  <2>2. export[e].stamp \notin Stamps'
    <3>1. SUFFICES ASSUME NEW f \in Exporters, StoreMove(f), export[f].stamp = export[e].stamp
                   PROVE  FALSE
      BY <2>1, NewFile
    <3>2. f # e
      BY <1>1, <3>1, ExportMoves DEF Export
    <3> QED
      BY <1>4, <3>1, <3>2 DEF MoveInv, StoreMove
  <2>3. ASSUME NEW f \in Exporters, f # e, export'[f].at = "move"
        PROVE  export'[f].stamp # export[e].stamp
    BY <1>0, <1>4, <2>1, <2>3, MoveKept DEF MoveInv
  <2>4. ASSUME NEW p \in Processes, Claiming(p)'
        PROVE  drain'[p].stamp # export[e].stamp
    BY <1>4, <2>1, <2>4, DrainMoves DEF MoveInv, Free
  <2> QED
    BY <1>0, <1>4, <2>1, <2>2, <2>3, <2>4
<1> QED
  BY <1>1, <1>3, <1>4, MoveKept

\* The file that is claimed is the one whose batch is being sent again.
LEMMA ClaimStep ==
    ASSUME TypeOK, NumberedInv, MoveInv, ClaimInv, [Next]_vars
    PROVE  ClaimInv'
<1>0. /\ clock \in Nat /\ clock' \in Nat /\ clock <= clock'
      /\ Stamps \subseteq 1 .. clock /\ \A s \in Stamps : outbox[s] \in Batches
  BY FilesStep DEF TypeOK, FilesType
<1>1. SUFFICES ASSUME NEW p \in Processes, Claiming(p)'
      PROVE  /\ drain'[p].batch \in Batches /\ drain'[p].stamp \in 1 .. clock'
             /\ drain'[p].stamp \in Stamps' => outbox'[drain'[p].stamp] = drain'[p].batch
  BY DEF ClaimInv
<1>2. CASE /\ Claiming(p) /\ drain'[p].stamp = drain[p].stamp
           /\ drain'[p].batch = drain[p].batch
  <2>1. ASSUME NEW e \in Exporters, StoreMove(e) PROVE drain[p].stamp # export[e].stamp
    BY <1>2, <2>1 DEF MoveInv, StoreMove
  <2>2. drain[p].stamp \in Stamps' => outbox'[drain[p].stamp] = drain[p].batch
    BY <1>2, <2>1, NewFile DEF ClaimInv
  <2> QED
    BY <1>0, <1>2, <2>2 DEF ClaimInv
<1>3. CASE /\ Claim(p) /\ Free(drain'[p].stamp)
           /\ drain'[p].batch = outbox[drain'[p].stamp]
  <2> DEFINE s == drain'[p].stamp
  <2>1. outbox' = outbox /\ s \in Stamps /\ drain'[p].batch = outbox[s]
    BY <1>3 DEF Claim, Free
  <2> HIDE DEF s
  <2>2. outbox[s] \in Batches /\ s \in 1 .. clock' /\ outbox'[s] = outbox[s]
    BY <1>0, <2>1
  <2> QED
    BY <2>1, <2>2 DEF s
<1> QED
  BY <1>1, <1>2, <1>3, DrainMoves

\* What is closed or deleted after an answer was received, or refused for good.
LEMMA AnsweredStep ==
    ASSUME TypeOK, NumberedInv, ClaimInv, AnsweredInv, [Next]_vars
    PROVE  AnsweredInv'
<1>1. SUFFICES ASSUME NEW p \in Processes, drain'[p].at \in {"close", "delete"}
               PROVE  Settled(drain[p].batch)' /\ drain'[p].batch = drain[p].batch
  BY DEF AnsweredInv, Settled
<1>2. /\ Claiming(p) /\ drain'[p].batch = drain[p].batch
      /\ drain[p].at \in {"close", "delete"} \/ Resend(p)
  BY <1>1, DrainMoves DEF Claiming
<1>3. drain[p].batch \in Batches
  BY <1>2 DEF ClaimInv
<1>4. CASE drain[p].at \in {"close", "delete"}
  BY <1>2, <1>3, <1>4, ServerStep DEF AnsweredInv, ServerGrows, Settled
<1>5. CASE Resend(p)
  <2>1. PICK r \in {"ok", "drop", "retry"} :
           /\ Answers(drain[p].batch, r)
           /\ drain' = [drain EXCEPT ![p] = AfterSend(p, r)]
           /\ fate' = [fate EXCEPT ![drain[p].batch] =
                         IF r = "drop" THEN "rejected" ELSE @]
    BY <1>5 DEF Resend
  <2>2. r # "retry"
    BY <1>1, <2>1 DEF TypeOK, DrainType, AfterSend, GiveUp, Resting
  <2>3. r = "ok" => received'[drain[p].batch] > 0
    BY <1>3, <2>1, AnswersType
  <2>4. r = "drop" => fate'[drain[p].batch] = "rejected"
    BY <1>3, <2>1 DEF TypeOK, FateType
  <2> QED
    BY <1>2, <2>2, <2>3, <2>4 DEF Settled
<1> QED
  BY <1>2, <1>4, <1>5

\* Two processes never claim one file.
LEMMA OneClaimStep ==
    ASSUME TypeOK, OneClaimInv, [Next]_vars
    PROVE  OneClaimInv'
<1>1. SUFFICES ASSUME NEW p \in Processes, NEW q \in Processes, p # q,
                      drain'[p].at \in {"send", "close"}, drain'[q].at \in {"send", "close"}
               PROVE  drain'[p].stamp # drain'[q].stamp
  BY DEF OneClaimInv
<1>2. ASSUME NEW x \in Processes, NEW y \in Processes, x # y,
             drain'[y].at \in {"send", "close"},
             Free(drain'[x].stamp), drain'[y] = drain[y]
      PROVE  drain'[x].stamp # drain'[y].stamp
  BY <1>2 DEF Free, Claimed
<1>3. ASSUME NEW x \in {p, q}
      PROVE  \/ /\ drain[x].at \in {"send", "close"} /\ drain'[x].stamp = drain[x].stamp
             \/ /\ Free(drain'[x].stamp)
                /\ \A y \in Processes : y # x => drain'[y] = drain[y]
  <2>1. Claiming(x)' /\ x \in Processes /\ drain'[x].at \in {"send", "close"}
    BY <1>1 DEF Claiming
  <2> QED
    BY <2>1, DrainMoves DEF Resend
<1> QED
  BY <1>1, <1>2, <1>3 DEF OneClaimInv

\* A batch leaves the hands of its thread for the server, a file or a loss.
LEMMA HandStep ==
    ASSUME TypeOK, NumberedInv, ClaimInv, [Next]_vars, NEW b \in Batches, InHand(b)
    PROVE  InHand(b)' \/ Settled(b)' \/ \E s \in Stamps' : outbox'[s] = b
<1> DEFINE e == b.from
<1>0. /\ e \in Exporters /\ b = Current(e) /\ ~(export[e].at \in {"idle", "limit"})
      /\ fate \in [Batches -> {"none", "rejected", "evicted", "unwritten", "killed"}]
  BY DEF InHand, Batches, TypeOK, FateType
<1>1. ASSUME count'[e] = count[e], export'[e].at \in {"pending", "note", "send", "store", "move"}
      PROVE  InHand(b)'
  BY <1>0, <1>1 DEF InHand, Current
<1> HIDE DEF e
<1>2. CASE export'[e] = export[e] /\ count'[e] = count[e]
  BY <1>0, <1>1, <1>2 DEF InHand, e
<1>3. CASE CheckPending(e) \/ NotePending(e) \/ StoreName(e)
  BY <1>0, <1>1, <1>3, ExportMoves DEF Export
<1>4. CASE SendNow(e)
  <2>1. PICK r \in {"ok", "drop", "retry"} :
           /\ Answers(b, r)
           /\ Step(e, IF r = "retry" THEN "store" ELSE "idle")
           /\ fate' = [fate EXCEPT ![b] = IF r = "drop" THEN "rejected" ELSE @]
    BY <1>0, <1>4 DEF SendNow
  <2>2. r = "ok" => Settled(b)'
    BY <2>1, AnswersType DEF Settled
  <2>3. r = "drop" => Settled(b)'
    BY <1>0, <2>1 DEF Settled
  <2>4. r = "retry" => InHand(b)'
    <3>1. r = "retry" => export'[e].at = "store"
      BY <1>0, <2>1 DEF Step, TypeOK, ExportType, Places
    <3>2. count'[e] = count[e]
      BY <1>4 DEF SendNow
    <3> QED
      BY <1>1, <3>1, <3>2
  <2> QED
    BY <2>2, <2>3, <2>4
<1>5. CASE StoreMove(e)
  BY <1>0, <1>5 DEF StoreMove, Stamps
<1>6. CASE StoreFails(e)
  BY <1>0, <1>6 DEF StoreFails, Settled
<1>7. CASE Crash(e[1])
  BY <1>0, <1>7 DEF Crash, Settled, e
<1>8. ~Deliver(e) /\ ~StoreLimit(e)
  BY <1>0 DEF Deliver, StoreLimit
<1> QED
  BY <1>0, <1>2, <1>3, <1>4, <1>5, <1>6, <1>7, <1>8, ExportFrame DEF Export

\* A file leaves the buffer when the limit evicts it or after an answer.
LEMMA FileStep ==
    ASSUME TypeOK, NumberedInv, MoveInv, ClaimInv, AnsweredInv, [Next]_vars,
           NEW s \in Stamps, NEW b, b = outbox[s]
    PROVE  (s \in Stamps' /\ outbox'[s] = b) \/ Settled(b)'
<1>0. b \in Batches
  BY DEF TypeOK, FilesType
<1>1. ASSUME NEW e \in Exporters, StoreMove(e)
      PROVE  s \in Stamps' /\ outbox'[s] = b
  <2>1. export[e].stamp # s
    BY <1>1 DEF StoreMove, MoveInv
  <2> QED
    BY <1>1, <2>1 DEF StoreMove, Stamps
<1>2. ASSUME NEW e \in Exporters, StoreLimit(e)
      PROVE  (s \in Stamps' /\ outbox'[s] = b) \/ Settled(b)'
  <2>1. PICK K : /\ outbox' = Removed(Excess \ K)
                 /\ fate' = [x \in Batches |->
                               IF \E t \in Excess \ K : outbox[t] = x
                                 THEN "evicted" ELSE fate[x]]
    BY <1>2 DEF StoreLimit
  <2>2. CASE s \in Excess \ K
    BY <1>0, <2>1, <2>2 DEF Settled
  <2>3. CASE s \notin Excess \ K
    BY <2>1, <2>3 DEF Removed, Stamps
  <2> QED
    BY <2>2, <2>3
<1>3. ASSUME NEW p \in Processes, DeleteSent(p)
      PROVE  (s \in Stamps' /\ outbox'[s] = b) \/ Settled(b)'
  <2>1. CASE s = drain[p].stamp
    <3>1. b = drain[p].batch
      BY <1>3, <2>1 DEF DeleteSent, ClaimInv, Claiming
    <3>2. Settled(b)
      BY <1>3, <3>1 DEF DeleteSent, AnsweredInv
    <3> QED
      BY <1>0, <3>2, ServerStep DEF ServerGrows
  <2>2. CASE s # drain[p].stamp
    BY <1>3, <2>2 DEF DeleteSent, Removed, Stamps
  <2> QED
    BY <2>1, <2>2
<1> QED
  BY <1>1, <1>2, <1>3, FilesChange DEF Stamps

\* A batch is in hand from the moment Deliver has it.
LEMMA AccountedStep ==
    ASSUME TypeOK, NumberedInv, MoveInv, ClaimInv, AnsweredInv, Accounted, [Next]_vars
    PROVE  Accounted'
<1>1. SUFFICES ASSUME NEW b \in Batches, b.rank <= count'[b.from]
      PROVE  InHand(b)' \/ Settled(b)' \/ \E s \in Stamps' : outbox'[s] = b
  BY DEF Accounted, Settled, Batches
<1>2. CASE b.rank <= count[b.from]
  <2>1. Settled(b) \/ InHand(b) \/ \E s \in Stamps : outbox[s] = b
    BY <1>2 DEF Accounted, Settled
  <2>2. CASE Settled(b)
    BY <2>2, ServerStep DEF ServerGrows
  <2>3. CASE InHand(b)
    BY <2>3, HandStep
  <2>4. CASE \E s \in Stamps : outbox[s] = b
    BY <2>4, FileStep
  <2> QED
    BY <2>1, <2>2, <2>3, <2>4
<1>3. CASE ~(b.rank <= count[b.from])
  <2> DEFINE e == b.from
  <2>0. /\ e \in Exporters /\ b.rank \in Nat /\ count[e] \in Nat /\ b = [from |-> e, rank |-> b.rank]
        /\ count \in [Exporters -> 0 .. MaxBatches] /\ export \in [Exporters -> Places]
    BY DEF Batches, TypeOK, CountType, ExportType
  <2>1. Deliver(e)
    BY <1>1, <1>3, <2>0, ExportFrame, ExportMoves
  <2> HIDE DEF e
  <2>2. count'[e] = count[e] + 1 /\ export'[e].at \in {"store", "pending"}
    BY <2>0, <2>1 DEF Deliver, Step, Places
  <2>3. b.rank = count'[e]
    BY <1>1, <1>3, <2>0, <2>2 DEF e
  <2> QED
    BY <2>0, <2>2, <2>3 DEF InHand, Current, e
<1> QED
  BY <1>2, <1>3

\* A batch comes into the hands of its thread when it is new.
LEMMA InHandFrom ==
    ASSUME TypeOK, [Next]_vars, NEW b \in Batches, InHand(b)'
    PROVE  InHand(b) \/ b.rank = count[b.from] + 1
<1> DEFINE e == b.from
<1>0. /\ e \in Exporters /\ b = [from |-> e, rank |-> b.rank]
      /\ count[e] \in Nat /\ count \in [Exporters -> 0 .. MaxBatches]
      /\ export'[e].at \in {"pending", "note", "send", "store", "move"} /\ b.rank = count'[e]
  BY DEF InHand, Current, Batches, TypeOK, CountType
<1> HIDE DEF e
<1>1. CASE export'[e] = export[e] /\ count'[e] = count[e]
  BY <1>0, <1>1 DEF InHand, Current, e
<1>2. CASE Deliver(e)
  BY <1>0, <1>2 DEF Deliver, e
<1>3. CASE Export(e)
  <2>1. count' = count /\ export[e].at # "idle"
    BY <1>0, <1>3, ExportMoves
  <2>2. export[e].at # "limit"
    BY <1>0, <1>3, ExportMoves DEF Export, CheckPending, NotePending, SendNow, StoreName,
      StoreMove, StoreFails
  <2>3. export[e].at \in {"pending", "note", "send", "store", "move"}
    BY <1>0, <2>1, <2>2 DEF TypeOK, ExportType, Places
  <2> QED
    BY <1>0, <2>1, <2>3 DEF InHand, Current, e
<1>4. CASE export'[e] = Idle
  BY <1>0, <1>4 DEF Idle
<1> QED
  BY <1>0, <1>1, <1>2, <1>3, <1>4, ExportFrame

\* The numbers of the batches only grow.
LEMMA CountGrows ==
    ASSUME TypeOK, [Next]_vars, NEW e \in Exporters
    PROVE  count[e] <= count'[e] /\ count'[e] \in Nat
<1>0. count \in [Exporters -> 0 .. MaxBatches] /\ count[e] \in Nat
  BY DEF TypeOK, CountType
<1> QED
  BY <1>0, ExportFrame, ExportMoves DEF Deliver

\* A batch has the name it had, or its thread has moved it into place.
LEMMA HeldFrom ==
    ASSUME TypeOK, [Next]_vars, NEW b \in Batches, NEW s \in Nat, HeldAs(b, s)'
    PROVE  \/ HeldAs(b, s)
           \/ \E e \in Exporters : StoreMove(e) /\ s = export[e].stamp /\ b = Current(e)
<1>1. CASE s \in Stamps' /\ outbox'[s] = b
  BY <1>1, NewFile DEF HeldAs
<1>2. ASSUME NEW p \in Processes, Claiming(p)', drain'[p].stamp = s, drain'[p].batch = b
      PROVE  HeldAs(b, s)
  BY <1>2, DrainMoves DEF HeldAs, Free
<1> QED
  BY <1>1, <1>2 DEF HeldAs

\* A thread that moves its batch into place has it in hand, and lets it go.
LEMMA MoveLetsGo ==
    ASSUME TypeOK, NEW e \in Exporters, StoreMove(e), NEW b \in Batches, b = Current(e)
    PROVE  InHand(b) /\ ~InHand(b)' /\ b.rank = count'[b.from] /\ b.from = e
<1>1. b.from = e /\ b.rank = count[e] /\ export[e].at = "move"
  BY DEF Current, StoreMove
<1>2. export'[e].at = "limit" /\ count' = count
  BY ExportMoves DEF Export
<1> QED
  BY <1>1, <1>2 DEF InHand

\* A batch never has two names.
LEMMA OneFileStep ==
    ASSUME TypeOK, OneFileInv, [Next]_vars
    PROVE  OneFileInv'
<1>1. SUFFICES ASSUME NEW b \in Batches, NEW s \in Nat, NEW t \in Nat, HeldAs(b, s)'
               PROVE  /\ b.rank <= count'[b.from] /\ ~InHand(b)'
                      /\ HeldAs(b, t)' => s = t
  BY DEF OneFileInv
<1>2. b.from \in Exporters /\ b.rank \in Nat /\ count[b.from] \in Nat
  BY DEF Batches, TypeOK, CountType
<1>3. CASE HeldAs(b, s)
  <2>1. b.rank <= count[b.from] /\ ~InHand(b)
    BY <1>3 DEF OneFileInv
  <2>2. b.rank <= count'[b.from]
    BY <1>2, <2>1, CountGrows
  <2>3. ~InHand(b)'
    BY <1>2, <2>1, InHandFrom
  <2>4. HeldAs(b, t)' => s = t
    BY <1>3, <2>1, HeldFrom, MoveLetsGo DEF OneFileInv
  <2> QED
    BY <2>2, <2>3, <2>4
<1>4. ASSUME NEW e \in Exporters, StoreMove(e), s = export[e].stamp, b = Current(e)
      PROVE  /\ b.rank <= count'[b.from] /\ ~InHand(b)'
             /\ HeldAs(b, t)' => s = t
  <2>1. InHand(b) /\ ~InHand(b)' /\ b.rank = count'[b.from] /\ b.from = e
    BY <1>4, MoveLetsGo
  <2>2. ASSUME HeldAs(b, t)' PROVE s = t
    <3>1. ~HeldAs(b, t)
      BY <2>1 DEF OneFileInv
    <3>2. PICK f \in Exporters : StoreMove(f) /\ t = export[f].stamp /\ b = Current(f)
      BY <2>2, <3>1, HeldFrom
    <3>3. f = e
      BY <2>1, <3>2, MoveLetsGo
    <3> QED
      BY <1>4, <3>2, <3>3
  <2> QED
    BY <1>2, <2>1, <2>2
<1> QED
  BY <1>1, <1>3, <1>4, HeldFrom

\* A claim of a file whose batch is answered is a reason to send it again.
LEMMA ClaimAgain ==
    ASSUME TypeOK, NEW p \in Processes, Claim(p), drain'[p].at = "send"
    PROVE  /\ Free(drain'[p].stamp) /\ drain'[p].batch = outbox[drain'[p].stamp]
           /\ Answered(drain'[p].stamp) => outbox[drain'[p].stamp] \in again'
<1> DEFINE s == Oldest(drain[p].todo)
           left == [drain[p] EXCEPT !.todo = @ \ {s}]
<1>0. drain \in [Processes -> Drains] /\ drain[p] \in Drains /\ drain[p].at = "next"
  BY DEF TypeOK, DrainType, Claim
<1>1. Free(s)
  <2>1. ~Free(s) => drain'[p] = left
    BY <1>0 DEF Claim
  <2> HIDE DEF s
  <2> QED
    BY <1>0, <2>1 DEF Drains
<1>2. /\ drain'[p] = [left EXCEPT !.at = "send", !.stamp = s, !.batch = outbox[s]]
      /\ Answered(s) => outbox[s] \in again'
  BY <1>0, <1>1 DEF Claim
<1> HIDE DEF s
<1>3. drain'[p].stamp = s /\ drain'[p].batch = outbox[s]
  BY <1>0, <1>2 DEF Drains
<1> QED
  BY <1>1, <1>2, <1>3

\* A loop that has the answer for a file deletes it, fails to or dies.
LEMMA DoneKept ==
    ASSUME TypeOK, [Next]_vars, NEW p \in Processes, drain[p].at \in {"close", "delete"}
    PROVE  \/ drain'[p].at \in {"close", "delete"} /\ drain'[p].stamp = drain[p].stamp
           \/ DeleteSent(p) \/ DeleteFails(p) \/ Crash(p)
<1>0. drain \in [Processes -> Drains] /\ drain[p] \in Drains
  BY DEF TypeOK, DrainType
<1>1. CASE drain'[p] = drain[p]
  BY <1>1
<1>2. CASE CloseClaim(p)
  BY <1>0, <1>2 DEF CloseClaim, Drains
<1>3. ASSUME NEW q \in Processes, q # p, RetryLoop(q) \/ Crash(q)
      PROVE  drain'[p] = drain[p]
  BY <1>0, <1>3 DEF RetryLoop, LoopCheck, LoopNote, Claim, Resend, CloseClaim,
    DeleteSent, DeleteFails, Drained, Crash
<1>4. ASSUME NEW e \in Exporters, Deliver(e) \/ Export(e)
      PROVE  drain'[p] = drain[p]
  BY <1>4 DEF Deliver, Export, CheckPending, NotePending, SendNow, StoreName,
    StoreMove, StoreFails, StoreLimit
<1>5. CASE ServerStops \/ ServerStarts \/ UNCHANGED vars \/ (\E q \in Processes : CircuitCloses(q))
  BY <1>1, <1>5 DEF ServerStops, ServerStarts, vars, clientVars, CircuitCloses
<1>6. ~LoopCheck(p) /\ ~LoopNote(p) /\ ~Claim(p) /\ ~Resend(p) /\ ~Drained(p)
  BY DEF LoopCheck, LoopNote, Claim, Resend, Drained
<1> QED
  <2>1. CASE \E e \in Exporters : Deliver(e) \/ Export(e)
    BY <1>1, <1>4, <2>1
  <2>2. CASE \E q \in Processes : RetryLoop(q) \/ Crash(q)
    BY <1>1, <1>2, <1>3, <1>6, <2>2 DEF RetryLoop
  <2> QED
    BY <1>5, <2>1, <2>2 DEF Next

\* What the server holds changes by an answer to the thread or to the loop that sends.
LEMMA ReceivedChange ==
    ASSUME TypeOK, NumberedInv, ClaimInv, [Next]_vars, NEW b \in Batches, b \notin again'
    PROVE  \/ received'[b] = received[b]
           \/ /\ received[b] = 0 => received'[b] < 2
              /\ \/ \E e \in Exporters :
                       SendNow(e) /\ b = Current(e) /\ export'[e].at = "idle"
                 \/ \E p \in Processes :
                       /\ Resend(p) /\ b = drain[p].batch
                       /\ drain' = [drain EXCEPT ![p] = [drain[p] EXCEPT !.at = "close"]]
<1>1. ASSUME NEW e \in Exporters, SendNow(e), received'[b] # received[b]
      PROVE  /\ b = Current(e) /\ export'[e].at = "idle"
             /\ received[b] = 0 => received'[b] < 2
  <2>1. PICK r \in {"ok", "drop", "retry"} :
           Answers(Current(e), r) /\ Step(e, IF r = "retry" THEN "store" ELSE "idle")
    BY <1>1 DEF SendNow
  <2>2. b = Current(e) /\ r = "ok" /\ (received[b] = 0 => received'[b] < 2)
    BY <1>1, <2>1, RequestType, AnswersOnce
  <2>3. export'[e].at = "idle"
    BY <2>1, <2>2 DEF Step, TypeOK, ExportType, Places
  <2> QED
    BY <2>2, <2>3
<1>2. ASSUME NEW p \in Processes, Resend(p), received'[b] # received[b]
      PROVE  /\ b = drain[p].batch
             /\ drain' = [drain EXCEPT ![p] = [drain[p] EXCEPT !.at = "close"]]
             /\ received[b] = 0 => received'[b] < 2
  <2>1. PICK r \in {"ok", "drop", "retry"} :
           /\ Answers(drain[p].batch, r)
           /\ drain' = [drain EXCEPT ![p] = AfterSend(p, r)]
    BY <1>2 DEF Resend
  <2>2. b = drain[p].batch /\ r = "ok" /\ (received[b] = 0 => received'[b] < 2)
    BY <1>2, <2>1, RequestType, AnswersOnce
  <2> QED
    BY <2>1, <2>2 DEF AfterSend
<1>3. (\E e \in Exporters : SendNow(e)) \/ (\E p \in Processes : Resend(p)) \/ UNCHANGED received
  BY ZenonT(90) DEF Next, Export, RetryLoop, Deliver, CheckPending, NotePending,
    StoreName, StoreMove, StoreFails, StoreLimit, LoopCheck, LoopNote, Claim,
    CloseClaim, DeleteSent, DeleteFails, Drained, CircuitCloses, Crash, ServerStops,
    ServerStarts, vars
<1> QED
  BY <1>1, <1>2, <1>3

\* A stored batch that nobody has a reason to send again has no sender.
LEMMA StoredStep ==
    ASSUME OutboxInv, [Next]_vars
    PROVE  StoredInv'
<1>0. TypeOK /\ NumberedInv /\ ClaimInv /\ OneClaimInv /\ OneFileInv /\ StoredInv
  BY DEF OutboxInv
<1>1. SUFFICES ASSUME NEW b \in Batches, b \notin again'
      PROVE  /\ received'[b] # 2
             /\ received'[b] = 1 =>
                   /\ b.rank <= count'[b.from] /\ ~InHand(b)'
                   /\ \A p \in Processes : drain'[p].at = "send" => drain'[p].batch # b
                   /\ \A s \in Stamps' : outbox'[s] = b => Done(s)'
  BY DEF StoredInv
<1>2. /\ b \notin again /\ received[b] \in 0 .. 2 /\ received[b] # 2
      /\ b.from \in Exporters /\ b.rank \in Nat /\ count[b.from] \in Nat
      /\ Stamps \subseteq Nat /\ drain \in [Processes -> Drains]
  <2>1. b \notin again
    BY <1>0, <1>1, AgainStep
  <2>2. received[b] \in 0 .. 2 /\ drain \in [Processes -> Drains] /\ Stamps \subseteq Nat
    BY <1>0 DEF TypeOK, ServerType, DrainType, FilesType
  <2>3. b.from \in Exporters /\ b.rank \in Nat /\ count[b.from] \in Nat
    BY <1>0 DEF TypeOK, CountType, Batches
  <2>4. received[b] # 2
    BY <1>0, <2>1 DEF StoredInv
  <2> QED
    BY <2>1, <2>2, <2>3, <2>4
<1>3. CASE received'[b] = received[b] /\ received[b] = 1
  <2>1. /\ b.rank <= count[b.from] /\ ~InHand(b)
        /\ \A p \in Processes : drain[p].at = "send" => drain[p].batch # b
        /\ \A s \in Stamps : outbox[s] = b => Done(s)
    BY <1>0, <1>2, <1>3 DEF StoredInv
  <2>2. b.rank <= count'[b.from] /\ ~InHand(b)'
    BY <1>0, <1>2, <2>1, CountGrows, InHandFrom
  <2>3. ASSUME NEW p \in Processes, drain'[p].at = "send" PROVE drain'[p].batch # b
    <3>1. CASE drain[p].at = "send" /\ drain'[p].batch = drain[p].batch
      BY <2>1, <3>1
    <3>2. CASE Claim(p)
      <4>1. /\ Free(drain'[p].stamp) /\ drain'[p].batch = outbox[drain'[p].stamp]
            /\ Answered(drain'[p].stamp) => outbox[drain'[p].stamp] \in again'
        BY <1>0, <2>3, <3>2, ClaimAgain
      <4>2. drain'[p].batch = b => Done(drain'[p].stamp)
        BY <2>1, <4>1 DEF Free
      <4>3. Done(drain'[p].stamp) => Answered(drain'[p].stamp)
        BY <4>1 DEF Done, Answered, Free, Claimed
      <4> QED
        BY <1>1, <4>1, <4>2, <4>3
    <3> QED
      BY <1>0, <2>3, <3>1, <3>2, DrainMoves DEF Claiming
  <2>4. ASSUME NEW s \in Stamps', outbox'[s] = b PROVE Done(s)'
    <3>1. s \in Stamps /\ outbox[s] = b
      BY <1>0, <1>1, <2>1, <2>4, NewFile, MoveLetsGo
    <3>2. PICK p \in Processes : drain[p].at \in {"close", "delete"} /\ drain[p].stamp = s
      BY <2>1, <3>1 DEF Done
    <3>3. drain[p].batch = b
      BY <1>0, <3>1, <3>2 DEF ClaimInv, Claiming
    <3>4. CASE DeleteFails(p) \/ Crash(p)
      BY <1>1, <3>2, <3>3, <3>4 DEF DeleteFails, Crash
    <3>5. CASE DeleteSent(p)
      <4>1. outbox' # Removed({s})
        BY <2>4 DEF Removed, Stamps
      <4>2. s \in Claimed
        BY <3>2, <3>5, <4>1 DEF DeleteSent
      <4>3. PICK q \in Processes : drain[q].at \in {"send", "close"} /\ drain[q].stamp = s
        BY <4>2 DEF Claimed
      <4>4. drain[q].batch = b
        BY <1>0, <3>1, <4>3 DEF ClaimInv, Claiming
      <4>5. drain[q].at = "close" /\ q # p
        BY <2>1, <3>5, <4>3, <4>4 DEF DeleteSent
      <4>6. drain'[q] = drain[q]
        BY <1>2, <3>5, <4>5 DEF DeleteSent
      <4> QED
        BY <4>3, <4>5, <4>6 DEF Done
    <3> QED
      BY <1>0, <3>2, <3>4, <3>5, DoneKept DEF Done
  <2> QED
    BY <1>2, <1>3, <2>2, <2>3, <2>4
<1>4. ASSUME NEW e \in Exporters, SendNow(e), b = Current(e), export'[e].at = "idle",
             received[b] = 0 => received'[b] < 2
      PROVE  /\ received'[b] # 2
             /\ b.rank <= count'[b.from] /\ ~InHand(b)'
             /\ \A p \in Processes : drain'[p].at = "send" => drain'[p].batch # b
             /\ \A s \in Stamps' : outbox'[s] = b => Done(s)'
  <2>1. /\ InHand(b) /\ b.from = e /\ b.rank = count[e] /\ UNCHANGED <<count, drain, outbox>>
    BY <1>4 DEF SendNow, InHand, Current
  <2>2. ~InHand(b)'
    BY <1>4, <2>1 DEF InHand
  <2>3. received[b] = 0
    BY <1>0, <1>2, <2>1 DEF StoredInv
  <2>4. \A s \in Nat : ~HeldAs(b, s)
    BY <1>0, <2>1 DEF OneFileInv
  <2>5. \A p \in Processes : drain[p].at = "send" => drain[p].batch # b
    <3>1. \A p \in Processes : drain[p].stamp \in Nat
      BY <1>2 DEF Drains
    <3> QED
      BY <2>4, <3>1 DEF HeldAs, Claiming
  <2>6. \A s \in Stamps : outbox[s] # b
    BY <1>2, <2>4 DEF HeldAs
  <2> QED
    BY <1>2, <1>4, <2>1, <2>2, <2>3, <2>5, <2>6 DEF Stamps
<1>5. ASSUME NEW p \in Processes, Resend(p), b = drain[p].batch,
             drain' = [drain EXCEPT ![p] = [drain[p] EXCEPT !.at = "close"]],
             received[b] = 0 => received'[b] < 2
      PROVE  /\ received'[b] # 2
             /\ b.rank <= count'[b.from] /\ ~InHand(b)'
             /\ \A q \in Processes : drain'[q].at = "send" => drain'[q].batch # b
             /\ \A s \in Stamps' : outbox'[s] = b => Done(s)'
  <2>1. drain[p].at = "send" /\ UNCHANGED <<count, export, outbox>>
    BY <1>5 DEF Resend
  <2>2. drain[p] \in Drains /\ drain[p].stamp \in Nat /\ \A q \in Processes : drain[q].stamp \in Nat
    BY <1>2 DEF Drains
  <2>3. HeldAs(b, drain[p].stamp)
    BY <1>5, <2>1 DEF HeldAs, Claiming
  <2>4. b.rank <= count[b.from] /\ ~InHand(b)
    BY <1>0, <2>2, <2>3 DEF OneFileInv
  <2>5. ~InHand(b)' /\ b.rank <= count'[b.from]
    BY <2>1, <2>4 DEF InHand, Current
  <2>6. received[b] = 0
    BY <1>0, <1>2, <1>5, <2>1 DEF StoredInv
  <2>7. drain'[p].at = "close" /\ drain'[p].stamp = drain[p].stamp
    BY <1>2, <1>5, <2>2 DEF Drains
  <2>8. ASSUME NEW q \in Processes, drain'[q].at = "send", drain'[q].batch = b PROVE FALSE
    <3>1. q # p
      BY <2>7, <2>8
    <3>2. drain'[q] = drain[q]
      BY <1>2, <1>5, <3>1
    <3>3. HeldAs(b, drain[q].stamp)
      BY <2>8, <3>2 DEF HeldAs, Claiming
    <3>4. drain[q].stamp = drain[p].stamp
      BY <1>0, <2>2, <2>3, <3>3 DEF OneFileInv
    <3> QED
      BY <1>0, <2>1, <2>8, <3>1, <3>2, <3>4 DEF OneClaimInv
  <2>9. ASSUME NEW s \in Stamps', outbox'[s] = b PROVE Done(s)'
    <3>1. s \in Stamps /\ outbox[s] = b /\ s \in Nat
      BY <1>2, <2>1, <2>9 DEF Stamps
    <3>2. s = drain[p].stamp
      BY <1>0, <2>2, <2>3, <3>1 DEF OneFileInv, HeldAs
    <3> QED
      BY <2>7, <3>2 DEF Done
  <2> QED
    BY <1>2, <1>5, <2>5, <2>6, <2>8, <2>9
<1> QED
  <2>1. CASE received'[b] = received[b]
    BY <1>2, <1>3, <2>1
  <2>2. CASE received'[b] # received[b]
    BY <1>0, <1>1, <1>4, <1>5, <2>2, ReceivedChange
  <2> QED
    BY <2>1, <2>2

\* All of it holds at the start.
LEMMA OutboxInit ==
    ASSUME ConstantsAssumption, Init
    PROVE  OutboxInv
<1>1. TypeOK
  BY DEF Init, ConstantsAssumption, TypeOK, FilesType, HintsType, CountType,
    ExportType, DrainType, ServerType, FateType, AgainType, Stamps, Places, Drains, Idle,
    Resting, NoFile
<1>2. Accounted
  BY DEF Init, Accounted, Batches
<1>3. NumberedInv /\ MoveInv /\ ClaimInv /\ AnsweredInv /\ OneClaimInv
  BY DEF Init, NumberedInv, MoveInv, ClaimInv, AnsweredInv, OneClaimInv, Claiming,
    Idle, Resting
<1>4. OneFileInv /\ StoredInv
  BY DEF Init, OneFileInv, StoredInv, HeldAs, Claiming, Stamps, Idle, Resting
<1> QED
  BY <1>1, <1>2, <1>3, <1>4 DEF OutboxInv

\* Every step keeps the invariant.
LEMMA OutboxStep ==
    ASSUME ConstantsAssumption, OutboxInv, [Next]_vars
    PROVE  OutboxInv'
BY TypeStep, NumberedStep, MoveStep, ClaimStep, AnsweredStep, OneClaimStep,
  AccountedStep, OneFileStep, StoredStep DEF OutboxInv

\* The inductive invariant of the transport and its buffer: DiskOutbox.cs and WolflogTransport.cs, with
\* the crashes, outages and lost answers of the module.
THEOREM OutboxSafe == Spec => []OutboxInv
<1>1. Init => OutboxInv
  BY ConstantsAssumption, OutboxInit
<1>2. OutboxInv /\ [Next]_vars => OutboxInv'
  BY ConstantsAssumption, OutboxStep
<1> QED
  BY <1>1, <1>2, PTL DEF Spec

\* Every variable has its type, in every reachable state.
THEOREM OutboxTypes == Spec => []TypeOK
BY OutboxSafe, PTL DEF OutboxInv

\* No batch vanishes, for any number of processes and threads that share the
\* buffer, any limit of its size and any crash.
THEOREM NothingVanishes == Spec => []Accounted
BY OutboxSafe, PTL DEF OutboxInv

\* DiskOutbox.cs:63: the server stores a batch a second time only when its answer was lost, its
\* process died between the answer and the deletion of the file, the deletion failed, or another
\* process claimed the file between Dispose's close and its deletion; for any number of processes,
\* threads, crashes and evictions.
THEOREM BatchStoredOnce == Spec => []StoredOnce
<1>1. OutboxInv => StoredOnce
  BY DEF OutboxInv, StoredInv, StoredOnce
<1> QED
  BY <1>1, OutboxSafe, PTL
=============================================================================
