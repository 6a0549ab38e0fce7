----------------------------- MODULE EventStore -----------------------------
(***************************************************************************)
(* What the storage of one signal promises to those who call it: a call is *)
(* answered once; a batch is acknowledged only when it is stored; from     *)
(* then on it stays stored until retention removes it.  The events of a    *)
(* batch whose call failed may be stored or not, and may go at any time.   *)
(* SignalStore.tla is shown to implement this specification.               *)
(***************************************************************************)
CONSTANT Batches, Flushes

VARIABLES answer, stored, released

Requests == Batches \cup Flushes
eventVars == <<answer, stored, released>>

EventInit ==
    /\ answer = [r \in Requests |-> "none"]
    /\ stored = {} /\ released = {}

Submit(r) ==
    /\ answer[r] = "none"
    /\ answer' = [answer EXCEPT ![r] = "waiting"]
    /\ UNCHANGED <<stored, released>>

\* Batches become durable before they are acknowledged; calls fail, one by one
\* or, with the process, all together.
Persist(B, R) ==
    /\ \A b \in B : answer[b] # "none"
    /\ \A r \in R : answer[r] = "waiting"
    /\ stored' = stored \cup B
    /\ answer' = [r \in Requests |-> IF r \in R THEN "failed" ELSE answer[r]]
    /\ UNCHANGED released

Acknowledge(R) ==
    /\ \A r \in R : answer[r] = "waiting"
    /\ R \cap Batches \subseteq stored
    /\ answer' = [r \in Requests |-> IF r \in R THEN "acked" ELSE answer[r]]
    /\ UNCHANGED <<stored, released>>

Release(B) ==
    /\ B \subseteq stored
    /\ released' = released \cup B
    /\ UNCHANGED <<answer, stored>>

\* What goes was released or never acknowledged; calls may fail with it.
Forget(B, R) ==
    /\ \A b \in B : answer[b] # "acked" \/ b \in released
    /\ \A r \in R : answer[r] = "waiting"
    /\ stored' = stored \ B
    /\ answer' = [r \in Requests |-> IF r \in R THEN "failed" ELSE answer[r]]
    /\ UNCHANGED released

EventNext ==
    \/ \E r \in Requests : Submit(r)
    \/ \E R \in SUBSET Requests : Acknowledge(R)
    \/ \E B \in SUBSET Batches :
         \/ Release(B)
         \/ \E R \in SUBSET Requests : Persist(B, R) \/ Forget(B, R)

EventSpec == EventInit /\ [][EventNext]_eventVars
=============================================================================
