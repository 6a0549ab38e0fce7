----------------------------- MODULE Alerts_proofs -----------------------------
(***************************************************************************)
(* Proofs about the alert engine: for any rules, keys and settings, what   *)
(* the team was told last about an alert is its state, a restart finds no  *)
(* firing alert that was not told, and no notification overtakes another.  *)
(* All but the types need that no two runs share the states.               *)
(***************************************************************************)
EXTENDS Alerts, FiniteSetTheorems, TLAPS

\* A notification about alert a waits in some run.
Mailed(a) == \E x \in Runners : \E m \in run[x].mail : m[1] = a

\* Notifications wait only while a run sends them, at most one for an alert.
MailOf(r) ==
    /\ r.at \notin {"mail", "mark"} => r.mail = {}
    /\ r.at = "apply" => r.rule \in Rules
    /\ r.at = "mark" => r.sent \in Alerts
    /\ \A m, n \in r.mail : m[1] = n[1] => m = n
    /\ OneKey => \A m, n \in r.mail : m = n
    /\ OneKey /\ r.at = "mark" => r.mail = {}

MailInv == \A x \in Runners : MailOf(run[x])

\* A notification that waits says what the state of its alert says.
AgreeInv ==
    \A x \in Runners : \A m \in run[x].mail :
        m[2] = "firing" <=> states[m[1]].status = "firing"

\* The last word about a condition is its state, or the next word waits.
WordInv ==
    crashes = 0 /\ NoneDropped =>
        \A a \in Alerts : ~setting[a[1]].event =>
            Mailed(a) \/ (states[a].status = "firing" <=> told[a] = "firing")

\* A firing alert was told or is about to be, and was told before it is saved.
ToldInv ==
    NoneDropped =>
        \A a \in Alerts :
            /\ states[a].status = "firing" => told[a] # "nothing" \/ Mailed(a)
            /\ saved[a].status = "firing" => told[a] # "nothing"
            /\ \A x \in Runners :
                  run[x].copy[a].status = "firing" => told[a] # "nothing"

AlertsInv == TypeOK /\ MailInv /\ AgreeInv /\ WordInv /\ ToldInv

-----------------------------------------------------------------------------
(* Operators.                                                              *)

\* A set of naturals that is not empty has a least element, which First chooses.
LEMMA FirstOfRules ==
    ASSUME NEW S \in SUBSET Nat, S # {}
    PROVE  First(S) \in S
<1> DEFINE T == {I \in FiniteSubsetsOf(Nat) : \E k \in S : I = 0 .. k}
<1>1. \A k \in Nat : 0 .. k \in FiniteSubsetsOf(Nat)
  BY FS_Interval DEF FiniteSubsetsOf
<1>2. T # {}
  BY <1>1
<1>3. PICK I \in T : \A J \in T : <<J, I>> \notin StrictSubsetOrdering(Nat)
  <2>1. IsWellFoundedOn(StrictSubsetOrdering(Nat), FiniteSubsetsOf(Nat))
    BY FS_StrictSubsetOrderingWellFounded
  <2>2. T \subseteq FiniteSubsetsOf(Nat) /\ T # {}
    BY <1>2
  <2> HIDE DEF T
  <2>3. QED
    BY <2>1, <2>2, WFMin
<1>4. PICK k \in S : I = 0 .. k
  BY <1>3
<1>5. ASSUME NEW q \in S, q < k PROVE FALSE
  <2>1. 0 .. q \in T
    BY <1>1
  <2>2. 0 .. q \subseteq 0 .. k /\ k \in 0 .. k /\ k \notin 0 .. q
    BY <1>5
  <2>3. 0 .. q \in SUBSET Nat /\ 0 .. k \in SUBSET Nat /\ 0 .. q # 0 .. k
    BY <2>2
  <2>4. <<0 .. q, 0 .. k>> \in StrictSubsetOrdering(Nat)
    BY <2>2, <2>3 DEF StrictSubsetOrdering
  <2> QED
    BY <1>3, <1>4, <2>1, <2>4
<1>6. \A q \in S : k <= q
  BY <1>5
<1> QED
  BY <1>6 DEF First

\* A state is made of ages.
LEMMA StateFacts ==
    /\ NoState \in StateType /\ Nothing \in [Alerts -> StateType] /\ Idle \in Runs
    /\ 0 .. MaxRunTicks \subseteq Ages /\ Never \notin Ages
<1>1. 0 \in Ages /\ 0 .. MaxRunTicks \subseteq Ages /\ Never \notin Ages
  BY ConstantsAssumption DEF Ages, Never
<1>2. NoState \in StateType
  BY <1>1 DEF NoState, StateType
<1>3. Nothing \in [Alerts -> StateType]
  BY <1>2 DEF Nothing
<1>4. 0 \in 0 .. MaxRunTicks
  BY ConstantsAssumption
<1>5. Idle \in Runs
  BY <1>3, <1>4 DEF Idle, Runs
<1> QED
  BY <1>1, <1>2, <1>3, <1>5

\* Time passes for every state alike, and changes no status.
LEMMA AgedFacts ==
    ASSUME NEW S \in [Alerts -> StateType]
    PROVE  /\ Aged(S) \in [Alerts -> StateType]
           /\ \A a \in Alerts : Aged(S)[a].status = S[a].status
<1>1. \A g \in Ages : Older(g) \in Ages
  BY ConstantsAssumption DEF Ages, Older
<1>2. Older(Never) = Never
  BY ConstantsAssumption DEF Never, Older
<1>3. ASSUME NEW a \in Alerts
      PROVE  Aged(S)[a] \in StateType /\ Aged(S)[a].status = S[a].status
  <2>1. S[a] \in StateType /\ NoState \in StateType
    BY StateFacts
  <2>2. CASE S[a] = NoState
    BY <2>1, <2>2 DEF Aged
  <2>3. CASE S[a] # NoState
    <3>1. Aged(S)[a] = [S[a] EXCEPT !.since = Older(@), !.last = Older(@),
                                    !.seen = Older(@)]
      BY <2>3 DEF Aged
    <3>2. /\ Older(S[a].since) \in Ages
          /\ Older(S[a].last) \in Ages \cup {Never}
          /\ Older(S[a].seen) \in Ages \cup {Never}
      BY <1>1, <1>2, <2>1 DEF StateType
    <3> QED
      BY ZenonT(90), <2>1, <3>1, <3>2 DEF StateType
  <2> QED
    BY <2>2, <2>3
<1> QED
  BY <1>3 DEF Aged

\* What an evaluation says of an alert goes with what it does to its state.
Tells(s, o) ==
    /\ o.state \in StateType
    /\ \/ o.tell = {} /\ (o.state.status = "firing" => s.status = "firing")
       \/ o.tell = {"firing"} /\ o.state.status = "firing"
       \/ o.tell = {"resolved"} /\ o.state.status # "firing"

\* Without an event, the state does not change side in silence.
Speaks(s, o) == o.tell = {} => (o.state.status = "firing" <=> s.status = "firing")

\* A resolution.
LEMMA ResolvedTells ==
    ASSUME NEW s \in StateType, NEW ago \in Ages
    PROVE  Tells(s, Resolved(s, ago)) /\ Speaks(s, Resolved(s, ago))
<1>1. CASE s.status = "ok"
  BY <1>1 DEF Resolved, Tells, Speaks
<1>2. CASE s.status # "ok"
  <2>1. Resolved(s, ago).state = [s EXCEPT !.status = "ok", !.since = ago]
    BY <1>2 DEF Resolved
  <2>2. [s EXCEPT !.status = "ok", !.since = ago] \in StateType
    BY DEF StateType
  <2>3. [s EXCEPT !.status = "ok", !.since = ago].status = "ok"
    BY DEF StateType
  <2> QED
    BY <2>1, <2>2, <2>3 DEF Resolved, Tells, Speaks
<1> QED
  BY <1>1, <1>2

\* A breach.
LEMMA BreachedTells ==
    ASSUME NEW r, NEW s \in StateType, NEW ago \in Ages
    PROVE  Tells(s, Breached(r, s, ago)) /\ Speaks(s, Breached(r, s, ago))
<1>1. /\ [s EXCEPT !.status = "firing", !.since = ago] \in StateType
      /\ [s EXCEPT !.status = "firing", !.since = ago].status = "firing"
      /\ [s EXCEPT !.status = "pending", !.since = ago] \in StateType
      /\ [s EXCEPT !.status = "pending", !.since = ago].status = "pending"
  BY DEF StateType
<1>2. CASE Breached(r, s, ago) = Fired(s, ago)
  <2>1. /\ Breached(r, s, ago).state = [s EXCEPT !.status = "firing", !.since = ago]
        /\ Breached(r, s, ago).tell = {"firing"}
    BY <1>2 DEF Fired
  <2> QED
    BY <1>1, <2>1 DEF Tells, Speaks
<1>3. CASE /\ Breached(r, s, ago).state =
                IF s.status = "ok"
                  THEN [s EXCEPT !.status = "pending", !.since = ago] ELSE s
           /\ \/ Breached(r, s, ago).tell = {}
              \/ s.status = "firing" /\ Breached(r, s, ago).tell = {"firing"}
  BY <1>1, <1>3 DEF Tells, Speaks
<1> QED
  BY <1>2, <1>3 DEF Breached

\* An evaluation, whatever it found.
LEMMA OutcomeTells ==
    ASSUME TypeOK, NEW r \in Rules, NEW s \in StateType, NEW found, NEW ago \in Ages
    PROVE  /\ Tells(s, Outcome(r, s, found, ago))
           /\ ~setting[r].event => Speaks(s, Outcome(r, s, found, ago))
<1> DEFINE o == IF found = "absent" THEN NotEvaluated(r, s, ago)
                ELSE Evaluated(r, s, found, ago)
<1>1. Tells(s, [state |-> s, tell |-> {}]) /\ Speaks(s, [state |-> s, tell |-> {}])
  BY DEF Tells, Speaks
<1>2. Tells(s, NotEvaluated(r, s, ago))
      /\ (~setting[r].event => Speaks(s, NotEvaluated(r, s, ago)))
  <2>1. Tells(s, [state |-> NoState, tell |-> {}])
    BY StateFacts DEF Tells, NoState
  <2>2. s.status = "pending" => Tells(s, Fired(s, ago))
    BY DEF Tells, Fired, StateType
  <2> QED
    BY <1>1, <2>1, <2>2, ResolvedTells DEF NotEvaluated
<1>3. Tells(s, Evaluated(r, s, found, ago)) /\ Speaks(s, Evaluated(r, s, found, ago))
  <2> DEFINE fresh == IF s = NoState THEN [s EXCEPT !.status = "ok", !.since = ago] ELSE s
             now   == [fresh EXCEPT !.seen = IF setting[r].event THEN ago ELSE Never]
  <2>1. fresh \in StateType /\ (fresh.status = "firing" <=> s.status = "firing")
    <3>1. /\ [s EXCEPT !.status = "ok", !.since = ago] \in StateType
          /\ [s EXCEPT !.status = "ok", !.since = ago].status = "ok"
      BY DEF StateType
    <3>2. NoState.status = "none"
      BY DEF NoState
    <3> QED
      BY <3>1, <3>2
  <2> HIDE DEF fresh
  <2>2. now \in StateType /\ now.status = fresh.status
    BY <2>1 DEF StateType
  <2> HIDE DEF now
  <2>3. /\ Tells(now, Breached(r, now, ago)) /\ Speaks(now, Breached(r, now, ago))
        /\ Tells(now, Resolved(now, ago)) /\ Speaks(now, Resolved(now, ago))
    BY <2>2, BreachedTells, ResolvedTells
  <2>4. /\ Tells(s, Breached(r, now, ago)) /\ Speaks(s, Breached(r, now, ago))
        /\ Tells(s, Resolved(now, ago)) /\ Speaks(s, Resolved(now, ago))
    BY <2>1, <2>2, <2>3 DEF Tells, Speaks
  <2>5. Evaluated(r, s, found, ago) =
          IF found = "bad" THEN Breached(r, now, ago)
          ELSE IF s = NoState THEN [state |-> s, tell |-> {}] ELSE Resolved(now, ago)
    BY DEF Evaluated, now, fresh
  <2> QED
    BY <1>1, <2>4, <2>5
<1>4. Tells(s, o) /\ (~setting[r].event => Speaks(s, o))
  BY <1>2, <1>3
<1>5. Outcome(r, s, found, ago) =
        IF o.state.status = "ok" /\ Elapsed(o.state.since, ago, OkKept + 1)
          THEN [o EXCEPT !.state = NoState] ELSE o
  BY DEF Outcome
<1>6. o.state.status = "ok" =>
        /\ Tells(s, [o EXCEPT !.state = NoState])
        /\ ~setting[r].event => Speaks(s, [o EXCEPT !.state = NoState])
  BY <1>4, StateFacts DEF Tells, Speaks, NoState
<1> QED
  BY <1>4, <1>5, <1>6

\* A query finds nothing, something quiet or something bad for each key.
LEMMA ResultsType ==
    ASSUME TypeOK, NEW r \in Rules
    PROVE  /\ Results(r) \in [Keys -> {"absent", "quiet", "bad"}]
           /\ Known(r) \cup Found(r) \in SUBSET Keys
<1>1. \A k \in Keys : data[<<r, k>>] \in {"absent", "quiet", "bad"}
  BY DEF TypeOK, WorldType, Alerts
<1>2. Results(r) \in [Keys -> {"absent", "quiet", "bad"}]
  <2>1. \A k \in Keys :
          (IF k \notin Found(r) THEN "absent"
           ELSE IF ~setting[r].event THEN data[<<r, k>>]
           ELSE IF k \notin Known(r) \/ data[<<r, k>>] = "bad" THEN "bad" ELSE "absent")
            \in {"absent", "quiet", "bad"}
    BY <1>1
  <2> QED
    BY <2>1 DEF Results
<1>3. Known(r) \in SUBSET Keys
  <2>1. \A q \in Rules : known[q] # NotLoaded => known[q] \in SUBSET Keys
    BY DEF TypeOK, KnownType
  <2>2. (IF base = NotLoaded THEN past ELSE base) \in SUBSET Keys
    BY DEF TypeOK, KnownType, WorldType
  <2> QED
    BY <2>1, <2>2 DEF Known
<1> QED
  BY <1>2, <1>3 DEF Found

-----------------------------------------------------------------------------
(* Types.                                                                  *)

\* The run of a runner changes, and keeps its type.
LEMMA RunStep ==
    ASSUME RunType, MailInv, NEW x \in Runners, NEW r \in Runs, MailOf(r),
           run' = [run EXCEPT ![x] = r]
    PROVE  RunType' /\ MailInv'
<1>1. RunType'
  BY DEF RunType
<1>2. \A y \in Runners : run'[y] = IF y = x THEN r ELSE run[y]
  BY DEF RunType
<1>3. \A y \in Runners : MailOf(run'[y])
  BY <1>2 DEF MailInv
<1> QED
  BY <1>1, <1>3 DEF MailInv, MailOf, OneKey

\* A run that ends has nothing left to send.
LEMMA EndsStep ==
    ASSUME RunType, MailInv, NEW x \in Runners, Ends(x)
    PROVE  RunType' /\ MailInv'
BY RunStep, StateFacts DEF Ends, MailOf, Idle

\* A run begins, evaluates or fails to.
LEMMA EvaluationTypes ==
    ASSUME TypeOK, MailInv, NEW x \in Runners,
           Begin(x) \/ Evaluate(x) \/ EvaluateFails(x)
    PROVE  TypeOK' /\ MailInv'
<1>1. run[x] \in Runs /\ Idle \in Runs /\ RunType /\ MailOf(run[x])
  BY StateFacts DEF TypeOK, RunType, MailInv
<1>2. run[x].left # {} => First(run[x].left) \in run[x].left /\ run[x].left \subseteq Rules
  BY <1>1, FirstOfRules, ConstantsAssumption DEF Runs
<1>3. CASE Begin(x)
  <2> DEFINE r == [Idle EXCEPT !.at = "rule", !.rules = enabled, !.left = enabled]
  <2>1. r \in Runs
    BY <1>1 DEF Runs, TypeOK, WorldType
  <2>2. MailOf(r)
    BY DEF Idle, MailOf
  <2>3. run' = [run EXCEPT ![x] = r]
    BY <1>3 DEF Begin
  <2> HIDE DEF r
  <2>4. RunType' /\ MailInv'
    BY <1>1, <2>1, <2>2, <2>3, RunStep
  <2> QED
    BY <1>3, <2>4 DEF Begin, TypeOK, worldVars, boundVars, WorldType, KnownType,
                      StatesType, ToldType, BoundsType
<1>4. CASE Evaluate(x)
  <2> DEFINE r == First(run[x].left)
             e == [run[x] EXCEPT !.at = "apply", !.rule = r, !.left = @ \ {r},
                                 !.results = Results(r)]
  <2>1. r \in Rules
    BY <1>2, <1>4 DEF Evaluate
  <2>2. run' = [run EXCEPT ![x] = e]
    BY <1>4 DEF Evaluate, TypeOK, RunType
  <2>3. /\ run[x].at = "rule"
        /\ known' = [known EXCEPT ![r] =
                       IF setting[r].event THEN Known(r) \cup Found(r) ELSE @]
        /\ base' = (IF setting[r].event /\ base = NotLoaded THEN past ELSE base)
    BY <1>4 DEF Evaluate
  <2> HIDE DEF r
  <2>4. e \in Runs
    BY <1>1, <2>1, ResultsType DEF Runs
  <2>5. e.at = "apply" /\ e.rule = r /\ e.mail = run[x].mail
    BY <1>1 DEF Runs
  <2>6. MailOf(e)
    BY <1>1, <2>1, <2>3, <2>5 DEF MailOf
  <2> HIDE DEF e
  <2>7. RunType' /\ MailInv'
    BY <1>1, <2>2, <2>4, <2>6, RunStep
  <2>8. KnownType'
    BY <2>1, <2>3, ResultsType DEF TypeOK, KnownType, WorldType
  <2> QED
    BY <1>4, <2>7, <2>8 DEF Evaluate, TypeOK, worldVars, boundVars, WorldType,
                            StatesType, ToldType, BoundsType
<1>5. CASE EvaluateFails(x)
  <2> DEFINE e == [run[x] EXCEPT !.left = @ \ {First(run[x].left)}]
  <2>1. run' = [run EXCEPT ![x] = e]
    BY <1>5 DEF EvaluateFails, TypeOK, RunType
  <2>2. e \in Runs /\ MailOf(e)
    BY <1>1 DEF Runs, MailOf
  <2> HIDE DEF e
  <2>3. RunType' /\ MailInv'
    BY <1>1, <2>1, <2>2, RunStep
  <2>4. BoundsType'
    BY <1>5, ConstantsAssumption DEF EvaluateFails, Fails, TypeOK, BoundsType
  <2> QED
    BY <1>5, <2>3, <2>4 DEF EvaluateFails, TypeOK, worldVars, WorldType,
                            KnownType, StatesType, ToldType
<1> QED
  BY <1>3, <1>4, <1>5

\* What Apply does to the run.
Applied(x, mail, changed) ==
    [run[x] EXCEPT !.at = AfterApply(mail), !.mail = mail, !.changed = changed]

\* What the notifications of Apply say of alert a, and of its new state.
Heard(a, mail) ==
    \/ /\ \A m \in mail : m[1] # a
       /\ states'[a].status = "firing" => states[a].status = "firing"
       /\ ~setting[a[1]].event =>
             (states'[a].status = "firing" <=> states[a].status = "firing")
    \/ \E t \in {"firing", "resolved"} :
         /\ <<a, t>> \in mail
         /\ \A m \in mail : m[1] = a => m = <<a, t>>
         /\ t = "firing" <=> states'[a].status = "firing"

\* Apply leaves at most one notification for an alert, which says its new state.
LEMMA ApplyFacts ==
    ASSUME TypeOK, MailInv, NEW x \in Runners, Apply(x)
    PROVE  /\ states' \in [Alerts -> StateType]
           /\ \E mail \in SUBSET (Alerts \X {"firing", "resolved"}) :
              \E changed \in BOOLEAN :
                /\ run' = [run EXCEPT ![x] = Applied(x, mail, changed)]
                /\ OneKey => \A m, n \in mail : m = n
                /\ \A a \in Alerts : Heard(a, mail)
<1> DEFINE r      == run[x].rule
           out(k) == Outcome(r, states[<<r, k>>], run[x].results[k], run[x].ago)
           mail   == UNION {{<<<<r, k>>, t>> : t \in out(k).tell} : k \in Keys}
           chg    == run[x].changed \/ \E a \in Alerts : states'[a].status # states[a].status
<1>1. run[x] \in Runs /\ r \in Rules
  BY ZenonT(90) DEF TypeOK, RunType, MailInv, MailOf, Apply
<1>2. /\ states' = [a \in Alerts |-> IF a[1] = r THEN out(a[2]).state ELSE states[a]]
      /\ run' = [run EXCEPT ![x] = Applied(x, mail, chg)]
  BY ZenonT(90) DEF Apply, TypeOK, RunType, Applied
<1>3. \A k \in Keys : /\ Tells(states[<<r, k>>], out(k))
                      /\ ~setting[r].event => Speaks(states[<<r, k>>], out(k))
  <2>1. run[x].ago \in Ages
    BY <1>1, StateFacts DEF Runs
  <2>2. \A k \in Keys : states[<<r, k>>] \in StateType
    BY <1>1 DEF TypeOK, StatesType, Alerts
  <2> QED
    BY <1>1, <2>1, <2>2, OutcomeTells
<1>4. \A k \in Keys : <<r, k>> \in Alerts
  BY <1>1 DEF Alerts
<1> HIDE DEF r, out, chg
<1>5. mail \in SUBSET (Alerts \X {"firing", "resolved"})
  BY <1>3, <1>4 DEF Tells
<1>6. \A m \in mail : \E k \in Keys : \E t \in out(k).tell : m = <<<<r, k>>, t>>
  OBVIOUS
<1>7. \A k \in Keys : \A t \in out(k).tell : <<<<r, k>>, t>> \in mail
  OBVIOUS
<1> HIDE DEF mail
<1>8. \A a \in Alerts : a[1] \in Rules /\ a[2] \in Keys /\ a = <<a[1], a[2]>>
  BY DEF Alerts
<1>9. \A a \in Alerts : states'[a] = IF a[1] = r THEN out(a[2]).state ELSE states[a]
  BY <1>2
<1>10. states' \in [Alerts -> StateType]
  <2>1. \A a \in Alerts : states'[a] \in StateType
    BY <1>3, <1>8, <1>9 DEF Tells, TypeOK, StatesType
  <2> QED
    BY <1>2, <2>1
<1>11. OneKey => \A m, n \in mail : m = n
  BY <1>3, <1>6 DEF OneKey, Tells
<1>12. ASSUME NEW a \in Alerts
       PROVE  Heard(a, mail)
  <2>1. CASE a[1] # r
    BY <1>6, <1>9, <2>1 DEF Heard
  <2>2. CASE a[1] = r
    <3> DEFINE k == a[2]
    <3>1. a = <<r, k>> /\ k \in Keys /\ states'[a] = out(k).state
      BY <1>8, <1>9, <2>2
    <3>2. Tells(states[a], out(k)) /\ (~setting[r].event => Speaks(states[a], out(k)))
      BY <1>3, <3>1
    <3>3. CASE out(k).tell = {}
      <4>1. \A m \in mail : m[1] # a
        BY <1>6, <3>1, <3>3
      <4> QED
        BY <2>2, <3>1, <3>2, <3>3, <4>1 DEF Tells, Speaks, Heard
    <3>4. ASSUME NEW t \in {"firing", "resolved"}, out(k).tell = {t}
          PROVE  /\ <<a, t>> \in mail
                 /\ \A m \in mail : m[1] = a => m = <<a, t>>
      BY <1>6, <1>7, <3>1, <3>4
    <3> QED
      BY <3>1, <3>2, <3>3, <3>4 DEF Tells, Heard
  <2> QED
    BY <2>1, <2>2
<1>13. chg \in BOOLEAN
  BY <1>1 DEF chg, Runs
<1> QED
  BY <1>2, <1>5, <1>10, <1>11, <1>12, <1>13

\* A notification leaves, whether its run goes on or fails.
LEMMA SendFacts ==
    ASSUME TypeOK, MailInv, NEW x \in Runners, Send(x)
    PROVE  \E m \in run[x].mail :
             /\ m[1] \in Alerts /\ m[2] \in {"firing", "resolved"}
             /\ told' = [told EXCEPT ![m[1]] = m[2]]
             /\ \/ /\ run' = [run EXCEPT ![x] = [run[x] EXCEPT !.at = "mark",
                                                !.mail = @ \ {m}, !.sent = m[1]]]
                   /\ errors' = errors
                \/ Ends(x) /\ Fails
<1>1. run[x].mail \subseteq Alerts \X {"firing", "resolved"}
  BY DEF TypeOK, RunType, Runs
<1> QED
  BY ZenonT(90), <1>1 DEF Send, TypeOK, RunType

\* The date of a notification changes no status.
LEMMA MarkedFacts ==
    ASSUME TypeOK, MailInv, NEW x \in Runners, run[x].at = "mark", Marked(x)
    PROVE  /\ states' \in [Alerts -> StateType]
           /\ \A a \in Alerts : states'[a].status = states[a].status
<1> DEFINE a == run[x].sent
<1>1. a \in Alerts /\ run[x].ago \in Ages /\ states \in [Alerts -> StateType]
  BY StateFacts DEF MailInv, MailOf, TypeOK, RunType, Runs, StatesType
<1> DEFINE v == IF states[a] # NoState /\ setting[a[1]].repeat > 0
                  THEN run[x].ago ELSE states[a].last
           s == [states[a] EXCEPT !.last = v]
<1>2. states' = [states EXCEPT ![a] = s]
  BY DEF Marked
<1> HIDE DEF a
<1>3. v \in Ages \cup {Never} /\ states[a] \in StateType
  BY <1>1 DEF StateType
<1> HIDE DEF v
<1>4. s \in StateType /\ s.status = states[a].status
  BY <1>3 DEF StateType
<1> HIDE DEF s
<1> QED
  BY <1>1, <1>2, <1>4

\* Results are applied, notifications sent and marked.
LEMMA SendingTypes ==
    ASSUME TypeOK, MailInv, NEW x \in Runners,
           Apply(x) \/ Send(x) \/ Mark(x) \/ MarkFails(x)
    PROVE  TypeOK' /\ MailInv'
<1>1. run[x] \in Runs /\ RunType /\ MailOf(run[x])
  BY DEF TypeOK, RunType, MailInv
<1>2. CASE Apply(x)
  <2>1. PICK mail \in SUBSET (Alerts \X {"firing", "resolved"}), changed \in BOOLEAN :
          /\ run' = [run EXCEPT ![x] = Applied(x, mail, changed)]
          /\ OneKey => \A m, n \in mail : m = n
          /\ \A a \in Alerts : Heard(a, mail)
    BY <1>2, ApplyFacts
  <2> DEFINE e == Applied(x, mail, changed)
  <2>2. AfterApply(mail) \in {"rule", "mail"} /\ (mail # {} => AfterApply(mail) = "mail")
    BY DEF AfterApply
  <2>3. e \in Runs /\ e.at = AfterApply(mail) /\ e.mail = mail
    BY ZenonT(90), <1>1, <2>2 DEF Runs, Applied
  <2>4. \A m, n \in mail : m[1] = n[1] => m = n
    BY <2>1 DEF Heard
  <2>5. MailOf(e)
    BY <2>1, <2>2, <2>3, <2>4 DEF MailOf
  <2> HIDE DEF e
  <2>6. RunType' /\ MailInv'
    BY ZenonT(90), <1>1, <2>1, <2>3, <2>5, RunStep DEF e
  <2>7. saved' = saved /\ states' \in [Alerts -> StateType]
    BY ZenonT(90), <1>2, ApplyFacts DEF Apply
  <2> QED
    BY ZenonT(90), <1>2, <2>6, <2>7 DEF Apply, TypeOK, worldVars, boundVars, WorldType, KnownType,
                            StatesType, ToldType, BoundsType
<1>3. CASE Send(x)
  <2>1. PICK m \in run[x].mail :
          /\ m[1] \in Alerts /\ m[2] \in {"firing", "resolved"}
          /\ told' = [told EXCEPT ![m[1]] = m[2]]
          /\ \/ /\ run' = [run EXCEPT ![x] = [run[x] EXCEPT !.at = "mark",
                                             !.mail = @ \ {m}, !.sent = m[1]]]
                /\ errors' = errors
             \/ Ends(x) /\ Fails
    BY <1>3, SendFacts
  <2> DEFINE e == [run[x] EXCEPT !.at = "mark", !.mail = @ \ {m}, !.sent = m[1]]
  <2>2. /\ e \in Runs /\ e.at = "mark" /\ e.mail = run[x].mail \ {m}
        /\ e.sent = m[1]
    BY <1>1, <2>1 DEF Runs
  <2>3. MailOf(e)
    BY <1>1, <2>1, <2>2 DEF MailOf
  <2>4. run' = [run EXCEPT ![x] = e] \/ Ends(x)
    BY <2>1
  <2> HIDE DEF e
  <2>5. RunType' /\ MailInv'
    BY <1>1, <2>2, <2>3, <2>4, RunStep, EndsStep
  <2>6. ToldType'
    BY <2>1 DEF TypeOK, ToldType
  <2>7. BoundsType'
    <3>1. errors' \in 0 .. MaxErrors
      BY <2>1, ConstantsAssumption DEF Fails, TypeOK, BoundsType
    <3> QED
      BY <1>3, <3>1 DEF Send, TypeOK, BoundsType
  <2> QED
    BY ZenonT(90), <1>3, <2>5, <2>6, <2>7 DEF Send, TypeOK, worldVars, WorldType, KnownType, StatesType
<1>4. CASE Mark(x)
  <2> DEFINE e == [run[x] EXCEPT !.at = AfterApply(run[x].mail), !.sent = NoAlert,
                                 !.changed = TRUE]
  <2>1. /\ AfterApply(run[x].mail) \in {"rule", "mail"}
        /\ run[x].mail # {} => AfterApply(run[x].mail) = "mail"
    BY DEF AfterApply
  <2>2. e \in Runs /\ e.at = AfterApply(run[x].mail) /\ e.mail = run[x].mail
    BY <1>1, <2>1 DEF Runs
  <2>3. MailOf(e)
    BY <1>1, <2>1, <2>2 DEF MailOf
  <2>4. run' = [run EXCEPT ![x] = e]
    BY <1>4 DEF Mark, TypeOK, RunType
  <2> HIDE DEF e
  <2>5. RunType' /\ MailInv'
    BY <1>1, <2>2, <2>3, <2>4, RunStep
  <2>6. saved' = saved /\ states' \in [Alerts -> StateType]
    BY <1>4, MarkedFacts DEF Mark
  <2> QED
    BY <1>4, <2>5, <2>6 DEF Mark, TypeOK, worldVars, boundVars, WorldType, KnownType,
                            StatesType, ToldType, BoundsType
<1>5. CASE MarkFails(x)
  <2>1. saved' = saved /\ states' \in [Alerts -> StateType]
    BY <1>5, MarkedFacts DEF MarkFails
  <2>2. RunType' /\ MailInv'
    BY <1>1, <1>5, EndsStep DEF MarkFails
  <2>3. BoundsType'
    BY <1>5, ConstantsAssumption DEF MarkFails, Fails, TypeOK, BoundsType
  <2> QED
    BY <1>5, <2>1, <2>2, <2>3 DEF MarkFails, TypeOK, worldVars, WorldType, KnownType,
                                  StatesType, ToldType
<1> QED
  BY <1>2, <1>3, <1>4, <1>5

\* The orphans leave, and the states are copied and saved.
LEMMA SavingTypes ==
    ASSUME TypeOK, MailInv, NEW x \in Runners,
           RemoveOrphans(x) \/ CopyStates(x) \/ Save(x) \/ SaveFails(x)
    PROVE  TypeOK' /\ MailInv'
<1>1. run[x] \in Runs /\ RunType /\ MailOf(run[x]) /\ states \in [Alerts -> StateType]
  BY DEF TypeOK, RunType, MailInv, StatesType
<1>2. CASE RemoveOrphans(x)
  <2> DEFINE e == [run[x] EXCEPT !.at = "copy"]
  <2>1. e \in Runs /\ MailOf(e)
    <3>1. e \in Runs /\ e.at = "copy" /\ e.mail = run[x].mail
      BY <1>1 DEF Runs
    <3> QED
      BY <1>1, <1>2, <3>1 DEF MailOf, RemoveOrphans
  <2>2. run' = [run EXCEPT ![x] = e] \/ Ends(x)
    BY <1>2 DEF RemoveOrphans, At, TypeOK, RunType
  <2> HIDE DEF e
  <2>3. RunType' /\ MailInv'
    BY <1>1, <2>1, <2>2, RunStep, EndsStep
  <2>4. StatesType' /\ ToldType'
    BY <1>2, StateFacts DEF RemoveOrphans, TypeOK, StatesType, ToldType
  <2> QED
    BY <1>2, <2>3, <2>4 DEF RemoveOrphans, TypeOK, worldVars, boundVars, WorldType,
                            KnownType, BoundsType
<1>3. CASE CopyStates(x)
  <2> DEFINE e == [run[x] EXCEPT !.at = "save", !.copy = states]
  <2>1. e \in Runs /\ e.at = "save" /\ e.mail = run[x].mail
    BY <1>1 DEF Runs
  <2>2. MailOf(e)
    BY <1>1, <1>3, <2>1 DEF MailOf, CopyStates
  <2>3. run' = [run EXCEPT ![x] = e]
    BY <1>3 DEF CopyStates, TypeOK, RunType
  <2> HIDE DEF e
  <2>4. RunType' /\ MailInv'
    BY <1>1, <2>1, <2>2, <2>3, RunStep
  <2> QED
    BY <1>3, <2>4 DEF CopyStates, TypeOK, worldVars, boundVars, WorldType, KnownType,
                      StatesType, ToldType, BoundsType
<1>4. CASE Save(x)
  <2>1. RunType' /\ MailInv'
    BY <1>1, <1>4, EndsStep DEF Save
  <2>2. StatesType'
    BY <1>1, <1>4 DEF Save, Runs, StatesType
  <2> QED
    BY <1>4, <2>1, <2>2 DEF Save, TypeOK, worldVars, boundVars, WorldType, KnownType,
                            ToldType, BoundsType
<1>5. CASE SaveFails(x)
  <2>1. RunType' /\ MailInv'
    BY <1>1, <1>5, EndsStep DEF SaveFails
  <2>2. BoundsType'
    BY <1>5, ConstantsAssumption DEF SaveFails, Fails, TypeOK, BoundsType
  <2> QED
    BY <1>5, <2>1, <2>2 DEF SaveFails, TypeOK, worldVars, WorldType, KnownType,
                            StatesType, ToldType
<1> QED
  BY <1>2, <1>3, <1>4, <1>5

\* What a tick does to the run of a runner.
Ticked(x) == IF run[x].at = "idle" THEN Idle
             ELSE [run[x] EXCEPT !.ago = @ + 1, !.copy = Aged(@)]

\* A tick dates a run, and takes nothing from it.
LEMMA TickFacts ==
    ASSUME TypeOK, MailInv, Tick, NEW x \in Runners
    PROVE  /\ run'[x] = Ticked(x) /\ Ticked(x) \in Runs /\ MailOf(Ticked(x))
           /\ Ticked(x).mail = run[x].mail
           /\ \A a \in Alerts :
                Ticked(x).copy[a].status = run[x].copy[a].status
                  \/ Ticked(x).copy[a].status = "none"
<1>1. run[x] \in Runs /\ MailOf(run[x])
  BY DEF TypeOK, RunType, MailInv
<1>2. run'[x] = Ticked(x)
  BY DEF Tick, Ticked
<1>3. CASE run[x].at = "idle"
  BY <1>1, <1>2, <1>3, StateFacts DEF Ticked, Idle, MailOf, Nothing, NoState
<1>4. CASE run[x].at # "idle"
  <2> DEFINE c == Aged(run[x].copy)
             e == [run[x] EXCEPT !.ago = @ + 1, !.copy = c]
  <2>1. Ticked(x) = e
    BY <1>4 DEF Ticked
  <2>2. /\ c \in [Alerts -> StateType]
        /\ \A a \in Alerts : c[a].status = run[x].copy[a].status
    BY <1>1, AgedFacts DEF Runs
  <2>3. run[x].ago + 1 \in 0 .. MaxRunTicks
    <3>1. run[x].ago < MaxRunTicks /\ run[x].ago \in 0 .. MaxRunTicks
      BY <1>1, <1>4 DEF Tick, Runs
    <3> QED
      BY <3>1, ConstantsAssumption
  <2> HIDE DEF c
  <2>4. /\ e \in Runs /\ e.at = run[x].at /\ e.mail = run[x].mail /\ e.rule = run[x].rule
        /\ e.sent = run[x].sent /\ e.copy = c
    BY <1>1, <2>2, <2>3 DEF Runs
  <2>5. MailOf(e)
    BY <1>1, <2>4 DEF MailOf
  <2> QED
    BY <1>2, <2>1, <2>2, <2>4, <2>5
<1> QED
  BY <1>3, <1>4

\* Time passes, the world changes, the process ends.
LEMMA OtherTypes ==
    ASSUME TypeOK, MailInv,
           \/ \E a \in Alerts : DataChange(a)
           \/ \E r \in Rules : ToggleRule(r)
           \/ Tick \/ HoursChange \/ Crash
    PROVE  TypeOK' /\ MailInv'
<1>1. CASE Tick
  <2>1. RunType'
    BY ZenonT(90), <1>1, TickFacts DEF Tick, RunType
  <2>2. \A x \in Runners : MailOf(run'[x])
    BY <1>1, TickFacts
  <2>3. StatesType'
    BY <1>1, AgedFacts DEF Tick, TypeOK, StatesType
  <2> QED
    BY ZenonT(90), <1>1, <2>1, <2>2, <2>3 DEF Tick, TypeOK, worldVars, boundVars, WorldType,
                                  KnownType, ToldType, BoundsType, MailInv, MailOf, OneKey
<1>2. CASE Crash
  <2>1. RunType' /\ MailInv'
    BY <1>2, StateFacts DEF Crash, RunType, MailInv, MailOf, Idle
  <2>2. BoundsType'
    BY <1>2, ConstantsAssumption DEF Crash, TypeOK, BoundsType
  <2> QED
    BY <1>2, <2>1, <2>2 DEF Crash, TypeOK, worldVars, WorldType, KnownType, StatesType,
                            ToldType
<1>3. ASSUME NEW a \in Alerts, DataChange(a) PROVE TypeOK' /\ MailInv'
  <2>1. WorldType'
    BY <1>3 DEF DataChange, TypeOK, WorldType, Alerts
  <2> QED
    BY <1>3, <2>1 DEF DataChange, TypeOK, engineVars, boundVars, KnownType, StatesType,
                      ToldType, RunType, BoundsType, MailInv, MailOf, OneKey
<1>4. CASE HoursChange \/ \E r \in Rules : ToggleRule(r)
  <2>1. WorldType'
    BY <1>4 DEF HoursChange, ToggleRule, TypeOK, WorldType
  <2> QED
    BY <1>4, <2>1 DEF HoursChange, ToggleRule, TypeOK, engineVars, boundVars, KnownType,
                      StatesType, ToldType, RunType, BoundsType, MailInv, MailOf, OneKey
<1> QED
  BY <1>1, <1>2, <1>3, <1>4

\* The types hold at first, and every step keeps them.
LEMMA TypesAlways == Spec => [](TypeOK /\ MailInv)
<1>1. Init => TypeOK /\ MailInv
  <2> SUFFICES ASSUME Init PROVE TypeOK /\ MailInv
    OBVIOUS
  <2>1. \A x \in Runners : run[x] = Idle
    BY DEF Init
  <2>2. MailInv
    BY <2>1 DEF MailInv, MailOf, Idle
  <2> QED
    BY <2>2, StateFacts, ConstantsAssumption
    DEF Init, TypeOK, WorldType, KnownType, StatesType, ToldType, RunType, BoundsType
<1>2. TypeOK /\ MailInv /\ [Next]_vars => (TypeOK /\ MailInv)'
  <2> SUFFICES ASSUME TypeOK, MailInv, [Next]_vars PROVE TypeOK' /\ MailInv'
    OBVIOUS
  <2>1. ASSUME NEW x \in Runners,
               Begin(x) \/ Continue(x) \/ EvaluateFails(x) \/ MarkFails(x) \/ SaveFails(x)
        PROVE  TypeOK' /\ MailInv'
    BY <2>1, EvaluationTypes, SendingTypes, SavingTypes DEF Continue
  <2>2. CASE vars' = vars
    BY <2>2 DEF vars, worldVars, engineVars, boundVars, TypeOK, WorldType, KnownType,
                StatesType, ToldType, RunType, BoundsType, MailInv, MailOf, OneKey
  <2> QED
    BY <2>1, <2>2, OtherTypes DEF Next
<1> QED
  BY <1>1, <1>2, PTL DEF Spec

\* Every variable of the alert engine has its type, for any rules, keys, runners
\* and settings.
THEOREM AlertTypes == Spec => []TypeOK
<1>1. TypeOK /\ MailInv => TypeOK
  OBVIOUS
<1> QED
  BY <1>1, TypesAlways, PTL

-----------------------------------------------------------------------------
(* What the team is told.                                                  *)

\* What the team was told, and what waits to be told, go with the states.
ToldOnce == AgreeInv /\ WordInv /\ ToldInv

\* Steps that tell nothing and change no status, though a failure may drop what
\* waited.
LEMMA SilentStep ==
    ASSUME TypeOK, ToldOnce,
           setting' = setting, told' = told, crashes' = crashes,
           NoneDropped' => NoneDropped,
           \A a \in Alerts : states'[a].status = states[a].status,
           \A x \in Runners :
              /\ run'[x].mail \subseteq run[x].mail
              /\ NoneDropped' => run'[x].mail = run[x].mail
              /\ \A a \in Alerts : run'[x].copy[a].status = "firing" =>
                    \/ run[x].copy[a].status = "firing"
                    \/ states[a].status = "firing" /\ ~Mailed(a),
           \A a \in Alerts : saved'[a].status = "firing" =>
              \/ saved[a].status = "firing"
              \/ \E x \in Runners : run[x].copy[a].status = "firing"
    PROVE  ToldOnce'
<1>1. AgreeInv'
  <2>1. run \in [Runners -> Runs]
    BY DEF TypeOK, RunType
  <2>2. \A x \in Runners : \A m \in run[x].mail : m[1] \in Alerts
    BY <2>1 DEF Runs
  <2> QED
    BY <2>2 DEF AgreeInv, ToldOnce
<1>2. NoneDropped' => \A a \in Alerts : Mailed(a) <=> Mailed(a)'
  BY DEF Mailed
<1>3. WordInv'
  BY <1>2 DEF WordInv, ToldOnce
<1>4. ToldInv'
  BY <1>2 DEF ToldInv, ToldOnce
<1> QED
  BY <1>1, <1>3, <1>4 DEF ToldOnce

\* Steps of a run that tell nothing.
LEMMA SilentRun ==
    ASSUME TypeOK, MailInv, ToldOnce, NEW x \in Runners, \A y \in Runners : y = x,
           \/ Begin(x) \/ Evaluate(x) \/ EvaluateFails(x) \/ Mark(x) \/ MarkFails(x)
           \/ CopyStates(x) \/ Save(x) \/ SaveFails(x)
    PROVE  ToldOnce'
<1>1. /\ run \in [Runners -> Runs] /\ run[x] \in Runs /\ MailOf(run[x])
      /\ errors \in Nat
  BY DEF TypeOK, RunType, MailInv, BoundsType
<1>2. Idle.mail = {} /\ \A a \in Alerts : Idle.copy[a].status = "none"
  BY DEF Idle, Nothing, NoState
<1>3. setting' = setting /\ told' = told /\ crashes' = crashes
  BY SMTT(90) DEF Begin, Evaluate, EvaluateFails, Mark, MarkFails, CopyStates, Save, SaveFails,
         worldVars, boundVars
<1>4. \A a \in Alerts : states'[a].status = states[a].status
  BY SMTT(90), MarkedFacts DEF Begin, Evaluate, EvaluateFails, Mark, MarkFails, CopyStates, Save,
                     SaveFails
<1>5. errors' = errors \/ errors' = errors + 1
  BY DEF Begin, Evaluate, EvaluateFails, Mark, MarkFails, CopyStates, Save, SaveFails,
         boundVars, Fails
<1>6. NoneDropped' => NoneDropped
  BY <1>1, <1>5 DEF NoneDropped, OneKey
<1>7. /\ run'[x].mail \subseteq run[x].mail
      /\ NoneDropped' => run'[x].mail = run[x].mail
      /\ \A a \in Alerts : run'[x].copy[a].status = "firing" =>
            \/ run[x].copy[a].status = "firing"
            \/ states[a].status = "firing" /\ ~Mailed(a)
  <2>1. CASE Begin(x)
    BY SMTT(90), <1>1, <1>2, <2>1 DEF Begin, MailOf, Idle
  <2>2. CASE Evaluate(x) \/ EvaluateFails(x) \/ Mark(x)
    BY <1>1, <2>2 DEF Evaluate, EvaluateFails, Mark, Runs
  <2>3. CASE MarkFails(x)
    <3>1. run'[x] = Idle
      BY <1>1, <2>3 DEF MarkFails, Ends
    <3>2. NoneDropped' => OneKey
      BY <1>1, <2>3 DEF MarkFails, Fails, NoneDropped, OneKey
    <3> QED
      BY <1>1, <1>2, <2>3, <3>1, <3>2 DEF MarkFails, MailOf
  <2>4. CASE CopyStates(x)
    <3>1. run'[x].mail = run[x].mail /\ run'[x].copy = states
      BY <1>1, <2>4 DEF CopyStates, Runs
    <3>2. \A a \in Alerts : ~Mailed(a)
      BY <1>1, <2>4 DEF CopyStates, MailOf, Mailed
    <3> QED
      BY <3>1, <3>2
  <2>5. CASE Save(x) \/ SaveFails(x)
    BY SMTT(90), <1>1, <1>2, <2>5 DEF Save, SaveFails, Ends, MailOf
  <2> QED
    BY <2>1, <2>2, <2>3, <2>4, <2>5
<1>8. \A a \in Alerts : saved'[a].status = "firing" =>
         \/ saved[a].status = "firing"
         \/ \E y \in Runners : run[y].copy[a].status = "firing"
  BY SMTT(90) DEF Begin, Evaluate, EvaluateFails, Mark, MarkFails, CopyStates, Save, SaveFails
<1> QED
  BY <1>3, <1>4, <1>6, <1>7, <1>8, SilentStep

\* What Apply changes is about to be told.
LEMMA ApplyTold ==
    ASSUME TypeOK, MailInv, ToldOnce, NEW x \in Runners, \A y \in Runners : y = x,
           Apply(x)
    PROVE  ToldOnce'
<1>1. run \in [Runners -> Runs] /\ run[x] \in Runs /\ run[x].mail = {}
  BY DEF TypeOK, RunType, MailInv, MailOf, Apply
<1>2. PICK mail \in SUBSET (Alerts \X {"firing", "resolved"}), changed \in BOOLEAN :
        /\ run' = [run EXCEPT ![x] = Applied(x, mail, changed)]
        /\ \A a \in Alerts : Heard(a, mail)
  BY ApplyFacts
<1>3. /\ run'[x].mail = mail /\ run'[x].copy = run[x].copy
      /\ \A a \in Alerts : ~Mailed(a) /\ (Mailed(a)' <=> \E m \in mail : m[1] = a)
  BY SMTT(90), <1>1, <1>2 DEF Applied, Runs, Mailed
<1>4. /\ setting' = setting /\ told' = told /\ crashes' = crashes /\ saved' = saved
      /\ errors' = errors /\ (NoneDropped' <=> NoneDropped)
  BY DEF Apply, worldVars, boundVars, NoneDropped, OneKey
<1>5. AgreeInv'
  <2> SUFFICES ASSUME NEW m \in mail
               PROVE  m[2] = "firing" <=> states'[m[1]].status = "firing"
    BY <1>3 DEF AgreeInv
  <2>1. m[1] \in Alerts /\ Heard(m[1], mail)
    BY <1>2
  <2> QED
    BY <2>1 DEF Heard
<1>6. ASSUME NEW a \in Alerts
      PROVE  \/ Mailed(a)'
             \/ /\ states'[a].status = "firing" => states[a].status = "firing"
                /\ ~setting[a[1]].event =>
                      (states'[a].status = "firing" <=> states[a].status = "firing")
  <2>1. CASE \E t \in {"firing", "resolved"} : <<a, t>> \in mail
    BY <1>3, <2>1
  <2> QED
    BY <1>2, <2>1 DEF Heard
<1>7. WordInv'
  BY <1>3, <1>4, <1>6 DEF WordInv, ToldOnce
<1>8. ToldInv'
  BY <1>3, <1>4, <1>6 DEF ToldInv, ToldOnce
<1> QED
  BY SMTT(90), <1>5, <1>7, <1>8 DEF ToldOnce

\* A notification that leaves says the state of its alert.
LEMMA SendTold ==
    ASSUME TypeOK, MailInv, ToldOnce, NEW x \in Runners, \A y \in Runners : y = x,
           Send(x)
    PROVE  ToldOnce'
<1>1. /\ run \in [Runners -> Runs] /\ run[x] \in Runs /\ MailOf(run[x])
      /\ told \in [Alerts -> {"nothing", "firing", "resolved", "dropped"}]
      /\ errors \in Nat
  BY SMTT(90) DEF TypeOK, RunType, MailInv, ToldType, BoundsType
<1>2. PICK m \in run[x].mail :
        /\ m[1] \in Alerts /\ m[2] \in {"firing", "resolved"}
        /\ told' = [told EXCEPT ![m[1]] = m[2]]
        /\ \/ /\ run' = [run EXCEPT ![x] = [run[x] EXCEPT !.at = "mark",
                                           !.mail = @ \ {m}, !.sent = m[1]]]
              /\ errors' = errors
           \/ Ends(x) /\ Fails
  BY SendFacts
<1>3. /\ setting' = setting /\ crashes' = crashes /\ saved' = saved /\ states' = states
  BY DEF Send, worldVars
<1>4. NoneDropped' => NoneDropped
  BY <1>1, <1>2 DEF NoneDropped, OneKey, Fails
<1>5. /\ run'[x].mail \subseteq run[x].mail \ {m}
      /\ NoneDropped' => run'[x].mail = run[x].mail \ {m}
      /\ \A a \in Alerts : run'[x].copy[a].status = "firing" =>
            run[x].copy[a].status = "firing"
  <2>1. CASE run' = [run EXCEPT ![x] = [run[x] EXCEPT !.at = "mark",
                                       !.mail = @ \ {m}, !.sent = m[1]]]
    BY <1>1, <2>1 DEF Runs
  <2>2. CASE Ends(x) /\ Fails
    <3>1. run'[x] = Idle
      BY <1>1, <2>2 DEF Ends
    <3>2. Idle.mail = {} /\ \A a \in Alerts : Idle.copy[a].status = "none"
      BY DEF Idle, Nothing, NoState
    <3>3. NoneDropped' => OneKey
      BY <1>1, <2>2 DEF Fails, NoneDropped, OneKey
    <3> QED
      BY <1>1, <3>1, <3>2, <3>3 DEF MailOf
  <2> QED
    BY <1>2, <2>1, <2>2
<1>6. m[2] = "firing" <=> states[m[1]].status = "firing"
  BY DEF ToldOnce, AgreeInv
<1>7. NoneDropped' =>
        \A a \in Alerts : a # m[1] => told'[a] = told[a] /\ (Mailed(a) <=> Mailed(a)')
  <2>1. \A a \in Alerts : a # m[1] => told'[a] = told[a]
    BY <1>1, <1>2
  <2>2. NoneDropped' => \A a \in Alerts : a # m[1] => (Mailed(a) <=> Mailed(a)')
    BY <1>5 DEF Mailed
  <2> QED
    BY <2>1, <2>2
<1>8. told'[m[1]] = m[2]
  BY <1>1, <1>2
<1>9. AgreeInv'
  BY <1>3, <1>5 DEF AgreeInv, ToldOnce
<1>10. WordInv'
  BY <1>2, <1>3, <1>4, <1>6, <1>7, <1>8 DEF WordInv, ToldOnce
<1>11. ToldInv'
  <2> SUFFICES ASSUME NoneDropped', NEW a \in Alerts
               PROVE  /\ states'[a].status = "firing" => told'[a] # "nothing" \/ Mailed(a)'
                      /\ saved'[a].status = "firing" => told'[a] # "nothing"
                      /\ \A y \in Runners :
                           run'[y].copy[a].status = "firing" => told'[a] # "nothing"
    BY DEF ToldInv
  <2>1. CASE a = m[1]
    BY <1>2, <1>8, <2>1
  <2>2. CASE a # m[1]
    BY <1>3, <1>4, <1>5, <1>7, <2>2 DEF ToldInv, ToldOnce
  <2> QED
    BY <2>1, <2>2
<1> QED
  BY <1>9, <1>10, <1>11 DEF ToldOnce

\* Alerts of rules that are gone have no state any more.
LEMMA OrphansTold ==
    ASSUME TypeOK, MailInv, ToldOnce, NEW x \in Runners, \A y \in Runners : y = x,
           RemoveOrphans(x)
    PROVE  ToldOnce'
<1>1. /\ run \in [Runners -> Runs] /\ run[x] \in Runs /\ run[x].mail = {}
  BY DEF TypeOK, RunType, MailInv, MailOf, RemoveOrphans
<1>2. /\ setting' = setting /\ crashes' = crashes /\ saved' = saved
      /\ errors' = errors /\ (NoneDropped' <=> NoneDropped)
  BY DEF RemoveOrphans, worldVars, boundVars, NoneDropped, OneKey
<1>3. /\ run'[x].mail = {}
      /\ \A a \in Alerts : run'[x].copy[a].status = "firing" =>
            run[x].copy[a].status = "firing"
  BY <1>1 DEF RemoveOrphans, At, Ends, Idle, Nothing, NoState, Runs
<1>4. \A a \in Alerts : ~Mailed(a) /\ ~Mailed(a)'
  BY <1>1, <1>3 DEF Mailed
<1>5. \A a \in Alerts :
        \/ states'[a].status = "none" /\ told'[a] = "dropped"
        \/ states'[a] = states[a] /\ told'[a] = told[a]
  BY DEF RemoveOrphans, NoState
<1>6. AgreeInv'
  BY <1>3 DEF AgreeInv
<1>7. WordInv'
  BY <1>2, <1>4, <1>5 DEF WordInv, ToldOnce
<1>8. ToldInv'
  <2> SUFFICES ASSUME NoneDropped', NEW a \in Alerts
               PROVE  /\ states'[a].status = "firing" => told'[a] # "nothing"
                      /\ saved'[a].status = "firing" => told'[a] # "nothing"
                      /\ run'[x].copy[a].status = "firing" => told'[a] # "nothing"
    BY DEF ToldInv
  <2> QED
    BY <1>2, <1>3, <1>4, <1>5 DEF ToldInv, ToldOnce
<1> QED
  BY <1>6, <1>7, <1>8 DEF ToldOnce

\* The process starts again from what it saved, and nothing waits.
LEMMA CrashTold ==
    ASSUME TypeOK, ToldOnce, Crash
    PROVE  ToldOnce'
<1>1. \A x \in Runners : run'[x].mail = {} /\ \A a \in Alerts : run'[x].copy[a].status = "none"
  BY DEF Crash, Idle, Nothing, NoState
<1>2. AgreeInv'
  BY <1>1 DEF AgreeInv
<1>3. WordInv'
  <2>1. crashes' # 0
    BY DEF Crash, TypeOK, BoundsType
  <2> QED
    BY <2>1 DEF WordInv
<1>4. ToldInv'
  <2>1. /\ states' = saved /\ saved' = saved /\ told' = told
        /\ (NoneDropped' <=> NoneDropped)
    BY DEF Crash, NoneDropped, OneKey
  <2> QED
    BY <1>1, <2>1 DEF ToldInv, ToldOnce
<1> QED
  BY <1>2, <1>3, <1>4 DEF ToldOnce

\* Time and the world change nothing of what is told.
LEMMA WorldTold ==
    ASSUME TypeOK, MailInv, ToldOnce,
           \/ \E a \in Alerts : DataChange(a)
           \/ \E r \in Rules : ToggleRule(r)
           \/ Tick \/ HoursChange \/ vars' = vars
    PROVE  ToldOnce'
<1>1. CASE Tick
  <2>1. /\ setting' = setting /\ told' = told /\ crashes' = crashes
        /\ (NoneDropped' <=> NoneDropped)
    BY <1>1 DEF Tick, worldVars, boundVars, NoneDropped, OneKey
  <2>2. \A a \in Alerts : /\ states'[a].status = states[a].status
                          /\ saved'[a].status = saved[a].status
    BY <1>1, AgedFacts DEF Tick, TypeOK, StatesType
  <2>3. \A x \in Runners :
          /\ run'[x].mail = run[x].mail
          /\ \A a \in Alerts : run'[x].copy[a].status = "firing" =>
                                  run[x].copy[a].status = "firing"
    <3> SUFFICES ASSUME NEW x \in Runners
                 PROVE  /\ run'[x].mail = run[x].mail
                        /\ \A a \in Alerts : run'[x].copy[a].status = "firing" =>
                                                run[x].copy[a].status = "firing"
      OBVIOUS
    <3> QED
      BY <1>1, TickFacts
  <2> QED
    BY <2>1, <2>2, <2>3, SilentStep
<1>2. CASE \/ \E a \in Alerts : DataChange(a)
           \/ \E r \in Rules : ToggleRule(r)
           \/ HoursChange \/ vars' = vars
  <2>1. /\ setting' = setting /\ told' = told /\ crashes' = crashes /\ run' = run
        /\ states' = states /\ saved' = saved /\ errors' = errors
    BY <1>2 DEF DataChange, ToggleRule, HoursChange, vars, engineVars, worldVars, boundVars
  <2>2. NoneDropped' <=> NoneDropped
    BY <2>1 DEF NoneDropped, OneKey
  <2> QED
    BY <2>1, <2>2, SilentStep
<1> QED
  BY <1>1, <1>2

\* With a single runner, what is told goes with the states, whatever happens.
LEMMA ToldAlways ==
    ASSUME \A x, y \in Runners : x = y
    PROVE  Spec => []AlertsInv
<1>1. Init => ToldOnce
  <2> SUFFICES ASSUME Init PROVE ToldOnce
    OBVIOUS
  <2>1. /\ \A x \in Runners : /\ run[x].mail = {}
                              /\ \A a \in Alerts : run[x].copy[a].status = "none"
        /\ \A a \in Alerts : /\ states[a].status = "none" /\ saved[a].status = "none"
                             /\ told[a] = "nothing"
    BY DEF Init, Idle, Nothing, NoState
  <2> QED
    BY <2>1 DEF ToldOnce, AgreeInv, WordInv, ToldInv
<1>2. TypeOK /\ MailInv /\ ToldOnce /\ [Next]_vars => ToldOnce'
  <2> SUFFICES ASSUME TypeOK, MailInv, ToldOnce, [Next]_vars PROVE ToldOnce'
    OBVIOUS
  <2>1. ASSUME NEW x \in Runners,
               Begin(x) \/ Continue(x) \/ EvaluateFails(x) \/ MarkFails(x) \/ SaveFails(x)
        PROVE  ToldOnce'
    <3>1. \A y \in Runners : y = x
      OBVIOUS
    <3> QED
      BY <2>1, <3>1, SilentRun, ApplyTold, SendTold, OrphansTold DEF Continue
  <2> QED
    BY <2>1, WorldTold, CrashTold DEF Next
<1>3. TypeOK /\ MailInv /\ ToldOnce => AlertsInv
  BY DEF ToldOnce, AlertsInv
<1> QED
  BY <1>1, <1>2, <1>3, TypesAlways, PTL DEF Spec

\* Between runs, the last word that the team had about a condition is the state of
\* its alert, for any rules, keys and settings, as long as one runner runs them, the
\* process has not restarted and no failed run dropped a notification.
THEOREM LastWordIsTheState ==
    ASSUME \A x, y \in Runners : x = y
    PROVE  Spec => []LastWord
<1>1. AlertsInv => LastWord
  <2> SUFFICES ASSUME AlertsInv, Quiescent, crashes = 0 /\ NoneDropped, NEW a \in Alerts,
                      ~setting[a[1]].event
               PROVE  states[a].status = "firing" <=> told[a] = "firing"
    BY DEF LastWord
  <2>1. ~Mailed(a)
    BY DEF AlertsInv, MailInv, MailOf, Mailed, Quiescent
  <2> QED
    BY <2>1 DEF AlertsInv, WordInv
<1> QED
  BY <1>1, ToldAlways, PTL

\* Every firing alert that a restart would find in alert-states.json has been told,
\* for any rules, keys and settings, with one runner, however often the process
\* ends, unless a failed run dropped its notification.
THEOREM RestartFindsNothingUntold ==
    ASSUME \A x, y \in Runners : x = y
    PROVE  Spec => []SavedFiringWasTold
<1>1. AlertsInv => SavedFiringWasTold
  BY DEF AlertsInv, ToldInv, SavedFiringWasTold
<1> QED
  BY <1>1, ToldAlways, PTL

\* With one runner, an alert that was resolved is told to fire only when it fires
\* again: what find_alert shows with two runners cannot happen with one.
THEOREM OneRunnerIsNeverLate ==
    ASSUME \A x, y \in Runners : x = y
    PROVE  Spec => NoLateFiring
<1>1. AlertsInv /\ [Next]_vars =>
        [\A a \in Alerts :
           told[a] = "resolved" /\ told'[a] = "firing" => states[a].status = "firing"]_vars
  <2> SUFFICES ASSUME AlertsInv, Next, NEW a \in Alerts,
                      told[a] = "resolved", told'[a] = "firing"
               PROVE  states[a].status = "firing"
    OBVIOUS
  <2>1. TypeOK /\ MailInv /\ AgreeInv
    BY DEF AlertsInv
  <2>2. ASSUME NEW x \in Runners, Send(x)
        PROVE  states[a].status = "firing"
    <3>1. PICK m \in run[x].mail :
            m[1] \in Alerts /\ told' = [told EXCEPT ![m[1]] = m[2]]
      BY <2>1, <2>2, SendFacts
    <3>2. a = m[1] /\ m[2] = "firing"
      BY <2>1, <3>1 DEF TypeOK, ToldType
    <3> QED
      BY SMTT(90), <2>1, <3>2 DEF AgreeInv
  <2>3. ASSUME NEW x \in Runners, RemoveOrphans(x)
        PROVE  FALSE
    BY SMTT(90), <2>3 DEF RemoveOrphans
  <2>4. \A x \in Runners : Send(x) \/ RemoveOrphans(x) \/ told' = told
          \/ ~(Begin(x) \/ Continue(x) \/ EvaluateFails(x) \/ MarkFails(x) \/ SaveFails(x))
    BY ZenonT(90) DEF Begin, Continue, Evaluate, Apply, Mark, CopyStates, Save, EvaluateFails,
           MarkFails, SaveFails
  <2>5. told' # told
    OBVIOUS
  <2>6. \E x \in Runners : Send(x) \/ RemoveOrphans(x)
    BY <2>4, <2>5 DEF Next, DataChange, ToggleRule, Tick, HoursChange, Crash
  <2> QED
    BY <2>2, <2>3, <2>6
<1> QED
  BY <1>1, ToldAlways, PTL DEF Spec, NoLateFiring
=============================================================================
