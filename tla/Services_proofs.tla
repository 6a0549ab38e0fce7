--------------------------- MODULE Services_proofs ---------------------------
(***************************************************************************)
(* Proofs about the four parts of MCServices.tla: the hours at which the   *)
(* probes are checked, the instance that makes a profile, the panels of a  *)
(* dashboard that a person does not see, and what a search returns.        *)
(***************************************************************************)
EXTENDS MCServices, FiniteSetTheorems, SequenceTheorems, WellFoundedInduction, TLAPS

-----------------------------------------------------------------------------
(* The hours of a plan.                                                    *)

\* The fixed hours of a plan are moments of a day.
ProbesAssumption ==
    /\ Day \in Nat \ {0} /\ Interval \in Nat /\ MaxActs \in Nat
    /\ \A p \in DOMAIN Hours : Hours[p] \subseteq 0 .. Day - 1

\* A day goes round.
LEMMA RoundTheDay ==
    ASSUME ProbesAssumption, NEW n \in Nat, n < 2 * Day
    PROVE  n % Day = IF n < Day THEN n ELSE n - Day
BY DEF ProbesAssumption

\* A set of natural numbers that is not empty has a least element.
LEMMA LeastElement ==
    ASSUME NEW S \in SUBSET Nat, S # {}
    PROVE  \E n \in S : \A m \in S : n <= m
<1> DEFINE Initial(n) == 0 .. n
           F          == {Initial(n) : n \in S}
<1>1. \A n \in Nat : IsFiniteSet(Initial(n)) /\ Initial(n) \in SUBSET Nat
  BY FS_Interval
<1>2. F # {} /\ F \subseteq FiniteSubsetsOf(Nat)
  BY <1>1 DEF FiniteSubsetsOf
<1>3. PICK x \in F : \A y \in F : <<y, x>> \notin StrictSubsetOrdering(Nat)
  BY <1>2, FS_StrictSubsetOrderingWellFounded, WFMin
<1>4. PICK n \in S : x = Initial(n)
  BY <1>3
<1>5. ASSUME NEW m \in S, m < n PROVE FALSE
  <2>1. n \in Initial(n) /\ n \notin Initial(m) /\ Initial(m) \subseteq Initial(n)
    BY <1>5
  <2>2. <<Initial(m), Initial(n)>> \in StrictSubsetOrdering(Nat)
    BY <2>1, <1>1 DEF StrictSubsetOrdering
  <2>3. Initial(m) \in F
    BY <1>5
  <2> QED
    BY <2>2, <2>3, <1>3, <1>4
<1> QED
  BY <1>5

\* The next fixed hour of a plan that has some is at most a day away.
LEMMA NextHour ==
    ASSUME ProbesAssumption, moment \in 0 .. Day - 1,
           NEW plan \in DOMAIN Hours, Hours[plan] # {}
    PROVE  /\ Probes!NextScheduled(plan) \in 1 .. Day
           /\ (moment + Probes!NextScheduled(plan)) % Day \in Hours[plan]
<1> DEFINE S == {d \in 1 .. Day : (moment + d) % Day \in Hours[plan]}
<1>1. Day \in Nat /\ Day >= 1 /\ moment \in Nat /\ moment < Day
  BY DEF ProbesAssumption
<1>2. PICK h \in Hours[plan] : h \in Nat /\ h < Day
  BY <1>1 DEF ProbesAssumption
<1>3. S # {}
  <2>1. CASE h > moment
    <3>1. h - moment \in 1 .. Day /\ moment + (h - moment) = h
      BY <2>1, <1>1, <1>2
    <3>2. (moment + (h - moment)) % Day = h
      BY <3>1, <1>1, <1>2, RoundTheDay
    <3> QED
      BY <3>1, <3>2
  <2>2. CASE ~(h > moment)
    <3>1. h - moment + Day \in 1 .. Day /\ moment + (h - moment + Day) = h + Day
      BY <2>2, <1>1, <1>2
    <3>2. (h + Day) % Day = h
      <4>1. PICK n \in Nat : n = h + Day
        BY <1>1, <1>2
      <4>2. n < 2 * Day /\ ~(n < Day) /\ n - Day = h
        BY <4>1, <1>1, <1>2
      <4> QED
        BY <4>1, <4>2, RoundTheDay
    <3> QED
      BY <3>1, <3>2
  <2> QED
    BY <2>1, <2>2
<1>4. S \in SUBSET Nat
  BY <1>1
<1> HIDE DEF S
<1>5. PICK d \in S : \A e \in S : d <= e
  BY <1>3, <1>4, LeastElement
<1>6. d \in 1 .. Day /\ (moment + d) % Day \in Hours[plan]
  BY <1>5 DEF S
<1>7. ASSUME NEW e \in 1 .. (d - 1) PROVE (moment + e) % Day \notin Hours[plan]
  <2>1. e \in 1 .. Day /\ ~(d <= e)
    BY <1>1, <1>6
  <2>2. e \notin S
    BY <2>1, <1>5
  <2> QED
    BY <2>1, <2>2 DEF S
<1> QED
  BY <1>6, <1>7 DEF Probes!NextScheduled

-----------------------------------------------------------------------------
(* The probes.                                                             *)

Runs == [left : Nat, plan : DOMAIN Hours]

\* The plans that the engine knows are plans.
PlanInv ==
    /\ moment \in 0 .. Day - 1
    /\ probe \in Probes!Probe \cup {Null} /\ copy \in Probes!Probe \cup {Null}
    /\ nextRun # Null => nextRun \in Runs
    /\ hourCame \in BOOLEAN /\ missed \in BOOLEAN

\* The next run is at one of the hours of its plan; once it is reached, an hour has come since the
\* last look, or a look missed one.
HourInv ==
    nextRun # Null /\ Hours[nextRun.plan] # {} =>
        \/ nextRun.left = 0 /\ (hourCame \/ missed)
        \/ /\ nextRun.left \in 1 .. Day
           /\ (moment + nextRun.left) % Day \in Hours[nextRun.plan]

ProbeInv == PlanInv /\ HourInv /\ ~wrongHour

\* The state of a probe as the server starts.
LEMMA ProbeInit == ProbesAssumption /\ Init => ProbeInv
<1> SUFFICES ASSUME ProbesAssumption, Init PROVE ProbeInv
  OBVIOUS
<1>1. 0 \in 0 .. Day - 1
  BY DEF ProbesAssumption
<1>2. /\ moment = 0 /\ copy = Null /\ nextRun = Null /\ hourCame = FALSE /\ missed = FALSE /\ wrongHour = FALSE
      /\ probe \in {Null} \cup [enabled : {TRUE}, plan : Probes!Plans]
  BY DEF Init, Probes!Init
<1>3. probe \in Probes!Probe \cup {Null}
  BY <1>2 DEF Probes!Probe
<1> QED
  BY <1>1, <1>2, <1>3 DEF ProbeInv, PlanInv, HourInv

\* A moment goes by: what is left of the way to the next hour is one moment less.
LEMMA ClockStep ==
    ASSUME ProbesAssumption, ProbeInv, Probes!Clock
    PROVE  ProbeInv'
<1>1. /\ Day \in Nat /\ Day >= 1 /\ moment \in Nat /\ moment < Day /\ moment' = (moment + 1) % Day
  BY DEF ProbesAssumption, ProbeInv, PlanInv, Probes!Clock
<1>2. moment' = IF moment + 1 < Day THEN moment + 1 ELSE 0
  <2>1. moment + 1 \in Nat /\ moment + 1 < 2 * Day /\ (~(moment + 1 < Day) => moment + 1 - Day = 0)
    BY <1>1
  <2> QED
    BY <2>1, <1>1, RoundTheDay
<1>3. UNCHANGED <<probe, copy, wrongHour>>
  BY DEF Probes!Clock
<1>4. missed' = missed /\ hourCame' = (hourCame \/ (nextRun # Null /\ moment' \in Hours[nextRun.plan]))
  BY DEF Probes!Clock
<1>5. CASE nextRun = Null \/ nextRun.left = 0
  <2>1. nextRun' = nextRun
    BY <1>5 DEF Probes!Clock
  <2> QED
    BY <2>1, <1>1, <1>2, <1>3, <1>4, <1>5 DEF ProbeInv, PlanInv, HourInv
<1>6. CASE nextRun # Null /\ nextRun.left # 0
  <2>1. nextRun \in Runs /\ nextRun.left \in Nat /\ nextRun.plan \in DOMAIN Hours
    BY <1>6 DEF ProbeInv, PlanInv, Runs
  <2>2. nextRun' = [nextRun EXCEPT !.left = @ - 1]
    BY <2>1, <1>6 DEF Probes!Clock
  <2>3. nextRun' \in Runs /\ nextRun'.left = nextRun.left - 1 /\ nextRun'.plan = nextRun.plan
    BY <2>1, <2>2, <1>6 DEF Runs
  <2>4. ASSUME Hours[nextRun.plan] # {}
        PROVE  \/ nextRun'.left = 0 /\ hourCame'
               \/ /\ nextRun'.left \in 1 .. Day
                  /\ (moment' + nextRun'.left) % Day \in Hours[nextRun.plan]
    <3> DEFINE l == nextRun.left
    <3>2. l \in 1 .. Day /\ (moment + l) % Day \in Hours[nextRun.plan]
      BY <2>4, <1>6 DEF ProbeInv, HourInv
    <3>3. l \in Nat /\ l >= 1 /\ l <= Day
      BY <3>2, <1>1
    <3> HIDE DEF l
    <3>4. (moment' + (l - 1)) % Day = (moment + l) % Day
      <4>1. CASE moment + 1 < Day
        BY <4>1, <3>3, <1>1, <1>2
      <4>2. CASE ~(moment + 1 < Day)
        <5>1. moment' + (l - 1) = l - 1 /\ moment + l = Day + (l - 1)
          BY <4>2, <3>3, <1>1, <1>2
        <5>2. l - 1 \in Nat /\ l - 1 < Day
          BY <3>3, <1>1
        <5>3. (l - 1) % Day = l - 1
          BY <5>2, <1>1, RoundTheDay
        <5>4. (Day + (l - 1)) % Day = l - 1
          <6>1. PICK n \in Nat : n = Day + (l - 1)
            BY <5>2, <1>1
          <6>2. n < 2 * Day /\ ~(n < Day) /\ n - Day = l - 1
            BY <6>1, <5>2, <1>1
          <6> QED
            BY <6>1, <6>2, RoundTheDay
        <5> QED
          BY <5>1, <5>3, <5>4
      <4> QED
        BY <4>1, <4>2
    <3>5. nextRun'.left = l - 1
      BY <2>3 DEF l
    <3>6. CASE l = 1
      <4>1. (moment + l) % Day = moment'
        BY <3>6, <1>1
      <4>2. hourCame'
        BY <4>1, <3>2, <1>4, <1>6 DEF l
      <4> QED
        BY <4>2, <3>5, <3>6
    <3>7. CASE l # 1
      <4>1. nextRun'.left \in 1 .. Day
        BY <3>3, <3>5, <3>7, <1>1
      <4> QED
        BY <4>1, <3>2, <3>4, <3>5
    <3> QED
      BY <3>6, <3>7
  <2>5. HourInv'
    BY <2>3, <2>4 DEF HourInv
  <2>6. PlanInv'
    BY <2>3, <1>1, <1>2, <1>3, <1>4 DEF ProbeInv, PlanInv
  <2> QED
    BY <2>5, <2>6, <1>3 DEF ProbeInv
<1> QED
  BY <1>5, <1>6

\* A turn of the loop looks at the probe: what it launches is due, and the next run that it
\* notes is at the next hour.
LEMMA LookStep ==
    ASSUME ProbesAssumption, ProbeInv, Probes!Skip \/ Probes!Launch
    PROVE  ProbeInv'
<1>1. UNCHANGED <<moment, probe, copy>>
  BY DEF Probes!Skip, Probes!Launch
<1>2. ASSUME copy # Null, Probes!HasSchedule(copy)
      PROVE  /\ Probes!AtHour(copy.plan) \in Runs
             /\ Probes!AtHour(copy.plan).plan = copy.plan
             /\ Probes!AtHour(copy.plan).left \in 1 .. Day
             /\ (moment + Probes!AtHour(copy.plan).left) % Day \in Hours[copy.plan]
  <2>1. copy.plan \in DOMAIN Hours /\ Hours[copy.plan] # {}
    BY <1>2 DEF ProbeInv, PlanInv, Probes!Probe, Probes!Plans, Probes!HasSchedule
  <2>2. /\ Probes!NextScheduled(copy.plan) \in 1 .. Day
        /\ (moment + Probes!NextScheduled(copy.plan)) % Day \in Hours[copy.plan]
    BY <2>1, NextHour DEF ProbeInv, PlanInv
  <2> QED
    BY <2>1, <2>2 DEF Probes!AtHour, Runs
<1>3. CASE Probes!Skip
  <2>1. /\ wrongHour' = wrongHour /\ hourCame' = FALSE
        /\ missed' = ((missed \/ (~Probes!Watched /\ hourCame)) /\ nextRun' = nextRun)
    BY <1>3 DEF Probes!Skip
  <2>2. CASE nextRun' = nextRun
    <3>1. Probes!Watched => nextRun = Null \/ nextRun.left # 0 \/ nextRun' # nextRun
      <4>1. CASE Probes!Watched /\ nextRun # Null /\ nextRun.left = 0
        <5>1. nextRun' = Probes!AtHour(copy.plan) /\ copy # Null /\ Probes!HasSchedule(copy)
          BY <1>3, <4>1 DEF Probes!Skip, Probes!Watched
        <5>2. nextRun'.left \in 1 .. Day
          BY <5>1, <1>2
        <5> QED
          BY <5>2, <4>1
      <4> QED
        BY <4>1
    <3>2. nextRun # Null /\ nextRun.left = 0 /\ (hourCame \/ missed) => missed'
      BY <2>1, <2>2, <3>1 DEF ProbeInv, PlanInv
    <3>3. PlanInv'
      BY <2>1, <2>2, <1>1 DEF ProbeInv, PlanInv
    <3>4. HourInv'
      BY <2>2, <3>2, <1>1 DEF ProbeInv, HourInv
    <3> QED
      BY <2>1, <3>3, <3>4 DEF ProbeInv
  <2>3. CASE nextRun' # nextRun
    <3>1. copy # Null /\ Probes!HasSchedule(copy) /\ nextRun' = Probes!AtHour(copy.plan)
      BY <1>3, <2>3 DEF Probes!Skip, Probes!Watched
    <3> QED
      BY <2>1, <3>1, <1>1, <1>2 DEF ProbeInv, PlanInv, HourInv
  <2> QED
    BY <2>2, <2>3
<1>4. CASE Probes!Launch
  <2>1. /\ copy # Null /\ hourCame' = FALSE /\ missed' = FALSE
        /\ wrongHour' = (wrongHour \/ (Probes!HasSchedule(copy) /\ ~hourCame /\ ~missed))
    BY <1>4 DEF Probes!Launch, Probes!Watched
  <2>2. CASE Probes!HasSchedule(copy)
    <3>1. nextRun # Null /\ nextRun.plan = copy.plan /\ nextRun.left = 0
      BY <1>4, <2>2 DEF Probes!Launch, Probes!Known
    <3>2. hourCame \/ missed
      BY <3>1, <2>2 DEF ProbeInv, HourInv, Probes!HasSchedule
    <3>3. nextRun' = Probes!AtHour(copy.plan)
      BY <1>4, <2>2 DEF Probes!Launch
    <3> QED
      BY <2>1, <2>2, <3>2, <3>3, <1>1, <1>2 DEF ProbeInv, PlanInv, HourInv
  <2>3. CASE ~Probes!HasSchedule(copy)
    <3>1. nextRun' = [left |-> Interval, plan |-> copy.plan]
      BY <1>4, <2>3 DEF Probes!Launch
    <3>2. copy.plan \in DOMAIN Hours /\ Hours[copy.plan] = {}
      BY <2>1, <2>3 DEF ProbeInv, PlanInv, Probes!Probe, Probes!Plans, Probes!HasSchedule
    <3>3. nextRun' \in Runs /\ nextRun'.plan = copy.plan
      BY <3>1, <3>2 DEF Runs, ProbesAssumption
    <3> QED
      BY <2>1, <2>3, <3>2, <3>3, <1>1 DEF ProbeInv, PlanInv, HourInv
  <2> QED
    BY <2>2, <2>3
<1> QED
  BY <1>3, <1>4

\* The other steps note no hour.
LEMMA OtherStep ==
    ASSUME ProbesAssumption, ProbeInv,
           \/ Probes!Create \/ Probes!Put \/ Probes!Delete \/ Probes!Test \/ Probes!Restart
           \/ Probes!ReadAll \/ Probes!Enter \/ Probes!Clean
           \/ \E t \in Probes!Tasks : Probes!Result(t) \/ Probes!EndOfTask(t)
    PROVE  ProbeInv'
<1>1. CASE Probes!Create \/ Probes!Put \/ Probes!Delete
  <2>1. probe' \in Probes!Probe \cup {Null}
    BY <1>1 DEF Probes!Create, Probes!Put, Probes!Delete, Probes!Edit, Probes!Probe
  <2>2. UNCHANGED <<moment, copy, nextRun, hourCame, missed, wrongHour>>
    BY <1>1 DEF Probes!Create, Probes!Put, Probes!Delete, Probes!Edit
  <2> QED
    BY <2>1, <2>2 DEF ProbeInv, PlanInv, HourInv
<1>2. CASE \/ Probes!Test \/ Probes!Enter
           \/ \E t \in Probes!Tasks : Probes!Result(t) \/ Probes!EndOfTask(t)
  <2>1. UNCHANGED <<moment, probe, copy, nextRun, hourCame, missed, wrongHour>>
    BY <1>2 DEF Probes!Test, Probes!Enter, Probes!Result, Probes!EndOfTask
  <2> QED
    BY <2>1 DEF ProbeInv, PlanInv, HourInv
<1>3. CASE Probes!Restart
  BY <1>3 DEF Probes!Restart, ProbeInv, PlanInv, HourInv
<1>4. CASE Probes!ReadAll
  BY <1>4 DEF Probes!ReadAll, ProbeInv, PlanInv, HourInv
<1>5. CASE Probes!Clean
  <2>1. UNCHANGED <<moment, probe, hourCame, missed, wrongHour>> /\ copy' = Null
    BY <1>5 DEF Probes!Clean
  <2>2. nextRun' = Null \/ nextRun' = nextRun
    BY <1>5 DEF Probes!Clean
  <2> QED
    BY <2>1, <2>2 DEF ProbeInv, PlanInv, HourInv
<1> QED
  BY <1>1, <1>2, <1>3, <1>4, <1>5

\* The invariant is kept.
LEMMA ProbeStep == ProbesAssumption /\ ProbeInv /\ [Next]_serviceVars => ProbeInv'
<1> SUFFICES ASSUME ProbesAssumption, ProbeInv, [Next]_serviceVars PROVE ProbeInv'
  OBVIOUS
<1>1. CASE UNCHANGED probeVars
  <2>1. UNCHANGED <<moment, probe, copy, nextRun, hourCame, missed, wrongHour>>
    BY <1>1 DEF probeVars
  <2> QED
    BY <2>1 DEF ProbeInv, PlanInv, HourInv
<1>2. CASE Probes!Next
  BY <1>2, ClockStep, LookStep, OtherStep DEF Probes!Next, Probes!Loop
<1> QED
  BY <1>1, <1>2 DEF Next, InProbes, InProfiles, InDashboards, InSearches, serviceVars

\* A probe with fixed hours is checked at the first look after one of them, unless that look found
\* it paused, removed or still being checked, for every day and every plan.
THEOREM HoursAreKept == ProbesAssumption => (Spec => []OnlyAtItsHours)
<1> SUFFICES ASSUME ProbesAssumption PROVE Spec => []OnlyAtItsHours
  OBVIOUS
<1>1. ProbeInv => OnlyAtItsHours
  BY DEF ProbeInv, OnlyAtItsHours, Probes!OnlyAtItsHours
<1>2. Init => ProbeInv
  BY ProbeInit
<1>3. ProbeInv /\ [Next]_serviceVars => ProbeInv'
  BY ProbeStep
<1> QED
  BY <1>1, <1>2, <1>3, PTL DEF Spec
-----------------------------------------------------------------------------
(* The profiles on demand.                                                 *)

Info == [status : {"pending", "running", "done", "failed"},
         for : Instances \cup {ProfileRequests!Anyone}, old : BOOLEAN]
Agents == [step : {"idle", "polls", "runs", "sends", "saves"}, seen : SUBSET Profiles,
           given : SUBSET Profiles, current : Profiles \cup {Null}]

\* What the store and the instances know is of its kind.
InfoInv ==
    /\ info \in [Profiles -> {Null} \cup Info]
    /\ agent \in [Instances -> Agents]
    /\ taken \in [Profiles -> Nat]

\* A request that an instance was given is not to be taken any more, and no other has seen it.
GivenAway(p) ==
    /\ info[p] = Null \/ info[p].status # "pending"
    /\ \A i \in Instances : p \notin agent[i].seen

\* A request that no two polls have seen at once.
AloneInv ==
    \A p \in Profiles \ together :
        /\ taken[p] <= 1
        /\ taken[p] = 1 => GivenAway(p)
        /\ \A i, j \in Instances : p \in agent[i].seen /\ p \in agent[j].seen => i = j

RequestInv == InfoInv /\ AloneInv

\* The store when nothing was asked for.
LEMMA RequestInit == Init => RequestInv
<1> SUFFICES ASSUME Init PROVE RequestInv
  OBVIOUS
<1>1. /\ info = [p \in Profiles |-> Null] /\ taken = [p \in Profiles |-> 0]
      /\ agent = [i \in Instances |-> ProfileRequests!NoAgent]
  BY DEF Init, ProfileRequests!Init
<1>2. ProfileRequests!NoAgent \in Agents /\ ProfileRequests!NoAgent.seen = {}
  BY DEF ProfileRequests!NoAgent, Agents
<1> QED
  BY <1>1, <1>2 DEF RequestInv, InfoInv, AloneInv

\* What changes in the store only, without a request being put back to wait.
LEMMA InfoStep ==
    ASSUME RequestInv, info' \in [Profiles -> {Null} \cup Info],
           UNCHANGED <<agent, taken, together>>,
           \A p \in Profiles : info'[p] # Null /\ info'[p].status = "pending" =>
                                  \/ info[p] # Null /\ info[p].status = "pending"
                                  \/ taken[p] = 0
    PROVE  RequestInv'
BY DEF RequestInv, InfoInv, AloneInv, GivenAway

\* What an instance does without looking at the requests of the store.
LEMMA AgentStep ==
    ASSUME RequestInv, agent' \in [Instances -> Agents],
           UNCHANGED <<taken, together>>,
           \A i \in Instances : agent'[i].seen \subseteq agent[i].seen,
           info' \in [Profiles -> {Null} \cup Info],
           \A p \in Profiles : info'[p] # Null /\ info'[p].status = "pending" =>
                                  info[p] # Null /\ info[p].status = "pending"
    PROVE  RequestInv'
BY DEF RequestInv, InfoInv, AloneInv, GivenAway

\* People and time: requests, their removal, the list that fails the old ones.
LEMMA StoreStep ==
    ASSUME RequestInv,
           \/ ProfileRequests!Expiry
           \/ \E p \in Profiles : ProfileRequests!Request(p) \/ ProfileRequests!Remove(p)
    PROVE  RequestInv'
<1>0. /\ info \in [Profiles -> {Null} \cup Info]
      /\ \A p \in Profiles : info[p] # Null => info[p] \in Info
  BY DEF RequestInv, InfoInv
<1>1. CASE ProfileRequests!Look
  <2>1. UNCHANGED <<info, agent, taken, together>>
    BY <1>1 DEF ProfileRequests!Look
  <2> QED
    BY <2>1, <1>0, InfoStep
<1>2. ASSUME NEW p \in Profiles, ProfileRequests!Request(p) PROVE RequestInv'
  <2>1. PICK for \in Instances \cup {ProfileRequests!Anyone} :
           info' = [info EXCEPT ![p] = [status |-> "pending", for |-> for, old |-> FALSE]]
    BY <1>2 DEF ProfileRequests!Request
  <2>2. [status |-> "pending", for |-> for, old |-> FALSE] \in Info
    BY DEF Info
  <2>3. taken[p] = 0 /\ UNCHANGED <<agent, taken, together>>
    BY <1>2 DEF ProfileRequests!Request
  <2> QED
    BY <2>1, <2>2, <2>3, <1>0, InfoStep
<1>3. ASSUME NEW p \in Profiles, ProfileRequests!Ages(p) PROVE RequestInv'
  <2> DEFINE r == [info[p] EXCEPT !.old = TRUE]
  <2>1. info' = [info EXCEPT ![p] = r] /\ info[p] # Null /\ UNCHANGED <<agent, taken, together>>
    BY <1>3 DEF ProfileRequests!Ages, ProfileRequests!Waiting
  <2>2. r \in Info /\ r.status = info[p].status
    BY <2>1, <1>0 DEF Info
  <2> HIDE DEF r
  <2> QED
    BY <2>1, <2>2, <1>0, InfoStep
<1>4. ASSUME NEW p \in Profiles, ProfileRequests!Expire(p) PROVE RequestInv'
  <2> DEFINE r == [info[p] EXCEPT !.status = "failed"]
  <2>1. /\ info' = IF info[p] = Null THEN info ELSE [info EXCEPT ![p] = r]
        /\ UNCHANGED <<agent, taken, together>>
    BY <1>4 DEF ProfileRequests!Expire, ProfileRequests!Updated
  <2>2. info[p] # Null => r \in Info /\ r.status = "failed"
    BY <1>0 DEF Info
  <2> HIDE DEF r
  <2> QED
    BY <2>1, <2>2, <1>0, InfoStep
<1>5. ASSUME NEW p \in Profiles, ProfileRequests!Remove(p) PROVE RequestInv'
  <2>1. info' = [info EXCEPT ![p] = Null] /\ UNCHANGED <<agent, taken, together>>
    BY <1>5 DEF ProfileRequests!Remove
  <2> QED
    BY <2>1, <1>0, InfoStep
<1> QED
  BY <1>1, <1>2, <1>3, <1>4, <1>5 DEF ProfileRequests!Expiry

\* A poll sees the requests that wait; one that another poll has just seen is marked so.
LEMMA PollStep ==
    ASSUME RequestInv, NEW i \in Instances, ProfileRequests!Poll(i)
    PROVE  RequestInv'
<1> DEFINE seen == {p \in Profiles : /\ info[p] # Null /\ info[p].status = "pending"
                                     /\ info[p].for \in {i, ProfileRequests!Anyone}}
           a    == [ProfileRequests!NoAgent EXCEPT !.step = "polls", !.seen = seen]
<1>1. /\ agent' = [agent EXCEPT ![i] = a]
      /\ together' = together \cup {p \in seen : \E j \in Instances \ {i} : p \in agent[j].seen}
      /\ info' = info /\ taken' = taken
  BY DEF ProfileRequests!Poll
<1>2. a \in Agents /\ a.seen = seen
  BY DEF ProfileRequests!NoAgent, Agents
<1>3. agent \in [Instances -> Agents]
  BY DEF RequestInv, InfoInv
<1> HIDE DEF a
<1>4. /\ agent' \in [Instances -> Agents] /\ agent'[i].seen = seen
      /\ \A j \in Instances \ {i} : agent'[j] = agent[j]
  BY <1>1, <1>2, <1>3
<1>5. ASSUME NEW p \in Profiles \ together'
      PROVE  /\ taken'[p] <= 1
             /\ taken'[p] = 1 => GivenAway(p)'
             /\ \A j, k \in Instances : p \in agent'[j].seen /\ p \in agent'[k].seen => j = k
  <2>1. p \in Profiles \ together
    BY <1>1, <1>5
  <2>2. /\ taken[p] <= 1 /\ (taken[p] = 1 => GivenAway(p))
        /\ \A j, k \in Instances : p \in agent[j].seen /\ p \in agent[k].seen => j = k
    BY <2>1 DEF RequestInv, AloneInv
  <2>3. p \in seen => \A j \in Instances \ {i} : p \notin agent[j].seen
    BY <1>1, <1>5
  <2>4. taken[p] = 1 => p \notin seen
    BY <2>2 DEF GivenAway
  <2>5. taken[p] = 1 => GivenAway(p)'
    BY <2>2, <2>4, <1>1, <1>4 DEF GivenAway
  <2>6. \A j, k \in Instances : p \in agent'[j].seen /\ p \in agent'[k].seen => j = k
    BY <2>2, <2>3, <1>4
  <2> QED
    BY <2>2, <2>5, <2>6, <1>1
<1> QED
  BY <1>1, <1>4, <1>5 DEF RequestInv, InfoInv, AloneInv

\* An instance at work, or at rest, has no request of a poll in hand.
LEMMA WorkingFacts ==
    ASSUME NEW given \in SUBSET Profiles
    PROVE  ProfileRequests!Working(given) \in Agents /\ ProfileRequests!Working(given).seen = {}
BY DEF ProfileRequests!Working, ProfileRequests!NoAgent, Agents

\* A request that is given is marked: no poll sees it again.
LEMMA GiveStep ==
    ASSUME RequestInv, NEW i \in Instances, NEW p \in Profiles, ProfileRequests!Give(i, p)
    PROVE  RequestInv'
<1> DEFINE r == [info[p] EXCEPT !.status = "running", !.for = i]
           a == ProfileRequests!Handed(agent[i], p)
<1>0. /\ info \in [Profiles -> {Null} \cup Info] /\ agent \in [Instances -> Agents]
      /\ taken \in [Profiles -> Nat]
      /\ info[p] # Null => info[p] \in Info
  BY DEF RequestInv, InfoInv
<1>1. /\ info' = IF info[p] = Null THEN info ELSE [info EXCEPT ![p] = r]
      /\ agent' = [agent EXCEPT ![i] = a]
      /\ taken' = [taken EXCEPT ![p] = IF p \in together THEN @ ELSE @ + 1]
      /\ together' = together /\ p \in agent[i].seen
  BY DEF ProfileRequests!Give, ProfileRequests!Updated
<1>2. info[p] # Null => r \in Info /\ r.status = "running"
  BY <1>0 DEF Info
<1>3. a \in Agents /\ a.seen = agent[i].seen \ {p}
  <2>1. CASE agent[i].seen = {p}
    BY <1>0, <2>1, WorkingFacts DEF Agents, ProfileRequests!Handed
  <2>2. CASE agent[i].seen # {p}
    BY <1>0, <2>2 DEF Agents, ProfileRequests!Handed
  <2> QED
    BY <2>1, <2>2
<1> HIDE DEF r, a
<1>5. /\ agent' \in [Instances -> Agents] /\ agent'[i].seen = agent[i].seen \ {p}
      /\ \A j \in Instances \ {i} : agent'[j] = agent[j]
  BY <1>0, <1>1, <1>3
<1>6. /\ info' \in [Profiles -> {Null} \cup Info]
      /\ info'[p] = Null \/ info'[p].status = "running"
      /\ \A q \in Profiles \ {p} : info'[q] = info[q]
  BY <1>0, <1>1, <1>2
<1>7. /\ taken' \in [Profiles -> Nat] /\ \A q \in Profiles \ {p} : taken'[q] = taken[q]
      /\ p \notin together => taken'[p] = taken[p] + 1
  BY <1>0, <1>1
<1>8. ASSUME NEW q \in Profiles \ together
      PROVE  /\ taken'[q] <= 1
             /\ taken'[q] = 1 => GivenAway(q)'
             /\ \A j, k \in Instances : q \in agent'[j].seen /\ q \in agent'[k].seen => j = k
  <2>1. /\ taken[q] <= 1 /\ (taken[q] = 1 => GivenAway(q))
        /\ \A j, k \in Instances : q \in agent[j].seen /\ q \in agent[k].seen => j = k
    BY DEF RequestInv, AloneInv
  <2>2. \A j \in Instances : agent'[j].seen \subseteq agent[j].seen
    BY <1>5
  <2>3. CASE q = p
    <3>1. taken[p] \in Nat /\ taken[p] # 1
      BY <2>1, <2>3, <1>0, <1>1 DEF GivenAway
    <3>2. taken'[p] <= 1
      BY <3>1, <2>1, <2>3, <1>7
    <3>3. \A j \in Instances : p \notin agent'[j].seen
      BY <2>1, <2>3, <1>1, <1>5
    <3> QED
      BY <3>2, <3>3, <2>3, <1>6 DEF GivenAway
  <2>4. CASE q # p
    BY <2>1, <2>2, <2>4, <1>6, <1>7 DEF GivenAway
  <2> QED
    BY <2>3, <2>4
<1> QED
  BY <1>1, <1>5, <1>6, <1>7, <1>8 DEF RequestInv, InfoInv, AloneInv

\* The rest of what an instance does.
LEMMA WorkStep ==
    ASSUME RequestInv, NEW i \in Instances,
           \/ ProfileRequests!Receive(i) \/ ProfileRequests!Save(i)
           \/ ProfileRequests!Fail(i) \/ \E p \in Profiles : ProfileRequests!Run(i, p)
    PROVE  RequestInv'
<1>0. /\ info \in [Profiles -> {Null} \cup Info] /\ agent \in [Instances -> Agents]
      /\ agent[i] \in Agents
      /\ \A p \in Profiles : info[p] # Null => info[p] \in Info
  BY SMTT(90) DEF RequestInv, InfoInv
<1>1. UNCHANGED <<taken, together>>
  BY DEF ProfileRequests!Receive, ProfileRequests!Save, ProfileRequests!Fail, ProfileRequests!Run
<1>2. ASSUME NEW a \in Agents, a.seen \subseteq agent[i].seen, agent' = [agent EXCEPT ![i] = a]
      PROVE  /\ agent' \in [Instances -> Agents]
             /\ \A j \in Instances : agent'[j].seen \subseteq agent[j].seen
  BY <1>0, <1>2
<1>3. /\ [agent[i] EXCEPT !.step = "saves"] \in Agents
      /\ [agent[i] EXCEPT !.step = "saves"].seen = agent[i].seen
      /\ \A p \in Profiles :
           LET a == [agent[i] EXCEPT !.step = "sends", !.given = @ \ {p}, !.current = p]
           IN  a \in Agents /\ a.seen = agent[i].seen
      /\ LET a == ProfileRequests!Working(agent[i].given)
         IN  a \in Agents /\ a.seen = {}
      /\ ProfileRequests!NoAgent \in Agents /\ ProfileRequests!NoAgent.seen = {}
  <2>1. agent[i].given \in SUBSET Profiles
    BY <1>0 DEF Agents
  <2> QED
    BY <1>0, <2>1, WorkingFacts DEF Agents, ProfileRequests!NoAgent
<1>4. CASE ~ProfileRequests!Save(i)
  <2>1. info' = info
    BY <1>4 DEF ProfileRequests!Receive, ProfileRequests!Fail, ProfileRequests!Run
  <2>2. \E a \in Agents : a.seen \subseteq agent[i].seen /\ agent' = [agent EXCEPT ![i] = a]
    <3>1. CASE ProfileRequests!Receive(i)
      <4>1. \E a \in {ProfileRequests!Working(agent[i].given), [agent[i] EXCEPT !.step = "saves"]} :
               agent' = [agent EXCEPT ![i] = a]
        BY <3>1 DEF ProfileRequests!Receive
      <4> QED
        BY <4>1, <1>3
    <3>2. CASE ProfileRequests!Fail(i)
      <4>1. agent' = [agent EXCEPT ![i] = ProfileRequests!NoAgent]
        BY <3>2 DEF ProfileRequests!Fail
      <4> QED
        BY <4>1, <1>3
    <3>3. ASSUME NEW p \in Profiles, ProfileRequests!Run(i, p)
          PROVE  \E a \in Agents : a.seen \subseteq agent[i].seen /\ agent' = [agent EXCEPT ![i] = a]
      <4> DEFINE a == [agent[i] EXCEPT !.step = "sends", !.given = @ \ {p}, !.current = p]
      <4>1. agent' = [agent EXCEPT ![i] = a]
        BY <3>3 DEF ProfileRequests!Run
      <4>2. a \in Agents /\ a.seen = agent[i].seen
        BY <1>3
      <4> HIDE DEF a
      <4> QED
        BY <4>1, <4>2
    <3> QED
      BY <3>1, <3>2, <3>3, <1>4
  <2> QED
    BY <2>1, <2>2, <1>0, <1>1, <1>2, AgentStep
<1>5. CASE ProfileRequests!Save(i)
  <2> DEFINE a == ProfileRequests!Working(agent[i].given)
             c == agent[i].current
  <2>1. agent' = [agent EXCEPT ![i] = a]
    BY <1>5 DEF ProfileRequests!Save
  <2>2. a \in Agents /\ a.seen \subseteq agent[i].seen
    BY <1>3
  <2>3. PICK status \in {"done", "failed"} :
           info' = [info EXCEPT ![c] =
               [status |-> status, for |-> i, old |-> IF @ = Null THEN FALSE ELSE @.old]]
    BY <1>5 DEF ProfileRequests!Save
  <2>4. ASSUME c \in Profiles
        PROVE  [status |-> status, for |-> i, old |-> IF info[c] = Null THEN FALSE ELSE info[c].old] \in Info
    BY <2>4, <1>0 DEF Info
  <2>5. /\ info' \in [Profiles -> {Null} \cup Info]
        /\ \A p \in Profiles : info'[p] = info[p] \/ info'[p].status = status
    BY <2>3, <2>4, <1>0
  <2> HIDE DEF a
  <2>6. /\ agent' \in [Instances -> Agents]
        /\ \A j \in Instances : agent'[j].seen \subseteq agent[j].seen
    BY <2>1, <2>2, <1>2
  <2> QED
    BY <2>5, <2>6, <1>1, AgentStep
<1> QED
  BY <1>4, <1>5

\* The invariant is kept.
LEMMA RequestStep == RequestInv /\ [Next]_serviceVars => RequestInv'
<1> SUFFICES ASSUME RequestInv, [Next]_serviceVars PROVE RequestInv'
  OBVIOUS
<1>1. CASE UNCHANGED profileVars
  BY <1>1 DEF profileVars, RequestInv, InfoInv, AloneInv, GivenAway
<1>2. CASE ProfileRequests!Next
  BY <1>2, StoreStep, PollStep, GiveStep, WorkStep DEF ProfileRequests!Next, ProfileRequests!Agent
<1> QED
  BY <1>1, <1>2 DEF Next, InProbes, InProfiles, InDashboards, InSearches, serviceVars

\* A request for any instance is given to one of them, for every number of requests, instances
\* and mishaps, unless two polled at the very moment: it is marked when it is given.
THEOREM OneInstanceMakesIt == Spec => []OneInstanceEach
<1>1. RequestInv => OneInstanceEach
  BY DEF RequestInv, AloneInv, OneInstanceEach, ProfileRequests!OneInstanceEach
<1> QED
  BY <1>1, RequestInit, RequestStep, PTL DEF Spec

-----------------------------------------------------------------------------
(* Dashboards: inductions, over sets so that they need no operator.        *)

\* A set of numbers that has 0, and the next of each that it has, has them all.
LEMMA AllNumbers ==
    ASSUME NEW G \in SUBSET Nat, 0 \in G, \A n \in G : n + 1 \in G
    PROVE  G = Nat
<1> DEFINE F == {0 .. n : n \in Nat \ G}
<1>1. SUFFICES ASSUME G # Nat PROVE FALSE
  OBVIOUS
<1>2. F # {}
  BY <1>1
<1>3. F \subseteq FiniteSubsetsOf(Nat)
  <2>1. \A n \in Nat : IsFiniteSet(0 .. n) /\ 0 .. n \in SUBSET Nat
    BY FS_Interval
  <2> QED
    BY <2>1 DEF FiniteSubsetsOf
<1>4. \E x \in F : \A y \in F : ~ (<<y, x>> \in StrictSubsetOrdering(Nat))
  BY <1>2, <1>3, FS_StrictSubsetOrderingWellFounded, WFMin
<1>5. PICK n \in Nat \ G : \A m \in Nat \ G : ~ (<<0 .. m, 0 .. n>> \in StrictSubsetOrdering(Nat))
  BY <1>4
<1>6. n # 0 /\ n - 1 \in Nat /\ n = (n - 1) + 1
  BY <1>5
<1>7. n - 1 \notin G
  BY <1>5, <1>6
<1>8. 0 .. (n - 1) \subseteq 0 .. n /\ n \in 0 .. n /\ n \notin 0 .. (n - 1) /\ 0 .. n \subseteq Nat
  BY <1>6
<1>9. <<0 .. (n - 1), 0 .. n>> \in StrictSubsetOrdering(Nat)
  BY <1>8 DEF StrictSubsetOrdering
<1> QED
  BY <1>5, <1>6, <1>7, <1>9

\* A set of sequences that has the empty one, and each that it has with one more element, has them all.
LEMMA AllSequences ==
    ASSUME NEW S, NEW G \in SUBSET Seq(S), <<>> \in G, \A s \in G, x \in S : Append(s, x) \in G
    PROVE  G = Seq(S)
<1> DEFINE H == {n \in Nat : \A s \in Seq(S) : Len(s) = n => s \in G}
<1>1. 0 \in H
  <2>1. \A s \in Seq(S) : Len(s) = 0 => s = <<>>
    OBVIOUS
  <2> QED
    BY <2>1
<1>2. ASSUME NEW n \in H PROVE n + 1 \in H
  <2> SUFFICES ASSUME NEW s \in Seq(S), Len(s) = n + 1 PROVE s \in G
    BY <1>2
  <2>1. n \in Nat /\ \A t \in Seq(S) : Len(t) = n => t \in G
    BY <1>2
  <2>2. PICK f \in Seq(S), x \in S : s = Append(f, x)
    <3>1. s # <<>>
      BY <2>1
    <3> QED
      BY <3>1, SequenceEmptyOrAppend, Zenon
  <2>3. Len(s) = Len(f) + 1
    BY <2>2
  <2>4. f \in G
    BY <2>1, <2>2, <2>3
  <2> QED
    BY <2>2, <2>4, Zenon
<1>3. H = Nat
  <2> HIDE DEF H
  <2>1. H \in SUBSET Nat
    BY DEF H
  <2> QED
    BY <1>1, <1>2, <2>1, AllNumbers
<1>4. \A s \in Seq(S) : Len(s) \in H
  BY <1>3
<1> QED
  BY <1>4

\* A function that begins with x0 and goes on by steps.
StepIn(step, X, n) == step \in [(1 .. n) \X X -> X]
Walks(f, X, x0, n, step) == f \in [0 .. n -> X] /\ f[0] = x0 /\ \A i \in 1 .. n : f[i] = step[<<i, f[i - 1]>>]

\* There is one.
LEMMA StepsExist ==
    ASSUME NEW X, NEW x0 \in X, NEW n \in Nat, NEW step, StepIn(step, X, n)
    PROVE  \E f : Walks(f, X, x0, n, step)
<1> USE DEF StepIn
<1> DEFINE Goes(k, f) == f \in [0 .. k -> X] /\ f[0] = x0 /\ \A i \in 1 .. k : f[i] = step[<<i, f[i - 1]>>]
           G == {k \in Nat : k <= n => \E f : Goes(k, f)}
<1>1. 0 \in G
  <2>1. Goes(0, [i \in 0 .. 0 |-> x0])
    OBVIOUS
  <2> QED
    BY <2>1
<1>2. ASSUME NEW k \in G PROVE k + 1 \in G
  <2> SUFFICES ASSUME k + 1 <= n PROVE \E f : Goes(k + 1, f)
    BY <1>2
  <2>1. k \in Nat /\ k <= n
    BY <1>2
  <2>2. PICK f : Goes(k, f)
    BY <1>2, <2>1
  <2>3. PICK y \in X : y = step[<<k + 1, f[k]>>]
    <3>1. f[k] \in X /\ k + 1 \in 1 .. n
      BY <2>1, <2>2
    <3>2. <<k + 1, f[k]>> \in (1 .. n) \X X
      BY <3>1
    <3> QED
      BY <3>2
  <2> DEFINE g == [i \in 0 .. k + 1 |-> IF i = k + 1 THEN y ELSE f[i]]
  <2>4. g \in [0 .. k + 1 -> X] /\ g[0] = x0 /\ g[k + 1] = y /\ \A i \in 0 .. k : g[i] = f[i]
    BY <2>1, <2>2
  <2> HIDE DEF g
  <2>5. \A i \in 1 .. k + 1 : g[i] = step[<<i, g[i - 1]>>]
    <3>1. \A i \in 1 .. k : i \in 0 .. k /\ i - 1 \in 0 .. k
      BY <2>1
    <3>2. \A i \in 1 .. k : g[i] = step[<<i, g[i - 1]>>]
      BY <2>2, <2>4, <3>1
    <3>3. g[k + 1] = step[<<k + 1, g[(k + 1) - 1]>>]
      <4>1. (k + 1) - 1 = k /\ k \in 0 .. k
        BY <2>1
      <4> QED
        BY <2>3, <2>4, <4>1
    <3>4. \A i \in 1 .. k + 1 : i \in 1 .. k \/ i = k + 1
      BY <2>1
    <3> QED
      BY <3>2, <3>3, <3>4
  <2> QED
    BY <2>4, <2>5
<1>3. G = Nat
  <2> HIDE DEF G
  <2>1. G \in SUBSET Nat
    BY DEF G
  <2> QED
    BY <1>1, <1>2, <2>1, AllNumbers
<1>4. \E f : Goes(n, f)
  <2>1. n \in G
    <3> HIDE DEF G
    <3> QED
      BY <1>3
  <2> QED
    BY <2>1
<1> QED
  BY <1>4 DEF Walks

-----------------------------------------------------------------------------
(* Dashboards: some panels of a sequence.                                  *)

\* f does what Only does, panel after panel.
Keeps(f, s, V) ==
    f[0] = <<>> /\ \A i \in 1 .. Len(s) : f[i] = IF s[i] \in V THEN Append(f[i - 1], s[i]) ELSE f[i - 1]

\* The function in the definition of Only exists.
LEMMA KeepsExists ==
    ASSUME NEW S, NEW s \in Seq(S), NEW V
    PROVE  \E f \in [0 .. Len(s) -> Seq(S)] : Keeps(f, s, V)
<1>1. PICK n \in Nat : n = Len(s)
  OBVIOUS
<1> DEFINE step == [a \in (1 .. n) \X Seq(S) |-> IF s[a[1]] \in V THEN Append(a[2], s[a[1]]) ELSE a[2]]
<1>2. step \in [(1 .. n) \X Seq(S) -> Seq(S)]
  <2>1. \A a \in (1 .. n) \X Seq(S) : a[1] \in 1 .. n /\ a[2] \in Seq(S) /\ s[a[1]] \in S
    BY <1>1
  <2> QED
    BY <2>1
<1>3. \A i \in 1 .. n, t \in Seq(S) : step[<<i, t>>] = IF s[i] \in V THEN Append(t, s[i]) ELSE t
  OBVIOUS
<1> HIDE DEF step
<1>4. PICK f \in [0 .. n -> Seq(S)] : f[0] = <<>> /\ \A i \in 1 .. n : f[i] = step[<<i, f[i - 1]>>]
  <2>1. PICK X, x0, st : x0 \in X /\ st \in [(1 .. n) \X X -> X] /\ X = Seq(S) /\ x0 = <<>> /\ st = step
    <3>1. <<>> \in Seq(S)
      OBVIOUS
    <3> QED
      BY <1>2, <3>1
  <2>2. StepIn(st, X, n)
    BY <2>1 DEF StepIn
  <2>3. \E f : Walks(f, X, x0, n, st)
    BY <1>1, <2>1, <2>2, StepsExist
  <2> QED
    BY <2>1, <2>3 DEF Walks
<1>5. \A i \in 1 .. n : i - 1 \in 0 .. n
  BY <1>1
<1>6. \A i \in 1 .. n : f[i - 1] \in Seq(S)
  BY <1>4, <1>5
<1>7. \A i \in 1 .. n : f[i] = IF s[i] \in V THEN Append(f[i - 1], s[i]) ELSE f[i - 1]
  BY <1>3, <1>4, <1>6
<1>8. Keeps(f, s, V)
  BY <1>1, <1>4, <1>7 DEF Keeps
<1> QED
  BY <1>1, <1>4, <1>8

\* Only is what any such function ends with.
LEMMA OnlyIs ==
    ASSUME NEW S, NEW s \in Seq(S), NEW V, NEW f, Keeps(f, s, V)
    PROVE  Dashboards!Only(s, V) = f[Len(s)]
<1>1. PICK n \in Nat : n = Len(s)
  OBVIOUS
<1> DEFINE body(g) == [i \in 0 .. Len(s) |-> IF i = 0 THEN <<>>
                                             ELSE IF s[i] \in V THEN Append(g[i - 1], s[i]) ELSE g[i - 1]]
           after == CHOOSE g : g = body(g)
<1>2. PICK e \in [0 .. n -> Seq(S)] : Keeps(e, s, V)
  BY <1>1, KeepsExists
<1>3. e = body(e)
  <2>1. \A i \in 0 .. n : i = 0 \/ i \in 1 .. n
    BY <1>1
  <2>2. \A i \in 0 .. n : e[i] = IF i = 0 THEN <<>> ELSE IF s[i] \in V THEN Append(e[i - 1], s[i]) ELSE e[i - 1]
    BY <1>1, <1>2, <2>1 DEF Keeps
  <2>3. e = [i \in 0 .. n |-> e[i]]
    BY <1>2
  <2>4. e = [i \in 0 .. n |-> IF i = 0 THEN <<>> ELSE IF s[i] \in V THEN Append(e[i - 1], s[i]) ELSE e[i - 1]]
    BY <2>2, <2>3, ZenonT(90)
  <2> QED
    BY <1>1, <2>4
<1>4. after = body(after)
  BY <1>3, ZenonT(90)
<1>5. Dashboards!Only(s, V) = after[Len(s)]
  BY DEF Dashboards!Only
<1> HIDE DEF after
<1>6. /\ after[0] = <<>>
      /\ \A i \in 1 .. n : after[i] = IF s[i] \in V THEN Append(after[i - 1], s[i]) ELSE after[i - 1]
  <2>1. PICK a : a = after
    OBVIOUS
  <2>2. a = body(a)
    BY <1>4, <2>1
  <2>3. 0 \in 0 .. n /\ \A i \in 1 .. n : i \in 0 .. n /\ i # 0
    BY <1>1
  <2>4. a[0] = <<>>
    BY <1>1, <2>2, <2>3
  <2>5. \A i \in 1 .. n : a[i] = IF s[i] \in V THEN Append(a[i - 1], s[i]) ELSE a[i - 1]
    BY <1>1, <2>2, <2>3
  <2> QED
    BY <2>1, <2>4, <2>5
<1> DEFINE G == {i \in Nat : i <= n => after[i] = f[i]}
<1>7. 0 \in G
  BY <1>6 DEF Keeps
<1>8. ASSUME NEW k \in G PROVE k + 1 \in G
  <2> SUFFICES ASSUME k + 1 <= n PROVE after[k + 1] = f[k + 1]
    BY <1>8
  <2>1. k \in Nat /\ after[k] = f[k] /\ k + 1 \in 1 .. n /\ (k + 1) - 1 = k
    BY <1>1, <1>8
  <2> QED
    BY <1>1, <1>6, <2>1 DEF Keeps
<1>9. G = Nat
  <2> HIDE DEF G
  <2>1. G \in SUBSET Nat
    BY DEF G
  <2> QED
    BY <1>7, <1>8, <2>1, AllNumbers
<1> QED
  BY <1>1, <1>5, <1>9

\* Only, panel after panel.
LEMMA OnlySteps ==
    ASSUME NEW S, NEW V
    PROVE  /\ Dashboards!Only(<<>>, V) = <<>>
           /\ \A s \in Seq(S) : Dashboards!Only(s, V) \in Seq(S)
           /\ \A s \in Seq(S), x \in S : Dashboards!Only(Append(s, x), V) = IF x \in V THEN Append(Dashboards!Only(s, V), x) ELSE Dashboards!Only(s, V)
<1>1. Dashboards!Only(<<>>, V) = <<>>
  <2>1. <<>> \in Seq(S) /\ Len(<<>>) = 0 /\ Keeps([i \in 0 .. 0 |-> <<>>], <<>>, V)
    BY DEF Keeps
  <2> QED
    BY <2>1, OnlyIs
<1>2. ASSUME NEW s \in Seq(S) PROVE Dashboards!Only(s, V) \in Seq(S)
  <2>1. PICK f \in [0 .. Len(s) -> Seq(S)] : Keeps(f, s, V)
    BY KeepsExists
  <2> QED
    BY <2>1, OnlyIs
<1>3. ASSUME NEW s \in Seq(S), NEW x \in S
      PROVE  Dashboards!Only(Append(s, x), V) = IF x \in V THEN Append(Dashboards!Only(s, V), x) ELSE Dashboards!Only(s, V)
  <2>1. PICK n \in Nat, t \in Seq(S) : n = Len(s) /\ t = Append(s, x)
    <3>1. Len(s) \in Nat /\ Append(s, x) \in Seq(S)
      OBVIOUS
    <3> QED
      BY <3>1
  <2>2. Len(t) = n + 1 /\ t[n + 1] = x /\ \A i \in 1 .. n : t[i] = s[i]
    BY <2>1
  <2>3. PICK f : Keeps(f, t, V)
    BY KeepsExists
  <2>4. Keeps(f, s, V) /\ f[n + 1] = IF x \in V THEN Append(f[n], x) ELSE f[n]
    BY <2>1, <2>2, <2>3 DEF Keeps
  <2>5. Dashboards!Only(t, V) = f[n + 1] /\ Dashboards!Only(s, V) = f[n]
    <3>1. Dashboards!Only(t, V) = f[Len(t)]
      BY <2>1, <2>3, OnlyIs, Zenon
    <3>2. Dashboards!Only(s, V) = f[Len(s)]
      BY <2>4, OnlyIs, Zenon
    <3> QED
      BY <2>1, <2>2, <3>1, <3>2
  <2> QED
    BY <2>1, <2>4, <2>5
<1> QED
  BY <1>1, <1>2, <1>3

\* What was already done of a sequence stays as it is when it goes on.
LEMMA AppendToJoin ==
    ASSUME NEW S, NEW s \in Seq(S), NEW t \in Seq(S), NEW x \in S
    PROVE  s \o Append(t, x) = Append(s \o t, x)
<1>1. s \o t \in Seq(S) /\ <<x>> \in Seq(S)
  OBVIOUS
<1>2. Append(t, x) = t \o <<x>>
  BY AppendIsConcat, Zenon
<1>3. Append(s \o t, x) = (s \o t) \o <<x>>
  BY <1>1, AppendIsConcat, Zenon
<1>4. (s \o t) \o <<x>> = s \o (t \o <<x>>)
  BY <1>1, ConcatAssociative
<1> QED
  BY <1>2, <1>3, <1>4, Zenon

\* Only of two sequences one after the other is that of each.
LEMMA OnlyJoin ==
    ASSUME NEW S, NEW V, NEW s \in Seq(S), NEW t \in Seq(S)
    PROVE  Dashboards!Only(s \o t, V) = Dashboards!Only(s, V) \o Dashboards!Only(t, V)
<1> DEFINE G == {u \in Seq(S) : Dashboards!Only(s \o u, V) = Dashboards!Only(s, V) \o Dashboards!Only(u, V)}
<1>0. /\ Dashboards!Only(<<>>, V) = <<>>
      /\ \A u \in Seq(S) : Dashboards!Only(u, V) \in Seq(S)
      /\ \A u \in Seq(S), x \in S : Dashboards!Only(Append(u, x), V) = IF x \in V THEN Append(Dashboards!Only(u, V), x) ELSE Dashboards!Only(u, V)
  BY OnlySteps, Zenon
<1>1. <<>> \in G
  <2>1. s \o <<>> = s /\ Dashboards!Only(s, V) \o <<>> = Dashboards!Only(s, V)
    BY <1>0, ConcatEmptySeq, Zenon
  <2>2. <<>> \in Seq(S)
    OBVIOUS
  <2> QED
    BY <1>0, <2>1, <2>2, Zenon
<1>2. ASSUME NEW u \in G, NEW x \in S PROVE Append(u, x) \in G
  <2>1. u \in Seq(S) /\ Dashboards!Only(s \o u, V) = Dashboards!Only(s, V) \o Dashboards!Only(u, V)
    BY <1>2
  <2>2. Append(u, x) \in Seq(S) /\ s \o u \in Seq(S)
    BY <2>1
  <2>3. s \o Append(u, x) = Append(s \o u, x)
    BY <2>1, AppendToJoin
  <2>4. Dashboards!Only(s \o Append(u, x), V) = IF x \in V THEN Append(Dashboards!Only(s \o u, V), x) ELSE Dashboards!Only(s \o u, V)
    BY <1>0, <2>2, <2>3, ZenonT(90)
  <2>5. Dashboards!Only(Append(u, x), V) = IF x \in V THEN Append(Dashboards!Only(u, V), x) ELSE Dashboards!Only(u, V)
    BY <1>0, <2>1, Zenon
  <2>6. Dashboards!Only(s, V) \o Append(Dashboards!Only(u, V), x) = Append(Dashboards!Only(s, V) \o Dashboards!Only(u, V), x)
    BY <1>0, <2>1, AppendToJoin
  <2>7. Dashboards!Only(s \o Append(u, x), V) = Dashboards!Only(s, V) \o Dashboards!Only(Append(u, x), V)
    BY <2>1, <2>4, <2>5, <2>6, Zenon
  <2> QED
    BY <2>2, <2>7, Zenon
<1>3. G = Seq(S)
  <2> HIDE DEF G
  <2>1. G \in SUBSET Seq(S)
    BY DEF G
  <2> QED
    BY <1>1, <1>2, <2>1, AllSequences
<1> QED
  BY <1>3, Zenon

\* All of a sequence, and nothing of it.
LEMMA OnlyAll ==
    ASSUME NEW S, NEW V, S \subseteq V, NEW s \in Seq(S)
    PROVE  Dashboards!Only(s, V) = s
<1> DEFINE G == {u \in Seq(S) : Dashboards!Only(u, V) = u}
<1>0. /\ Dashboards!Only(<<>>, V) = <<>>
      /\ \A u \in Seq(S), x \in S : Dashboards!Only(Append(u, x), V) = IF x \in V THEN Append(Dashboards!Only(u, V), x) ELSE Dashboards!Only(u, V)
  BY OnlySteps, Zenon
<1>1. <<>> \in G
  <2>1. <<>> \in Seq(S)
    OBVIOUS
  <2> QED
    BY <1>0, <2>1, Zenon
<1>2. ASSUME NEW u \in G, NEW x \in S PROVE Append(u, x) \in G
  <2>1. u \in Seq(S) /\ Dashboards!Only(u, V) = u
    BY <1>2
  <2>2. Append(u, x) \in Seq(S) /\ x \in V
    BY <2>1
  <2> QED
    BY <1>0, <2>1, <2>2, Zenon
<1>3. G = Seq(S)
  <2> HIDE DEF G
  <2>1. G \in SUBSET Seq(S)
    BY DEF G
  <2> QED
    BY <1>1, <1>2, <2>1, AllSequences
<1> QED
  BY <1>3, Zenon

\* Of elements that are all outside the set, nothing is left.
LEMMA OnlyNone ==
    ASSUME NEW S, NEW V, S \cap V = {}, NEW s \in Seq(S)
    PROVE  Dashboards!Only(s, V) = <<>>
<1> DEFINE G == {u \in Seq(S) : Dashboards!Only(u, V) = <<>>}
<1>0. /\ Dashboards!Only(<<>>, V) = <<>>
      /\ \A u \in Seq(S), x \in S : Dashboards!Only(Append(u, x), V) = IF x \in V THEN Append(Dashboards!Only(u, V), x) ELSE Dashboards!Only(u, V)
  BY OnlySteps, Zenon
<1>1. <<>> \in G
  <2>1. <<>> \in Seq(S)
    OBVIOUS
  <2> QED
    BY <1>0, <2>1, Zenon
<1>2. ASSUME NEW u \in G, NEW x \in S PROVE Append(u, x) \in G
  <2>1. u \in Seq(S) /\ Dashboards!Only(u, V) = <<>>
    BY <1>2
  <2>2. Append(u, x) \in Seq(S) /\ x \notin V
    BY <2>1
  <2> QED
    BY <1>0, <2>1, <2>2, Zenon
<1>3. G = Seq(S)
  <2> HIDE DEF G
  <2>1. G \in SUBSET Seq(S)
    BY DEF G
  <2> QED
    BY <1>1, <1>2, <2>1, AllSequences
<1> QED
  BY <1>3, Zenon

\* What Only keeps is of the set.
LEMMA OnlyOf ==
    ASSUME NEW S, NEW V, NEW s \in Seq(S)
    PROVE  Dashboards!Only(s, V) \in Seq(S \cap V)
<1> DEFINE G == {u \in Seq(S) : Dashboards!Only(u, V) \in Seq(S \cap V)}
<1>0. /\ Dashboards!Only(<<>>, V) = <<>>
      /\ \A u \in Seq(S), x \in S : Dashboards!Only(Append(u, x), V) = IF x \in V THEN Append(Dashboards!Only(u, V), x) ELSE Dashboards!Only(u, V)
  BY OnlySteps, Zenon
<1>1. <<>> \in G
  <2>1. <<>> \in Seq(S) /\ <<>> \in Seq(S \cap V)
    OBVIOUS
  <2> QED
    BY <1>0, <2>1, Zenon
<1>2. ASSUME NEW u \in G, NEW x \in S PROVE Append(u, x) \in G
  <2>1. u \in Seq(S) /\ Dashboards!Only(u, V) \in Seq(S \cap V)
    BY <1>2
  <2>2. Append(u, x) \in Seq(S) /\ (x \in V => Append(Dashboards!Only(u, V), x) \in Seq(S \cap V))
    BY <2>1
  <2>3. Dashboards!Only(Append(u, x), V) = IF x \in V THEN Append(Dashboards!Only(u, V), x) ELSE Dashboards!Only(u, V)
    BY <1>0, <2>1, Zenon
  <2>4. Dashboards!Only(Append(u, x), V) \in Seq(S \cap V)
    BY <2>1, <2>2, <2>3, Zenon
  <2> QED
    BY <2>2, <2>4, Zenon
<1>3. G = Seq(S)
  <2> HIDE DEF G
  <2>1. G \in SUBSET Seq(S)
    BY DEF G
  <2> QED
    BY <1>1, <1>2, <2>1, AllSequences
<1> QED
  BY <1>3, Zenon

-----------------------------------------------------------------------------
(* Dashboards: panels put in their places.                                 *)

Placing(S) == [result : Seq(S), mine : Seq(S)]
Nothing(m) == [result |-> <<>>, mine |-> m]

\* f does what Placed does, panel after panel.
Places(f, hid, s, m) == f[0] = Nothing(m) /\ \A i \in 1 .. Len(s) : f[i] = Dashboards!PutNext(hid, f[i - 1], s[i])

\* One step of the placing keeps the shape of the placing.
LEMMA PutNextType ==
    ASSUME NEW S, NEW hid, NEW a \in Placing(S), NEW x \in S
    PROVE  Dashboards!PutNext(hid, a, x) \in Placing(S)
<1>1. a.result \in Seq(S) /\ a.mine \in Seq(S)
  BY DEF Placing
<1>2. CASE x.id \in hid
  <2>1. Dashboards!PutNext(hid, a, x) = [a EXCEPT !.result = Append(a.result, x)]
    BY <1>2 DEF Dashboards!PutNext
  <2>2. Append(a.result, x) \in Seq(S)
    BY <1>1
  <2> QED
    BY <2>1, <2>2 DEF Placing
<1>3. CASE x.id \notin hid /\ a.mine # <<>>
  <2>1. Head(a.mine) \in S /\ Tail(a.mine) \in Seq(S)
    BY <1>1, <1>3, HeadTailProperties
  <2>2. PICK h \in S, l \in Seq(S) : h = Head(a.mine) /\ l = Tail(a.mine)
    BY <2>1
  <2>3. Append(a.result, h) \in Seq(S)
    BY <1>1
  <2>4. Dashboards!PutNext(hid, a, x) = [result |-> Append(a.result, h), mine |-> l]
    BY <1>3, <2>2 DEF Dashboards!PutNext
  <2> QED
    BY <2>3, <2>4 DEF Placing
<1>4. CASE x.id \notin hid /\ a.mine = <<>>
  BY <1>4 DEF Dashboards!PutNext
<1> QED
  BY <1>2, <1>3, <1>4

\* The function in the definition of Placed exists.
LEMMA PlacesExists ==
    ASSUME NEW S, NEW s \in Seq(S), NEW hid, NEW m \in Seq(S)
    PROVE  \E f \in [0 .. Len(s) -> Placing(S)] : Places(f, hid, s, m)
<1>1. PICK n \in Nat : n = Len(s)
  OBVIOUS
<1> DEFINE step == [a \in (1 .. n) \X Placing(S) |-> Dashboards!PutNext(hid, a[2], s[a[1]])]
<1>2. step \in [(1 .. n) \X Placing(S) -> Placing(S)]
  <2>1. \A a \in (1 .. n) \X Placing(S) : a[1] \in 1 .. n /\ a[2] \in Placing(S) /\ s[a[1]] \in S
    BY <1>1
  <2>2. \A a \in (1 .. n) \X Placing(S) : Dashboards!PutNext(hid, a[2], s[a[1]]) \in Placing(S)
    BY <2>1, PutNextType
  <2> QED
    BY <2>2
<1>3. \A i \in 1 .. n, t \in Placing(S) : step[<<i, t>>] = Dashboards!PutNext(hid, t, s[i])
  OBVIOUS
<1> HIDE DEF step
<1>4. PICK f \in [0 .. n -> Placing(S)] : f[0] = Nothing(m) /\ \A i \in 1 .. n : f[i] = step[<<i, f[i - 1]>>]
  <2>1. PICK X, x0, st : x0 \in X /\ st \in [(1 .. n) \X X -> X] /\ X = Placing(S) /\ x0 = Nothing(m) /\ st = step
    <3>1. Nothing(m) \in Placing(S)
      BY DEF Nothing, Placing
    <3> QED
      BY <1>2, <3>1
  <2>2. StepIn(st, X, n)
    BY <2>1 DEF StepIn
  <2>3. \E f : Walks(f, X, x0, n, st)
    BY <1>1, <2>1, <2>2, StepsExist
  <2> QED
    BY <2>1, <2>3 DEF Walks
<1>5. \A i \in 1 .. n : i - 1 \in 0 .. n
  BY <1>1
<1>6. \A i \in 1 .. n : f[i - 1] \in Placing(S)
  BY <1>4, <1>5
<1>7. \A i \in 1 .. n : f[i] = Dashboards!PutNext(hid, f[i - 1], s[i])
  BY <1>3, <1>4, <1>6
<1>8. Places(f, hid, s, m)
  BY <1>1, <1>4, <1>7 DEF Places
<1> QED
  BY <1>1, <1>4, <1>8

\* Placed is what any such function ends with.
LEMMA PlacedIs ==
    ASSUME NEW S, NEW s \in Seq(S), NEW hid, NEW m \in Seq(S), NEW f, Places(f, hid, s, m)
    PROVE  Dashboards!Placed(hid, s, m) = f[Len(s)]
<1>1. PICK n \in Nat : n = Len(s)
  OBVIOUS
<1> DEFINE body(g) == [i \in 0 .. Len(s) |-> IF i = 0 THEN [result |-> <<>>, mine |-> m] ELSE Dashboards!PutNext(hid, g[i - 1], s[i])]
           after == CHOOSE g : g = body(g)
<1>2. PICK e \in [0 .. n -> Placing(S)] : Places(e, hid, s, m)
  BY <1>1, PlacesExists
<1>3. e = body(e)
  <2>1. \A i \in 0 .. n : i = 0 \/ i \in 1 .. n
    BY <1>1
  <2>2. \A i \in 0 .. n : e[i] = IF i = 0 THEN [result |-> <<>>, mine |-> m] ELSE Dashboards!PutNext(hid, e[i - 1], s[i])
    BY <1>1, <1>2, <2>1 DEF Places, Nothing
  <2>3. e = [i \in 0 .. n |-> e[i]]
    BY <1>2
  <2>4. e = [i \in 0 .. n |-> IF i = 0 THEN [result |-> <<>>, mine |-> m] ELSE Dashboards!PutNext(hid, e[i - 1], s[i])]
    BY <2>2, <2>3
  <2> QED
    BY <1>1, <2>4
<1>4. after = body(after)
  BY <1>3
<1>5. Dashboards!Placed(hid, s, m) = after[Len(s)]
  BY DEF Dashboards!Placed
<1> HIDE DEF after
<1>6. after[0] = Nothing(m) /\ \A i \in 1 .. n : after[i] = Dashboards!PutNext(hid, after[i - 1], s[i])
  <2>1. PICK a : a = after
    OBVIOUS
  <2>2. a = body(a)
    BY <1>4, <2>1
  <2>3. 0 \in 0 .. n /\ \A i \in 1 .. n : i \in 0 .. n /\ i # 0
    BY <1>1
  <2>4. a[0] = Nothing(m)
    BY <1>1, <2>2, <2>3 DEF Nothing
  <2>5. \A i \in 1 .. n : a[i] = Dashboards!PutNext(hid, a[i - 1], s[i])
    BY <1>1, <2>2, <2>3
  <2> QED
    BY <2>1, <2>4, <2>5
<1> DEFINE G == {i \in Nat : i <= n => after[i] = f[i]}
<1>7. 0 \in G
  BY <1>6 DEF Places
<1>8. ASSUME NEW k \in G PROVE k + 1 \in G
  <2> SUFFICES ASSUME k + 1 <= n PROVE after[k + 1] = f[k + 1]
    BY <1>8
  <2>1. k \in Nat /\ after[k] = f[k] /\ k + 1 \in 1 .. n /\ (k + 1) - 1 = k
    BY <1>1, <1>8
  <2> QED
    BY <1>1, <1>6, <2>1 DEF Places
<1>9. G = Nat
  <2> HIDE DEF G
  <2>1. G \in SUBSET Nat
    BY DEF G
  <2> QED
    BY <1>7, <1>8, <2>1, AllNumbers
<1> QED
  BY <1>1, <1>5, <1>9

\* Placed, panel after panel.
LEMMA PlacedGoesOn ==
    ASSUME NEW S, NEW hid, NEW m \in Seq(S)
    PROVE  \A s \in Seq(S), x \in S : Dashboards!Placed(hid, Append(s, x), m) = Dashboards!PutNext(hid, Dashboards!Placed(hid, s, m), x)
<1> TAKE s \in Seq(S), x \in S
<1>1. PICK n \in Nat, t \in Seq(S) : n = Len(s) /\ t = Append(s, x)
  <2>1. Len(s) \in Nat /\ Append(s, x) \in Seq(S)
    OBVIOUS
  <2> QED
    BY <2>1
<1>2. Len(t) = n + 1 /\ t[n + 1] = x /\ \A i \in 1 .. n : t[i] = s[i]
  BY <1>1
<1>3. PICK f : Places(f, hid, t, m)
  BY PlacesExists
<1>4. Places(f, hid, s, m) /\ f[n + 1] = Dashboards!PutNext(hid, f[n], x)
  BY <1>1, <1>2, <1>3 DEF Places
<1>5. Dashboards!Placed(hid, t, m) = f[n + 1] /\ Dashboards!Placed(hid, s, m) = f[n]
  <2>1. Dashboards!Placed(hid, t, m) = f[Len(t)]
    <3>1. t \in Seq(S)
      BY <1>1
    <3> QED
      BY <1>3, <3>1, PlacedIs, Zenon
  <2>2. Dashboards!Placed(hid, s, m) = f[Len(s)]
    BY <1>4, PlacedIs
  <2> QED
    BY <1>1, <1>2, <2>1, <2>2
<1> QED
  BY <1>1, <1>4, <1>5

\* Nothing is placed where nothing existed.
LEMMA PlacedFirst ==
    ASSUME NEW S, NEW hid, NEW m \in Seq(S)
    PROVE  Dashboards!Placed(hid, <<>>, m) = Nothing(m)
<1>1. <<>> \in Seq(S) /\ Len(<<>>) = 0 /\ Places([i \in 0 .. 0 |-> Nothing(m)], hid, <<>>, m)
  BY DEF Places
<1> QED
  BY <1>1, PlacedIs

\* A placing is made of sequences of panels.
LEMMA PlacedType ==
    ASSUME NEW S, NEW hid, NEW m \in Seq(S), NEW s \in Seq(S)
    PROVE  Dashboards!Placed(hid, s, m) \in Placing(S)
<1>1. PICK f \in [0 .. Len(s) -> Placing(S)] : Places(f, hid, s, m)
  BY PlacesExists
<1> QED
  BY <1>1, PlacedIs

\* The panels of S that are hidden, by their identifiers.
HiddenOf(S, hid) == {p \in S : p.id \in hid}

\* Of e and m, r has the hidden panels of e, in their order, and all of m; and when m has at least
\* as many panels as e shows, every hidden panel of e is where it was.
WellPlaced(S, hid, e, m, r) ==
    LET V == HiddenOf(S, hid)
        seen == Len(e) - Len(Dashboards!Only(e, V))
    IN  /\ r \in Placing(S) /\ r.mine \in Seq(S \ V)
        /\ Dashboards!Only(r.result, V) = Dashboards!Only(e, V)
        /\ Dashboards!Only(r.result, S \ V) \o r.mine = m
        /\ Len(m) >= seen => /\ Len(r.result) = Len(e) /\ Len(r.mine) = Len(m) - seen
                             /\ \A i \in 1 .. Len(e) : e[i] \in V => r.result[i] = e[i]

\* The first element of a sequence can be moved to the one before it.
LEMMA MoveHead ==
    ASSUME NEW S, NEW s \in Seq(S), NEW t \in Seq(S), t # <<>>
    PROVE  Append(s, Head(t)) \o Tail(t) = s \o t
<1>1. PICK h \in S, l \in Seq(S) : h = Head(t) /\ l = Tail(t)
  BY HeadTailProperties
<1>2. t = <<h>> \o l
  BY <1>1
<1>3. Append(s, h) = s \o <<h>>
  BY AppendIsConcat, Zenon
<1>4. <<h>> \in Seq(S)
  OBVIOUS
<1>5. (s \o <<h>>) \o l = s \o (<<h>> \o l)
  BY <1>4, ConcatAssociative
<1> QED
  BY <1>1, <1>2, <1>3, <1>5, Zenon

\* At the beginning, and after one more panel.
LEMMA PlacedBegins ==
    ASSUME NEW S, NEW hid, NEW m \in Seq(S \ HiddenOf(S, hid))
    PROVE  WellPlaced(S, hid, <<>>, m, Nothing(m))
<1>1. PICK V, W : V = HiddenOf(S, hid) /\ W = S \ V
  OBVIOUS
<1>2. Dashboards!Only(<<>>, V) = <<>> /\ Dashboards!Only(<<>>, W) = <<>>
  BY OnlySteps, Zenon
<1>3. <<>> \in Seq(S) /\ Len(<<>>) = 0 /\ m \in Seq(S) /\ m \in Seq(W)
  BY <1>1
<1>4. Nothing(m) \in Placing(S) /\ Nothing(m).mine = m /\ Nothing(m).result = <<>>
  BY <1>3 DEF Nothing, Placing
<1>5. <<>> \o m = m
  BY <1>3, ConcatEmptySeq, Zenon
<1>6. Len(m) \in Nat /\ Len(m) - (0 - 0) = Len(m) /\ \A i \in 1 .. 0 : FALSE
  BY <1>3
<1> QED
  BY <1>1, <1>2, <1>3, <1>4, <1>5, <1>6, Zenon DEF WellPlaced

\* A panel that is hidden from her keeps its place.
LEMMA PlacedHidden ==
    ASSUME NEW S, NEW hid, NEW m \in Seq(S), NEW e \in Seq(S), NEW x \in S, NEW r,
           WellPlaced(S, hid, e, m, r), x.id \in hid
    PROVE  WellPlaced(S, hid, Append(e, x), m, Dashboards!PutNext(hid, r, x))
<1>1. PICK V, W, n, c, b : /\ V = HiddenOf(S, hid) /\ W = S \ V
                           /\ n \in Nat /\ c \in Nat /\ b \in Nat /\ n = Len(e) /\ c = Len(Dashboards!Only(e, V)) /\ b = Len(m)
  <2>1. Dashboards!Only(e, HiddenOf(S, hid)) \in Seq(S)
    BY OnlySteps, Zenon
  <2>2. Len(e) \in Nat /\ Len(m) \in Nat /\ Len(Dashboards!Only(e, HiddenOf(S, hid))) \in Nat
    BY <2>1
  <2> QED
    BY <2>2, Zenon
<1>0. /\ \A u \in Seq(S), y \in S : Dashboards!Only(Append(u, y), V) = IF y \in V THEN Append(Dashboards!Only(u, V), y) ELSE Dashboards!Only(u, V)
      /\ \A u \in Seq(S), y \in S : Dashboards!Only(Append(u, y), W) = IF y \in W THEN Append(Dashboards!Only(u, W), y) ELSE Dashboards!Only(u, W)
  BY OnlySteps, Zenon
<1>2. x \in V /\ x \notin W
  BY <1>1 DEF HiddenOf
<1>3. PICK res \in Seq(S), k \in Seq(W) : res = r.result /\ k = r.mine /\ r = [result |-> res, mine |-> k]
  BY <1>1 DEF WellPlaced, Placing
<1>4. /\ Dashboards!Only(res, V) = Dashboards!Only(e, V) /\ Dashboards!Only(res, W) \o k = m
      /\ b >= n - c => Len(res) = n /\ Len(k) = b - (n - c) /\ \A i \in 1 .. n : e[i] \in V => res[i] = e[i]
  BY <1>1, <1>3 DEF WellPlaced
<1>5. PICK f \in Seq(S), q \in Seq(S) : f = Append(e, x) /\ q = Append(res, x)
  <2>1. Append(e, x) \in Seq(S) /\ Append(res, x) \in Seq(S)
    OBVIOUS
  <2> QED
    BY <2>1, Zenon
<1>6. Dashboards!PutNext(hid, r, x) = [result |-> q, mine |-> k]
  BY <1>3, <1>5 DEF Dashboards!PutNext
<1>7. /\ Len(f) = n + 1 /\ f[n + 1] = x /\ (\A i \in 1 .. n : f[i] = e[i])
      /\ Len(q) = Len(res) + 1 /\ q[Len(res) + 1] = x /\ (\A i \in 1 .. Len(res) : q[i] = res[i])
  BY <1>1, <1>5
<1>8. Dashboards!Only(f, V) = Append(Dashboards!Only(e, V), x) /\ Dashboards!Only(q, V) = Append(Dashboards!Only(res, V), x) /\ Dashboards!Only(q, W) = Dashboards!Only(res, W)
  BY <1>0, <1>2, <1>3, <1>5, Zenon
<1>9. Len(Dashboards!Only(f, V)) = c + 1
  <2>1. Dashboards!Only(e, V) \in Seq(S)
    BY OnlySteps, Zenon
  <2> QED
    BY <1>1, <1>8, <2>1
<1>10. b >= (n + 1) - (c + 1) => /\ Len(q) = n + 1 /\ Len(k) = b - ((n + 1) - (c + 1))
                                 /\ \A i \in 1 .. n + 1 : f[i] \in V => q[i] = f[i]
  <2> SUFFICES ASSUME b >= (n + 1) - (c + 1)
               PROVE  /\ Len(q) = n + 1 /\ Len(k) = b - ((n + 1) - (c + 1))
                      /\ \A i \in 1 .. n + 1 : f[i] \in V => q[i] = f[i]
    OBVIOUS
  <2>1. b >= n - c /\ b - ((n + 1) - (c + 1)) = b - (n - c)
    BY <1>1
  <2>2. Len(res) = n /\ Len(k) = b - (n - c) /\ \A i \in 1 .. n : e[i] \in V => res[i] = e[i]
    BY <1>4, <2>1
  <2>3. \A i \in 1 .. n + 1 : i \in 1 .. n \/ i = n + 1
    BY <1>1
  <2>4. \A i \in 1 .. n + 1 : f[i] \in V => q[i] = f[i]
    BY <1>7, <2>2, <2>3
  <2> QED
    BY <1>7, <2>1, <2>2, <2>4
<1>11. [result |-> q, mine |-> k] \in Placing(S)
  BY <1>1, <1>3, <1>5 DEF Placing
<1>12. Dashboards!Only(q, V) = Dashboards!Only(f, V) /\ Dashboards!Only(q, W) \o k = m
  BY <1>4, <1>8, Zenon
<1>13. WellPlaced(S, hid, f, m, [result |-> q, mine |-> k])
  BY <1>1, <1>3, <1>7, <1>9, <1>10, <1>11, <1>12 DEF WellPlaced
<1> QED
  BY <1>5, <1>6, <1>13, Zenon

\* A panel that she sees gives its place to the next of hers.
LEMMA PlacedHers ==
    ASSUME NEW S, NEW hid, NEW m \in Seq(S), NEW e \in Seq(S), NEW x \in S, NEW r,
           WellPlaced(S, hid, e, m, r), x.id \notin hid
    PROVE  WellPlaced(S, hid, Append(e, x), m, Dashboards!PutNext(hid, r, x))
<1>1. PICK V, W, n, c, b : /\ V = HiddenOf(S, hid) /\ W = S \ V
                           /\ n \in Nat /\ c \in Nat /\ b \in Nat /\ n = Len(e) /\ c = Len(Dashboards!Only(e, V)) /\ b = Len(m)
  <2>1. Dashboards!Only(e, HiddenOf(S, hid)) \in Seq(S)
    BY OnlySteps, Zenon
  <2>2. Len(e) \in Nat /\ Len(m) \in Nat /\ Len(Dashboards!Only(e, HiddenOf(S, hid))) \in Nat
    BY <2>1
  <2> QED
    BY <2>2, Zenon
<1>0. /\ \A u \in Seq(S), y \in S : Dashboards!Only(Append(u, y), V) = IF y \in V THEN Append(Dashboards!Only(u, V), y) ELSE Dashboards!Only(u, V)
      /\ \A u \in Seq(S), y \in S : Dashboards!Only(Append(u, y), W) = IF y \in W THEN Append(Dashboards!Only(u, W), y) ELSE Dashboards!Only(u, W)
  BY OnlySteps, Zenon
<1>2. x \notin V
  BY <1>1 DEF HiddenOf
<1>3. PICK res \in Seq(S), k \in Seq(W) : res = r.result /\ k = r.mine /\ r = [result |-> res, mine |-> k]
  BY <1>1 DEF WellPlaced, Placing
<1>4. /\ Dashboards!Only(res, V) = Dashboards!Only(e, V) /\ Dashboards!Only(res, W) \o k = m
      /\ b >= n - c => Len(res) = n /\ Len(k) = b - (n - c) /\ \A i \in 1 .. n : e[i] \in V => res[i] = e[i]
  BY <1>1, <1>3 DEF WellPlaced
<1>5. PICK f \in Seq(S) : f = Append(e, x)
  <2>1. Append(e, x) \in Seq(S)
    OBVIOUS
  <2> QED
    BY <2>1, Zenon
<1>6. Len(f) = n + 1 /\ f[n + 1] = x /\ \A i \in 1 .. n : f[i] = e[i]
  BY <1>1, <1>5
<1>7. Dashboards!Only(f, V) = Dashboards!Only(e, V)
  BY <1>0, <1>2, <1>5, Zenon
<1>8. CASE k = <<>>
  <2>1. Dashboards!PutNext(hid, r, x) = r
    BY <1>3, <1>8 DEF Dashboards!PutNext
  <2>2. ~(b >= (n + 1) - c)
    <3>1. Len(k) = 0
      BY <1>8
    <3> QED
      BY <1>1, <1>4, <3>1
  <2>3. r \in Placing(S)
    BY DEF WellPlaced
  <2>4. WellPlaced(S, hid, f, m, r)
    BY <1>1, <1>3, <1>4, <1>6, <1>7, <2>2, <2>3 DEF WellPlaced
  <2> QED
    BY <1>5, <2>1, <2>4, Zenon
<1>9. CASE k # <<>>
  <2>1. PICK h \in W, l \in Seq(W) : h = Head(k) /\ l = Tail(k) /\ Len(l) = Len(k) - 1
    BY <1>3, <1>9, HeadTailProperties
  <2>2. h \in S /\ h \notin V /\ l \in Seq(S) /\ k \in Seq(S)
    BY <1>1, <1>3, <2>1
  <2>3. PICK q \in Seq(S) : q = Append(res, h)
    <3>1. Append(res, h) \in Seq(S)
      BY <2>2
    <3> QED
      BY <3>1, Zenon
  <2>4. Dashboards!PutNext(hid, r, x) = [result |-> q, mine |-> l]
    BY <1>3, <1>9, <2>1, <2>3 DEF Dashboards!PutNext
  <2>5. Len(q) = Len(res) + 1 /\ \A i \in 1 .. Len(res) : q[i] = res[i]
    BY <2>2, <2>3
  <2>6. Dashboards!Only(q, V) = Dashboards!Only(res, V) /\ Dashboards!Only(q, W) = Append(Dashboards!Only(res, W), h)
    BY <1>0, <2>1, <2>2, <2>3, Zenon
  <2>7. Dashboards!Only(q, W) \o l = m
    <3>1. Dashboards!Only(res, W) \in Seq(S)
      BY OnlySteps, Zenon
    <3>2. Append(Dashboards!Only(res, W), Head(k)) \o Tail(k) = Dashboards!Only(res, W) \o k
      BY <1>9, <2>2, <3>1, MoveHead
    <3> QED
      BY <1>4, <2>1, <2>6, <3>2, Zenon
  <2>8. b >= (n + 1) - c => /\ Len(q) = n + 1 /\ Len(l) = b - ((n + 1) - c)
                            /\ \A i \in 1 .. n + 1 : f[i] \in V => q[i] = f[i]
    <3> SUFFICES ASSUME b >= (n + 1) - c
                 PROVE  /\ Len(q) = n + 1 /\ Len(l) = b - ((n + 1) - c)
                        /\ \A i \in 1 .. n + 1 : f[i] \in V => q[i] = f[i]
      OBVIOUS
    <3>1. b >= n - c
      BY <1>1
    <3>2. Len(res) = n /\ Len(k) = b - (n - c) /\ \A i \in 1 .. n : e[i] \in V => res[i] = e[i]
      BY <1>4, <3>1
    <3>3. \A i \in 1 .. n + 1 : i \in 1 .. n \/ i = n + 1
      BY <1>1
    <3>4. \A i \in 1 .. n + 1 : f[i] \in V => q[i] = f[i]
      BY <1>2, <1>6, <2>5, <3>2, <3>3
    <3>5. Len(q) = n + 1 /\ Len(l) = b - ((n + 1) - c)
      BY <1>1, <2>1, <2>5, <3>2
    <3> QED
      BY <3>4, <3>5
  <2>9. [result |-> q, mine |-> l] \in Placing(S)
    BY <2>2 DEF Placing
  <2>10. Dashboards!Only(q, V) = Dashboards!Only(f, V)
    BY <1>4, <1>7, <2>6, Zenon
  <2>11. WellPlaced(S, hid, f, m, [result |-> q, mine |-> l])
    BY <1>1, <1>6, <1>7, <2>1, <2>7, <2>8, <2>9, <2>10 DEF WellPlaced
  <2> QED
    BY <1>5, <2>4, <2>11, Zenon
<1> QED
  BY <1>8, <1>9

\* Every panel is well placed.
LEMMA PlacedWell ==
    ASSUME NEW S, NEW hid, NEW m \in Seq(S \ HiddenOf(S, hid)), NEW e \in Seq(S)
    PROVE  WellPlaced(S, hid, e, m, Dashboards!Placed(hid, e, m))
<1> DEFINE G == {u \in Seq(S) : WellPlaced(S, hid, u, m, Dashboards!Placed(hid, u, m))}
<1>0. m \in Seq(S)
  BY DEF HiddenOf
<1>1. Dashboards!Placed(hid, <<>>, m) = Nothing(m)
  BY <1>0, PlacedFirst, Zenon
<1>2. \A s \in Seq(S), x \in S : Dashboards!Placed(hid, Append(s, x), m) = Dashboards!PutNext(hid, Dashboards!Placed(hid, s, m), x)
  BY <1>0, PlacedGoesOn
<1>3. <<>> \in G
  <2>1. WellPlaced(S, hid, <<>>, m, Nothing(m))
    BY PlacedBegins, Zenon
  <2>2. <<>> \in Seq(S)
    OBVIOUS
  <2> QED
    BY <1>1, <2>1, <2>2, Zenon
<1>4. ASSUME NEW u \in G, NEW x \in S PROVE Append(u, x) \in G
  <2>1. u \in Seq(S) /\ WellPlaced(S, hid, u, m, Dashboards!Placed(hid, u, m))
    BY <1>4
  <2>2. Append(u, x) \in Seq(S)
    BY <2>1
  <2>3. Dashboards!Placed(hid, Append(u, x), m) = Dashboards!PutNext(hid, Dashboards!Placed(hid, u, m), x)
    BY <1>2, <2>1, Zenon
  <2>4. WellPlaced(S, hid, Append(u, x), m, Dashboards!PutNext(hid, Dashboards!Placed(hid, u, m), x))
    <3>1. CASE x.id \in hid
      BY <1>0, <2>1, <3>1, PlacedHidden, Zenon
    <3>2. CASE x.id \notin hid
      BY <1>0, <2>1, <3>2, PlacedHers, Zenon
    <3> QED
      BY <3>1, <3>2
  <2> QED
    BY <2>2, <2>3, <2>4, Zenon
<1>5. G = Seq(S)
  <2> HIDE DEF G
  <2>1. G \in SUBSET Seq(S)
    BY DEF G
  <2> QED
    BY <1>3, <1>4, <2>1, AllSequences
<1> QED
  BY <1>5, Zenon

-----------------------------------------------------------------------------
(* Dashboards: what the pages and the requests hold.                       *)

Stored == [panels : Seq(Dashboards!Panel), open : BOOLEAN]
Views == [panels : Seq(Dashboards!Panel), open : BOOLEAN, hides : BOOLEAN]
PageStates == [shown : Views \cup {Null}, backup : Views \cup {Null}, editing : BOOLEAN, saving : BOOLEAN]
SaveRequests == [by : Dashboards!People \cup {Null}, kind : {"none", "apply", "save", "delete"}, sent : Views \cup {Null},
             read : Stored \cup {Null}, wide : BOOLEAN, step : {"free", "get", "write", "answer"}]

\* The bound is a number, a dashboard begins with finitely many panels, and Null is no dashboard.
DashboardsAssumption ==
    /\ MaxChanges \in Nat
    /\ FirstPanels \subseteq Panels /\ IsFiniteSet(FirstPanels)
    /\ Null \notin Stored /\ Null \notin Views

\* A request under way is somebody's; one that deletes has read a dashboard of which she sees all.
RequestOK(q) ==
    q.step # "free" =>
        /\ q.by \in Dashboards!People
        /\ IF q.kind = "delete" THEN q.sent = Null ELSE q.sent # Null
        /\ (q.kind = "delete" /\ q.step = "write")
           => q.read # Null /\ \A i \in DOMAIN q.read.panels : Dashboards!Sees(q.by, q.wide, q.read.panels[i])

WritersInv == \A s \in Saves : RequestOK(save[s])

\* TypeOK, with its sets named.
DashShapes ==
    /\ board \in Stored \cup {Null} /\ wide \in BOOLEAN /\ pages \in [Dashboards!People -> PageStates]
    /\ save \in [Saves -> SaveRequests] /\ changes \in 0 .. MaxChanges

DashboardInv == DashShapes /\ WritersInv

\* The shapes of the proofs are those of the module.
LEMMA DashTypes == DashShapes => Dashboards!TypeOK
  BY Zenon DEF DashShapes, Dashboards!TypeOK, Stored, Views, PageStates, SaveRequests

\* What a person is shown of a dashboard.
LEMMA ViewType ==
    ASSUME NEW x, NEW all, NEW d \in Stored
    PROVE  Dashboards!View(x, all, d) \in Views
<1>1. d.panels \in Seq(Dashboards!Panel) /\ d.open \in BOOLEAN
  BY DEF Stored
<1>2. Dashboards!Only(d.panels, {p \in Dashboards!Panel : Dashboards!Sees(x, all, p)}) \in Seq(Dashboards!Panel)
  BY <1>1, OnlySteps
<1>3. (\E i \in DOMAIN d.panels : ~Dashboards!Sees(x, all, d.panels[i])) \in BOOLEAN
  OBVIOUS
<1> QED
  BY <1>1, <1>2, <1>3, Zenon DEF Dashboards!View, Views

\* What is merged is a sequence of panels.
LEMMA MergeType ==
    ASSUME NEW x, NEW all, NEW existing \in Seq(Dashboards!Panel), NEW submitted \in Seq(Dashboards!Panel)
    PROVE  Dashboards!Merge(x, all, existing, submitted) \in Seq(Dashboards!Panel)
<1>1. \A h : Dashboards!Mine(h, submitted) \in Seq(Dashboards!Panel)
  BY OnlySteps DEF Dashboards!Mine
<1>2. \A h : Dashboards!Placed(h, existing, Dashboards!Mine(h, submitted)) \in Placing(Dashboards!Panel)
  BY <1>1, PlacedType, Zenon
<1>3. \A a \in Placing(Dashboards!Panel) : a.result \o a.mine \in Seq(Dashboards!Panel)
  BY DEF Placing
<1> QED
  BY <1>2, <1>3, Zenon DEF Dashboards!Merge

\* What a request stores is a dashboard.
LEMMA MergedType ==
    ASSUME NEW q \in SaveRequests, q.sent # Null, DashboardsAssumption
    PROVE  Dashboards!Merged(q) \in Stored
<1>1. q.sent \in Views /\ q.sent.panels \in Seq(Dashboards!Panel) /\ q.sent.open \in BOOLEAN
  BY DEF SaveRequests, Views
<1>2. q.read # Null => q.read.panels \in Seq(Dashboards!Panel)
  BY DEF SaveRequests, Stored
<1>3. (IF q.read = Null THEN q.sent.panels ELSE Dashboards!Merge(q.by, q.wide, q.read.panels, q.sent.panels)) \in Seq(Dashboards!Panel)
  BY <1>1, <1>2, MergeType
<1> QED
  BY <1>1, <1>3, Zenon DEF Dashboards!Merged, Stored

\* A page that is opened.
LEMMA PageType ==
    ASSUME NEW d \in Views \cup {Null}
    PROVE  Dashboards!Page(d) \in PageStates
  BY DEF Dashboards!Page, PageStates

\* A number that no request uses.
LEMMA FreeType == Dashboards!Free \in SaveRequests /\ RequestOK(Dashboards!Free)
  BY DEF Dashboards!Free, SaveRequests, RequestOK

\* The page is opened, or loaded again.
LEMMA LoadStep ==
    ASSUME DashboardInv, NEW x \in Dashboards!People, Dashboards!Load(x)
    PROVE  DashboardInv'
<1>1. PICK d : d = (IF board # Null /\ Dashboards!CanUse(x, wide, board) THEN Dashboards!View(x, wide, board) ELSE Null)
  OBVIOUS
<1>2. d \in Views \cup {Null}
  BY <1>1, ViewType DEF DashboardInv, DashShapes
<1>3. pages' = [pages EXCEPT ![x] = Dashboards!Page(d)] /\ UNCHANGED <<board, wide, save, changes>>
  BY <1>1, Zenon DEF Dashboards!Load
<1>4. pages' \in [Dashboards!People -> PageStates]
  BY <1>2, <1>3, PageType DEF DashboardInv, DashShapes
<1>5. DashShapes'
  BY <1>3, <1>4 DEF DashboardInv, DashShapes
<1> QED
  BY <1>3, <1>5 DEF DashboardInv, WritersInv

\* An edit begins, or is given up.
LEMMA EditSteps ==
    ASSUME DashboardInv, NEW x \in Dashboards!People, Dashboards!StartEdit(x) \/ Dashboards!CancelEdit(x)
    PROVE  DashboardInv'
<1>1. pages \in [Dashboards!People -> PageStates] /\ pages[x] \in PageStates
  BY DEF DashboardInv, DashShapes
<1>2. CASE Dashboards!StartEdit(x)
  <2>1. [pages[x] EXCEPT !.backup = pages[x].shown, !.editing = TRUE] \in PageStates
    BY <1>1 DEF PageStates
  <2>2. pages' = [pages EXCEPT ![x] = [pages[x] EXCEPT !.backup = pages[x].shown, !.editing = TRUE]]
    BY <1>1, <1>2 DEF Dashboards!StartEdit
  <2>3. pages' \in [Dashboards!People -> PageStates]
    BY <1>1, <2>1, <2>2
  <2>4. UNCHANGED <<board, wide, save, changes>>
    BY <1>2 DEF Dashboards!StartEdit
  <2>5. DashShapes'
    BY <2>3, <2>4 DEF DashboardInv, DashShapes
  <2> QED
    BY <2>4, <2>5 DEF DashboardInv, WritersInv
<1>3. CASE Dashboards!CancelEdit(x)
  <2>1. pages[x].backup \in Views \cup {Null} /\ pages[x].saving \in BOOLEAN
    BY <1>1 DEF PageStates
  <2>2. [Dashboards!Page(pages[x].backup) EXCEPT !.saving = pages[x].saving] \in PageStates
    BY <2>1 DEF Dashboards!Page, PageStates
  <2>3. pages' = [pages EXCEPT ![x] = [Dashboards!Page(pages[x].backup) EXCEPT !.saving = pages[x].saving]]
    BY <1>3, Zenon DEF Dashboards!CancelEdit
  <2>4. pages' \in [Dashboards!People -> PageStates]
    BY <1>1, <2>2, <2>3
  <2>5. UNCHANGED <<board, wide, save, changes>>
    BY <1>3 DEF Dashboards!CancelEdit
  <2>6. DashShapes'
    BY <2>4, <2>5 DEF DashboardInv, DashShapes
  <2> QED
    BY <2>5, <2>6 DEF DashboardInv, WritersInv
<1> QED
  BY <1>2, <1>3

\* A change counted.
LEMMA ChangesType ==
    ASSUME changes \in 0 .. MaxChanges, MaxChanges \in Nat, Dashboards!Changes
    PROVE  changes' \in 0 .. MaxChanges
  BY DEF Dashboards!Changes

\* A panel of the page is moved or taken away.
LEMMA RearrangeStep ==
    ASSUME DashboardsAssumption, DashboardInv, NEW x \in Dashboards!People, Dashboards!Rearrange(x)
    PROVE  DashboardInv'
<1>1. pages \in [Dashboards!People -> PageStates] /\ pages[x] \in PageStates
  BY DEF DashboardInv, DashShapes
<1>2. PICK d : d = pages[x].shown
  OBVIOUS
<1>3. d \in Views /\ d.panels \in Seq(Dashboards!Panel) /\ d.open \in BOOLEAN
  BY <1>1, <1>2 DEF Dashboards!Rearrange, PageStates, Views
<1>4. PICK e \in Views : pages' = [pages EXCEPT ![x].shown = e]
  <2>1. CASE \E i \in DOMAIN d.panels : \E moved \in {<<>>, <<d.panels[i]>>} :
                 Dashboards!Shows(x, [d EXCEPT !.panels = Dashboards!RemoveAt(d.panels, i) \o moved])
    <3>1. PICK i \in DOMAIN d.panels :
              \E moved \in {<<>>, <<d.panels[i]>>} : Dashboards!Shows(x, [d EXCEPT !.panels = Dashboards!RemoveAt(d.panels, i) \o moved])
      BY <2>1
    <3>0. PICK moved \in {<<>>, <<d.panels[i]>>} : Dashboards!Shows(x, [d EXCEPT !.panels = Dashboards!RemoveAt(d.panels, i) \o moved])
      BY <3>1
    <3>2. i \in 1 .. Len(d.panels) /\ d.panels[i] \in Dashboards!Panel /\ moved \in Seq(Dashboards!Panel)
      <4>1. i \in 1 .. Len(d.panels) /\ d.panels[i] \in Dashboards!Panel
        BY <1>3, <3>1
      <4>2. <<>> \in Seq(Dashboards!Panel) /\ <<d.panels[i]>> \in Seq(Dashboards!Panel)
        BY <4>1
      <4> QED
        BY <3>0, <4>1, <4>2, Zenon
    <3>3. /\ SubSeq(d.panels, 1, i - 1) \in Seq(Dashboards!Panel)
          /\ SubSeq(d.panels, i + 1, Len(d.panels)) \in Seq(Dashboards!Panel)
      BY <1>3, <3>2
    <3>4. Dashboards!RemoveAt(d.panels, i) \o moved \in Seq(Dashboards!Panel)
      BY <3>2, <3>3 DEF Dashboards!RemoveAt
    <3>5. [d EXCEPT !.panels = Dashboards!RemoveAt(d.panels, i) \o moved] \in Views
      BY <1>3, <3>4 DEF Views
    <3> QED
      BY <3>0, <3>5, Zenon DEF Dashboards!Shows
  <2>2. CASE Dashboards!Shows(x, [d EXCEPT !.open = ~d.open])
    <3>1. [d EXCEPT !.open = ~d.open] \in Views
      BY <1>3 DEF Views
    <3> QED
      BY <2>2, <3>1, Zenon DEF Dashboards!Shows
  <2>3. \/ \E i \in DOMAIN d.panels : \E moved \in {<<>>, <<d.panels[i]>>} :
                 Dashboards!Shows(x, [d EXCEPT !.panels = Dashboards!RemoveAt(d.panels, i) \o moved])
        \/ Dashboards!Shows(x, [d EXCEPT !.open = ~d.open])
    BY <1>2, Zenon DEF Dashboards!Rearrange
  <2> QED
    BY <2>1, <2>2, <2>3, Zenon
<1>5. pages' \in [Dashboards!People -> PageStates]
  BY <1>1, <1>4 DEF PageStates
<1>6. UNCHANGED <<board, wide, save>> /\ Dashboards!Changes
  BY DEF Dashboards!Rearrange
<1>7. changes' \in 0 .. MaxChanges
  BY <1>6, ChangesType DEF DashboardInv, DashShapes, DashboardsAssumption
<1>8. DashShapes'
  BY <1>5, <1>6, <1>7 DEF DashboardInv, DashShapes
<1> QED
  BY <1>6, <1>8 DEF DashboardInv, WritersInv

\* A request that leaves is as it should be.
LEMMA SendsOK ==
    ASSUME save \in [Saves -> SaveRequests], WritersInv, NEW x \in Dashboards!People, NEW kind, NEW d, Dashboards!Sends(x, kind, d),
           \/ kind \in {"apply", "save"} /\ d \in Views /\ d # Null
           \/ kind = "delete" /\ d = Null
    PROVE  save' \in [Saves -> SaveRequests] /\ WritersInv'
<1>1. PICK q : q = [Dashboards!Free EXCEPT !.by = x, !.kind = kind, !.sent = d, !.step = "get"]
  OBVIOUS
<1>2. q = [by |-> x, kind |-> kind, sent |-> d, read |-> Null, wide |-> FALSE, step |-> "get"]
  BY <1>1 DEF Dashboards!Free
<1>3. PICK s \in Saves : save' = [save EXCEPT ![s] = q]
  BY <1>1, Zenon DEF Dashboards!Sends
<1>4. q \in SaveRequests
  BY <1>2 DEF SaveRequests
<1>5. RequestOK(q)
  BY <1>2 DEF RequestOK
<1>6. save' \in [Saves -> SaveRequests]
  BY <1>3, <1>4
<1>7. \A r \in Saves : save'[r] = IF r = s THEN q ELSE save[r]
  BY <1>3
<1>8. \A r \in Saves : RequestOK(save'[r])
  BY <1>5, <1>7, Zenon DEF WritersInv
<1> QED
  BY <1>6, <1>8, Zenon DEF WritersInv

\* A panel is changed or added, and saved at once unless the page is being edited.
LEMMA ApplyStep ==
    ASSUME DashboardsAssumption, DashboardInv, NEW x \in Dashboards!People, Dashboards!ApplyPanel(x)
    PROVE  DashboardInv'
<1>1. pages \in [Dashboards!People -> PageStates] /\ pages[x] \in PageStates
  BY DEF DashboardInv, DashShapes
<1>2. PICK view \in Views : view = pages[x].shown
  BY <1>1 DEF Dashboards!ApplyPanel, PageStates
<1>3. view.panels \in Seq(Dashboards!Panel) /\ view.open \in BOOLEAN /\ view.hides \in BOOLEAN
  BY DEF Views
<1>4. PICK id, a, d :
          /\ id \in Panels /\ a = [id |-> id, by |-> x]
          /\ d = IF id \in Dashboards!IdsOf(view.panels)
                 THEN [view EXCEPT !.panels = [i \in DOMAIN view.panels |->
                                                   IF view.panels[i].id = id THEN a ELSE view.panels[i]]]
                 ELSE [view EXCEPT !.panels = Append(view.panels, a)]
          /\ pages' = [pages EXCEPT ![x].shown = d, ![x].saving = pages[x].saving \/ ~pages[x].editing]
          /\ IF pages[x].editing THEN UNCHANGED save ELSE Dashboards!Sends(x, "apply", d)
  <2>1. PICK c \in Panels :
           LET former == pages[x].shown
               applied == [id |-> c, by |-> x]
               after == IF c \in Dashboards!IdsOf(former.panels)
                        THEN [former EXCEPT !.panels = [i \in DOMAIN former.panels |->
                                                           IF former.panels[i].id = c THEN applied ELSE former.panels[i]]]
                        ELSE [former EXCEPT !.panels = Append(former.panels, applied)]
           IN  /\ pages' = [pages EXCEPT ![x].shown = after, ![x].saving = pages[x].saving \/ ~pages[x].editing]
               /\ IF pages[x].editing THEN UNCHANGED save ELSE Dashboards!Sends(x, "apply", after)
    BY Zenon DEF Dashboards!ApplyPanel
  <2> QED
    BY <1>2, <2>1, Zenon
<1>5. a \in Dashboards!Panel
  BY <1>4 DEF Dashboards!Panel
<1>6. d \in Views
  <2>1. [i \in DOMAIN view.panels |-> IF view.panels[i].id = id THEN a ELSE view.panels[i]] \in Seq(Dashboards!Panel)
    BY <1>3, <1>5
  <2>2. Append(view.panels, a) \in Seq(Dashboards!Panel)
    BY <1>3, <1>5
  <2>3. \A ps \in Seq(Dashboards!Panel) : [view EXCEPT !.panels = ps] \in Views
    BY DEF Views
  <2> QED
    BY <1>4, <2>1, <2>2, <2>3, Zenon
<1>7. d # Null
  BY <1>6 DEF DashboardsAssumption
<1>8. pages' \in [Dashboards!People -> PageStates]
  <2>1. (pages[x].saving \/ ~pages[x].editing) \in BOOLEAN
    OBVIOUS
  <2>2. [pages[x] EXCEPT !.shown = d, !.saving = pages[x].saving \/ ~pages[x].editing] \in PageStates
    BY <1>1, <1>6, <2>1 DEF PageStates
  <2>3. pages' = [pages EXCEPT ![x] = [pages[x] EXCEPT !.shown = d, !.saving = pages[x].saving \/ ~pages[x].editing]]
    BY <1>4, Zenon
  <2> QED
    BY <1>1, <2>2, <2>3
<1>9. save' \in [Saves -> SaveRequests] /\ WritersInv'
  <2>1. save \in [Saves -> SaveRequests] /\ WritersInv
    BY DEF DashboardInv, DashShapes
  <2>2. CASE pages[x].editing
    BY <1>4, <2>1, <2>2 DEF WritersInv
  <2>3. CASE ~pages[x].editing
    <3>1. Dashboards!Sends(x, "apply", d)
      BY <1>4, <2>3
    <3> QED
      BY <1>6, <1>7, <2>1, <3>1, SendsOK
  <2> QED
    BY <2>2, <2>3
<1>10. UNCHANGED <<board, wide>> /\ Dashboards!Changes
  BY DEF Dashboards!ApplyPanel
<1>11. changes' \in 0 .. MaxChanges
  BY <1>10, ChangesType DEF DashboardInv, DashShapes, DashboardsAssumption
<1> QED
  BY <1>8, <1>9, <1>10, <1>11 DEF DashboardInv, DashShapes

\* The page is saved.
LEMMA SaveStep ==
    ASSUME DashboardsAssumption, DashboardInv, NEW x \in Dashboards!People, Dashboards!Save(x)
    PROVE  DashboardInv'
<1>1. pages \in [Dashboards!People -> PageStates] /\ pages[x] \in PageStates
  BY DEF DashboardInv, DashShapes
<1>2. PICK d : d = pages[x].shown
  OBVIOUS
<1>3. d \in Views /\ d # Null
  BY <1>1, <1>2 DEF Dashboards!Save, PageStates
<1>4. /\ Dashboards!Sends(x, "save", d) /\ pages' = [pages EXCEPT ![x].saving = TRUE]
      /\ UNCHANGED <<board, wide, changes>>
  BY <1>2, Zenon DEF Dashboards!Save
<1>5. save' \in [Saves -> SaveRequests] /\ WritersInv'
  <2>1. save \in [Saves -> SaveRequests] /\ WritersInv
    BY DEF DashboardInv, DashShapes
  <2> QED
    BY <1>3, <1>4, <2>1, SendsOK
<1>6. pages' \in [Dashboards!People -> PageStates]
  BY <1>1, <1>4 DEF PageStates
<1> QED
  BY <1>4, <1>5, <1>6 DEF DashboardInv, DashShapes

\* The dashboard is deleted from the page of somebody from whom nothing is hidden.
LEMMA DeleteStep ==
    ASSUME DashboardsAssumption, DashboardInv, NEW x \in Dashboards!People, Dashboards!DeleteBoard(x)
    PROVE  DashboardInv'
<1>1. Dashboards!Sends(x, "delete", Null) /\ UNCHANGED <<board, wide, pages>> /\ Dashboards!Changes
  BY DEF Dashboards!DeleteBoard
<1>2. save' \in [Saves -> SaveRequests] /\ WritersInv'
  <2>1. save \in [Saves -> SaveRequests] /\ WritersInv
    BY DEF DashboardInv, DashShapes
  <2> QED
    BY <1>1, <2>1, SendsOK
<1>3. changes' \in 0 .. MaxChanges
  BY <1>1, ChangesType DEF DashboardInv, DashShapes, DashboardsAssumption
<1> QED
  BY <1>1, <1>2, <1>3 DEF DashboardInv, DashShapes

\* The profile is widened or narrowed.
LEMMA ProfileStep ==
    ASSUME DashboardsAssumption, DashboardInv, Dashboards!ChangeProfile
    PROVE  DashboardInv'
<1>1. wide' \in BOOLEAN /\ UNCHANGED <<board, pages, save>> /\ Dashboards!Changes
  BY DEF Dashboards!ChangeProfile, DashboardInv, DashShapes
<1>2. changes' \in 0 .. MaxChanges
  BY <1>1, ChangesType DEF DashboardInv, DashShapes, DashboardsAssumption
<1> QED
  BY <1>1, <1>2 DEF DashboardInv, DashShapes, WritersInv

\* One request that changes.
LEMMA OneRequest ==
    ASSUME save \in [Saves -> SaveRequests], WritersInv, NEW s \in Saves, NEW q \in SaveRequests, RequestOK(q),
           save' = [save EXCEPT ![s] = q]
    PROVE  save' \in [Saves -> SaveRequests] /\ WritersInv'
<1>1. save' \in [Saves -> SaveRequests]
  OBVIOUS
<1>2. \A r \in Saves : save'[r] = IF r = s THEN q ELSE save[r]
  OBVIOUS
<1>3. \A r \in Saves : RequestOK(save'[r])
  BY <1>2, Zenon DEF WritersInv
<1> QED
  BY <1>1, <1>3, Zenon DEF WritersInv

\* A page that saves no more.
LEMMA Saved ==
    ASSUME pages \in [Dashboards!People -> PageStates], NEW x \in Dashboards!People, NEW b,
           pages' = [pages EXCEPT ![x].saving = pages[x].saving /\ b]
    PROVE  pages' \in [Dashboards!People -> PageStates]
<1>1. pages[x] \in PageStates /\ (pages[x].saving /\ b) \in BOOLEAN
  OBVIOUS
<1>2. [pages[x] EXCEPT !.saving = pages[x].saving /\ b] \in PageStates
  BY <1>1 DEF PageStates
<1>3. pages' = [pages EXCEPT ![x] = [pages[x] EXCEPT !.saving = pages[x].saving /\ b]]
  BY Zenon
<1> QED
  BY <1>2, <1>3

\* A request is refused or goes on; a deletion that goes on has read a dashboard of which its author sees all.
LEMMA GetStep ==
    ASSUME DashboardsAssumption, DashboardInv, NEW s \in Saves, Dashboards!Get(s)
    PROVE  DashboardInv'
<1>1. /\ save \in [Saves -> SaveRequests] /\ WritersInv /\ board \in Stored \cup {Null} /\ wide \in BOOLEAN
      /\ pages \in [Dashboards!People -> PageStates]
  BY DEF DashboardInv, DashShapes
<1>2. PICK q \in SaveRequests : q = save[s]
  BY <1>1
<1>3. RequestOK(q) /\ q.step = "get"
  BY <1>2 DEF WritersInv, DashboardInv, Dashboards!Get
<1>4. q.by \in Dashboards!People
  BY <1>3 DEF RequestOK
<1>5. UNCHANGED <<board, wide, changes>>
  BY DEF Dashboards!Get
<1>6. CASE Dashboards!Refused(q)
  <2>1. save' = [save EXCEPT ![s] = Dashboards!Free]
    BY <1>2, <1>6, Zenon DEF Dashboards!Get
  <2>2. pages' = [pages EXCEPT ![q.by].saving = pages[q.by].saving /\ q.kind = "delete"]
    BY <1>2, <1>6, Zenon DEF Dashboards!Get
  <2>3. save' \in [Saves -> SaveRequests] /\ WritersInv'
    BY <1>1, <2>1, FreeType, OneRequest
  <2>4. pages' \in [Dashboards!People -> PageStates]
    BY <1>1, <1>4, <2>2, Saved
  <2> QED
    BY <1>5, <2>3, <2>4 DEF DashboardInv, DashShapes
<1>7. CASE ~Dashboards!Refused(q)
  <2>1. PICK r : r = [q EXCEPT !.read = board, !.wide = wide, !.step = "write"]
    OBVIOUS
  <2>2. save' = [save EXCEPT ![s] = r] /\ UNCHANGED pages
    BY <1>2, <1>7, <2>1, Zenon DEF Dashboards!Get
  <2>3. /\ r \in SaveRequests /\ r.by = q.by /\ r.kind = q.kind /\ r.sent = q.sent /\ r.read = board /\ r.wide = wide
        /\ r.step = "write"
    BY <1>1, <2>1 DEF SaveRequests
  <2>4. RequestOK(r)
    <3>1. IF r.kind = "delete" THEN r.sent = Null ELSE r.sent # Null
      BY <1>3, <2>3 DEF RequestOK
    <3>2. r.kind = "delete" => r.read # Null /\ \A i \in DOMAIN r.read.panels : Dashboards!Sees(r.by, r.wide, r.read.panels[i])
      <4>1. q.kind = "delete" => board # Null /\ \A i \in DOMAIN board.panels : Dashboards!Sees(q.by, wide, board.panels[i])
        BY <1>7, Zenon DEF Dashboards!Refused
      <4> QED
        BY <2>3, <4>1, Zenon
    <3> QED
      BY <1>4, <2>3, <3>1, <3>2, Zenon DEF RequestOK
  <2>5. save' \in [Saves -> SaveRequests] /\ WritersInv'
    BY <1>1, <2>2, <2>3, <2>4, OneRequest
  <2> QED
    BY <1>1, <1>5, <2>2, <2>5 DEF DashboardInv, DashShapes
<1> QED
  BY <1>6, <1>7

\* A request writes.
LEMMA WriteStep ==
    ASSUME DashboardsAssumption, DashboardInv, NEW s \in Saves, Dashboards!Write(s)
    PROVE  DashboardInv'
<1>1. save \in [Saves -> SaveRequests] /\ WritersInv
  BY DEF DashboardInv, DashShapes
<1>2. PICK q \in SaveRequests : q = save[s]
  BY <1>1
<1>3. RequestOK(q) /\ q.step = "write"
  BY <1>2 DEF WritersInv, DashboardInv, Dashboards!Write
<1>4. q.by \in Dashboards!People /\ (q.kind = "delete" => q.sent = Null) /\ (q.kind # "delete" => q.sent # Null)
  BY <1>3 DEF RequestOK
<1>5. UNCHANGED <<wide, pages, changes>>
  BY DEF Dashboards!Write
<1>6. CASE q.kind = "delete"
  <2>1. board' = Null
    BY <1>2, <1>6, Zenon DEF Dashboards!Write
  <2>2. PICK r : r = [q EXCEPT !.step = "answer", !.read = Null, !.wide = FALSE]
    OBVIOUS
  <2>3. save' = [save EXCEPT ![s] = r] \/ save' = [save EXCEPT ![s] = Dashboards!Free]
    BY <1>2, <1>6, <2>2, Zenon DEF Dashboards!Write
  <2>4. r \in SaveRequests /\ RequestOK(r)
    BY <1>4, <1>6, <2>2 DEF SaveRequests, RequestOK
  <2>5. save' \in [Saves -> SaveRequests] /\ WritersInv'
    BY <1>1, <2>3, <2>4, FreeType, OneRequest
  <2> QED
    BY <1>5, <2>1, <2>5 DEF DashboardInv, DashShapes
<1>7. CASE q.kind # "delete"
  <2>1. Dashboards!Merged(q) \in Stored
    BY <1>4, <1>7, MergedType
  <2>2. PICK m \in Stored, v \in Views : m = Dashboards!Merged(q) /\ v = Dashboards!View(q.by, q.wide, m)
    BY <2>1, ViewType
  <2>3. board' = m
    BY <1>2, <1>7, <2>2, Zenon DEF Dashboards!Write
  <2>4. PICK r : r = [q EXCEPT !.step = "answer", !.sent = v, !.read = Null, !.wide = FALSE]
    OBVIOUS
  <2>5. save' = [save EXCEPT ![s] = r]
    BY <1>2, <1>7, <2>2, <2>4, Zenon DEF Dashboards!Write
  <2>6. v # Null
    BY DEF DashboardsAssumption
  <2>7. r \in SaveRequests /\ RequestOK(r)
    BY <1>4, <1>7, <2>4, <2>6 DEF SaveRequests, RequestOK
  <2>8. save' \in [Saves -> SaveRequests] /\ WritersInv'
    BY <1>1, <2>5, <2>7, OneRequest
  <2> QED
    BY <1>5, <2>3, <2>8 DEF DashboardInv, DashShapes
<1> QED
  BY <1>6, <1>7

\* The answer reaches the page, or is lost.
LEMMA AnswerStep ==
    ASSUME DashboardsAssumption, DashboardInv, NEW s \in Saves, Dashboards!Answer(s)
    PROVE  DashboardInv'
<1>1. save \in [Saves -> SaveRequests] /\ WritersInv /\ pages \in [Dashboards!People -> PageStates]
  BY DEF DashboardInv, DashShapes
<1>2. PICK q \in SaveRequests : q = save[s]
  BY <1>1
<1>3. RequestOK(q) /\ q.step = "answer"
  BY <1>2 DEF WritersInv, DashboardInv, Dashboards!Answer
<1>4. q.by \in Dashboards!People /\ q.sent \in Views \cup {Null}
  BY <1>3 DEF RequestOK, SaveRequests
<1>5. save' = [save EXCEPT ![s] = Dashboards!Free] /\ UNCHANGED <<board, wide, changes>>
  BY Zenon DEF Dashboards!Answer
<1>6. \/ pages' = [pages EXCEPT ![q.by].saving = pages[q.by].saving /\ q.kind = "delete"]
      \/ pages' = [pages EXCEPT ![q.by] = IF q.kind = "apply" THEN [pages[q.by] EXCEPT !.shown = q.sent, !.saving = FALSE]
                                          ELSE Dashboards!Page(q.sent)]
  BY <1>2, Zenon DEF Dashboards!Answer
<1>7. pages' \in [Dashboards!People -> PageStates]
  <2>1. pages[q.by] \in PageStates
    BY <1>1, <1>4
  <2>2. [pages[q.by] EXCEPT !.shown = q.sent, !.saving = FALSE] \in PageStates
    BY <1>4, <2>1 DEF PageStates
  <2>3. Dashboards!Page(q.sent) \in PageStates
    BY <1>4, PageType
  <2>4. CASE pages' = [pages EXCEPT ![q.by].saving = pages[q.by].saving /\ q.kind = "delete"]
    BY <1>1, <1>4, <2>4, Saved
  <2>5. PICK p \in PageStates : p = IF q.kind = "apply" THEN [pages[q.by] EXCEPT !.shown = q.sent, !.saving = FALSE] ELSE Dashboards!Page(q.sent)
    BY <2>2, <2>3, Zenon
  <2>6. CASE pages' = [pages EXCEPT ![q.by] = p]
    BY <1>1, <2>6
  <2> QED
    BY <1>6, <2>4, <2>5, <2>6, Zenon
<1>8. save' \in [Saves -> SaveRequests] /\ WritersInv'
  BY <1>1, <1>5, FreeType, OneRequest
<1> QED
  BY <1>5, <1>7, <1>8 DEF DashboardInv, DashShapes

\* In the beginning the panels are placed in some order and nobody has done anything.
LEMMA DashBegins ==
    ASSUME DashboardsAssumption, Dashboards!Init
    PROVE  DashboardInv
<1>1. PICK ids \in Dashboards!SetToSeqs(FirstPanels) :
          board = [panels |-> [i \in DOMAIN ids |-> [id |-> ids[i], by |-> Null]], open |-> TRUE]
  BY DEF Dashboards!Init
<1>2. PICK n \in Nat : n = Dashboards!Cardinality(FirstPanels)
  <2>1. Dashboards!Cardinality(FirstPanels) = Cardinality(FirstPanels)
    BY DEF Dashboards!Cardinality, Cardinality
  <2> QED
    BY <2>1, FS_CardinalityType DEF DashboardsAssumption
<1>3. ids \in [1 .. n -> FirstPanels]
  BY <1>2 DEF Dashboards!SetToSeqs
<1>4. \A i \in 1 .. n : [id |-> ids[i], by |-> Null] \in Dashboards!Panel
  BY <1>3 DEF Dashboards!Panel, DashboardsAssumption
<1>5. [i \in 1 .. n |-> [id |-> ids[i], by |-> Null]] \in Seq(Dashboards!Panel)
  <2>1. PICK P : P = Dashboards!Panel
    OBVIOUS
  <2>2. PICK g : g = [i \in 1 .. n |-> [id |-> ids[i], by |-> Null]]
    OBVIOUS
  <2>3. g \in [1 .. n -> P]
    BY <1>4, <2>1, <2>2, Zenon
  <2>4. g \in Seq(P)
    BY <2>3
  <2> QED
    BY <2>1, <2>2, <2>4, Zenon
<1>6. board \in Stored
  BY <1>1, <1>3, <1>5 DEF Stored
<1>7. wide \in BOOLEAN /\ pages = [x \in Dashboards!People |-> Dashboards!Page(Null)] /\ save = [s \in Saves |-> Dashboards!Free] /\ changes = 0
  BY DEF Dashboards!Init
<1>8. Dashboards!Page(Null) \in PageStates
  BY PageType
<1>9. pages \in [Dashboards!People -> PageStates] /\ save \in [Saves -> SaveRequests] /\ WritersInv
  BY <1>7, <1>8, FreeType DEF WritersInv
<1>10. 0 \in 0 .. MaxChanges
  BY DEF DashboardsAssumption
<1> QED
  BY <1>6, <1>7, <1>9, <1>10 DEF DashboardInv, DashShapes

\* Every step of the part keeps the invariant.
LEMMA DashSteps ==
    ASSUME DashboardsAssumption, DashboardInv, Dashboards!Next
    PROVE  DashboardInv'
<1>1. CASE \E x \in Dashboards!People : Dashboards!Load(x) \/ Dashboards!StartEdit(x) \/ Dashboards!CancelEdit(x) \/ Dashboards!Rearrange(x) \/ Dashboards!ApplyPanel(x) \/ Dashboards!Save(x) \/ Dashboards!DeleteBoard(x)
  BY <1>1, LoadStep, EditSteps, RearrangeStep, ApplyStep, SaveStep, DeleteStep, Zenon
<1>2. CASE Dashboards!ChangeProfile
  BY <1>2, ProfileStep
<1>3. CASE \E s \in Saves : Dashboards!Get(s) \/ Dashboards!Write(s) \/ Dashboards!Answer(s)
  BY <1>3, GetStep, WriteStep, AnswerStep, Zenon
<1> QED
  BY <1>1, <1>2, <1>3, Zenon DEF Dashboards!Next

-----------------------------------------------------------------------------
(* Dashboards: what a write keeps.                                         *)

\* The panels that the author of a request does not see, by their identifiers.
UnseenIds(q) == Dashboards!IdsOf(Dashboards!Only(Dashboards!PanelsOf(board), {p \in Dashboards!Panel : ~Dashboards!Sees(q.by, q.wide, p)}))

\* b are the panels before, n those after, hers those of her page, V the panels that are hidden.
KeepsHidden(b, n, hers, V) ==
    /\ Dashboards!Only(n, V) = Dashboards!Only(b, V)
    /\ Dashboards!Only(n, Dashboards!Panel \ V) = Dashboards!Only(hers, Dashboards!Panel \ V)
    /\ Len(Dashboards!Only(hers, Dashboards!Panel \ V)) >= Len(b) - Len(Dashboards!Only(b, V)) => \A i \in DOMAIN b : b[i] \in V => n[i] = b[i]

\* Nothing is hidden, and what was sent is stored.
LEMMA NothingHidden ==
    ASSUME NEW b \in Seq(Dashboards!Panel), NEW n \in Seq(Dashboards!Panel)
    PROVE  KeepsHidden(b, n, n, {})
<1>1. Dashboards!Only(b, {}) = <<>> /\ Dashboards!Only(n, {}) = <<>>
  BY OnlyNone
<1> QED
  BY <1>1, Zenon DEF KeepsHidden

\* Nothing is hidden from someone who sees all that there is.
LEMMA SeesAll ==
    ASSUME NEW b \in Seq(Dashboards!Panel), NEW x, NEW all, \A i \in DOMAIN b : Dashboards!Sees(x, all, b[i])
    PROVE  Dashboards!IdsOf(Dashboards!Only(b, {p \in Dashboards!Panel : ~Dashboards!Sees(x, all, p)})) = {}
<1>1. PICK seen, unseen : seen = {p \in Dashboards!Panel : Dashboards!Sees(x, all, p)} /\ unseen = {p \in Dashboards!Panel : ~Dashboards!Sees(x, all, p)}
  OBVIOUS
<1>2. seen \cap unseen = {}
  BY <1>1
<1>3. b \in Seq(seen)
  <2>1. \A i \in 1 .. Len(b) : b[i] \in Dashboards!Panel /\ Dashboards!Sees(x, all, b[i])
    OBVIOUS
  <2>2. \A i \in 1 .. Len(b) : b[i] \in seen
    BY <1>1, <2>1, Zenon
  <2>3. Len(b) \in Nat /\ b = [i \in 1 .. Len(b) |-> b[i]]
    OBVIOUS
  <2> QED
    BY <2>2, <2>3
<1>4. Dashboards!Only(b, unseen) = <<>>
  BY <1>2, <1>3, OnlyNone
<1>5. Dashboards!IdsOf(<<>>) = {}
  BY DEF Dashboards!IdsOf
<1> QED
  BY <1>1, <1>4, <1>5

\* The merge for someone who does not see all.
LEMMA MergeKeeps ==
    ASSUME NEW b \in Seq(Dashboards!Panel), NEW hers \in Seq(Dashboards!Panel), NEW x, NEW all, x \notin Administrators,
           NEW hid, hid = Dashboards!IdsOf(Dashboards!Only(b, {p \in Dashboards!Panel : ~Dashboards!Sees(x, all, p)}))
    PROVE  KeepsHidden(b, Dashboards!Merge(x, all, b, hers), hers, HiddenOf(Dashboards!Panel, hid))
<1>1. PICK V, W : V = HiddenOf(Dashboards!Panel, hid) /\ W = Dashboards!Panel \ V
  OBVIOUS
<1>2. W = {p \in Dashboards!Panel : p.id \notin hid} /\ V \cap W = {} /\ W \subseteq Dashboards!Panel /\ Dashboards!Panel \cap W = W
  BY <1>1 DEF HiddenOf
<1>3. PICK m : m = Dashboards!Only(hers, W)
  OBVIOUS
<1>4. m \in Seq(W) /\ m \in Seq(Dashboards!Panel) /\ Dashboards!Mine(hid, hers) = m
  <2>1. m \in Seq(W)
    BY <1>2, <1>3, OnlyOf
  <2>2. m \in Seq(Dashboards!Panel)
    BY <1>2, <2>1, SeqMonotonic, Zenon
  <2>3. Dashboards!Mine(hid, hers) = m
    BY <1>2, <1>3, Zenon DEF Dashboards!Mine
  <2> QED
    BY <2>1, <2>2, <2>3
<1>5. PICK r : r = Dashboards!Placed(hid, b, m)
  OBVIOUS
<1>6. WellPlaced(Dashboards!Panel, hid, b, m, r)
  <2>1. m \in Seq(Dashboards!Panel \ HiddenOf(Dashboards!Panel, hid))
    BY <1>1, <1>4
  <2> QED
    BY <1>5, <2>1, PlacedWell, Zenon
<1>7. PICK res \in Seq(Dashboards!Panel), k \in Seq(W) : res = r.result /\ k = r.mine
  BY <1>1, <1>6 DEF WellPlaced, Placing
<1>8. /\ Dashboards!Only(res, V) = Dashboards!Only(b, V) /\ Dashboards!Only(res, W) \o k = m
      /\ Len(m) >= Len(b) - Len(Dashboards!Only(b, V)) => Len(res) = Len(b) /\ \A i \in 1 .. Len(b) : b[i] \in V => res[i] = b[i]
  BY <1>1, <1>6, <1>7 DEF WellPlaced
<1>9. PICK n : n = res \o k
  OBVIOUS
<1>10. Dashboards!Merge(x, all, b, hers) = n
  BY <1>4, <1>5, <1>7, <1>9, Zenon DEF Dashboards!Merge
<1>11. k \in Seq(Dashboards!Panel)
  BY <1>2, <1>7, SeqMonotonic, Zenon
<1>12. Dashboards!Only(n, V) = Dashboards!Only(b, V)
  <2>1. Dashboards!Only(n, V) = Dashboards!Only(res, V) \o Dashboards!Only(k, V)
    BY <1>9, <1>11, OnlyJoin
  <2>2. Dashboards!Only(k, V) = <<>>
    BY <1>2, <1>7, OnlyNone
  <2>3. Dashboards!Only(res, V) \in Seq(Dashboards!Panel)
    BY OnlySteps
  <2>4. Dashboards!Only(res, V) \o <<>> = Dashboards!Only(res, V)
    BY <2>3, ConcatEmptySeq
  <2> QED
    BY <1>8, <2>1, <2>2, <2>4, Zenon
<1>13. Dashboards!Only(n, W) = m
  <2>1. Dashboards!Only(n, W) = Dashboards!Only(res, W) \o Dashboards!Only(k, W)
    BY <1>9, <1>11, OnlyJoin
  <2>2. Dashboards!Only(k, W) = k
    BY <1>7, OnlyAll
  <2> QED
    BY <1>8, <2>1, <2>2, Zenon
<1>14. Len(m) >= Len(b) - Len(Dashboards!Only(b, V)) => \A i \in DOMAIN b : b[i] \in V => n[i] = b[i]
  <2> SUFFICES ASSUME Len(m) >= Len(b) - Len(Dashboards!Only(b, V)), NEW i \in DOMAIN b, b[i] \in V
               PROVE  n[i] = b[i]
    OBVIOUS
  <2>1. i \in 1 .. Len(b) /\ Len(res) = Len(b) /\ res[i] = b[i]
    BY <1>8
  <2>2. n[i] = res[i]
    BY <1>9, <1>11, <2>1
  <2> QED
    BY <2>1, <2>2
<1> QED
  BY <1>1, <1>3, <1>10, <1>12, <1>13, <1>14, Zenon DEF KeepsHidden

\* A write keeps what its author does not see.
LEMMA WriteKeeps ==
    ASSUME DashboardsAssumption, DashboardInv, NEW s \in Saves, Dashboards!Write(s), save[s].read = board
    PROVE  KeepsHidden(Dashboards!PanelsOf(board), Dashboards!PanelsOf(board'), Dashboards!PanelsOf(save[s].sent), HiddenOf(Dashboards!Panel, UnseenIds(save[s])))
<1>1. save \in [Saves -> SaveRequests] /\ WritersInv /\ board \in Stored \cup {Null}
  BY DEF DashboardInv, DashShapes
<1>2. PICK q, b : q \in SaveRequests /\ q = save[s] /\ b = Dashboards!PanelsOf(board)
  BY <1>1
<1>3. RequestOK(q) /\ q.step = "write" /\ q.read = board
  BY <1>1, <1>2 DEF WritersInv, Dashboards!Write
<1>4. q.by \in Dashboards!People /\ (q.kind = "delete" => q.sent = Null) /\ (q.kind # "delete" => q.sent # Null)
  BY <1>3 DEF RequestOK
<1>5. b \in Seq(Dashboards!Panel) /\ (board = Null => b = <<>>) /\ (board # Null => b = board.panels)
  BY <1>1, <1>2 DEF Dashboards!PanelsOf, Stored
<1>6. PICK hid : hid = UnseenIds(q)
  OBVIOUS
<1>7. hid = Dashboards!IdsOf(Dashboards!Only(b, {p \in Dashboards!Panel : ~Dashboards!Sees(q.by, q.wide, p)}))
  BY <1>2, <1>6, Zenon DEF UnseenIds
<1>8. HiddenOf(Dashboards!Panel, {}) = {}
  BY DEF HiddenOf
<1>9. CASE q.kind = "delete"
  <2>1. board' = Null
    BY <1>2, <1>9, Zenon DEF Dashboards!Write
  <2>2. \A i \in DOMAIN b : Dashboards!Sees(q.by, q.wide, b[i])
    BY <1>3, <1>5, <1>9 DEF RequestOK
  <2>3. hid = {}
    BY <1>5, <1>7, <2>2, SeesAll
  <2>4. Dashboards!PanelsOf(board') = <<>> /\ Dashboards!PanelsOf(q.sent) = <<>>
    BY <1>4, <1>9, <2>1, Zenon DEF Dashboards!PanelsOf
  <2>5. <<>> \in Seq(Dashboards!Panel)
    OBVIOUS
  <2>6. KeepsHidden(b, <<>>, <<>>, {})
    BY <1>5, <2>5, NothingHidden, Zenon
  <2> QED
    BY <1>2, <1>6, <1>8, <2>3, <2>4, <2>6, Zenon
<1>10. CASE q.kind # "delete"
  <2>1. board' = Dashboards!Merged(q)
    BY <1>2, <1>10, Zenon DEF Dashboards!Write
  <2>2. q.sent \in Views /\ q.sent # Null
    BY <1>2, <1>4, <1>10 DEF SaveRequests
  <2>3. PICK hers \in Seq(Dashboards!Panel) : hers = q.sent.panels
    BY <2>2 DEF Views
  <2>4. Dashboards!PanelsOf(q.sent) = hers
    BY <2>2, <2>3 DEF Dashboards!PanelsOf
  <2>5. Dashboards!Merged(q) # Null
    BY <1>2, <2>2, MergedType DEF DashboardsAssumption
  <2>6. Dashboards!PanelsOf(board') = IF board = Null THEN hers ELSE Dashboards!Merge(q.by, q.wide, b, hers)
    <3>1. Dashboards!Merged(q).panels = IF q.read = Null THEN q.sent.panels ELSE Dashboards!Merge(q.by, q.wide, q.read.panels, q.sent.panels)
      BY DEF Dashboards!Merged
    <3>2. Dashboards!PanelsOf(board') = Dashboards!Merged(q).panels
      BY <2>1, <2>5, Zenon DEF Dashboards!PanelsOf
    <3> QED
      BY <1>3, <1>5, <2>3, <3>1, <3>2, Zenon
  <2>7. CASE board = Null \/ q.by \in Administrators
    <3>1. \A i \in DOMAIN b : Dashboards!Sees(q.by, q.wide, b[i])
      BY <1>5, <2>7 DEF Dashboards!Sees
    <3>2. hid = {}
      BY <1>5, <1>7, <3>1, SeesAll
    <3>3. Dashboards!PanelsOf(board') = hers
      BY <2>6, <2>7, Zenon DEF Dashboards!Merge
    <3>4. KeepsHidden(b, hers, hers, {})
      BY <1>5, NothingHidden
    <3> QED
      BY <1>2, <1>6, <1>8, <2>4, <3>2, <3>3, <3>4, Zenon
  <2>8. CASE board # Null /\ q.by \notin Administrators
    <3>1. Dashboards!PanelsOf(board') = Dashboards!Merge(q.by, q.wide, b, hers)
      BY <2>6, <2>8
    <3>2. KeepsHidden(b, Dashboards!Merge(q.by, q.wide, b, hers), hers, HiddenOf(Dashboards!Panel, hid))
      BY <1>5, <1>7, <2>8, MergeKeeps
    <3> QED
      BY <1>2, <1>6, <2>4, <3>1, <3>2, Zenon
  <2> QED
    BY <2>7, <2>8
<1> QED
  BY <1>9, <1>10

\* No other step answers a request that is about to write.
LEMMA OnlyWriteAnswers ==
    ASSUME DashboardInv, Dashboards!Next, NEW s \in Saves, save[s].step = "write", save'[s].step = "answer"
    PROVE  Dashboards!Write(s)
<1>1. save \in [Saves -> SaveRequests]
  BY DEF DashboardInv, DashShapes
<1>2. save' # save
  OBVIOUS
<1>3. \A r \in Saves : \A q : save' = [save EXCEPT ![r] = q] => r = s /\ q.step = "answer"
  BY <1>1
<1>4. \A x, kind, d : ~Dashboards!Sends(x, kind, d)
  BY <1>1, <1>3 DEF Dashboards!Sends, Dashboards!Free
<1>5. \A x \in Dashboards!People : ~Dashboards!Load(x) /\ ~Dashboards!StartEdit(x) /\ ~Dashboards!CancelEdit(x) /\ ~Dashboards!Rearrange(x)
  BY <1>2, Zenon DEF Dashboards!Load, Dashboards!StartEdit, Dashboards!CancelEdit, Dashboards!Rearrange
<1>6. \A x \in Dashboards!People : ~Dashboards!ApplyPanel(x) /\ ~Dashboards!Save(x) /\ ~Dashboards!DeleteBoard(x)
  BY <1>2, <1>4, Zenon DEF Dashboards!ApplyPanel, Dashboards!Save, Dashboards!DeleteBoard
<1>7. ~Dashboards!ChangeProfile
  BY <1>2, Zenon DEF Dashboards!ChangeProfile
<1>8. \A r \in Saves : ~Dashboards!Get(r) /\ ~Dashboards!Answer(r)
  <2> SUFFICES ASSUME NEW r \in Saves, Dashboards!Get(r) \/ Dashboards!Answer(r) PROVE FALSE
    OBVIOUS
  <2>1. save[r].step \in {"get", "answer"}
    BY DEF Dashboards!Get, Dashboards!Answer
  <2>2. \E q : save' = [save EXCEPT ![r] = q]
    BY Zenon DEF Dashboards!Get, Dashboards!Answer
  <2> QED
    BY <1>3, <2>1, <2>2
<1>9. PICK r \in Saves : Dashboards!Write(r)
  BY <1>5, <1>6, <1>7, <1>8, Zenon DEF Dashboards!Next
<1>10. \E q : save' = [save EXCEPT ![r] = q]
  BY <1>9, Zenon DEF Dashboards!Write
<1> QED
  BY <1>3, <1>9, <1>10

\* In every behaviour the pages and the requests are as said.
LEMMA DashAlways ==
    ASSUME DashboardsAssumption
    PROVE  Spec => [](part = "dashboards" => DashboardInv)
<1>1. Init => (part = "dashboards" => DashboardInv)
  BY DashBegins DEF Init
<1>2. (part = "dashboards" => DashboardInv) /\ [Next]_serviceVars => (part = "dashboards" => DashboardInv)'
  <2> SUFFICES ASSUME part = "dashboards" => DashboardInv, [Next]_serviceVars, part' = "dashboards"
               PROVE  DashboardInv'
    OBVIOUS
  <2>1. CASE serviceVars' = serviceVars
    <3>1. part' = part /\ UNCHANGED <<board, wide, pages, save, changes>>
      BY <2>1 DEF serviceVars, dashboardVars
    <3> QED
      BY <3>1 DEF DashboardInv, DashShapes, WritersInv
  <2>2. CASE Next
    <3>1. part = "dashboards" /\ Dashboards!Next
      BY <2>2 DEF Next, InSearches, InDashboards, InProbes, InProfiles
    <3> QED
      BY <3>1, DashSteps
  <2> QED
    BY <2>1, <2>2
<1> QED
  BY <1>1, <1>2, PTL DEF Spec

\* The dashboard, the pages and the requests are of the shapes that their module gives them, for any
\* number of people, requests, panels and changes.
THEOREM DashboardsTyped ==
    ASSUME DashboardsAssumption
    PROVE  Spec => [](part = "dashboards" => Dashboards!TypeOK)
<1>1. (part = "dashboards" => DashboardInv) => (part = "dashboards" => Dashboards!TypeOK)
  BY DashTypes DEF DashboardInv
<1> QED
  BY <1>1, DashAlways, PTL

\* DashboardAccess.cs:49, DashboardEndpoints.cs: no request removes, changes or reorders a panel that its
\* author does not see, whatever her page showed before, and it stores the panels of her page in their
\* order, for any number of people, requests under way, panels and changes of profile.
THEOREM HiddenPanelsAreKept ==
    ASSUME DashboardsAssumption
    PROVE  Spec => HiddenPanelsKept
<1>1. ASSUME part = "dashboards" => DashboardInv, [Next]_serviceVars,
             NEW s \in Saves, save[s].step = "write", save'[s].step = "answer", save[s].read = board
      PROVE  KeepsHidden(Dashboards!PanelsOf(board), Dashboards!PanelsOf(board'), Dashboards!PanelsOf(save[s].sent),
                         HiddenOf(Dashboards!Panel, UnseenIds(save[s])))
  <2>1. save' # save
    BY <1>1
  <2>2. part = "dashboards" /\ Dashboards!Next
    BY <1>1, <2>1 DEF Next, InSearches, InDashboards, InProbes, InProfiles, serviceVars, dashboardVars
  <2>3. Dashboards!Write(s)
    BY <1>1, <2>2, OnlyWriteAnswers
  <2> QED
    BY <1>1, <2>2, <2>3, WriteKeeps
<1>2. ASSUME part = "dashboards" => DashboardInv, [Next]_serviceVars, NEW s \in Saves, Dashboards!Stores(s)
      PROVE  Dashboards!KeepsHiddenPanels(s)
  <2>1. KeepsHidden(Dashboards!PanelsOf(board), Dashboards!PanelsOf(board'), Dashboards!PanelsOf(save[s].sent),
                    HiddenOf(Dashboards!Panel, UnseenIds(save[s])))
    BY <1>1, <1>2, Zenon DEF Dashboards!Stores
  <2>2. \A i \in DOMAIN Dashboards!PanelsOf(board) : Dashboards!PanelsOf(board)[i] = board.panels[i]
    BY DEF Dashboards!PanelsOf
  <2>3. PICK V : V = {p \in Dashboards!Panel : p.id \in UnseenIds(save[s])}
    OBVIOUS
  <2>4. KeepsHidden(Dashboards!PanelsOf(board), Dashboards!PanelsOf(board'), Dashboards!PanelsOf(save[s].sent), V)
    BY <2>1, <2>3, Zenon DEF HiddenOf
  <2>5. /\ Dashboards!Only(Dashboards!PanelsOf(board'), V) = Dashboards!Only(Dashboards!PanelsOf(board), V)
        /\ Dashboards!Only(Dashboards!PanelsOf(board'), Dashboards!Panel \ V)
           = Dashboards!Only(Dashboards!PanelsOf(save[s].sent), Dashboards!Panel \ V)
        /\ Len(Dashboards!Only(Dashboards!PanelsOf(save[s].sent), Dashboards!Panel \ V))
              >= Len(Dashboards!PanelsOf(board)) - Len(Dashboards!Only(Dashboards!PanelsOf(board), V))
           => \A i \in DOMAIN Dashboards!PanelsOf(board) :
                  board.panels[i] \in V => Dashboards!PanelsOf(board')[i] = board.panels[i]
    BY <2>2, <2>4, Zenon DEF KeepsHidden
  <2> QED
    BY <2>3, <2>5, Zenon DEF UnseenIds, Dashboards!KeepsHiddenPanels
<1>3. (part = "dashboards" => DashboardInv) /\ [Next]_serviceVars
      => [\A s \in Saves : Dashboards!Stores(s) => Dashboards!KeepsHiddenPanels(s)]_(Dashboards!dashboardVars)
  BY <1>2
<1> QED
  BY <1>3, DashAlways, PTL DEF Spec, HiddenPanelsKept, Dashboards!HiddenPanelsKept

-----------------------------------------------------------------------------
(* The search bar: what a text asks for.                                   *)

Chars == DOMAIN FoldCase

\* The absence of a value is none; a phrase is made of letters, as are the texts of the logs; a severity
\* is a byte.
LogOK(r) ==
    /\ r.body \in Seq(Chars) /\ (r.exception # Null => r.exception \in Seq(Chars))
    /\ r.severity \in Nat /\ r.severity <= 255
    /\ r.trace # Null => r.trace \in DOMAIN Hash

\* No environment, alias or value of an application is empty: EnvironmentFilter.cs:26, 31 and 38 skip them.
NoEmptyName(filter) ==
    /\ SearchBar!Key("") \notin DOMAIN filter.everywhere
    /\ \A s \in DOMAIN filter.apps : SearchBar!Key("") \notin DOMAIN filter.apps[s]

\* A pattern with * stands for the same values of one line in memory and in SQL.
SameOfOneLine ==
    /\ DOMAIN LiveGlobs = DOMAIN Globs
    /\ \A p \in DOMAIN Globs : LiveGlobs[p] \ Multiline = Globs[p] \ Multiline

SearchAssumption ==
    /\ SameOfOneLine
    /\ MaxTokens \in Nat /\ Bits \in Nat /\ Bits # 0
    /\ \A x \in DOMAIN Hash : Hash[x] \in Nat \X Nat
    /\ \A t \in SearchTokens : t.key = "" => t.value \in Seq(Chars)
    /\ \A r \in LogRows : LogOK(r)
    /\ \A s \in AllSettings : NoEmptyName(SearchBar!EnvironmentFilter(s))
    /\ Null \notin SUBSET Nat /\ Null \notin SUBSET SearchBar!AllTrigrams /\ Null \notin BOOLEAN

\* What the proofs need to know of a query.
QueryOK(q) ==
    /\ DOMAIN q = DOMAIN SearchBar!EmptyQuery
    /\ q.severity \in Nat /\ q.terms \in SUBSET Seq(Chars)

\* A level is at most a byte's worth of severity.
LEMMA LevelType == \A level : SearchBar!LevelToSeverity(level) \in Nat
BY DEF SearchBar!LevelToSeverity

\* The first way that applies.
LEMMA NineWays ==
    ASSUME NEW k, NEW e \in BOOLEAN, NEW d \in BOOLEAN, d => k \notin {"", "level"},
           NEW a1, NEW a2, NEW a3, NEW a4, NEW a5, NEW a6, NEW a7, NEW a8, NEW a9, NEW r,
           r = CASE k = "" -> a1 [] k = "service" -> a2 [] k = "level" -> a3 [] k = "trace" -> a4
                 [] k = "fingerprint" -> a5 [] k = "crash" -> a6 [] k = "has" /\ e -> a7 [] d -> a8 [] OTHER -> a9
    PROVE  /\ k = "" => r = a1
           /\ k = "level" => r = a3
           /\ k \notin {"", "level"} => r \in {a2, a4, a5, a6, a7, a8, a9}
OBVIOUS

\* Equality and membership are true or false.
LEMMA Truths == \A x, y, S : (x = y) \in BOOLEAN /\ (x \in S) \in BOOLEAN
OBVIOUS

\* Each token keeps the shape of the query.
LEMMA TakenOK ==
    ASSUME NEW q, QueryOK(q), NEW t, t.key = "" => t.value \in Seq(Chars)
    PROVE  QueryOK(SearchBar!Taken(q, t))
<1>1. /\ "severity" \in DOMAIN q /\ "terms" \in DOMAIN q /\ DOMAIN q = DOMAIN SearchBar!EmptyQuery
      /\ q.severity \in Nat /\ q.terms \in SUBSET Seq(Chars)
  BY DEF QueryOK, SearchBar!EmptyQuery
<1>2. \A f \in {"notTerms", "notServices", "notColumns", "notAttributes", "services", "trace", "fingerprint", "crash",
                "exceptions", "columns", "attributes"} : \A v :
          QueryOK([q EXCEPT ![f] = v])
  BY <1>1 DEF QueryOK
<1>3. \A n \in Nat : QueryOK([q EXCEPT !.severity = n])
  BY <1>1 DEF QueryOK
<1>4. \A x \in Seq(Chars) : QueryOK([q EXCEPT !.terms = @ \cup {x}])
  BY <1>1 DEF QueryOK
<1>5. QueryOK(SearchBar!Excluded(q, t))
  <2>1. \/ SearchBar!Excluded(q, t) = [q EXCEPT !["notTerms"] = q.notTerms \cup {t.value}]
        \/ SearchBar!Excluded(q, t) = [q EXCEPT !["notServices"] = q.notServices \cup SearchBar!ToSet(t.value)]
        \/ SearchBar!Excluded(q, t) = [q EXCEPT !["notColumns"] = q.notColumns \cup {<<SearchBar!ColumnAliases[t.key], t.value>>}]
        \/ SearchBar!Excluded(q, t) = [q EXCEPT !["notAttributes"] = q.notAttributes \cup {<<t.key, t.value>>}]
    BY Zenon DEF SearchBar!Excluded
  <2> QED
    BY <2>1, <1>2, Zenon
<1>6. QueryOK(SearchBar!Asked(q, t))
  <2> DEFINE one == t.value[1]
             higher == IF SearchBar!LevelToSeverity(one) > q.severity THEN SearchBar!LevelToSeverity(one) ELSE q.severity
             a1 == [q EXCEPT !["terms"] = q.terms \cup {t.value}]
             a2 == [q EXCEPT !["services"] = q.services \cup SearchBar!ToSet(t.value)]
             a3 == [q EXCEPT !["severity"] = higher]
             a4 == [q EXCEPT !["trace"] = one]
             a5 == [q EXCEPT !["fingerprint"] = one]
             a6 == [q EXCEPT !["crash"] = one \in {"true", "1", "yes"}]
             a7 == [q EXCEPT !["exceptions"] = TRUE]
             a8 == [q EXCEPT !["columns"] = q.columns \cup {<<SearchBar!ColumnAliases[t.key], t.value>>}]
             a9 == [q EXCEPT !["attributes"] = q.attributes \cup {<<t.key, t.value>>}]
             e == one = "exception"
             d == t.key \in DOMAIN SearchBar!ColumnAliases
  <2>1. SearchBar!Asked(q, t) = CASE t.key = "" -> a1 [] t.key = "service" -> a2 [] t.key = "level" -> a3 [] t.key = "trace" -> a4
                        [] t.key = "fingerprint" -> a5 [] t.key = "crash" -> a6 [] t.key = "has" /\ e -> a7 [] d -> a8
                        [] OTHER -> a9
    BY Zenon DEF SearchBar!Asked
  <2>2. d => t.key \notin {"", "level"}
    <3>1. DOMAIN SearchBar!ColumnAliases = {"host", "env", "environment"}
      BY DEF SearchBar!ColumnAliases
    <3> QED
      BY <3>1
  <2>3. t.key = "" => QueryOK(a1)
    BY <1>4
  <2>4. QueryOK(a3)
    <3>1. SearchBar!LevelToSeverity(one) \in Nat
      BY LevelType
    <3> HIDE DEF one
    <3>2. higher \in Nat
      BY <3>1, <1>1
    <3> QED
      BY <3>2, <1>3
  <2>5. \A a \in {a2, a4, a5, a6, a7, a8, a9} : QueryOK(a)
    <3>1. QueryOK(a2) /\ QueryOK(a4) /\ QueryOK(a5) /\ QueryOK(a6) /\ QueryOK(a7) /\ QueryOK(a8) /\ QueryOK(a9)
      BY <1>2, Zenon
    <3> HIDE DEF a2, a4, a5, a6, a7, a8, a9
    <3> QED
      BY <3>1
  <2> HIDE DEF a1, a2, a3, a4, a5, a6, a7, a8, a9
  <2>6. e \in BOOLEAN /\ d \in BOOLEAN
    BY Truths, Zenon
  <2> HIDE DEF d, e
  <2>7. /\ t.key = "" => SearchBar!Asked(q, t) = a1
        /\ t.key = "level" => SearchBar!Asked(q, t) = a3
        /\ t.key \notin {"", "level"} => SearchBar!Asked(q, t) \in {a2, a4, a5, a6, a7, a8, a9}
    BY <2>1, <2>2, <2>6, NineWays
  <2> QED
    BY <2>3, <2>4, <2>5, <2>7
<1> QED
  BY <1>5, <1>6 DEF SearchBar!Taken

\* f is what Parse makes of each beginning of a text.
Reads(f, s) ==
    f = [i \in 0 .. Len(s) |-> IF i = 0 THEN SearchBar!EmptyQuery ELSE SearchBar!Taken(f[i - 1], s[i])]

\* The function in the definition of Parse exists.
LEMMA ReadsExists == \A s \in Seq(SearchTokens) : \E f : Reads(f, s)
<1> DEFINE G == {s \in Seq(SearchTokens) : \E f : Reads(f, s)}
<1>1. <<>> \in G
  <2> DEFINE f == [i \in 0 .. 0 |-> SearchBar!EmptyQuery]
  <2>1. PICK s \in Seq(SearchTokens), n \in Nat : s = <<>> /\ n = Len(s) /\ n = 0
    <3>1. <<>> \in Seq(SearchTokens) /\ Len(<<>>) = 0 /\ 0 \in Nat
      OBVIOUS
    <3> QED
      BY <3>1, Zenon
  <2>2. \A i \in 0 .. n : i = 0
    BY <2>1
  <2>3. f = [i \in 0 .. n |-> IF i = 0 THEN SearchBar!EmptyQuery ELSE SearchBar!Taken(f[i - 1], s[i])]
    BY <2>1, <2>2
  <2>4. Reads(f, s)
    BY <2>1, <2>3 DEF Reads
  <2> QED
    BY <2>1, <2>4
<1>2. ASSUME NEW s \in G, NEW x \in SearchTokens PROVE Append(s, x) \in G
  <2>1. PICK f : Reads(f, s)
    BY <1>2
  <2>2. PICK n \in Nat : n = Len(s)
    OBVIOUS
  <2> DEFINE g == [i \in 0 .. n + 1 |-> IF i = n + 1 THEN SearchBar!Taken(f[n], x) ELSE f[i]]
  <2>3. PICK u \in Seq(SearchTokens) : u = Append(s, x)
    <3>1. s \in Seq(SearchTokens)
      OBVIOUS
    <3>2. Append(s, x) \in Seq(SearchTokens)
      BY <3>1
    <3> QED
      BY <3>2
  <2>4. Len(u) = n + 1 /\ u[n + 1] = x /\ \A i \in 1 .. n : u[i] = s[i]
    BY <2>2, <2>3
  <2>5. \A i \in 0 .. n : f[i] = IF i = 0 THEN SearchBar!EmptyQuery ELSE SearchBar!Taken(f[i - 1], s[i])
    BY <2>1, <2>2 DEF Reads
  <2>6. \A i \in 0 .. n + 1 : g[i] = IF i = 0 THEN SearchBar!EmptyQuery ELSE SearchBar!Taken(g[i - 1], u[i])
    <3>1. /\ \A i \in 0 .. n : g[i] = f[i] /\ i \in 0 .. n + 1
          /\ g[n + 1] = SearchBar!Taken(f[n], x) /\ n \in 0 .. n /\ (n + 1) - 1 = n /\ n + 1 # 0
      OBVIOUS
    <3> HIDE DEF g
    <3>2. \A i \in 1 .. n : i - 1 \in 0 .. n /\ i \in 0 .. n /\ i # 0
      OBVIOUS
    <3>3. \A i \in 0 .. n + 1 : i = 0 \/ i \in 1 .. n \/ i = n + 1
      OBVIOUS
    <3>4. g[0] = SearchBar!EmptyQuery
      BY <3>1, <2>5
    <3>5. \A i \in 1 .. n : g[i] = SearchBar!Taken(g[i - 1], u[i])
      BY <3>1, <3>2, <2>4, <2>5
    <3>6. g[n + 1] = SearchBar!Taken(g[(n + 1) - 1], u[n + 1])
      BY <3>1, <2>4
    <3> QED
      BY <3>2, <3>3, <3>4, <3>5, <3>6
  <2>7. g = [i \in 0 .. n + 1 |-> g[i]]
    OBVIOUS
  <2> HIDE DEF g
  <2>8. g = [i \in 0 .. n + 1 |-> IF i = 0 THEN SearchBar!EmptyQuery ELSE SearchBar!Taken(g[i - 1], u[i])]
    BY <2>6, <2>7, Zenon
  <2>9. \E h : Reads(h, u)
    BY <2>4, <2>8 DEF Reads
  <2> QED
    BY <2>3, <2>9
<1>3. G \in SUBSET Seq(SearchTokens)
  OBVIOUS
<1> HIDE DEF G
<1>4. G = Seq(SearchTokens)
  BY <1>1, <1>2, <1>3, AllSequences, Zenon
<1> QED
  BY <1>4 DEF G

\* What a text asks for is of the shape of a query.
LEMMA ParseOK ==
    ASSUME SearchAssumption, NEW s \in Seq(SearchTokens)
    PROVE  QueryOK(SearchBar!Parse(s))
<1> DEFINE body(g) == [i \in 0 .. Len(s) |-> IF i = 0 THEN SearchBar!EmptyQuery ELSE SearchBar!Taken(g[i - 1], s[i])]
           after == CHOOSE g : g = body(g)
<1>1. \E e : e = body(e)
  BY ReadsExists DEF Reads
<1>2. after = body(after)
  BY <1>1, Zenon
<1>3. SearchBar!Parse(s) = after[Len(s)]
  BY DEF SearchBar!Parse
<1>4. PICK n \in Nat : n = Len(s)
  OBVIOUS
<1>5. PICK a : a = after
  OBVIOUS
<1>6. a = body(a)
  BY <1>2, <1>5
<1> HIDE DEF after
<1>7. a[0] = SearchBar!EmptyQuery /\ \A i \in 1 .. n : a[i] = SearchBar!Taken(a[i - 1], s[i])
  BY <1>4, <1>6
<1> HIDE DEF body
<1> DEFINE G == {i \in Nat : i <= n => QueryOK(a[i])}
<1>8. 0 \in G
  <2>1. QueryOK(SearchBar!EmptyQuery)
    BY DEF QueryOK, SearchBar!EmptyQuery
  <2> QED
    BY <2>1, <1>7
<1>9. ASSUME NEW k \in G PROVE k + 1 \in G
  <2> SUFFICES ASSUME k + 1 <= n PROVE QueryOK(a[k + 1])
    BY <1>9
  <2>1. k \in Nat /\ QueryOK(a[k]) /\ k + 1 \in 1 .. n /\ (k + 1) - 1 = k
    BY <1>9
  <2>2. a[k + 1] = SearchBar!Taken(a[k], s[k + 1])
    BY <2>1, <1>7
  <2>3. s[k + 1] \in SearchTokens
    BY <2>1, <1>4
  <2>4. QueryOK(SearchBar!Taken(a[k], s[k + 1]))
    BY <2>1, <2>3, TakenOK DEF SearchAssumption
  <2> QED
    BY <2>2, <2>4
<1>10. G = Nat
  <2>1. G \in SUBSET Nat
    OBVIOUS
  <2> HIDE DEF G
  <2> QED
    BY <1>8, <1>9, <2>1, AllNumbers
<1>11. n \in G
  <2> HIDE DEF G
  <2> QED
    BY <1>10
<1> QED
  BY <1>3, <1>4, <1>5, <1>11

-----------------------------------------------------------------------------
(* The search bar: a segment that is skipped.                              *)

\* The trigrams of a phrase that a text holds are trigrams of the text: both ignore case.
LEMMA HeldTrigrams ==
    ASSUME NEW u \in Seq(Chars), NEW w \in Seq(Chars), SearchBar!HasText(u, w)
    PROVE  SearchBar!Trigrams(w) \subseteq SearchBar!Trigrams(u)
<1>1. PICK m \in Nat, n \in Nat : m = Len(u) /\ n = Len(w)
  OBVIOUS
<1>2. PICK i \in 0 .. (m - n) : \A k \in 1 .. n : FoldCase[u[i + k]] = FoldCase[w[k]]
  BY <1>1 DEF SearchBar!HasText
<1>3. ASSUME NEW j \in 3 .. n, \A k \in (j - 2) .. j : SearchBar!IsCode(w[k])
      PROVE  <<FoldCase[w[j - 2]], FoldCase[w[j - 1]], FoldCase[w[j]]>> \in SearchBar!Trigrams(u)
  <2>1. /\ j - 2 \in 1 .. n /\ j - 1 \in 1 .. n /\ j \in 1 .. n /\ i + j \in 3 .. m
        /\ i + (j - 2) = (i + j) - 2 /\ i + (j - 1) = (i + j) - 1
    <3>1. i \in 0 .. (m - n) /\ j \in 3 .. n
      OBVIOUS
    <3> QED
      BY <3>1
  <2>2. /\ FoldCase[u[(i + j) - 2]] = FoldCase[w[j - 2]]
        /\ FoldCase[u[(i + j) - 1]] = FoldCase[w[j - 1]]
        /\ FoldCase[u[i + j]] = FoldCase[w[j]]
    BY <1>2, <2>1
  <2>3. \A k \in ((i + j) - 2) .. (i + j) : SearchBar!IsCode(u[k])
    <3>1. ASSUME NEW k \in ((i + j) - 2) .. (i + j) PROVE SearchBar!IsCode(u[k])
      <4>1. PICK l \in (j - 2) .. j : k = i + l /\ l \in 1 .. n
        <5>1. k - i \in (j - 2) .. j /\ k = i + (k - i) /\ k - i \in 1 .. n
          BY <2>1
        <5> QED
          BY <5>1
      <4>2. FoldCase[u[k]] = FoldCase[w[l]]
        BY <4>1, <1>2
      <4> QED
        BY <4>2, <1>3 DEF SearchBar!IsCode
    <3> QED
      BY <3>1
  <2>4. <<FoldCase[u[(i + j) - 2]], FoldCase[u[(i + j) - 1]], FoldCase[u[i + j]]>> \in SearchBar!Trigrams(u)
    BY <1>1, <2>1, <2>3 DEF SearchBar!Trigrams
  <2> QED
    BY <2>2, <2>4
<1> QED
  BY <1>1, <1>3 DEF SearchBar!Trigrams

\* Trigrams are among all of them.
LEMMA TrigramsType ==
    ASSUME NEW u \in Seq(Chars)
    PROVE  SearchBar!Trigrams(u) \subseteq SearchBar!AllTrigrams
<1>1. \A j \in 3 .. Len(u) : u[j - 2] \in Chars /\ u[j - 1] \in Chars /\ u[j] \in Chars
  OBVIOUS
<1> QED
  BY <1>1 DEF SearchBar!Trigrams, SearchBar!AllTrigrams, Chars

\* The positions of a trace are positions of the filter.
LEMMA PositionsType ==
    ASSUME SearchAssumption, NEW x \in DOMAIN Hash
    PROVE  SearchBar!Positions(x) \subseteq 0 .. (Bits - 1)
<1>1. PICK a \in Nat, b \in Nat : a = Hash[x][1] /\ b = Hash[x][2]
  BY DEF SearchAssumption
<1>2. 2 * (b \div 2) + 1 \in Nat
  OBVIOUS
<1>3. PICK h2 \in Nat : h2 = 2 * (b \div 2) + 1
  BY <1>2
<1>4. Bits \in Nat \ {0}
  BY DEF SearchAssumption
<1>5. \A n \in Nat : n % Bits \in 0 .. (Bits - 1)
  BY <1>4
<1>6. \A i \in 0 .. 3 : a + i * h2 \in Nat
  OBVIOUS
<1>7. SearchBar!Positions(x) = {(a + i * h2) % Bits : i \in 0 .. 3}
  BY <1>1, <1>3 DEF SearchBar!Positions
<1> QED
  BY <1>5, <1>6, <1>7

\* An index that knows at least what a row adds to one.
Covers(index, row) ==
    /\ row.service \in index.services
    /\ index.severity \in Nat /\ row.severity <= index.severity
    /\ row.fingerprint # Null => index.exceptions
    /\ row.trace # Null => index.traces # Null /\ SearchBar!Positions(row.trace) \subseteq index.traces
    /\ index.text # Null => /\ SearchBar!Trigrams(row.body) \subseteq index.text
                            /\ row.exception # Null => SearchBar!Trigrams(row.exception) \subseteq index.text

\* A segment is opened when its index knows of a row that the query asks for.
LEMMA CoveredIsOpened ==
    ASSUME SearchAssumption, NEW q, QueryOK(q), NEW filter, NEW r \in LogRows, SearchBar!LogFilters(filter, q, r),
           NEW index, Covers(index, r), q.crash = TRUE => index.exceptions
    PROVE  SearchBar!MayMatch(q, index)
<1>1. q.services # {} => q.services \cap index.services # {}
  <2>1. q.services # {} => r.service \in q.services
    BY DEF SearchBar!LogFilters
  <2>2. r.service \in index.services
    BY DEF Covers
  <2> QED
    BY <2>1, <2>2
<1>2. q.severity > 0 => index.severity >= q.severity
  <2>1. q.severity > 0 => r.severity >= q.severity
    BY DEF SearchBar!LogFilters
  <2>2. q.severity \in Nat /\ index.severity \in Nat /\ r.severity <= index.severity
    BY DEF QueryOK, Covers
  <2>3. r.severity \in Nat
    BY DEF SearchAssumption, LogOK
  <2> QED
    BY <2>1, <2>2, <2>3
<1>3. (q.exceptions \/ q.fingerprint # Null \/ q.crash = TRUE) => index.exceptions
  <2>1. q.exceptions => r.fingerprint # Null
    BY DEF SearchBar!LogFilters
  <2>2. q.fingerprint # Null => r.fingerprint # Null
    BY DEF SearchBar!LogFilters
  <2> QED
    BY <2>1, <2>2 DEF Covers
<1>4. q.trace # Null => index.traces # Null /\ SearchBar!Positions(q.trace) \subseteq index.traces
  BY DEF SearchBar!LogFilters, Covers
<1>5. index.text # Null => \A term \in q.terms : SearchBar!Trigrams(term) \subseteq index.text
  <2> SUFFICES ASSUME index.text # Null, NEW term \in q.terms PROVE SearchBar!Trigrams(term) \subseteq index.text
    OBVIOUS
  <2>1. term \in Seq(Chars)
    BY DEF QueryOK
  <2>2. r.body \in Seq(Chars) /\ (r.exception # Null => r.exception \in Seq(Chars))
    BY DEF SearchAssumption, LogOK
  <2>3. SearchBar!HasText(r.body, term) \/ SearchBar!HasText(r.exception, term)
    BY DEF SearchBar!LogFilters
  <2>4. SearchBar!HasText(r.exception, term) => r.exception # Null
    BY DEF SearchBar!HasText
  <2> QED
    BY <2>1, <2>2, <2>3, <2>4, HeldTrigrams DEF Covers
<1> QED
  BY <1>1, <1>2, <1>3, <1>4, <1>5, Zenon DEF SearchBar!MayMatch

\* The index of a row, of two, and the one that knows nothing.
LEMMA IndexCovers ==
    ASSUME SearchAssumption, NEW r \in LogRows
    PROVE  /\ Covers(SearchBar!IndexOf(r), r) /\ Covers(SearchBar!Unknown({r.service}), r)
           /\ \A s \in LogRows : Covers(SearchBar!Merge(SearchBar!IndexOf(r), SearchBar!IndexOf(s)), r) /\ Covers(SearchBar!Merge(SearchBar!IndexOf(s), SearchBar!IndexOf(r)), r)
<1>1. \A x \in LogRows :
          /\ x.body \in Seq(Chars) /\ (x.exception # Null => x.exception \in Seq(Chars))
          /\ x.severity \in Nat /\ x.severity <= 255
          /\ x.trace # Null => x.trace \in DOMAIN Hash
  BY DEF SearchAssumption, LogOK
<1>2. \A x \in LogRows :
          /\ SearchBar!Trigrams(x.body) \subseteq SearchBar!AllTrigrams
          /\ x.exception # Null => SearchBar!Trigrams(x.exception) \subseteq SearchBar!AllTrigrams
          /\ x.trace # Null => SearchBar!Positions(x.trace) \subseteq 0 .. (Bits - 1)
  BY <1>1, TrigramsType, PositionsType
<1>3. \A x \in LogRows :
          /\ SearchBar!IndexOf(x).text \in SUBSET SearchBar!AllTrigrams /\ SearchBar!IndexOf(x).text # Null
          /\ SearchBar!IndexOf(x).traces \in (SUBSET Nat) \cup {Null}
          /\ (SearchBar!IndexOf(x).traces = Null) = (x.trace = Null)
          /\ SearchBar!IndexOf(x).severity = x.severity /\ SearchBar!IndexOf(x).services = {x.service}
          /\ SearchBar!IndexOf(x).exceptions = (x.fingerprint # Null)
          /\ x.trace # Null => SearchBar!IndexOf(x).traces = SearchBar!Positions(x.trace)
          /\ SearchBar!Trigrams(x.body) \subseteq SearchBar!IndexOf(x).text
          /\ x.exception # Null => SearchBar!Trigrams(x.exception) \subseteq SearchBar!IndexOf(x).text
  <2> SUFFICES ASSUME NEW x \in LogRows
               PROVE  /\ SearchBar!IndexOf(x).text \in SUBSET SearchBar!AllTrigrams /\ SearchBar!IndexOf(x).text # Null
                      /\ SearchBar!IndexOf(x).traces \in (SUBSET Nat) \cup {Null}
                      /\ (SearchBar!IndexOf(x).traces = Null) = (x.trace = Null)
                      /\ SearchBar!IndexOf(x).severity = x.severity /\ SearchBar!IndexOf(x).services = {x.service}
                      /\ SearchBar!IndexOf(x).exceptions = (x.fingerprint # Null)
                      /\ x.trace # Null => SearchBar!IndexOf(x).traces = SearchBar!Positions(x.trace)
                      /\ SearchBar!Trigrams(x.body) \subseteq SearchBar!IndexOf(x).text
                      /\ x.exception # Null => SearchBar!Trigrams(x.exception) \subseteq SearchBar!IndexOf(x).text
    OBVIOUS
  <2>1. /\ SearchBar!IndexOf(x).text = SearchBar!Trigrams(x.body) \cup (IF x.exception = Null THEN {} ELSE SearchBar!Trigrams(x.exception))
        /\ SearchBar!IndexOf(x).traces = IF x.trace = Null THEN Null ELSE SearchBar!Positions(x.trace)
        /\ SearchBar!IndexOf(x).severity = x.severity /\ SearchBar!IndexOf(x).services = {x.service}
        /\ SearchBar!IndexOf(x).exceptions = (x.fingerprint # Null)
    BY DEF SearchBar!IndexOf
  <2>2. SearchBar!IndexOf(x).text \in SUBSET SearchBar!AllTrigrams
    BY <2>1, <1>2
  <2>3. SearchBar!IndexOf(x).text # Null
    BY <2>2 DEF SearchAssumption
  <2>4. 0 .. (Bits - 1) \subseteq Nat
    OBVIOUS
  <2>5. x.trace # Null => SearchBar!Positions(x.trace) \in SUBSET Nat
    BY <1>2, <2>4
  <2>6. SearchBar!IndexOf(x).traces \in (SUBSET Nat) \cup {Null} /\ ((SearchBar!IndexOf(x).traces = Null) = (x.trace = Null))
    BY <2>1, <2>5 DEF SearchAssumption
  <2>7. /\ SearchBar!Trigrams(x.body) \subseteq SearchBar!IndexOf(x).text
        /\ x.exception # Null => SearchBar!Trigrams(x.exception) \subseteq SearchBar!IndexOf(x).text
    BY <2>1
  <2>8. x.trace # Null => SearchBar!IndexOf(x).traces = SearchBar!Positions(x.trace)
    BY <2>1
  <2> QED
    BY <2>1, <2>2, <2>3, <2>6, <2>7, <2>8, Zenon
<1>4. Covers(SearchBar!IndexOf(r), r)
  <2>1. PICK i : i = SearchBar!IndexOf(r)
    OBVIOUS
  <2>2. /\ i.text # Null /\ i.severity = r.severity /\ i.services = {r.service}
        /\ i.exceptions = (r.fingerprint # Null)
        /\ (i.traces = Null) = (r.trace = Null)
        /\ r.trace # Null => i.traces = SearchBar!Positions(r.trace)
        /\ SearchBar!Trigrams(r.body) \subseteq i.text
        /\ r.exception # Null => SearchBar!Trigrams(r.exception) \subseteq i.text
    BY <1>3, <2>1
  <2>3. r.severity \in Nat /\ r.severity <= r.severity
    BY <1>1
  <2>4. Covers(i, r)
    BY <2>2, <2>3 DEF Covers
  <2> QED
    BY <2>1, <2>4
<1>5. Covers(SearchBar!Unknown({r.service}), r)
  <2>0. 255 \in Nat /\ r.service \in {r.service} /\ 0 .. (Bits - 1) \in SUBSET Nat
    OBVIOUS
  <2>1. /\ SearchBar!Unknown({r.service}).services = {r.service} /\ SearchBar!Unknown({r.service}).severity = 255
        /\ SearchBar!Unknown({r.service}).exceptions /\ SearchBar!Unknown({r.service}).traces = 0 .. (Bits - 1)
        /\ SearchBar!Unknown({r.service}).text = SearchBar!AllTrigrams
    BY DEF SearchBar!Unknown
  <2>2. 0 .. (Bits - 1) \in SUBSET Nat
    OBVIOUS
  <2>3. 0 .. (Bits - 1) # Null
    BY <2>2 DEF SearchAssumption
  <2>4. SearchBar!AllTrigrams # Null
    BY DEF SearchAssumption
  <2> QED
    BY <2>0, <2>1, <2>3, <2>4, <1>1, <1>2, Zenon DEF Covers
<1>6. ASSUME NEW i, NEW j, NEW x, Covers(i, x) \/ Covers(j, x), x.severity \in Nat, i.severity \in Nat, j.severity \in Nat,
             i.text # Null, j.text # Null, i.text \in SUBSET SearchBar!AllTrigrams, j.text \in SUBSET SearchBar!AllTrigrams,
             i.traces \in (SUBSET Nat) \cup {Null}, j.traces \in (SUBSET Nat) \cup {Null}
      PROVE  Covers(SearchBar!Merge(i, j), x)
  <2>1. /\ SearchBar!Merge(i, j).services = i.services \cup j.services
        /\ SearchBar!Merge(i, j).severity = IF j.severity > i.severity THEN j.severity ELSE i.severity
        /\ SearchBar!Merge(i, j).exceptions = (i.exceptions \/ j.exceptions)
        /\ SearchBar!Merge(i, j).traces = SearchBar!Both(i.traces, j.traces)
        /\ SearchBar!Merge(i, j).text = SearchBar!Both(i.text, j.text)
    BY DEF SearchBar!Merge
  <2>2. SearchBar!Merge(i, j).text = i.text \cup j.text
    BY <1>6, <2>1 DEF SearchBar!Both
  <2>3. ASSUME i.traces # Null \/ j.traces # Null
        PROVE  /\ SearchBar!Merge(i, j).traces # Null
               /\ i.traces # Null => i.traces \subseteq SearchBar!Merge(i, j).traces
               /\ j.traces # Null => j.traces \subseteq SearchBar!Merge(i, j).traces
    <3>1. CASE i.traces = Null \/ j.traces = Null
      BY <3>1, <2>1, <2>3 DEF SearchBar!Both
    <3>2. CASE i.traces # Null /\ j.traces # Null
      <4>1. SearchBar!Merge(i, j).traces = i.traces \cup j.traces
        BY <3>2, <2>1 DEF SearchBar!Both
      <4>2. i.traces \cup j.traces \in SUBSET Nat
        BY <3>2, <1>6
      <4> QED
        BY <4>1, <4>2 DEF SearchAssumption
    <3> QED
      BY <3>1, <3>2
  <2>4. /\ SearchBar!Merge(i, j).severity \in Nat /\ i.severity <= SearchBar!Merge(i, j).severity /\ j.severity <= SearchBar!Merge(i, j).severity
    BY <1>6, <2>1
  <2>5. x.service \in SearchBar!Merge(i, j).services /\ (x.fingerprint # Null => SearchBar!Merge(i, j).exceptions)
    BY <1>6, <2>1 DEF Covers
  <2>6. x.severity <= SearchBar!Merge(i, j).severity
    BY <1>6, <2>4 DEF Covers
  <2>7. x.trace # Null => SearchBar!Merge(i, j).traces # Null /\ SearchBar!Positions(x.trace) \subseteq SearchBar!Merge(i, j).traces
    BY <1>6, <2>3 DEF Covers
  <2>8. /\ SearchBar!Trigrams(x.body) \subseteq SearchBar!Merge(i, j).text
        /\ x.exception # Null => SearchBar!Trigrams(x.exception) \subseteq SearchBar!Merge(i, j).text
    BY <1>6, <2>2 DEF Covers
  <2> QED
    BY <2>4, <2>5, <2>6, <2>7, <2>8 DEF Covers
<1>7. \A s \in LogRows : Covers(SearchBar!Merge(SearchBar!IndexOf(r), SearchBar!IndexOf(s)), r) /\ Covers(SearchBar!Merge(SearchBar!IndexOf(s), SearchBar!IndexOf(r)), r)
  <2>1. \A s \in LogRows : /\ SearchBar!IndexOf(s).severity \in Nat /\ SearchBar!IndexOf(s).text # Null /\ SearchBar!IndexOf(s).text \in SUBSET SearchBar!AllTrigrams
                            /\ SearchBar!IndexOf(s).traces \in (SUBSET Nat) \cup {Null}
    BY <1>1, <1>3
  <2> QED
    BY <2>1, <1>1, <1>4, <1>6
<1> QED
  BY <1>4, <1>5, <1>7

\* Of any text, no segment that holds an answer is skipped.
LEMMA PrunedNothing ==
    ASSUME SearchAssumption, text \in Seq(SearchTokens)
    PROVE  SearchBar!PrunedHoldsNoMatch
<1>1. QueryOK(SearchBar!Query)
  BY ParseOK DEF SearchBar!Query
<1>2. ASSUME NEW r \in LogRows, SearchBar!LogFilters(SearchBar!Filter, SearchBar!Query, r)
      PROVE  /\ \A s \in LogRows :
                    \/ SearchBar!Lacking(SearchBar!Query, {r, s})
                    \/ /\ SearchBar!MayMatch(SearchBar!Query, SearchBar!Merge(SearchBar!IndexOf(r), SearchBar!IndexOf(s)))
                       /\ SearchBar!MayMatch(SearchBar!Query, SearchBar!Merge(SearchBar!IndexOf(s), SearchBar!IndexOf(r)))
             /\ SearchBar!Lacking(SearchBar!Query, {r}) \/ SearchBar!MayMatch(SearchBar!Query, SearchBar!IndexOf(r))
             /\ SearchBar!MayMatch(SearchBar!Query, SearchBar!Unknown({r.service}))
  <2>1. \A index : Covers(index, r) /\ (SearchBar!Query.crash = TRUE => index.exceptions)
                    => SearchBar!MayMatch(SearchBar!Query, index)
    BY <1>1, <1>2, CoveredIsOpened
  <2>2. /\ SearchBar!Unknown({r.service}).exceptions
        /\ \A x \in LogRows : SearchBar!IndexOf(x).exceptions = (x.fingerprint # Null)
    BY DEF SearchBar!Unknown, SearchBar!IndexOf
  <2>3. \A i, j : SearchBar!Merge(i, j).exceptions = (i.exceptions \/ j.exceptions)
    BY DEF SearchBar!Merge
  <2>4. \A s \in LogRows : ~SearchBar!Lacking(SearchBar!Query, {r, s}) =>
            (SearchBar!Query.crash = TRUE => r.fingerprint # Null \/ s.fingerprint # Null)
    BY DEF SearchBar!Lacking
  <2>5. ~SearchBar!Lacking(SearchBar!Query, {r}) => (SearchBar!Query.crash = TRUE => r.fingerprint # Null)
    BY DEF SearchBar!Lacking
  <2> QED
    BY <2>1, <2>2, <2>3, <2>4, <2>5, IndexCovers
<1> QED
  BY <1>2, Zenon DEF SearchBar!PrunedHoldsNoMatch

-----------------------------------------------------------------------------
(* The search bar: the live tail.                                          *)

\* A configured environment: what Condition selects is what Resolve gives.
LEMMA SameEnvironment ==
    ASSUME NEW filter, NEW selected, NEW service, NEW raw, NoEmptyName(filter), SearchBar!Find(filter, selected) # Null
    PROVE  SearchBar!EnvironmentMatches(filter, selected, service, raw) <=> SearchBar!EnvironmentCondition(filter, selected, service, raw)
<1> DEFINE name == SearchBar!Find(filter, selected)
           everywhere == SearchBar!ValuesOf(filter, name)
           values(s) == {v \in DOMAIN filter.apps[s] : filter.apps[s][v] = name}
                            \cup {v \in everywhere : v \notin DOMAIN filter.apps[s]}
           particular == {s \in DOMAIN filter.apps : values(s) # everywhere}
<1>1. SearchBar!EnvironmentMatches(filter, selected, service, raw) <=> SearchBar!Resolve(filter, service, raw) = name
  BY DEF SearchBar!EnvironmentMatches
<1>2. SearchBar!EnvironmentCondition(filter, selected, service, raw)
      <=> /\ raw # Null
          /\ \/ service \in particular /\ SearchBar!Key(raw) \in values(service)
             \/ service \notin particular /\ SearchBar!Key(raw) \in everywhere
  BY DEF SearchBar!EnvironmentCondition
<1>3. name # Null
  OBVIOUS
<1>4. \A v : v \in everywhere <=> v \in DOMAIN filter.everywhere /\ filter.everywhere[v] = name
  BY DEF SearchBar!ValuesOf
<1>5. \A v : v \in values(service)
             <=> \/ v \in DOMAIN filter.apps[service] /\ filter.apps[service][v] = name
                 \/ v \in everywhere /\ v \notin DOMAIN filter.apps[service]
  OBVIOUS
<1>6. service \in particular <=> service \in DOMAIN filter.apps /\ values(service) # everywhere
  OBVIOUS
<1> HIDE DEF name, everywhere, values, particular
<1>7. CASE raw = Null
  BY <1>1, <1>2, <1>3, <1>7 DEF SearchBar!Resolve
<1>8. CASE raw = "" /\ raw # Null
  <2>1. SearchBar!Resolve(filter, service, raw) # name
    BY <1>3, <1>8 DEF SearchBar!Resolve
  <2>2. SearchBar!Key(raw) \notin everywhere
    BY <1>4, <1>8 DEF NoEmptyName
  <2>3. service \in particular => SearchBar!Key(raw) \notin values(service)
    BY <1>5, <1>6, <1>8, <2>2 DEF NoEmptyName
  <2> QED
    BY <1>1, <1>2, <2>1, <2>2, <2>3
<1>9. CASE raw # "" /\ raw # Null
  <2>1. SearchBar!Resolve(filter, service, raw)
        = IF service \in DOMAIN filter.apps /\ SearchBar!Key(raw) \in DOMAIN filter.apps[service]
          THEN filter.apps[service][SearchBar!Key(raw)]
          ELSE IF SearchBar!Key(raw) \in DOMAIN filter.everywhere THEN filter.everywhere[SearchBar!Key(raw)]
          ELSE Null
    BY <1>9 DEF SearchBar!Resolve
  <2>2. CASE service \in DOMAIN filter.apps
    <3>1. SearchBar!Resolve(filter, service, raw) = name <=> SearchBar!Key(raw) \in values(service)
      BY <2>1, <2>2, <1>3, <1>4, <1>5
    <3>2. CASE values(service) = everywhere
      <4>1. service \notin particular
        BY <3>2, <1>6
      <4> QED
        BY <3>1, <3>2, <4>1, <1>1, <1>2, <1>9
    <3>3. CASE values(service) # everywhere
      <4>1. service \in particular
        BY <3>3, <2>2, <1>6
      <4> QED
        BY <3>1, <4>1, <1>1, <1>2, <1>9
    <3> QED
      BY <3>2, <3>3
  <2>3. CASE service \notin DOMAIN filter.apps
    <3>1. SearchBar!Resolve(filter, service, raw) = name <=> SearchBar!Key(raw) \in everywhere
      BY <2>1, <2>3, <1>3, <1>4
    <3>2. service \notin particular
      BY <2>3, <1>6
    <3> QED
      BY <3>1, <3>2, <1>1, <1>2, <1>9
  <2> QED
    BY <2>2, <2>3
<1> QED
  BY <1>7, <1>8, <1>9

\* A value of one line, or a list without patterns, is compared alike in memory and in SQL.
LEMMA SameValue ==
    ASSUME SearchAssumption, NEW actual, NEW patterns,
           actual \notin Multiline \/ SearchBar!ToSet(patterns) \cap DOMAIN Globs = {}
    PROVE  SearchBar!WildcardEquals(actual, patterns) <=> SearchBar!ValueFilter(actual, patterns)
<1>1. ASSUME NEW p \in SearchBar!ToSet(patterns)
      PROVE  (IF p \in DOMAIN LiveGlobs THEN actual \in LiveGlobs[p] ELSE actual = p)
             <=> actual \in IF p \in DOMAIN Globs THEN Globs[p] ELSE {p}
  <2>1. CASE p \in DOMAIN Globs
    <3>1. actual \notin Multiline /\ p \in DOMAIN LiveGlobs /\ LiveGlobs[p] \ Multiline = Globs[p] \ Multiline
      BY <2>1 DEF SearchAssumption, SameOfOneLine
    <3> QED
      BY <3>1, <2>1
  <2>2. CASE p \notin DOMAIN Globs
    BY <2>2 DEF SearchAssumption, SameOfOneLine
  <2> QED
    BY <2>1, <2>2
<1> QED
  BY <1>1 DEF SearchBar!WildcardEquals, SearchBar!ValueFilter

\* Of any text, an open live tail shows what a search returns, but for the differences that are named.
LEMMA LiveIsSearch ==
    ASSUME SearchAssumption, text \in Seq(SearchTokens), settings \in AllSettings, stream \in AllSettings \cup {Null}
    PROVE  SearchBar!LiveAgreesWithSearch
<1>1. QueryOK(SearchBar!Query)
  BY ParseOK DEF SearchBar!Query
<1>2. PICK q, filter, then : q = SearchBar!Query /\ filter = SearchBar!Filter /\ then = SearchBar!EnvironmentFilter(stream)
  OBVIOUS
<1>3. SUFFICES ASSUME stream # Null, NEW r \in LogRows, ~SearchBar!Excludes(q, filter), ~SearchBar!Outdated(q),
                      ~SearchBar!NullAsked(q, r), ~SearchBar!ManyLines(q, r)
               PROVE  SearchBar!Matches(then, q, r) = SearchBar!LogFilters(filter, q, r)
  BY <1>2 DEF SearchBar!LiveAgreesWithSearch
<1>4. q.severity \in Nat /\ r.severity \in Nat /\ NoEmptyName(filter) /\ (stream = settings => then = filter)
  <2>1. LogOK(r) /\ NoEmptyName(filter)
    BY <1>2 DEF SearchAssumption, SearchBar!Filter
  <2> QED
    BY <2>1, <1>1, <1>2 DEF QueryOK, LogOK, SearchBar!Filter
<1>5. /\ \A c \in q.columns \cup q.notColumns :
             \/ SearchBar!ColumnValue(r, c[1]) \notin Multiline
             \/ SearchBar!ToSet(c[2]) \cap DOMAIN Globs = {}
      /\ \A a \in q.attributes \cup q.notAttributes :
             \/ SearchBar!StoredAttribute(r, a[1]) \notin Multiline
             \/ SearchBar!ToSet(a[2]) \cap DOMAIN Globs = {}
  BY <1>3 DEF SearchBar!ManyLines
<1>6. \A c \in q.columns :
          (IF SearchBar!Configured(then, c) THEN SearchBar!EnvironmentMatches(then, c[2][1], r.service, r.env)
           ELSE SearchBar!WildcardEquals(SearchBar!ColumnValue(r, c[1]), c[2]))
          <=> SearchBar!ColumnFilter(filter, r, c)
  <2> SUFFICES ASSUME NEW c \in q.columns
               PROVE  (IF SearchBar!Configured(then, c) THEN SearchBar!EnvironmentMatches(then, c[2][1], r.service, r.env)
                       ELSE SearchBar!WildcardEquals(SearchBar!ColumnValue(r, c[1]), c[2]))
                      <=> SearchBar!ColumnFilter(filter, r, c)
    OBVIOUS
  <2>1. then = filter \/ (~SearchBar!Configured(then, c) /\ ~SearchBar!Configured(filter, c))
    BY <1>2, <1>3, <1>4 DEF SearchBar!Outdated
  <2>2. SearchBar!WildcardEquals(SearchBar!ColumnValue(r, c[1]), c[2])
        <=> SearchBar!ValueFilter(SearchBar!ColumnValue(r, c[1]), c[2])
    BY <1>5, SameValue
  <2>3. CASE SearchBar!Configured(filter, c)
    <3>1. SearchBar!Find(filter, c[2][1]) # Null
      BY <2>3 DEF SearchBar!Configured
    <3>2. SearchBar!EnvironmentMatches(filter, c[2][1], r.service, r.env)
          <=> SearchBar!EnvironmentCondition(filter, c[2][1], r.service, r.env)
      BY <3>1, <1>4, SameEnvironment
    <3> QED
      BY <3>2, <2>1, <2>3, Zenon DEF SearchBar!ColumnFilter
  <2>4. CASE ~SearchBar!Configured(filter, c)
    BY <2>1, <2>2, <2>4, Zenon DEF SearchBar!ColumnFilter
  <2> QED
    BY <2>3, <2>4
<1>7. \A c \in q.notColumns :
          SearchBar!WildcardEquals(SearchBar!ColumnValue(r, c[1]), c[2]) <=> SearchBar!ColumnFilter(filter, r, c)
  <2> SUFFICES ASSUME NEW c \in q.notColumns
               PROVE  SearchBar!WildcardEquals(SearchBar!ColumnValue(r, c[1]), c[2]) <=> SearchBar!ColumnFilter(filter, r, c)
    OBVIOUS
  <2>1. ~SearchBar!Configured(filter, c)
    BY <1>3 DEF SearchBar!Excludes
  <2>2. SearchBar!WildcardEquals(SearchBar!ColumnValue(r, c[1]), c[2])
        <=> SearchBar!ValueFilter(SearchBar!ColumnValue(r, c[1]), c[2])
    BY <1>5, SameValue
  <2> QED
    BY <2>1, <2>2, Zenon DEF SearchBar!ColumnFilter
<1>8. \A a \in q.attributes \cup q.notAttributes :
          SearchBar!WildcardEquals(SearchBar!Attribute(r, a[1]), a[2])
          <=> SearchBar!ValueFilter(SearchBar!StoredAttribute(r, a[1]), a[2])
  <2> SUFFICES ASSUME NEW a \in q.attributes \cup q.notAttributes
               PROVE  SearchBar!WildcardEquals(SearchBar!Attribute(r, a[1]), a[2])
                      <=> SearchBar!ValueFilter(SearchBar!StoredAttribute(r, a[1]), a[2])
    OBVIOUS
  <2>1. SearchBar!Attribute(r, a[1]) = SearchBar!StoredAttribute(r, a[1])
    BY <1>3 DEF SearchBar!NullAsked, SearchBar!Attribute, SearchBar!StoredAttribute
  <2>2. SearchBar!WildcardEquals(SearchBar!StoredAttribute(r, a[1]), a[2])
        <=> SearchBar!ValueFilter(SearchBar!StoredAttribute(r, a[1]), a[2])
    BY <1>5, SameValue
  <2> QED
    BY <2>1, <2>2
<1>9. r.severity >= q.severity <=> (q.severity > 0 => r.severity >= q.severity)
  <2>1. \A m, n \in Nat : m >= n <=> (n > 0 => m >= n)
    OBVIOUS
  <2> QED
    BY <1>4, <2>1, Zenon
<1>10. SearchBar!Matches(then, q, r) <=> SearchBar!LogFilters(filter, q, r)
  <2>1. /\ \A a \in q.attributes : SearchBar!WildcardEquals(SearchBar!Attribute(r, a[1]), a[2])
                                   <=> SearchBar!ValueFilter(SearchBar!StoredAttribute(r, a[1]), a[2])
        /\ \A a \in q.notAttributes : SearchBar!WildcardEquals(SearchBar!Attribute(r, a[1]), a[2])
                                      <=> SearchBar!ValueFilter(SearchBar!StoredAttribute(r, a[1]), a[2])
    BY <1>8
  <2> QED
    BY <2>1, <1>6, <1>7, <1>9, Zenon DEF SearchBar!Matches, SearchBar!LogFilters, SearchBar!Exclusions
<1>11. SearchBar!Matches(then, q, r) \in BOOLEAN /\ SearchBar!LogFilters(filter, q, r) \in BOOLEAN
  BY DEF SearchBar!Matches, SearchBar!LogFilters
<1> QED
  BY <1>10, <1>11

-----------------------------------------------------------------------------
(* The search bar: in every behaviour.                                     *)

\* The text is one of the tokens that may be typed, and no longer than the bound.
SearchInv ==
    /\ text \in Seq(SearchTokens) /\ Len(text) <= MaxTokens
    /\ settings \in AllSettings /\ stream \in AllSettings \cup {Null}

\* The bound is a number.
LEMMA MaxTokensType ==
    ASSUME SearchAssumption
    PROVE  MaxTokens \in Nat
BY Zenon DEF SearchAssumption

\* It starts empty, and each step keeps its shape.
LEMMA SearchAlways ==
    ASSUME SearchAssumption
    PROVE  Spec => [](part = "searches" => SearchInv)
<1>1. Init => (part = "searches" => SearchInv)
  <2>1. <<>> \in Seq(SearchTokens) /\ Len(<<>>) = 0
    OBVIOUS
  <2>2. 0 <= MaxTokens
    BY MaxTokensType
  <2> QED
    BY <2>1, <2>2 DEF Init, SearchBar!Init, SearchInv
<1>2. (part = "searches" => SearchInv) /\ [Next]_serviceVars => (part = "searches" => SearchInv)'
  <2> SUFFICES ASSUME part = "searches" => SearchInv, [Next]_serviceVars, part' = "searches"
               PROVE  SearchInv'
    OBVIOUS
  <2>1. CASE serviceVars' = serviceVars
    BY <2>1 DEF serviceVars, searchVars, SearchInv
  <2>2. CASE Next
    <3>1. part = "searches" /\ SearchBar!Next /\ SearchInv
      BY <2>2 DEF Next, InSearches, InDashboards, InProbes, InProfiles
    <3>2. CASE SearchBar!Type
      <4>1. PICK token \in SearchTokens : text' = Append(text, token)
        BY <3>2 DEF SearchBar!Type
      <4>2. Len(text) < MaxTokens /\ settings' = settings /\ text \in Seq(SearchTokens) /\ settings \in AllSettings
        BY <3>1, <3>2 DEF SearchBar!Type, SearchInv
      <4>3. text' \in Seq(SearchTokens) /\ Len(text') = Len(text) + 1
        BY <4>1, <4>2
      <4>4. Len(text) \in Nat /\ MaxTokens \in Nat
        BY <4>2, MaxTokensType
      <4>5. stream' = Null
        BY <3>2 DEF SearchBar!Type
      <4> QED
        BY <4>2, <4>3, <4>4, <4>5 DEF SearchInv
    <3>3. CASE SearchBar!Configure \/ SearchBar!Open \/ SearchBar!Close
      BY <3>1, <3>3 DEF SearchBar!Configure, SearchBar!Open, SearchBar!Close, SearchInv
    <3> QED
      BY <3>1, <3>2, <3>3 DEF SearchBar!Next
  <2> QED
    BY <2>1, <2>2
<1> QED
  BY <1>1, <1>2, PTL DEF Spec

\* The text and the settings are of the shapes that SearchBar gives them, for any tokens and settings.
THEOREM SearchBarTyped ==
    ASSUME SearchAssumption
    PROVE  Spec => [](part = "searches" => SearchBar!TypeOK)
<1>1. ASSUME SearchInv PROVE SearchBar!TypeOK
  <2>1. PICK n \in Nat : n = Len(text)
    BY <1>1 DEF SearchInv
  <2>2. n \in 0 .. MaxTokens /\ text \in [1 .. n -> SearchTokens]
    BY <1>1, <2>1, MaxTokensType DEF SearchInv
  <2>3. text \in SearchBar!BoundedSeq(SearchTokens, MaxTokens)
    BY <2>2, Zenon DEF SearchBar!BoundedSeq, SearchBar!SeqOf
  <2> QED
    BY <1>1, <2>3 DEF SearchInv, SearchBar!TypeOK
<1> QED
  BY <1>1, SearchAlways, PTL

\* SearchQuery.cs:157, SegmentIndex.cs: a segment that a search does not open holds no log that the search
\* would return, for any text, logs, settings, size of the filter and hashes, but crashes without a
\* fingerprint when crash:true is asked.
THEOREM NoAnswerIsPruned ==
    ASSUME SearchAssumption
    PROVE  Spec => []PrunedHoldsNoMatch
<1>1. (part = "searches" => SearchInv) => PrunedHoldsNoMatch
  BY PrunedNothing DEF SearchInv, PrunedHoldsNoMatch
<1> QED
  BY <1>1, SearchAlways, PTL

\* SearchQuery.cs:172 and 239, EnvironmentFilter.cs: an open live tail shows a log when and only when a
\* search of the same text returns it, for any text, logs and settings, through any changes of these, but for
\* the four differences of SearchBar: an excluded environment, a stream opened under other settings, a JSON
\* null, a value of several lines before a pattern.  A pattern is taken to stand for the same values of one
\* line in both.
THEOREM LiveTailIsTheSearch ==
    ASSUME SearchAssumption
    PROVE  Spec => []LiveAgreesWithSearch
<1>1. (part = "searches" => SearchInv) => LiveAgreesWithSearch
  BY LiveIsSearch DEF SearchInv, LiveAgreesWithSearch
<1> QED
  BY <1>1, SearchAlways, PTL

=============================================================================
