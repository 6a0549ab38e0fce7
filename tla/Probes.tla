-------------------------------- MODULE Probes --------------------------------
(***************************************************************************)
(* A probe (Monitoring/ProbeEngine.cs): the loop of the engine looks at it *)
(* every second and launches its check when it is time, people test it by  *)
(* hand, change it, pause it and remove it (Api/MonitoringEndpoints.cs),   *)
(* and the server restarts.                                                *)
(*                                                                         *)
(* Moments go round a day of Day of them, of which a plan with fixed hours *)
(* selects some.  A turn of the loop is short beside a moment; many turns  *)
(* may go by between two moments, and many moments between two turns.      *)
(***************************************************************************)
EXTENDS Naturals

CONSTANTS
    Day,            \* the number of moments of a day
    Hours,          \* the fixed hours of each plan; none for a plan that is an interval
    Interval,       \* the number of moments of the interval
    FailuresBeforeDown,
    MaxActs,        \* bound: changes of the probe, tests by hand and restarts
    Null            \* no probe, no entry

VARIABLES
    moment,         \* of the day
    probe,          \* what ProbeStore holds: enabled or not, and its plan
    turn,           \* the loop: between two turns, or its step in one
    copy,           \* the copy that probes.All() gave the loop
    nextRun,        \* _nextRun: how many moments are left, and the plan it comes from
    running,        \* whether running holds the probe
    check,          \* of the task of the loop and of a test by hand: its step
    state,          \* _states: the status and the failures in a row
    acts,
    \* history
    hourCame,       \* an hour of the plan of nextRun has come since the last look at the probe
    missed,         \* a look after such an hour found the probe paused, removed or still being checked
    overtaken,      \* a task ended before the loop had entered it in running
    wrongHour       \* a check of a probe with fixed hours was launched at no hour, none being missed

probeVars == <<moment, probe, turn, copy, nextRun, running, check, state, acts,
               hourCame, missed, overtaken, wrongHour>>

Plans == DOMAIN Hours
HasSchedule(p) == Hours[p.plan] # {}
Probe == [enabled : BOOLEAN, plan : Plans]
Tasks == {"loop", "hand"}

TypeOK ==
    /\ moment \in 0..(Day - 1)
    /\ probe \in Probe \cup {Null} /\ copy \in Probe \cup {Null}
    /\ turn \in {"waits", "looks", "enters", "cleans"}
    /\ nextRun = Null \/ nextRun \in [left : 0..(Day + Interval), plan : Plans]
    /\ running \in BOOLEAN
    /\ check \in [Tasks -> {"none", "checks", "records"}]
    /\ state = Null \/ state \in [status : {"unknown", "up", "down"}, failures : 0..FailuresBeforeDown]
    /\ acts \in 0..MaxActs
    /\ {hourCame, missed, overtaken, wrongHour} \subseteq BOOLEAN

Init ==
    /\ moment = 0
    /\ probe \in {Null} \cup [enabled : {TRUE}, plan : Plans]
    /\ turn = "waits" /\ copy = Null /\ nextRun = Null /\ running = FALSE
    /\ check = [t \in Tasks |-> "none"]
    /\ state = Null
    /\ acts = 0
    /\ hourCame = FALSE /\ missed = FALSE /\ overtaken = FALSE /\ wrongHour = FALSE

\* The hour that has come is the next one again.
NextScheduled_included(plan) ==
    CHOOSE d \in 0..Day :
        /\ (moment + d) % Day \in Hours[plan]
        /\ \A e \in 0..(d - 1) : (moment + e) % Day \notin Hours[plan]

\* How many moments until the next fixed hour, strictly after this one.
NextScheduled(plan) ==
    CHOOSE d \in 1..Day :
        /\ (moment + d) % Day \in Hours[plan]
        /\ \A e \in 1..(d - 1) : (moment + e) % Day \notin Hours[plan]

-----------------------------------------------------------------------------
\* Time and people.

Clock ==
    /\ turn = "waits"
    /\ moment' = (moment + 1) % Day
    /\ nextRun' = IF nextRun # Null /\ nextRun.left > 0 THEN [nextRun EXCEPT !.left = @ - 1] ELSE nextRun
    /\ hourCame' = (hourCame \/ (nextRun # Null /\ moment' \in Hours[nextRun.plan]))
    /\ UNCHANGED <<probe, turn, copy, running, check, state, acts, missed, overtaken, wrongHour>>

Edit(new) ==
    /\ acts < MaxActs /\ new # probe
    /\ acts' = acts + 1
    /\ probe' = new
    /\ UNCHANGED <<moment, turn, copy, nextRun, running, check, state,
                   hourCame, missed, overtaken, wrongHour>>

\* POST /probes, PUT /probes/{id}, DELETE /probes/{id}.
Create == probe = Null /\ \E new \in [enabled : {TRUE}, plan : Plans] : Edit(new)
Put    == probe # Null /\ \E new \in Probe : Edit(new)
Delete == probe # Null /\ Edit(Null)

\* POST /probes/test of a probe that exists.
Test ==
    /\ acts < MaxActs /\ probe # Null /\ check["hand"] = "none"
    /\ acts' = acts + 1
    /\ check' = [check EXCEPT !["hand"] = "checks"]
    /\ UNCHANGED <<moment, probe, turn, copy, nextRun, running, state,
                   hourCame, missed, overtaken, wrongHour>>

\* All is in memory but the probe.
Restart ==
    /\ acts < MaxActs
    /\ acts' = acts + 1
    /\ turn' = "waits" /\ copy' = Null /\ nextRun' = Null /\ running' = FALSE
    /\ check' = [t \in Tasks |-> "none"]
    /\ state' = Null
    /\ hourCame' = FALSE /\ missed' = FALSE /\ overtaken' = FALSE
    /\ UNCHANGED <<moment, probe, wrongHour>>

-----------------------------------------------------------------------------
\* One turn of the loop.

ReadAll ==
    /\ turn = "waits"
    /\ turn' = "looks"
    /\ copy' = probe
    /\ UNCHANGED <<moment, probe, nextRun, running, check, state, acts,
                   hourCame, missed, overtaken, wrongHour>>

Known == nextRun # Null /\ nextRun.plan = copy.plan
Watched == copy # Null /\ copy.enabled /\ ~running
AtHour(plan) == [left |-> NextScheduled(plan), plan |-> plan]

\* Nothing to launch; a fixed hour that was not known is only noted.
Skip ==
    /\ turn = "looks"
    /\ \/ ~Watched /\ UNCHANGED nextRun
       \/ /\ Watched /\ HasSchedule(copy) /\ ~Known
          /\ nextRun' = AtHour(copy.plan)
       \/ Watched /\ Known /\ nextRun.left > 0 /\ UNCHANGED nextRun
    /\ missed' = ((missed \/ (~Watched /\ hourCame)) /\ nextRun' = nextRun)
    /\ hourCame' = FALSE
    /\ turn' = "cleans"
    /\ UNCHANGED <<moment, probe, copy, running, check, state, acts, overtaken, wrongHour>>

\* Task.Run: the task may begin, and end, before the loop enters it in running.
Launch ==
    /\ turn = "looks" /\ Watched
    /\ IF HasSchedule(copy) THEN Known /\ nextRun.left = 0 ELSE Known => nextRun.left = 0
    /\ nextRun' = IF HasSchedule(copy) THEN AtHour(copy.plan) ELSE [left |-> Interval, plan |-> copy.plan]
    /\ check' = [check EXCEPT !["loop"] = "checks"]
    /\ wrongHour' = (wrongHour \/ (HasSchedule(copy) /\ ~hourCame /\ ~missed))
    /\ hourCame' = FALSE /\ missed' = FALSE
    /\ turn' = "enters"
    /\ UNCHANGED <<moment, probe, copy, running, state, acts, overtaken>>

Enter ==
    /\ turn = "enters"
    /\ running' = TRUE
    /\ overtaken' = (overtaken \/ check["loop"] = "none")
    /\ turn' = "cleans"
    /\ UNCHANGED <<moment, probe, copy, nextRun, check, state, acts, hourCame, missed, wrongHour>>

\* What is known of a probe that is gone is forgotten.
Clean ==
    /\ turn = "cleans"
    /\ IF probe = Null THEN state' = Null /\ nextRun' = Null ELSE UNCHANGED <<state, nextRun>>
    /\ turn' = "waits"
    /\ copy' = Null
    /\ UNCHANGED <<moment, probe, running, check, acts, hourCame, missed, overtaken, wrongHour>>

-----------------------------------------------------------------------------
\* RunAsync, by the loop or by hand.

Fresh == [status |-> "unknown", failures |-> 0]

\* The count of failures is kept up to the one that makes the probe down; beyond, it decides nothing.
Counted(s, ok) ==
    LET failures == IF ok THEN 0 ELSE IF s.failures < FailuresBeforeDown THEN s.failures + 1 ELSE s.failures
    IN  [status   |-> IF ok THEN "up" ELSE IF failures = FailuresBeforeDown THEN "down" ELSE s.status,
         failures |-> failures]

\* The result enters the state, which a probe that is gone gets anew.
Result(t) ==
    /\ check[t] = "checks"
    /\ \E ok \in BOOLEAN : state' = Counted(IF state = Null THEN Fresh ELSE state, ok)
    /\ check' = [check EXCEPT ![t] = "records"]
    /\ UNCHANGED <<moment, probe, turn, copy, nextRun, running, acts,
                   hourCame, missed, overtaken, wrongHour>>

\* An exception on the way leaves the probe in running.
EndOfTask_resultOnly(t) ==
    /\ check[t] # "none"
    /\ check' = [check EXCEPT ![t] = "none"]
    /\ running' = IF t = "loop" /\ check[t] = "records" THEN FALSE ELSE running
    /\ UNCHANGED <<moment, probe, turn, copy, nextRun, state, acts, hourCame, missed, overtaken, wrongHour>>

\* After the metrics, or an exception on the way.
EndOfTask(t) ==
    /\ check[t] # "none"
    /\ check' = [check EXCEPT ![t] = "none"]
    /\ running' = IF t = "loop" THEN FALSE ELSE running
    /\ UNCHANGED <<moment, probe, turn, copy, nextRun, state, acts,
                   hourCame, missed, overtaken, wrongHour>>

Loop == ReadAll \/ Skip \/ Launch \/ Enter \/ Clean
Next == Clock \/ Create \/ Put \/ Delete \/ Test \/ Restart \/ Loop \/ \E t \in Tasks : Result(t) \/ EndOfTask(t)

-----------------------------------------------------------------------------
\* Probe.cs:3: a probe that stays enabled is checked again and again, whatever its plan, unless its
\* task ended before the loop had entered it (ProbeEngine.cs:57 and :61), which stops it for good.
GoesOn ==
    probe # Null /\ probe.enabled ~> \/ check["loop"] = "checks"
                                     \/ probe = Null \/ ~probe.enabled
                                     \/ overtaken

\* ProbeEngine.cs:43, "jamais au démarrage ni à l'enregistrement, seulement à l'heure prévue": a
\* check is launched at the first look after one of the fixed hours.  A probe that this look found
\* paused, removed or still being checked is apart, and contradicts that line: nextRun is kept, and
\* the probe is checked as soon as a save enables it again, or its check ends.
OnlyAtItsHours == ~wrongHour

=============================================================================
