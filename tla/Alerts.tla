-------------------------------- MODULE Alerts --------------------------------
(***************************************************************************)
(* The alert engine of Wolflog.Server (Monitoring/AlertEngine.cs).         *)
(*                                                                         *)
(* A run evaluates every enabled rule, applies the results to the states   *)
(* in memory, sends the notifications, and saves the states.  The timer    *)
(* starts one every thirty seconds, and POST /alerts/run starts another at *)
(* any time: the two share the states, under a lock that they hold neither *)
(* while they evaluate nor while they send.                                *)
(*                                                                         *)
(* Data abstraction: what a query finds for a key is "absent", "quiet" or  *)
(* "bad"; a date is its age in ticks of the timer, exact below MaxAge; a   *)
(* notification is its alert and status.  Whom it reaches is left out (the *)
(* channels, the mute, a refusal by a channel, which is not retried): it   *)
(* counts as told once it was sent.  A client of POST /alerts/run that     *)
(* leaves, which cancels its run, is left out.                             *)
(***************************************************************************)
EXTENDS Naturals, FiniteSets

CONSTANTS
    Runners,     \* what starts runs: "timer", "api"
    Rules,       \* rules, in the order of their numbers
    Keys,        \* services, groups or error fingerprints of a rule
    Settings,    \* records [event, delay, repeat]: IsEvent, ForMinutes, RepeatMinutes
    Window,      \* ticks for which an event keeps its state (WindowMinutes)
    OkKept,      \* ticks after which a healthy state is removed (one hour)
    MaxAge,      \* ages are counted up to it
    MaxRunTicks, \* bound on the ticks that pass during a run
    MaxCrashes,  \* bound on the ends of the process
    MaxErrors,   \* bound on failed evaluations and writes
    NotLoaded,   \* the known errors before the first evaluation
    NoAlert      \* no alert

ASSUME ConstantsAssumption ==
    /\ Rules \subseteq Nat /\ Settings # {}
    /\ \A c \in Settings : c.event \in BOOLEAN /\ c.delay \in Nat /\ c.repeat \in Nat
    /\ Window \in Nat /\ OkKept \in Nat /\ MaxRunTicks \in Nat
    /\ MaxCrashes \in Nat /\ MaxErrors \in Nat
    /\ MaxAge \in Nat /\ MaxAge > MaxRunTicks + OkKept
    /\ MaxAge >= MaxRunTicks + Window

VARIABLES
    setting,  \* rule -> its settings
    enabled,  \* rules that are enabled
    hours,    \* whether the rules are in their hours of activity (ActiveAt)
    data,     \* alert -> what a query would find now
    past,     \* errors stored so far
    base,     \* _knownErrors
    known,    \* event rule -> _knownByRule
    states,   \* alert -> its state in memory, or NoState
    saved,    \* alert -> its state in alert-states.json, or NoState
    told,     \* alert -> last notification sent (history)
    run,      \* runner -> where its run stands
    due,      \* the timer has a tick to serve
    crashes, errors

engineVars == <<base, known, states, run, due>>
worldVars  == <<setting, enabled, hours, data, past>>
boundVars  == <<crashes, errors>>
vars == <<worldVars, engineVars, saved, told, boundVars>>

Alerts == Rules \X Keys
Ages   == 0 .. MaxAge
Never  == MaxAge + 1

NoState == [status |-> "none", since |-> 0, last |-> Never, seen |-> Never]
Nothing == [a \in Alerts |-> NoState]
Idle    == [at |-> "idle", ago |-> 0, rules |-> {}, left |-> {}, rule |-> 0,
            results |-> [k \in Keys |-> "absent"], mail |-> {}, sent |-> NoAlert,
            changed |-> FALSE, copy |-> Nothing]

Older(age) == IF age < MaxAge THEN age + 1 ELSE age
Aged(S) == [a \in Alerts |->
              IF S[a] = NoState THEN NoState
              ELSE [S[a] EXCEPT !.since = Older(@), !.last = Older(@), !.seen = Older(@)]]

-----------------------------------------------------------------------------
Init ==
    /\ setting \in [Rules -> Settings]
    /\ enabled = Rules /\ hours = TRUE
    /\ data = [a \in Alerts |-> "absent"] /\ past = {}
    /\ base = NotLoaded /\ known = [r \in Rules |-> NotLoaded]
    /\ states = Nothing /\ saved = Nothing
    /\ told = [a \in Alerts |-> "nothing"]
    /\ run = [x \in Runners |-> Idle] /\ due = TRUE
    /\ crashes = 0 /\ errors = 0

-----------------------------------------------------------------------------
(* Evaluation of a rule.                                                   *)

\* What was stored before the first evaluation is known to every rule; a rule
\* evaluated later for the first time also knows what the others have seen.
Known(r) ==
    IF known[r] # NotLoaded THEN known[r]
    ELSE (IF base = NotLoaded THEN past ELSE base)
         \cup UNION {known[q] : q \in {q \in Rules : known[q] # NotLoaded}}

Found(r) == {k \in Keys : data[<<r, k>>] # "absent"}

\* A condition is in breach or not for each key found; an event rule reports
\* the errors that are new to it, and those that came back after a resolution.
Results(r) ==
    [k \in Keys |->
       IF k \notin Found(r) THEN "absent"
       ELSE IF ~setting[r].event THEN data[<<r, k>>]
       ELSE IF k \notin Known(r) \/ data[<<r, k>>] = "bad" THEN "bad" ELSE "absent"]

-----------------------------------------------------------------------------
(* ApplyAsync, for one alert of rule r: s is its state, found its result,  *)
(* and ago the age of the date of the run.                                 *)

Elapsed(age, ago, ticks) == age >= ago + ticks

\* Mutant: the status is written otherwise than it is read.
Fired_misspelt(s, ago) == [state |-> [s EXCEPT !.status = "fired", !.since = ago],
                           tell  |-> {"firing"}]

Fired(s, ago) == [state |-> [s EXCEPT !.status = "firing", !.since = ago],
                  tell  |-> {"firing"}]

\* Mutant: the state is healthy again, and nobody is told.
Resolved_silent(s, ago) ==
    [state |-> IF s.status = "ok" THEN s
               ELSE [s EXCEPT !.status = "ok", !.since = ago],
     tell  |-> {}]

Resolved(s, ago) ==
    [state |-> IF s.status = "ok" THEN s
               ELSE [s EXCEPT !.status = "ok", !.since = ago],
     tell  |-> IF s.status = "firing" THEN {"resolved"} ELSE {}]

\* Mutant: a pending state starts its delay again at each evaluation.
Breached_restarted(r, s, ago) ==
    LET c == setting[r]
        fires == hours /\ (c.event \/ c.delay = 0)
    IN  IF s.status \in {"ok", "pending"} /\ fires THEN Fired(s, ago)
        ELSE [state |-> IF s.status = "firing" THEN s
                        ELSE [s EXCEPT !.status = "pending", !.since = ago],
              tell  |-> {}]

Breached(r, s, ago) ==
    LET c == setting[r]
        fires == /\ hours
                 /\ \/ c.event
                    \/ s.status = "ok" /\ c.delay = 0
                    \/ s.status = "pending" /\ Elapsed(s.since, ago, c.delay)
        again == /\ hours /\ s.status = "firing" /\ c.repeat > 0
                 /\ s.last # Never /\ Elapsed(s.last, ago, c.repeat)
    IN  IF s.status # "firing" /\ fires THEN Fired(s, ago)
        ELSE [state |-> IF s.status = "ok"
                          THEN [s EXCEPT !.status = "pending", !.since = ago] ELSE s,
              tell  |-> IF again THEN {"firing"} ELSE {}]

Evaluated(r, s, found, ago) ==
    LET fresh == IF s = NoState THEN [s EXCEPT !.status = "ok", !.since = ago] ELSE s
        now   == [fresh EXCEPT !.seen = IF setting[r].event THEN ago ELSE Never]
    IN  IF found = "bad" THEN Breached(r, now, ago)
        ELSE IF s = NoState THEN [state |-> s, tell |-> {}]
        ELSE Resolved(now, ago)

\* Mutant: an event that waits for its hours passes like another.
NotEvaluated_expired(r, s, ago) ==
    IF s = NoState THEN [state |-> s, tell |-> {}]
    ELSE IF ~setting[r].event THEN Resolved(s, ago)
    ELSE [state |-> IF Elapsed(s.seen, ago, Window) THEN NoState ELSE s, tell |-> {}]

\* The event has passed, or the group is gone.
NotEvaluated(r, s, ago) ==
    IF s = NoState THEN [state |-> s, tell |-> {}]
    ELSE IF ~setting[r].event THEN Resolved(s, ago)
    ELSE IF s.status = "pending"
      THEN IF hours THEN Fired(s, ago) ELSE [state |-> s, tell |-> {}]
    ELSE [state |-> IF Elapsed(s.seen, ago, Window) THEN NoState ELSE s, tell |-> {}]

Outcome(r, s, found, ago) ==
    LET o == IF found = "absent" THEN NotEvaluated(r, s, ago)
             ELSE Evaluated(r, s, found, ago)
    IN  IF o.state.status = "ok" /\ Elapsed(o.state.since, ago, OkKept + 1)
          THEN [o EXCEPT !.state = NoState] ELSE o

-----------------------------------------------------------------------------
(* RunOnceAsync, in runner x.                                              *)

At(x, at) == run' = [run EXCEPT ![x].at = at]
Ends(x)   == run' = [run EXCEPT ![x] = Idle]
Fails     == errors < MaxErrors /\ errors' = errors + 1

Begin(x) ==
    /\ run[x].at = "idle" /\ (x = "timer" => due)
    /\ due' = (due /\ x # "timer")
    /\ run' = [run EXCEPT ![x] = [Idle EXCEPT !.at = "rule", !.rules = enabled,
                                             !.left = enabled]]
    /\ UNCHANGED <<worldVars, base, known, states, saved, told, boundVars>>

First(S) == CHOOSE r \in S : \A q \in S : r <= q

Evaluate(x) ==
    /\ run[x].at = "rule" /\ run[x].left # {}
    /\ LET r == First(run[x].left) IN
         /\ run' = [run EXCEPT ![x].at = "apply", ![x].rule = r,
                               ![x].left = @ \ {r}, ![x].results = Results(r)]
         /\ known' = [known EXCEPT ![r] =
                        IF setting[r].event THEN Known(r) \cup Found(r) ELSE @]
         /\ base' = IF setting[r].event /\ base = NotLoaded THEN past ELSE base
    /\ UNCHANGED <<worldVars, states, saved, told, due, boundVars>>

\* A query fails: the rule is skipped this time.
EvaluateFails(x) ==
    /\ run[x].at = "rule" /\ run[x].left # {} /\ Fails
    /\ run' = [run EXCEPT ![x].left = @ \ {First(@)}]
    /\ UNCHANGED <<worldVars, base, known, states, saved, told, due, crashes>>

\* Mutant: the notifications are dropped as for a rule that has no channel left.
AfterApply_dropped(mail) == "rule"

\* The notifications come before the next rule.
AfterApply(mail) == IF mail = {} THEN "rule" ELSE "mail"

Apply(x) ==
    /\ run[x].at = "apply"
    /\ LET r      == run[x].rule
           out(k) == Outcome(r, states[<<r, k>>], run[x].results[k], run[x].ago)
           mail   == UNION {{<<<<r, k>>, t>> : t \in out(k).tell} : k \in Keys}
       IN  /\ states' = [a \in Alerts |-> IF a[1] = r THEN out(a[2]).state ELSE states[a]]
           /\ run' = [run EXCEPT
                ![x].at = AfterApply(mail), ![x].mail = mail,
                ![x].changed = @ \/ \E a \in Alerts : states'[a].status # states[a].status]
    /\ UNCHANGED <<worldVars, base, known, saved, told, due, boundVars>>

\* The notification leaves.  Then the channels save its date: if that fails, the
\* run ends there, and what it had left to send is never sent.
Send(x) ==
    /\ run[x].at = "mail"
    /\ \E m \in run[x].mail :
         /\ told' = [told EXCEPT ![m[1]] = m[2]]
         /\ \/ /\ run' = [run EXCEPT ![x].at = "mark", ![x].mail = @ \ {m},
                                     ![x].sent = m[1]]
               /\ UNCHANGED errors
            \/ Ends(x) /\ Fails
    /\ UNCHANGED <<worldVars, base, known, states, saved, due, crashes>>

Marked(x) ==
    LET a == run[x].sent IN
    states' = [states EXCEPT ![a].last =
                 IF states[a] # NoState /\ setting[a[1]].repeat > 0
                   THEN run[x].ago ELSE @]

\* LastNotifiedAt, then the alert enters the history.
Mark(x) ==
    /\ run[x].at = "mark" /\ Marked(x)
    /\ run' = [run EXCEPT ![x].at = AfterApply(run[x].mail),
                          ![x].sent = NoAlert, ![x].changed = TRUE]
    /\ UNCHANGED <<worldVars, base, known, saved, told, due, boundVars>>

\* The history cannot be written: the run ends there.
MarkFails(x) ==
    /\ run[x].at = "mark" /\ Marked(x)
    /\ Ends(x) /\ Fails
    /\ UNCHANGED <<worldVars, base, known, saved, told, due, crashes>>

\* The states of the rules that were disabled or deleted when the run began.
Orphans(x) == {a \in Alerts : a[1] \notin run[x].rules /\ states[a] # NoState}

RemoveOrphans(x) ==
    /\ run[x].at = "rule" /\ run[x].left = {}
    /\ states' = [a \in Alerts |-> IF a \in Orphans(x) THEN NoState ELSE states[a]]
    /\ told' = [a \in Alerts |-> IF a \in Orphans(x) THEN "dropped" ELSE told[a]]
    /\ IF run[x].changed \/ Orphans(x) # {} THEN At(x, "copy") ELSE Ends(x)
    /\ UNCHANGED <<worldVars, base, known, saved, due, boundVars>>

CopyStates(x) ==
    /\ run[x].at = "copy"
    /\ run' = [run EXCEPT ![x].at = "save", ![x].copy = states]
    /\ UNCHANGED <<worldVars, base, known, states, saved, told, due, boundVars>>

Save(x) ==
    /\ run[x].at = "save"
    /\ saved' = run[x].copy /\ Ends(x)
    /\ UNCHANGED <<worldVars, base, known, states, told, due, boundVars>>

SaveFails(x) ==
    /\ run[x].at = "save" /\ Fails /\ Ends(x)
    /\ UNCHANGED <<worldVars, base, known, states, saved, told, due, crashes>>

-----------------------------------------------------------------------------
(* Time, the data, the editors of the rules and the end of the process.    *)

Tick ==
    /\ \A x \in Runners : run[x].at # "idle" => run[x].ago < MaxRunTicks
    /\ due' = TRUE
    /\ states' = Aged(states) /\ saved' = Aged(saved)
    /\ run' = [x \in Runners |->
                 IF run[x].at = "idle" THEN Idle
                 ELSE [run[x] EXCEPT !.ago = @ + 1, !.copy = Aged(@)]]
    /\ UNCHANGED <<worldVars, base, known, told, boundVars>>

DataChange(a) ==
    /\ \E d \in {"absent", "quiet", "bad"} \ {data[a]} : data' = [data EXCEPT ![a] = d]
    /\ past' = IF data'[a] # "absent" THEN past \cup {a[2]} ELSE past
    /\ UNCHANGED <<setting, enabled, hours, engineVars, saved, told, boundVars>>

ToggleRule(r) ==
    /\ enabled' = (enabled \ {r}) \cup ({r} \ enabled)
    /\ UNCHANGED <<setting, hours, data, past, engineVars, saved, told, boundVars>>

HoursChange ==
    /\ hours' = ~hours
    /\ UNCHANGED <<setting, enabled, data, past, engineVars, saved, told, boundVars>>

\* The process ends, and starts again from the saved states.
Crash ==
    /\ crashes < MaxCrashes /\ crashes' = crashes + 1
    /\ states' = saved /\ run' = [x \in Runners |-> Idle] /\ due' = TRUE
    /\ base' = NotLoaded /\ known' = [r \in Rules |-> NotLoaded]
    /\ UNCHANGED <<worldVars, saved, told, errors>>

-----------------------------------------------------------------------------
Continue(x) ==
    \/ Evaluate(x) \/ Apply(x) \/ Send(x) \/ Mark(x)
    \/ RemoveOrphans(x) \/ CopyStates(x) \/ Save(x)

Next ==
    \/ \E x \in Runners :
         Begin(x) \/ Continue(x) \/ EvaluateFails(x) \/ MarkFails(x) \/ SaveFails(x)
    \/ \E a \in Alerts : DataChange(a)
    \/ \E r \in Rules : ToggleRule(r)
    \/ Tick \/ HoursChange \/ Crash

Spec == Init /\ [][Next]_vars

\* The timer ticks and starts its runs, and a run goes on (a notification has a
\* timeout of 15 s).
FairSpec ==
    /\ Spec /\ WF_vars(Tick)
    /\ \A x \in Runners : WF_vars(Continue(x)) /\ WF_vars(x = "timer" /\ Begin(x))

-----------------------------------------------------------------------------
(* Properties.                                                             *)

StateType == [status : {"none", "ok", "pending", "firing"}, since : Ages,
              last : Ages \cup {Never}, seen : Ages \cup {Never}]

Runs == [at : {"idle", "rule", "apply", "mail", "mark", "copy", "save"},
         ago : 0 .. MaxRunTicks, rules : SUBSET Rules, left : SUBSET Rules,
         rule : Rules \cup {0}, results : [Keys -> {"absent", "quiet", "bad"}],
         mail : SUBSET (Alerts \X {"firing", "resolved"}),
         sent : Alerts \cup {NoAlert}, changed : BOOLEAN,
         copy : [Alerts -> StateType]]

WorldType ==
    /\ setting \in [Rules -> Settings] /\ enabled \subseteq Rules /\ hours \in BOOLEAN
    /\ data \in [Alerts -> {"absent", "quiet", "bad"}] /\ past \subseteq Keys
KnownType ==
    /\ base \in (SUBSET Keys) \cup {NotLoaded}
    /\ known \in [Rules -> (SUBSET Keys) \cup {NotLoaded}]
StatesType == states \in [Alerts -> StateType] /\ saved \in [Alerts -> StateType]
ToldType   == told \in [Alerts -> {"nothing", "firing", "resolved", "dropped"}]
RunType    == run \in [Runners -> Runs]
BoundsType == due \in BOOLEAN /\ crashes \in 0 .. MaxCrashes /\ errors \in 0 .. MaxErrors

\* Every variable has its type.
TypeOK ==
    /\ WorldType /\ KnownType /\ StatesType /\ ToldType /\ RunType /\ BoundsType

Quiescent == \A x \in Runners : run[x].at = "idle"

OneKey == \A k, l \in Keys : k = l

\* A run that fails as it sends drops the notifications that it still had: the
\* others of its rule, if there are any.
NoneDropped == errors = 0 \/ OneKey

\* Between runs, as long as the process has not restarted and no notification was
\* dropped, the last word that the team had about a condition is the state of its
\* alert: a "resolved" never overtakes a "firing", and neither is forgotten
\* ("Notifie a l'activation, a la resolution").
LastWord ==
    Quiescent /\ crashes = 0 /\ NoneDropped =>
        \A a \in Alerts : ~setting[a[1]].event =>
            (states[a].status = "firing" <=> told[a] = "firing")

\* Once told that an alert is resolved, the team is told that it fires only when
\* it fires again ("ok, en attente, active, resolue").
NoLateFiring ==
    [][\A a \in Alerts :
          told[a] = "resolved" /\ told'[a] = "firing" => states[a].status = "firing"]_vars

\* A firing alert that a restart would find has been told, unless a failed run
\* dropped its notification: the engine would go on with it, and only tell its
\* reminders.
SavedFiringWasTold ==
    NoneDropped => \A a \in Alerts : saved[a].status = "firing" => told[a] # "nothing"

\* A condition that stays bad is told in the end, through failures and changes of
\* its rule, and it stays the last word as long as the process does not restart.
LastingBreachIsTold ==
    \A a \in Alerts :
        <>[](/\ data[a] = "bad" /\ a[1] \in enabled /\ hours
             /\ ~setting[a[1]].event /\ crashes = 0)
            => <>[](told[a] = "firing")

\* A new error is told even if it came outside the hours of its rule ("signale au
\* debut de la plage suivante"), whatever other evaluations fail meanwhile.
NewErrorIsTold ==
    \A a \in Alerts :
        (/\ [](setting[a[1]].event /\ a[1] \in enabled /\ crashes = 0)
         /\ <>(known[a[1]] # NotLoaded /\ a[2] \notin known[a[1]])
         /\ <>[](data[a] # "absent" /\ hours))
            => <>(told[a] = "firing")
=============================================================================
