------------------------------- MODULE Profiles -------------------------------
(***************************************************************************)
(* Profiles on demand.  A person asks for the profile of a service; an     *)
(* instance of it that polls takes the request (ProfileStore.Poll), makes  *)
(* the profile and sends it (Wolflog.Client.Profiling/ProfilingAgent.cs,   *)
(* Api/ProfilingEndpoints.cs); whoever looks at the list fails the         *)
(* requests that are too old (ProfileStore.Expire).                        *)
(*                                                                         *)
(* Each call to the collection is one step.  The stacks of a profile, a     *)
(* file of its own, are left out.                                          *)
(***************************************************************************)
EXTENDS Naturals, FiniteSets

CONSTANTS
    Profiles,      \* the requests
    Instances,     \* the instances of the service
    MaxMishaps,    \* bound: calls that fail, ends of an instance, removals
    Null           \* nothing

VARIABLES
    info,          \* the collection: of each request its status, whom it is for, and whether it is old
    agent,         \* of each instance: its step, the requests it is given, and the one it works on
    looking,       \* GET /profiles: the requests to fail
    mishaps,
    \* history
    taken,         \* how many instances were given each request
    together       \* the requests seen by two polls at once

profileVars == <<info, agent, looking, mishaps, taken, together>>

Anyone == "*"
NoAgent == [step |-> "idle", seen |-> {}, given |-> {}, current |-> Null]

TypeOK ==
    /\ info \in [Profiles -> {Null} \cup [status : {"pending", "running", "done", "failed"},
                                          for : Instances \cup {Anyone}, old : BOOLEAN]]
    /\ agent \in [Instances -> [step : {"idle", "polls", "runs", "sends", "saves"},
                                seen : SUBSET Profiles, given : SUBSET Profiles, current : Profiles \cup {Null}]]
    /\ looking \subseteq Profiles
    /\ mishaps \in 0..MaxMishaps
    /\ taken \in [Profiles -> 0..Cardinality(Instances)] /\ together \subseteq Profiles

Init ==
    /\ info = [p \in Profiles |-> Null]
    /\ looking = {}
    /\ agent = [i \in Instances |-> NoAgent]
    /\ mishaps = 0
    /\ taken = [p \in Profiles |-> 0] /\ together = {}

\* An instance with these requests to run, one by one; with none it rests.
Working(given) == IF given = {} THEN NoAgent ELSE [NoAgent EXCEPT !.step = "runs", !.given = given]

\* Request p has been given to an instance; after the last one the poll answers.
Handed(a, p) ==
    IF a.seen = {p} THEN Working(a.given \cup {p}) ELSE [a EXCEPT !.seen = @ \ {p}, !.given = @ \cup {p}]

Waiting(p) == info[p] # Null /\ info[p].status \in {"pending", "running"}

\* JsonCollection.Update: nothing when the item is gone.
Updated(p, record) == IF info[p] = Null THEN info ELSE [info EXCEPT ![p] = record]

-----------------------------------------------------------------------------
\* People.

\* Identifiers are new: a request is made once.
Request(p) ==
    /\ info[p] = Null /\ taken[p] = 0
    /\ \A i \in Instances : p \notin agent[i].seen \cup agent[i].given /\ agent[i].current # p
    /\ \E for \in Instances \cup {Anyone} :
           info' = [info EXCEPT ![p] = [status |-> "pending", for |-> for, old |-> FALSE]]
    /\ UNCHANGED <<agent, looking, mishaps, taken, together>>

\* Its time has passed: Seconds + 90.
Ages(p) ==
    /\ Waiting(p) /\ ~info[p].old
    /\ info' = [info EXCEPT ![p].old = TRUE]
    /\ UNCHANGED <<agent, looking, mishaps, taken, together>>

\* A request that an instance has taken never grows too old.
Look_pendingOnly ==
    /\ looking = {}
    /\ looking' = {p \in Profiles : info[p] # Null /\ info[p].status = "pending" /\ info[p].old}
    /\ looking' # {}
    /\ UNCHANGED <<info, agent, mishaps, taken, together>>

\* Expire: the list, then each of its requests.
Look ==
    /\ looking = {}
    /\ looking' = {p \in Profiles : Waiting(p) /\ info[p].old}
    /\ looking' # {}
    /\ UNCHANGED <<info, agent, mishaps, taken, together>>

Expire(p) ==
    /\ p \in looking
    /\ looking' = looking \ {p}
    /\ info' = Updated(p, [info[p] EXCEPT !.status = "failed"])
    /\ UNCHANGED <<agent, mishaps, taken, together>>

\* Remove.
Remove(p) ==
    /\ info[p] # Null /\ mishaps < MaxMishaps
    /\ mishaps' = mishaps + 1
    /\ info' = [info EXCEPT ![p] = Null]
    /\ UNCHANGED <<agent, looking, taken, together>>

-----------------------------------------------------------------------------
\* An instance.

\* Poll: the pending requests that it may take.
Poll(i) ==
    /\ agent[i].step = "idle"
    /\ LET seen == {p \in Profiles : info[p] # Null /\ info[p].status = "pending" /\ info[p].for \in {i, Anyone}} IN
       /\ seen # {}
       /\ agent' = [agent EXCEPT ![i] = [NoAgent EXCEPT !.step = "polls", !.seen = seen]]
       /\ together' = together \cup {p \in seen : \E j \in Instances \ {i} : p \in agent[j].seen}
    /\ UNCHANGED <<info, looking, mishaps, taken>>

\* The request is given and stays pending.
Give_unmarked(i, p) ==
    /\ agent[i].step = "polls" /\ p \in agent[i].seen
    /\ info' = info
    /\ agent' = [agent EXCEPT ![i] = Handed(@, p)]
    /\ taken' = [taken EXCEPT ![p] = IF p \in together THEN @ ELSE @ + 1]
    /\ UNCHANGED <<looking, mishaps, together>>

\* One request is marked and given, whatever became of it meanwhile.
Give(i, p) ==
    /\ agent[i].step = "polls" /\ p \in agent[i].seen
    /\ info' = Updated(p, [info[p] EXCEPT !.status = "running", !.for = i])
    /\ agent' = [agent EXCEPT ![i] = Handed(@, p)]
    /\ taken' = [taken EXCEPT ![p] = IF p \in together THEN @ ELSE @ + 1]
    /\ UNCHANGED <<looking, mishaps, together>>

\* The agent runs its requests one by one.
Run(i, p) ==
    /\ agent[i].step = "runs" /\ p \in agent[i].given
    /\ agent' = [agent EXCEPT ![i].step = "sends", ![i].given = @ \ {p}, ![i].current = p]
    /\ UNCHANGED <<info, looking, mishaps, taken, together>>

\* POST /v1/profiles: only what was asked for is received; a refusal is noted by the agent.
Receive(i) ==
    /\ agent[i].step = "sends"
    /\ agent' = [agent EXCEPT ![i] = IF info[@.current] = Null THEN Working(@.given) ELSE [@ EXCEPT !.step = "saves"]]
    /\ UNCHANGED <<info, looking, mishaps, taken, together>>

\* Save, with an error of the instance as well; it brings back what was removed meanwhile.
Save(i) ==
    /\ agent[i].step = "saves"
    /\ \E status \in {"done", "failed"} :
           info' = [info EXCEPT ![agent[i].current] =
               [status |-> status, for |-> i, old |-> IF @ = Null THEN FALSE ELSE @.old]]
    /\ agent' = [agent EXCEPT ![i] = Working(@.given)]
    /\ UNCHANGED <<looking, mishaps, taken, together>>

\* A call that fails ends the turn of the agent, which forgets the requests it was still given; so
\* does the end of the instance.
Fail(i) ==
    /\ agent[i].step # "idle" /\ mishaps < MaxMishaps
    /\ mishaps' = mishaps + 1
    /\ agent' = [agent EXCEPT ![i] = NoAgent]
    /\ UNCHANGED <<info, looking, taken, together>>

Agent(i) ==
    \/ \E p \in Profiles : Give(i, p) \/ Run(i, p)
    \/ Receive(i) \/ Save(i)

Expiry == Look \/ \E p \in Profiles : Ages(p) \/ Expire(p)

Next ==
    \/ \E p \in Profiles : Request(p) \/ Remove(p)
    \/ Expiry
    \/ \E i \in Instances : Poll(i) \/ Agent(i) \/ Fail(i)

-----------------------------------------------------------------------------
\* ProfileStore.cs:82: a request ends, with a profile or as failed, while somebody looks at the list,
\* though its instance stops, a call fails, or another request is before it.
RequestEnds == \A p \in Profiles : Waiting(p) ~> ~Waiting(p)

\* ProfileStore.cs:28: a request for any instance goes to the first that comes, and to it alone,
\* unless two poll at the very moment.
OneInstanceEach == \A p \in Profiles \ together : taken[p] <= 1

=============================================================================
