------------------------------- MODULE Visitors -------------------------------
(***************************************************************************)
(* The salt of the anonymous visitors (Analytics/VisitorIdentity.cs).  An  *)
(* event is hashed with the salt of its own day, which a browser may date  *)
(* of the day before or, for five minutes, of the next one                 *)
(* (AnalyticsCollector.cs).  Requests run on several threads: they look at *)
(* _saltDay without the lock, and read _salt afterwards.                   *)
(***************************************************************************)
EXTENDS Naturals

CONSTANTS
    Threads,       \* the requests under way
    MaxDay,        \* bound: the last day
    MaxSalts,      \* bound: salts drawn
    MaxSetbacks,   \* bound: writes that fail, restarts
    Null           \* nothing

VARIABLES
    today,
    salt,          \* _salt
    saltDay,       \* _saltDay
    saltFile,      \* analytics-salt.json: a day and its salt, Null when absent or unreadable
    ask,           \* of each thread: its step in Salt, and the day of its event
    drawn,         \* salts drawn so far: each is new
    setbacks,
    \* history
    served,        \* the days hashed, each with its salt
    newest,        \* the latest day asked for
    late,          \* an event came after one of a later day
    astride        \* events of two days were under way at once

visitorVars == <<today, salt, saltDay, saltFile, ask, drawn, setbacks, served, newest, late, astride>>

Idle == [step |-> "idle", day |-> 0]

TypeOK ==
    /\ today \in 1..MaxDay /\ salt \in 0..MaxSalts /\ drawn \in 0..MaxSalts
    /\ saltDay \in 0..MaxDay + 1 /\ newest \in 0..MaxDay + 1
    /\ saltFile \in {Null} \cup [day : 1..MaxDay + 1, salt : 1..MaxSalts]
    /\ ask \in [Threads -> [step : {"idle", "take", "enter", "write", "stamp"}, day : 0..MaxDay + 1]]
    /\ setbacks \in 0..MaxSetbacks
    /\ served \subseteq (1..MaxDay + 1) \X (0..MaxSalts)
    /\ late \in BOOLEAN /\ astride \in BOOLEAN

Init ==
    /\ today = 1 /\ salt = 0 /\ saltDay = 0 /\ saltFile = Null
    /\ ask = [t \in Threads |-> Idle]
    /\ drawn = 0 /\ setbacks = 0
    /\ served = {} /\ newest = 0 /\ late = FALSE /\ astride = FALSE

-----------------------------------------------------------------------------
\* Salt returns: the event is hashed.
Returns(t, value) ==
    /\ served' = served \cup {<<ask[t].day, value>>}
    /\ ask' = [ask EXCEPT ![t] = Idle]

\* An event and its day; the look at _saltDay outside the lock.
Ask(t) ==
    /\ ask[t] = Idle
    /\ \E day \in {today - 1, today, today + 1} \ {0} :
           /\ ask' = [ask EXCEPT ![t] = [step |-> IF day = saltDay THEN "take" ELSE "enter", day |-> day]]
           /\ newest' = IF day > newest THEN day ELSE newest
           /\ late' = (late \/ day < newest)
           /\ astride' = (astride \/ \E u \in Threads : ask[u] # Idle /\ ask[u].day # day)
    /\ UNCHANGED <<today, salt, saltDay, saltFile, drawn, setbacks, served>>

\* _salt, whatever it has become since the look.
Take(t) ==
    /\ ask[t].step = "take"
    /\ Returns(t, salt)
    /\ UNCHANGED <<today, salt, saltDay, saltFile, drawn, setbacks, newest, late, astride>>

LockFree == \A t \in Threads : ask[t].step \notin {"write", "stamp"}

\* The file is not read again after a restart.
Enter_unread(t) ==
    /\ ask[t].step = "enter" /\ LockFree
    /\ \/ /\ ask[t].day = saltDay
          /\ Returns(t, salt)
          /\ UNCHANGED <<salt, drawn>>
       \/ /\ ask[t].day # saltDay /\ drawn < MaxSalts
          /\ drawn' = drawn + 1 /\ salt' = drawn + 1
          /\ ask' = [ask EXCEPT ![t].step = "write"]
          /\ UNCHANGED served
    /\ UNCHANGED <<today, saltDay, saltFile, setbacks, newest, late, astride>>

\* Under the lock: the second look, then the salt of the file if it is of this day, else a new one.
Enter(t) ==
    /\ ask[t].step = "enter" /\ LockFree
    /\ LET fromFile == saltFile # Null /\ saltFile.day = ask[t].day
       IN \/ /\ ask[t].day = saltDay
             /\ Returns(t, salt)
             /\ UNCHANGED <<salt, drawn>>
          \/ /\ ask[t].day # saltDay /\ fromFile
             /\ salt' = saltFile.salt
             /\ ask' = [ask EXCEPT ![t].step = "stamp"]
             /\ UNCHANGED <<drawn, served>>
          \/ /\ ask[t].day # saltDay /\ ~fromFile /\ drawn < MaxSalts
             /\ drawn' = drawn + 1 /\ salt' = drawn + 1
             /\ ask' = [ask EXCEPT ![t].step = "write"]
             /\ UNCHANGED served
    /\ UNCHANGED <<today, saltDay, saltFile, setbacks, newest, late, astride>>

\* WriteAllBytes: the salt of the day before is overwritten.
Write(t) ==
    /\ ask[t].step = "write"
    /\ saltFile' = [day |-> ask[t].day, salt |-> salt]
    /\ ask' = [ask EXCEPT ![t].step = "stamp"]
    /\ UNCHANGED <<today, salt, saltDay, drawn, setbacks, served, newest, late, astride>>

\* The disk refuses the write, or half of it: the request fails, and _salt is no longer that of _saltDay.
WriteFails(t) ==
    /\ ask[t].step = "write" /\ setbacks < MaxSetbacks
    /\ saltFile' \in {saltFile, Null}
    /\ ask' = [ask EXCEPT ![t] = Idle]
    /\ setbacks' = setbacks + 1
    /\ UNCHANGED <<today, salt, saltDay, drawn, served, newest, late, astride>>

Stamp(t) ==
    /\ ask[t].step = "stamp"
    /\ saltDay' = ask[t].day
    /\ Returns(t, salt)
    /\ UNCHANGED <<today, salt, saltFile, drawn, setbacks, newest, late, astride>>

Midnight ==
    /\ today < MaxDay
    /\ today' = today + 1
    /\ UNCHANGED <<salt, saltDay, saltFile, ask, drawn, setbacks, served, newest, late, astride>>

\* The process ends and starts again; a write under way may leave an unreadable file.
Restart ==
    /\ setbacks < MaxSetbacks
    /\ saltFile' \in {saltFile} \cup {Null : t \in {u \in Threads : ask[u].step = "write"}}
    /\ salt' = 0 /\ saltDay' = 0
    /\ ask' = [t \in Threads |-> Idle]
    /\ setbacks' = setbacks + 1
    /\ UNCHANGED <<today, drawn, served, newest, late, astride>>

Next ==
    \/ \E t \in Threads : Ask(t) \/ Take(t) \/ Enter(t) \/ Write(t) \/ WriteFails(t) \/ Stamp(t)
    \/ Midnight \/ Restart

-----------------------------------------------------------------------------
\* Nobody is followed from one day to the next ("Le sel change chaque jour"): a salt serves one
\* day, even when events come late; and a visitor is counted once in a day: the day has one salt,
\* through restarts and failed writes.  The first holds unless events of two days are under way at
\* once, since _salt is read after _saltDay and outside the lock; the second, also unless an event
\* comes after one of a later day, since a new salt then replaces that of the present day.
OneSaltPerDay ==
    \A a, b \in served :
        /\ ~astride /\ a[2] = b[2] => a[1] = b[1]
        /\ ~astride /\ ~late /\ a[1] = b[1] => a[2] = b[2]

=============================================================================
