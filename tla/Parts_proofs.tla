----------------------------- MODULE Parts_proofs -----------------------------
(***************************************************************************)
(* Proofs about the other parts of MCParts.tla that share no state, one    *)
(* section each, for every value of their constants; the last section is   *)
(* about the types of all the parts.                                       *)
(***************************************************************************)
EXTENDS MCParts, Configuration_proofs, LogsPage_proofs, FiniteSetTheorems, TLAPS

-----------------------------------------------------------------------------
(* The salts of the visitors.                                              *)

\* Days and salts are numbered from 1; the file, when there is none, is not of a day.
VisitorsAssumption ==
    /\ MaxDay \in Nat \ {0} /\ MaxSalts \in Nat /\ MaxSetbacks \in Nat
    /\ \A d, s : Null # [day |-> d, salt |-> s]

Asks == [step : {"idle", "take", "enter", "write", "stamp"}, day : 0 .. MaxDay + 1]

Under(t)  == ask[t].step # "idle"
Holder(t) == ask[t].step \in {"write", "stamp"}

\* A request is of a day, and every salt that is somewhere was drawn.
DrawnInv ==
    /\ \A t \in Threads : Under(t) => ask[t].day # 0
    /\ \A t \in Threads : ask[t].step = "write" => salt # 0
    /\ salt <= drawn
    /\ saltFile # Null => saltFile.salt <= drawn
    /\ \A a \in served : a[2] <= drawn

\* The requests under way: of one day, which is that of _saltDay for those that go without
\* the lock, and is not for the one that holds it.
AskInv ==
    /\ \A t, u \in Threads : Under(t) /\ Under(u) => ask[t].day = ask[u].day
    /\ \A t, u \in Threads : Holder(t) /\ Holder(u) => t = u
    /\ \A t \in Threads : ask[t].step = "take" => ask[t].day = saltDay
    /\ \A t \in Threads : Holder(t) => ask[t].day # saltDay

\* A salt is of one day: those served, the one of the file, and _salt, which is that of
\* _saltDay, or of the request that holds the lock.
DayOfSalt ==
    /\ saltDay # 0 => salt # 0
    /\ \A a \in served : a[2] # 0
    /\ \A a, b \in served : a[2] = b[2] => a[1] = b[1]
    /\ saltFile # Null => \A a \in served : a[2] = saltFile.salt => a[1] = saltFile.day
    /\ \A t \in Threads : ask[t].step = "stamp" => saltFile = [day |-> ask[t].day, salt |-> salt]
    /\ \A t \in Threads : ask[t].step = "write" =>
          /\ \A a \in served : a[2] # salt
          /\ saltFile # Null => saltFile.salt # salt
    /\ Visitors!LockFree =>
          /\ \A a \in served : a[2] = salt => a[1] = saltDay
          /\ saltFile # Null /\ saltFile.salt = salt => saltFile.day = saltDay

\* A day has one salt: what was served of the latest one is in the file, and is _salt once
\* _saltDay says so.
SaltOfDay ==
    /\ \A a, b \in served : a[1] = b[1] => a[2] = b[2]
    /\ \A a \in served : a[1] <= newest
    /\ saltDay <= newest
    /\ \A t \in Threads : Under(t) => ask[t].day = newest
    /\ \A a \in served : a[1] = newest => saltFile = [day |-> newest, salt |-> a[2]]
    /\ saltDay = newest /\ newest # 0 => saltFile = [day |-> newest, salt |-> salt]
    /\ \A t \in Threads : ask[t].step = "write" => \A a \in served : a[1] # newest

VisitorsInv ==
    /\ Visitors!TypeOK /\ DrawnInv
    /\ ~astride => AskInv /\ DayOfSalt
    /\ ~astride /\ ~late => SaltOfDay

\* A look at _saltDay, of an event of a day.
LEMMA AskDayStep ==
    ASSUME VisitorsInv, VisitorsAssumption, NEW t \in Threads, Visitors!Ask(t)
    PROVE  VisitorsInv'
<1>1. PICK day \in {today - 1, today, today + 1} \ {0} :
        /\ ask' = [ask EXCEPT ![t] = [step |-> IF day = saltDay THEN "take" ELSE "enter", day |-> day]]
        /\ newest' = IF day > newest THEN day ELSE newest
        /\ late' = (late \/ day < newest)
        /\ astride' = (astride \/ \E u \in Threads : ask[u] # Visitors!Idle /\ ask[u].day # day)
  BY ZenonT(90) DEF Visitors!Ask
<1>2. UNCHANGED <<today, salt, saltDay, saltFile, drawn, setbacks, served>> /\ ask[t] = Visitors!Idle
  BY DEF Visitors!Ask
<1>3. /\ day \in 1 .. MaxDay + 1 /\ today \in 1 .. MaxDay /\ newest \in 0 .. MaxDay + 1
      /\ ask \in [Threads -> Asks] /\ late \in BOOLEAN /\ astride \in BOOLEAN
      /\ saltDay \in 0 .. MaxDay + 1
  BY DEF VisitorsInv, Visitors!TypeOK, Asks, VisitorsAssumption
<1> DEFINE step == IF day = saltDay THEN "take" ELSE "enter"
<1>4. step \in {"take", "enter"} /\ (step = "take" => day = saltDay)
  OBVIOUS
<1> HIDE DEF step
<1>5. /\ \A u \in Threads : ask'[u] = IF u = t THEN [step |-> step, day |-> day] ELSE ask[u]
      /\ ask' \in [Threads -> Asks]
  BY <1>1, <1>3, <1>4 DEF step, Asks
<1>6. Visitors!TypeOK'
  <2>1. newest' \in 0 .. MaxDay + 1 /\ late' \in BOOLEAN /\ astride' \in BOOLEAN
    BY <1>1, <1>3
  <2> QED
    BY <1>2, <1>5, <2>1 DEF VisitorsInv, Visitors!TypeOK, Asks
<1>7. /\ ~Under(t) /\ \A u \in Threads : u # t => ask'[u] = ask[u]
      /\ ask'[t].step \in {"take", "enter"} /\ ask'[t].day = day /\ day # 0
      /\ ask'[t].step = "take" => day = saltDay
  BY <1>2, <1>3, <1>4, <1>5 DEF Under, Visitors!Idle
<1>8. DrawnInv'
  BY <1>2, <1>7 DEF VisitorsInv, DrawnInv, Under
<1>9. ~astride' => ~astride /\ \A u \in Threads : Under(u) => ask[u].day = day
  <2>1. ~astride' => ~astride /\ \A u \in Threads : ask[u] = Visitors!Idle \/ ask[u].day = day
    BY <1>1, Zenon
  <2>2. \A u \in Threads : ask[u] = Visitors!Idle => ~Under(u)
    BY DEF Under, Visitors!Idle
  <2> QED
    BY <2>1, <2>2
<1>10. ASSUME ~astride' PROVE AskInv' /\ DayOfSalt'
  <2>1. AskInv /\ DayOfSalt
    BY <1>9, <1>10 DEF VisitorsInv
  <2>2. AskInv'
    BY <1>2, <1>7, <1>9, <1>10, <2>1 DEF AskInv, Under, Holder
  <2>3. Visitors!LockFree' => Visitors!LockFree
    BY <1>7 DEF Visitors!LockFree, Under
  <2>4. DayOfSalt'
    BY <1>2, <1>7, <2>1, <2>3 DEF DayOfSalt
  <2> QED
    BY <2>2, <2>4
<1>11. ASSUME ~astride', ~late' PROVE SaltOfDay'
  <2>1. SaltOfDay /\ newest' >= newest /\ newest' = day /\ ~astride
    <3>1. ~late /\ ~(day < newest)
      BY <1>1, <1>11, Zenon
    <3> QED
      BY <1>1, <1>3, <1>9, <1>11, <3>1 DEF VisitorsInv
  <2>2. \A a \in served : a[1] \in Nat
    BY DEF VisitorsInv, Visitors!TypeOK
  <2>3. newest' # newest => /\ \A a \in served : a[1] # newest'
                            /\ saltDay # newest' /\ \A u \in Threads : ~Under(u)
    BY <1>3, <1>9, <1>11, <2>1, <2>2 DEF SaltOfDay
  <2>4. \A u \in Threads : ask'[u].step = "write" => ask[u].step = "write" /\ Under(u)
    BY <1>7 DEF Under
  <2>5. /\ \A a \in served : a[1] <= newest'
        /\ saltDay <= newest'
    BY <1>3, <2>1, <2>2 DEF SaltOfDay
  <2>6. \A u \in Threads : Under(u)' => ask'[u].day = newest'
    BY <1>7, <1>9, <1>11, <2>1 DEF Under
  <2>7. /\ \A a \in served : a[1] = newest' => saltFile = [day |-> newest', salt |-> a[2]]
        /\ saltDay = newest' /\ newest' # 0 => saltFile = [day |-> newest', salt |-> salt]
        /\ \A u \in Threads : ask'[u].step = "write" => \A a \in served : a[1] # newest'
    BY <2>1, <2>3, <2>4 DEF SaltOfDay
  <2> QED
    BY <1>2, <2>1, <2>5, <2>6, <2>7 DEF SaltOfDay
<1> QED
  BY <1>6, <1>8, <1>10, <1>11 DEF VisitorsInv

\* An event is hashed with _salt, of the day of _saltDay or of the request that has the lock.
LEMMA ReturnStep ==
    ASSUME VisitorsInv, VisitorsAssumption, NEW t \in Threads,
           Visitors!Returns(t, salt), Under(t),
           UNCHANGED <<today, salt, saltFile, drawn, setbacks, newest, late, astride>>,
           \/ ~astride => ask[t].day = saltDay /\ Visitors!LockFree
           \/ ask[t].step = "stamp",
           saltDay' = IF ask[t].step = "stamp" THEN ask[t].day ELSE saltDay
    PROVE  VisitorsInv'
<1> DEFINE day == ask[t].day
<1>1. /\ served' = served \cup {<<day, salt>>} /\ ask' = [ask EXCEPT ![t] = Visitors!Idle]
      /\ Visitors!TypeOK /\ DrawnInv /\ ask \in [Threads -> Asks] /\ ask[t] \in Asks
      /\ day \in 0 .. MaxDay + 1 /\ salt \in 0 .. MaxSalts /\ drawn \in 0 .. MaxSalts
      /\ saltDay \in 0 .. MaxDay + 1 /\ newest \in 0 .. MaxDay + 1
  BY DEF Visitors!Returns, VisitorsInv, Visitors!TypeOK, Asks
<1>2. /\ \A u \in Threads : u # t => ask'[u] = ask[u]
      /\ ask'[t].step = "idle" /\ ask' \in [Threads -> Asks]
  <2>1. Visitors!Idle \in Asks /\ Visitors!Idle.step = "idle"
    BY DEF Visitors!Idle, Asks, VisitorsAssumption
  <2> QED
    BY <1>1, <2>1
<1>3. saltDay' = saltDay \/ saltDay' = day
  OBVIOUS
<1> HIDE DEF day
<1>4. day # 0
  BY <1>1 DEF DrawnInv, day
<1>5. Visitors!TypeOK'
  <2>1. served' \subseteq (1 .. MaxDay + 1) \X (0 .. MaxSalts)
    BY <1>1, <1>4 DEF Visitors!TypeOK
  <2>2. saltDay' \in 0 .. MaxDay + 1
    BY <1>1, <1>3
  <2> QED
    BY <1>1, <1>2, <2>1, <2>2 DEF Visitors!TypeOK, Asks
<1>6. \A a \in served' : a \in served \/ (a[1] = day /\ a[2] = salt)
  BY <1>1
<1>7. DrawnInv'
  BY <1>1, <1>2, <1>6 DEF DrawnInv, Under
<1>8. ASSUME ~astride PROVE AskInv' /\ DayOfSalt'
  <2>1. AskInv /\ DayOfSalt
    BY <1>8 DEF VisitorsInv
  <2>2. \A u \in Threads : Under(u)' => u # t /\ Under(u) /\ ask'[u] = ask[u]
    BY <1>2 DEF Under
  <2>3. \A u \in Threads : Holder(u)' => u # t /\ Holder(u) /\ Under(u) /\ ask'[u] = ask[u]
    BY <1>2 DEF Under, Holder
  <2>4. CASE ask[t].step = "stamp"
    <3>1. /\ saltDay' = day /\ Holder(t) /\ saltFile = [day |-> day, salt |-> salt]
          /\ \A u \in Threads : u # t => ~Holder(u)
      BY <2>1, <2>4 DEF AskInv, DayOfSalt, Holder, day
    <3>2. \A u \in Threads : ask[u].step # "take"
      BY <2>1, <2>4, <3>1 DEF AskInv, Under, Holder
    <3>3. \A u \in Threads : ~Holder(u)'
      BY <2>3, <3>1
    <3>4. AskInv'
      BY <1>2, <2>1, <2>2, <3>2, <3>3 DEF AskInv
    <3>5. saltFile.salt = salt /\ saltFile.day = day /\ saltFile # Null
      BY <3>1 DEF VisitorsAssumption
    <3>6. \A a \in served : a[2] = salt => a[1] = day
      BY <2>1, <3>5 DEF DayOfSalt
    <3>7. salt # 0
      BY <1>1, <3>5 DEF Visitors!TypeOK
    <3>8. \A u \in Threads : ask'[u].step \notin {"write", "stamp"}
      BY <3>3 DEF Holder
    <3>9. DayOfSalt'
      BY <1>6, <2>1, <3>1, <3>5, <3>6, <3>7, <3>8 DEF DayOfSalt
    <3> QED
      BY <3>4, <3>9
  <2>5. CASE ask[t].step # "stamp"
    <3>1. saltDay' = saltDay /\ day = saltDay /\ Visitors!LockFree
      BY <1>8, <2>5 DEF day
    <3>2. \A u \in Threads : ~Holder(u) /\ ~Holder(u)' /\ ask'[u].step \notin {"write", "stamp"}
      BY <2>3, <3>1 DEF Holder, Visitors!LockFree
    <3>3. AskInv'
      BY <1>2, <2>1, <2>2, <3>1, <3>2 DEF AskInv
    <3>4. /\ \A a \in served : a[2] = salt => a[1] = day
          /\ saltFile # Null /\ saltFile.salt = salt => saltFile.day = day
          /\ salt # 0
      BY <1>4, <2>1, <3>1 DEF DayOfSalt
    <3>5. DayOfSalt'
      BY <1>6, <2>1, <3>1, <3>2, <3>4 DEF DayOfSalt
    <3> QED
      BY <3>3, <3>5
  <2> QED
    BY <2>4, <2>5
<1>9. ASSUME ~astride, ~late PROVE SaltOfDay'
  <2>1. AskInv /\ DayOfSalt /\ SaltOfDay
    BY <1>9 DEF VisitorsInv
  <2>2. day = newest
    BY <2>1 DEF SaltOfDay, day
  <2>3. saltFile = [day |-> newest, salt |-> salt]
    <3>1. CASE ask[t].step = "stamp"
      BY <2>1, <2>2, <3>1 DEF DayOfSalt, day
    <3>2. CASE ask[t].step # "stamp"
      BY <1>4, <1>9, <2>1, <2>2, <3>2 DEF SaltOfDay, day
    <3> QED
      BY <3>1, <3>2
  <2>4. \A u \in Threads : ask'[u].step # "write"
    <3>1. ASSUME NEW u \in Threads, u # t, ask[u].step = "write" PROVE FALSE
      BY <1>9, <2>1, <3>1 DEF AskInv, Holder, Visitors!LockFree
    <3> QED
      BY <1>2, <3>1
  <2>5. \A a \in served : a[1] = newest => a[2] = salt
    BY <2>1, <2>3 DEF SaltOfDay
  <2>6. saltDay' <= newest
    BY <1>1, <1>3, <2>1, <2>2 DEF SaltOfDay
  <2>7. \A a, b \in served' : a[1] = b[1] => a[2] = b[2]
    BY <1>6, <2>1, <2>2, <2>5 DEF SaltOfDay
  <2>8. \A a \in served' : a[1] <= newest /\ (a[1] = newest => a[2] = salt)
    BY <1>1, <1>6, <2>1, <2>2, <2>5 DEF SaltOfDay
  <2>9. \A u \in Threads : Under(u)' => ask'[u].day = newest
    BY <1>2, <2>1 DEF SaltOfDay, Under
  <2> QED
    BY <2>3, <2>4, <2>6, <2>7, <2>8, <2>9 DEF SaltOfDay
<1> QED
  BY <1>5, <1>7, <1>8, <1>9 DEF VisitorsInv

\* The salt is found without the lock, or with it by another look.
LEMMA TakeSaltStep ==
    ASSUME VisitorsInv, VisitorsAssumption, NEW t \in Threads,
           \/ Visitors!Take(t) \/ Visitors!Stamp(t)
           \/ Visitors!Enter(t) /\ ask[t].day = saltDay
    PROVE  VisitorsInv'
<1>1. CASE Visitors!Stamp(t)
  <2>1. /\ ask[t].step = "stamp" /\ saltDay' = ask[t].day /\ Visitors!Returns(t, salt) /\ Under(t)
        /\ UNCHANGED <<today, salt, saltFile, drawn, setbacks, newest, late, astride>>
    BY <1>1 DEF Visitors!Stamp, Under
  <2> QED
    BY <2>1, ReturnStep
<1>2. CASE Visitors!Take(t)
  <2>1. /\ ask[t].step = "take" /\ saltDay' = saltDay /\ Visitors!Returns(t, salt) /\ Under(t)
        /\ UNCHANGED <<today, salt, saltFile, drawn, setbacks, newest, late, astride>>
    BY <1>2 DEF Visitors!Take, Under
  <2>2. ASSUME ~astride PROVE ask[t].day = saltDay /\ Visitors!LockFree
    <3>1. AskInv
      BY <2>2 DEF VisitorsInv
    <3>2. \A u \in Threads : ~Holder(u)
      BY <2>1, <3>1 DEF AskInv, Under, Holder
    <3> QED
      BY <2>1, <3>1, <3>2 DEF AskInv, Holder, Visitors!LockFree
  <2> QED
    BY <2>1, <2>2, ReturnStep
<1>3. CASE Visitors!Enter(t) /\ ask[t].day = saltDay
  <2>1. /\ ask[t].step = "enter" /\ saltDay' = saltDay /\ Visitors!Returns(t, salt) /\ Under(t)
        /\ UNCHANGED <<today, salt, saltFile, drawn, setbacks, newest, late, astride>>
        /\ ask[t].day = saltDay /\ Visitors!LockFree
    BY <1>3 DEF Visitors!Enter, Under
  <2> QED
    BY <2>1, ReturnStep
<1> QED
  BY <1>1, <1>2, <1>3

\* The one request that is in the lock, or enters it, goes on; nothing is hashed.
LEMMA LockedStep ==
    ASSUME VisitorsInv, VisitorsAssumption, NEW t \in Threads,
           \/ Visitors!Enter(t) /\ ask[t].day # saltDay
           \/ Visitors!Write(t) \/ Visitors!WriteFails(t)
    PROVE  VisitorsInv'
<1> DEFINE was == ask[t]
           day == was.day
<1>1. /\ UNCHANGED <<today, saltDay, served, newest, late, astride>> /\ Under(t)
      /\ Visitors!TypeOK /\ DrawnInv /\ ask \in [Threads -> Asks] /\ was \in Asks
      /\ salt \in 0 .. MaxSalts /\ drawn \in 0 .. MaxSalts /\ setbacks \in 0 .. MaxSetbacks
  BY DEF Visitors!Enter, Visitors!Write, Visitors!WriteFails, VisitorsInv, Visitors!TypeOK, Asks, Under
<1>2. day \in 1 .. MaxDay + 1
  BY <1>1 DEF DrawnInv, Asks
<1> DEFINE found(step) ==
             /\ step = "stamp" /\ was.step = "enter" /\ Visitors!LockFree /\ day # saltDay
             /\ saltFile # Null /\ saltFile.day = day /\ salt' = saltFile.salt
             /\ UNCHANGED <<drawn, saltFile, setbacks>>
           draws(step) ==
             /\ step = "write" /\ was.step = "enter" /\ Visitors!LockFree /\ day # saltDay
             /\ ~(saltFile # Null /\ saltFile.day = day)
             /\ drawn < MaxSalts /\ drawn' = drawn + 1 /\ salt' = drawn + 1
             /\ UNCHANGED <<saltFile, setbacks>>
           puts(step) ==
             /\ step = "stamp" /\ was.step = "write" /\ saltFile' = [day |-> day, salt |-> salt]
             /\ UNCHANGED <<salt, drawn, setbacks>>
           fails(step) ==
             /\ step = "idle" /\ was.step = "write" /\ saltFile' \in {saltFile, Null}
             /\ setbacks < MaxSetbacks /\ setbacks' = setbacks + 1 /\ UNCHANGED <<salt, drawn>>
<1>3. \E step \in {"idle", "write", "stamp"} :
        /\ ask' = [ask EXCEPT ![t] =
             IF step = "idle" THEN Visitors!Idle ELSE [was EXCEPT !.step = step]]
        /\ found(step) \/ draws(step) \/ puts(step) \/ fails(step)
  <2>1. CASE Visitors!Write(t)
    <3>1. was.step = "write" /\ ask' = [ask EXCEPT ![t] = [was EXCEPT !.step = "stamp"]]
      BY <1>1, <2>1 DEF Visitors!Write
    <3> QED
      BY <2>1, <3>1 DEF Visitors!Write
  <2>2. CASE Visitors!WriteFails(t)
    BY <2>2 DEF Visitors!WriteFails
  <2>3. CASE Visitors!Enter(t) /\ ask[t].day # saltDay
    <3>1. was.step = "enter" /\ Visitors!LockFree
      BY <2>3 DEF Visitors!Enter
    <3>2. CASE saltFile # Null /\ saltFile.day = day
      <4>1. /\ ask' = [ask EXCEPT ![t] = [was EXCEPT !.step = "stamp"]]
            /\ salt' = saltFile.salt /\ UNCHANGED <<drawn, saltFile, setbacks>>
        BY <2>3, <3>2 DEF Visitors!Enter
      <4> QED
        BY <2>3, <3>1, <3>2, <4>1
    <3>3. CASE ~(saltFile # Null /\ saltFile.day = day)
      <4>1. /\ ask' = [ask EXCEPT ![t] = [was EXCEPT !.step = "write"]]
            /\ drawn < MaxSalts /\ drawn' = drawn + 1 /\ salt' = drawn + 1
            /\ UNCHANGED <<saltFile, setbacks>>
        BY <2>3, <3>3 DEF Visitors!Enter
      <4> QED
        BY <2>3, <3>1, <3>3, <4>1
    <3> QED
      BY <3>2, <3>3
  <2> QED
    BY <2>1, <2>2, <2>3
<1>4. PICK step \in {"idle", "write", "stamp"} :
        /\ ask' = [ask EXCEPT ![t] =
             IF step = "idle" THEN Visitors!Idle ELSE [was EXCEPT !.step = step]]
        /\ found(step) \/ draws(step) \/ puts(step) \/ fails(step)
  BY <1>3
<1>5. /\ \A u \in Threads : u # t => ask'[u] = ask[u]
      /\ ask'[t].step = step /\ (step # "idle" => ask'[t].day = day)
      /\ ask' \in [Threads -> Asks]
  <2> HIDE DEF was, found, draws, puts, fails
  <2>1. [was EXCEPT !.step = step] \in Asks /\ [was EXCEPT !.step = step].step = step
        /\ [was EXCEPT !.step = step].day = was.day
    BY <1>1 DEF Asks
  <2>2. Visitors!Idle \in Asks /\ Visitors!Idle.step = "idle"
    BY DEF Visitors!Idle, Asks, VisitorsAssumption
  <2> QED
    BY <1>1, <1>4, <2>1, <2>2
<1>6. /\ was.step = ask[t].step /\ day = ask[t].day
      /\ was.step \in {"enter", "write"}
      /\ found(step) \/ draws(step) \/ puts(step) \/ fails(step)
      /\ was.step = "enter" => Visitors!LockFree /\ day # saltDay
  BY <1>4
<1> HIDE DEF was, day
<1>7. Visitors!TypeOK' /\ DrawnInv'
  <2>1. /\ salt' \in 0 .. MaxSalts /\ drawn' \in 0 .. MaxSalts /\ setbacks' \in 0 .. MaxSetbacks
        /\ saltFile' \in {Null} \cup [day : 1 .. MaxDay + 1, salt : 1 .. MaxSalts]
        /\ salt' <= drawn' /\ drawn <= drawn' /\ (saltFile' # Null => saltFile'.salt <= drawn')
    <3>1. saltFile \in {Null} \cup [day : 1 .. MaxDay + 1, salt : 1 .. MaxSalts]
      BY <1>1 DEF Visitors!TypeOK
    <3>2. CASE found(step)
      BY <1>1, <3>1, <3>2 DEF DrawnInv
    <3>3. CASE draws(step)
      BY <1>1, <3>1, <3>3 DEF DrawnInv, VisitorsAssumption
    <3>4. CASE puts(step)
      <4>1. salt # 0
        BY <1>1, <1>6, <3>4 DEF DrawnInv
      <4> QED
        BY <1>1, <1>2, <3>1, <3>4, <4>1 DEF DrawnInv
    <3>5. CASE fails(step)
      BY <1>1, <3>1, <3>5 DEF DrawnInv, VisitorsAssumption
    <3> QED
      BY <1>6, <3>2, <3>3, <3>4, <3>5
  <2>2. \A a \in served : a[2] \in Nat
    BY <1>1 DEF Visitors!TypeOK
  <2>3. \A u \in Threads : (Under(u)' => ask'[u].day # 0) /\ (ask'[u].step = "write" => salt' # 0)
    <3>1. \A u \in Threads : Under(u)' => ask'[u].day # 0
      BY <1>1, <1>2, <1>5 DEF DrawnInv, Under
    <3>2. \A u \in Threads : u # t /\ ask'[u].step = "write" => ask[u].step = "write" /\ salt # 0
      BY <1>1, <1>5 DEF DrawnInv
    <3>3. step = "write" => salt' # 0
      BY <1>1, <1>6
    <3>4. was.step = "enter" => \A u \in Threads : ask[u].step # "write"
      BY <1>6 DEF Visitors!LockFree
    <3>5. was.step # "enter" => salt' = salt
      BY <1>6
    <3> HIDE DEF found, draws, puts, fails
    <3> QED
      BY <1>5, <1>6, <3>1, <3>2, <3>3, <3>4, <3>5
  <2> HIDE DEF found, draws, puts, fails
  <2>4. Visitors!TypeOK'
    BY <1>1, <1>5, <2>1 DEF Visitors!TypeOK, Asks
  <2>5. DrawnInv'
    BY <1>1, <2>1, <2>2, <2>3 DEF DrawnInv
  <2> QED
    BY <2>4, <2>5
<1>8. ASSUME ~astride PROVE AskInv' /\ DayOfSalt'
  <2>1. AskInv /\ DayOfSalt
    BY <1>8 DEF VisitorsInv
  <2>2. \A u \in Threads : u # t => ~Holder(u)
    BY <1>6, <2>1 DEF AskInv, Holder, Visitors!LockFree
  <2>3. day # saltDay
    BY <1>6, <2>1 DEF AskInv, Holder
  <2>4. /\ \A u \in Threads : Under(u) => ask[u].day = day
        /\ \A u \in Threads : ask[u].step # "take"
    BY <1>1, <1>6, <2>1, <2>3 DEF AskInv, Under
  <2>5. /\ \A u \in Threads : Under(u)' => ask'[u].day = day
        /\ \A u \in Threads : ask'[u].step # "take" /\ (u # t => ~Holder(u)')
    BY <1>5, <2>2, <2>4 DEF Under, Holder
  <2>6. AskInv'
    <3>1. \A u \in Threads : Holder(u)' => ask'[u].day # saltDay'
      BY <1>1, <1>5, <2>3, <2>5 DEF Holder, Under
    <3> QED
      BY <2>5, <3>1 DEF AskInv
  <2>7. /\ \A u \in Threads : ask'[u].step \in {"write", "stamp"} => u = t
        /\ Visitors!LockFree' <=> step = "idle"
    BY <1>5, <2>5 DEF Holder, Visitors!LockFree
  <2>8. CASE found(step)
    <3>1. \A a \in served : a[2] = salt' => a[1] = day
      BY <2>1, <2>8 DEF DayOfSalt
    <3>2. saltFile \in [day : 1 .. MaxDay + 1, salt : 1 .. MaxSalts]
      BY <1>1, <2>8 DEF Visitors!TypeOK
    <3>3. saltFile = [day |-> day, salt |-> salt'] /\ salt' # 0
      BY <2>8, <3>2
    <3> QED
      BY <1>1, <1>5, <2>1, <2>6, <2>7, <2>8, <3>1, <3>3 DEF DayOfSalt
  <2>9. CASE draws(step)
    <3>1. /\ \A a \in served : a[2] # salt'
          /\ saltFile # Null => saltFile.salt # salt'
          /\ salt' # 0
      BY <1>1, <2>9 DEF DrawnInv, Visitors!TypeOK
    <3> QED
      BY <1>1, <1>5, <2>1, <2>6, <2>7, <2>9, <3>1 DEF DayOfSalt
  <2>10. CASE puts(step)
    <3>1. \A a \in served : a[2] # salt
      BY <1>6, <2>1, <2>10 DEF DayOfSalt
    <3>2. saltFile'.salt = salt
      BY <2>10
    <3> QED
      BY <1>1, <1>5, <2>1, <2>6, <2>7, <2>10, <3>1, <3>2 DEF DayOfSalt
  <2>11. CASE fails(step)
    <3>1. /\ \A a \in served : a[2] # salt
          /\ saltFile # Null => saltFile.salt # salt
      BY <1>6, <2>1, <2>11 DEF DayOfSalt
    <3> QED
      BY <1>1, <1>5, <2>1, <2>6, <2>7, <2>11, <3>1 DEF DayOfSalt
  <2> QED
    BY <1>6, <2>6, <2>8, <2>9, <2>10, <2>11
<1>9. ASSUME ~astride, ~late PROVE SaltOfDay'
  <2>1. AskInv /\ SaltOfDay
    BY <1>9 DEF VisitorsInv
  <2>2. day = newest /\ day # saltDay
    BY <1>1, <1>6, <2>1 DEF SaltOfDay, AskInv, Holder
  <2>3. \A u \in Threads : Under(u)' => ask'[u].day = newest
    BY <1>5, <2>1, <2>2 DEF SaltOfDay, Under
  <2>4. ~found(step) => \A a \in served : a[1] # newest
    <3>1. was.step = "write" => \A a \in served : a[1] # newest
      BY <1>6, <2>1 DEF SaltOfDay
    <3>2. draws(step) => \A a \in served : a[1] # newest
      BY <2>1, <2>2 DEF SaltOfDay, VisitorsAssumption
    <3> QED
      BY <1>6, <3>1, <3>2
  <2>5. \A u \in Threads : ask'[u].step = "write" => u = t /\ step = "write"
    BY <1>5, <1>6, <2>1 DEF AskInv, Holder, Visitors!LockFree
  <2>6. found(step) => saltFile' = saltFile /\ step # "write"
    OBVIOUS
  <2> HIDE DEF found, draws, puts, fails
  <2> QED
    BY <1>1, <2>1, <2>2, <2>3, <2>4, <2>5, <2>6 DEF SaltOfDay
<1> HIDE DEF found, draws, puts, fails
<1> QED
  BY <1>1, <1>7, <1>8, <1>9 DEF VisitorsInv

\* A day begins; the server starts again.
LEMMA NewStartStep ==
    ASSUME VisitorsInv, VisitorsAssumption, Visitors!Midnight \/ Visitors!Restart
    PROVE  VisitorsInv'
<1>1. CASE Visitors!Midnight
  <2>1. /\ today < MaxDay /\ today' = today + 1 /\ today \in 1 .. MaxDay /\ Visitors!TypeOK
        /\ UNCHANGED <<salt, saltDay, saltFile, ask, drawn, setbacks, served, newest, late, astride>>
    BY <1>1 DEF Visitors!Midnight, VisitorsInv, Visitors!TypeOK
  <2>2. Visitors!TypeOK'
    BY <2>1 DEF Visitors!TypeOK, VisitorsAssumption
  <2> QED
    BY <2>1, <2>2 DEF VisitorsInv, DrawnInv, AskInv, DayOfSalt, SaltOfDay, Under, Holder, Visitors!LockFree
<1>2. CASE Visitors!Restart
  <2>1. /\ setbacks < MaxSetbacks /\ setbacks' = setbacks + 1 /\ setbacks \in 0 .. MaxSetbacks
        /\ saltFile' = saltFile \/ (saltFile' = Null /\ \E t \in Threads : ask[t].step = "write")
        /\ salt' = 0 /\ saltDay' = 0 /\ ask' = [t \in Threads |-> Visitors!Idle]
        /\ UNCHANGED <<today, drawn, served, newest, late, astride>>
        /\ Visitors!TypeOK /\ DrawnInv /\ drawn \in 0 .. MaxSalts /\ newest \in 0 .. MaxDay + 1
    BY <1>2 DEF Visitors!Restart, VisitorsInv, Visitors!TypeOK
  <2>2. /\ Visitors!Idle \in Asks /\ \A t \in Threads : ask'[t].step = "idle"
        /\ ask' \in [Threads -> Asks]
    BY <2>1 DEF Visitors!Idle, Asks, VisitorsAssumption
  <2>3. Visitors!TypeOK'
    BY <2>1, <2>2 DEF Visitors!TypeOK, Asks, VisitorsAssumption
  <2>4. DrawnInv'
    BY <2>1, <2>2 DEF DrawnInv, Under
  <2>5. saltFile' # Null => saltFile' = saltFile /\ saltFile.salt # 0
    BY <2>1 DEF Visitors!TypeOK
  <2>6. ASSUME ~astride PROVE AskInv' /\ DayOfSalt'
    <3>1. DayOfSalt
      BY <2>6 DEF VisitorsInv
    <3> QED
      BY <2>1, <2>2, <2>5, <3>1 DEF AskInv, DayOfSalt, Under, Holder
  <2>7. ASSUME ~astride, ~late PROVE SaltOfDay'
    <3>1. SaltOfDay
      BY <2>7 DEF VisitorsInv
    <3>2. saltFile' = saltFile \/ \A a \in served : a[1] # newest
      BY <2>1, <3>1 DEF SaltOfDay
    <3> QED
      BY <2>1, <2>2, <3>1, <3>2 DEF SaltOfDay, Under
  <2> QED
    BY <2>1, <2>3, <2>4, <2>6, <2>7 DEF VisitorsInv
<1> QED
  BY <1>1, <1>2

\* The invariant of the salts, in the run of the parts.
LEMMA VisitorsAlways ==
    ASSUME VisitorsAssumption
    PROVE  Spec => [](part = "visitors" => VisitorsInv)
<1>1. Init => (part = "visitors" => VisitorsInv)
  <2> SUFFICES ASSUME Visitors!Init PROVE VisitorsInv
    BY DEF Init
  <2>1. Visitors!TypeOK
    <3>1. Visitors!Idle \in Asks
      BY DEF Visitors!Idle, Asks, VisitorsAssumption
    <3>2. ask \in [Threads -> Asks]
      BY <3>1 DEF Visitors!Init
    <3>3. 1 \in 1 .. MaxDay /\ 0 \in 0 .. MaxSalts /\ 0 \in 0 .. MaxDay + 1 /\ 0 \in 0 .. MaxSetbacks
      BY DEF VisitorsAssumption
    <3> QED
      BY ZenonT(90), <3>2, <3>3 DEF Visitors!Init, Visitors!TypeOK, Asks
  <2> QED
    BY <2>1 DEF Visitors!Init, VisitorsInv, DrawnInv, AskInv, DayOfSalt, SaltOfDay, Under, Holder,
      Visitors!Idle
<1>2. (part = "visitors" => VisitorsInv) /\ [Next]_partVars => (part = "visitors" => VisitorsInv)'
  <2> SUFFICES ASSUME part = "visitors" => VisitorsInv, [Next]_partVars, part' = "visitors"
               PROVE  VisitorsInv'
    OBVIOUS
  <2>1. CASE partVars' = partVars
    <3>1. part' = part /\ visitorVars' = visitorVars
      BY <2>1 DEF partVars
    <3> QED
      BY <3>1 DEF visitorVars, VisitorsInv, DrawnInv, AskInv, DayOfSalt, SaltOfDay, Under, Holder,
        Visitors!LockFree, Visitors!TypeOK
  <2>2. CASE Next
    <3>1. part = "visitors" /\ Visitors!Next
      BY <2>2 DEF Next, OthersStay
    <3> QED
      BY <3>1, AskDayStep, TakeSaltStep, LockedStep, NewStartStep DEF Visitors!Next
  <2> QED
    BY <2>1, <2>2
<1> QED
  BY <1>1, <1>2, PTL DEF Spec

\* A salt serves one day, and a day has one salt, through restarts and failed writes, unless
\* events of two days are under way at once or one comes late (VisitorIdentity.cs, Salt).
THEOREM SaltsOfTheirDay ==
    ASSUME VisitorsAssumption
    PROVE  Spec => []OneSaltPerDay
<1>1. (part = "visitors" => VisitorsInv) => OneSaltPerDay
  BY DEF VisitorsInv, DayOfSalt, SaltOfDay, OneSaltPerDay, Visitors!OneSaltPerDay
<1> QED
  BY <1>1, VisitorsAlways, PTL

-----------------------------------------------------------------------------
(* The backups.                                                            *)

BackupsAssumption == Delay \in Nat /\ MaxFiles \in Nat /\ MaxEnds \in Nat

Merges  == [sources : SUBSET Backups!File, written : {Null} \cup Backups!File]
Archive == [by : {"nobody", "server", "command"},
            step : {"none", "flush", "list", "copy", "done", "failed"},
            visit : SUBSET Folders, listed : SUBSET Backups!File, copied : SUBSET Backups!File]

\* The shapes of what TypeOK describes by its fields, and the ranks of the files.
FilesInv ==
    /\ doomed \subseteq [file : Backups!File, since : 0 .. Delay]
    /\ merge \in {Null} \cup Merges /\ backup \in Archive
    /\ \A f \in disk : f.rank <= written /\ f.folder \in folders
    /\ \A d \in doomed : d.file.rank <= written
    /\ merge # Null => \A f \in merge.sources : f.rank <= written

\* What is in the snapshot is not to be deleted.
ShownInv == \A d \in doomed : d.file \notin shown

\* The file of a merge holds what its sources hold; it is on disk, and nobody's yet.
MergeInv ==
    merge # Null =>
        /\ merge.sources # {}
        /\ merge.written # Null =>
              /\ merge.written \in disk /\ merge.written \notin shown
              /\ merge.written \notin merge.sources
              /\ \A d \in doomed : d.file # merge.written
              /\ Backups!LotsOf(merge.sources) \subseteq merge.written.lots

\* A file that stays on disk until the delay of the deletions has passed since the backup began.
Tracked(f) == f \in disk /\ \A d \in doomed : d.file = f => d.since <= age

\* A lot is in the archive, or in a file that is listed or in a folder still to be visited.
Found(lot) ==
    \/ lot \in Backups!LotsOf(backup.copied)
    \/ \E f \in Backups!File :
          Tracked(f) /\ lot \in f.lots /\ (f \in backup.listed \/ f.folder \in backup.visit)

\* What the backup must hold is still to be found, as long as it takes less than the delay.
OwedInv ==
    /\ backup.step \in {"flush", "list"} => backup.listed = {}
    /\ backup.step = "flush" => backup.by = "server"
    /\ backup.step \in {"list", "copy"} => backup.by \in {"server", "command"}
    /\ age < Delay /\ ~troubled =>
          /\ backup.step = "flush" => owed \subseteq memory \cup Backups!LotsOf(shown)
          /\ backup.step \in {"list", "copy"} => \A lot \in owed : Found(lot)
          /\ backup.step = "done" => owed \subseteq Backups!LotsOf(backup.copied)

BackupsInv == Backups!TypeOK /\ FilesInv /\ ShownInv /\ MergeInv /\ OwedInv

\* The lots of files are those of each.
LEMMA LotsFacts ==
    ASSUME NEW F, NEW G
    PROVE  /\ \A lot : lot \in Backups!LotsOf(F) <=> \E f \in F : lot \in f.lots
           /\ F \subseteq G => Backups!LotsOf(F) \subseteq Backups!LotsOf(G)
BY DEF Backups!LotsOf

\* A step of the store during a backup: it deletes no file that the backup may need.
LEMMA StoreStep ==
    ASSUME BackupsInv, UNCHANGED <<backup, age>>, troubled' = troubled,
           \A lot \in owed' : lot \in owed,
           \A f \in Backups!File : Tracked(f) /\ age < Delay => Tracked(f)',
           backup.step = "flush" /\ owed \subseteq memory \cup Backups!LotsOf(shown) =>
               owed' \subseteq memory' \cup Backups!LotsOf(shown')
    PROVE  OwedInv'
<1>1. OwedInv
  BY DEF BackupsInv
<1>2. age < Delay => \A lot \in owed : Found(lot) => Found(lot)'
  BY DEF Found
<1> QED
  BY <1>1, <1>2 DEF OwedInv

\* What is received, and a flush.
LEMMA FlushedFacts ==
    ASSUME BackupsInv, BackupsAssumption, NEW folder \in Folders, Backups!Flushed(folder),
           UNCHANGED <<doomed, merge, received>>
    PROVE  /\ memory' \subseteq received' /\ disk' \subseteq Backups!File /\ shown' \subseteq disk'
           /\ folders' \subseteq Folders /\ written' \in 0 .. MaxFiles
           /\ ShownInv' /\ MergeInv' /\ memory' = {}
           /\ \A f \in disk' : f.rank <= written' /\ f.folder \in folders'
           /\ \A d \in doomed : d.file.rank <= written'
           /\ merge # Null => \A f \in merge.sources : f.rank <= written'
           /\ disk \subseteq disk' /\ shown \subseteq shown'
           /\ memory \cup Backups!LotsOf(shown) \subseteq Backups!LotsOf(shown')
<1>1. /\ written \in 0 .. MaxFiles /\ memory \subseteq received /\ received \subseteq Lots
      /\ disk \subseteq Backups!File /\ shown \subseteq disk /\ folders \subseteq Folders
      /\ FilesInv /\ ShownInv /\ MergeInv
  BY DEF BackupsInv, Backups!TypeOK
<1>2. CASE memory = {}
  <2>1. UNCHANGED <<memory, disk, folders, shown, written>>
    BY <1>2 DEF Backups!Flushed
  <2> QED
    BY <1>1, <1>2, <2>1 DEF FilesInv, ShownInv, MergeInv
<1>3. CASE memory # {}
  <2> DEFINE new == Backups!New(folder, memory)
  <2>1. /\ written < MaxFiles /\ written' = written + 1 /\ memory' = {}
        /\ disk' = disk \cup {new} /\ shown' = shown \cup {new} /\ folders' = folders \cup {folder}
    BY <1>3 DEF Backups!Flushed
  <2>2. new \in Backups!File /\ new.rank = written + 1 /\ new.folder = folder /\ new.lots = memory
    BY <1>1, <2>1 DEF Backups!New, Backups!File, BackupsAssumption
  <2> HIDE DEF new
  <2>3. /\ \A f \in disk : f \in Backups!File /\ f.rank \in Nat
        /\ \A d \in doomed : d.file.rank \in Nat
        /\ merge # Null => \A f \in merge.sources : f.rank \in Nat
    BY <1>1 DEF FilesInv, Backups!File, Merges
  <2>4. written' \in 0 .. MaxFiles /\ written \in Nat
    BY <1>1, <2>1 DEF BackupsAssumption
  <2>5. /\ \A f \in disk' : f.rank <= written' /\ f.folder \in folders'
        /\ \A d \in doomed : d.file.rank <= written'
        /\ merge # Null => \A f \in merge.sources : f.rank <= written'
    BY <1>1, <2>1, <2>2, <2>3, <2>4 DEF FilesInv
  <2>6. ShownInv'
    <3>1. \A d \in doomed : d.file # new
      BY <1>1, <2>2, <2>3, <2>4 DEF FilesInv
    <3> QED
      BY <1>1, <2>1, <3>1 DEF ShownInv
  <2>7. MergeInv'
    <3>1. merge # Null /\ merge.written # Null => merge.written # new
      BY <1>1, <2>2, <2>3, <2>4 DEF FilesInv, MergeInv
    <3> QED
      BY <1>1, <2>1, <3>1 DEF MergeInv
  <2>8. memory \cup Backups!LotsOf(shown) \subseteq Backups!LotsOf(shown')
    BY <2>1, <2>2, LotsFacts
  <2> QED
    BY <1>1, <2>1, <2>2, <2>4, <2>5, <2>6, <2>7, <2>8
<1> QED
  BY <1>2, <1>3

\* A lot is received in memory, or memory becomes a file behind or ahead of the backup.
LEMMA ReceiveStep ==
    ASSUME BackupsInv, BackupsAssumption,
           \/ \E lot \in Lots : Backups!Receive(lot)
           \/ \E folder \in Folders : Backups!Flush(folder)
    PROVE  BackupsInv'
<1>1. CASE \E lot \in Lots : Backups!Receive(lot)
  <2>1. PICK lot \in Lots : Backups!Receive(lot)
    BY <1>1
  <2>2. /\ received' = received \cup {lot} /\ memory' = memory \cup {lot}
        /\ UNCHANGED <<disk, folders, shown, doomed, merge, backup, ends, written, owed, age, troubled>>
    BY <2>1 DEF Backups!Receive
  <2>3. \A f \in Backups!File : Tracked(f) => Tracked(f)'
    BY <2>2 DEF Tracked
  <2>4. OwedInv'
    BY SMTT(90), <2>2, <2>3, StoreStep
  <2> QED
    BY <2>2, <2>4 DEF BackupsInv, Backups!TypeOK, FilesInv, ShownInv, MergeInv
<1>2. CASE \E folder \in Folders : Backups!Flush(folder)
  <2>1. PICK folder \in Folders : Backups!Flush(folder)
    BY <1>2
  <2>2. /\ Backups!Flushed(folder)
        /\ UNCHANGED <<doomed, merge, backup, ends, received, owed, age, troubled>>
    BY <2>1 DEF Backups!Flush
  <2>3. \A f \in Backups!File : Tracked(f) => Tracked(f)'
    BY <2>2, FlushedFacts DEF Tracked
  <2>4. OwedInv'
    BY <2>2, <2>3, StoreStep, FlushedFacts
  <2> QED
    BY <2>2, <2>4, FlushedFacts DEF BackupsInv, Backups!TypeOK, FilesInv
<1> QED
  BY <1>1, <1>2

\* The merge of the files of a folder.
LEMMA MergeStep ==
    ASSUME BackupsInv, BackupsAssumption,
           \/ \E folder \in Folders : Backups!MergePick(folder)
           \/ Backups!MergeWrite \/ Backups!MergeSwap
    PROVE  BackupsInv'
<1>1. /\ written \in 0 .. MaxFiles /\ disk \subseteq Backups!File /\ shown \subseteq disk
      /\ Backups!TypeOK /\ FilesInv /\ ShownInv /\ MergeInv
      /\ doomed \subseteq [file : Backups!File, since : 0 .. Delay]
      /\ merge \in {Null} \cup Merges
  BY DEF BackupsInv, Backups!TypeOK, FilesInv
<1>2. CASE \E folder \in Folders : Backups!MergePick(folder)
  <2>1. PICK folder \in Folders : Backups!MergePick(folder)
    BY <1>2
  <2> DEFINE sources == {f \in shown : f.folder = folder}
  <2>2. /\ merge = Null /\ Backups!Cardinality(sources) > 1
        /\ merge' = [sources |-> sources, written |-> Null]
        /\ UNCHANGED <<memory, disk, folders, shown, doomed, backup, ends, written, received, owed, age, troubled>>
    BY <2>1 DEF Backups!MergePick
  <2>3. sources # {}
    <3>1. Backups!Cardinality({}) = 0
      BY FS_EmptySet DEF Backups!Cardinality, Cardinality
    <3> HIDE DEF sources
    <3>2. sources = {} => Backups!Cardinality(sources) = 0
      BY <3>1
    <3> QED
      BY <2>2, <3>2
  <2>4. sources \subseteq shown
    OBVIOUS
  <2> HIDE DEF sources
  <2>5. merge' \in Merges /\ merge'.sources = sources /\ merge'.written = Null
    BY <1>1, <2>2, <2>4 DEF Merges
  <2>6. \A f \in Backups!File : Tracked(f) => Tracked(f)'
    BY <2>2 DEF Tracked
  <2>7. OwedInv'
    BY <2>2, <2>6, StoreStep
  <2>8. FilesInv' /\ MergeInv' /\ ShownInv'
    BY <1>1, <2>2, <2>3, <2>4, <2>5 DEF FilesInv, MergeInv, ShownInv
  <2>9. Backups!TypeOK'
    BY <1>1, <2>2, <2>5 DEF Backups!TypeOK, Merges
  <2> QED
    BY <2>7, <2>8, <2>9 DEF BackupsInv
<1>3. CASE Backups!MergeWrite
  <2>1. /\ merge # Null /\ merge.written = Null /\ written < MaxFiles
        /\ UNCHANGED <<memory, folders, shown, doomed, backup, ends, received, owed, age, troubled>>
        /\ merge \in Merges
    BY <1>1, <1>3 DEF Backups!MergeWrite
  <2> DEFINE folder == (CHOOSE f \in merge.sources : TRUE).folder
             merged == Backups!New(folder, Backups!LotsOf(merge.sources))
  <2>2. CASE ~(merge.sources \subseteq disk)
    <3>1. merge' = Null /\ disk' = disk /\ written' = written
      BY <1>3, <2>2 DEF Backups!MergeWrite
    <3>2. \A f \in Backups!File : Tracked(f) => Tracked(f)'
      BY <2>1, <3>1 DEF Tracked
    <3>3. OwedInv'
      BY <2>1, <3>2, StoreStep
    <3> QED
      BY <1>1, <2>1, <3>1, <3>3 DEF BackupsInv, Backups!TypeOK, FilesInv, MergeInv, ShownInv
  <2>3. CASE merge.sources \subseteq disk
    <3>1. /\ disk' = disk \cup {merged} /\ merge' = [merge EXCEPT !.written = merged]
          /\ written' = written + 1
      BY <1>3, <2>3 DEF Backups!MergeWrite
    <3>2. folder \in Folders /\ folder \in folders
      <4>1. PICK f \in merge.sources : f = CHOOSE g \in merge.sources : TRUE
        BY <1>1, <2>1 DEF MergeInv
      <4> QED
        BY <1>1, <2>3, <4>1 DEF FilesInv, Backups!File
    <3>3. Backups!LotsOf(merge.sources) \subseteq Lots
      BY <2>1, LotsFacts DEF Merges, Backups!File
    <3> HIDE DEF folder
    <3>4. /\ merged \in Backups!File /\ merged.rank = written + 1 /\ merged.folder = folder
          /\ merged.lots = Backups!LotsOf(merge.sources)
      BY <1>1, <2>1, <3>2, <3>3 DEF Backups!New, Backups!File, BackupsAssumption
    <3> HIDE DEF merged
    <3>5. /\ merge' \in Merges /\ merge'.written = merged /\ merge'.sources = merge.sources
      BY <2>1, <3>1, <3>4 DEF Merges
    <3>6. /\ \A f \in disk : f.rank \in Nat
          /\ \A d \in doomed : d.file.rank \in Nat
          /\ \A f \in merge.sources : f.rank \in Nat
      BY <1>1, <2>3 DEF Backups!File
    <3>7. written' \in 0 .. MaxFiles /\ written \in Nat
      BY <1>1, <2>1, <3>1 DEF BackupsAssumption
    <3>8. /\ merged \notin disk /\ merged \notin merge.sources
          /\ \A d \in doomed : d.file # merged
      BY <1>1, <2>3, <3>4, <3>6, <3>7 DEF FilesInv
    <3>9. FilesInv'
      BY <1>1, <2>1, <3>1, <3>2, <3>4, <3>5, <3>6, <3>7 DEF FilesInv
    <3>10. MergeInv' /\ ShownInv'
      BY <1>1, <2>1, <3>1, <3>4, <3>5, <3>8 DEF MergeInv, ShownInv
    <3>11. \A f \in Backups!File : Tracked(f) => Tracked(f)'
      BY <2>1, <3>1 DEF Tracked
    <3>12. OwedInv'
      BY <2>1, <3>11, StoreStep
    <3>13. Backups!TypeOK'
      BY <1>1, <2>1, <3>1, <3>4, <3>5, <3>7 DEF Backups!TypeOK, Merges
    <3> QED
      BY <3>9, <3>10, <3>12, <3>13 DEF BackupsInv
  <2> QED
    BY <2>2, <2>3
<1>4. CASE Backups!MergeSwap
  <2>1. /\ merge # Null /\ merge.written # Null /\ merge \in Merges
        /\ shown' = (shown \ merge.sources) \cup {merge.written}
        /\ doomed' = doomed \cup [file : merge.sources, since : {0}]
        /\ merge' = Null
        /\ UNCHANGED <<memory, disk, folders, backup, ends, written, received, owed, age, troubled>>
    BY <1>1, <1>4 DEF Backups!MergeSwap, Backups!Doom
  <2>2. /\ merge.written \in disk /\ merge.written \notin merge.sources
        /\ \A d \in doomed : d.file # merge.written
        /\ Backups!LotsOf(merge.sources) \subseteq merge.written.lots
        /\ \A f \in merge.sources : f \in Backups!File /\ f.rank <= written
    BY <1>1, <2>1 DEF MergeInv, FilesInv, Merges
  <2>3. \A d \in doomed' : d \in doomed \/ (d.file \in merge.sources /\ d.since = 0)
    BY <2>1
  <2>4. doomed' \subseteq [file : Backups!File, since : 0 .. Delay]
    BY <1>1, <2>1, <2>2 DEF BackupsAssumption
  <2>5. FilesInv' /\ ShownInv' /\ MergeInv'
    BY <1>1, <2>1, <2>2, <2>3, <2>4 DEF FilesInv, ShownInv, MergeInv
  <2>6. \A f \in Backups!File : Tracked(f) => Tracked(f)'
    BY <1>1, <2>1, <2>3 DEF Tracked, Backups!TypeOK
  <2>7. Backups!LotsOf(shown) \subseteq Backups!LotsOf(shown')
    BY <2>1, <2>2, LotsFacts
  <2>8. OwedInv'
    BY <2>1, <2>6, <2>7, StoreStep
  <2>9. Backups!TypeOK'
    BY <1>1, <2>1, <2>2, <2>4 DEF Backups!TypeOK
  <2> QED
    BY <2>5, <2>8, <2>9 DEF BackupsInv
<1> QED
  BY <1>2, <1>3, <1>4

\* Retention, and the deferred deletions.
LEMMA RetainStep ==
    ASSUME BackupsInv, BackupsAssumption,
           \/ \E kept \in shown : Backups!Retain(kept)
           \/ \E d \in doomed : Backups!RunDeferred(d)
    PROVE  BackupsInv'
<1>1. /\ disk \subseteq Backups!File /\ shown \subseteq disk
      /\ Backups!TypeOK /\ FilesInv /\ ShownInv /\ MergeInv /\ OwedInv
      /\ doomed \subseteq [file : Backups!File, since : 0 .. Delay]
  BY DEF BackupsInv, Backups!TypeOK, FilesInv
<1>2. ASSUME NEW x \in shown, Backups!Retain(x) PROVE BackupsInv'
  <2>1. /\ shown' = shown \ {x} /\ doomed' = doomed \cup [file : {x}, since : {0}]
        /\ owed' = owed \ x.lots
        /\ UNCHANGED <<memory, disk, folders, merge, backup, ends, written, received, age, troubled>>
    BY <1>2 DEF Backups!Retain, Backups!Doom
  <2>2. \A d \in doomed' : d \in doomed \/ (d.file = x /\ d.since = 0)
    BY <2>1
  <2>3. doomed' \subseteq [file : Backups!File, since : 0 .. Delay]
    BY <1>1, <2>1 DEF BackupsAssumption
  <2>4. FilesInv' /\ ShownInv' /\ MergeInv'
    BY <1>1, <2>1, <2>2, <2>3 DEF FilesInv, ShownInv, MergeInv
  <2>5. \A f \in Backups!File : Tracked(f) => Tracked(f)'
    BY <1>1, <2>1, <2>2 DEF Tracked, Backups!TypeOK
  <2>6. owed \subseteq memory \cup Backups!LotsOf(shown) =>
          owed' \subseteq memory \cup Backups!LotsOf(shown')
    BY <2>1, LotsFacts
  <2>7. OwedInv'
    BY <2>1, <2>5, <2>6, StoreStep
  <2>8. Backups!TypeOK'
    BY <1>1, <2>1, <2>3 DEF Backups!TypeOK
  <2> QED
    BY <2>4, <2>7, <2>8 DEF BackupsInv
<1>3. ASSUME NEW d \in doomed, Backups!RunDeferred(d) PROVE BackupsInv'
  <2>1. /\ d.since = Delay /\ doomed' = doomed \ {d} /\ disk' = disk \ {d.file}
        /\ UNCHANGED <<memory, shown, merge, backup, ends, written, received, owed, age, troubled>>
        /\ folders' = folders \ ({f.folder : f \in {d.file}} \ {f.folder : f \in disk'})
    BY <1>3 DEF Backups!RunDeferred, Backups!Due, Backups!Deleted
  <2>2. \A f \in disk' : f \in disk /\ f # d.file /\ f.folder \in folders'
    BY <1>1, <2>1 DEF FilesInv
  <2>3. shown \subseteq disk'
    BY <1>1, <2>1 DEF ShownInv
  <2>4. merge # Null /\ merge.written # Null => merge.written \in disk'
    BY <1>1, <2>1 DEF MergeInv
  <2>5. FilesInv' /\ ShownInv' /\ MergeInv'
    BY <1>1, <2>1, <2>2, <2>4 DEF FilesInv, ShownInv, MergeInv
  <2>6. age \in 0 .. Delay
    BY <1>1 DEF Backups!TypeOK
  <2>7. \A f \in Backups!File : Tracked(f) /\ age < Delay => Tracked(f)'
    <3>1. \A f \in Backups!File : Tracked(f) /\ age < Delay => f # d.file
      BY <2>1, <2>6 DEF Tracked, BackupsAssumption
    <3> QED
      BY <2>1, <3>1 DEF Tracked
  <2>8. OwedInv'
    BY <2>1, <2>7, StoreStep
  <2>9. Backups!TypeOK'
    BY <1>1, <2>1, <2>2, <2>3 DEF Backups!TypeOK
  <2> QED
    BY <2>5, <2>8, <2>9 DEF BackupsInv
<1> QED
  BY <1>2, <1>3

\* The server ends and starts again: a backup that it was writing is gone, and one that the
\* command writes is troubled.
LEMMA EndStep ==
    ASSUME BackupsInv, BackupsAssumption,
           (\E folder \in Folders : Backups!Stop(folder)) \/ Backups!Crash,
           backup.step \notin {"done", "failed"}
    PROVE  BackupsInv'
<1>1. /\ ends' = ends + 1 /\ ends < MaxEnds /\ doomed' = {} /\ merge' = Null
      /\ troubled' = (troubled \/ backup.by = "command")
      /\ backup' = IF backup.by = "server" THEN Backups!NoBackup ELSE backup
      /\ UNCHANGED <<received, owed, age>>
  BY DEF Backups!Stop, Backups!Crash, Backups!EndOfServer
<1>2. /\ written \in 0 .. MaxFiles /\ disk \subseteq Backups!File /\ shown \subseteq disk
      /\ ends \in 0 .. MaxEnds /\ troubled \in BOOLEAN /\ memory \subseteq Lots /\ folders \subseteq Folders
      /\ Backups!TypeOK /\ FilesInv /\ ShownInv /\ MergeInv /\ OwedInv /\ backup \in Archive
  BY DEF BackupsInv, Backups!TypeOK, FilesInv
<1>3. /\ disk' \subseteq Backups!File /\ shown' = disk' /\ written' \in 0 .. MaxFiles
      /\ folders' \subseteq Folders /\ memory' \subseteq received
      /\ \A f \in disk' : f.rank <= written' /\ f.folder \in folders'
  <2>1. CASE Backups!Crash
    BY <1>2, <2>1 DEF Backups!Crash, FilesInv, Backups!TypeOK
  <2>2. CASE \E folder \in Folders : Backups!Stop(folder)
    <3>1. PICK folder \in Folders : Backups!Stop(folder)
      BY <2>2
    <3> DEFINE new  == Backups!New(folder, memory)
               last == IF memory = {} THEN {} ELSE {new}
               added == IF memory = {} THEN 0 ELSE 1
    <3>2. /\ disk' = (disk \cup last) \ {d.file : d \in doomed}
          /\ folders' = {f.folder : f \in disk'} /\ shown' = disk'
          /\ written' = written + added /\ written + added <= MaxFiles /\ memory' = {}
      BY <3>1 DEF Backups!Stop
    <3>3. memory # {} => new \in Backups!File /\ new.rank = written + 1
      BY <1>2, <3>2 DEF Backups!New, Backups!File, BackupsAssumption
    <3> HIDE DEF new
    <3>4. \A f \in disk' : f \in disk \/ (f = new /\ memory # {})
      BY <3>2
    <3>5. disk' \subseteq Backups!File
      BY <1>2, <3>3, <3>4
    <3>6. written' \in 0 .. MaxFiles /\ written <= written' /\ (memory # {} => written' = written + 1)
          /\ written \in Nat
      BY <1>2, <3>2 DEF BackupsAssumption
    <3>7. \A f \in disk' : f.rank <= written'
      <4>1. \A f \in disk : f.rank <= written /\ f.rank \in Nat
        BY <1>2 DEF FilesInv, Backups!File
      <4> QED
        BY <3>3, <3>4, <3>6, <4>1
    <3>8. folders' \subseteq Folders /\ \A f \in disk' : f.folder \in folders'
      BY <3>2, <3>5 DEF Backups!File
    <3> HIDE DEF last, added
    <3> QED
      BY <3>2, <3>5, <3>6, <3>7, <3>8
  <2> QED
    BY <2>1, <2>2
<1>4. backup' \in Archive
  BY <1>1, <1>2 DEF Archive, Backups!NoBackup
<1>5. ends' \in 0 .. MaxEnds /\ troubled' \in BOOLEAN
  BY <1>1, <1>2 DEF BackupsAssumption
<1>6. Backups!TypeOK'
  BY <1>1, <1>2, <1>3, <1>4, <1>5 DEF Backups!TypeOK, Archive
<1>7. FilesInv' /\ ShownInv' /\ MergeInv'
  BY <1>1, <1>3, <1>4 DEF FilesInv, ShownInv, MergeInv
<1>8. OwedInv'
  <2>1. CASE backup.by = "server"
    <3>1. backup' = Backups!NoBackup /\ Backups!NoBackup.step = "none"
      BY <1>1, <2>1 DEF Backups!NoBackup
    <3> QED
      BY <3>1 DEF OwedInv
  <2>2. CASE backup.by = "command"
    <3>1. backup' = backup /\ troubled'
      BY <1>1, <2>2
    <3> QED
      BY <1>2, <2>2, <3>1 DEF OwedInv
  <2>3. CASE backup.by = "nobody"
    <3>1. backup' = backup /\ backup.step \notin {"flush", "list", "copy", "done"}
      BY <1>1, <1>2, <2>3 DEF OwedInv
    <3> QED
      BY <3>1 DEF OwedInv
  <2> QED
    BY <1>2, <2>1, <2>2, <2>3 DEF Archive
<1> QED
  BY <1>6, <1>7, <1>8 DEF BackupsInv

\* The least of two numbers is the first or the second, whichever is not greater.
LEMMA LeastOfTwo ==
    ASSUME NEW m \in Nat, NEW n \in Nat
    PROVE  Backups!Min({m, n}) = IF m <= n THEN m ELSE n
<1>1. \E x \in {m, n} : \A y \in {m, n} : x <= y
  BY SMT
<1> QED
  BY <1>1 DEF Backups!Min

\* A minute passes, for the deletions as for the backup.
LEMMA MinuteStep ==
    ASSUME BackupsInv, BackupsAssumption, Backups!Minute
    PROVE  BackupsInv'
<1> DEFINE older(n) == Backups!Min({n + 1, Delay})
<1>1. /\ doomed' = {[d EXCEPT !.since = older(d.since)] : d \in doomed}
      /\ age' = IF backup.step \in {"flush", "list", "copy"} THEN older(age) ELSE age
      /\ UNCHANGED <<memory, disk, folders, shown, merge, backup, ends, written, received, owed, troubled>>
  BY DEF Backups!Minute
<1>2. /\ doomed \subseteq [file : Backups!File, since : 0 .. Delay] /\ age \in 0 .. Delay
      /\ Backups!TypeOK /\ FilesInv /\ ShownInv /\ MergeInv /\ OwedInv
  BY DEF BackupsInv, Backups!TypeOK, FilesInv
<1>3. \A n \in 0 .. Delay : older(n) = IF n + 1 <= Delay THEN n + 1 ELSE Delay
  BY LeastOfTwo DEF BackupsAssumption
<1> HIDE DEF older
<1>4. /\ \A n \in 0 .. Delay : older(n) \in 0 .. Delay
      /\ \A m, n \in 0 .. Delay : m <= n => older(m) <= older(n)
      /\ \A n \in 0 .. Delay : older(n) < Delay => n < Delay
  BY <1>3 DEF BackupsAssumption
<1>5. \A e \in doomed' : \E d \in doomed : e.file = d.file /\ e.since = older(d.since)
                                          /\ e \in [file : Backups!File, since : 0 .. Delay]
  <2> SUFFICES ASSUME NEW d \in doomed
               PROVE  /\ [d EXCEPT !.since = older(d.since)].file = d.file
                      /\ [d EXCEPT !.since = older(d.since)].since = older(d.since)
                      /\ [d EXCEPT !.since = older(d.since)] \in [file : Backups!File, since : 0 .. Delay]
    BY <1>1
  <2>1. d \in [file : Backups!File, since : 0 .. Delay] /\ older(d.since) \in 0 .. Delay
    BY <1>2, <1>4
  <2> QED
    BY <2>1
<1>6. doomed' \subseteq [file : Backups!File, since : 0 .. Delay] /\ age' \in 0 .. Delay
  BY <1>1, <1>2, <1>4, <1>5
<1>7. Backups!TypeOK'
  BY <1>1, <1>2, <1>6 DEF Backups!TypeOK
<1>8. FilesInv' /\ ShownInv' /\ MergeInv'
  BY <1>1, <1>2, <1>5, <1>6 DEF FilesInv, ShownInv, MergeInv
<1>9. OwedInv'
  <2>1. CASE backup.step \in {"list", "copy"}
    <3>1. age' = older(age) /\ \A d \in doomed : d.since \in 0 .. Delay
      BY <1>1, <1>2, <2>1
    <3>2. \A f \in Backups!File : Tracked(f) => Tracked(f)'
      BY <1>1, <1>2, <1>4, <1>5, <3>1 DEF Tracked
    <3>3. \A lot : Found(lot) => Found(lot)'
      BY <1>1, <3>2 DEF Found
    <3> QED
      BY <1>1, <1>2, <1>4, <2>1, <3>1, <3>3 DEF OwedInv
  <2>2. CASE backup.step \notin {"list", "copy"}
    BY <1>1, <1>2, <1>4, <2>2 DEF OwedInv
  <2> QED
    BY <2>1, <2>2
<1> QED
  BY <1>7, <1>8, <1>9 DEF BackupsInv

\* A backup begins: what it must hold is in memory or in the snapshot, which nobody deletes.
LEMMA BackupBegins ==
    ASSUME BackupsInv, BackupsAssumption,
           \/ Backups!Ask \/ Backups!Command
           \/ \E folder \in Folders : Backups!FlushFirst(folder)
    PROVE  BackupsInv'
<1>1. /\ disk \subseteq Backups!File /\ shown \subseteq disk /\ folders \subseteq Folders
      /\ memory \subseteq Lots
      /\ Backups!TypeOK /\ FilesInv /\ ShownInv /\ MergeInv /\ OwedInv /\ backup \in Archive
  BY DEF BackupsInv, Backups!TypeOK, FilesInv
<1>2. Backups!LotsOf(shown) \subseteq Lots
  BY <1>1, LotsFacts DEF Backups!File
<1>3. 0 \in 0 .. Delay
  BY DEF BackupsAssumption
<1>4. \A f \in shown : f \in Backups!File /\ f.folder \in folders /\ Tracked(f)
  BY <1>1 DEF FilesInv, ShownInv, Tracked
<1>5. CASE Backups!Ask
  <2>1. /\ backup' = [Backups!NoBackup EXCEPT !.by = "server", !.step = "flush"]
        /\ owed' = memory \cup Backups!LotsOf(shown) /\ age' = 0 /\ troubled' = FALSE
        /\ UNCHANGED <<memory, disk, folders, shown, doomed, merge, ends, written, received>>
    BY <1>5 DEF Backups!Ask
  <2>2. backup' = [by |-> "server", step |-> "flush", visit |-> {}, listed |-> {}, copied |-> {}]
    BY <2>1 DEF Backups!NoBackup
  <2>3. /\ backup' \in Archive /\ backup'.step = "flush" /\ backup'.by = "server"
        /\ backup'.listed = {}
    BY <2>2 DEF Archive
  <2>4. Backups!TypeOK'
    BY <1>1, <1>2, <1>3, <2>1, <2>3 DEF Backups!TypeOK, Archive
  <2>5. FilesInv' /\ ShownInv' /\ MergeInv'
    BY <1>1, <2>1, <2>3 DEF FilesInv, ShownInv, MergeInv
  <2>6. OwedInv'
    BY <2>1, <2>3 DEF OwedInv
  <2> QED
    BY <2>4, <2>5, <2>6 DEF BackupsInv
<1>6. CASE Backups!Command
  <2>1. /\ backup' = [Backups!NoBackup EXCEPT !.by = "command", !.step = "list", !.visit = folders]
        /\ owed' = Backups!LotsOf(shown) /\ age' = 0 /\ troubled' = FALSE
        /\ UNCHANGED <<memory, disk, folders, shown, doomed, merge, ends, written, received>>
    BY <1>6 DEF Backups!Command
  <2>2. backup' = [by |-> "command", step |-> "list", visit |-> folders, listed |-> {}, copied |-> {}]
    BY <2>1 DEF Backups!NoBackup
  <2>3. /\ backup' \in Archive /\ backup'.step = "list" /\ backup'.by = "command"
        /\ backup'.visit = folders /\ backup'.listed = {}
    BY <1>1, <2>2 DEF Archive
  <2>4. Backups!TypeOK'
    BY <1>1, <1>2, <1>3, <2>1, <2>3 DEF Backups!TypeOK, Archive
  <2>5. \A f \in shown : Tracked(f)'
    BY <1>1, <2>1 DEF Tracked, ShownInv
  <2>6. \A lot \in owed' : Found(lot)'
    BY <1>4, <2>1, <2>3, <2>5, LotsFacts DEF Found
  <2>7. FilesInv' /\ ShownInv' /\ MergeInv' /\ OwedInv'
    BY <1>1, <2>1, <2>3, <2>6 DEF FilesInv, ShownInv, MergeInv, OwedInv
  <2> QED
    BY <2>4, <2>7 DEF BackupsInv
<1>7. ASSUME NEW folder \in Folders, Backups!FlushFirst(folder) PROVE BackupsInv'
  <2>1. /\ backup.step = "flush" /\ Backups!Flushed(folder)
        /\ backup' = [backup EXCEPT !.step = "list", !.visit = folders']
        /\ UNCHANGED <<doomed, merge, ends, received, owed, age, troubled>>
    BY <1>7 DEF Backups!FlushFirst
  <2>2. /\ folders' \subseteq Folders /\ shown' \subseteq disk' /\ disk' \subseteq Backups!File
        /\ ShownInv' /\ MergeInv' /\ written' \in 0 .. MaxFiles /\ memory' \subseteq received'
        /\ \A f \in disk' : f.rank <= written' /\ f.folder \in folders'
        /\ \A d \in doomed : d.file.rank <= written'
        /\ merge # Null => \A f \in merge.sources : f.rank <= written'
        /\ memory \cup Backups!LotsOf(shown) \subseteq Backups!LotsOf(shown')
    BY <2>1, FlushedFacts
  <2>3. /\ backup' \in Archive /\ backup'.step = "list" /\ backup'.by = backup.by
        /\ backup'.visit = folders' /\ backup'.listed = backup.listed
    BY <1>1, <2>1, <2>2 DEF Archive
  <2>4. Backups!TypeOK'
    BY <1>1, <2>1, <2>2, <2>3 DEF Backups!TypeOK, Archive
  <2>5. \A f \in shown' : Tracked(f)'
    BY <2>1, <2>2 DEF Tracked, ShownInv
  <2>6. age < Delay /\ ~troubled => \A lot \in owed' : Found(lot)'
    BY <1>1, <2>1, <2>2, <2>3, <2>5, LotsFacts DEF Found, OwedInv
  <2>7. FilesInv'
    BY <1>1, <2>1, <2>2, <2>3 DEF FilesInv
  <2>8. OwedInv'
    <3>1. backup.by = "server" /\ backup.listed = {}
      BY <1>1, <2>1 DEF OwedInv
    <3> QED
      BY <2>1, <2>3, <2>6, <3>1 DEF OwedInv
  <2> QED
    BY <2>2, <2>4, <2>7, <2>8 DEF BackupsInv
<1> QED
  BY <1>5, <1>6, <1>7

\* A folder is listed, a file copied, a folder left, the archive closed.
LEMMA CopyStep ==
    ASSUME BackupsInv, BackupsAssumption,
           \/ \E folder \in Folders : Backups!List(folder)
           \/ \E f \in backup.listed : Backups!Copy(f)
           \/ Backups!NextFolder \/ Backups!Close
    PROVE  BackupsInv'
<1>1. /\ UNCHANGED <<memory, disk, folders, shown, doomed, merge, ends, written, received, owed, age, troubled>>
      /\ Backups!TypeOK /\ FilesInv /\ ShownInv /\ MergeInv /\ OwedInv /\ backup \in Archive
      /\ disk \subseteq Backups!File
  BY DEF Backups!List, Backups!Copy, Backups!NextFolder, Backups!Close, BackupsInv, FilesInv, Backups!TypeOK
<1>2. \A f : Tracked(f) => Tracked(f)'
  BY <1>1 DEF Tracked
<1>3. SUFFICES backup' \in Archive /\ OwedInv'
  <2>1. Backups!TypeOK' /\ FilesInv' /\ ShownInv' /\ MergeInv'
    BY <1>1, <1>3 DEF Backups!TypeOK, FilesInv, ShownInv, MergeInv, Archive
  <2> QED
    BY <1>3, <2>1 DEF BackupsInv
<1>4. ASSUME NEW folder \in Folders, Backups!List(folder) PROVE backup' \in Archive /\ OwedInv'
  <2>1. /\ backup.step = "list" /\ folder \in backup.visit
        /\ backup' = [backup EXCEPT !.step = "copy", !.visit = backup.visit \ {folder},
                                    !.listed = Backups!Under(folder)]
    BY <1>4 DEF Backups!List
  <2>2. Backups!Under(folder) = {f \in disk : f.folder = folder}
    BY DEF Backups!Under
  <2>3. /\ backup' \in Archive /\ backup'.step = "copy" /\ backup'.by = backup.by
        /\ backup'.visit = backup.visit \ {folder} /\ backup'.copied = backup.copied
        /\ backup'.listed = {f \in disk : f.folder = folder}
    <3> DEFINE files == Backups!Under(folder)
    <3>1. files \subseteq Backups!File
      BY <1>1, <2>2
    <3> HIDE DEF files
    <3>2. /\ backup' \in Archive /\ backup'.step = "copy" /\ backup'.by = backup.by
          /\ backup'.visit = backup.visit \ {folder} /\ backup'.copied = backup.copied
          /\ backup'.listed = files
      BY <1>1, <2>1, <3>1 DEF Archive, files
    <3> QED
      BY <2>2, <3>2 DEF files
  <2>4. \A lot : Found(lot) => Found(lot)'
    <3> SUFFICES ASSUME NEW lot, Found(lot) PROVE Found(lot)'
      OBVIOUS
    <3>1. CASE lot \in Backups!LotsOf(backup.copied)
      BY <2>3, <3>1 DEF Found
    <3>2. CASE \E f \in Backups!File :
            Tracked(f) /\ lot \in f.lots /\ (f \in backup.listed \/ f.folder \in backup.visit)
      <4>1. PICK f \in Backups!File : Tracked(f) /\ lot \in f.lots /\ f.folder \in backup.visit
        BY <1>1, <2>1, <3>2 DEF OwedInv
      <4>2. f \in backup'.listed \/ f.folder \in backup'.visit
        BY <2>3, <4>1 DEF Tracked
      <4> QED
        BY <1>2, <4>1, <4>2 DEF Found
    <3> QED
      BY <3>1, <3>2 DEF Found
  <2> QED
    BY <1>1, <2>1, <2>3, <2>4 DEF OwedInv
<1>5. ASSUME NEW x \in backup.listed, Backups!Copy(x) PROVE backup' \in Archive /\ OwedInv'
  <2>1. CASE x.folder \notin folders
    <3>1. backup' = [backup EXCEPT !.step = "failed"]
      BY <1>5, <2>1 DEF Backups!Copy
    <3>2. backup' \in Archive /\ backup'.step = "failed"
      BY <1>1, <3>1 DEF Archive
    <3> QED
      BY <3>2 DEF OwedInv
  <2>2. CASE x.folder \in folders
    <3> DEFINE copied == IF x \in disk THEN backup.copied \cup {x} ELSE backup.copied
    <3>1. /\ backup.step = "copy"
          /\ backup' = [backup EXCEPT !.listed = backup.listed \ {x}, !.copied = copied]
      BY <1>5, <2>2 DEF Backups!Copy
    <3>2. /\ copied \in SUBSET Backups!File /\ backup.copied \subseteq copied
          /\ x \in disk => x \in copied
      BY <1>1 DEF Archive
    <3> HIDE DEF copied
    <3>3. /\ backup' \in Archive /\ backup'.step = "copy" /\ backup'.by = backup.by
          /\ backup'.visit = backup.visit /\ backup'.copied = copied
          /\ backup'.listed = backup.listed \ {x}
      BY <1>1, <3>1, <3>2 DEF Archive
    <3>4. \A lot : Found(lot) => Found(lot)'
      <4> SUFFICES ASSUME NEW lot, Found(lot) PROVE Found(lot)'
        OBVIOUS
      <4>1. CASE lot \in Backups!LotsOf(backup.copied)
        BY <3>2, <3>3, <4>1, LotsFacts DEF Found
      <4>2. CASE \E f \in Backups!File :
              Tracked(f) /\ lot \in f.lots /\ (f \in backup.listed \/ f.folder \in backup.visit)
        <5>1. PICK f \in Backups!File :
                Tracked(f) /\ lot \in f.lots /\ (f \in backup.listed \/ f.folder \in backup.visit)
          BY <4>2
        <5>2. CASE f = x
          <6>1. lot \in Backups!LotsOf(copied)
            BY <3>2, <5>1, <5>2, LotsFacts DEF Tracked
          <6> QED
            BY <3>3, <6>1 DEF Found
        <5>3. CASE f # x
          BY <1>2, <3>3, <5>1, <5>3 DEF Found
        <5> QED
          BY <5>2, <5>3
      <4> QED
        BY <4>1, <4>2 DEF Found
    <3> QED
      BY <1>1, <3>1, <3>3, <3>4 DEF OwedInv
  <2> QED
    BY <2>1, <2>2
<1>6. CASE Backups!NextFolder
  <2>1. backup.step = "copy" /\ backup.listed = {} /\ backup' = [backup EXCEPT !.step = "list"]
    BY <1>6 DEF Backups!NextFolder
  <2>2. /\ backup' \in Archive /\ backup'.step = "list" /\ backup'.by = backup.by
        /\ backup'.visit = backup.visit /\ backup'.copied = backup.copied
        /\ backup'.listed = backup.listed
    BY <1>1, <2>1 DEF Archive
  <2>3. \A lot : Found(lot) => Found(lot)'
    BY <1>2, <2>2 DEF Found
  <2> QED
    BY <1>1, <2>1, <2>2, <2>3 DEF OwedInv
<1>7. CASE Backups!Close
  <2>1. backup.step = "list" /\ backup.visit = {} /\ backup' = [backup EXCEPT !.step = "done"]
    BY <1>7 DEF Backups!Close
  <2>2. backup' \in Archive /\ backup'.step = "done" /\ backup'.copied = backup.copied
    BY <1>1, <2>1 DEF Archive
  <2>3. \A lot : Found(lot) => lot \in Backups!LotsOf(backup.copied)
    BY <1>1, <2>1 DEF Found, OwedInv
  <2> QED
    BY <1>1, <2>1, <2>2, <2>3 DEF OwedInv
<1> QED
  BY SMTT(90), <1>4, <1>5, <1>6, <1>7

\* The invariant of the backups, in the run of the parts.
LEMMA BackupsAlways ==
    ASSUME BackupsAssumption
    PROVE  Spec => [](part = "backups" => BackupsInv)
<1>1. Init => (part = "backups" => BackupsInv)
  <2> SUFFICES ASSUME Backups!Init PROVE BackupsInv
    BY DEF Init
  <2>1. Backups!NoBackup \in Archive /\ Backups!NoBackup.step = "none"
    BY DEF Backups!NoBackup, Archive
  <2>2. 0 \in 0 .. Delay /\ 0 \in 0 .. MaxFiles /\ 0 \in 0 .. MaxEnds
    BY DEF BackupsAssumption
  <2>3. backup \in Archive /\ backup.step = "none"
    BY <2>1 DEF Backups!Init
  <2>4. Backups!TypeOK
    BY <2>2, <2>3 DEF Backups!Init, Backups!TypeOK, Archive
  <2> QED
    BY <2>3, <2>4 DEF Backups!Init, BackupsInv, FilesInv, ShownInv, MergeInv, OwedInv
<1>2. (part = "backups" => BackupsInv) /\ [Next]_partVars => (part = "backups" => BackupsInv)'
  <2> SUFFICES ASSUME part = "backups" => BackupsInv, [Next]_partVars, part' = "backups"
               PROVE  BackupsInv'
    OBVIOUS
  <2>1. CASE partVars' = partVars
    <3>1. part' = part /\ archiveVars' = archiveVars
      BY <2>1 DEF partVars
    <3> QED
      BY <3>1 DEF archiveVars, BackupsInv, FilesInv, ShownInv, MergeInv, OwedInv, Found, Tracked,
        Backups!TypeOK
  <2>2. CASE Next
    <3>1. part = "backups" /\ Backups!Next
      BY <2>2 DEF Next, OthersStay
    <3> QED
      BY <3>1, ReceiveStep, MergeStep, RetainStep, EndStep, MinuteStep, BackupBegins, CopyStep
      DEF Backups!Next
  <2> QED
    BY <2>1, <2>2
<1> QED
  BY <1>1, <1>2, PTL DEF Spec

\* An archive that is complete holds everything that was stored when the backup began, whatever
\* is flushed, merged and deleted meanwhile, if it took less than the delay of the deletions
\* and the server did not stop beside the command (Backup.cs, DeferredDelete of SignalStore.cs).
THEOREM ArchivesAreComplete ==
    ASSUME BackupsAssumption
    PROVE  Spec => []ArchiveComplete
<1>1. (part = "backups" => BackupsInv) => ArchiveComplete
  BY DEF BackupsInv, OwedInv, ArchiveComplete, Backups!ArchiveComplete
<1> QED
  BY <1>1, BackupsAlways, PTL

-----------------------------------------------------------------------------
(* The sessions.                                                           *)

SessionsAssumption == MaxFailures \in Nat /\ Null \notin Processes

Handles(r, q) == phase[r] \in {"store", "delete"} /\ subject[r] = q

\* How a process ended follows from its step, and who reports a marker reports that of a
\* process that is gone.
EndInv ==
    /\ \A p \in Processes :
          /\ phase[p] = "new" => p \notin marker /\ p \notin marked
          /\ phase[p] \notin {"unmark", "crashed", "stopping", "gone"} => ended[p] = "no"
          /\ phase[p] \in {"unmark", "crashed"} => ended[p] = "crash"
          /\ phase[p] = "stopping" => ended[p] = "clean"
          /\ phase[p] = "gone" => ended[p] # "no"
    /\ \A r \in Processes :
          /\ phase[r] \in {"store", "delete"} =>
                subject[r] \in Processes /\ phase[subject[r]] = "gone"
          /\ phase[r] = "delete" => reports[subject[r]] > 0 \/ subject[r] \in lost

\* The marker of a process that is under way or was killed is there, unless it is reported
\* or was given up.
KeptInv ==
    \A p \in marked : ended[p] \in {"no", "killed"} =>
        p \in marker \/ reports[p] > 0 \/ p \in lost

\* What is known of a process that is not counted as doubled.
ReportedOnce(q) ==
    /\ reports[q] <= IF ended[q] \in {"no", "clean"} THEN 0 ELSE 1
    /\ ended[q] = "clean" => q \notin marker
    /\ phase[q] \in {"crashed", "gone"} /\ ended[q] = "crash" => q \notin marker
    /\ \A r, s \in Processes : Handles(r, q) /\ Handles(s, q) => r = s
    /\ \A r \in Processes : phase[r] = "store" /\ subject[r] = q =>
          reports[q] = 0 /\ ended[q] = "killed"
    /\ q \in marker /\ phase[q] = "gone" =>
          reports[q] = 0 \/ \E r \in Processes : phase[r] = "delete" /\ subject[r] = q

OnceInv == \A q \in Processes \ doubled : ReportedOnce(q)

SessionsInv == Sessions!TypeOK /\ EndInv /\ KeptInv /\ OnceInv

\* A start lists the markers there are; nobody has yet reported anything of the process.
LEMMA StartStep ==
    ASSUME SessionsInv, SessionsAssumption, NEW p \in Processes, Sessions!Start(p)
    PROVE  SessionsInv'
<1>1. Sessions!TypeOK'
  BY DEF SessionsInv, Sessions!TypeOK, Sessions!Start, SessionsAssumption, Sessions!Phases
<1>2. EndInv'
  BY DEF SessionsInv, Sessions!TypeOK, Sessions!Start, EndInv, Sessions!Alive, SessionsAssumption
<1>3. KeptInv'
  BY DEF SessionsInv, Sessions!TypeOK, Sessions!Start, EndInv, KeptInv, Sessions!Alive, SessionsAssumption
<1>4. OnceInv'
  BY DEF SessionsInv, Sessions!TypeOK, Sessions!Start, EndInv, OnceInv, ReportedOnce, Handles,
    Sessions!Alive, SessionsAssumption
<1> QED
  BY <1>1, <1>2, <1>3, <1>4 DEF SessionsInv

\* The next marker of the list becomes the subject; nothing is known of it yet.
LEMMA NextFileStep ==
    ASSUME SessionsInv, SessionsAssumption, NEW p \in Processes, Sessions!NextFile(p)
    PROVE  SessionsInv'
<1>1. Sessions!TypeOK'
  BY DEF SessionsInv, Sessions!TypeOK, Sessions!NextFile, SessionsAssumption, Sessions!Phases
<1>2. EndInv'
  BY DEF SessionsInv, Sessions!TypeOK, Sessions!NextFile, EndInv, Sessions!Alive, SessionsAssumption
<1>3. KeptInv'
  BY DEF SessionsInv, Sessions!TypeOK, Sessions!NextFile, EndInv, KeptInv, Sessions!Alive,
    SessionsAssumption
<1>4. OnceInv'
  BY DEF SessionsInv, Sessions!TypeOK, Sessions!NextFile, EndInv, OnceInv, ReportedOnce, Handles,
    Sessions!Alive, SessionsAssumption
<1> QED
  BY <1>1, <1>2, <1>3, <1>4 DEF SessionsInv

\* The list is exhausted; the start goes on to its own marker.
LEMMA LastFileStep ==
    ASSUME SessionsInv, SessionsAssumption, NEW p \in Processes, Sessions!LastFile(p)
    PROVE  SessionsInv'
<1>1. Sessions!TypeOK'
  BY DEF SessionsInv, Sessions!TypeOK, Sessions!LastFile, SessionsAssumption, Sessions!Phases
<1>2. EndInv'
  BY DEF SessionsInv, Sessions!TypeOK, Sessions!LastFile, EndInv, Sessions!Alive, SessionsAssumption
<1>3. KeptInv'
  BY DEF SessionsInv, Sessions!TypeOK, Sessions!LastFile, EndInv, KeptInv, Sessions!Alive,
    SessionsAssumption
<1>4. OnceInv'
  BY DEF SessionsInv, Sessions!TypeOK, Sessions!LastFile, EndInv, OnceInv, ReportedOnce, Handles,
    Sessions!Alive, SessionsAssumption
<1> QED
  BY <1>1, <1>2, <1>3, <1>4 DEF SessionsInv

\* A marker whose process is gone is taken up; were another start at it, it would count as doubled.
LEMMA ReadMarkerStep ==
    ASSUME SessionsInv, SessionsAssumption, NEW p \in Processes, Sessions!ReadMarker(p)
    PROVE  SessionsInv'
<1>1. Sessions!TypeOK'
  BY DEF SessionsInv, Sessions!TypeOK, Sessions!ReadMarker, SessionsAssumption, Sessions!Phases
<1>2. EndInv'
  BY DEF SessionsInv, Sessions!TypeOK, Sessions!ReadMarker, EndInv, Sessions!Alive, SessionsAssumption
<1>3. KeptInv'
  BY DEF SessionsInv, Sessions!TypeOK, Sessions!ReadMarker, EndInv, KeptInv, Sessions!Alive,
    SessionsAssumption
<1>4. OnceInv'
  BY DEF SessionsInv, Sessions!TypeOK, Sessions!ReadMarker, EndInv, OnceInv, ReportedOnce, Handles,
    Sessions!Alive, SessionsAssumption
<1> QED
  BY <1>1, <1>2, <1>3, <1>4 DEF SessionsInv

\* An unreadable marker is given up for an error, one that is gone was removed by another start.
LEMMA UnreadableStep ==
    ASSUME SessionsInv, SessionsAssumption, NEW p \in Processes, Sessions!Unreadable(p)
    PROVE  SessionsInv'
<1>1. Sessions!TypeOK'
  BY DEF SessionsInv, Sessions!TypeOK, Sessions!Unreadable, SessionsAssumption, Sessions!Phases
<1>2. EndInv'
  BY DEF SessionsInv, Sessions!TypeOK, Sessions!Unreadable, EndInv, Sessions!Alive, SessionsAssumption
<1>3. KeptInv'
  BY DEF SessionsInv, Sessions!TypeOK, Sessions!Unreadable, EndInv, KeptInv, Sessions!Alive,
    SessionsAssumption
<1>4. OnceInv'
  BY DEF SessionsInv, Sessions!TypeOK, Sessions!Unreadable, EndInv, OnceInv, ReportedOnce, Handles,
    Sessions!Alive, SessionsAssumption
<1> QED
  BY <1>1, <1>2, <1>3, <1>4 DEF SessionsInv

\* The report of a killed process is its first.
LEMMA StoreReportStep ==
    ASSUME SessionsInv, SessionsAssumption, NEW p \in Processes, Sessions!StoreReport(p)
    PROVE  SessionsInv'
<1>1. Sessions!TypeOK'
  <2>1. subject[p] \in Processes /\ reports \in [Processes -> Nat] /\ failures \in 0..MaxFailures
    BY DEF SessionsInv, Sessions!TypeOK, Sessions!StoreReport, EndInv
  <2>2. reports' \in [Processes -> Nat]
    BY <2>1 DEF Sessions!StoreReport
  <2>3. failures' \in 0..MaxFailures /\ (lost' = lost \/ lost' = lost \cup {subject[p]})
    BY <2>1 DEF Sessions!StoreReport, SessionsAssumption
  <2>4. phase' \in [Processes -> Sessions!Phases]
    BY DEF SessionsInv, Sessions!TypeOK, Sessions!StoreReport, Sessions!Phases
  <2> QED
    BY <2>1, <2>2, <2>3, <2>4 DEF SessionsInv, Sessions!TypeOK, Sessions!StoreReport
<1>2. EndInv'
  BY DEF SessionsInv, Sessions!TypeOK, Sessions!StoreReport, EndInv, Sessions!Alive, SessionsAssumption
<1>3. KeptInv'
  BY DEF SessionsInv, Sessions!TypeOK, Sessions!StoreReport, EndInv, KeptInv, Sessions!Alive,
    SessionsAssumption
<1>4. OnceInv'
  BY DEF SessionsInv, Sessions!TypeOK, Sessions!StoreReport, EndInv, OnceInv, ReportedOnce,
    Handles, Sessions!Alive, SessionsAssumption
<1> QED
  BY <1>1, <1>2, <1>3, <1>4 DEF SessionsInv

\* The deletion follows the report, or its loss; where it fails the process counts as doubled.
LEMMA DeleteMarkerStep ==
    ASSUME SessionsInv, SessionsAssumption, NEW p \in Processes, Sessions!DeleteMarker(p)
    PROVE  SessionsInv'
<1>1. Sessions!TypeOK'
  BY DEF SessionsInv, Sessions!TypeOK, Sessions!DeleteMarker, Sessions!TryDelete, SessionsAssumption, Sessions!Phases
<1>2. EndInv'
  BY DEF SessionsInv, Sessions!TypeOK, Sessions!DeleteMarker, Sessions!TryDelete, EndInv, Sessions!Alive, SessionsAssumption
<1>3. KeptInv'
  BY DEF SessionsInv, Sessions!TypeOK, Sessions!DeleteMarker, Sessions!TryDelete, EndInv, KeptInv, Sessions!Alive,
    SessionsAssumption
<1>4. OnceInv'
  BY DEF SessionsInv, Sessions!TypeOK, Sessions!DeleteMarker, Sessions!TryDelete, EndInv, OnceInv, ReportedOnce,
    Handles, Sessions!Alive, SessionsAssumption
<1> QED
  BY <1>1, <1>2, <1>3, <1>4 DEF SessionsInv

\* A process that is up has its own marker, or none for an error.
LEMMA MarkStep ==
    ASSUME SessionsInv, SessionsAssumption, NEW p \in Processes, Sessions!Mark(p)
    PROVE  SessionsInv'
<1>1. Sessions!TypeOK'
  BY DEF SessionsInv, Sessions!TypeOK, Sessions!Mark, SessionsAssumption, Sessions!Phases
<1>2. EndInv'
  BY DEF SessionsInv, Sessions!TypeOK, Sessions!Mark, EndInv, Sessions!Alive, SessionsAssumption
<1>3. KeptInv'
  BY DEF SessionsInv, Sessions!TypeOK, Sessions!Mark, EndInv, KeptInv, Sessions!Alive, SessionsAssumption
<1>4. OnceInv'
  BY DEF SessionsInv, Sessions!TypeOK, Sessions!Mark, EndInv, OnceInv, ReportedOnce, Handles,
    Sessions!Alive, SessionsAssumption
<1> QED
  BY <1>1, <1>2, <1>3, <1>4 DEF SessionsInv

\* The timer is past its test; nothing is written yet.
LEMMA TickStep ==
    ASSUME SessionsInv, SessionsAssumption, NEW p \in Processes, Sessions!Tick(p)
    PROVE  SessionsInv'
<1>1. Sessions!TypeOK'
  BY DEF SessionsInv, Sessions!TypeOK, Sessions!Tick, SessionsAssumption, Sessions!Phases
<1>2. EndInv'
  BY DEF SessionsInv, Sessions!TypeOK, Sessions!Tick, EndInv, Sessions!Alive, SessionsAssumption
<1>3. KeptInv'
  BY DEF SessionsInv, Sessions!TypeOK, Sessions!Tick, EndInv, KeptInv, Sessions!Alive, SessionsAssumption
<1>4. OnceInv'
  BY DEF SessionsInv, Sessions!TypeOK, Sessions!Tick, EndInv, OnceInv, ReportedOnce, Handles,
    Sessions!Alive, SessionsAssumption
<1> QED
  BY <1>1, <1>2, <1>3, <1>4 DEF SessionsInv

\* The timer moves the marker into place, of a living process or of one that counts as doubled.
LEMMA MoveMarkerStep ==
    ASSUME SessionsInv, SessionsAssumption, NEW p \in Processes, Sessions!MoveMarker(p)
    PROVE  SessionsInv'
<1>1. Sessions!TypeOK'
  BY DEF SessionsInv, Sessions!TypeOK, Sessions!MoveMarker, SessionsAssumption, Sessions!Phases
<1>2. EndInv'
  BY DEF SessionsInv, Sessions!TypeOK, Sessions!MoveMarker, EndInv, Sessions!Alive, SessionsAssumption
<1>3. KeptInv'
  BY DEF SessionsInv, Sessions!TypeOK, Sessions!MoveMarker, EndInv, KeptInv, Sessions!Alive,
    SessionsAssumption
<1>4. OnceInv'
  BY DEF SessionsInv, Sessions!TypeOK, Sessions!MoveMarker, EndInv, OnceInv, ReportedOnce, Handles,
    Sessions!Alive, SessionsAssumption
<1> QED
  BY <1>1, <1>2, <1>3, <1>4 DEF SessionsInv

\* An unhandled exception ends the process; its marker is still there.
LEMMA UnhandledStep ==
    ASSUME SessionsInv, SessionsAssumption, NEW p \in Processes, Sessions!Unhandled(p)
    PROVE  SessionsInv'
<1>1. Sessions!TypeOK'
  BY DEF SessionsInv, Sessions!TypeOK, Sessions!Unhandled, SessionsAssumption, Sessions!Phases
<1>2. EndInv'
  BY DEF SessionsInv, Sessions!TypeOK, Sessions!Unhandled, EndInv, Sessions!Alive, SessionsAssumption
<1>3. KeptInv'
  BY DEF SessionsInv, Sessions!TypeOK, Sessions!Unhandled, EndInv, KeptInv, Sessions!Alive,
    SessionsAssumption
<1>4. OnceInv'
  BY DEF SessionsInv, Sessions!TypeOK, Sessions!Unhandled, EndInv, OnceInv, ReportedOnce, Handles,
    Sessions!Alive, SessionsAssumption
<1> QED
  BY <1>1, <1>2, <1>3, <1>4 DEF SessionsInv

\* The crash is reported once by the process itself.
LEMMA StoreCrashStep ==
    ASSUME SessionsInv, SessionsAssumption, NEW p \in Processes, Sessions!StoreCrash(p)
    PROVE  SessionsInv'
<1>1. Sessions!TypeOK'
  BY DEF SessionsInv, Sessions!TypeOK, Sessions!StoreCrash, SessionsAssumption, Sessions!Phases
<1>2. EndInv'
  BY DEF SessionsInv, Sessions!TypeOK, Sessions!StoreCrash, EndInv, Sessions!Alive, SessionsAssumption
<1>3. KeptInv'
  BY DEF SessionsInv, Sessions!TypeOK, Sessions!StoreCrash, EndInv, KeptInv, Sessions!Alive,
    SessionsAssumption
<1>4. OnceInv'
  BY DEF SessionsInv, Sessions!TypeOK, Sessions!StoreCrash, EndInv, OnceInv, ReportedOnce, Handles,
    Sessions!Alive, SessionsAssumption
<1> QED
  BY <1>1, <1>2, <1>3, <1>4 DEF SessionsInv

\* The marker goes once the crash is reported or its report is lost.
LEMMA CrashUnmarkedStep ==
    ASSUME SessionsInv, SessionsAssumption, NEW p \in Processes, Sessions!CrashUnmarked(p)
    PROVE  SessionsInv'
<1>1. Sessions!TypeOK'
  BY DEF SessionsInv, Sessions!TypeOK, Sessions!CrashUnmarked, Sessions!TryDelete, SessionsAssumption, Sessions!Phases
<1>2. EndInv'
  BY DEF SessionsInv, Sessions!TypeOK, Sessions!CrashUnmarked, Sessions!TryDelete, EndInv, Sessions!Alive, SessionsAssumption
<1>3. KeptInv'
  BY DEF SessionsInv, Sessions!TypeOK, Sessions!CrashUnmarked, Sessions!TryDelete, EndInv, KeptInv, Sessions!Alive,
    SessionsAssumption
<1>4. OnceInv'
  BY DEF SessionsInv, Sessions!TypeOK, Sessions!CrashUnmarked, Sessions!TryDelete, EndInv, OnceInv, ReportedOnce,
    Handles, Sessions!Alive, SessionsAssumption
<1> QED
  BY <1>1, <1>2, <1>3, <1>4 DEF SessionsInv

\* A clean stop removes the marker with nothing reported, or counts as doubled.
LEMMA CleanStopStep ==
    ASSUME SessionsInv, SessionsAssumption, NEW p \in Processes, Sessions!CleanStop(p)
    PROVE  SessionsInv'
<1>1. Sessions!TypeOK'
  BY DEF SessionsInv, Sessions!TypeOK, Sessions!CleanStop, Sessions!TryDelete, SessionsAssumption, Sessions!Phases
<1>2. EndInv'
  BY DEF SessionsInv, Sessions!TypeOK, Sessions!CleanStop, Sessions!TryDelete, EndInv, Sessions!Alive, SessionsAssumption
<1>3. KeptInv'
  BY DEF SessionsInv, Sessions!TypeOK, Sessions!CleanStop, Sessions!TryDelete, EndInv, KeptInv, Sessions!Alive,
    SessionsAssumption
<1>4. OnceInv'
  BY DEF SessionsInv, Sessions!TypeOK, Sessions!CleanStop, Sessions!TryDelete, EndInv, OnceInv, ReportedOnce, Handles,
    Sessions!Alive, SessionsAssumption
<1> QED
  BY <1>1, <1>2, <1>3, <1>4 DEF SessionsInv

\* The exit removes the marker the timer may have written again.
LEMMA ExitStep ==
    ASSUME SessionsInv, SessionsAssumption, NEW p \in Processes, Sessions!Exit(p)
    PROVE  SessionsInv'
<1>1. Sessions!TypeOK'
  BY DEF SessionsInv, Sessions!TypeOK, Sessions!Exit, Sessions!TryDelete, SessionsAssumption, Sessions!Phases
<1>2. EndInv'
  BY DEF SessionsInv, Sessions!TypeOK, Sessions!Exit, Sessions!TryDelete, EndInv, Sessions!Alive, SessionsAssumption
<1>3. KeptInv'
  BY DEF SessionsInv, Sessions!TypeOK, Sessions!Exit, Sessions!TryDelete, EndInv, KeptInv, Sessions!Alive, SessionsAssumption
<1>4. OnceInv'
  BY DEF SessionsInv, Sessions!TypeOK, Sessions!Exit, Sessions!TryDelete, EndInv, OnceInv, ReportedOnce, Handles,
    Sessions!Alive, SessionsAssumption
<1> QED
  BY <1>1, <1>2, <1>3, <1>4 DEF SessionsInv

\* A kill leaves the marker; what was left between a report and the deletion counts as doubled.
LEMMA GoneStep ==
    ASSUME SessionsInv, SessionsAssumption, NEW p \in Processes, Sessions!Gone(p)
    PROVE  SessionsInv'
<1>1. Sessions!TypeOK'
  BY DEF SessionsInv, Sessions!TypeOK, Sessions!Gone, SessionsAssumption, Sessions!Phases
<1>2. EndInv'
  BY DEF SessionsInv, Sessions!TypeOK, Sessions!Gone, EndInv, Sessions!Alive, SessionsAssumption
<1>3. KeptInv'
  BY DEF SessionsInv, Sessions!TypeOK, Sessions!Gone, EndInv, KeptInv, Sessions!Alive, SessionsAssumption
<1>4. OnceInv'
  BY DEF SessionsInv, Sessions!TypeOK, Sessions!Gone, EndInv, OnceInv, ReportedOnce, Handles,
    Sessions!Alive, SessionsAssumption
<1> QED
  BY <1>1, <1>2, <1>3, <1>4 DEF SessionsInv


\* In every behaviour the reports agree with how each process ended.
LEMMA SessionsAlways ==
    ASSUME SessionsAssumption
    PROVE  Spec => [](part = "sessions" => SessionsInv)
<1>1. Init => (part = "sessions" => SessionsInv)
  <2> SUFFICES ASSUME Sessions!Init PROVE SessionsInv
    BY DEF Init
  <2>1. Sessions!TypeOK
    BY DEF Sessions!Init, Sessions!TypeOK, Sessions!Phases, SessionsAssumption
  <2> QED
    BY <2>1 DEF Sessions!Init, SessionsInv, EndInv, KeptInv, OnceInv, ReportedOnce, Handles
<1>2. (part = "sessions" => SessionsInv) /\ [Next]_partVars => (part = "sessions" => SessionsInv)'
  <2> SUFFICES ASSUME part = "sessions" => SessionsInv, [Next]_partVars, part' = "sessions"
               PROVE  SessionsInv'
    OBVIOUS
  <2>1. CASE partVars' = partVars
    <3>1. part' = part /\ sessionVars' = sessionVars
      BY <2>1 DEF partVars
    <3> QED
      BY <3>1 DEF sessionVars, SessionsInv, EndInv, KeptInv, OnceInv, ReportedOnce, Handles,
        Sessions!TypeOK
  <2>2. CASE Next
    <3>1. part = "sessions" /\ Sessions!Next
      BY <2>2 DEF Next, OthersStay
    <3>2. SessionsInv
      BY <3>1
    <3>3. PICK p \in Processes :
             \/ Sessions!Start(p) \/ Sessions!Reports(p)
             \/ Sessions!Tick(p) \/ Sessions!MoveMarker(p)
             \/ Sessions!Unhandled(p) \/ Sessions!StoreCrash(p) \/ Sessions!CrashUnmarked(p)
             \/ Sessions!CleanStop(p) \/ Sessions!Exit(p) \/ Sessions!Gone(p)
      BY <3>1 DEF Sessions!Next
    <3>4. CASE Sessions!Reports(p)
      BY <3>2, <3>4, NextFileStep, LastFileStep, ReadMarkerStep, UnreadableStep, StoreReportStep,
        DeleteMarkerStep, MarkStep DEF Sessions!Reports
    <3> QED
      BY <3>2, <3>3, <3>4, StartStep, TickStep, MoveMarkerStep, UnhandledStep, StoreCrashStep,
        CrashUnmarkedStep, CleanStopStep, ExitStep, GoneStep
  <2> QED
    BY <2>1, <2>2
<1> QED
  BY <1>1, <1>2, PTL DEF Spec

\* CrashReporter.cs:130 and :7: unless a deletion of its marker fails, two starts read it, a start or
\* a crash is cut between report and deletion, or the timer moves it back, a process that ends well
\* is not reported and any other end is reported at most once; and the marker of a killed process
\* stays until it is reported or given up for an error.  However many processes start, die and
\* write their markers at once, and however many I/O errors there are.
THEOREM EndsReportedOnce ==
    ASSUME SessionsAssumption
    PROVE  Spec => []EachEndReportedOnce
<1>1. (part = "sessions" => SessionsInv) => EachEndReportedOnce
  BY DEF EachEndReportedOnce, SessionsInv, OnceInv, ReportedOnce, KeptInv, Sessions!EachEndReportedOnce,
    Sessions!AbruptEndIsKept
<1> QED
  BY <1>1, SessionsAlways, PTL

-----------------------------------------------------------------------------
(* Rum: how often a sequence has an element of a set.                       *)

\* The places of a sequence that hold an element of V, and their number.
PlacesOf(s, V) == {i \in DOMAIN s : s[i] \in V}
Times(s, V) == Cardinality(PlacesOf(s, V))
Once(b) == IF b THEN 1 ELSE 0

\* A sequence has finitely many places.
LEMMA TimesType ==
    ASSUME NEW S, NEW s \in Seq(S), NEW V
    PROVE  IsFiniteSet(PlacesOf(s, V)) /\ Times(s, V) \in Nat
<1>1. DOMAIN s = 1 .. Len(s) /\ Len(s) \in Nat
  OBVIOUS
<1>2. IsFiniteSet(1 .. Len(s))
  BY <1>1, FS_Interval
<1>3. PlacesOf(s, V) \subseteq 1 .. Len(s)
  BY <1>1 DEF PlacesOf
<1>4. IsFiniteSet(PlacesOf(s, V))
  BY <1>2, <1>3, FS_Subset
<1> QED
  BY <1>4, FS_CardinalityType DEF Times

\* One more element.
LEMMA TimesAppend ==
    ASSUME NEW S, NEW s \in Seq(S), NEW x \in S, NEW V
    PROVE  Times(Append(s, x), V) = Times(s, V) + Once(x \in V)
<1>1. PICK n \in Nat : n = Len(s)
  OBVIOUS
<1>2. Append(s, x) \in Seq(S) /\ DOMAIN s = 1 .. n /\ DOMAIN Append(s, x) = 1 .. n + 1
      /\ Append(s, x)[n + 1] = x /\ \A i \in 1 .. n : Append(s, x)[i] = s[i]
  BY <1>1
<1>3. IsFiniteSet(PlacesOf(s, V)) /\ Times(s, V) \in Nat
  BY TimesType
<1>4. CASE x \in V
  <2>1. PlacesOf(Append(s, x), V) = PlacesOf(s, V) \cup {n + 1}
    BY <1>2, <1>4 DEF PlacesOf
  <2>2. n + 1 \notin PlacesOf(s, V)
    BY <1>2 DEF PlacesOf
  <2>3. Cardinality(PlacesOf(s, V) \cup {n + 1}) = Cardinality(PlacesOf(s, V)) + 1
    BY <1>3, <2>2, FS_AddElement
  <2> QED
    BY <2>1, <2>3, <1>4 DEF Times, Once
<1>5. CASE x \notin V
  <2>1. PlacesOf(Append(s, x), V) = PlacesOf(s, V)
    BY <1>2, <1>5 DEF PlacesOf
  <2> QED
    BY <2>1, <1>3, <1>5 DEF Times, Once
<1> QED
  BY <1>4, <1>5

\* One less, at the end.
LEMMA TimesFront ==
    ASSUME NEW S, NEW s \in Seq(S), s # <<>>, NEW V
    PROVE  /\ Rum!Front(s) \in Seq(S) /\ Rum!Last(s) \in S
           /\ Times(s, V) = Times(Rum!Front(s), V) + Once(Rum!Last(s) \in V)
<1>1. PICK n \in Nat : n = Len(s) /\ n > 0
  OBVIOUS
<1>2. Rum!Front(s) = SubSeq(s, 1, n - 1) /\ Rum!Last(s) = s[n]
  BY <1>1 DEF Rum!Front, Rum!Last
<1>3. PICK f : f = SubSeq(s, 1, n - 1)
  OBVIOUS
<1>4. f \in Seq(S) /\ Len(f) = n - 1 /\ \A i \in 1 .. n - 1 : f[i] = s[i]
  BY <1>1, <1>3
<1>5. PICK x \in S : x = s[n]
  BY <1>1
<1>6. s = Append(f, x)
  <2>1. Append(f, x) \in Seq(S) /\ Len(Append(f, x)) = n /\ \A i \in 1 .. n : Append(f, x)[i] = s[i]
    BY <1>1, <1>4, <1>5
  <2> QED
    BY <1>1, <2>1
<1>7. Times(Append(f, x), V) = Times(f, V) + Once(x \in V)
  BY <1>4, <1>5, TimesAppend
<1> QED
  BY <1>2, <1>3, <1>4, <1>5, <1>6, <1>7

\* One less, at the beginning.
LEMMA TimesTail ==
    ASSUME NEW S, NEW s \in Seq(S), s # <<>>, NEW V
    PROVE  /\ Tail(s) \in Seq(S) /\ Head(s) \in S
           /\ Times(s, V) = Times(Tail(s), V) + Once(Head(s) \in V)
<1>1. PICK n \in Nat : n = Len(s) /\ n > 0
  OBVIOUS
<1>2. PICK t : t = Tail(s)
  OBVIOUS
<1>3. t \in Seq(S) /\ Len(t) = n - 1 /\ (\A i \in 1 .. n - 1 : t[i] = s[i + 1]) /\ Head(s) = s[1] /\ s[1] \in S
  BY <1>1, <1>2
<1> DEFINE A == PlacesOf(t, V)
           B == PlacesOf(s, V) \ {1}
           shift == [i \in A |-> i + 1]
<1>4. IsFiniteSet(A) /\ Cardinality(A) \in Nat /\ IsFiniteSet(PlacesOf(s, V))
  BY <1>3, TimesType DEF Times
<1>5. /\ \A i : i \in A <=> (i \in 1 .. n - 1 /\ t[i] \in V)
      /\ \A i : i \in B <=> (i \in 2 .. n /\ s[i] \in V)
  BY <1>1, <1>3 DEF PlacesOf
<1>6. ASSUME NEW i \in A PROVE i \in Nat /\ i + 1 \in B
  <2>1. i \in 1 .. n - 1 /\ t[i] \in V
    BY <1>5
  <2>2. i \in Nat /\ i + 1 \in 2 .. n /\ s[i + 1] \in V
    BY <1>1, <1>3, <2>1
  <2> QED
    BY <1>5, <2>2
<1>7. ASSUME NEW j \in B PROVE \E i \in A : j = i + 1
  <2>1. j \in 2 .. n /\ s[j] \in V
    BY <1>5
  <2>2. PICK i \in 1 .. n - 1 : j = i + 1
    BY <1>1, <2>1
  <2>3. t[i] \in V
    BY <1>3, <2>1, <2>2
  <2> QED
    BY <1>5, <2>2, <2>3
<1> HIDE DEF A, B
<1>8. shift \in Bijection(A, B)
  <2>1. shift \in [A -> B]
    BY <1>6
  <2>2. \A i, j \in A : shift[i] = shift[j] => i = j
    BY <1>6
  <2>3. \A j \in B : \E i \in A : shift[i] = j
    BY <1>7 
  <2> QED
    BY <2>1, <2>2, <2>3 DEF Bijection, Injection, Surjection, IsInjective
<1>9. IsFiniteSet(B) /\ Cardinality(B) = Cardinality(A)
  BY <1>4, <1>8, FS_Bijection DEF ExistsBijection
<1>10. CASE Head(s) \in V
  <2>1. PlacesOf(s, V) = B \cup {1} /\ 1 \notin B
    BY <1>1, <1>3, <1>10 DEF PlacesOf, B
  <2>2. Cardinality(B \cup {1}) = Cardinality(B) + 1
    BY <1>9, <2>1, FS_AddElement
  <2> QED
    BY <1>2, <1>3, <1>9, <1>10, <2>1, <2>2 DEF Times, Once, A
<1>11. CASE Head(s) \notin V
  <2>1. PlacesOf(s, V) = B
    BY <1>1, <1>3, <1>11 DEF PlacesOf, B
  <2> QED
    BY <1>2, <1>3, <1>4, <1>9, <1>11, <2>1 DEF Times, Once, A
<1> QED
  BY <1>2, <1>3, <1>10, <1>11

\* No element at all.
LEMMA TimesNone ==
    ASSUME NEW V
    PROVE  Times(<<>>, V) = 0
<1>1. PlacesOf(<<>>, V) = {}
  BY DEF PlacesOf
<1> QED
  BY <1>1, FS_EmptySet DEF Times

-----------------------------------------------------------------------------
(* Rum: the inductive invariant.                                           *)

\* What the constants are.
RumAssumption == Entry \in Paths /\ MaxMoves \in Nat /\ MaxWaiting \in Nat

Pushed == sent \o waiting

PageOrView(p) == {e \in Rum!Event : e.type \in {"page", "view"} /\ e.path = p}
ScrollOf(p) == {e \in Rum!Event : e.type \in {"scroll"} /\ e.path = p}

\* The script knows the page where it found the address bar last, and follows its scroll.
LookInv == stays # <<>> /\ Rum!Last(stays) = lastPath /\ scrolled.path = lastPath /\ checks <= moves

\* A page that was seen was counted, or waits to be, except the first until the document is counted.
ViewInv ==
    \A p \in Paths :
        LET counted == Times(Pushed, PageOrView(p)) + Times(views, {p})
        IN  /\ load # "counted" => counted + Once(p = Entry) = Times(stays, {p})
            /\ load = "counted" /\ ~early => counted = Times(stays, {p})

\* A page that was seen gave its scroll, except the current one until it is hidden.
ScrollInv ==
    \A p \in Paths : Times(Pushed, ScrollOf(p)) + Once(~scrolled.sent /\ p = lastPath) = Times(stays, {p})

\* A tab that was closed sent all it had.
ClosedInv == tab = "closed" => scrolled.sent /\ waiting = <<>>

RumInv == Rum!TypeOK /\ LookInv /\ ViewInv /\ ScrollInv /\ ClosedInv


\* What the invariant is about counts what the property counts.
LEMMA SameCounts ==
    ASSUME NEW p \in Paths, NEW events \in Seq(Rum!Event), NEW paths \in Seq(Paths)
    PROVE  /\ Rum!Count({"page", "view"}, p, events) = Times(events, PageOrView(p))
           /\ Rum!Count({"scroll"}, p, events) = Times(events, ScrollOf(p))
           /\ Rum!Occurrences(p, paths) = Times(paths, {p})
<1>1. \A i \in DOMAIN events : events[i] \in Rum!Event
  OBVIOUS
<1>2. {i \in DOMAIN events : events[i].type \in {"page", "view"} /\ events[i].path = p}
        = PlacesOf(events, PageOrView(p))
  BY <1>1 DEF PlacesOf, PageOrView
<1>3. {i \in DOMAIN events : events[i].type \in {"scroll"} /\ events[i].path = p}
        = PlacesOf(events, ScrollOf(p))
  BY <1>1 DEF PlacesOf, ScrollOf
<1>4. {i \in DOMAIN paths : paths[i] = p} = PlacesOf(paths, {p})
  BY DEF PlacesOf
<1>5. \A S : Rum!Cardinality(S) = Cardinality(S)
  BY DEF Rum!Cardinality, Cardinality
<1> QED
  BY <1>2, <1>3, <1>4, <1>5 DEF Rum!Count, Rum!Occurrences, Times

\* Events and what they count for.
LEMMA EventFacts ==
    ASSUME NEW p \in Paths, NEW q \in Paths
    PROVE  /\ Rum!E("page", q) \in Rum!Event /\ Rum!E("view", q) \in Rum!Event /\ Rum!E("scroll", q) \in Rum!Event /\ Rum!E("vital", q) \in Rum!Event
           /\ Rum!E("page", q) \in PageOrView(p) <=> q = p
           /\ Rum!E("view", q) \in PageOrView(p) <=> q = p
           /\ Rum!E("scroll", q) \notin PageOrView(p) /\ Rum!E("vital", q) \notin PageOrView(p)
           /\ Rum!E("scroll", q) \in ScrollOf(p) <=> q = p
           /\ Rum!E("page", q) \notin ScrollOf(p) /\ Rum!E("view", q) \notin ScrollOf(p) /\ Rum!E("vital", q) \notin ScrollOf(p)
  BY DEF Rum!E, Rum!Event, PageOrView, ScrollOf

\* The queue of events with more events, sent or not.
LEMMA Joined ==
    ASSUME NEW S, NEW a \in Seq(S), NEW b \in Seq(S), NEW c \in Seq(S)
    PROVE  /\ a \o b \in Seq(S) /\ (a \o b) \o c \in Seq(S) /\ a \o (b \o c) = (a \o b) \o c
           /\ a \o <<>> = a
           /\ \A x \in S : a \o <<x>> = Append(a, x)
<1>1. a \o b \in Seq(S) /\ (a \o b) \o c \in Seq(S) /\ a \o (b \o c) \in Seq(S)
  OBVIOUS
<1>2. a \o <<>> = a
  OBVIOUS
<1>3. \A x \in S : a \o <<x>> = Append(a, x)
  OBVIOUS
<1>4. a \o (b \o c) = (a \o b) \o c
  <2>1. PICK l \in Nat, m \in Nat, n \in Nat : l = Len(a) /\ m = Len(b) /\ n = Len(c)
    OBVIOUS
  <2>2. Len(a \o (b \o c)) = l + m + n /\ Len((a \o b) \o c) = l + m + n
    BY <1>1, <2>1
  <2>3. ASSUME NEW i \in 1 .. l + m + n
        PROVE  (a \o (b \o c))[i] = ((a \o b) \o c)[i]
    <3>1. CASE i <= l
      BY <2>1, <3>1
    <3>2. CASE i > l /\ i <= l + m
      BY <2>1, <3>2
    <3>3. CASE i > l + m
      BY <2>1, <3>3
    <3> QED
      BY <2>1, <3>1, <3>2, <3>3
  <2>4. PICK x \in Seq(S), y \in Seq(S) : x = a \o (b \o c) /\ y = (a \o b) \o c
    BY <1>1
  <2>5. Len(x) = Len(y) /\ \A i \in 1 .. Len(x) : x[i] = y[i]
    BY <2>2, <2>3, <2>4
  <2>6. PICK k \in Nat : k = Len(x) /\ k = Len(y) /\ DOMAIN x = 1 .. k /\ DOMAIN y = 1 .. k
    BY <2>5
  <2>7. x = [i \in 1 .. k |-> x[i]] /\ y = [i \in 1 .. k |-> y[i]]
    BY <2>6
  <2>8. x = y
    BY <2>5, <2>6, <2>7
  <2> QED
    BY <2>4, <2>8
<1> QED
  BY <1>1, <1>2, <1>3, <1>4

\* Events are pushed: they come after the others, sent or not.
LEMMA PushFacts ==
    ASSUME RumAssumption, Rum!TypeOK, NEW events \in Seq(Rum!Event), Rum!Push(events)
    PROVE  /\ waiting' \in Seq(Rum!Event) /\ sent' \in Seq(Rum!Event)
           /\ Pushed \in Seq(Rum!Event) /\ Pushed' = Pushed \o events
<1>1. waiting \in Seq(Rum!Event) /\ sent \in Seq(Rum!Event)
  BY DEF Rum!TypeOK
<1>2. CASE waiting' = <<>> /\ sent' = sent \o waiting \o events
  <2>1. <<>> \in Seq(Rum!Event) /\ sent \o waiting \in Seq(Rum!Event) /\ (sent \o waiting) \o events \in Seq(Rum!Event)
    BY <1>1
  <2>2. ((sent \o waiting) \o events) \o <<>> = (sent \o waiting) \o events
    BY <2>1, Joined
  <2> QED
    BY <1>2, <2>1, <2>2 DEF Pushed
<1>3. CASE waiting' = waiting \o events /\ sent' = sent
  <2>1. waiting \o events \in Seq(Rum!Event) /\ sent \o waiting \in Seq(Rum!Event)
    BY <1>1
  <2>2. sent \o (waiting \o events) = (sent \o waiting) \o events
    BY <1>1, Joined
  <2> QED
    BY <1>1, <1>3, <2>1, <2>2 DEF Pushed
<1> QED
  BY <1>2, <1>3 DEF Rum!Push

-----------------------------------------------------------------------------
(* Rum: the steps.                                                         *)

\* What is counted stays the same when only the tab, the document or the address bar changes.
LEMMA SameLists ==
    ASSUME Pushed' = Pushed, views' = views, stays' = stays, lastPath' = lastPath, load' = load, early' = early,
           scrolled' = scrolled
    PROVE  (ViewInv => ViewInv') /\ (ScrollInv => ScrollInv')
  BY DEF ViewInv, ScrollInv, Times, PlacesOf, Once, PageOrView, ScrollOf

\* The document is loaded.
LEMMA DocumentStep ==
    ASSUME RumAssumption, RumInv, Rum!Load
    PROVE  RumInv'
<1>1. /\ load = "loading" /\ load' = "deferred" /\ Rum!Runs
      /\ UNCHANGED <<location, lastPath, checks, views, scrolled, reported, tab, waiting, sent, moves, stays, early>>
  BY DEF Rum!Load
<1>2. Rum!TypeOK' /\ LookInv' /\ ClosedInv'
  BY <1>1 DEF RumInv, Rum!TypeOK, LookInv, ClosedInv
<1>3. Pushed' = Pushed
  BY <1>1 DEF Pushed
<1>4. ViewInv' /\ ScrollInv'
  BY <1>1, <1>3 DEF RumInv, ViewInv, ScrollInv
<1> QED
  BY <1>2, <1>4 DEF RumInv

\* Numbers that the counts are.
LEMMA CountTypes ==
    ASSUME Rum!TypeOK
    PROVE  /\ Pushed \in Seq(Rum!Event) /\ views \in Seq(Paths) /\ stays \in Seq(Paths)
           /\ \A V : Times(Pushed, V) \in Nat /\ Times(views, V) \in Nat /\ Times(stays, V) \in Nat
           /\ \A b : Once(b) \in Nat
<1>1. Pushed \in Seq(Rum!Event) /\ views \in Seq(Paths) /\ stays \in Seq(Paths)
  BY DEF Rum!TypeOK, Pushed
<1>2. \A V : Times(Pushed, V) \in Nat /\ Times(views, V) \in Nat /\ Times(stays, V) \in Nat
  BY <1>1, TimesType
<1>3. \A b : Once(b) \in Nat
  BY DEF Once
<1> QED
  BY <1>1, <1>2, <1>3

\* The document is counted under the path where it is.
LEMMA PageLoadStep ==
    ASSUME RumAssumption, RumInv, Rum!PageLoad
    PROVE  RumInv'
<1>1. /\ load = "deferred" /\ load' = "counted" /\ Rum!Runs /\ Rum!Push(<<Rum!E("page", location)>>)
      /\ early' = (early \/ location # Entry \/ Len(stays) > 1)
      /\ UNCHANGED <<location, lastPath, checks, views, scrolled, reported, tab, moves, stays>>
  BY DEF Rum!PageLoad
<1>2. Rum!TypeOK /\ LookInv /\ ViewInv /\ ScrollInv /\ ClosedInv /\ location \in Paths
  BY DEF RumInv, Rum!TypeOK
<1>3. PICK e \in Rum!Event : e = Rum!E("page", location)
  BY <1>2, EventFacts
<1>4. <<e>> \in Seq(Rum!Event) /\ Rum!Push(<<e>>)
  BY <1>1, <1>3
<1>5. waiting' \in Seq(Rum!Event) /\ sent' \in Seq(Rum!Event) /\ Pushed \in Seq(Rum!Event) /\ Pushed' = Append(Pushed, e)
  <2>1. waiting' \in Seq(Rum!Event) /\ sent' \in Seq(Rum!Event) /\ Pushed \in Seq(Rum!Event) /\ Pushed' = Pushed \o <<e>>
    BY <1>2, <1>4, PushFacts
  <2>2. Pushed \o <<e>> = Append(Pushed, e)
    BY <2>1, Joined
  <2> QED
    BY <2>1, <2>2
<1>6. \A V : Times(Pushed', V) = Times(Pushed, V) + Once(e \in V)
  BY <1>5, TimesAppend
<1>7. (early \/ location # Entry \/ Len(stays) > 1) \in BOOLEAN
  OBVIOUS
<1>8. Rum!TypeOK' /\ LookInv'
  BY <1>1, <1>2, <1>5, <1>7 DEF Rum!TypeOK, LookInv
<1>9. ClosedInv'
  BY <1>1 DEF ClosedInv, Rum!Runs
<1>10. ViewInv'
  <2> SUFFICES ASSUME NEW p \in Paths, ~early'
               PROVE  Times(Pushed', PageOrView(p)) + Times(views', {p}) = Times(stays', {p})
    BY <1>1 DEF ViewInv
  <2>1. location = Entry
    BY <1>1
  <2>2. Once(e \in PageOrView(p)) = Once(p = Entry)
    BY <1>2, <1>3, <2>1, EventFacts DEF Once
  <2>3. Times(Pushed, PageOrView(p)) + Times(views, {p}) + Once(p = Entry) = Times(stays, {p})
    BY <1>1, <1>2 DEF ViewInv
  <2> QED
    BY <1>1, <1>2, <1>6, <2>2, <2>3, CountTypes
<1>11. ScrollInv'
  <2> SUFFICES ASSUME NEW p \in Paths
               PROVE  Times(Pushed', ScrollOf(p)) + Once(~scrolled'.sent /\ p = lastPath') = Times(stays', {p})
    BY DEF ScrollInv
  <2>1. Once(e \in ScrollOf(p)) = 0
    BY <1>2, <1>3, EventFacts DEF Once
  <2>2. Times(Pushed, ScrollOf(p)) + Once(~scrolled.sent /\ p = lastPath) = Times(stays, {p})
    BY <1>2 DEF ScrollInv
  <2> QED
    BY <1>1, <1>2, <1>6, <2>1, <2>2, CountTypes
<1> QED
  BY <1>8, <1>9, <1>10, <1>11 DEF RumInv


\* The scroll of the page that ends is pushed once.
LEMMA EndPageFacts ==
    ASSUME RumAssumption, Rum!TypeOK, LookInv
    PROVE  /\ Rum!EndPage \in Seq(Rum!Event)
           /\ \A p \in Paths, s \in Seq(Rum!Event) :
                 /\ s \o Rum!EndPage \in Seq(Rum!Event)
                 /\ Times(s \o Rum!EndPage, PageOrView(p)) = Times(s, PageOrView(p))
                 /\ Times(s \o Rum!EndPage, ScrollOf(p)) = Times(s, ScrollOf(p)) + Once(~scrolled.sent /\ p = lastPath)
<1>1. lastPath \in Paths /\ scrolled.path = lastPath /\ scrolled.sent \in BOOLEAN
  BY DEF Rum!TypeOK, LookInv
<1>2. PICK e \in Rum!Event : e = Rum!E("scroll", scrolled.path)
  BY <1>1, EventFacts
<1>3. CASE scrolled.sent
  <2>1. Rum!EndPage = <<>>
    BY <1>3 DEF Rum!EndPage
  <2>2. \A p \in Paths, s \in Seq(Rum!Event) : Once(~scrolled.sent /\ p = lastPath) = 0 /\ Times(s, ScrollOf(p)) \in Nat
    BY <1>3, TimesType DEF Once
  <2> QED
    BY <2>1, <2>2, Joined
<1>4. CASE ~scrolled.sent
  <2>1. Rum!EndPage = <<e>> /\ Rum!EndPage \in Seq(Rum!Event)
    BY <1>2, <1>4 DEF Rum!EndPage
  <2>2. ASSUME NEW p \in Paths, NEW s \in Seq(Rum!Event)
        PROVE  /\ s \o Rum!EndPage \in Seq(Rum!Event)
               /\ Times(s \o Rum!EndPage, PageOrView(p)) = Times(s, PageOrView(p))
               /\ Times(s \o Rum!EndPage, ScrollOf(p)) = Times(s, ScrollOf(p)) + Once(~scrolled.sent /\ p = lastPath)
    <3>1. s \o Rum!EndPage = Append(s, e)
      BY <2>1, Joined
    <3>2. \A V : Times(s \o Rum!EndPage, V) = Times(s, V) + Once(e \in V) /\ Times(s, V) \in Nat
      BY <3>1, TimesAppend, TimesType
    <3>3. Once(e \in PageOrView(p)) = 0 /\ Once(e \in ScrollOf(p)) = Once(~scrolled.sent /\ p = lastPath)
      BY <1>1, <1>2, <1>4, EventFacts DEF Once
    <3>4. s \o Rum!EndPage \in Seq(Rum!Event)
      BY <2>1
    <3> QED
      BY <3>2, <3>3, <3>4
  <2> QED
    BY <2>1, <2>2
<1> QED
  BY <1>1, <1>3, <1>4

\* The script looks at the address bar: a new page begins if it is not the one it knows.
LEMMA RouteFacts ==
    ASSUME RumAssumption, RumInv, NEW path \in Paths, Rum!RouteChanged(path), location' = path, Rum!Looks,
           load' = load, early' = early
    PROVE  /\ lastPath' \in Paths /\ scrolled' \in [path : Paths, sent : BOOLEAN] /\ views' \in Seq(Paths)
           /\ waiting' \in Seq(Rum!Event) /\ sent' \in Seq(Rum!Event) /\ stays' \in Seq(Paths)
           /\ stays' # <<>> /\ Rum!Last(stays)' = lastPath' /\ scrolled'.path = lastPath'
           /\ ViewInv' /\ ScrollInv'
<1>1. Rum!TypeOK /\ LookInv /\ ViewInv /\ ScrollInv
  BY DEF RumInv
<1>2. stays' = IF path # lastPath THEN Append(stays, path) ELSE stays
  BY <1>1 DEF Rum!Looks, LookInv
<1>3. CASE path = lastPath
  <2>1. UNCHANGED <<lastPath, scrolled, views, waiting, sent>> /\ stays' = stays
    BY <1>2, <1>3 DEF Rum!RouteChanged
  <2>2. ViewInv' /\ ScrollInv'
    BY <1>1, <2>1, SameLists DEF Pushed
  <2> QED
    BY <1>1, <2>1, <2>2 DEF Rum!TypeOK, LookInv
<1>4. CASE path # lastPath
  <2>1. /\ Rum!Push(Rum!EndPage) /\ lastPath' = path /\ scrolled' = Rum!StartPage(path) /\ views' = Append(views, path)
        /\ stays' = Append(stays, path)
    BY <1>2, <1>4 DEF Rum!RouteChanged
  <2>2. waiting' \in Seq(Rum!Event) /\ sent' \in Seq(Rum!Event) /\ Pushed \in Seq(Rum!Event) /\ Pushed' = Pushed \o Rum!EndPage
    BY <1>1, <2>1, EndPageFacts, PushFacts
  <2>3. views \in Seq(Paths) /\ stays \in Seq(Paths)
    BY <1>1 DEF Rum!TypeOK
  <2>4. \A p \in Paths : /\ Times(views', {p}) = Times(views, {p}) + Once(p = path)
                         /\ Times(stays', {p}) = Times(stays, {p}) + Once(p = path)
    <3>1. \A p \in Paths : /\ Times(views', {p}) = Times(views, {p}) + Once(path \in {p})
                           /\ Times(stays', {p}) = Times(stays, {p}) + Once(path \in {p})
      BY <2>1, <2>3, TimesAppend
    <3>2. \A p \in Paths : Once(path \in {p}) = Once(p = path)
      BY DEF Once
    <3> QED
      BY <3>1, <3>2
  <2>5. \A p \in Paths :
          /\ Times(Pushed', PageOrView(p)) = Times(Pushed, PageOrView(p))
          /\ Times(Pushed', ScrollOf(p)) = Times(Pushed, ScrollOf(p)) + Once(~scrolled.sent /\ p = lastPath)
    BY <1>1, <2>2, EndPageFacts
  <2>6. scrolled'.sent = FALSE /\ scrolled'.path = path /\ scrolled' \in [path : Paths, sent : BOOLEAN]
    BY <2>1 DEF Rum!StartPage
  <2>7. ViewInv'
    <3> SUFFICES ASSUME NEW p \in Paths
                 PROVE  LET counted == Times(Pushed', PageOrView(p)) + Times(views', {p})
                        IN  /\ load # "counted" => counted + Once(p = Entry) = Times(stays', {p})
                            /\ load = "counted" /\ ~early => counted = Times(stays', {p})
      BY DEF ViewInv
    <3>1. LET counted == Times(Pushed, PageOrView(p)) + Times(views, {p})
          IN  /\ load # "counted" => counted + Once(p = Entry) = Times(stays, {p})
              /\ load = "counted" /\ ~early => counted = Times(stays, {p})
      BY <1>1 DEF ViewInv
    <3>2. /\ Times(Pushed, PageOrView(p)) \in Nat /\ Times(views, {p}) \in Nat /\ Times(stays, {p}) \in Nat
          /\ Once(p = path) \in Nat /\ Once(p = Entry) \in Nat
      BY <1>1, CountTypes
    <3> QED
      BY <2>4, <2>5, <3>1, <3>2
  <2>8. ScrollInv'
    <3> SUFFICES ASSUME NEW p \in Paths
                 PROVE  Times(Pushed', ScrollOf(p)) + Once(~scrolled'.sent /\ p = lastPath') = Times(stays', {p})
      BY DEF ScrollInv
    <3>1. Times(Pushed, ScrollOf(p)) + Once(~scrolled.sent /\ p = lastPath) = Times(stays, {p})
      BY <1>1 DEF ScrollInv
    <3>2. Once(~scrolled'.sent /\ p = lastPath') = Once(p = path)
      BY <2>1, <2>6 DEF Once
    <3>3. /\ Times(Pushed, ScrollOf(p)) \in Nat /\ Times(stays, {p}) \in Nat
          /\ Once(p = path) \in Nat /\ Once(~scrolled.sent /\ p = lastPath) \in Nat
      BY <1>1, CountTypes
    <3> QED
      BY <2>4, <2>5, <3>1, <3>2, <3>3
  <2>9. stays' \in Seq(Paths) /\ stays' # <<>> /\ Rum!Last(stays)' = path /\ views' \in Seq(Paths)
    BY <2>1, <2>3 DEF Rum!Last
  <2> QED
    BY <2>1, <2>2, <2>6, <2>7, <2>8, <2>9
<1> QED
  BY <1>3, <1>4

\* The application goes to another path; the script will look.
LEMMA PushStateStep ==
    ASSUME RumAssumption, RumInv, NEW path \in Paths, Rum!PushState(path)
    PROVE  RumInv'
<1>1. /\ tab = "visible" /\ moves < MaxMoves
      /\ location' = path /\ checks' = checks + 1 /\ moves' = moves + 1
      /\ UNCHANGED <<lastPath, views, load, scrolled, reported, tab, waiting, sent, stays, early>>
  BY DEF Rum!PushState
<1>2. Rum!TypeOK /\ LookInv /\ ViewInv /\ ScrollInv
  BY DEF RumInv
<1>3. Rum!TypeOK' /\ LookInv' /\ ClosedInv'
  BY <1>1, <1>2 DEF Rum!TypeOK, LookInv, ClosedInv, RumAssumption
<1>4. ViewInv' /\ ScrollInv'
  BY <1>1, <1>2, SameLists DEF Pushed
<1> QED
  BY <1>3, <1>4 DEF RumInv

\* The script looks.
LEMMA CheckRouteStep ==
    ASSUME RumAssumption, RumInv, Rum!CheckRoute
    PROVE  RumInv'
<1>1. /\ Rum!Runs /\ checks > 0 /\ checks' = checks - 1 /\ Rum!RouteChanged(location) /\ location' = location /\ Rum!Looks
      /\ UNCHANGED <<load, reported, tab, moves, early>>
  BY DEF Rum!CheckRoute
<1>2. Rum!TypeOK /\ LookInv /\ location \in Paths
  BY DEF RumInv, Rum!TypeOK
<1>3. /\ lastPath' \in Paths /\ scrolled' \in [path : Paths, sent : BOOLEAN] /\ views' \in Seq(Paths)
      /\ waiting' \in Seq(Rum!Event) /\ sent' \in Seq(Rum!Event) /\ stays' \in Seq(Paths)
      /\ stays' # <<>> /\ Rum!Last(stays)' = lastPath' /\ scrolled'.path = lastPath'
      /\ ViewInv' /\ ScrollInv'
  BY <1>1, <1>2, RouteFacts
<1>4. Rum!TypeOK' /\ LookInv'
  BY <1>1, <1>2, <1>3 DEF Rum!TypeOK, LookInv, RumAssumption
<1>5. ClosedInv'
  BY <1>1 DEF ClosedInv, Rum!Runs
<1> QED
  BY <1>3, <1>4, <1>5 DEF RumInv

\* The visitor goes back, or forward.
LEMMA PopStateStep ==
    ASSUME RumAssumption, RumInv, NEW path \in Paths, Rum!PopState(path)
    PROVE  RumInv'
<1>1. /\ tab = "visible" /\ moves < MaxMoves
      /\ location' = path /\ checks' = checks /\ moves' = moves + 1 /\ Rum!RouteChanged(path) /\ Rum!Looks
      /\ UNCHANGED <<load, reported, tab, early>>
  BY DEF Rum!PopState
<1>2. Rum!TypeOK /\ LookInv
  BY DEF RumInv
<1>3. /\ lastPath' \in Paths /\ scrolled' \in [path : Paths, sent : BOOLEAN] /\ views' \in Seq(Paths)
      /\ waiting' \in Seq(Rum!Event) /\ sent' \in Seq(Rum!Event) /\ stays' \in Seq(Paths)
      /\ stays' # <<>> /\ Rum!Last(stays)' = lastPath' /\ scrolled'.path = lastPath'
      /\ ViewInv' /\ ScrollInv'
  BY <1>1, RouteFacts
<1>4. Rum!TypeOK' /\ LookInv'
  BY <1>1, <1>2, <1>3 DEF Rum!TypeOK, LookInv, RumAssumption
<1>5. ClosedInv'
  BY <1>1 DEF ClosedInv
<1> QED
  BY <1>3, <1>4, <1>5 DEF RumInv

\* A view that was deferred is counted.
LEMMA CountViewStep ==
    ASSUME RumAssumption, RumInv, Rum!CountView
    PROVE  RumInv'
<1>1. /\ Rum!Runs /\ views # <<>> /\ Rum!Push(<<Rum!E("view", Head(views))>>) /\ views' = Tail(views)
      /\ UNCHANGED <<location, lastPath, checks, load, scrolled, reported, tab, moves, stays, early>>
  BY DEF Rum!CountView
<1>2. Rum!TypeOK /\ LookInv /\ ViewInv /\ ScrollInv /\ views \in Seq(Paths)
  BY DEF RumInv, Rum!TypeOK
<1>3. PICK v \in Paths : v = Head(views)
  BY <1>1, <1>2
<1>4. PICK e \in Rum!Event : e = Rum!E("view", v)
  BY EventFacts
<1>5. <<e>> \in Seq(Rum!Event) /\ Rum!Push(<<e>>)
  BY <1>1, <1>3, <1>4
<1>6. waiting' \in Seq(Rum!Event) /\ sent' \in Seq(Rum!Event) /\ Pushed \in Seq(Rum!Event) /\ Pushed' = Append(Pushed, e)
  <2>1. waiting' \in Seq(Rum!Event) /\ sent' \in Seq(Rum!Event) /\ Pushed \in Seq(Rum!Event) /\ Pushed' = Pushed \o <<e>>
    BY <1>2, <1>5, PushFacts
  <2>2. Pushed \o <<e>> = Append(Pushed, e)
    BY <2>1, Joined
  <2> QED
    BY <2>1, <2>2
<1>7. \A V : Times(Pushed', V) = Times(Pushed, V) + Once(e \in V)
  BY <1>6, TimesAppend
<1>8. views' \in Seq(Paths) /\ \A V : Times(views, V) = Times(views', V) + Once(v \in V) /\ Times(views', V) \in Nat
  BY <1>1, <1>2, <1>3, TimesTail, TimesType
<1>9. Rum!TypeOK' /\ LookInv'
  BY <1>1, <1>2, <1>6, <1>8 DEF Rum!TypeOK, LookInv
<1>10. ClosedInv'
  BY <1>1 DEF ClosedInv, Rum!Runs
<1>11. ViewInv'
  <2>1. ASSUME NEW p \in Paths
        PROVE  /\ Times(Pushed', PageOrView(p)) + Times(views', {p}) = Times(Pushed, PageOrView(p)) + Times(views, {p})
               /\ Times(stays', {p}) = Times(stays, {p})
    <3>1. Once(e \in PageOrView(p)) = Once(v \in {p})
      BY <1>4, EventFacts DEF Once
    <3>2. Times(Pushed, PageOrView(p)) \in Nat /\ Once(v \in {p}) \in Nat
      BY <1>2, CountTypes
    <3> QED
      BY <1>1, <1>7, <1>8, <3>1, <3>2
  <2> QED
    BY <1>1, <1>2, <2>1 DEF ViewInv
<1>12. ScrollInv'
  <2> SUFFICES ASSUME NEW p \in Paths
               PROVE  Times(Pushed', ScrollOf(p)) + Once(~scrolled'.sent /\ p = lastPath') = Times(stays', {p})
    BY DEF ScrollInv
  <2>1. Once(e \in ScrollOf(p)) = 0
    BY <1>4, EventFacts DEF Once
  <2>2. Times(Pushed, ScrollOf(p)) + Once(~scrolled.sent /\ p = lastPath) = Times(stays, {p})
    BY <1>2 DEF ScrollInv
  <2> QED
    BY <1>1, <1>2, <1>7, <2>1, <2>2, CountTypes
<1> QED
  BY <1>9, <1>10, <1>11, <1>12 DEF RumInv

\* What waits is sent.
LEMMA SendStep ==
    ASSUME RumAssumption, RumInv, Rum!Flush
    PROVE  RumInv'
<1>1. /\ Rum!Runs /\ sent' = sent \o waiting /\ waiting' = <<>>
      /\ UNCHANGED <<location, lastPath, checks, views, load, scrolled, reported, tab, moves, stays, early>>
  BY DEF Rum!Flush
<1>2. Rum!TypeOK /\ LookInv /\ ViewInv /\ ScrollInv /\ waiting \in Seq(Rum!Event) /\ sent \in Seq(Rum!Event)
  BY DEF RumInv, Rum!TypeOK
<1>3. sent \o waiting \in Seq(Rum!Event) /\ (sent \o waiting) \o <<>> = sent \o waiting
  BY <1>2, Joined
<1>4. Pushed' = Pushed
  BY <1>1, <1>3 DEF Pushed
<1>5. Rum!TypeOK' /\ LookInv' /\ ClosedInv'
  BY <1>1, <1>2, <1>3 DEF Rum!TypeOK, LookInv, ClosedInv, Rum!Runs
<1>6. ViewInv' /\ ScrollInv'
  BY <1>1, <1>2, <1>4, SameLists
<1> QED
  BY <1>5, <1>6 DEF RumInv

\* The tab is hidden, or closed: the vitals and the scroll are sent.
LEMMA HideStep ==
    ASSUME RumAssumption, RumInv, Rum!HideOrLeave
    PROVE  RumInv'
<1>1. /\ Rum!Runs /\ tab' \in {"hidden", "closed"} /\ reported' = TRUE /\ scrolled' = [scrolled EXCEPT !.sent = TRUE]
      /\ sent' = sent \o waiting \o Rum!Vitals \o Rum!EndPage /\ waiting' = <<>>
      /\ UNCHANGED <<location, lastPath, checks, views, load, moves, stays, early>>
  BY DEF Rum!HideOrLeave
<1>2. Rum!TypeOK /\ LookInv /\ ViewInv /\ ScrollInv /\ waiting \in Seq(Rum!Event) /\ sent \in Seq(Rum!Event) /\ location \in Paths
  BY DEF RumInv, Rum!TypeOK
<1>3. /\ scrolled' \in [path : Paths, sent : BOOLEAN] /\ scrolled'.sent = TRUE /\ scrolled'.path = scrolled.path
  BY <1>1, <1>2 DEF Rum!TypeOK
<1>4. PICK s \in Seq(Rum!Event) : s = Pushed \o Rum!Vitals
  <2>1. Rum!Vitals \in Seq(Rum!Event)
    BY <1>2, EventFacts DEF Rum!Vitals
  <2>2. Pushed \in Seq(Rum!Event)
    BY <1>2, CountTypes
  <2>3. Pushed \o Rum!Vitals \in Seq(Rum!Event)
    BY <2>1, <2>2, Joined
  <2> QED
    BY <2>3
<1>5. \A p \in Paths : /\ Times(s, PageOrView(p)) = Times(Pushed, PageOrView(p))
                       /\ Times(s, ScrollOf(p)) = Times(Pushed, ScrollOf(p))
  <2>1. CASE reported
    BY <1>2, <1>4, <2>1, CountTypes, Joined DEF Rum!Vitals
  <2>2. CASE ~reported
    <3>1. PICK e \in Rum!Event : e = Rum!E("vital", location)
      BY <1>2, EventFacts
    <3>2. s = Append(Pushed, e) /\ Pushed \in Seq(Rum!Event)
      BY <1>2, <1>4, <2>2, <3>1, CountTypes, Joined DEF Rum!Vitals
    <3>3. \A V : Times(s, V) = Times(Pushed, V) + Once(e \in V) /\ Times(Pushed, V) \in Nat
      BY <3>2, TimesAppend, TimesType
    <3>4. \A p \in Paths : Once(e \in PageOrView(p)) = 0 /\ Once(e \in ScrollOf(p)) = 0
      BY <1>2, <3>1, EventFacts DEF Once
    <3> QED
      BY <3>3, <3>4
  <2> QED
    BY <2>1, <2>2
<1>6. sent' = s \o Rum!EndPage /\ s \o Rum!EndPage \in Seq(Rum!Event) /\ (s \o Rum!EndPage) \o <<>> = s \o Rum!EndPage
  BY <1>1, <1>2, <1>4, EndPageFacts, Joined DEF Pushed
<1>7. Pushed' = s \o Rum!EndPage
  BY <1>1, <1>6 DEF Pushed
<1>8. \A p \in Paths :
         /\ Times(Pushed', PageOrView(p)) = Times(Pushed, PageOrView(p))
         /\ Times(Pushed', ScrollOf(p)) = Times(Pushed, ScrollOf(p)) + Once(~scrolled.sent /\ p = lastPath)
  BY <1>2, <1>5, <1>7, EndPageFacts
<1>9. Rum!TypeOK' /\ LookInv' /\ ClosedInv'
  BY <1>1, <1>2, <1>3, <1>6 DEF Rum!TypeOK, LookInv, ClosedInv
<1>10. ViewInv'
  <2>1. \A p \in Paths : /\ Times(Pushed', PageOrView(p)) = Times(Pushed, PageOrView(p))
                         /\ Times(views', {p}) = Times(views, {p}) /\ Times(stays', {p}) = Times(stays, {p})
    BY <1>1, <1>8
  <2> QED
    BY <1>1, <1>2, <2>1 DEF ViewInv
<1>11. ScrollInv'
  <2> SUFFICES ASSUME NEW p \in Paths
               PROVE  Times(Pushed', ScrollOf(p)) + Once(~scrolled'.sent /\ p = lastPath') = Times(stays', {p})
    BY DEF ScrollInv
  <2>1. Once(~scrolled'.sent /\ p = lastPath') = 0
    BY <1>3 DEF Once
  <2>2. Times(Pushed, ScrollOf(p)) + Once(~scrolled.sent /\ p = lastPath) = Times(stays, {p}) /\ Times(stays, {p}) \in Nat
    BY <1>2, CountTypes DEF ScrollInv
  <2> QED
    BY <1>1, <1>8, <2>1, <2>2
<1> QED
  BY <1>9, <1>10, <1>11 DEF RumInv

\* The tab is shown again.
LEMMA ShowStep ==
    ASSUME RumAssumption, RumInv, Rum!Show
    PROVE  RumInv'
<1>1. /\ tab' = "visible"
      /\ UNCHANGED <<location, lastPath, checks, views, load, scrolled, reported, waiting, sent, moves, stays, early>>
  BY DEF Rum!Show
<1>2. Rum!TypeOK /\ LookInv /\ ViewInv /\ ScrollInv
  BY DEF RumInv
<1>3. Rum!TypeOK' /\ LookInv' /\ ClosedInv'
  BY <1>1, <1>2 DEF Rum!TypeOK, LookInv, ClosedInv
<1>4. ViewInv' /\ ScrollInv'
  BY <1>1, <1>2, SameLists DEF Pushed
<1> QED
  BY <1>3, <1>4 DEF RumInv

\* Every step.
LEMMA RumSteps ==
    ASSUME RumAssumption, RumInv, Rum!Next
    PROVE  RumInv'
  BY DocumentStep, PageLoadStep, CheckRouteStep, CountViewStep, SendStep, HideStep, ShowStep, PushStateStep, PopStateStep
     DEF Rum!Next

\* The beginning.
LEMMA RumBegins ==
    ASSUME RumAssumption, Rum!Init
    PROVE  RumInv
<1>1. /\ location = Entry /\ lastPath = Entry /\ checks = 0 /\ views = <<>> /\ load = "loading"
      /\ scrolled = [path |-> Entry, sent |-> FALSE] /\ reported = FALSE /\ tab = "visible"
      /\ waiting = <<>> /\ sent = <<>> /\ moves = 0 /\ stays = <<Entry>> /\ early = FALSE
  BY DEF Rum!Init
<1>2. Entry \in Paths /\ <<Entry>> \in Seq(Paths) /\ MaxMoves \in Nat
  BY DEF RumAssumption
<1>3. Rum!TypeOK
  <2>1. <<>> \in Seq(Paths) /\ <<>> \in Seq(Rum!Event) /\ 0 \in 0 .. MaxMoves
    BY <1>2
  <2> QED
    BY <1>1, <1>2, <2>1 DEF Rum!TypeOK
<1>4. LookInv /\ ClosedInv
  BY <1>1 DEF LookInv, ClosedInv, Rum!Last
<1>5. stays = Append(<<>>, Entry) /\ Pushed = <<>> /\ <<>> \in Seq(Paths)
  BY <1>1 DEF Pushed
<1>6. \A p \in Paths : Times(stays, {p}) = Once(p = Entry)
  <2> SUFFICES ASSUME NEW p \in Paths PROVE Times(stays, {p}) = Once(p = Entry)
    OBVIOUS
  <2>1. Times(stays, {p}) = Times(<<>>, {p}) + Once(Entry \in {p})
    BY <1>2, <1>5, TimesAppend
  <2>2. Once(Entry \in {p}) = Once(p = Entry) /\ Once(p = Entry) \in Nat
    BY DEF Once
  <2> QED
    BY <2>1, <2>2, TimesNone
<1>7. \A V : Times(Pushed, V) = 0 /\ Times(views, V) = 0
  BY <1>1, <1>5, TimesNone
<1>8. \A p \in Paths : Once(p = Entry) \in Nat /\ Once(~scrolled.sent /\ p = lastPath) = Once(p = Entry)
  BY <1>1 DEF Once
<1>9. ViewInv
  BY <1>1, <1>6, <1>7, <1>8 DEF ViewInv
<1>10. ScrollInv
  BY <1>6, <1>7, <1>8 DEF ScrollInv
<1> QED
  BY <1>3, <1>4, <1>9, <1>10 DEF RumInv

\* The invariant is enough.
LEMMA RumEnough ==
    ASSUME RumAssumption, RumInv
    PROVE  Rum!PagesCountedOnce
<1>1. Rum!TypeOK /\ LookInv /\ ViewInv /\ ScrollInv /\ ClosedInv
  BY DEF RumInv
<1>2. Pushed \in Seq(Rum!Event) /\ stays \in Seq(Paths) /\ views \in Seq(Paths) /\ stays # <<>> /\ Rum!Last(stays) = lastPath
  BY <1>1, CountTypes DEF LookInv
<1>3. Rum!Front(stays) \in Seq(Paths)
  BY <1>2, TimesFront
<1>4. ASSUME NEW p \in Paths
      PROVE  /\ (load = "counted" /\ views = <<>> /\ ~early) =>
                  Rum!Count({"page", "view"}, p, Pushed) = Rum!Occurrences(p, stays)
             /\ Rum!Count({"scroll"}, p, Pushed) \in Rum!Occurrences(p, Rum!Front(stays)) .. Rum!Occurrences(p, stays)
             /\ tab = "closed" => (Rum!Count({"scroll"}, p, Pushed) = Rum!Occurrences(p, stays) /\ waiting = <<>>)
  <2>1. /\ Rum!Count({"page", "view"}, p, Pushed) = Times(Pushed, PageOrView(p))
        /\ Rum!Count({"scroll"}, p, Pushed) = Times(Pushed, ScrollOf(p))
        /\ Rum!Occurrences(p, stays) = Times(stays, {p}) /\ Rum!Occurrences(p, Rum!Front(stays)) = Times(Rum!Front(stays), {p})
    BY <1>2, <1>3, SameCounts
  <2>2. /\ Times(Pushed, PageOrView(p)) \in Nat /\ Times(Pushed, ScrollOf(p)) \in Nat /\ Times(stays, {p}) \in Nat
        /\ Times(Rum!Front(stays), {p}) \in Nat
    BY <1>2, <1>3, TimesType
  <2>3. (load = "counted" /\ views = <<>> /\ ~early) => Times(Pushed, PageOrView(p)) = Times(stays, {p})
    <3>1. SUFFICES ASSUME load = "counted", views = <<>>, ~early PROVE Times(Pushed, PageOrView(p)) = Times(stays, {p})
      OBVIOUS
    <3>2. Times(Pushed, PageOrView(p)) + Times(views, {p}) = Times(stays, {p})
      BY <1>1, <3>1 DEF ViewInv
    <3>3. Times(views, {p}) = 0
      BY <3>1, TimesNone
    <3> QED
      BY <2>2, <3>2, <3>3
  <2>4. Times(Pushed, ScrollOf(p)) + Once(~scrolled.sent /\ p = lastPath) = Times(stays, {p})
    BY <1>1 DEF ScrollInv
  <2>5. Times(stays, {p}) = Times(Rum!Front(stays), {p}) + Once(lastPath \in {p})
    BY <1>2, TimesFront
  <2>6. /\ Once(~scrolled.sent /\ p = lastPath) \in Nat /\ Once(lastPath \in {p}) \in Nat
        /\ Once(~scrolled.sent /\ p = lastPath) <= Once(lastPath \in {p})
        /\ scrolled.sent => Once(~scrolled.sent /\ p = lastPath) = 0
    BY DEF Once
  <2>7. tab = "closed" => scrolled.sent /\ waiting = <<>>
    BY <1>1 DEF ClosedInv
  <2> QED
    BY <2>1, <2>2, <2>3, <2>4, <2>5, <2>6, <2>7
<1> QED
  BY <1>4 DEF Rum!PagesCountedOnce, Pushed

\* In every behaviour the script is as said.
LEMMA RumAlways ==
    ASSUME RumAssumption
    PROVE  Spec => [](part = "script" => RumInv)
<1>1. Init => (part = "script" => RumInv)
  BY RumBegins DEF Init
<1>2. (part = "script" => RumInv) /\ [Next]_partVars => (part = "script" => RumInv)'
  <2> SUFFICES ASSUME part = "script" => RumInv, [Next]_partVars, part' = "script"
               PROVE  RumInv'
    OBVIOUS
  <2>1. CASE partVars' = partVars
    <3>1. /\ part' = part
          /\ UNCHANGED <<location, lastPath, checks, views, load, scrolled, reported, tab, waiting, sent, moves, stays, early>>
      BY <2>1 DEF partVars, scriptVars
    <3>2. RumInv
      BY <3>1
    <3>3. Pushed' = Pushed
      BY <3>1 DEF Pushed
    <3>4. ViewInv' /\ ScrollInv'
      BY <3>1, <3>2, <3>3, SameLists DEF RumInv
    <3> QED
      BY <3>1, <3>2, <3>4 DEF RumInv, Rum!TypeOK, LookInv, ClosedInv
  <2>2. CASE Next
    <3>1. part = "script" /\ Rum!Next
      BY <2>2 DEF Next, OthersStay
    <3>2. RumInv
      BY <3>1
    <3> QED
      BY <3>1, <3>2, RumSteps
  <2> QED
    BY <2>1, <2>2
<1> QED
  BY <1>1, <1>2, PTL DEF Spec

\* wolflog-rum.js:117 and :256: once no view is deferred, each page that was seen was counted once,
\* under its own path, and each page that was left gave one scroll, whatever the order in which
\* routes change, views are counted, and the tab is hidden, shown and closed.
THEOREM PagesAreCountedOnce ==
    ASSUME RumAssumption
    PROVE  Spec => []PagesCountedOnce
<1>1. (part = "script" => RumInv) => PagesCountedOnce
  BY RumEnough DEF PagesCountedOnce
<1> QED
  BY <1>1, RumAlways, PTL

-----------------------------------------------------------------------------
(* Every part is of the shape its module gives it.                         *)

\* The page of the logs, as its proofs know it, is of the shape its module gives it.
LEMMA PageShape ==
    ASSUME PageAssumption, PageInv
    PROVE  LogsPage!TypeOK
<1>1. PageTypes /\ StoredInv
  BY DEF PageInv
<1>2. /\ hot \subseteq Logs /\ segments \subseteq SUBSET Logs /\ announced \in Logs \cup {Null}
      /\ query \in LogsPage!Queries /\ live \in BOOLEAN /\ acts \in 0 .. MaxActs
      /\ {hasOlder, hasNewer, error, overdue} \subseteq BOOLEAN
      /\ items \in Seq(Logs)
      /\ search = Null \/ search \in Asked
      /\ more = Null \/ more \in AskedFor
      /\ stream = Null \/ stream \in Streams
  BY <1>1 DEF PageTypes
<1>3. \A s \in Seq(Logs) : LogsPage!ToSet(s) \subseteq Logs
  BY DEF LogsPage!ToSet
<1>4. search = Null \/ (search.query \in LogsPage!Queries /\ search.stored \subseteq Logs)
  BY <1>2 DEF Asked
<1>5. more = Null \/ (more.query \in LogsPage!Queries /\ more.direction \in {"older", "newer"} /\ more.from \in Logs)
  BY <1>2 DEF AskedFor
<1>6. stream = Null \/ (stream.query \in LogsPage!Queries /\ LogsPage!ToSet(stream.channel) \subseteq Logs)
  BY <1>2, <1>3 DEF Streams
<1>7. known \subseteq Logs /\ before \subseteq Logs
  BY <1>1, <1>2 DEF StoredInv, LogsPage!Stored
<1> QED
  BY <1>2, <1>3, <1>4, <1>5, <1>6, <1>7, Zenon DEF LogsPage!TypeOK

\* The type invariant of the run, for every value of the constants: of any behaviour of any part.
THEOREM PartsTyped ==
    ASSUME CollectionsAssumption, CopiesAssumption, TokensAssumption, VisitorsAssumption, AccountsAssumption,
           SessionsAssumption, PageAssumption, RumAssumption, BackupsAssumption
    PROVE  Spec => []TypeOK
<1>1. /\ CollectionsInv => Collections!TypeOK
      /\ CopiesInv => Copies!TypeOK
      /\ TokensInv => MailTokens!TypeOK
      /\ VisitorsInv => Visitors!TypeOK
      /\ AccountsInv => Accounts!TypeOK
      /\ SessionsInv => Sessions!TypeOK
      /\ RumInv => Rum!TypeOK
      /\ BackupsInv => Backups!TypeOK
  BY Zenon DEF CollectionsInv, CopiesInv, TokensInv, VisitorsInv, AccountsInv, SessionsInv, RumInv, BackupsInv
<1>2. PageInv => LogsPage!TypeOK
  BY PageShape
<1>3. /\ part = "collections" => CollectionsInv
      /\ part = "copies" => CopiesInv
      /\ part = "tokens" => TokensInv
      /\ part = "visitors" => VisitorsInv
      /\ part = "accounts" => AccountsInv
      /\ part = "sessions" => SessionsInv
      /\ part = "page" => PageInv
      /\ part = "script" => RumInv
      /\ part = "backups" => BackupsInv
      => TypeOK
  BY <1>1, <1>2, Zenon DEF TypeOK
<1> QED
  BY <1>3, CollectionsAlways, CopiesAlways, TokensAlways, VisitorsAlways, AccountsAlways, SessionsAlways, PageAlways,
    RumAlways, BackupsAlways, PTL

=============================================================================
