-------------------------- MODULE Configuration_proofs --------------------------
(***************************************************************************)
(* Proofs about the configuration and about the access to the server: the  *)
(* collections in JSON files, with their copies in the server and in the   *)
(* command, what the stores of the environments and of the keys compute    *)
(* from their files, the accounts, and the tokens of a Microsoft account.  *)
(***************************************************************************)
EXTENDS MCParts, FiniteSetTheorems, TLAPS

-----------------------------------------------------------------------------
(* The collections of the configuration.                                   *)

CollectionsAssumption ==
    /\ MaxCalls \in Nat /\ MaxTroubles \in Nat
    /\ "server" \notin Commands /\ Threads \cap Commands = {}
    /\ Null \notin Threads \cup Commands

\* A caller in its lock, by its step.
InLock == {"read", "stamp", "change", "open", "close", "move", "taken"}
Saving == {"open", "close", "move"}
OfCall == {"read", "upsert", "update", "delete", "add"}

CallInv ==
    \A a \in Collections!Callers :
        /\ call[a].step \in InLock => held[Collections!Process(a)] = a
        /\ call[a].step = "load" => a \in Commands
        /\ call[a].kind \in OfCall => call[a].id \in Ids
        /\ call[a].step \in Saving \cup {"taken"} => Collections!Changing(call[a].kind)
        /\ tmp.writer = a => call[a].step = "close"

StampInv == \A p \in Collections!Owners : cache[p].stamp <= file.stamp

\* The items of a process are those of the file, where no failed change has been.
Agrees(p) == \A i \in Ids \ spoiled : cache[p].rows[i] = file.rows[i]

TmpInv ==
    \A a \in Collections!Callers : call[a].step \in {"close", "move"} =>
        tmp.exists /\ tmp.rows = Collections!CacheOf(a).rows

ChangeInv ==
    \A a \in Collections!Callers :
        /\ call[a].step \in Saving =>
              /\ call[a].rows = Collections!CacheOf(a).rows
              /\ call[a].kind # "replace" =>
                    \A i \in Ids \ spoiled : i # call[a].id => call[a].rows[i] = file.rows[i]
        /\ call[a].step \in {"stamp", "taken"} => Collections!CacheOf(a).rows = file.rows
        /\ call[a].step = "change" /\ Collections!Changing(call[a].kind) /\ call[a].kind # "replace" =>
              Agrees(Collections!Process(a))

CacheInv ==
    \A p \in Collections!Owners :
        cache[p].stamp = file.stamp => \/ Agrees(p)
                                       \/ \E a \in Collections!Callers : Collections!Process(a) = p /\ call[a].step \in Saving

FileInv ==
    /\ file.whole /\ file.writer = Null
    /\ \A i \in Ids \ spoiled : file.rows[i] = landed[i]

AloneInv == ~raced => TmpInv /\ ChangeInv /\ CacheInv /\ FileInv

CollectionsInv == Collections!TypeOK /\ CallInv /\ StampInv /\ AloneInv

\* The records of the state.
Calling  == [kind : Collections!Kinds, id : Ids \cup {Null}, number : 0..MaxCalls,
             rows : Collections!Rows, step : Collections!Steps]
Copied   == [rows : Collections!Rows, stamp : Nat]
Stored   == [rows : Collections!Rows, stamp : Nat, whole : BOOLEAN,
             writer : Collections!Callers \cup {Null}]
Tempered == [exists : BOOLEAN, rows : Collections!Rows, writer : Collections!Callers \cup {Null}]

\* The shape of the parts of the state.
LEMMA CollectionTypes ==
    ASSUME Collections!TypeOK, CollectionsAssumption
    PROVE  /\ Collections!Nothing \in Collections!Rows /\ Collections!Idle \in Calling
           /\ call \in [Collections!Callers -> Calling] /\ cache \in [Collections!Owners -> Copied]
           /\ file \in Stored /\ tmp \in Tempered
           /\ \A a \in Collections!Callers :
                 Collections!Process(a) \in Collections!Owners /\ Collections!CacheOf(a) \in Copied
<1>1. Collections!Nothing \in Collections!Rows
  BY DEF CollectionsAssumption, Collections!Nothing, Collections!Rows
<1>2. Collections!Idle \in Calling
  BY <1>1 DEF CollectionsAssumption, Collections!Idle, Calling, Collections!Kinds, Collections!Steps
<1>3. call \in [Collections!Callers -> Calling] /\ cache \in [Collections!Owners -> Copied]
      /\ file \in Stored /\ tmp \in Tempered
  BY DEF Collections!TypeOK, Calling, Copied, Stored, Tempered
<1>4. \A a \in Collections!Callers : Collections!Process(a) \in Collections!Owners
  BY DEF Collections!Callers, Collections!Process, Collections!Owners
<1>5. \A a \in Collections!Callers : Collections!CacheOf(a) \in Copied
  BY SMTT(90), <1>3, <1>4 DEF Collections!CacheOf
<1> QED
  BY <1>1, <1>2, <1>3, <1>4, <1>5

\* Records of these shapes make a state of its shape.
LEMMA CollectionTyped ==
    ASSUME call' \in [Collections!Callers -> Calling], cache' \in [Collections!Owners -> Copied],
           file' \in Stored, tmp' \in Tempered,
           held' \in [Collections!Owners -> Collections!Callers \cup {Null}],
           calls' \in 0..MaxCalls, troubles' \in 0..MaxTroubles,
           landed' \in Collections!Rows, spoiled' \subseteq Ids, raced' \in BOOLEAN
    PROVE  Collections!TypeOK'
  BY DEF Collections!TypeOK, Calling, Copied, Stored, Tempered

\* A call begins: nothing is read or written yet.
LEMMA CollectionsAskStep ==
    ASSUME CollectionsInv, CollectionsAssumption, NEW a \in Collections!Callers, NEW kind \in OfCall,
           NEW id \in Ids, Collections!Ask(a, kind, id)
    PROVE  CollectionsInv'
<1>1. Collections!TypeOK'
  <2>1. /\ Collections!Nothing \in Collections!Rows /\ Collections!Idle \in Calling
        /\ call \in [Collections!Callers -> Calling] /\ cache \in [Collections!Owners -> Copied]
        /\ file \in Stored /\ tmp \in Tempered
        /\ \A b \in Collections!Callers :
              Collections!Process(b) \in Collections!Owners /\ Collections!CacheOf(b) \in Copied
    BY CollectionTypes DEF CollectionsInv
  <2> DEFINE q == [kind |-> kind, id |-> id, rows |-> Collections!Nothing, number |-> calls',
                   step |-> IF a \in Commands THEN "load" ELSE "begin"]
  <2>5. q \in Calling
    BY <2>1 DEF CollectionsInv, Collections!TypeOK, CollectionsAssumption, Collections!Ask, Calling,
      OfCall, Collections!Kinds, Collections!Steps
  <2> HIDE DEF q
  <2>2. call' \in [Collections!Callers -> Calling]
    <3>1. call' = [call EXCEPT ![a] = q]
      BY DEF Collections!Ask, q
    <3> QED
      BY SMTT(90), <2>1, <2>5, <3>1
  <2>3. cache' \in [Collections!Owners -> Copied] /\ file' \in Stored /\ tmp' \in Tempered
    BY <2>1 DEF Collections!Ask
  <2>4. /\ held' \in [Collections!Owners -> Collections!Callers \cup {Null}]
        /\ calls' \in 0..MaxCalls /\ troubles' \in 0..MaxTroubles
        /\ landed' \in Collections!Rows /\ spoiled' \subseteq Ids /\ raced' \in BOOLEAN
    BY SMTT(90), <2>1 DEF CollectionsInv, Collections!TypeOK, Collections!Ask, CollectionsAssumption
  <2> QED
    BY <2>1, <2>2, <2>3, <2>4, CollectionTyped, ZenonT(90)
<1>2. CallInv'
  BY DEF CollectionsInv, Collections!TypeOK, CollectionsAssumption, Collections!Callers,
    Collections!Process, Collections!Owners, Collections!Ask, Collections!To, Collections!CacheOf,
    Collections!Release, CallInv, OfCall, InLock, Saving, Collections!Changing,
    Collections!Nothing, Collections!Idle
<1>3. StampInv'
  BY ZenonT(90) DEF CollectionsInv, Collections!TypeOK, CollectionsAssumption, Collections!Callers,
    Collections!Process, Collections!Owners, Collections!Ask, Collections!To, Collections!CacheOf,
    Collections!Release, StampInv
<1>4. ASSUME ~raced' PROVE TmpInv'
  BY <1>4 DEF CollectionsInv, Collections!TypeOK, CollectionsAssumption, Collections!Callers,
    Collections!Process, Collections!Owners, Collections!Ask, Collections!To, Collections!CacheOf,
    Collections!Release, CallInv, OfCall, InLock, Saving, Collections!Changing,
    Collections!Nothing, Collections!Idle, AloneInv, TmpInv, ChangeInv
<1>5. ASSUME ~raced' PROVE ChangeInv'
  BY SMTT(90), <1>5 DEF CollectionsInv, Collections!TypeOK, CollectionsAssumption, Collections!Callers,
    Collections!Process, Collections!Owners, Collections!Ask, Collections!To, Collections!CacheOf,
    Collections!Release, CallInv, OfCall, InLock, Saving, Collections!Changing,
    Collections!Nothing, Collections!Idle, AloneInv, TmpInv, ChangeInv, CacheInv, Agrees, FileInv
<1>6. ASSUME ~raced' PROVE CacheInv'
  BY SMTT(90), <1>6 DEF CollectionsInv, Collections!TypeOK, CollectionsAssumption, Collections!Callers,
    Collections!Process, Collections!Owners, Collections!Ask, Collections!To, Collections!CacheOf,
    Collections!Release, CallInv, OfCall, InLock, Saving, Collections!Changing,
    Collections!Nothing, Collections!Idle, StampInv, AloneInv, TmpInv, ChangeInv, CacheInv, Agrees,
    FileInv
<1>7. ASSUME ~raced' PROVE FileInv'
  BY <1>7 DEF CollectionsInv, Collections!TypeOK, CollectionsAssumption, Collections!Callers,
    Collections!Process, Collections!Owners, Collections!Ask, Collections!To, Collections!CacheOf,
    Collections!Release, CallInv, OfCall, InLock, Saving, Collections!Changing,
    Collections!Nothing, Collections!Idle, AloneInv, TmpInv, ChangeInv, FileInv
<1> QED
  BY <1>1, <1>2, <1>3, <1>4, <1>5, <1>6, <1>7 DEF CollectionsInv, AloneInv

\* A command loads the items with their stamp.
LEMMA CollectionsLoadStep ==
    ASSUME CollectionsInv, CollectionsAssumption, NEW a \in Collections!Callers, Collections!Load(a)
    PROVE  CollectionsInv'
<1>1. Collections!TypeOK'
  <2>1. /\ Collections!Nothing \in Collections!Rows /\ Collections!Idle \in Calling
        /\ call \in [Collections!Callers -> Calling] /\ cache \in [Collections!Owners -> Copied]
        /\ file \in Stored /\ tmp \in Tempered
        /\ \A b \in Collections!Callers :
              Collections!Process(b) \in Collections!Owners /\ Collections!CacheOf(b) \in Copied
    BY SMTT(90), CollectionTypes DEF CollectionsInv
  <2> DEFINE copy == [rows |-> file.rows, stamp |-> file.stamp]
  <2>5. copy \in Copied /\ a \in Collections!Owners
    BY SMTT(90), <2>1 DEF Copied, Stored, CollectionsInv, CallInv, Collections!Load, Collections!Owners
  <2> HIDE DEF copy
  <2>2. call' \in [Collections!Callers -> Calling]
    <3>1. \/ call' = [call EXCEPT ![a].step = "begin"]
          \/ call' = [call EXCEPT ![a] = Collections!Idle]
      BY DEF Collections!Load, Collections!To
    <3> QED
      BY SMTT(90), <2>1, <3>1 DEF Calling, Collections!Steps
  <2>3. cache' \in [Collections!Owners -> Copied] /\ file' \in Stored /\ tmp' \in Tempered
    <3>1. cache' = cache \/ cache' = [cache EXCEPT ![a] = copy]
      BY DEF Collections!Load, copy
    <3> QED
      BY <2>1, <2>5, <3>1 DEF Collections!Load
  <2>4. /\ held' \in [Collections!Owners -> Collections!Callers \cup {Null}]
        /\ calls' \in 0..MaxCalls /\ troubles' \in 0..MaxTroubles
        /\ landed' \in Collections!Rows /\ spoiled' \subseteq Ids /\ raced' \in BOOLEAN
    BY SMTT(90), <2>1 DEF CollectionsInv, Collections!TypeOK, Collections!Load, Collections!Release
  <2> QED
    BY <2>1, <2>2, <2>3, <2>4, CollectionTyped, ZenonT(90)
<1>2. CallInv'
  BY DEF CollectionsInv, Collections!TypeOK, CollectionsAssumption, Collections!Callers,
    Collections!Process, Collections!Owners, Collections!Load, Collections!To, Collections!CacheOf,
    Collections!Release, CallInv, OfCall, InLock, Saving, Collections!Changing,
    Collections!Nothing, Collections!Idle
<1>3. StampInv'
  BY SMTT(90) DEF CollectionsInv, Collections!TypeOK, CollectionsAssumption, Collections!Callers,
    Collections!Process, Collections!Owners, Collections!Load, Collections!To, Collections!CacheOf,
    Collections!Release, StampInv
<1>4. ASSUME ~raced' PROVE TmpInv'
  BY SMTT(90), <1>4 DEF CollectionsInv, Collections!TypeOK, CollectionsAssumption, Collections!Callers,
    Collections!Process, Collections!Owners, Collections!Load, Collections!To, Collections!CacheOf,
    Collections!Release, CallInv, OfCall, InLock, Saving, Collections!Changing,
    Collections!Nothing, Collections!Idle, AloneInv, TmpInv, ChangeInv
<1>5. ASSUME ~raced' PROVE ChangeInv'
  BY SMTT(90), <1>5 DEF CollectionsInv, Collections!TypeOK, CollectionsAssumption, Collections!Callers,
    Collections!Process, Collections!Owners, Collections!Load, Collections!To, Collections!CacheOf,
    Collections!Release, CallInv, OfCall, InLock, Saving, Collections!Changing,
    Collections!Nothing, Collections!Idle, AloneInv, TmpInv, ChangeInv, CacheInv, Agrees, FileInv
<1>6. ASSUME ~raced' PROVE CacheInv'
  BY SMTT(90), <1>6 DEF CollectionsInv, Collections!TypeOK, CollectionsAssumption, Collections!Callers,
    Collections!Process, Collections!Owners, Collections!Load, Collections!To, Collections!CacheOf,
    Collections!Release, CallInv, OfCall, InLock, Saving, Collections!Changing,
    Collections!Nothing, Collections!Idle, StampInv, AloneInv, TmpInv, ChangeInv, CacheInv, Agrees,
    FileInv
<1>7. ASSUME ~raced' PROVE FileInv'
  BY <1>7 DEF CollectionsInv, Collections!TypeOK, CollectionsAssumption, Collections!Callers,
    Collections!Process, Collections!Owners, Collections!Load, Collections!To, Collections!CacheOf,
    Collections!Release, CallInv, OfCall, InLock, Saving, Collections!Changing,
    Collections!Nothing, Collections!Idle, AloneInv, TmpInv, ChangeInv, FileInv
<1> QED
  BY <1>1, <1>2, <1>3, <1>4, <1>5, <1>6, <1>7 DEF CollectionsInv, AloneInv

\* Who enters the lock with the stamp of the file has the items of the file.
LEMMA CollectionsBeginStep ==
    ASSUME CollectionsInv, CollectionsAssumption, NEW a \in Collections!Callers, Collections!Begin(a)
    PROVE  CollectionsInv'
<1>1. Collections!TypeOK'
  <2>1. /\ Collections!Nothing \in Collections!Rows /\ Collections!Idle \in Calling
        /\ call \in [Collections!Callers -> Calling] /\ cache \in [Collections!Owners -> Copied]
        /\ file \in Stored /\ tmp \in Tempered
        /\ \A b \in Collections!Callers :
              Collections!Process(b) \in Collections!Owners /\ Collections!CacheOf(b) \in Copied
    BY CollectionTypes DEF CollectionsInv
  <2>2. call' \in [Collections!Callers -> Calling]
    <3>1. \/ call' = [call EXCEPT ![a].step = "read"]
          \/ call' = [call EXCEPT ![a].step = "change"]
      BY DEF Collections!Begin, Collections!To
    <3> QED
      BY <2>1, <3>1 DEF Calling, Collections!Steps
  <2>3. cache' \in [Collections!Owners -> Copied] /\ file' \in Stored /\ tmp' \in Tempered
    BY <2>1 DEF Collections!Begin
  <2>4. /\ held' \in [Collections!Owners -> Collections!Callers \cup {Null}]
        /\ calls' \in 0..MaxCalls /\ troubles' \in 0..MaxTroubles
        /\ landed' \in Collections!Rows /\ spoiled' \subseteq Ids /\ raced' \in BOOLEAN
    BY SMTT(90), <2>1 DEF CollectionsInv, Collections!TypeOK, Collections!Begin
  <2> QED
    BY <2>1, <2>2, <2>3, <2>4, CollectionTyped, Zenon
<1>2. CallInv'
  BY DEF CollectionsInv, Collections!TypeOK, CollectionsAssumption, Collections!Callers,
    Collections!Process, Collections!Owners, Collections!Begin, Collections!To,
    Collections!CacheOf, Collections!Release, CallInv, OfCall, InLock, Saving,
    Collections!Changing, Collections!Nothing, Collections!Idle
<1>3. StampInv'
  BY SMTT(90) DEF CollectionsInv, Collections!TypeOK, CollectionsAssumption, Collections!Callers,
    Collections!Process, Collections!Owners, Collections!Begin, Collections!To,
    Collections!CacheOf, Collections!Release, StampInv
<1>4. ASSUME ~raced' PROVE TmpInv'
  BY SMTT(90), <1>4 DEF CollectionsInv, Collections!TypeOK, CollectionsAssumption, Collections!Callers,
    Collections!Process, Collections!Owners, Collections!Begin, Collections!To,
    Collections!CacheOf, Collections!Release, CallInv, OfCall, InLock, Saving,
    Collections!Changing, Collections!Nothing, Collections!Idle, AloneInv, TmpInv, ChangeInv
<1>5. ASSUME ~raced' PROVE ChangeInv'
  BY SMTT(90), <1>5 DEF CollectionsInv, Collections!TypeOK, CollectionsAssumption, Collections!Callers,
    Collections!Process, Collections!Owners, Collections!Begin, Collections!To,
    Collections!CacheOf, Collections!Release, CallInv, OfCall, InLock, Saving,
    Collections!Changing, Collections!Nothing, Collections!Idle, AloneInv, TmpInv, ChangeInv,
    CacheInv, Agrees, FileInv
<1>6. ASSUME ~raced' PROVE CacheInv'
  BY SMTT(90), <1>6 DEF CollectionsInv, Collections!TypeOK, CollectionsAssumption, Collections!Callers,
    Collections!Process, Collections!Owners, Collections!Begin, Collections!To,
    Collections!CacheOf, Collections!Release, CallInv, OfCall, InLock, Saving,
    Collections!Changing, Collections!Nothing, Collections!Idle, StampInv, AloneInv, TmpInv,
    ChangeInv, CacheInv, Agrees, FileInv
<1>7. ASSUME ~raced' PROVE FileInv'
  BY <1>7 DEF CollectionsInv, Collections!TypeOK, CollectionsAssumption, Collections!Callers,
    Collections!Process, Collections!Owners, Collections!Begin, Collections!To,
    Collections!CacheOf, Collections!Release, CallInv, OfCall, InLock, Saving,
    Collections!Changing, Collections!Nothing, Collections!Idle, AloneInv, TmpInv, ChangeInv, FileInv
<1> QED
  BY <1>1, <1>2, <1>3, <1>4, <1>5, <1>6, <1>7 DEF CollectionsInv, AloneInv

\* The items read are those of the file.
LEMMA CollectionsReadTextStep ==
    ASSUME CollectionsInv, CollectionsAssumption, NEW a \in Collections!Callers, Collections!ReadText(a)
    PROVE  CollectionsInv'
<1>1. Collections!TypeOK'
  BY SMTT(90) DEF CollectionsInv, Collections!TypeOK, CollectionsAssumption, Collections!Callers,
    Collections!Process, Collections!Owners, Collections!ReadText, Collections!To,
    Collections!CacheOf, Collections!Release, Collections!Rows, Collections!Kinds,
    Collections!Steps, OfCall, Collections!Nothing, Collections!Idle, CallInv, InLock, Saving,
    Collections!Changing
<1>2. CallInv'
  BY DEF CollectionsInv, Collections!TypeOK, CollectionsAssumption, Collections!Callers,
    Collections!Process, Collections!Owners, Collections!ReadText, Collections!To,
    Collections!CacheOf, Collections!Release, CallInv, OfCall, InLock, Saving,
    Collections!Changing, Collections!Nothing, Collections!Idle
<1>3. StampInv'
  BY SMTT(90) DEF CollectionsInv, Collections!TypeOK, CollectionsAssumption, Collections!Callers,
    Collections!Process, Collections!Owners, Collections!ReadText, Collections!To,
    Collections!CacheOf, Collections!Release, StampInv
<1>4. ASSUME ~raced' PROVE TmpInv'
  BY SMTT(90), <1>4 DEF CollectionsInv, Collections!TypeOK, CollectionsAssumption, Collections!Callers,
    Collections!Process, Collections!Owners, Collections!ReadText, Collections!To,
    Collections!CacheOf, Collections!Release, CallInv, OfCall, InLock, Saving,
    Collections!Changing, Collections!Nothing, Collections!Idle, AloneInv, TmpInv, ChangeInv
<1>5. ASSUME ~raced' PROVE ChangeInv'
  BY SMTT(90), <1>5 DEF CollectionsInv, Collections!TypeOK, CollectionsAssumption, Collections!Callers,
    Collections!Process, Collections!Owners, Collections!ReadText, Collections!To,
    Collections!CacheOf, Collections!Release, CallInv, OfCall, InLock, Saving,
    Collections!Changing, Collections!Nothing, Collections!Idle, AloneInv, TmpInv, ChangeInv,
    CacheInv, Agrees, FileInv
<1>6. ASSUME ~raced' PROVE CacheInv'
  BY SMTT(90), <1>6 DEF CollectionsInv, Collections!TypeOK, CollectionsAssumption, Collections!Callers,
    Collections!Process, Collections!Owners, Collections!ReadText, Collections!To,
    Collections!CacheOf, Collections!Release, CallInv, OfCall, InLock, Saving,
    Collections!Changing, Collections!Nothing, Collections!Idle, StampInv, AloneInv, TmpInv,
    ChangeInv, CacheInv, Agrees, FileInv
<1>7. ASSUME ~raced' PROVE FileInv'
  BY <1>7 DEF CollectionsInv, Collections!TypeOK, CollectionsAssumption, Collections!Callers,
    Collections!Process, Collections!Owners, Collections!ReadText, Collections!To,
    Collections!CacheOf, Collections!Release, CallInv, OfCall, InLock, Saving,
    Collections!Changing, Collections!Nothing, Collections!Idle, AloneInv, TmpInv, ChangeInv, FileInv
<1> QED
  BY <1>1, <1>2, <1>3, <1>4, <1>5, <1>6, <1>7 DEF CollectionsInv, AloneInv

\* No other process has written since the items were read, or two processes have crossed.
LEMMA CollectionsReadStampStep ==
    ASSUME CollectionsInv, CollectionsAssumption, NEW a \in Collections!Callers, Collections!ReadStamp(a)
    PROVE  CollectionsInv'
<1>1. Collections!TypeOK'
  <2>1. /\ Collections!Nothing \in Collections!Rows /\ Collections!Idle \in Calling
        /\ call \in [Collections!Callers -> Calling] /\ cache \in [Collections!Owners -> Copied]
        /\ file \in Stored /\ tmp \in Tempered
        /\ \A b \in Collections!Callers :
              Collections!Process(b) \in Collections!Owners /\ Collections!CacheOf(b) \in Copied
    BY CollectionTypes DEF CollectionsInv
  <2>2. call' \in [Collections!Callers -> Calling]
    BY <2>1 DEF Collections!ReadStamp, Collections!To, Calling, Collections!Steps
  <2>3. cache' \in [Collections!Owners -> Copied] /\ file' \in Stored /\ tmp' \in Tempered
    BY ZenonT(90), <2>1 DEF Collections!ReadStamp, Copied, Stored
  <2>4. /\ held' \in [Collections!Owners -> Collections!Callers \cup {Null}]
        /\ calls' \in 0..MaxCalls /\ troubles' \in 0..MaxTroubles
        /\ landed' \in Collections!Rows /\ spoiled' \subseteq Ids /\ raced' \in BOOLEAN
    BY <2>1 DEF CollectionsInv, Collections!TypeOK, Collections!ReadStamp, Collections!Release
  <2> QED
    BY <2>1, <2>2, <2>3, <2>4, CollectionTyped, Zenon
<1>2. CallInv'
  BY DEF CollectionsInv, Collections!TypeOK, CollectionsAssumption, Collections!Callers,
    Collections!Process, Collections!Owners, Collections!ReadStamp, Collections!To,
    Collections!CacheOf, Collections!Release, CallInv, OfCall, InLock, Saving,
    Collections!Changing, Collections!Nothing, Collections!Idle
<1>3. StampInv'
  BY SMTT(90) DEF CollectionsInv, Collections!TypeOK, CollectionsAssumption, Collections!Callers,
    Collections!Process, Collections!Owners, Collections!ReadStamp, Collections!To,
    Collections!CacheOf, Collections!Release, StampInv
<1>4. ASSUME ~raced' PROVE TmpInv'
  BY SMTT(90), <1>4 DEF CollectionsInv, Collections!TypeOK, CollectionsAssumption, Collections!Callers,
    Collections!Process, Collections!Owners, Collections!ReadStamp, Collections!To,
    Collections!CacheOf, Collections!Release, CallInv, OfCall, InLock, Saving,
    Collections!Changing, Collections!Nothing, Collections!Idle, AloneInv, TmpInv, ChangeInv
<1>5. ASSUME ~raced' PROVE ChangeInv'
  BY SMTT(90), <1>5 DEF CollectionsInv, Collections!TypeOK, CollectionsAssumption, Collections!Callers,
    Collections!Process, Collections!Owners, Collections!ReadStamp, Collections!To,
    Collections!CacheOf, Collections!Release, CallInv, OfCall, InLock, Saving,
    Collections!Changing, Collections!Nothing, Collections!Idle, AloneInv, TmpInv, ChangeInv,
    CacheInv, Agrees, FileInv
<1>6. ASSUME ~raced' PROVE CacheInv'
  BY SMTT(90), <1>6 DEF CollectionsInv, Collections!TypeOK, CollectionsAssumption, Collections!Callers,
    Collections!Process, Collections!Owners, Collections!ReadStamp, Collections!To,
    Collections!CacheOf, Collections!Release, CallInv, OfCall, InLock, Saving,
    Collections!Changing, Collections!Nothing, Collections!Idle, StampInv, AloneInv, TmpInv,
    ChangeInv, CacheInv, Agrees, FileInv
<1>7. ASSUME ~raced' PROVE FileInv'
  BY <1>7 DEF CollectionsInv, Collections!TypeOK, CollectionsAssumption, Collections!Callers,
    Collections!Process, Collections!Owners, Collections!ReadStamp, Collections!To,
    Collections!CacheOf, Collections!Release, CallInv, OfCall, InLock, Saving,
    Collections!Changing, Collections!Nothing, Collections!Idle, AloneInv, TmpInv, ChangeInv, FileInv
<1> QED
  BY <1>1, <1>2, <1>3, <1>4, <1>5, <1>6, <1>7 DEF CollectionsInv, AloneInv

\* The call ends without a change, or goes on to replace the list by its newest items.
LEMMA CollectionsAnswerStep ==
    ASSUME CollectionsInv, CollectionsAssumption, NEW a \in Collections!Callers, Collections!Answer(a)
    PROVE  CollectionsInv'
<1> DEFINE kept(i) == Collections!Cardinality({j \in Ids : Collections!CacheOf(a).rows[j] > Collections!CacheOf(a).rows[i]}) < Kept
           trimmed == [i \in Ids |-> IF kept(i) THEN Collections!CacheOf(a).rows[i] ELSE 0]
           q == [call[a] EXCEPT !.kind = "replace", !.step = "begin", !.rows = trimmed]
<1>a. call' = [call EXCEPT ![a] = q] \/ call' = [call EXCEPT ![a] = Collections!Idle]
  BY Zenon DEF Collections!Answer
<1> HIDE DEF kept
<1>b. trimmed \in Collections!Rows
  BY CollectionTypes DEF CollectionsInv, Copied, Collections!Rows, CollectionsAssumption
<1> HIDE DEF trimmed
<1>c. q \in Calling /\ q.kind = "replace" /\ q.step = "begin"
  BY ZenonT(90), <1>b, CollectionTypes DEF CollectionsInv, Calling, Collections!Kinds, Collections!Steps
<1> HIDE DEF q
<1>0. \E x \in Calling :
         /\ call' = [call EXCEPT ![a] = x]
         /\ x.step \in {"idle", "begin"} /\ x.kind \in {"none", "replace"}
  BY <1>a, <1>c, CollectionTypes DEF CollectionsInv, Collections!Idle
<1>d. /\ call[a].step = "change"
      /\ held' = [held EXCEPT ![Collections!Process(a)] = Null]
      /\ UNCHANGED <<file, tmp, cache, calls, troubles, landed, spoiled, raced>>
  BY ZenonT(90) DEF Collections!Answer, Collections!Release
<1>1. Collections!TypeOK'
  <2>1. /\ Collections!Nothing \in Collections!Rows /\ Collections!Idle \in Calling
        /\ call \in [Collections!Callers -> Calling] /\ cache \in [Collections!Owners -> Copied]
        /\ file \in Stored /\ tmp \in Tempered
        /\ \A b \in Collections!Callers :
              Collections!Process(b) \in Collections!Owners /\ Collections!CacheOf(b) \in Copied
    BY CollectionTypes DEF CollectionsInv
  <2>2. call' \in [Collections!Callers -> Calling]
    BY <2>1, <1>0 DEF CollectionsInv
  <2>3. cache' \in [Collections!Owners -> Copied] /\ file' \in Stored /\ tmp' \in Tempered
    BY <2>1 DEF Collections!Answer
  <2>4. /\ held' \in [Collections!Owners -> Collections!Callers \cup {Null}]
        /\ calls' \in 0..MaxCalls /\ troubles' \in 0..MaxTroubles
        /\ landed' \in Collections!Rows /\ spoiled' \subseteq Ids /\ raced' \in BOOLEAN
    BY SMTT(90), <2>1 DEF CollectionsInv, Collections!TypeOK, Collections!Answer, Collections!Release
  <2> QED
    BY <2>1, <2>2, <2>3, <2>4, CollectionTyped, Zenon
<1>2. CallInv'
  BY <1>0, <1>d DEF CollectionsInv, Collections!TypeOK, CollectionsAssumption, Collections!Callers,
    Collections!Process, Collections!Owners, Calling, Collections!CacheOf, CallInv, OfCall, InLock,
    Saving, Collections!Changing, Collections!Nothing, Collections!Idle
<1>3. StampInv'
  BY SMTT(90), <1>0, <1>d DEF CollectionsInv, Collections!TypeOK, CollectionsAssumption, Collections!Callers,
    Collections!Process, Collections!Owners, Calling, Collections!CacheOf, StampInv
<1>4. ASSUME ~raced' PROVE TmpInv'
  BY <1>0, <1>d, <1>4 DEF CollectionsInv, Collections!TypeOK, CollectionsAssumption,
    Collections!Callers, Collections!Process, Collections!Owners, Calling, Collections!CacheOf,
    CallInv, OfCall, InLock, Saving, Collections!Changing, Collections!Nothing, Collections!Idle, AloneInv, TmpInv, ChangeInv
<1>5. ASSUME ~raced' PROVE ChangeInv'
  BY SMTT(90), <1>0, <1>d, <1>5 DEF CollectionsInv, Collections!TypeOK, CollectionsAssumption,
    Collections!Callers, Collections!Process, Collections!Owners, Calling, Collections!CacheOf,
    CallInv, OfCall, InLock, Saving, Collections!Changing, Collections!Nothing, Collections!Idle, AloneInv, TmpInv, ChangeInv, CacheInv, Agrees, FileInv
<1>6. ASSUME ~raced' PROVE CacheInv'
  BY SMTT(90), <1>0, <1>d, <1>6 DEF CollectionsInv, Collections!TypeOK, CollectionsAssumption,
    Collections!Callers, Collections!Process, Collections!Owners, Calling, Collections!CacheOf,
    CallInv, OfCall, InLock, Saving, Collections!Changing, Collections!Nothing, Collections!Idle, StampInv, AloneInv, TmpInv, ChangeInv, CacheInv, Agrees, FileInv
<1>7. ASSUME ~raced' PROVE FileInv'
  BY <1>0, <1>d, <1>7 DEF CollectionsInv, Collections!TypeOK, CollectionsAssumption,
    Collections!Callers, Collections!Process, Collections!Owners, Calling, Collections!CacheOf,
    CallInv, OfCall, InLock, Saving, Collections!Changing, Collections!Nothing, Collections!Idle, AloneInv, TmpInv, ChangeInv, FileInv
<1> QED
  BY <1>1, <1>2, <1>3, <1>4, <1>5, <1>6, <1>7 DEF CollectionsInv, AloneInv

\* The change is made to items that are those of the file.
LEMMA CollectionsMakeChangeStep ==
    ASSUME CollectionsInv, CollectionsAssumption, NEW a \in Collections!Callers, Collections!MakeChange(a)
    PROVE  CollectionsInv'
<1> DEFINE o == Collections!Process(a)
           r == Collections!Changed(Collections!CacheOf(a).rows, call[a])
           c == [cache[o] EXCEPT !.rows = r]
           q == [[call[a] EXCEPT !.rows = r] EXCEPT !.step = "open"]
<1>a. /\ cache' = [cache EXCEPT ![o] = c] /\ call' = [call EXCEPT ![a] = q]
      /\ UNCHANGED <<file, tmp, held, calls, troubles, landed, spoiled, raced>>
      /\ call[a].step = "change" /\ Collections!Changing(call[a].kind)
  BY DEF Collections!MakeChange, Collections!CacheOf
<1>b. /\ Collections!Nothing \in Collections!Rows /\ Collections!Idle \in Calling
      /\ call \in [Collections!Callers -> Calling] /\ cache \in [Collections!Owners -> Copied]
      /\ file \in Stored /\ tmp \in Tempered
      /\ \A b \in Collections!Callers :
            Collections!Process(b) \in Collections!Owners /\ Collections!CacheOf(b) \in Copied
  BY CollectionTypes DEF CollectionsInv
<1>c. CallInv /\ StampInv /\ (~raced => AloneInv /\ TmpInv /\ ChangeInv /\ CacheInv /\ FileInv)
  BY DEF CollectionsInv, AloneInv
<1>d. /\ call[a] \in Calling /\ Collections!CacheOf(a).rows \in Collections!Rows
      /\ call[a].kind \in OfCall => call[a].id \in Ids
  BY <1>b, <1>c DEF Copied, CallInv
<1>e. r \in Collections!Rows
  <2>1. call[a].number \in 0..MaxCalls /\ call[a].rows \in Collections!Rows /\ 0 \in 0..MaxCalls
    BY <1>d DEF Calling, CollectionsAssumption
  <2>2. CASE call[a].kind \in {"upsert", "add", "update"}
    <3>1. r = [Collections!CacheOf(a).rows EXCEPT ![call[a].id] = call[a].number]
      BY <2>2 DEF Collections!Changed
    <3> QED
      BY <3>1, <2>1, <1>d DEF Collections!Rows
  <2>3. CASE call[a].kind = "delete"
    <3>1. r = [Collections!CacheOf(a).rows EXCEPT ![call[a].id] = 0]
      BY <2>3 DEF Collections!Changed
    <3> QED
      BY <3>1, <2>1, <1>d DEF Collections!Rows
  <2>4. CASE call[a].kind \notin {"upsert", "add", "update", "delete"}
    BY <2>4, <2>1 DEF Collections!Changed
  <2> QED
    BY <2>2, <2>3, <2>4
<1>f. call[a].kind # "replace" => \A i \in Ids : i # call[a].id => r[i] = Collections!CacheOf(a).rows[i]
  BY <1>a, <1>d DEF Collections!Changing, Collections!Changed, Collections!Rows
<1> HIDE DEF r
<1>g. /\ c \in Copied /\ c.rows = r /\ c.stamp = cache[o].stamp
      /\ q \in Calling /\ q.rows = r /\ q.step = "open" /\ q.kind = call[a].kind /\ q.id = call[a].id
  BY <1>b, <1>d, <1>e DEF Copied, Calling, Collections!Steps
<1> HIDE DEF c, q
<1>h. /\ call' \in [Collections!Callers -> Calling] /\ cache' \in [Collections!Owners -> Copied]
      /\ call'[a] = q /\ cache'[o] = c
      /\ \A b \in Collections!Callers \ {a} : call'[b] = call[b]
      /\ \A p \in Collections!Owners \ {o} : cache'[p] = cache[p]
  BY <1>a, <1>b, <1>g
<1>i. \A b \in Collections!Callers : call[b].step \in InLock /\ b # a => Collections!Process(b) # o
  BY <1>a, <1>c DEF CallInv, InLock
<1>j. \A b \in Collections!Callers : call[b].step \in InLock /\ b # a =>
         cache'[Collections!Process(b)] = cache[Collections!Process(b)]
  BY <1>b, <1>h, <1>i
<1> HIDE DEF o
<1>k. o = Collections!Process(a) /\ o \in Collections!Owners /\ Collections!CacheOf(a) = cache[o]
  BY <1>b DEF o, Collections!CacheOf
<1>1. Collections!TypeOK'
  <2>1. /\ held' \in [Collections!Owners -> Collections!Callers \cup {Null}]
        /\ calls' \in 0..MaxCalls /\ troubles' \in 0..MaxTroubles
        /\ landed' \in Collections!Rows /\ spoiled' \subseteq Ids /\ raced' \in BOOLEAN
    BY <1>a DEF CollectionsInv, Collections!TypeOK
  <2>2. file' \in Stored /\ tmp' \in Tempered
    BY <1>a, <1>b
  <2> QED
    BY <1>h, <2>1, <2>2, CollectionTyped, ZenonT(90)
<1>2. CallInv'
  <2> SUFFICES ASSUME NEW b \in Collections!Callers
               PROVE  /\ call'[b].step \in InLock => held'[Collections!Process(b)] = b
                      /\ call'[b].step = "load" => b \in Commands
                      /\ call'[b].kind \in OfCall => call'[b].id \in Ids
                      /\ call'[b].step \in Saving \cup {"taken"} => Collections!Changing(call'[b].kind)
                      /\ tmp'.writer = b => call'[b].step = "close"
    BY DEF CallInv
  <2>1. tmp.writer # a
    BY <1>a, <1>c DEF CallInv
  <2>2. CASE b = a
    BY <1>a, <1>c, <1>d, <1>g, <1>h, <2>1, <2>2 DEF CallInv, InLock
  <2>3. CASE b # a
    BY <1>a, <1>c, <1>h, <2>3 DEF CallInv
  <2> QED
    BY <2>2, <2>3
<1>3. StampInv'
  BY <1>a, <1>c, <1>g, <1>h DEF StampInv
<1>4. ASSUME ~raced' PROVE TmpInv'
  <2> SUFFICES ASSUME NEW b \in Collections!Callers, call'[b].step \in {"close", "move"}
               PROVE  tmp'.exists /\ tmp'.rows = cache'[Collections!Process(b)].rows
    BY DEF TmpInv, Collections!CacheOf
  <2>1. b # a /\ call[b].step \in {"close", "move"}
    BY <1>g, <1>h
  <2> QED
    BY <2>1, <1>a, <1>c, <1>4, <1>j DEF TmpInv, InLock, Saving, Collections!CacheOf
<1>5. ASSUME ~raced' PROVE ChangeInv'
  <2>1. ChangeInv /\ (call[a].kind # "replace" => Agrees(o))
    BY <1>5, <1>a, <1>c, <1>k DEF ChangeInv
  <2>2. \A b \in Collections!Callers \ {a} :
           /\ call'[b].step \in Saving =>
                 /\ call'[b].rows = cache'[Collections!Process(b)].rows
                 /\ call'[b].kind # "replace" =>
                       \A i \in Ids \ spoiled : i # call'[b].id => call'[b].rows[i] = file.rows[i]
           /\ call'[b].step \in {"stamp", "taken"} => cache'[Collections!Process(b)].rows = file.rows
           /\ call'[b].step = "change" /\ Collections!Changing(call'[b].kind) /\ call'[b].kind # "replace" =>
                 \A i \in Ids \ spoiled : cache'[Collections!Process(b)].rows[i] = file.rows[i]
    BY <2>1, <1>h, <1>j DEF ChangeInv, Agrees, InLock, Saving, Collections!CacheOf
  <2>3. call'[a].kind # "replace" =>
            \A i \in Ids \ spoiled : i # call'[a].id => call'[a].rows[i] = file.rows[i]
    BY <2>1, <1>f, <1>g, <1>h, <1>k DEF Agrees
  <2>4. call'[a].rows = cache'[Collections!Process(a)].rows /\ call'[a].step = "open"
    BY <1>g, <1>h, <1>k
  <2> QED
    BY <1>a, <2>2, <2>3, <2>4 DEF ChangeInv, Agrees, Saving, Collections!CacheOf
<1>6. ASSUME ~raced' PROVE CacheInv'
  <2> SUFFICES ASSUME NEW p \in Collections!Owners, cache'[p].stamp = file'.stamp
               PROVE  \/ \A i \in Ids \ spoiled' : cache'[p].rows[i] = file'.rows[i]
                      \/ \E b \in Collections!Callers : Collections!Process(b) = p /\ call'[b].step \in Saving
    BY DEF CacheInv, Agrees
  <2>1. CASE p = o
    BY <2>1, <1>g, <1>h, <1>k DEF Saving
  <2>2. CASE p # o
    <3>1. cache'[p] = cache[p]
      BY <2>2, <1>h
    <3>2. Agrees(p) \/ \E b \in Collections!Callers : Collections!Process(b) = p /\ call[b].step \in Saving
      BY <3>1, <1>6, <1>a, <1>c DEF CacheInv
    <3>3. \A b \in Collections!Callers : Collections!Process(b) = p => b # a
      BY <2>2, <1>k
    <3> QED
      BY <3>1, <3>2, <3>3, <1>a, <1>h DEF Agrees
  <2> QED
    BY <2>1, <2>2
<1>7. ASSUME ~raced' PROVE FileInv'
  BY <1>7, <1>a, <1>c DEF FileInv
<1> QED
  BY <1>1, <1>2, <1>3, <1>4, <1>5, <1>6, <1>7 DEF CollectionsInv, AloneInv

\* The temporary file holds the items of who writes it.
LEMMA CollectionsOpenTmpStep ==
    ASSUME CollectionsInv, CollectionsAssumption, NEW a \in Collections!Callers, Collections!OpenTmp(a)
    PROVE  CollectionsInv'
<1>1. Collections!TypeOK'
  <2>1. /\ Collections!Nothing \in Collections!Rows /\ Collections!Idle \in Calling
        /\ call \in [Collections!Callers -> Calling] /\ cache \in [Collections!Owners -> Copied]
        /\ file \in Stored /\ tmp \in Tempered
        /\ \A b \in Collections!Callers :
              Collections!Process(b) \in Collections!Owners /\ Collections!CacheOf(b) \in Copied
    BY CollectionTypes DEF CollectionsInv
  <2> DEFINE opened == [exists |-> TRUE, rows |-> Collections!CacheOf(a).rows, writer |-> a]
  <2>5. opened \in Tempered
    BY <2>1 DEF Tempered, Copied
  <2> HIDE DEF opened
  <2>2. call' \in [Collections!Callers -> Calling]
    BY <2>1 DEF Collections!OpenTmp, Collections!To, Calling, Collections!Steps
  <2>3. cache' \in [Collections!Owners -> Copied] /\ file' \in Stored /\ tmp' \in Tempered
    <3>1. tmp' = opened
      BY DEF Collections!OpenTmp, opened
    <3> QED
      BY <2>1, <2>5, <3>1 DEF Collections!OpenTmp
  <2>4. /\ held' \in [Collections!Owners -> Collections!Callers \cup {Null}]
        /\ calls' \in 0..MaxCalls /\ troubles' \in 0..MaxTroubles
        /\ landed' \in Collections!Rows /\ spoiled' \subseteq Ids /\ raced' \in BOOLEAN
    BY <2>1 DEF CollectionsInv, Collections!TypeOK, Collections!OpenTmp, Collections!Release
  <2> QED
    BY <2>1, <2>2, <2>3, <2>4, CollectionTyped, Zenon
<1>2. CallInv'
  BY DEF CollectionsInv, Collections!TypeOK, CollectionsAssumption, Collections!Callers,
    Collections!Process, Collections!Owners, Collections!OpenTmp, Collections!To,
    Collections!CacheOf, Collections!Release, CallInv, OfCall, InLock, Saving,
    Collections!Changing, Collections!Nothing, Collections!Idle
<1>3. StampInv'
  BY SMTT(90) DEF CollectionsInv, Collections!TypeOK, CollectionsAssumption, Collections!Callers,
    Collections!Process, Collections!Owners, Collections!OpenTmp, Collections!To,
    Collections!CacheOf, Collections!Release, StampInv
<1>4. ASSUME ~raced' PROVE TmpInv'
  BY SMTT(90), <1>4 DEF CollectionsInv, Collections!TypeOK, CollectionsAssumption, Collections!Callers,
    Collections!Process, Collections!Owners, Collections!OpenTmp, Collections!To,
    Collections!CacheOf, Collections!Release, CallInv, OfCall, InLock, Saving,
    Collections!Changing, Collections!Nothing, Collections!Idle, AloneInv, TmpInv, ChangeInv
<1>5. ASSUME ~raced' PROVE ChangeInv'
  BY SMTT(90), <1>5 DEF CollectionsInv, Collections!TypeOK, CollectionsAssumption, Collections!Callers,
    Collections!Process, Collections!Owners, Collections!OpenTmp, Collections!To,
    Collections!CacheOf, Collections!Release, CallInv, OfCall, InLock, Saving,
    Collections!Changing, Collections!Nothing, Collections!Idle, AloneInv, TmpInv, ChangeInv,
    CacheInv, Agrees, FileInv
<1>6. ASSUME ~raced' PROVE CacheInv'
  BY SMTT(90), <1>6 DEF CollectionsInv, Collections!TypeOK, CollectionsAssumption, Collections!Callers,
    Collections!Process, Collections!Owners, Collections!OpenTmp, Collections!To,
    Collections!CacheOf, Collections!Release, CallInv, OfCall, InLock, Saving,
    Collections!Changing, Collections!Nothing, Collections!Idle, StampInv, AloneInv, TmpInv,
    ChangeInv, CacheInv, Agrees, FileInv
<1>7. ASSUME ~raced' PROVE FileInv'
  BY <1>7 DEF CollectionsInv, Collections!TypeOK, CollectionsAssumption, Collections!Callers,
    Collections!Process, Collections!Owners, Collections!OpenTmp, Collections!To,
    Collections!CacheOf, Collections!Release, CallInv, OfCall, InLock, Saving,
    Collections!Changing, Collections!Nothing, Collections!Idle, AloneInv, TmpInv, ChangeInv, FileInv
<1> QED
  BY <1>1, <1>2, <1>3, <1>4, <1>5, <1>6, <1>7 DEF CollectionsInv, AloneInv

\* The text is complete before it is moved.
LEMMA CollectionsCloseTmpStep ==
    ASSUME CollectionsInv, CollectionsAssumption, NEW a \in Collections!Callers, Collections!CloseTmp(a)
    PROVE  CollectionsInv'
<1>1. Collections!TypeOK'
  <2>1. /\ Collections!Nothing \in Collections!Rows /\ Collections!Idle \in Calling
        /\ call \in [Collections!Callers -> Calling] /\ cache \in [Collections!Owners -> Copied]
        /\ file \in Stored /\ tmp \in Tempered
        /\ \A b \in Collections!Callers :
              Collections!Process(b) \in Collections!Owners /\ Collections!CacheOf(b) \in Copied
    BY CollectionTypes DEF CollectionsInv
  <2>2. call' \in [Collections!Callers -> Calling]
    BY <2>1 DEF Collections!CloseTmp, Collections!To, Calling, Collections!Steps
  <2>3. cache' \in [Collections!Owners -> Copied] /\ file' \in Stored /\ tmp' \in Tempered
    <3>1. tmp' \in Tempered
      BY <2>1 DEF Collections!CloseTmp, Tempered
    <3>2. file' \in Stored
      <4> DEFINE closed == [file EXCEPT !.writer = Null, !.whole = TRUE, !.stamp = @ + 1]
      <4>1. closed \in Stored
        <5> DEFINE c1 == [file EXCEPT !.writer = Null]
                   c2 == [c1 EXCEPT !.whole = TRUE]
        <5>1. c1 \in Stored
          BY <2>1 DEF Stored
        <5> HIDE DEF c1
        <5>2. c2 \in Stored
          BY <5>1 DEF Stored
        <5> HIDE DEF c2
        <5>3. [c2 EXCEPT !.stamp = @ + 1] \in Stored
          BY <5>2 DEF Stored
        <5> QED
          BY <5>3 DEF c1, c2
      <4>2. file' = file \/ file' = closed
        BY DEF Collections!CloseTmp
      <4> QED
        BY <2>1, <4>1, <4>2, ZenonT(90)
    <3> QED
      BY <2>1, <3>1, <3>2 DEF Collections!CloseTmp
  <2>4. /\ held' \in [Collections!Owners -> Collections!Callers \cup {Null}]
        /\ calls' \in 0..MaxCalls /\ troubles' \in 0..MaxTroubles
        /\ landed' \in Collections!Rows /\ spoiled' \subseteq Ids /\ raced' \in BOOLEAN
    BY SMTT(90), <2>1 DEF CollectionsInv, Collections!TypeOK, Collections!CloseTmp, Collections!Release
  <2> QED
    BY <2>1, <2>2, <2>3, <2>4, CollectionTyped, Zenon
<1>2. CallInv'
  BY DEF CollectionsInv, Collections!TypeOK, CollectionsAssumption, Collections!Callers,
    Collections!Process, Collections!Owners, Collections!CloseTmp, Collections!To,
    Collections!CacheOf, Collections!Release, CallInv, OfCall, InLock, Saving,
    Collections!Changing, Collections!Nothing, Collections!Idle
<1>3. StampInv'
  BY DEF CollectionsInv, Collections!TypeOK, CollectionsAssumption, Collections!Callers,
    Collections!Process, Collections!Owners, Collections!CloseTmp, Collections!To,
    Collections!CacheOf, Collections!Release, StampInv
<1>4. ASSUME ~raced' PROVE TmpInv'
  BY SMTT(90), <1>4 DEF CollectionsInv, Collections!TypeOK, CollectionsAssumption, Collections!Callers,
    Collections!Process, Collections!Owners, Collections!CloseTmp, Collections!To,
    Collections!CacheOf, Collections!Release, CallInv, OfCall, InLock, Saving,
    Collections!Changing, Collections!Nothing, Collections!Idle, AloneInv, TmpInv, ChangeInv
<1>5. ASSUME ~raced' PROVE ChangeInv'
  BY SMTT(90), <1>5 DEF CollectionsInv, Collections!TypeOK, CollectionsAssumption, Collections!Callers,
    Collections!Process, Collections!Owners, Collections!CloseTmp, Collections!To,
    Collections!CacheOf, Collections!Release, CallInv, OfCall, InLock, Saving,
    Collections!Changing, Collections!Nothing, Collections!Idle, AloneInv, TmpInv, ChangeInv,
    CacheInv, Agrees, FileInv
<1>6. ASSUME ~raced' PROVE CacheInv'
  BY SMTT(90), <1>6 DEF CollectionsInv, Collections!TypeOK, CollectionsAssumption, Collections!Callers,
    Collections!Process, Collections!Owners, Collections!CloseTmp, Collections!To,
    Collections!CacheOf, Collections!Release, CallInv, OfCall, InLock, Saving,
    Collections!Changing, Collections!Nothing, Collections!Idle, StampInv, AloneInv, TmpInv,
    ChangeInv, CacheInv, Agrees, FileInv
<1>7. ASSUME ~raced' PROVE FileInv'
  BY <1>7 DEF CollectionsInv, Collections!TypeOK, CollectionsAssumption, Collections!Callers,
    Collections!Process, Collections!Owners, Collections!CloseTmp, Collections!To,
    Collections!CacheOf, Collections!Release, CallInv, OfCall, InLock, Saving,
    Collections!Changing, Collections!Nothing, Collections!Idle, AloneInv, TmpInv, ChangeInv, FileInv
<1> QED
  BY <1>1, <1>2, <1>3, <1>4, <1>5, <1>6, <1>7 DEF CollectionsInv, AloneInv

\* The file takes the items that were written, in which only the changed one differs.
LEMMA CollectionsMoveTmpStep ==
    ASSUME CollectionsInv, CollectionsAssumption, NEW a \in Collections!Callers, Collections!MoveTmp(a)
    PROVE  CollectionsInv'
<1>1. Collections!TypeOK'
  <2>1. /\ Collections!Nothing \in Collections!Rows /\ Collections!Idle \in Calling
        /\ call \in [Collections!Callers -> Calling] /\ cache \in [Collections!Owners -> Copied]
        /\ file \in Stored /\ tmp \in Tempered
        /\ \A b \in Collections!Callers :
              Collections!Process(b) \in Collections!Owners /\ Collections!CacheOf(b) \in Copied
    BY CollectionTypes DEF CollectionsInv
  <2>2. call' \in [Collections!Callers -> Calling]
    BY <2>1 DEF Collections!MoveTmp, Collections!To, Calling, Collections!Steps
  <2>3. cache' \in [Collections!Owners -> Copied] /\ file' \in Stored /\ tmp' \in Tempered
    <3>1. tmp' \in Tempered
      BY <2>1 DEF Collections!MoveTmp, Tempered
    <3>2. file' \in Stored
      BY <2>1 DEF Collections!MoveTmp, Stored, Tempered
    <3> QED
      BY <2>1, <3>1, <3>2 DEF Collections!MoveTmp
  <2>5. landed' \in Collections!Rows
    <3>1. call[a].rows \in Collections!Rows /\ landed \in Collections!Rows
      BY <2>1 DEF Calling, CollectionsInv, Collections!TypeOK
    <3>2. \/ landed' = call[a].rows
          \/ landed' = [landed EXCEPT ![call[a].id] = call[a].rows[call[a].id]]
      BY DEF Collections!MoveTmp, Collections!Delta
    <3>3. call[a].kind # "replace" => call[a].id \in Ids
      BY DEF CollectionsInv, CallInv, Collections!MoveTmp, Saving, Collections!Changing, OfCall
    <3>4. landed' = call[a].rows \/ call[a].id \in Ids
      BY <3>3 DEF Collections!MoveTmp, Collections!Delta
    <3> QED
      BY <3>1, <3>2, <3>4 DEF Collections!Rows
  <2>4. /\ held' \in [Collections!Owners -> Collections!Callers \cup {Null}]
        /\ calls' \in 0..MaxCalls /\ troubles' \in 0..MaxTroubles
        /\ landed' \in Collections!Rows /\ spoiled' \subseteq Ids /\ raced' \in BOOLEAN
    BY SMTT(90), <2>1, <2>5 DEF CollectionsInv, Collections!TypeOK, Collections!MoveTmp, Collections!Release
  <2> QED
    BY <2>1, <2>2, <2>3, <2>4, CollectionTyped, Zenon
<1>2. CallInv'
  BY DEF CollectionsInv, Collections!TypeOK, CollectionsAssumption, Collections!Callers,
    Collections!Process, Collections!Owners, Collections!MoveTmp, Collections!To,
    Collections!CacheOf, Collections!Release, Collections!Delta, Collections!Exposed, CallInv,
    OfCall, InLock, Saving, Collections!Changing, Collections!Nothing, Collections!Idle
<1>3. StampInv'
  BY SMTT(90) DEF CollectionsInv, Collections!TypeOK, CollectionsAssumption, Collections!Callers,
    Collections!Process, Collections!Owners, Collections!MoveTmp, Collections!To,
    Collections!CacheOf, Collections!Release, Collections!Delta, Collections!Exposed, StampInv
<1>4. ASSUME ~raced' PROVE TmpInv'
  BY SMTT(90), <1>4 DEF CollectionsInv, Collections!TypeOK, CollectionsAssumption, Collections!Callers,
    Collections!Process, Collections!Owners, Collections!MoveTmp, Collections!To,
    Collections!CacheOf, Collections!Release, Collections!Delta, Collections!Exposed, CallInv,
    OfCall, InLock, Saving, Collections!Changing, Collections!Nothing, Collections!Idle, AloneInv, TmpInv, ChangeInv
<1>5. ASSUME ~raced' PROVE ChangeInv'
  BY SMTT(90), <1>5 DEF CollectionsInv, Collections!TypeOK, CollectionsAssumption, Collections!Callers,
    Collections!Process, Collections!Owners, Collections!MoveTmp, Collections!To,
    Collections!CacheOf, Collections!Release, Collections!Delta, Collections!Exposed, CallInv,
    OfCall, InLock, Saving, Collections!Changing, Collections!Nothing, Collections!Idle, AloneInv, TmpInv, ChangeInv, CacheInv, Agrees, FileInv
<1>6. ASSUME ~raced' PROVE CacheInv'
  BY <1>6 DEF CollectionsInv, Collections!TypeOK, CollectionsAssumption, Collections!Callers,
    Collections!Process, Collections!Owners, Collections!MoveTmp, Collections!To,
    Collections!CacheOf, Collections!Release, Collections!Delta, Collections!Exposed, CallInv,
    OfCall, InLock, Saving, Collections!Changing, Collections!Nothing, Collections!Idle, StampInv, AloneInv, TmpInv, ChangeInv, CacheInv, Agrees, FileInv
<1>7. ASSUME ~raced' PROVE FileInv'
  <2>1. /\ call[a].step = "move" /\ ~raced
        /\ file' = [rows |-> tmp.rows, stamp |-> file.stamp + 1, whole |-> tmp.writer = Null, writer |-> tmp.writer]
        /\ spoiled' = spoiled
        /\ landed' = IF call[a].kind = "replace" THEN call[a].rows
                     ELSE [landed EXCEPT ![call[a].id] = call[a].rows[call[a].id]]
    BY <1>7, Zenon DEF Collections!MoveTmp, Collections!Delta
  <2>2. tmp.rows = call[a].rows /\ FileInv
    BY <2>1 DEF CollectionsInv, AloneInv, TmpInv, ChangeInv, Saving
  <2>3. tmp.writer = Null
    <3>1. SUFFICES ASSUME tmp.writer # Null PROVE FALSE
      OBVIOUS
    <3>2. tmp.writer \in Collections!Callers
      BY <3>1, CollectionTypes DEF CollectionsInv, Tempered
    <3>3. call[tmp.writer].step = "close"
      BY <3>2 DEF CollectionsInv, CallInv
    <3>4. Collections!Process(tmp.writer) = Collections!Process(a)
      BY <1>7, <3>2, <3>3, Zenon DEF Collections!MoveTmp, Collections!Exposed
    <3> QED
      BY <2>1, <3>2, <3>3, <3>4 DEF CollectionsInv, CallInv, InLock
  <2>4. \A i \in Ids \ spoiled : tmp.rows[i] = landed'[i]
    <3>1. CASE call[a].kind = "replace"
      BY <2>1, <2>2, <3>1
    <3>2. CASE call[a].kind # "replace"
      <4>1. \A i \in Ids \ spoiled : i # call[a].id => tmp.rows[i] = landed[i]
        BY <2>1, <2>2, <3>2 DEF FileInv, CollectionsInv, AloneInv, ChangeInv, Saving
      <4>2. landed \in [Ids -> 0..MaxCalls]
        BY DEF CollectionsInv, Collections!TypeOK, Collections!Rows
      <4> QED
        BY <2>1, <2>2, <3>2, <4>1, <4>2
    <3> QED
      BY <3>1, <3>2
  <2> QED
    BY <2>1, <2>3, <2>4 DEF FileInv
<1> QED
  BY <1>1, <1>2, <1>3, <1>4, <1>5, <1>6, <1>7 DEF CollectionsInv, AloneInv

\* The stamp taken is that of the items that were written.
LEMMA CollectionsTakeStampStep ==
    ASSUME CollectionsInv, CollectionsAssumption, NEW a \in Collections!Callers, Collections!TakeStamp(a)
    PROVE  CollectionsInv'
<1>1. Collections!TypeOK'
  <2>1. /\ Collections!Nothing \in Collections!Rows /\ Collections!Idle \in Calling
        /\ call \in [Collections!Callers -> Calling] /\ cache \in [Collections!Owners -> Copied]
        /\ file \in Stored /\ tmp \in Tempered
        /\ \A b \in Collections!Callers :
              Collections!Process(b) \in Collections!Owners /\ Collections!CacheOf(b) \in Copied
    BY CollectionTypes DEF CollectionsInv
  <2> DEFINE q == [Collections!Idle EXCEPT !.kind = "list", !.step = "begin"]
  <2>5. q \in Calling
    BY <2>1 DEF Calling, Collections!Kinds, Collections!Steps
  <2> HIDE DEF q
  <2>2. call' \in [Collections!Callers -> Calling]
    <3>1. \/ call' = [call EXCEPT ![a] = q]
          \/ call' = [call EXCEPT ![a] = Collections!Idle]
      BY <2>1 DEF Collections!TakeStamp, q
    <3> QED
      BY <2>1, <2>5, <3>1
  <2>3. cache' \in [Collections!Owners -> Copied] /\ file' \in Stored /\ tmp' \in Tempered
    BY <2>1 DEF Collections!TakeStamp, Copied, Stored
  <2>4. /\ held' \in [Collections!Owners -> Collections!Callers \cup {Null}]
        /\ calls' \in 0..MaxCalls /\ troubles' \in 0..MaxTroubles
        /\ landed' \in Collections!Rows /\ spoiled' \subseteq Ids /\ raced' \in BOOLEAN
    BY <2>1 DEF CollectionsInv, Collections!TypeOK, Collections!TakeStamp, Collections!Release
  <2> QED
    BY <2>1, <2>2, <2>3, <2>4, CollectionTyped, Zenon
<1>2. CallInv'
  BY DEF CollectionsInv, Collections!TypeOK, CollectionsAssumption, Collections!Callers,
    Collections!Process, Collections!Owners, Collections!TakeStamp, Collections!To,
    Collections!CacheOf, Collections!Release, CallInv, OfCall, InLock, Saving,
    Collections!Changing, Collections!Nothing, Collections!Idle
<1>3. StampInv'
  BY DEF CollectionsInv, Collections!TypeOK, CollectionsAssumption, Collections!Callers,
    Collections!Process, Collections!Owners, Collections!TakeStamp, Collections!To,
    Collections!CacheOf, Collections!Release, StampInv
<1>4. ASSUME ~raced' PROVE TmpInv'
  BY SMTT(90), <1>4 DEF CollectionsInv, Collections!TypeOK, CollectionsAssumption, Collections!Callers,
    Collections!Process, Collections!Owners, Collections!TakeStamp, Collections!To,
    Collections!CacheOf, Collections!Release, CallInv, OfCall, InLock, Saving,
    Collections!Changing, Collections!Nothing, Collections!Idle, AloneInv, TmpInv, ChangeInv
<1>5. ASSUME ~raced' PROVE ChangeInv'
  BY SMTT(90), <1>5 DEF CollectionsInv, Collections!TypeOK, CollectionsAssumption, Collections!Callers,
    Collections!Process, Collections!Owners, Collections!TakeStamp, Collections!To,
    Collections!CacheOf, Collections!Release, CallInv, OfCall, InLock, Saving,
    Collections!Changing, Collections!Nothing, Collections!Idle, AloneInv, TmpInv, ChangeInv,
    CacheInv, Agrees, FileInv
<1>6. ASSUME ~raced' PROVE CacheInv'
  BY SMTT(90), <1>6 DEF CollectionsInv, Collections!TypeOK, CollectionsAssumption, Collections!Callers,
    Collections!Process, Collections!Owners, Collections!TakeStamp, Collections!To,
    Collections!CacheOf, Collections!Release, CallInv, OfCall, InLock, Saving,
    Collections!Changing, Collections!Nothing, Collections!Idle, StampInv, AloneInv, TmpInv,
    ChangeInv, CacheInv, Agrees, FileInv
<1>7. ASSUME ~raced' PROVE FileInv'
  BY <1>7 DEF CollectionsInv, Collections!TypeOK, CollectionsAssumption, Collections!Callers,
    Collections!Process, Collections!Owners, Collections!TakeStamp, Collections!To,
    Collections!CacheOf, Collections!Release, CallInv, OfCall, InLock, Saving,
    Collections!Changing, Collections!Nothing, Collections!Idle, AloneInv, TmpInv, ChangeInv, FileInv
<1> QED
  BY <1>1, <1>2, <1>3, <1>4, <1>5, <1>6, <1>7 DEF CollectionsInv, AloneInv

\* A change that failed after it was made in memory is remembered.
LEMMA CollectionsThrowsStep ==
    ASSUME CollectionsInv, CollectionsAssumption, NEW a \in Collections!Callers, Collections!Throws(a)
    PROVE  CollectionsInv'
<1>1. Collections!TypeOK'
  BY DEF CollectionsInv, Collections!TypeOK, CollectionsAssumption, Collections!Callers,
    Collections!Process, Collections!Owners, Collections!Throws, Collections!To,
    Collections!CacheOf, Collections!Release, Collections!Rows, Collections!Kinds,
    Collections!Steps, OfCall, Collections!Nothing, Collections!Idle, CallInv, InLock, Saving,
    Collections!Changing
<1>2. CallInv'
  BY DEF CollectionsInv, Collections!TypeOK, CollectionsAssumption, Collections!Callers,
    Collections!Process, Collections!Owners, Collections!Throws, Collections!To,
    Collections!CacheOf, Collections!Release, CallInv, OfCall, InLock, Saving,
    Collections!Changing, Collections!Nothing, Collections!Idle
<1>3. StampInv'
  BY SMTT(90) DEF CollectionsInv, Collections!TypeOK, CollectionsAssumption, Collections!Callers,
    Collections!Process, Collections!Owners, Collections!Throws, Collections!To,
    Collections!CacheOf, Collections!Release, StampInv
<1>4. ASSUME ~raced' PROVE TmpInv'
  BY SMTT(90), <1>4 DEF CollectionsInv, Collections!TypeOK, CollectionsAssumption, Collections!Callers,
    Collections!Process, Collections!Owners, Collections!Throws, Collections!To,
    Collections!CacheOf, Collections!Release, CallInv, OfCall, InLock, Saving,
    Collections!Changing, Collections!Nothing, Collections!Idle, AloneInv, TmpInv, ChangeInv
<1>5. ASSUME ~raced' PROVE ChangeInv'
  BY SMTT(90), <1>5 DEF CollectionsInv, Collections!TypeOK, CollectionsAssumption, Collections!Callers,
    Collections!Process, Collections!Owners, Collections!Throws, Collections!To,
    Collections!CacheOf, Collections!Release, CallInv, OfCall, InLock, Saving,
    Collections!Changing, Collections!Nothing, Collections!Idle, AloneInv, TmpInv, ChangeInv,
    CacheInv, Agrees, FileInv
<1>6. ASSUME ~raced' PROVE CacheInv'
  BY SMTT(90), <1>6 DEF CollectionsInv, Collections!TypeOK, CollectionsAssumption, Collections!Callers,
    Collections!Process, Collections!Owners, Collections!Throws, Collections!To,
    Collections!CacheOf, Collections!Release, CallInv, OfCall, InLock, Saving,
    Collections!Changing, Collections!Nothing, Collections!Idle, StampInv, AloneInv, TmpInv,
    ChangeInv, CacheInv, Agrees, FileInv
<1>7. ASSUME ~raced' PROVE FileInv'
  BY <1>7 DEF CollectionsInv, Collections!TypeOK, CollectionsAssumption, Collections!Callers,
    Collections!Process, Collections!Owners, Collections!Throws, Collections!To,
    Collections!CacheOf, Collections!Release, CallInv, OfCall, InLock, Saving,
    Collections!Changing, Collections!Nothing, Collections!Idle, AloneInv, TmpInv, ChangeInv, FileInv
<1> QED
  BY <1>1, <1>2, <1>3, <1>4, <1>5, <1>6, <1>7 DEF CollectionsInv, AloneInv

\* The items of the server are loaded anew; the commands go on.
LEMMA CollectionsCrashStep ==
    ASSUME CollectionsInv, CollectionsAssumption, Collections!Crash
    PROVE  CollectionsInv'
<1>1. Collections!TypeOK'
  BY SMTT(90) DEF CollectionsInv, Collections!TypeOK, CollectionsAssumption, Collections!Callers,
    Collections!Process, Collections!Owners, Collections!Crash, Collections!To,
    Collections!CacheOf, Collections!Release, Collections!Rows, Collections!Kinds,
    Collections!Steps, OfCall, Collections!Nothing, Collections!Idle, CallInv, InLock, Saving,
    Collections!Changing
<1>2. CallInv'
  BY DEF CollectionsInv, Collections!TypeOK, CollectionsAssumption, Collections!Callers,
    Collections!Process, Collections!Owners, Collections!Crash, Collections!To,
    Collections!CacheOf, Collections!Release, CallInv, OfCall, InLock, Saving,
    Collections!Changing, Collections!Nothing, Collections!Idle
<1>3. StampInv'
  BY DEF CollectionsInv, Collections!TypeOK, CollectionsAssumption, Collections!Callers,
    Collections!Process, Collections!Owners, Collections!Crash, Collections!To,
    Collections!CacheOf, Collections!Release, StampInv
<1>4. ASSUME ~raced' PROVE TmpInv'
  BY SMTT(90), <1>4 DEF CollectionsInv, Collections!TypeOK, CollectionsAssumption, Collections!Callers,
    Collections!Process, Collections!Owners, Collections!Crash, Collections!To,
    Collections!CacheOf, Collections!Release, CallInv, OfCall, InLock, Saving,
    Collections!Changing, Collections!Nothing, Collections!Idle, AloneInv, TmpInv, ChangeInv
<1>5. ASSUME ~raced' PROVE ChangeInv'
  BY <1>5 DEF CollectionsInv, Collections!TypeOK, CollectionsAssumption, Collections!Callers,
    Collections!Process, Collections!Owners, Collections!Crash, Collections!To,
    Collections!CacheOf, Collections!Release, CallInv, OfCall, InLock, Saving,
    Collections!Changing, Collections!Nothing, Collections!Idle, AloneInv, TmpInv, ChangeInv,
    CacheInv, Agrees, FileInv
<1>6. ASSUME ~raced' PROVE CacheInv'
  <2>1. /\ call' = [a \in Collections!Callers |-> IF a \in Threads THEN Collections!Idle ELSE call[a]]
        /\ cache' = [cache EXCEPT !["server"] = [rows |-> file.rows, stamp |-> file.stamp]]
        /\ UNCHANGED <<file, spoiled, raced>>
    BY DEF Collections!Crash
  <2> SUFFICES ASSUME NEW p \in Collections!Owners, cache'[p].stamp = file.stamp
               PROVE  \/ \A i \in Ids \ spoiled : cache'[p].rows[i] = file.rows[i]
                      \/ \E a \in Collections!Callers : Collections!Process(a) = p /\ call'[a].step \in Saving
    BY <2>1, Zenon DEF CacheInv, Agrees
  <2>2. cache \in [Collections!Owners -> Copied] /\ "server" \in Collections!Owners
    BY CollectionTypes DEF CollectionsInv, Collections!Owners
  <2>3. CASE p = "server"
    BY <2>1, <2>2, <2>3
  <2>4. CASE p # "server"
    <3>1. cache'[p] = cache[p]
      BY <2>1, <2>2, <2>4
    <3>2. CacheInv
      BY <1>6, <2>1 DEF CollectionsInv, AloneInv
    <3>3. \A a \in Collections!Callers : Collections!Process(a) = p => call'[a] = call[a]
      BY SMTT(90), <2>1, <2>4 DEF Collections!Process
    <3> QED
      BY <3>1, <3>2, <3>3 DEF CacheInv, Agrees
  <2> QED
    BY <2>3, <2>4
<1>7. ASSUME ~raced' PROVE FileInv'
  BY <1>7 DEF CollectionsInv, Collections!TypeOK, CollectionsAssumption, Collections!Callers,
    Collections!Process, Collections!Owners, Collections!Crash, Collections!To,
    Collections!CacheOf, Collections!Release, CallInv, OfCall, InLock, Saving,
    Collections!Changing, Collections!Nothing, Collections!Idle, AloneInv, TmpInv, ChangeInv, FileInv
<1> QED
  BY <1>1, <1>2, <1>3, <1>4, <1>5, <1>6, <1>7 DEF CollectionsInv, AloneInv

-----------------------------------------------------------------------------
(* The copies of the configuration.                                        *)

CopiesAssumption == MaxWrites \in Nat \ {0} /\ Null \notin Clients

\* The rules of the environments: a stamp tells what the file says, and what its writer and the
\* compiled rules take it for.
Says(stamp) == IF stamp = 0 THEN 1 ELSE stamp

RulesInv ==
    /\ json["environments"].says = Says(json["environments"].stamp)
    /\ "environments" \notin overlapped =>
          /\ \A c \in Clients : using[c].step = "settings" =>
                using[c].says = json["environments"].says
          /\ \/ computed["environments"].stamp \in lagging
             \/ computed["environments"].says = Says(computed["environments"].stamp)

\* The index of the keys follows its file once nobody builds it, or the file was restored and will
\* be found to bear another stamp.
Building == \E c \in Clients : using[c].step \in {"list", "index"}
Stamping == \E c \in Clients : using[c].step = "stamp"

IndexInv ==
    "keys" \notin overlapped /\ ~hidden =>
        /\ \A c \in Clients : using[c].step = "index" => using[c].says = json["keys"].says
        /\ \/ Building
           \/ computed["keys"].says = json["keys"].says
           \/ (~Stamping /\ json["keys"].stamp = 0 /\ computed["keys"].stamp # 0)
        /\ \/ Building \/ Stamping
           \/ computed["keys"].stamp = json["keys"].stamp
           \/ json["keys"].stamp = 0
        /\ json["keys"].stamp = 0 => json["keys"].says = 1

CopiesInv == Copies!TypeOK /\ RulesInv /\ IndexInv

\* The stamp is looked at, nothing else.
LEMMA CopiesFilterStep ==
    ASSUME CopiesInv, CopiesAssumption, NEW c \in Clients, Copies!Filter(c)
    PROVE  CopiesInv'
<1>1. Copies!TypeOK'
  BY DEF CopiesInv, Copies!TypeOK, Copies!Version, CopiesAssumption, Copies!Filter, Copies!Goes,
    Copies!Ends, Copies!Free, Copies!Stores
<1>2. RulesInv'
  BY DEF CopiesInv, Copies!TypeOK, Copies!Version, CopiesAssumption, RulesInv, Says, Copies!Filter,
    Copies!Goes, Copies!Ends, Copies!Free, Copies!Stores, Copies!Computing, Copies!InStep,
    Copies!GateFree
<1>3. IndexInv'
  BY DEF CopiesInv, Copies!TypeOK, Copies!Version, CopiesAssumption, IndexInv, Building, Stamping,
    Copies!Filter, Copies!Goes, Copies!Ends, Copies!Free, Copies!Stores, Copies!Computing,
    Copies!InStep, Copies!GateFree
<1> QED
  BY <1>1, <1>2, <1>3 DEF CopiesInv

\* The rules compiled under a stamp are those of the file, or the stamp is of an older file.
LEMMA CopiesCompileStep ==
    ASSUME CopiesInv, CopiesAssumption, NEW c \in Clients, Copies!Compile(c)
    PROVE  CopiesInv'
<1>1. Copies!TypeOK'
  BY DEF CopiesInv, Copies!TypeOK, Copies!Version, CopiesAssumption, Copies!Compile, Copies!Goes,
    Copies!Ends, Copies!Free, Copies!Stores
<1>2. RulesInv'
  BY DEF CopiesInv, Copies!TypeOK, Copies!Version, CopiesAssumption, RulesInv, Says,
    Copies!Compile, Copies!Goes, Copies!Ends, Copies!Free, Copies!Stores, Copies!Computing,
    Copies!InStep, Copies!GateFree
<1>3. IndexInv'
  BY DEF CopiesInv, Copies!TypeOK, Copies!Version, CopiesAssumption, IndexInv, Building, Stamping,
    Copies!Compile, Copies!Goes, Copies!Ends, Copies!Free, Copies!Stores, Copies!Computing,
    Copies!InStep, Copies!GateFree
<1> QED
  BY <1>1, <1>2, <1>3 DEF CopiesInv

\* The file is written under the lock: nobody else was saving.
LEMMA CopiesSaveSettingsStep ==
    ASSUME CopiesInv, CopiesAssumption, NEW c \in Clients, Copies!SaveSettings(c)
    PROVE  CopiesInv'
<1>1. Copies!TypeOK'
  <2> DEFINE n == [stamp |-> writes + 1, says |-> writes + 1]
  <2>1. writes \in Nat /\ writes + 1 \in 0..MaxWrites /\ 0 \in 0..MaxWrites
    BY DEF CopiesInv, Copies!TypeOK, Copies!SaveSettings, CopiesAssumption
  <2>2. n \in Copies!Version
    BY <2>1 DEF Copies!Version
  <2> HIDE DEF n
  <2>3. json' = [json EXCEPT !["environments"] = n] /\ overlapped' \subseteq Copies!Stores
    BY DEF CopiesInv, Copies!TypeOK, Copies!SaveSettings, Copies!Written, Copies!New, Copies!Stores, n
  <2>4. json' \in [Copies!Stores -> Copies!Version]
    BY <2>2, <2>3 DEF CopiesInv, Copies!TypeOK
  <2> DEFINE steps == {"free", "compile", "settings", "list", "index", "stamp"}
             q == [Copies!Free EXCEPT !.step = "settings", !.says = writes + 1]
  <2>5. q \in [step : steps, stamp : 0..MaxWrites, says : 0..MaxWrites]
    BY <2>1 DEF Copies!Free
  <2>6. using' = [using EXCEPT ![c] = q]
    BY DEF Copies!SaveSettings, Copies!New
  <2> HIDE DEF q
  <2>7. using' \in [Clients -> [step : steps, stamp : 0..MaxWrites, says : 0..MaxWrites]]
    BY <2>5, <2>6 DEF CopiesInv, Copies!TypeOK
  <2> QED
    BY <2>1, <2>3, <2>4, <2>7 DEF CopiesInv, Copies!TypeOK, Copies!SaveSettings
<1>2. RulesInv'
  BY DEF CopiesInv, Copies!TypeOK, Copies!Version, CopiesAssumption, RulesInv, Says,
    Copies!SaveSettings, Copies!Written, Copies!New, Copies!Goes, Copies!Ends, Copies!Free,
    Copies!Stores, Copies!Computing, Copies!InStep, Copies!GateFree
<1>3. IndexInv'
  BY DEF CopiesInv, Copies!TypeOK, Copies!Version, CopiesAssumption, IndexInv, Building, Stamping,
    Copies!SaveSettings, Copies!Written, Copies!New, Copies!Goes, Copies!Ends, Copies!Free,
    Copies!Stores, Copies!Computing, Copies!InStep, Copies!GateFree
<1> QED
  BY <1>1, <1>2, <1>3 DEF CopiesInv

\* The rules and the stamp are those of the file just written.
LEMMA CopiesSavedSettingsStep ==
    ASSUME CopiesInv, CopiesAssumption, NEW c \in Clients, Copies!SavedSettings(c)
    PROVE  CopiesInv'
<1>1. Copies!TypeOK'
  BY DEF CopiesInv, Copies!TypeOK, Copies!Version, CopiesAssumption, Copies!SavedSettings,
    Copies!Goes, Copies!Ends, Copies!Free, Copies!Stores
<1>2. RulesInv'
  BY DEF CopiesInv, Copies!TypeOK, Copies!Version, CopiesAssumption, RulesInv, Says,
    Copies!SavedSettings, Copies!Goes, Copies!Ends, Copies!Free, Copies!Stores, Copies!Computing,
    Copies!InStep, Copies!GateFree
<1>3. IndexInv'
  BY DEF CopiesInv, Copies!TypeOK, Copies!Version, CopiesAssumption, IndexInv, Building, Stamping,
    Copies!SavedSettings, Copies!Goes, Copies!Ends, Copies!Free, Copies!Stores, Copies!Computing,
    Copies!InStep, Copies!GateFree
<1> QED
  BY <1>1, <1>2, <1>3 DEF CopiesInv

\* The index is to be built again.
LEMMA CopiesMatchStep ==
    ASSUME CopiesInv, CopiesAssumption, NEW c \in Clients, Copies!Match(c)
    PROVE  CopiesInv'
<1>1. Copies!TypeOK'
  BY DEF CopiesInv, Copies!TypeOK, Copies!Version, CopiesAssumption, Copies!Match, Copies!Goes,
    Copies!Ends, Copies!Free, Copies!Stores
<1>2. RulesInv'
  BY DEF CopiesInv, Copies!TypeOK, Copies!Version, CopiesAssumption, RulesInv, Says, Copies!Match,
    Copies!Goes, Copies!Ends, Copies!Free, Copies!Stores, Copies!Computing, Copies!InStep,
    Copies!GateFree
<1>3. IndexInv'
  BY DEF CopiesInv, Copies!TypeOK, Copies!Version, CopiesAssumption, IndexInv, Building, Stamping,
    Copies!Match, Copies!Goes, Copies!Ends, Copies!Free, Copies!Stores, Copies!Computing,
    Copies!InStep, Copies!GateFree
<1> QED
  BY <1>1, <1>2, <1>3 DEF CopiesInv

\* The file is written before its index is built.
LEMMA CopiesChangeKeysStep ==
    ASSUME CopiesInv, CopiesAssumption, NEW c \in Clients, Copies!ChangeKeys(c)
    PROVE  CopiesInv'
<1>1. Copies!TypeOK'
  BY DEF CopiesInv, Copies!TypeOK, Copies!Version, CopiesAssumption, Copies!ChangeKeys,
    Copies!Written, Copies!New, Copies!Goes, Copies!Ends, Copies!Free, Copies!Stores
<1>2. RulesInv'
  BY DEF CopiesInv, Copies!TypeOK, Copies!Version, CopiesAssumption, RulesInv, Says,
    Copies!ChangeKeys, Copies!Written, Copies!New, Copies!Goes, Copies!Ends, Copies!Free,
    Copies!Stores, Copies!Computing, Copies!InStep, Copies!GateFree
<1>3. IndexInv'
  BY DEF CopiesInv, Copies!TypeOK, Copies!Version, CopiesAssumption, IndexInv, Building, Stamping,
    Copies!ChangeKeys, Copies!Written, Copies!New, Copies!Goes, Copies!Ends, Copies!Free,
    Copies!Stores, Copies!Computing, Copies!InStep, Copies!GateFree
<1> QED
  BY <1>1, <1>2, <1>3 DEF CopiesInv

\* Only the stamp of the file is written: the keys stay as they are.
LEMMA CopiesFlushUsageStep ==
    ASSUME CopiesInv, CopiesAssumption, NEW c \in Clients, Copies!FlushUsage(c)
    PROVE  CopiesInv'
<1>1. Copies!TypeOK'
  BY DEF CopiesInv, Copies!TypeOK, Copies!Version, CopiesAssumption, Copies!FlushUsage,
    Copies!Written, Copies!Goes, Copies!Ends, Copies!Free, Copies!Stores
<1>2. RulesInv'
  BY DEF CopiesInv, Copies!TypeOK, Copies!Version, CopiesAssumption, RulesInv, Says,
    Copies!FlushUsage, Copies!Written, Copies!Goes, Copies!Ends, Copies!Free, Copies!Stores,
    Copies!Computing, Copies!InStep, Copies!GateFree
<1>3. IndexInv'
  <2> SUFFICES ASSUME "keys" \notin overlapped', ~hidden'
               PROVE  /\ \A d \in Clients : using'[d].step = "index" => using'[d].says = json'["keys"].says
                      /\ \/ \E d \in Clients : using'[d].step \in {"list", "index"}
                         \/ computed["keys"].says = json'["keys"].says
                      /\ json'["keys"].stamp = 0 => json'["keys"].says = 1
                      /\ using'[c].step = "stamp"
    BY DEF IndexInv, Building, Stamping, Copies!FlushUsage
  <2>1. /\ "keys" \notin overlapped /\ ~hidden
        /\ json["keys"].stamp = 0 => computed["keys"].stamp = 0
    BY Zenon DEF Copies!FlushUsage, Copies!Written
  <2>2. using' = [using EXCEPT ![c] = [@ EXCEPT !.step = "stamp"]] /\ using[c].step = "free"
    BY DEF Copies!FlushUsage, Copies!Goes, Copies!Free
  <2>3. json'["keys"].says = json["keys"].says /\ (json'["keys"].stamp = json["keys"].stamp \/ json'["keys"].stamp # 0)
    BY DEF CopiesInv, Copies!TypeOK, Copies!Version, Copies!FlushUsage, Copies!Written, Copies!Stores
  <2>4. Building => \E d \in Clients : using'[d].step \in {"list", "index"}
    BY <2>2 DEF Building, CopiesInv, Copies!TypeOK
  <2>5. \A d \in Clients : using'[d].step = "index" => using[d].step = "index" /\ using'[d].says = using[d].says
    BY <2>2 DEF CopiesInv, Copies!TypeOK
  <2>6. using'[c].step = "stamp"
    BY <2>2 DEF CopiesInv, Copies!TypeOK
  <2> QED
    BY <2>1, <2>3, <2>4, <2>5, <2>6 DEF CopiesInv, IndexInv
<1> QED
  BY <1>1, <1>2, <1>3 DEF CopiesInv

\* The keys listed are those of the file.
LEMMA CopiesListStep ==
    ASSUME CopiesInv, CopiesAssumption, NEW c \in Clients, Copies!List(c)
    PROVE  CopiesInv'
<1>1. Copies!TypeOK'
  BY ZenonT(90) DEF CopiesInv, Copies!TypeOK, Copies!Version, CopiesAssumption, Copies!List, Copies!Goes,
    Copies!Ends, Copies!Free, Copies!Stores
<1>2. RulesInv'
  BY DEF CopiesInv, Copies!TypeOK, Copies!Version, CopiesAssumption, RulesInv, Says, Copies!List,
    Copies!Goes, Copies!Ends, Copies!Free, Copies!Stores, Copies!Computing, Copies!InStep,
    Copies!GateFree
<1>3. IndexInv'
  BY DEF CopiesInv, Copies!TypeOK, Copies!Version, CopiesAssumption, IndexInv, Building, Stamping,
    Copies!List, Copies!Goes, Copies!Ends, Copies!Free, Copies!Stores, Copies!Computing,
    Copies!InStep, Copies!GateFree
<1> QED
  BY <1>1, <1>2, <1>3 DEF CopiesInv

\* The index becomes that of the keys of the file.
LEMMA CopiesIndexStep ==
    ASSUME CopiesInv, CopiesAssumption, NEW c \in Clients, Copies!Index(c)
    PROVE  CopiesInv'
<1>1. Copies!TypeOK'
  BY DEF CopiesInv, Copies!TypeOK, Copies!Version, CopiesAssumption, Copies!Index, Copies!Goes,
    Copies!Ends, Copies!Free, Copies!Stores
<1>2. RulesInv'
  BY DEF CopiesInv, Copies!TypeOK, Copies!Version, CopiesAssumption, RulesInv, Says, Copies!Index,
    Copies!Goes, Copies!Ends, Copies!Free, Copies!Stores, Copies!Computing, Copies!InStep,
    Copies!GateFree
<1>3. IndexInv'
  BY DEF CopiesInv, Copies!TypeOK, Copies!Version, CopiesAssumption, IndexInv, Building, Stamping,
    Copies!Index, Copies!Goes, Copies!Ends, Copies!Free, Copies!Stores, Copies!Computing,
    Copies!InStep, Copies!GateFree
<1> QED
  BY <1>1, <1>2, <1>3 DEF CopiesInv

\* The index that is stamped is that of the file, unless somebody is building it.
LEMMA CopiesStampIndexStep ==
    ASSUME CopiesInv, CopiesAssumption, NEW c \in Clients, Copies!StampIndex(c)
    PROVE  CopiesInv'
<1>1. Copies!TypeOK'
  BY DEF CopiesInv, Copies!TypeOK, Copies!Version, CopiesAssumption, Copies!StampIndex,
    Copies!Goes, Copies!Ends, Copies!Free, Copies!Stores
<1>2. RulesInv'
  BY DEF CopiesInv, Copies!TypeOK, Copies!Version, CopiesAssumption, RulesInv, Says,
    Copies!StampIndex, Copies!Goes, Copies!Ends, Copies!Free, Copies!Stores, Copies!Computing,
    Copies!InStep, Copies!GateFree
<1>3. IndexInv'
  BY DEF CopiesInv, Copies!TypeOK, Copies!Version, CopiesAssumption, IndexInv, Building, Stamping,
    Copies!StampIndex, Copies!Goes, Copies!Ends, Copies!Free, Copies!Stores, Copies!Computing,
    Copies!InStep, Copies!GateFree
<1> QED
  BY <1>1, <1>2, <1>3 DEF CopiesInv

\* The file of the backup takes the place of the one there is.
LEMMA CopiesRestoreStep ==
    ASSUME CopiesInv, CopiesAssumption, NEW s \in Copies!Stores, Copies!Restore(s)
    PROVE  CopiesInv'
<1>1. Copies!TypeOK'
  <2> DEFINE old == [stamp |-> 0, says |-> 1]
  <2>1. writes \in Nat /\ writes + 1 \in 0..MaxWrites /\ 0 \in 0..MaxWrites /\ 1 \in 0..MaxWrites
    BY DEF CopiesInv, Copies!TypeOK, Copies!Restore, CopiesAssumption
  <2>2. old \in Copies!Version
    BY <2>1 DEF Copies!Version
  <2> HIDE DEF old
  <2>3. json' = [json EXCEPT ![s] = old] /\ overlapped' \subseteq Copies!Stores
    BY DEF CopiesInv, Copies!TypeOK, Copies!Restore, Copies!Written, old
  <2>4. json' \in [Copies!Stores -> Copies!Version]
    BY <2>2, <2>3 DEF CopiesInv, Copies!TypeOK
  <2> QED
    BY <2>1, <2>3, <2>4 DEF CopiesInv, Copies!TypeOK, Copies!Restore
<1>2. RulesInv'
  BY DEF CopiesInv, Copies!TypeOK, Copies!Version, CopiesAssumption, RulesInv, Says,
    Copies!Restore, Copies!Written, Copies!Goes, Copies!Ends, Copies!Free, Copies!Stores,
    Copies!Computing, Copies!InStep, Copies!GateFree
<1>3. IndexInv'
  BY DEF CopiesInv, Copies!TypeOK, Copies!Version, CopiesAssumption, IndexInv, Building, Stamping,
    Copies!Restore, Copies!Written, Copies!Goes, Copies!Ends, Copies!Free, Copies!Stores,
    Copies!Computing, Copies!InStep, Copies!GateFree
<1> QED
  BY <1>1, <1>2, <1>3 DEF CopiesInv

\* In every behaviour a copy agrees with the file whose stamp it carries.
LEMMA CopiesAlways ==
    ASSUME CopiesAssumption
    PROVE  Spec => [](part = "copies" => CopiesInv)
<1>1. Init => (part = "copies" => CopiesInv)
  <2> SUFFICES ASSUME Copies!Init PROVE CopiesInv
    BY DEF Init
  <2>1. Copies!TypeOK
    <3>1. 0 \in 0..MaxWrites /\ 1 \in 0..MaxWrites
      BY DEF CopiesAssumption
    <3>2. [stamp |-> 1, says |-> 1] \in Copies!Version
      BY <3>1 DEF Copies!Version
    <3>3. json \in [Copies!Stores -> Copies!Version] /\ computed = json
      BY <3>2 DEF Copies!Init
    <3>4. Copies!Free \in [step : {"free", "compile", "settings", "list", "index", "stamp"},
                          stamp : 0..MaxWrites, says : 0..MaxWrites]
      BY <3>1 DEF Copies!Free
    <3> QED
      BY <3>1, <3>3, <3>4 DEF Copies!Init, Copies!TypeOK
  <2> QED
    BY <2>1 DEF Copies!Init, Copies!Free, Copies!Stores, CopiesInv, RulesInv, IndexInv, Building, Stamping,
      Says
<1>2. (part = "copies" => CopiesInv) /\ [Next]_partVars => (part = "copies" => CopiesInv)'
  <2> SUFFICES ASSUME part = "copies" => CopiesInv, [Next]_partVars, part' = "copies"
               PROVE  CopiesInv'
    OBVIOUS
  <2>1. CASE partVars' = partVars
    <3>1. part' = part /\ copyVars' = copyVars
      BY <2>1 DEF partVars
    <3> QED
      BY <3>1 DEF copyVars, CopiesInv, RulesInv, IndexInv, Building, Stamping, Copies!TypeOK
  <2>2. CASE Next
    <3>1. part = "copies" /\ Copies!Next
      BY <2>2 DEF Next, OthersStay
    <3>2. CopiesInv
      BY <3>1
    <3> QED
      BY <3>1, <3>2, CopiesFilterStep, CopiesCompileStep, CopiesSaveSettingsStep,
        CopiesSavedSettingsStep, CopiesMatchStep, CopiesChangeKeysStep, CopiesFlushUsageStep,
        CopiesListStep, CopiesIndexStep, CopiesStampIndexStep, CopiesRestoreStep DEF Copies!Next
  <2> QED
    BY <2>1, <2>2
<1> QED
  BY <1>1, <1>2, PTL DEF Spec

\* What the invariant gives of a copy that carries the stamp of its file.
LEMMA CopiesAgree ==
    ASSUME CopiesInv
    PROVE  Copies!CopiesFollow
<1>1. Copies!EnvironmentsFollow
  BY DEF CopiesInv, RulesInv, Copies!EnvironmentsFollow, Copies!Trusted
<1>2. Copies!KeysFollow
  BY DEF CopiesInv, IndexInv, Building, Stamping, Copies!KeysFollow, Copies!Trusted, Copies!Computing,
    Copies!InStep
<1> QED
  BY <1>1, <1>2 DEF Copies!CopiesFollow

\* In every behaviour the file and its copies hold the changes that reached it.
LEMMA CollectionsAlways ==
    ASSUME CollectionsAssumption
    PROVE  Spec => [](part = "collections" => CollectionsInv)
<1>1. Init => (part = "collections" => CollectionsInv)
  <2> SUFFICES ASSUME Collections!Init PROVE CollectionsInv
    BY DEF Init
  <2>1. Collections!TypeOK
    <3>1. Collections!Nothing \in Collections!Rows
      BY DEF Collections!Nothing, Collections!Rows, CollectionsAssumption
    <3>2. Collections!Idle \in Calling
      BY <3>1 DEF Collections!Idle, Calling, Collections!Kinds, Collections!Steps, CollectionsAssumption
    <3>3. [rows |-> Collections!Nothing, stamp |-> 0] \in Copied
      BY <3>1 DEF Copied
    <3>4. file \in Stored /\ tmp \in Tempered /\ landed \in Collections!Rows
      BY <3>1 DEF Collections!Init, Stored, Tempered
    <3>5. cache \in [Collections!Owners -> Copied] /\ call \in [Collections!Callers -> Calling]
      BY <3>2, <3>3 DEF Collections!Init
    <3>6. calls \in 0..MaxCalls /\ troubles \in 0..MaxTroubles
      BY DEF Collections!Init, CollectionsAssumption
    <3>7. held \in [Collections!Owners -> Collections!Callers \cup {Null}] /\ spoiled \subseteq Ids
      BY DEF Collections!Init
    <3>8. raced \in BOOLEAN
      BY Zenon DEF Collections!Init
    <3> QED
      BY <3>4, <3>5, <3>6, <3>7, <3>8, ZenonT(90) DEF Collections!TypeOK, Calling, Copied, Stored, Tempered
  <2>2. CallInv /\ StampInv
    BY DEF Collections!Init, Collections!Idle, CallInv, StampInv, InLock, Saving, OfCall,
      CollectionsAssumption, Collections!Callers
  <2>3. AloneInv
    BY DEF Collections!Init, Collections!Idle, Collections!Nothing, AloneInv, TmpInv, ChangeInv, CacheInv,
      FileInv, Agrees, Saving, Collections!CacheOf
  <2> QED
    BY <2>1, <2>2, <2>3 DEF CollectionsInv
<1>2. (part = "collections" => CollectionsInv) /\ [Next]_partVars => (part = "collections" => CollectionsInv)'
  <2> SUFFICES ASSUME part = "collections" => CollectionsInv, [Next]_partVars, part' = "collections"
               PROVE  CollectionsInv'
    OBVIOUS
  <2>1. CASE partVars' = partVars
    <3>1. part' = part /\ collectionVars' = collectionVars
      BY <2>1 DEF partVars
    <3> QED
      BY <3>1 DEF collectionVars, CollectionsInv, CallInv, StampInv, AloneInv, TmpInv, ChangeInv, CacheInv,
        FileInv, Agrees, Collections!CacheOf, Collections!TypeOK
  <2>2. CASE Next
    <3>1. part = "collections" /\ Collections!Next
      BY <2>2 DEF Next, OthersStay
    <3>2. CollectionsInv
      BY <3>1
    <3>3. ASSUME NEW a \in Collections!Callers, Collections!Step(a) PROVE CollectionsInv'
      BY <3>2, <3>3, CollectionsLoadStep, CollectionsBeginStep, CollectionsReadTextStep,
        CollectionsReadStampStep, CollectionsAnswerStep, CollectionsMakeChangeStep, CollectionsOpenTmpStep,
        CollectionsCloseTmpStep, CollectionsMoveTmpStep, CollectionsTakeStampStep, CollectionsThrowsStep
        DEF Collections!Step
    <3>4. ASSUME NEW a \in Collections!Callers, NEW kind \in {"read", "upsert", "update", "delete", "add"},
                 NEW id \in Ids, Collections!Ask(a, kind, id)
          PROVE  CollectionsInv'
      BY <3>2, <3>4, CollectionsAskStep DEF OfCall
    <3> QED
      BY <3>1, <3>2, <3>3, <3>4, CollectionsCrashStep, ZenonT(90) DEF Collections!Next
  <2> QED
    BY <2>1, <2>2
<1> QED
  BY <1>1, <1>2, PTL DEF Spec

\* JsonCollection.cs:4-5: whatever calls, commands, I/O errors and restarts come together, no change
\* that reached the file is undone by another one, unless two processes cross or a trim crosses a
\* change.
THEOREM ChangesSurvive ==
    ASSUME CollectionsAssumption
    PROVE  Spec => []ChangesKept
<1>1. (part = "collections" => CollectionsInv) => ChangesKept
  BY DEF ChangesKept, CollectionsInv, AloneInv, FileInv, Collections!ChangesKept
<1> QED
  BY <1>1, CollectionsAlways, PTL

\* JsonCollection.cs:4-5, EnvironmentStore.cs and ApiKeyStore.cs: the file is never left half written,
\* and what is kept in memory with the stamp of a file is what that file says.
THEOREM CopiesSayTheFile ==
    ASSUME CollectionsAssumption, CopiesAssumption
    PROVE  Spec => []CopiesTrusted
<1>1. ASSUME CollectionsInv PROVE Collections!CopiesTrusted
  <2> SUFFICES ASSUME ~raced, NEW p \in Collections!Owners, cache[p].stamp = file.stamp, held[p] = Null
               PROVE  Agrees(p)
    BY <1>1 DEF Collections!CopiesTrusted, CollectionsInv, AloneInv, FileInv, Agrees
  <2>1. \A a \in Collections!Callers : Collections!Process(a) = p => call[a].step \notin Saving
    BY <1>1 DEF CollectionsInv, CallInv, InLock, Saving, CollectionsAssumption, Collections!Callers
  <2> QED
    BY <1>1, <2>1 DEF CollectionsInv, AloneInv, CacheInv
<1>2. (part = "collections" => CollectionsInv) /\ (part = "copies" => CopiesInv) => CopiesTrusted
  BY <1>1, CopiesAgree DEF CopiesTrusted
<1> QED
  BY <1>2, CollectionsAlways, CopiesAlways, PTL

-----------------------------------------------------------------------------
(* The accounts.                                                           *)

\* What the names of the constants mean.
AccountsAssumption ==
    /\ MaxAsked \in Nat /\ FirstName \in Names
    /\ Null \notin Nat /\ Null \notin Requests /\ Null \notin Accounts!User

Requested == [kind : Accounts!RequestKinds, id : Accounts!UserIds \cup {Null},
              name : Names \cup {Null}, actor : Accounts!UserIds \cup {Null},
              role : Accounts!Role \cup {Null}, disabled : BOOLEAN \cup {Null},
              method : {"ldap", "oidc", Null}, follow : BOOLEAN,
              read : Accounts!User \cup {Null}, step : {"idle", "read", "count", "write"}]

\* A request that will make an account, of the number it was given.
Making(q) == q.kind = "create" \/ (q.kind = "provision" /\ q.read = Null)

\* A number is given once: an account that is to be made has one that no account
\* bears and no other request names.
FreshAccounts ==
    /\ \A i \in Accounts!UserIds : users[i] # Null => i <= asked
    /\ \A r \in Requests :
          /\ request[r].id # Null => request[r].id \in 0 .. asked
          /\ Making(request[r]) =>
                /\ request[r].id # Null /\ users[request[r].id] = Null
                /\ \A s \in Requests : s # r => request[s].id # request[r].id

\* A request that changes an account names one, and a sign-in begins with nothing read.
Targets(q) ==
    /\ q.kind \in {"put", "delete", "reset", "create", "provision"} => q.id \in Accounts!UserIds
    /\ q.kind = "unlock" /\ q.step = "write" => q.id \in Accounts!UserIds
    /\ q.kind \in {"create", "provision"} => q.name \in Names
    /\ q.kind = "create" => q.role \in Accounts!Role
    /\ q.kind = "provision" /\ q.step = "read" => q.read = Null
    /\ q.kind = "provision" /\ q.step = "count" => q.read # Null
    /\ q.kind = "none" => q.step = "idle"

TargetInv == \A r \in Requests : Targets(request[r])

\* A sign-in that has read the accounts holds the gate.
GateInv ==
    \A r \in Requests :
        request[r].kind = "provision" /\ request[r].step \in {"count", "write"} => gate = r

Spared(id) == \E j \in Accounts!Admins : j # id

\* What a request has read is still so: the account it changes, that there is
\* another administrator, that its name is free.
SoundRequest(q) ==
    /\ q.kind \in {"put", "delete"} /\ q.step \in {"count", "write"} =>
          q.read # Null /\ q.read = users[q.id]
    /\ q.kind \in {"put", "delete"} /\ q.step = "write" /\ Accounts!Demotes(q) => Spared(q.id)
    /\ q.kind = "create" /\ q.step = "write" => Accounts!Named(q.name) = {}
    /\ q.kind = "provision" /\ q.step = "count" =>
          q.read # Null /\ q.read = users[q.id]
    /\ q.kind = "provision" /\ q.step = "write" =>
          \/ q.read = Null /\ Accounts!Named(q.name) = {}
          \/ /\ q.read # Null /\ users[q.id] # Null
             /\ q.read.name = users[q.id].name /\ q.read.disabled = users[q.id].disabled
             /\ q.read.role # "admin" /\ users[q.id].role = "admin" => Spared(q.id)

SoundInv == ~crossed => \A r \in Requests : SoundRequest(request[r])

AccountsInv ==
    /\ Accounts!TypeOK /\ FreshAccounts /\ TargetInv /\ GateInv /\ SoundInv
    /\ Accounts!AnAdminRemains /\ Accounts!OneAccountPerName

\* The instance counts as FiniteSets does.
LEMMA AccountsCardinality ==
    ASSUME NEW S PROVE Accounts!Cardinality(S) = Cardinality(S)
BY DEF Accounts!Cardinality, Cardinality

\* If the administrators are not one, there is another than any of them.
LEMMA AnotherAdmin ==
    ASSUME Accounts!Admins # {}, Accounts!Cardinality(Accounts!Admins) # 1, NEW id
    PROVE  Spared(id)
<1>1. Accounts!Cardinality({id}) = 1
  BY ZenonT(90), FS_Singleton, AccountsCardinality
<1>2. Accounts!Admins # {id}
  BY <1>1
<1> QED
  BY <1>2 DEF Spared

\* The account that a request names, if it names one, is there.
Named(q) == q.id = Null \/ (q.id \in Accounts!UserIds /\ users[q.id] # Null)

\* A request takes its next step, and no account changes.
LEMMA RequestStep ==
    ASSUME AccountsInv, NEW r \in Requests, NEW q \in Requested,
           request' = [request EXCEPT ![r] = q],
           users' = users, crossed' = crossed, gate' \in Requests \cup {Null},
           \/ asked' = asked
           \/ asked' = asked + 1 /\ asked < MaxAsked,
           \/ q.id = request[r].id /\ (Making(q) => Making(request[r]))
           \/ q.id = asked' /\ asked' = asked + 1
           \/ ~Making(q) /\ Named(q),
           \A s \in Requests : request'[s].kind = "provision"
              /\ request'[s].step \in {"count", "write"} => gate' = s,
           ~crossed => SoundRequest(q), Targets(q),
           AccountsAssumption
    PROVE  AccountsInv'
<1>1. /\ request \in [Requests -> Requested] /\ asked \in 0 .. MaxAsked
      /\ users \in [Accounts!UserIds -> Accounts!User \cup {Null}] /\ crossed \in BOOLEAN
  BY DEF AccountsInv, Accounts!TypeOK, Requested
<1>2. \A s \in Requests : request'[s] = IF s = r THEN q ELSE request[s]
  BY <1>1
<1>3. request' \in [Requests -> Requested]
  BY <1>1
<1>4. asked' \in 0 .. MaxAsked /\ asked <= asked' /\ asked' \in Nat /\ asked \in Nat
  BY SMTT(90), <1>1 DEF AccountsAssumption
<1>5. Accounts!TypeOK'
  BY <1>1, <1>3, <1>4 DEF Accounts!TypeOK, Requested
<1>6. FreshAccounts'
  <2>1. \A i \in Accounts!UserIds : users[i] # Null => i <= asked /\ i <= asked'
    BY SMTT(90), <1>4 DEF AccountsInv, FreshAccounts, Accounts!UserIds
  <2>2. \A s \in Requests : request[s].id # Null => request[s].id \in 0 .. asked
    BY DEF AccountsInv, FreshAccounts
  <2>3. q.id # Null =>
          /\ q.id \in 0 .. asked'
          /\ q.id = request[r].id \/ q.id = asked + 1 \/ users[q.id] # Null
    BY <1>4, <2>1, <2>2 DEF Named, Accounts!UserIds
  <2>4. \A s \in Requests : request'[s].id # Null => request'[s].id \in 0 .. asked'
    BY <1>2, <1>4, <2>2, <2>3
  <2>5. asked + 1 \in Accounts!UserIds => users[asked + 1] = Null
    BY <1>4, <2>1
  <2>6. Making(q) =>
          /\ q.id # Null /\ users[q.id] = Null
          /\ \A s \in Requests : s # r => request[s].id # q.id
    <3>1. CASE q.id = request[r].id /\ (Making(q) => Making(request[r]))
      BY <3>1 DEF AccountsInv, FreshAccounts
    <3>2. CASE q.id = asked' /\ asked' = asked + 1
      <4>1. q.id \in Accounts!UserIds /\ q.id # Null
        BY SMTT(90), <1>4, <3>2 DEF Accounts!UserIds, AccountsAssumption
      <4> QED
        BY <1>4, <2>2, <2>5, <3>2, <4>1
    <3> QED
      BY SMTT(90), <3>1, <3>2
  <2>7. ASSUME NEW s \in Requests, s # r, Making(request[s])
        PROVE  /\ request[s].id # Null /\ users[request[s].id] = Null
               /\ \A t \in Requests : t # s => request[t].id # request[s].id
               /\ request[s].id # q.id
    <3>1. /\ request[s].id # Null /\ users[request[s].id] = Null
          /\ \A t \in Requests : t # s => request[t].id # request[s].id
      BY <2>7 DEF AccountsInv, FreshAccounts
    <3> QED
      BY <1>4, <2>2, <2>3, <2>7, <3>1
  <2>8. ASSUME NEW s \in Requests, Making(request'[s])
        PROVE  /\ request'[s].id # Null /\ users[request'[s].id] = Null
               /\ \A t \in Requests : t # s => request'[t].id # request'[s].id
    <3>1. CASE s = r
      BY <1>2, <2>6, <2>8, <3>1
    <3>2. CASE s # r
      BY <1>2, <2>7, <2>8, <3>2
    <3> QED
      BY <3>1, <3>2
  <2>9. \A s \in Requests : Making(request[s])' <=> Making(request'[s])
    BY DEF Making
  <2> QED
    BY <2>1, <2>4, <2>8, <2>9 DEF FreshAccounts
<1>7. GateInv' /\ TargetInv'
  BY SMTT(90), <1>2 DEF GateInv, TargetInv, Targets, AccountsInv
<1>8. SoundInv'
  <2>1. ~crossed => \A s \in Requests : SoundRequest(request'[s])
    BY <1>2 DEF AccountsInv, SoundInv
  <2>2. /\ \A id : Spared(id)' <=> Spared(id)
        /\ \A name : Accounts!Named(name)' = Accounts!Named(name)
    BY DEF Spared, Accounts!Admins, Accounts!Named, Accounts!Accounts
  <2> QED
    BY SMTT(90), <2>1, <2>2 DEF SoundInv, SoundRequest, Accounts!Demotes
<1>9. Accounts!AnAdminRemains' /\ Accounts!OneAccountPerName'
  BY DEF AccountsInv, Accounts!AnAdminRemains, Accounts!OneAccountPerName, Accounts!Admins,
         Accounts!Accounts
<1> QED
  BY <1>5, <1>6, <1>7, <1>8, <1>9 DEF AccountsInv

\* Something is asked.
LEMMA AskStep ==
    ASSUME AccountsInv, AccountsAssumption, NEW r \in Requests,
           \/ Accounts!AskCreate(r) \/ Accounts!AskPut(r) \/ Accounts!AskDelete(r)
           \/ Accounts!AskReset(r) \/ Accounts!AskUnlock(r) \/ Accounts!AskProvision(r)
    PROVE  AccountsInv'
<1>1. /\ asked \in 0 .. MaxAsked /\ gate \in Requests \cup {Null}
      /\ request \in [Requests -> Requested]
  BY DEF AccountsInv, Accounts!TypeOK, Requested
<1>2. Accounts!NoRequest \in Requested
  BY DEF Accounts!NoRequest, Requested, Accounts!RequestKinds
<1>3. asked < MaxAsked => asked + 1 \in Accounts!UserIds
  BY SMTT(90), <1>1 DEF Accounts!UserIds, AccountsAssumption
<1>4. PICK q : Accounts!Ask(r, q)
  BY DEF Accounts!AskCreate, Accounts!AskPut, Accounts!AskDelete, Accounts!AskReset,
         Accounts!AskUnlock, Accounts!AskProvision
<1>5. /\ asked < MaxAsked /\ asked' = asked + 1 /\ request' = [request EXCEPT ![r] = q]
      /\ users' = users /\ gate' = gate /\ crossed' = crossed
  BY <1>4 DEF Accounts!Ask, Accounts!Set
<1>6. request'[r] = q
  BY SMTT(90), <1>1, <1>5
<1>7. /\ q \in Requested /\ Targets(q)
      /\ q.step \in {"read", "write"} /\ (q.step = "write" => q.kind = "reset")
      /\ q.id = asked + 1 \/ (~Making(q) /\ Named(q))
  <2>1. CASE Accounts!AskCreate(r)
    <3>1. PICK name \in Names, role \in Accounts!Role :
            Accounts!Ask(r, [Accounts!NoRequest EXCEPT !.kind = "create", !.id = asked + 1,
                                !.name = name, !.role = role, !.step = "read"])
      BY <2>1 DEF Accounts!AskCreate
    <3>2. q = [Accounts!NoRequest EXCEPT !.kind = "create", !.id = asked + 1,
                !.name = name, !.role = role, !.step = "read"]
      BY <1>1, <1>6, <3>1 DEF Accounts!Ask, Accounts!Set
    <3> QED
      BY <1>2, <1>3, <1>5, <3>2
      DEF Requested, Targets, Making, Named, Accounts!NoRequest, Accounts!RequestKinds
  <2>2. CASE Accounts!AskPut(r)
    <3>1. PICK actor \in Accounts!Admins, id \in Accounts!Accounts,
               role \in Accounts!Role \cup {Null}, disabled \in BOOLEAN \cup {Null} :
            Accounts!Ask(r, [Accounts!NoRequest EXCEPT !.kind = "put", !.id = id,
                                !.actor = actor, !.role = role, !.disabled = disabled,
                                !.step = "read"])
      BY <2>2 DEF Accounts!AskPut
    <3>2. q = [Accounts!NoRequest EXCEPT !.kind = "put", !.id = id,
                !.actor = actor, !.role = role, !.disabled = disabled,
                !.step = "read"]
      BY <1>1, <1>6, <3>1 DEF Accounts!Ask, Accounts!Set
    <3> QED
      BY ZenonT(90), <1>2, <1>5, <3>2
      DEF Requested, Targets, Making, Named, Accounts!NoRequest, Accounts!RequestKinds,
          Accounts!Admins, Accounts!Accounts
  <2>3. CASE Accounts!AskDelete(r)
    <3>1. PICK actor \in Accounts!Admins, id \in Accounts!Accounts :
            Accounts!Ask(r, [Accounts!NoRequest EXCEPT !.kind = "delete", !.id = id,
                                !.actor = actor, !.step = "read"])
      BY <2>3 DEF Accounts!AskDelete
    <3>2. q = [Accounts!NoRequest EXCEPT !.kind = "delete", !.id = id,
                !.actor = actor, !.step = "read"]
      BY <1>1, <1>6, <3>1 DEF Accounts!Ask, Accounts!Set
    <3> QED
      BY ZenonT(90), <1>2, <1>5, <3>2
      DEF Requested, Targets, Making, Named, Accounts!NoRequest, Accounts!RequestKinds,
          Accounts!Admins, Accounts!Accounts
  <2>4. CASE Accounts!AskReset(r)
    <3>1. PICK id \in Accounts!Accounts :
            Accounts!Ask(r, [Accounts!NoRequest EXCEPT !.kind = "reset", !.id = id,
                                !.step = "write"])
      BY <2>4 DEF Accounts!AskReset
    <3>2. q = [Accounts!NoRequest EXCEPT !.kind = "reset", !.id = id,
                !.step = "write"]
      BY <1>1, <1>6, <3>1 DEF Accounts!Ask, Accounts!Set
    <3> QED
      BY ZenonT(90), <1>2, <1>5, <3>2
      DEF Requested, Targets, Making, Named, Accounts!NoRequest, Accounts!RequestKinds,
          Accounts!Accounts
  <2>5. CASE Accounts!AskUnlock(r)
    <3>1. PICK name \in Names :
            Accounts!Ask(r, [Accounts!NoRequest EXCEPT !.kind = "unlock", !.name = name,
                                !.step = "read"])
      BY <2>5 DEF Accounts!AskUnlock
    <3>2. q = [Accounts!NoRequest EXCEPT !.kind = "unlock", !.name = name,
                !.step = "read"]
      BY SMTT(90), <1>1, <1>6, <3>1 DEF Accounts!Ask, Accounts!Set
    <3> QED
      BY <1>2, <1>5, <3>2
      DEF Requested, Targets, Making, Named, Accounts!NoRequest, Accounts!RequestKinds
  <2>6. CASE Accounts!AskProvision(r)
    <3>1. PICK name \in Names, role \in Accounts!Role \cup {Null},
               method \in {"ldap", "oidc"}, follow \in BOOLEAN :
            Accounts!Ask(r, [Accounts!NoRequest EXCEPT !.kind = "provision", !.id = asked + 1,
                                !.name = name, !.role = role, !.method = method,
                                !.follow = follow, !.step = "read"])
      BY <2>6 DEF Accounts!AskProvision
    <3>2. q = [Accounts!NoRequest EXCEPT !.kind = "provision", !.id = asked + 1,
                !.name = name, !.role = role, !.method = method,
                !.follow = follow, !.step = "read"]
      BY <1>1, <1>6, <3>1 DEF Accounts!Ask, Accounts!Set
    <3> QED
      BY ZenonT(90), <1>2, <1>3, <1>5, <3>2
      DEF Requested, Targets, Making, Named, Accounts!NoRequest, Accounts!RequestKinds
  <2> QED
    BY <2>1, <2>2, <2>3, <2>4, <2>5, <2>6
<1>8. SoundRequest(q)
  BY <1>7 DEF SoundRequest
<1>9. \A s \in Requests : request'[s].kind = "provision"
        /\ request'[s].step \in {"count", "write"} => gate' = s
  BY SMTT(90), <1>1, <1>5, <1>7 DEF AccountsInv, GateInv
<1> QED
  BY <1>1, <1>5, <1>7, <1>8, <1>9, RequestStep

\* A request that ends is forgotten.
LEMMA NoRequestFacts ==
    /\ Accounts!NoRequest \in Requested
    /\ ~Making(Accounts!NoRequest) /\ Named(Accounts!NoRequest)
    /\ SoundRequest(Accounts!NoRequest) /\ Targets(Accounts!NoRequest)
    /\ Accounts!NoRequest.kind = "none"
BY DEF Targets, Named, Accounts!NoRequest, Requested, Accounts!RequestKinds, Making, SoundRequest

\* A request of an administrator reads the accounts, and may end there.
LEMMA ReadingStep ==
    ASSUME AccountsInv, AccountsAssumption, NEW r \in Requests,
           \/ Accounts!ReadForCreate(r) \/ Accounts!ReadTarget(r)
           \/ Accounts!CountAdmins(r) \/ Accounts!ReadForUnlock(r)
    PROVE  AccountsInv'
<1>1. /\ gate \in Requests \cup {Null} /\ request \in [Requests -> Requested]
      /\ request[r] \in Requested /\ GateInv
      /\ users \in [Accounts!UserIds -> Accounts!User \cup {Null}]
  BY SMTT(90) DEF AccountsInv, Accounts!TypeOK, Requested
<1>2. /\ users' = users /\ gate' = gate /\ asked' = asked /\ crossed' = crossed
      /\ request[r].kind \in {"create", "put", "delete", "unlock"}
  BY DEF Accounts!ReadForCreate, Accounts!ReadTarget, Accounts!CountAdmins,
         Accounts!ReadForUnlock
<1>3. ASSUME NEW q \in Requested, request' = [request EXCEPT ![r] = q],
             q.kind \in {"none", request[r].kind}, Targets(q),
             q.id = request[r].id \/ (~Making(q) /\ Named(q)),
             ~crossed => SoundRequest(q)
      PROVE  AccountsInv'
  <2>1. Making(q) => Making(request[r])
    BY <1>2, <1>3 DEF Making
  <2>2. \A s \in Requests : request'[s].kind = "provision"
          /\ request'[s].step \in {"count", "write"} => gate' = s
    BY <1>1, <1>2, <1>3 DEF GateInv
  <2> QED
    BY <1>1, <1>2, <1>3, <2>1, <2>2, RequestStep
<1>4. CASE Accounts!Ends(r)
  BY <1>3, <1>4, NoRequestFacts DEF Accounts!Ends, Accounts!Set
<1>5. CASE Accounts!ReadForCreate(r) /\ ~Accounts!Ends(r)
  <2> DEFINE q == [request[r] EXCEPT !.step = "write"]
  <2>1. request' = [request EXCEPT ![r] = q] /\ Accounts!Named(request[r].name) = {}
        /\ request[r].kind = "create"
    BY <1>5 DEF Accounts!ReadForCreate, Accounts!Set
  <2>2. /\ q \in Requested /\ q.kind = "create" /\ q.id = request[r].id
        /\ q.name = request[r].name /\ q.role = request[r].role
    BY SMTT(90), <1>1, <2>1 DEF Requested
  <2>3. SoundRequest(q) /\ Targets(q)
    BY <2>1, <2>2 DEF SoundRequest, Targets, AccountsInv, TargetInv
  <2> HIDE DEF q
  <2> QED
    BY <1>3, <2>1, <2>2, <2>3
<1>6. CASE Accounts!ReadTarget(r) /\ ~Accounts!Ends(r)
  <2> DEFINE target == users[request[r].id]
             q == [request[r] EXCEPT !.read = target, !.step = "count"]
  <2>1. request' = [request EXCEPT ![r] = q] /\ target # Null
        /\ request[r].kind \in {"put", "delete"}
    BY <1>6 DEF Accounts!ReadTarget, Accounts!Set
  <2>2. \/ request[r].id \in Accounts!UserIds /\ target \in Accounts!User
        \/ request[r].id \notin Accounts!UserIds
    BY <1>1, <2>1
  <2>3. request[r].id \in Accounts!UserIds
    BY <2>1 DEF AccountsInv, TargetInv, Targets
  <2>4. q \in Requested /\ q.kind = request[r].kind /\ q.id = request[r].id
        /\ q.read = target /\ q.step = "count"
    BY <1>1, <2>2, <2>3 DEF Requested
  <2>5. SoundRequest(q) /\ Targets(q)
    BY <2>1, <2>3, <2>4 DEF SoundRequest, Targets
  <2> HIDE DEF q
  <2> QED
    BY <1>3, <2>1, <2>4, <2>5
<1>7. CASE Accounts!CountAdmins(r) /\ ~Accounts!Ends(r)
  <2> DEFINE q == [request[r] EXCEPT !.step = "write"]
  <2>1. /\ request[r].kind \in {"put", "delete"} /\ request[r].step = "count"
        /\ ~(Accounts!Demotes(request[r]) /\ Accounts!Cardinality(Accounts!Admins) = 1)
        /\ Accounts!Set(r, q)
    BY <1>7 DEF Accounts!CountAdmins
  <2>0. request' = [request EXCEPT ![r] = q]
    BY <2>1 DEF Accounts!Set
  <2>2. q \in Requested /\ q.kind = request[r].kind /\ q.id = request[r].id
        /\ q.read = request[r].read /\ q.role = request[r].role
        /\ q.disabled = request[r].disabled /\ q.step = "write"
    BY <1>1 DEF Requested
  <2> HIDE DEF q
  <2>3. Accounts!Demotes(q) <=> Accounts!Demotes(request[r])
    BY <2>2 DEF Accounts!Demotes
  <2>4. ~crossed => SoundRequest(q)
    <3> SUFFICES ASSUME ~crossed PROVE SoundRequest(q)
      OBVIOUS
    <3>1. SoundRequest(request[r]) /\ Accounts!Admins # {}
      BY DEF AccountsInv, SoundInv, Accounts!AnAdminRemains
    <3>2. Accounts!Demotes(q) => Spared(q.id)
      BY <2>1, <2>3, <3>1, AnotherAdmin
    <3> QED
      BY <2>1, <2>2, <3>1, <3>2 DEF SoundRequest
  <2>5. Targets(q)
    BY <2>1, <2>2 DEF Targets, AccountsInv, TargetInv
  <2> QED
    BY <1>3, <2>0, <2>1, <2>2, <2>4, <2>5
<1>8. CASE Accounts!ReadForUnlock(r) /\ ~Accounts!Ends(r)
  <2>1. PICK id \in Accounts!Named(request[r].name) :
          request' = [request EXCEPT ![r] = [request[r] EXCEPT !.id = id, !.step = "write"]]
    BY <1>8 DEF Accounts!ReadForUnlock, Accounts!Set
  <2> DEFINE q == [request[r] EXCEPT !.id = id, !.step = "write"]
  <2>2. request[r].kind = "unlock" /\ id \in Accounts!UserIds /\ users[id] # Null
    BY <1>8 DEF Accounts!ReadForUnlock, Accounts!Named, Accounts!Accounts
  <2>3. q \in Requested /\ q.kind = "unlock" /\ q.id = id
    BY <1>1, <2>2 DEF Requested
  <2> HIDE DEF q
  <2>4. SoundRequest(q) /\ ~Making(q) /\ Named(q) /\ Targets(q)
    BY <2>2, <2>3 DEF SoundRequest, Making, Named, Targets
  <2> QED
    BY <1>3, <2>1, <2>2, <2>3, <2>4 DEF q
<1> QED
  BY <1>4, <1>5, <1>6, <1>7, <1>8

\* A sign-in reads the accounts under the gate, and decides.
LEMMA ProvisionStep ==
    ASSUME AccountsInv, AccountsAssumption, NEW r \in Requests,
           Accounts!ReadForProvision(r) \/ Accounts!Decide(r)
    PROVE  AccountsInv'
<1>1. /\ gate \in Requests \cup {Null} /\ request \in [Requests -> Requested]
      /\ request[r] \in Requested /\ GateInv /\ Targets(request[r])
      /\ users \in [Accounts!UserIds -> Accounts!User \cup {Null}]
  BY DEF AccountsInv, Accounts!TypeOK, Requested, TargetInv
<1>2. /\ users' = users /\ asked' = asked /\ crossed' = crossed
      /\ request[r].kind = "provision" /\ request[r].id \in Accounts!UserIds
  BY <1>1 DEF Accounts!ReadForProvision, Accounts!Decide, Targets
<1>3. \A s \in Requests : s # r =>
        ~(request[s].kind = "provision" /\ request[s].step \in {"count", "write"})
  BY <1>1 DEF Accounts!ReadForProvision, Accounts!Decide, GateInv, AccountsAssumption
<1>4. CASE Accounts!ReadForProvision(r)
  <2>1. request[r].read = Null /\ gate' = r
    BY <1>1, <1>4 DEF Accounts!ReadForProvision, Targets
  <2>2. CASE Accounts!Named(request[r].name) = {}
    <3> DEFINE q == [request[r] EXCEPT !.step = "write"]
    <3>1. request' = [request EXCEPT ![r] = q]
      BY <1>4, <2>2 DEF Accounts!ReadForProvision, Accounts!Set
    <3>2. /\ q \in Requested /\ q.kind = "provision" /\ q.id = request[r].id /\ q.read = Null
          /\ q.step = "write" /\ q.name = request[r].name
      BY <1>1, <1>2, <2>1 DEF Requested
    <3> HIDE DEF q
    <3>3. SoundRequest(q) /\ Targets(q) /\ Making(request[r])
      BY <1>1, <1>2, <2>1, <2>2, <3>2 DEF SoundRequest, Targets, Making
    <3>4. \A s \in Requests : request'[s].kind = "provision"
            /\ request'[s].step \in {"count", "write"} => gate' = s
      BY <1>1, <1>3, <2>1, <3>1
    <3> QED
      BY <1>2, <2>1, <3>1, <3>2, <3>3, <3>4, RequestStep
  <2>3. CASE Accounts!Named(request[r].name) # {}
    <3>1. PICK id \in Accounts!Named(request[r].name) :
            request' = [request EXCEPT ![r] =
                          [request[r] EXCEPT !.id = id, !.read = users[id], !.step = "count"]]
      BY <1>4, <2>3 DEF Accounts!ReadForProvision, Accounts!Set
    <3> DEFINE q == [request[r] EXCEPT !.id = id, !.read = users[id], !.step = "count"]
    <3>2. id \in Accounts!UserIds /\ users[id] # Null
      BY DEF Accounts!Named, Accounts!Accounts
    <3>3. users[id] \in Accounts!User
      BY <1>1, <3>2
    <3>4. /\ q \in Requested /\ q.kind = "provision" /\ q.id = id /\ q.read = users[id]
          /\ q.step = "count" /\ q.name = request[r].name
      BY <1>1, <1>2, <3>2, <3>3 DEF Requested
    <3> HIDE DEF q
    <3>5. SoundRequest(q) /\ Targets(q) /\ ~Making(q) /\ Named(q)
      BY <1>1, <1>2, <3>2, <3>4 DEF SoundRequest, Targets, Making, Named
    <3>6. \A s \in Requests : request'[s].kind = "provision"
            /\ request'[s].step \in {"count", "write"} => gate' = s
      BY <1>1, <1>3, <2>1, <3>1
    <3> QED
      BY <1>2, <2>1, <3>1, <3>4, <3>5, <3>6, RequestStep DEF q
  <2> QED
    BY SMTT(90), <2>2, <2>3
<1>5. CASE Accounts!Decide(r) /\ Accounts!Refused(request[r])
  <2>1. request' = [request EXCEPT ![r] = Accounts!NoRequest] /\ gate' = Null
    BY <1>5 DEF Accounts!Decide, Accounts!Ends, Accounts!Set
  <2>2. \A s \in Requests : request'[s].kind = "provision"
          /\ request'[s].step \in {"count", "write"} => gate' = s
    BY <1>1, <1>3, <2>1, NoRequestFacts
  <2> QED
    BY <1>2, <2>1, <2>2, NoRequestFacts, RequestStep
<1>6. CASE Accounts!Decide(r) /\ ~Accounts!Refused(request[r])
  <2> DEFINE role == IF request[r].read.role = "admin" /\ Accounts!GivenRole(request[r]) # "admin"
                        /\ Accounts!Cardinality(Accounts!Admins) <= 1
                       THEN "admin" ELSE Accounts!GivenRole(request[r])
             q == [request[r] EXCEPT !.read.role = role, !.step = "write"]
  <2>1. request' = [request EXCEPT ![r] = q] /\ gate' = gate /\ request[r].step = "count"
    BY <1>6 DEF Accounts!Decide, Accounts!Set
  <2>2. \A s \in Requests : request'[s].kind = "provision"
          /\ request'[s].step \in {"count", "write"} => gate' = s
    BY <1>1, <1>2, <1>3, <2>1 DEF GateInv
  <2>3. role = "admin" \/ role = Accounts!GivenRole(request[r])
    OBVIOUS
  <2>4. role # "admin" /\ request[r].read.role = "admin" =>
          ~(Accounts!Cardinality(Accounts!Admins) <= 1)
    OBVIOUS
  <2> HIDE DEF role
  <2>5. CASE request[r].read = Null
    BY <1>1, <1>2, <2>1, <2>5 DEF Targets
  <2>6. CASE request[r].read # Null
    <3>1. request[r].read \in Accounts!User
      BY <1>1, <2>6 DEF Requested
    <3>2. role \in Accounts!Role
      BY <1>1, <2>3, <3>1 DEF Accounts!GivenRole, Requested, Accounts!Role, Accounts!User
    <3> DEFINE u == [request[r].read EXCEPT !.role = role]
    <3>3. u \in Accounts!User /\ u.role = role /\ u.name = request[r].read.name
          /\ u.disabled = request[r].read.disabled
      BY <3>1, <3>2 DEF Accounts!User
    <3>4. /\ q \in Requested /\ q.kind = "provision" /\ q.id = request[r].id /\ q.read = u
          /\ q.step = "write" /\ q.name = request[r].name
      BY <1>1, <1>2, <3>3 DEF Requested
    <3> HIDE DEF q, u
    <3>5. Targets(q) /\ ~Making(q)
      BY <1>1, <1>2, <3>3, <3>4 DEF Targets, Making, AccountsAssumption
    <3>6. ~crossed => SoundRequest(q)
      <4> SUFFICES ASSUME ~crossed PROVE SoundRequest(q)
        OBVIOUS
      <4>1. SoundRequest(request[r]) /\ Accounts!Admins # {}
        BY DEF AccountsInv, SoundInv, Accounts!AnAdminRemains
      <4>2. request[r].read = users[request[r].id]
        BY <1>2, <2>1, <4>1 DEF SoundRequest
      <4>3. role # "admin" /\ users[q.id].role = "admin" => Spared(q.id)
        <5>1. ~(Accounts!Cardinality(Accounts!Admins) <= 1)
                => Accounts!Cardinality(Accounts!Admins) # 1
          OBVIOUS
        <5> QED
          BY <2>4, <3>4, <4>1, <4>2, <5>1, AnotherAdmin
      <4> QED
        BY <2>6, <3>3, <3>4, <4>2, <4>3 DEF SoundRequest, AccountsAssumption
    <3> QED
      BY <1>2, <2>1, <2>2, <3>4, <3>5, <3>6, <1>1, RequestStep
  <2> QED
    BY <2>5, <2>6
<1> QED
  BY <1>4, <1>5, <1>6

\* Both writes: account i becomes v, and the request ends.
AccountWritten(r, v) ==
    /\ users' = [users EXCEPT ![request[r].id] = v]
    /\ crossed' = (crossed \/ Accounts!Crosses(r))
    /\ request' = [request EXCEPT ![r] = Accounts!NoRequest]
    /\ asked' = asked

\* What Write puts in the place of an account.
Replacement(q) ==
    IF q.kind = "create"
      THEN [name |-> q.name, role |-> q.role, disabled |-> FALSE, source |-> "local"]
    ELSE IF users[q.id] = Null THEN Null ELSE Accounts!Changed(users[q.id], q)

\* What a sign-in puts in the place of an account.
Provisioned(q) ==
    IF q.read # Null THEN q.read
    ELSE [name |-> q.name, role |-> IF q.role = Null THEN "viewer" ELSE q.role,
          disabled |-> FALSE, source |-> "directory"]

\* A write is that of an account of its type; it brings none back to life.
LEMMA WriteFacts ==
    ASSUME AccountsInv, AccountsAssumption, NEW r \in Requests,
           Accounts!Write(r) \/ Accounts!WriteProvisioned(r)
    PROVE  /\ request[r].id \in Accounts!UserIds /\ request[r].step = "write"
           /\ \/ /\ request[r].kind \in {"create", "put", "delete", "reset", "unlock"}
                 /\ AccountWritten(r, Replacement(request[r])) /\ gate' = gate
              \/ /\ request[r].kind = "provision"
                 /\ AccountWritten(r, Provisioned(request[r])) /\ gate' = Null
<1>1. /\ request[r] \in Requested /\ Targets(request[r])
      /\ users \in [Accounts!UserIds -> Accounts!User \cup {Null}]
  BY DEF AccountsInv, Accounts!TypeOK, Requested, TargetInv
<1>2. CASE Accounts!Write(r)
  <2>1. request[r].kind \in {"create", "put", "delete", "reset", "unlock"}
        /\ request[r].step = "write"
    BY <1>1, <1>2 DEF Accounts!Write, Requested, Accounts!RequestKinds, Targets
  <2>2. request[r].id \in Accounts!UserIds
    BY <1>1, <2>1 DEF Targets
  <2>3. AccountWritten(r, Replacement(request[r])) /\ gate' = gate
    BY <1>1, <1>2, <2>2
    DEF Accounts!Write, Accounts!Ends, Accounts!Set, AccountWritten, Replacement
  <2> QED
    BY <2>1, <2>2, <2>3
<1>3. CASE Accounts!WriteProvisioned(r)
  <2>1. request[r].kind = "provision" /\ request[r].step = "write"
        /\ request[r].id \in Accounts!UserIds
    BY <1>1, <1>3 DEF Accounts!WriteProvisioned, Targets
  <2>2. AccountWritten(r, Provisioned(request[r])) /\ gate' = Null
    BY <1>1, <1>3, <2>1
    DEF Accounts!WriteProvisioned, Accounts!Ends, Accounts!Set, AccountWritten, Provisioned
  <2> QED
    BY <2>1, <2>2
<1> QED
  BY <1>2, <1>3

\* An account written has the shape of one, and stays absent if it was.
LEMMA WrittenType ==
    ASSUME AccountsInv, AccountsAssumption, NEW r \in Requests, NEW v,
           request[r].id \in Accounts!UserIds, request[r].step = "write",
           \/ /\ request[r].kind \in {"create", "put", "delete", "reset", "unlock"}
              /\ v = Replacement(request[r])
           \/ request[r].kind = "provision" /\ v = Provisioned(request[r])
    PROVE  v \in Accounts!User \cup {Null}
<1>1. /\ request[r] \in Requested
      /\ users[request[r].id] \in Accounts!User \cup {Null}
  BY DEF AccountsInv, Accounts!TypeOK, Requested
<1> DEFINE q == request[r]
           u == users[request[r].id]
<1>2. Targets(q)
  BY DEF AccountsInv, TargetInv
<1>3. CASE q.kind = "create"
  <2>1. v = [name |-> q.name, role |-> q.role, disabled |-> FALSE, source |-> "local"]
    BY <1>3 DEF Replacement
  <2>2. q.name \in Names /\ q.role \in Accounts!Role
    BY <1>2, <1>3 DEF Targets
  <2> HIDE DEF q
  <2> QED
    BY <2>1, <2>2 DEF Accounts!User
<1>4. CASE q.kind = "provision"
  <2>1. CASE q.read # Null
    BY <1>1, <1>4, <2>1 DEF Provisioned, Requested
  <2>2. CASE q.read = Null
    <3> DEFINE role == IF q.role = Null THEN "viewer" ELSE q.role
    <3>1. v = [name |-> q.name, role |-> role, disabled |-> FALSE, source |-> "directory"]
      BY <1>4, <2>2 DEF Provisioned
    <3>2. q.name \in Names /\ role \in Accounts!Role
      BY <1>1, <1>2, <1>4 DEF Targets, Requested, Accounts!Role
    <3> HIDE DEF q, role
    <3> QED
      BY <3>1, <3>2 DEF Accounts!User
  <2> QED
    BY <2>1, <2>2
<1>5. CASE q.kind \in {"put", "delete", "reset", "unlock"}
  <2>1. CASE u = Null
    BY <1>5, <2>1 DEF Replacement
  <2>2. CASE u # Null
    <3>1. u \in Accounts!User /\ v = Accounts!Changed(u, q)
      BY <1>1, <1>5, <2>2 DEF Replacement
    <3>2. q.role \in Accounts!Role \cup {Null} /\ q.disabled \in BOOLEAN \cup {Null}
      BY <1>1 DEF Requested
    <3> HIDE DEF u, q
    <3>3. CASE q.kind = "put"
      <4> DEFINE role == IF q.role = Null THEN u.role ELSE q.role
                 off  == IF q.disabled = Null THEN u.disabled ELSE q.disabled
      <4>1. role \in Accounts!Role /\ off \in BOOLEAN
        BY <3>1, <3>2 DEF Accounts!User
      <4>2. v = [u EXCEPT !.role = role, !.disabled = off]
        BY <3>1, <3>3 DEF Accounts!Changed
      <4> HIDE DEF role, off
      <4> QED
        BY <3>1, <4>1, <4>2 DEF Accounts!User
    <3>4. CASE q.kind \in {"reset", "unlock"}
      BY <3>1, <3>4 DEF Accounts!Changed, Accounts!User
    <3>5. CASE q.kind = "delete"
      BY <3>1, <3>5 DEF Accounts!Changed
    <3> QED
      BY <1>5, <3>3, <3>4, <3>5
  <2> QED
    BY <2>1, <2>2
<1> QED
  BY <1>3, <1>4, <1>5

\* What a sound write does to its account: a name that was free or the one it had,
\* and an administrator is left.
LEMMA WrittenSound ==
    ASSUME AccountsInv, AccountsAssumption, NEW r \in Requests, NEW v, ~crossed,
           request[r].id \in Accounts!UserIds, request[r].step = "write",
           \/ /\ request[r].kind \in {"create", "put", "delete", "reset", "unlock"}
              /\ v = Replacement(request[r])
           \/ request[r].kind = "provision" /\ v = Provisioned(request[r])
    PROVE  /\ v # Null =>
                \/ users[request[r].id] # Null /\ v.name = users[request[r].id].name
                \/ Accounts!Named(v.name) = {}
           /\ \/ Spared(request[r].id)
              \/ request[r].id \notin Accounts!Admins
              \/ v # Null /\ v.role = "admin" /\ ~v.disabled
<1>1. /\ request[r] \in Requested /\ SoundRequest(request[r])
      /\ users[request[r].id] \in Accounts!User \cup {Null}
  BY DEF AccountsInv, Accounts!TypeOK, Requested, SoundInv
<1> DEFINE q == request[r]
           u == users[request[r].id]
<1>2. CASE q.kind = "create"
  <2>1. u = Null
    BY <1>2 DEF AccountsInv, FreshAccounts, Making
  <2>2. v.name = q.name /\ Accounts!Named(q.name) = {}
    BY <1>1, <1>2 DEF Replacement, SoundRequest
  <2>3. request[r].id \notin Accounts!Admins
    BY <2>1 DEF Accounts!Admins, Accounts!Accounts
  <2> QED
    BY <2>2, <2>3
<1>3. CASE q.kind = "provision"
  <2>1. CASE q.read = Null
    <3>1. u = Null
      BY <1>3, <2>1 DEF AccountsInv, FreshAccounts, Making
    <3>2. v.name = q.name /\ Accounts!Named(q.name) = {}
      BY <1>1, <1>3, <2>1 DEF Provisioned, SoundRequest
    <3>3. request[r].id \notin Accounts!Admins
      BY <3>1 DEF Accounts!Admins, Accounts!Accounts
    <3> QED
      BY <3>2, <3>3
  <2>2. CASE q.read # Null
    <3>1. v = q.read /\ q.read \in Accounts!User
      BY <1>1, <1>3, <2>2 DEF Provisioned, Requested
    <3>2. /\ u # Null /\ v.name = u.name /\ v.disabled = u.disabled
          /\ v.role # "admin" /\ u.role = "admin" => Spared(q.id)
      BY <1>1, <1>3, <2>2, <3>1 DEF SoundRequest
    <3>3. request[r].id \in Accounts!Admins => u.role = "admin" /\ ~u.disabled
      BY DEF Accounts!Admins
    <3> QED
      BY <2>2, <3>1, <3>2, <3>3
  <2> QED
    BY <2>1, <2>2
<1>4. CASE q.kind \in {"put", "delete", "reset", "unlock"} /\ u = Null
  <2>1. v = Null /\ request[r].id \notin Accounts!Admins
    BY <1>4 DEF Replacement, Accounts!Admins, Accounts!Accounts
  <2> QED
    BY <2>1
<1>5. CASE q.kind \in {"reset", "unlock"} /\ u # Null
  <2>1. u \in Accounts!User /\ v = Accounts!Changed(u, q)
    BY <1>1, <1>5 DEF Replacement
  <2>2. request[r].id \in Accounts!Admins => u.role = "admin" /\ ~u.disabled
    BY DEF Accounts!Admins
  <2> HIDE DEF u, q
  <2>3. /\ v \in Accounts!User /\ v.name = u.name /\ v.role = u.role
        /\ v.disabled = u.disabled \/ ~v.disabled
    BY <1>5, <2>1 DEF Accounts!Changed, Accounts!User
  <2> QED
    BY <1>5, <2>1, <2>2, <2>3, AccountsAssumption DEF AccountsAssumption, u, q
<1>6. CASE q.kind \in {"put", "delete"} /\ u # Null
  <2>1. /\ u \in Accounts!User /\ v = Accounts!Changed(u, q) /\ q.read = u
        /\ Accounts!Demotes(q) => Spared(q.id)
    BY <1>1, <1>6 DEF Replacement, SoundRequest
  <2>2. request[r].id \in Accounts!Admins => u.role = "admin" /\ ~u.disabled
    BY DEF Accounts!Admins
  <2>3. q.role \in Accounts!Role \cup {Null} /\ q.disabled \in BOOLEAN \cup {Null}
    BY <1>1 DEF Requested
  <2> HIDE DEF u, q
  <2>4. CASE q.kind = "delete"
    <3>1. v = Null /\ (u.role = "admin" => Accounts!Demotes(q))
      BY <2>1, <2>4 DEF Accounts!Changed, Accounts!Demotes
    <3> QED
      BY <2>1, <2>2, <3>1 DEF q
  <2>5. CASE q.kind = "put"
    <3> DEFINE role == IF q.role = Null THEN u.role ELSE q.role
               off  == IF q.disabled = Null THEN u.disabled ELSE q.disabled
    <3>1. v = [u EXCEPT !.role = role, !.disabled = off]
      BY <2>1, <2>5 DEF Accounts!Changed
    <3>2. role \in Accounts!Role /\ off \in BOOLEAN
      BY <2>1, <2>3 DEF Accounts!User
    <3>3. u.role = "admin" /\ ~u.disabled /\ ~Accounts!Demotes(q) => role = "admin" /\ ~off
      BY <2>1, <2>3 DEF Accounts!Demotes, Accounts!Role
    <3> HIDE DEF role, off
    <3>4. /\ v \in Accounts!User /\ v.name = u.name /\ v.role = role /\ v.disabled = off
      BY <2>1, <3>1, <3>2 DEF Accounts!User
    <3> QED
      BY <1>6, <2>1, <2>2, <3>3, <3>4 DEF u, q, AccountsAssumption
  <2> QED
    BY <1>6, <2>4, <2>5
<1> QED
  BY <1>1, <1>2, <1>3, <1>4, <1>5, <1>6 DEF Requested, Accounts!RequestKinds, AccountsInv, TargetInv, Targets

\* An account is written.
LEMMA WriteStep ==
    ASSUME AccountsInv, AccountsAssumption, NEW r \in Requests,
           Accounts!Write(r) \/ Accounts!WriteProvisioned(r)
    PROVE  AccountsInv'
<1> DEFINE id == request[r].id
<1>1. /\ users \in [Accounts!UserIds -> Accounts!User \cup {Null}]
      /\ request \in [Requests -> Requested] /\ gate \in Requests \cup {Null}
      /\ asked \in 0 .. MaxAsked /\ crossed \in BOOLEAN
      /\ FreshAccounts /\ TargetInv /\ GateInv
  BY DEF AccountsInv, Accounts!TypeOK, Requested
<1>2. PICK v :
        /\ AccountWritten(r, v)
        /\ \/ /\ request[r].kind \in {"create", "put", "delete", "reset", "unlock"}
              /\ v = Replacement(request[r]) /\ gate' = gate
           \/ request[r].kind = "provision" /\ v = Provisioned(request[r]) /\ gate' = Null
  BY WriteFacts
<1>3. id \in Accounts!UserIds /\ request[r].step = "write"
  BY WriteFacts
<1>4. v \in Accounts!User \cup {Null}
  BY <1>2, <1>3, WrittenType
<1>5. /\ users' = [users EXCEPT ![id] = v] /\ asked' = asked
      /\ request' = [request EXCEPT ![r] = Accounts!NoRequest]
      /\ crossed' = (crossed \/ Accounts!Crosses(r))
  BY <1>2 DEF AccountWritten
<1>6. /\ \A i \in Accounts!UserIds : users'[i] = IF i = id THEN v ELSE users[i]
      /\ \A s \in Requests : request'[s] = IF s = r THEN Accounts!NoRequest ELSE request[s]
  BY <1>1, <1>3, <1>5
<1> HIDE DEF id
<1>7. Accounts!TypeOK'
  <2>1. crossed' \in BOOLEAN /\ gate' \in Requests \cup {Null}
    BY <1>1, <1>2, <1>5
  <2>2. /\ users' \in [Accounts!UserIds -> Accounts!User \cup {Null}]
        /\ request' \in [Requests -> Requested]
    BY <1>1, <1>3, <1>4, <1>5, NoRequestFacts
  <2> QED
    BY <1>1, <1>5, <2>1, <2>2 DEF Accounts!TypeOK, Requested
<1>8. FreshAccounts'
  <2>1. id # Null /\ id <= asked
    BY <1>1, <1>3 DEF FreshAccounts, id, AccountsAssumption, Accounts!UserIds
  <2>2. \A i \in Accounts!UserIds : users'[i] # Null => i <= asked
    BY <1>1, <1>6, <2>1 DEF FreshAccounts
  <2>3. Accounts!NoRequest.id = Null
    BY DEF Accounts!NoRequest
  <2>4. ASSUME NEW s \in Requests
        PROVE  /\ request'[s].id # Null => request'[s].id \in 0 .. asked
               /\ Making(request'[s]) =>
                    /\ request'[s].id # Null /\ users'[request'[s].id] = Null
                    /\ \A t \in Requests : t # s => request'[t].id # request'[s].id
    <3>1. CASE s = r
      BY <1>6, <2>3, <3>1, NoRequestFacts
    <3>2. CASE s # r
      <4>1. request'[s] = request[s]
        BY <1>6, <3>2
      <4>2. request[s].id # Null => request[s].id \in 0 .. asked
        BY <1>1 DEF FreshAccounts
      <4>3. Making(request[s]) =>
              /\ request[s].id # Null /\ users[request[s].id] = Null
              /\ \A t \in Requests : t # s => request[t].id # request[s].id
        BY <1>1 DEF FreshAccounts
      <4>4. 0 .. asked \subseteq Accounts!UserIds
        BY <1>1 DEF Accounts!UserIds, AccountsAssumption
      <4>5. Making(request[s]) => users'[request[s].id] = Null
        BY <1>6, <3>2, <4>2, <4>3, <4>4 DEF id
      <4>6. Making(request[s]) => \A t \in Requests : t # s => request'[t].id # request[s].id
        BY <1>6, <2>3, <4>3
      <4> QED
        BY <4>1, <4>2, <4>3, <4>5, <4>6
    <3> QED
      BY <3>1, <3>2
  <2>5. \A s \in Requests : Making(request[s])' <=> Making(request'[s])
    BY DEF Making
  <2> QED
    BY <1>5, <2>2, <2>4, <2>5 DEF FreshAccounts
<1>9. TargetInv'
  <2>1. \A s \in Requests : Targets(request'[s])
    BY <1>1, <1>6, NoRequestFacts DEF TargetInv
  <2> QED
    BY <2>1 DEF TargetInv, Targets
<1>10. GateInv'
  <2>1. \A s \in Requests : request'[s].kind = "provision"
          /\ request'[s].step \in {"count", "write"} => s # r /\ gate = s
    BY <1>1, <1>6, NoRequestFacts DEF GateInv
  <2>2. request[r].kind = "provision" => gate = r
    BY <1>1, <1>3 DEF GateInv
  <2> QED
    BY <1>2, <2>1, <2>2 DEF GateInv
<1>11. SoundInv'
  <2> SUFFICES ASSUME ~crossed' PROVE \A s \in Requests : SoundRequest(request[s])'
    BY DEF SoundInv
  <2>1. ~Accounts!Crosses(r)
    BY <1>5
  <2>2. ASSUME NEW s \in Requests, request'[s].step \in {"count", "write"}
        PROVE  request'[s].kind = "reset"
    <3>1. s # r
      BY <1>6, <2>2 DEF Accounts!NoRequest
    <3>2. request'[s] = request[s]
      BY <1>6, <3>1
    <3>3. request[s].kind = "reset"
            \/ (request[s].kind = "provision" /\ request[r].kind = "provision")
      BY <2>1, <2>2, <3>1, <3>2 DEF Accounts!Crosses
    <3>4. ~(request[s].kind = "provision" /\ request[r].kind = "provision")
      BY <1>1, <1>3, <2>2, <3>1, <3>2 DEF GateInv
    <3> QED
      BY <3>2, <3>3, <3>4
  <2> QED
    BY <2>2 DEF SoundRequest
<1>12. Accounts!AnAdminRemains'
  <2> SUFFICES ASSUME ~crossed, ~crossed' PROVE Accounts!Admins' # {}
    BY <1>5 DEF Accounts!AnAdminRemains
  <2>1. \/ Spared(id)
        \/ id \notin Accounts!Admins
        \/ v # Null /\ v.role = "admin" /\ ~v.disabled
    BY <1>2, <1>3, WrittenSound DEF id
  <2>2. \A j \in Accounts!Admins : j # id => j \in Accounts!Admins'
    BY <1>6 DEF Accounts!Admins, Accounts!Accounts
  <2>3. v # Null /\ v.role = "admin" /\ ~v.disabled => id \in Accounts!Admins'
    BY <1>3, <1>6 DEF Accounts!Admins, Accounts!Accounts, id
  <2>4. Accounts!Admins # {}
    BY DEF AccountsInv, Accounts!AnAdminRemains
  <2> QED
    BY <2>1, <2>2, <2>3, <2>4 DEF Spared
<1>13. Accounts!OneAccountPerName'
  <2> SUFFICES ASSUME ~crossed, ~crossed',
                      NEW i \in Accounts!UserIds, NEW j \in Accounts!UserIds,
                      users'[i] # Null, users'[j] # Null, users'[i].name = users'[j].name
               PROVE  i = j
    BY <1>5 DEF Accounts!OneAccountPerName, Accounts!Accounts
  <2>1. v # Null => \/ users[id] # Null /\ v.name = users[id].name
                    \/ Accounts!Named(v.name) = {}
    BY <1>2, <1>3, WrittenSound DEF id
  <2>2. \A k, l \in Accounts!UserIds :
          users[k] # Null /\ users[l] # Null /\ users[k].name = users[l].name => k = l
    BY DEF AccountsInv, Accounts!OneAccountPerName, Accounts!Accounts
  <2>3. Accounts!Named(v.name) = {} =>
          \A k \in Accounts!UserIds : users[k] # Null => users[k].name # v.name
    BY DEF Accounts!Named, Accounts!Accounts
  <2> QED
    BY <1>3, <1>6, <2>1, <2>2, <2>3 DEF id
<1> QED
  BY <1>7, <1>8, <1>9, <1>10, <1>11, <1>12, <1>13 DEF AccountsInv

\* The first start makes one administrator.
LEMMA AccountsBegin ==
    ASSUME Accounts!Init, AccountsAssumption
    PROVE  AccountsInv
<1>1. /\ \A r \in Requests : request[r] = Accounts!NoRequest
      /\ 0 \in Accounts!UserIds /\ asked = 0 /\ 0 \in 0 .. MaxAsked
      /\ \A i \in Accounts!UserIds : users[i] =
           IF i = 0 THEN [name |-> FirstName, role |-> "admin", disabled |-> FALSE,
                          source |-> "local"] ELSE Null
  BY DEF Accounts!Init, Accounts!UserIds, AccountsAssumption
<1>2. [name |-> FirstName, role |-> "admin", disabled |-> FALSE, source |-> "local"]
        \in Accounts!User
  BY DEF Accounts!User, Accounts!Role, AccountsAssumption
<1>3. Accounts!TypeOK
  <2>1. users \in [Accounts!UserIds -> Accounts!User \cup {Null}]
    <3>1. \A i \in Accounts!UserIds : users[i] \in Accounts!User \cup {Null}
      BY <1>1, <1>2
    <3> QED
      BY <3>1 DEF Accounts!Init
  <2>2. request \in [Requests -> Requested]
    BY NoRequestFacts DEF Accounts!Init
  <2> QED
    BY <1>1, <2>1, <2>2 DEF Accounts!Init, Accounts!TypeOK, Requested
<1>4. Accounts!NoRequest.id = Null /\ Accounts!NoRequest.step = "idle"
  BY DEF Accounts!NoRequest
<1>5. FreshAccounts
  BY <1>1, <1>4, NoRequestFacts DEF FreshAccounts, Accounts!UserIds, AccountsAssumption
<1>6. TargetInv /\ GateInv /\ SoundInv
  BY <1>1, <1>4, NoRequestFacts DEF TargetInv, GateInv, SoundInv
<1>7. Accounts!AnAdminRemains
  <2>1. 0 \in Accounts!Admins
    BY <1>1, <1>2 DEF Accounts!Admins, Accounts!Accounts, AccountsAssumption
  <2> QED
    BY <2>1 DEF Accounts!AnAdminRemains
<1>8. Accounts!OneAccountPerName
  BY <1>1 DEF Accounts!OneAccountPerName, Accounts!Accounts
<1> QED
  BY <1>3, <1>5, <1>6, <1>7, <1>8 DEF AccountsInv

\* The invariant of the accounts, in the run of the parts.
LEMMA AccountsAlways ==
    ASSUME AccountsAssumption
    PROVE  Spec => [](part = "accounts" => AccountsInv)
<1>1. Init => (part = "accounts" => AccountsInv)
  BY AccountsBegin DEF Init
<1>2. (part = "accounts" => AccountsInv) /\ [Next]_partVars
        => (part = "accounts" => AccountsInv)'
  <2> SUFFICES ASSUME part = "accounts" => AccountsInv, [Next]_partVars,
                      part' = "accounts"
               PROVE  AccountsInv'
    OBVIOUS
  <2>1. CASE partVars' = partVars
    <3>1. part' = part /\ accountVars' = accountVars
      BY <2>1 DEF partVars
    <3> QED
      BY <3>1 DEF accountVars, AccountsInv, Accounts!TypeOK, FreshAccounts, Making, TargetInv,
        Targets, GateInv, SoundInv, SoundRequest, Spared, Accounts!AnAdminRemains,
        Accounts!OneAccountPerName, Accounts!Admins, Accounts!Accounts, Accounts!Named,
        Accounts!Demotes
  <2>2. CASE Next
    <3>1. part = "accounts" /\ Accounts!Next
      BY <2>2 DEF Next, OthersStay
    <3>2. PICK r \in Requests :
            \/ Accounts!AskCreate(r) \/ Accounts!AskPut(r) \/ Accounts!AskDelete(r)
            \/ Accounts!AskReset(r) \/ Accounts!AskUnlock(r) \/ Accounts!AskProvision(r)
            \/ Accounts!ReadForCreate(r) \/ Accounts!ReadTarget(r)
            \/ Accounts!CountAdmins(r) \/ Accounts!ReadForUnlock(r) \/ Accounts!Write(r)
            \/ Accounts!ReadForProvision(r) \/ Accounts!Decide(r)
            \/ Accounts!WriteProvisioned(r)
      BY <3>1 DEF Accounts!Next
    <3> QED
      BY SMTT(90), <3>1, <3>2, AskStep, ReadingStep, ProvisionStep, WriteStep
  <2> QED
    BY <2>1, <2>2
<1> QED
  BY <1>1, <1>2, PTL DEF Spec

\* An active administrator is left, for any number of requests and sign-ins at once
\* (AdminEndpoints.cs counts the others before it demotes one), unless one wrote
\* while another was between its count and its write.
THEOREM AdminsRemain ==
    ASSUME AccountsAssumption
    PROVE  Spec => []AnAdminRemains
<1>1. (part = "accounts" => AccountsInv) => AnAdminRemains
  BY DEF AccountsInv, AnAdminRemains
<1> QED
  BY <1>1, AccountsAlways, PTL

\* A name belongs to one account, whatever sign-ins and administrators make at once,
\* under the same condition: the gate of SsoProvisioning keeps two sign-ins apart.
THEOREM NamesAreUnique ==
    ASSUME AccountsAssumption
    PROVE  Spec => []OneAccountPerName
<1>1. (part = "accounts" => AccountsInv) => OneAccountPerName
  BY DEF AccountsInv, OneAccountPerName
<1> QED
  BY <1>1, AccountsAlways, PTL
-----------------------------------------------------------------------------
(* The tokens of a Microsoft account.                                      *)

\* A token is a number, and its absence is not.
TokensAssumption == MaxGiven \in Nat /\ MaxEdits \in Nat /\ Null \notin Nat

Connections == [app : Apps, given : MailTokens!Tokens \cup {Null},
                account : Mailboxes \cup {Null}, token : MailTokens!Tokens \cup {Null}]

\* Settings whose token, if they have one, was given for their account and application.
Holds(auth, given) ==
    auth # Null /\ auth.token # Null =>
        /\ auth.mode = "account" /\ auth.token \in DOMAIN given
        /\ given[auth.token] = [app |-> auth.app, account |-> auth.account]

\* A connection has the token that it was given, or none yet.
Granted(q, given) ==
    q # Null =>
        /\ q.given # Null =>
              q.given \in DOMAIN given /\ given[q.given] = [app |-> q.app, account |-> q.account]
        /\ q.token # Null => q.token = q.given

Edited(q, given) ==
    /\ q.step = "prepare" => Holds(q.read, given)
    /\ q.step = "save" => Holds(q.form, given)

\* A check has a token; the new one is of the same account.
Renewed(q, given) ==
    /\ Holds(q.auth, given)
    /\ q.step \in {"refresh", "save"} => q.auth # Null /\ q.auth.token # Null
    /\ q.step = "save" =>
          q.rotated \in DOMAIN given /\ given[q.rotated] = given[q.auth.token]

TokensInv ==
    /\ MailTokens!TypeOK
    /\ Holds(stored, issued)
    /\ \A f \in Flows : Granted(flow[f], issued)
    /\ \A e \in Editors : Edited(edit[e], issued)
    /\ \A c \in Checks : Renewed(renewal[c], issued)

\* The instance counts as FiniteSets does.
LEMMA TokensCardinality ==
    ASSUME NEW S PROVE MailTokens!Cardinality(S) = Cardinality(S)
BY DEF MailTokens!Cardinality, Cardinality

\* The tokens are numbered in the order in which they are given.
LEMMA GivenCounts ==
    ASSUME TokensInv, TokensAssumption
    PROVE  /\ MailTokens!Given \in 0 .. MaxGiven /\ DOMAIN issued = 1 .. MailTokens!Given
           /\ issued \in [1 .. MailTokens!Given -> [app : Apps, account : Mailboxes]]
<1>1. PICK n \in 0 .. MaxGiven : issued \in [1 .. n -> [app : Apps, account : Mailboxes]]
  BY DEF TokensInv, MailTokens!TypeOK
<1>2. DOMAIN issued = 1 .. n /\ n \in Nat
  BY <1>1 DEF TokensAssumption
<1>3. Cardinality(1 .. n) = n
  BY <1>2, FS_Interval
<1>4. MailTokens!Given = n
  BY <1>2, <1>3, TokensCardinality DEF MailTokens!Given
<1> QED
  BY <1>1, <1>2, <1>4

\* A token given is new, and those given before are what they were.
LEMMA GivesFacts ==
    ASSUME TokensInv, TokensAssumption, NEW to \in [app : Apps, account : Mailboxes],
           MailTokens!Gives(to), MailTokens!Given < MaxGiven
    PROVE  /\ MailTokens!Given + 1 \in MailTokens!Tokens
           /\ MailTokens!Given + 1 \in DOMAIN issued' /\ issued'[MailTokens!Given + 1] = to
           /\ \A t \in DOMAIN issued : t \in DOMAIN issued' /\ issued'[t] = issued[t]
           /\ \E n \in 0 .. MaxGiven : issued' \in [1 .. n -> [app : Apps, account : Mailboxes]]
<1> DEFINE n == MailTokens!Given
<1>1. /\ n \in 0 .. MaxGiven /\ DOMAIN issued = 1 .. n /\ n < MaxGiven
      /\ issued \in [1 .. n -> [app : Apps, account : Mailboxes]]
  BY GivenCounts
<1>2. issued' = [k \in 1 .. n + 1 |-> IF k <= n THEN issued[k] ELSE to]
  BY DEF MailTokens!Gives
<1> HIDE DEF n
<1>3. n + 1 \in 1 .. MaxGiven /\ n + 1 \in 1 .. n + 1 /\ ~(n + 1 <= n) /\ n + 1 \in 0 .. MaxGiven
  BY <1>1 DEF TokensAssumption
<1>4. \A k \in 1 .. n + 1 : ~(k <= n) \/ k \in 1 .. n
  BY <1>1
<1>5. issued' \in [1 .. n + 1 -> [app : Apps, account : Mailboxes]]
  BY <1>1, <1>2, <1>4
<1>6. \A t \in DOMAIN issued : t \in DOMAIN issued' /\ issued'[t] = issued[t]
  BY <1>1, <1>2
<1>7. issued'[n + 1] = to /\ n + 1 \in DOMAIN issued'
  BY <1>2, <1>3
<1> QED
  BY <1>3, <1>5, <1>6, <1>7 DEF MailTokens!Tokens, n

\* What held of tokens holds when more are given.
LEMMA MoreGiven ==
    ASSUME NEW old, NEW now, NEW q,
           \A t \in DOMAIN old : t \in DOMAIN now /\ now[t] = old[t]
    PROVE  /\ Holds(q, old) => Holds(q, now)
           /\ Granted(q, old) => Granted(q, now)
           /\ Edited(q, old) => Edited(q, now)
           /\ Renewed(q, old) => Renewed(q, now)
<1>1. \A a : Holds(a, old) => Holds(a, now)
  BY DEF Holds
<1>2. Granted(q, old) => Granted(q, now)
  BY DEF Granted
<1>3. Edited(q, old) => Edited(q, now)
  BY <1>1 DEF Edited
<1>4. Renewed(q, old) => Renewed(q, now)
  BY <1>1 DEF Renewed, Holds
<1> QED
  BY <1>1, <1>2, <1>3, <1>4

\* A step gives a token or none, and changes one connection, editor or check to one that
\* holds what it must, or the settings.
LEMMA TokensKept ==
    ASSUME TokensInv, (MailTokens!TypeOK)',
           \A t \in DOMAIN issued : t \in DOMAIN issued' /\ issued'[t] = issued[t],
           stored' = stored \/ Holds(stored', issued'),
           \A f \in Flows : flow'[f] = flow[f] \/ Granted(flow'[f], issued'),
           \A e \in Editors : edit'[e] = edit[e] \/ Edited(edit'[e], issued'),
           \A c \in Checks : renewal'[c] = renewal[c] \/ Renewed(renewal'[c], issued')
    PROVE  TokensInv'
<1>1. Holds(stored', issued')
  BY MoreGiven DEF TokensInv
<1>2. \A f \in Flows : Granted(flow'[f], issued')
  BY MoreGiven DEF TokensInv
<1>3. \A e \in Editors : Edited(edit'[e], issued')
  BY MoreGiven DEF TokensInv
<1>4. \A c \in Checks : Renewed(renewal'[c], issued')
  BY MoreGiven DEF TokensInv
<1> QED
  BY <1>1, <1>2, <1>3, <1>4 DEF TokensInv

\* The connection of an account.
LEMMA ConnectionStep ==
    ASSUME TokensInv, TokensAssumption, NEW f \in Flows,
           MailTokens!StartFlow(f) \/ MailTokens!Grant(f) \/ MailTokens!Connected(f)
    PROVE  TokensInv'
<1>1. /\ stored' = stored /\ edit' = edit /\ renewal' = renewal /\ edits' = edits
      /\ flow \in [Flows -> {Null} \cup Connections]
      /\ flow[f] \in {Null} \cup Connections /\ Granted(flow[f], issued)
  BY DEF MailTokens!StartFlow, MailTokens!Grant, MailTokens!Connected, TokensInv,
    MailTokens!TypeOK, Connections
<1>2. \E q : /\ q \in Connections /\ flow' = [flow EXCEPT ![f] = q] /\ Granted(q, issued')
             /\ \A t \in DOMAIN issued : t \in DOMAIN issued' /\ issued'[t] = issued[t]
             /\ \E n \in 0 .. MaxGiven : issued' \in [1 .. n -> [app : Apps, account : Mailboxes]]
  <2>1. CASE MailTokens!StartFlow(f)
    <3>1. PICK app \in Apps : flow' = [flow EXCEPT ![f] =
            [app |-> app, given |-> Null, account |-> Null, token |-> Null]]
      BY <2>1 DEF MailTokens!StartFlow
    <3>2. [app |-> app, given |-> Null, account |-> Null, token |-> Null] \in Connections
      BY DEF Connections
    <3>3. issued' = issued
      BY <2>1 DEF MailTokens!StartFlow
    <3> QED
      BY <3>1, <3>2, <3>3 DEF Granted, TokensInv, MailTokens!TypeOK
  <2>2. CASE MailTokens!Grant(f)
    <3> DEFINE g == MailTokens!Given + 1
    <3>1. flow[f] \in Connections /\ flow[f].given = Null /\ MailTokens!Given < MaxGiven
      BY <1>1, <2>2 DEF MailTokens!Grant
    <3>2. PICK account \in Mailboxes :
            /\ MailTokens!Gives([app |-> flow[f].app, account |-> account])
            /\ flow' = [flow EXCEPT ![f].given = g, ![f].account = account]
      BY <2>2 DEF MailTokens!Grant
    <3>3. flow[f].app \in Apps /\ flow[f].token \in MailTokens!Tokens \cup {Null}
      BY <3>1 DEF Connections
    <3>4. flow[f].token = Null
      BY <1>1, <2>2, <3>1 DEF Granted, MailTokens!Grant
    <3>5. /\ g \in MailTokens!Tokens /\ g \in DOMAIN issued'
          /\ issued'[g] = [app |-> flow[f].app, account |-> account]
          /\ \A t \in DOMAIN issued : t \in DOMAIN issued' /\ issued'[t] = issued[t]
          /\ \E n \in 0 .. MaxGiven : issued' \in [1 .. n -> [app : Apps, account : Mailboxes]]
      BY <3>1, <3>2, <3>3, GivesFacts
    <3> HIDE DEF g
    <3> DEFINE was == flow[f]
               q   == [was EXCEPT !.given = g, !.account = account]
    <3>6. flow' = [flow EXCEPT ![f] = q] /\ was \in Connections
      BY <1>1, <3>1, <3>2
    <3> HIDE DEF was
    <3>7. /\ q \in Connections /\ q.token = was.token /\ q.given = g
          /\ q.app = was.app /\ q.account = account
      BY <3>5, <3>6 DEF Connections
    <3> HIDE DEF q
    <3>8. Granted(q, issued')
      BY <3>4, <3>5, <3>7 DEF Granted, was
    <3> QED
      BY <3>5, <3>6, <3>7, <3>8
  <2>3. CASE MailTokens!Connected(f)
    <3>1. /\ flow[f] \in Connections /\ issued' = issued
          /\ flow' = [flow EXCEPT ![f].token = flow[f].given]
      BY <1>1, <2>3 DEF MailTokens!Connected
    <3> DEFINE was == flow[f]
               q   == [was EXCEPT !.token = was.given]
    <3>2. was \in Connections /\ Granted(was, issued)
      BY <1>1, <3>1
    <3>3. flow' = [flow EXCEPT ![f] = q]
      BY <1>1, <3>1
    <3> HIDE DEF was
    <3>4. /\ q \in Connections /\ q.token = was.given /\ q.given = was.given
          /\ q.app = was.app /\ q.account = was.account
      BY <3>2 DEF Connections
    <3> HIDE DEF q
    <3>5. was # Null => Granted(q, issued)
      BY <3>2, <3>4 DEF Granted
    <3>6. was # Null
      BY <2>3 DEF was, MailTokens!Connected
    <3> QED
      BY <3>1, <3>3, <3>4, <3>5, <3>6 DEF TokensInv, MailTokens!TypeOK
  <2> QED
    BY <2>1, <2>2, <2>3
<1>3. PICK q :
        /\ q \in Connections /\ flow' = [flow EXCEPT ![f] = q] /\ Granted(q, issued')
        /\ \A t \in DOMAIN issued : t \in DOMAIN issued' /\ issued'[t] = issued[t]
        /\ \E n \in 0 .. MaxGiven : issued' \in [1 .. n -> [app : Apps, account : Mailboxes]]
  BY <1>2
<1>4. /\ flow' \in [Flows -> {Null} \cup Connections]
      /\ \A g \in Flows : flow'[g] = flow[g] \/ Granted(flow'[g], issued')
  BY <1>1, <1>3
<1>5. (MailTokens!TypeOK)'
  <2>1. flow' \in [Flows -> {Null} \cup [app : Apps, given : MailTokens!Tokens \cup {Null},
                                       account : Mailboxes \cup {Null},
                                       token : MailTokens!Tokens \cup {Null}]]
    BY <1>4 DEF Connections
  <2>2. /\ \E n \in 0 .. MaxGiven : issued' \in [1 .. n -> [app : Apps, account : Mailboxes]]
        /\ MailTokens!TypeOK
    BY <1>3 DEF TokensInv
  <2> QED
    BY <1>1, <2>1, <2>2, Zenon DEF MailTokens!TypeOK
<1> QED
  BY <1>1, <1>3, <1>4, <1>5, TokensKept

\* What Prepare returns is of the account that it names.
LEMMA PreparedHolds ==
    ASSUME TokensInv, TokensAssumption, NEW form \in MailTokens!Forms,
           NEW existing \in MailTokens!Settings \cup {Null}, Holds(existing, issued)
    PROVE  /\ MailTokens!Prepared(form, existing) \in MailTokens!Settings
           /\ Holds(MailTokens!Prepared(form, existing), issued)
<1>1. form.mode \in {"account", "app"} /\ form.app \in Apps /\ form.connection \in Flows \cup {Null}
  BY DEF MailTokens!Forms
<1> DEFINE with(t, a) == [mode |-> form.mode, app |-> form.app, token |-> t, account |-> a]
           connected  == IF form.connection = Null THEN Null ELSE flow[form.connection]
<1>2. connected # Null => connected \in Connections /\ Granted(connected, issued)
  BY <1>1 DEF TokensInv, MailTokens!TypeOK, Connections
<1>3. \A t \in MailTokens!Tokens \cup {Null}, a \in Mailboxes \cup {Null} :
          with(t, a) \in MailTokens!Settings
  BY <1>1 DEF MailTokens!Settings
<1>4. \A t, a : t = Null \/ (/\ form.mode = "account" /\ t \in DOMAIN issued
                             /\ issued[t] = [app |-> form.app, account |-> a])
          => Holds(with(t, a), issued)
  BY DEF Holds
<1> DEFINE attached == /\ form.mode = "account"
                       /\ connected # Null /\ connected.token # Null /\ connected.app = form.app
           kept     == existing # Null /\ existing.app = form.app /\ existing.token # Null
<1>5. MailTokens!Prepared(form, existing) =
        CASE form.mode # "account" -> with(Null, Null)
          [] attached -> with(connected.token, connected.account)
          [] OTHER -> IF kept THEN with(existing.token, existing.account) ELSE with(Null, Null)
  BY DEF MailTokens!Prepared
<1>6. attached =>
        /\ connected.token \in MailTokens!Tokens \cup {Null} /\ connected.account \in Mailboxes \cup {Null}
        /\ connected.token \in DOMAIN issued
        /\ issued[connected.token] = [app |-> form.app, account |-> connected.account]
  <2> HIDE DEF connected
  <2> QED
    BY <1>2 DEF Connections, Granted
<1>7. kept =>
        /\ existing.token \in MailTokens!Tokens \cup {Null} /\ existing.account \in Mailboxes \cup {Null}
        /\ existing.token \in DOMAIN issued
        /\ issued[existing.token] = [app |-> form.app, account |-> existing.account]
  BY DEF Holds, MailTokens!Settings
<1> HIDE DEF with, connected, kept
<1>8. CASE form.mode # "account"
  BY <1>3, <1>4, <1>5, <1>8
<1>9. CASE form.mode = "account" /\ attached
  BY <1>3, <1>4, <1>5, <1>6, <1>9
<1>10. CASE form.mode = "account" /\ ~attached
  <2> HIDE DEF attached
  <2>1. MailTokens!Prepared(form, existing) =
          IF kept THEN with(existing.token, existing.account) ELSE with(Null, Null)
    BY <1>5, <1>10
  <2> QED
    BY <1>3, <1>4, <1>7, <1>10, <2>1
<1> QED
  BY <1>8, <1>9, <1>10

\* The steps of an editor, and the return to a password.
LEMMA EditStep ==
    ASSUME TokensInv, TokensAssumption,
           \/ \E e \in Editors : MailTokens!Read(e) \/ MailTokens!Prepare(e) \/ MailTokens!SaveEdit(e)
           \/ MailTokens!Forget
    PROVE  TokensInv'
<1>1. /\ flow' = flow /\ renewal' = renewal /\ issued' = issued
      /\ MailTokens!TypeOK /\ Holds(stored, issued)
  BY DEF MailTokens!Read, MailTokens!Prepare, MailTokens!SaveEdit, MailTokens!Forget, TokensInv
<1>2. stored \in MailTokens!Settings \cup {Null} /\ edits \in 0 .. MaxEdits
  BY DEF TokensInv, MailTokens!TypeOK
<1> DEFINE Edits == {MailTokens!NotEditing}
             \cup [step : {"prepare"}, form : MailTokens!Forms, read : MailTokens!Settings \cup {Null}]
             \cup [step : {"save"}, form : MailTokens!Settings, read : {Null}]
<1>3. edit \in [Editors -> Edits]
  BY DEF TokensInv, MailTokens!TypeOK
<1>4. SUFFICES /\ stored' \in MailTokens!Settings \cup {Null} /\ edits' \in 0 .. MaxEdits
               /\ edit' \in [Editors -> Edits] /\ Holds(stored', issued)
               /\ \A e \in Editors : edit'[e] = edit[e] \/ Edited(edit'[e], issued)
  <2>1. (MailTokens!TypeOK)'
    BY <1>1, <1>4, Zenon DEF MailTokens!TypeOK
  <2> QED
    BY <1>1, <1>4, <2>1, TokensKept
<1>5. \A e \in Editors : edit[e] \in Edits /\ Edited(edit[e], issued)
  BY <1>3 DEF TokensInv
<1>6. CASE MailTokens!Forget
  <2>1. stored' = Null /\ edit' = edit /\ edits < MaxEdits /\ edits' = edits + 1
    BY <1>6 DEF MailTokens!Forget
  <2>2. edits' \in 0 .. MaxEdits
    BY <1>2, <2>1 DEF TokensAssumption
  <2> QED
    BY <1>3, <2>1, <2>2 DEF Holds
<1>7. ASSUME NEW e \in Editors, MailTokens!Read(e)
      PROVE  /\ stored' \in MailTokens!Settings \cup {Null} /\ edits' \in 0 .. MaxEdits
             /\ edit' \in [Editors -> Edits] /\ Holds(stored', issued)
             /\ \A d \in Editors : edit'[d] = edit[d] \/ Edited(edit'[d], issued)
  <2>1. PICK form \in MailTokens!Forms :
          edit' = [edit EXCEPT ![e] = [step |-> "prepare", form |-> form, read |-> stored]]
    BY <1>7 DEF MailTokens!Read
  <2>2. /\ [step |-> "prepare", form |-> form, read |-> stored] \in Edits
        /\ Edited([step |-> "prepare", form |-> form, read |-> stored], issued)
    BY <1>1, <1>2 DEF Edited
  <2>3. stored' = stored /\ edits < MaxEdits /\ edits' = edits + 1
    BY <1>7 DEF MailTokens!Read
  <2>4. edits' \in 0 .. MaxEdits
    BY <1>2, <2>3 DEF TokensAssumption
  <2> HIDE DEF Edits
  <2> QED
    BY <1>1, <1>2, <1>3, <2>1, <2>2, <2>3, <2>4
<1>8. ASSUME NEW e \in Editors, MailTokens!Prepare(e)
      PROVE  /\ stored' \in MailTokens!Settings \cup {Null} /\ edits' \in 0 .. MaxEdits
             /\ edit' \in [Editors -> Edits] /\ Holds(stored', issued)
             /\ \A d \in Editors : edit'[d] = edit[d] \/ Edited(edit'[d], issued)
  <2> DEFINE was == edit[e]
             p   == MailTokens!Prepared(was.form, was.read)
             now == [step |-> "save", form |-> p, read |-> Null]
  <2>1. /\ was.step = "prepare" /\ edit' = [edit EXCEPT ![e] = now]
        /\ stored' = stored /\ edits' = edits
    BY <1>8 DEF MailTokens!Prepare
  <2>2. was \in Edits /\ Edited(was, issued)
    BY <1>5
  <2> HIDE DEF was
  <2>3. /\ was.form \in MailTokens!Forms /\ was.read \in MailTokens!Settings \cup {Null}
        /\ Holds(was.read, issued)
    BY <2>1, <2>2 DEF Edited, MailTokens!NotEditing
  <2>4. p \in MailTokens!Settings /\ Holds(p, issued)
    BY <2>3, PreparedHolds
  <2> HIDE DEF p
  <2>5. now \in Edits /\ Edited(now, issued)
    BY <2>4 DEF Edited
  <2> HIDE DEF now, Edits
  <2> QED
    BY <1>1, <1>2, <1>3, <2>1, <2>5
<1>9. ASSUME NEW e \in Editors, MailTokens!SaveEdit(e)
      PROVE  /\ stored' \in MailTokens!Settings \cup {Null} /\ edits' \in 0 .. MaxEdits
             /\ edit' \in [Editors -> Edits] /\ Holds(stored', issued)
             /\ \A d \in Editors : edit'[d] = edit[d] \/ Edited(edit'[d], issued)
  <2> DEFINE was == edit[e]
  <2>1. /\ was.step = "save" /\ edit' = [edit EXCEPT ![e] = MailTokens!NotEditing]
        /\ stored' = was.form /\ edits' = edits
    BY <1>9 DEF MailTokens!SaveEdit
  <2>2. was \in Edits /\ Edited(was, issued)
    BY <1>5
  <2> HIDE DEF was
  <2>3. was.form \in MailTokens!Settings /\ Holds(was.form, issued)
    BY <2>1, <2>2 DEF Edited, MailTokens!NotEditing
  <2>4. MailTokens!NotEditing \in Edits /\ Edited(MailTokens!NotEditing, issued)
    BY DEF Edited, MailTokens!NotEditing
  <2> HIDE DEF Edits
  <2> QED
    BY <1>2, <1>3, <2>1, <2>3, <2>4
<1> QED
  BY <1>6, <1>7, <1>8, <1>9

\* The steps of a check.
LEMMA CheckStep ==
    ASSUME TokensInv, TokensAssumption, NEW c \in Checks,
           \/ MailTokens!Check(c) \/ (\E e \in Editors : MailTokens!Test(c, e))
           \/ MailTokens!Refresh(c) \/ MailTokens!SaveRefreshToken(c)
    PROVE  TokensInv'
<1> DEFINE Renewals == {MailTokens!NoCheck}
             \cup [step : {"refresh", "save"}, auth : MailTokens!Settings,
                   rotated : MailTokens!Tokens \cup {Null}]
           Edits == {MailTokens!NotEditing}
             \cup [step : {"prepare"}, form : MailTokens!Forms, read : MailTokens!Settings \cup {Null}]
             \cup [step : {"save"}, form : MailTokens!Settings, read : {Null}]
           was == renewal[c]
<1>1. /\ flow' = flow /\ edits' = edits /\ MailTokens!TypeOK /\ Holds(stored, issued)
      /\ stored \in MailTokens!Settings \cup {Null} /\ edit \in [Editors -> Edits]
      /\ renewal \in [Checks -> Renewals] /\ was \in Renewals /\ Renewed(was, issued)
      /\ \E n \in 0 .. MaxGiven : issued \in [1 .. n -> [app : Apps, account : Mailboxes]]
  BY DEF MailTokens!Check, MailTokens!Test, MailTokens!Refresh, MailTokens!SaveRefreshToken,
    TokensInv, MailTokens!TypeOK
<1>2. MailTokens!NoCheck \in Renewals /\ Renewed(MailTokens!NoCheck, issued)
  BY DEF Renewed, Holds, MailTokens!NoCheck
<1>3. ASSUME NEW now \in Renewals, Renewed(now, issued'), renewal' = [renewal EXCEPT ![c] = now],
             stored' \in MailTokens!Settings \cup {Null}, edit' \in [Editors -> Edits],
             stored' = stored \/ Holds(stored', issued'),
             \A e \in Editors : edit'[e] = edit[e] \/ Edited(edit'[e], issued'),
             \A t \in DOMAIN issued : t \in DOMAIN issued' /\ issued'[t] = issued[t],
             \E n \in 0 .. MaxGiven : issued' \in [1 .. n -> [app : Apps, account : Mailboxes]]
      PROVE  TokensInv'
  <2> HIDE DEF Renewals
  <2>1. /\ renewal' \in [Checks -> Renewals]
        /\ \A d \in Checks : renewal'[d] = renewal[d] \/ Renewed(renewal'[d], issued')
    BY <1>1, <1>3
  <2>2. (MailTokens!TypeOK)'
    BY <1>1, <1>3, <2>1, Zenon DEF MailTokens!TypeOK, Renewals
  <2> QED
    BY <1>1, <1>3, <2>1, <2>2, TokensKept
<1>4. ASSUME NEW auth, Holds(auth, issued), auth \in MailTokens!Settings,
             MailTokens!Starts(c, auth)
      PROVE  /\ [step |-> "refresh", auth |-> auth, rotated |-> Null] \in Renewals
             /\ Renewed([step |-> "refresh", auth |-> auth, rotated |-> Null], issued)
             /\ renewal' = [renewal EXCEPT ![c] =
                   [step |-> "refresh", auth |-> auth, rotated |-> Null]]
  BY <1>4 DEF Renewed, MailTokens!Starts
<1>5. CASE MailTokens!Check(c)
  <2>1. MailTokens!Starts(c, stored) /\ stored' = stored /\ edit' = edit /\ issued' = issued
    BY <1>5 DEF MailTokens!Check
  <2>2. stored \in MailTokens!Settings
    BY <1>1, <2>1 DEF MailTokens!Starts
  <2> HIDE DEF Renewals, Edits
  <2> QED
    BY <1>1, <1>3, <1>4, <2>1, <2>2
<1>6. ASSUME NEW e \in Editors, MailTokens!Test(c, e)
      PROVE  TokensInv'
  <2> DEFINE form == edit[e].form
  <2>1. /\ edit[e].step = "save" /\ MailTokens!Starts(c, form)
        /\ edit' = [edit EXCEPT ![e] = MailTokens!NotEditing] /\ stored' = stored /\ issued' = issued
    BY <1>6 DEF MailTokens!Test
  <2>2. edit[e] \in Edits /\ Edited(edit[e], issued)
    BY <1>1 DEF TokensInv
  <2>3. form \in MailTokens!Settings /\ Holds(form, issued)
    BY <2>1, <2>2 DEF Edited, MailTokens!NotEditing
  <2>4. MailTokens!NotEditing \in Edits /\ Edited(MailTokens!NotEditing, issued)
    BY DEF Edited, MailTokens!NotEditing
  <2> HIDE DEF Renewals, Edits, form
  <2>5. /\ edit' \in [Editors -> Edits]
        /\ \A d \in Editors : edit'[d] = edit[d] \/ Edited(edit'[d], issued)
    BY <1>1, <2>1, <2>4
  <2> QED
    BY <1>1, <1>3, <1>4, <2>1, <2>3, <2>5
<1>7. CASE MailTokens!Refresh(c)
  <2>1. was.step = "refresh" /\ stored' = stored /\ edit' = edit
    BY <1>7 DEF MailTokens!Refresh
  <2>2. CASE renewal' = [renewal EXCEPT ![c] = MailTokens!NoCheck] /\ issued' = issued
    <3> HIDE DEF Renewals, Edits
    <3> QED
      BY <1>1, <1>2, <1>3, <2>1, <2>2
  <2> DEFINE g == MailTokens!Given + 1
             to == issued[was.auth.token]
             now == [was EXCEPT !.step = "save", !.rotated = g]
  <2>3. CASE /\ MailTokens!Given < MaxGiven /\ MailTokens!Gives(to)
             /\ renewal' = [renewal EXCEPT ![c].step = "save", ![c].rotated = g]
    <3>1. was.auth.token \in DOMAIN issued /\ was.auth \in MailTokens!Settings
      BY <1>1, <2>1 DEF Renewed, Holds, MailTokens!NoCheck
    <3>2. to \in [app : Apps, account : Mailboxes]
      BY <1>1, <3>1
    <3>3. /\ g \in MailTokens!Tokens /\ g \in DOMAIN issued' /\ issued'[g] = to
          /\ \A t \in DOMAIN issued : t \in DOMAIN issued' /\ issued'[t] = issued[t]
          /\ \E n \in 0 .. MaxGiven : issued' \in [1 .. n -> [app : Apps, account : Mailboxes]]
      BY <2>3, <3>2, GivesFacts
    <3>4. renewal' = [renewal EXCEPT ![c] = now]
      BY <1>1, <2>3
    <3> HIDE DEF was, g
    <3>5. now \in Renewals /\ now.step = "save" /\ now.rotated = g /\ now.auth = was.auth
      <4>1. was \in [step : {"refresh", "save"}, auth : MailTokens!Settings,
                    rotated : MailTokens!Tokens \cup {Null}]
        BY <1>1, <2>1 DEF MailTokens!NoCheck
      <4> QED
        BY <3>3, <4>1
    <3> HIDE DEF now, Renewals
    <3>6. Holds(was.auth, issued) /\ was.auth # Null /\ was.auth.token # Null
      BY <1>1, <2>1 DEF Renewed
    <3>7. Renewed(now, issued')
      BY <3>1, <3>3, <3>5, <3>6, MoreGiven DEF Renewed
    <3> HIDE DEF Edits
    <3> QED
      BY <1>1, <1>3, <2>1, <3>3, <3>4, <3>5, <3>7
  <2> QED
    BY <1>7, <2>2, <2>3 DEF MailTokens!Refresh
<1>8. CASE MailTokens!SaveRefreshToken(c)
  <2>1. /\ was.step = "save" /\ edit' = edit /\ issued' = issued
        /\ renewal' = [renewal EXCEPT ![c] = MailTokens!NoCheck]
        /\ stored' = IF stored # Null /\ stored.token = was.auth.token
                     THEN [stored EXCEPT !.token = was.rotated] ELSE stored
    BY <1>8 DEF MailTokens!SaveRefreshToken
  <2>2. /\ was.rotated \in MailTokens!Tokens \cup {Null} /\ was.auth.token # Null
        /\ was.rotated \in DOMAIN issued /\ issued[was.rotated] = issued[was.auth.token]
    BY <1>1, <2>1 DEF Renewed, MailTokens!NoCheck
  <2>3. stored' \in MailTokens!Settings \cup {Null} /\ Holds(stored', issued)
    <3>1. CASE stored # Null /\ stored.token = was.auth.token
      <4>1. stored \in MailTokens!Settings /\ stored' = [stored EXCEPT !.token = was.rotated]
        BY <1>1, <2>1, <3>1
      <4> HIDE DEF was
      <4>2. /\ stored' \in MailTokens!Settings /\ stored'.token = was.rotated
            /\ stored'.mode = stored.mode /\ stored'.app = stored.app
            /\ stored'.account = stored.account
        BY <2>2, <4>1 DEF MailTokens!Settings
      <4> QED
        BY <1>1, <2>2, <3>1, <4>2 DEF Holds
    <3>2. CASE ~(stored # Null /\ stored.token = was.auth.token)
      BY <1>1, <2>1, <3>2
    <3> QED
      BY <3>1, <3>2
  <2> HIDE DEF Renewals, Edits
  <2> QED
    BY <1>1, <1>2, <1>3, <2>1, <2>3
<1> QED
  BY <1>5, <1>6, <1>7, <1>8

\* The invariant of the tokens, in the run of the parts.
LEMMA TokensAlways ==
    ASSUME TokensAssumption
    PROVE  Spec => [](part = "tokens" => TokensInv)
<1>1. Init => (part = "tokens" => TokensInv)
  <2> SUFFICES ASSUME MailTokens!Init PROVE TokensInv
    BY DEF Init
  <2>1. MailTokens!TypeOK
    <3>1. 0 \in 0 .. MaxGiven /\ 0 \in 0 .. MaxEdits
      BY DEF TokensAssumption
    <3>2. issued \in [1 .. 0 -> [app : Apps, account : Mailboxes]]
      <4>1. issued = [n \in {} |-> Null] /\ 1 .. 0 = {}
        BY DEF MailTokens!Init
      <4> QED
        BY <4>1
    <3> QED
      BY <3>1, <3>2 DEF MailTokens!Init, MailTokens!TypeOK
  <2> QED
    BY <2>1 DEF MailTokens!Init, TokensInv, Holds, Granted, Edited, Renewed,
      MailTokens!NotEditing, MailTokens!NoCheck
<1>2. (part = "tokens" => TokensInv) /\ [Next]_partVars => (part = "tokens" => TokensInv)'
  <2> SUFFICES ASSUME part = "tokens" => TokensInv, [Next]_partVars, part' = "tokens"
               PROVE  TokensInv'
    OBVIOUS
  <2>1. CASE partVars' = partVars
    <3>1. part' = part /\ tokenVars' = tokenVars
      BY <2>1 DEF partVars
    <3> QED
      BY <3>1, Zenon DEF tokenVars, TokensInv, MailTokens!TypeOK
  <2>2. CASE Next
    <3>1. part = "tokens" /\ MailTokens!Next
      BY <2>2 DEF Next, OthersStay
    <3> QED
      BY SMTT(90), <3>1, ConnectionStep, EditStep, CheckStep DEF MailTokens!Next
  <2> QED
    BY <2>1, <2>2
<1> QED
  BY <1>1, <1>2, PTL DEF Spec

\* The token that the settings hold, and the one that a check works with, are of the
\* account and application they name (MicrosoftMailTokens.cs SaveRefreshToken, Prepare).
THEOREM TokensOfTheirAccount ==
    ASSUME TokensAssumption
    PROVE  Spec => []TokenOfAccount
<1>1. (part = "tokens" => TokensInv) => TokenOfAccount
  BY DEF TokensInv, Renewed, Holds, TokenOfAccount, MailTokens!TokenOfAccount, MailTokens!Belongs
<1> QED
  BY <1>1, TokensAlways, PTL

=============================================================================
