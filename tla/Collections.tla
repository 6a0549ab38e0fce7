----------------------------- MODULE Collections -----------------------------
(***************************************************************************)
(* A configuration collection (Server/Configuration/JsonCollection.cs): a  *)
(* list of items in a JSON file, copied in memory by the server, whose     *)
(* threads share a lock, and by the `wolflog` command, a process apart     *)
(* that changes the same file (Hosting/Installer.cs).  AlertEventStore,    *)
(* which trims the collection it adds to, is one more kind of call.        *)
(*                                                                         *)
(* An item is its identifier and the number of the call that wrote it,   *)
(* 0 when it is not there.  A stamp is the rank of the last write.         *)
(***************************************************************************)
EXTENDS Naturals, FiniteSets

CONSTANTS
    Threads, Commands,  \* the callers: threads of the server, runs of the command
    Ids,                \* the identifiers of items
    Kept,               \* how many items a trimmed collection keeps
    MaxCalls,           \* bound: calls
    MaxTroubles,        \* bound: I/O errors and ends of the server
    Null                \* nobody

VARIABLES
    file,      \* the file: its items, its stamp, whether it is whole, who still writes to it
    tmp,       \* the file being written, likewise, with whether it exists
    cache,     \* _items and _loadedStamp of each process
    held,      \* _lock of each process
    call,      \* of each caller: what it asks for, the item, the items to replace, and its step
    calls, troubles,
    \* history
    landed,    \* the items according to the changes that reached the file
    spoiled,   \* the items of a change that failed after it was made in memory
    raced      \* two processes, or a trim and a change, have crossed

collectionVars == <<file, tmp, cache, held, call, calls, troubles, landed, spoiled, raced>>

Callers == Threads \cup Commands
Process(a) == IF a \in Threads THEN "server" ELSE a
Owners == {"server"} \cup Commands
Nothing == [i \in Ids |-> 0]
Rows == [Ids -> 0..MaxCalls]

Kinds == {"none", "read", "upsert", "update", "delete", "add", "list", "replace"}
Steps == {"idle", "begin", "load", "read", "stamp", "change", "open", "close", "move", "taken"}

TypeOK ==
    /\ file \in [rows : Rows, stamp : Nat, whole : BOOLEAN, writer : Callers \cup {Null}]
    /\ tmp \in [exists : BOOLEAN, rows : Rows, writer : Callers \cup {Null}]
    /\ cache \in [Owners -> [rows : Rows, stamp : Nat]]
    /\ held \in [Owners -> Callers \cup {Null}]
    /\ call \in [Callers -> [kind : Kinds, id : Ids \cup {Null}, number : 0..MaxCalls, rows : Rows, step : Steps]]
    /\ calls \in 0..MaxCalls /\ troubles \in 0..MaxTroubles
    /\ landed \in Rows /\ spoiled \subseteq Ids /\ raced \in BOOLEAN

Idle == [kind |-> "none", id |-> Null, number |-> 0, rows |-> Nothing, step |-> "idle"]

Init ==
    /\ file = [rows |-> Nothing, stamp |-> 0, whole |-> TRUE, writer |-> Null]
    /\ tmp = [exists |-> FALSE, rows |-> Nothing, writer |-> Null]
    /\ cache = [p \in Owners |-> [rows |-> Nothing, stamp |-> 0]]
    /\ held = [p \in Owners |-> Null]
    /\ call = [a \in Callers |-> Idle]
    /\ calls = 0 /\ troubles = 0
    /\ landed = Nothing /\ spoiled = {} /\ raced = FALSE

Changing(kind) == kind \in {"upsert", "update", "delete", "add", "replace"}
To(a, step) == call' = [call EXCEPT ![a].step = step]
CacheOf(a) == cache[Process(a)]

-----------------------------------------------------------------------------
\* Calls.

\* A thread calls a method; a command starts, and its constructor loads the file without the lock.
Ask(a, kind, id) ==
    /\ call[a].step = "idle"
    /\ calls < MaxCalls
    /\ a \in Commands => kind = "update"
    /\ kind \in {"add", "read"} => a \in Threads
    /\ calls' = calls + 1
    /\ call' = [call EXCEPT ![a] = [kind |-> kind, id |-> id, rows |-> Nothing, number |-> calls',
                                    step |-> IF a \in Commands THEN "load" ELSE "begin"]]
    /\ UNCHANGED <<file, tmp, cache, held, troubles, landed, spoiled, raced>>

Load(a) ==
    /\ call[a].step = "load"
    /\ IF file.whole
       THEN /\ cache' = [cache EXCEPT ![a] = [rows |-> file.rows, stamp |-> file.stamp]]
            /\ To(a, "begin")
       ELSE /\ call' = [call EXCEPT ![a] = Idle]
            /\ UNCHANGED cache
    /\ UNCHANGED <<file, tmp, held, calls, troubles, landed, spoiled, raced>>

\* Two threads of the server are in the collection at once.
Begin_unlocked(a) ==
    /\ call[a].step = "begin"
    /\ held' = [held EXCEPT ![Process(a)] = a]
    /\ To(a, IF call[a].kind # "replace" /\ CacheOf(a).stamp # file.stamp THEN "read" ELSE "change")
    /\ UNCHANGED <<file, tmp, cache, calls, troubles, landed, spoiled, raced>>

\* The lock, then RefreshIfChanged, which ReplaceAll does without.
Begin(a) ==
    /\ call[a].step = "begin" /\ held[Process(a)] = Null
    /\ held' = [held EXCEPT ![Process(a)] = a]
    /\ To(a, IF call[a].kind # "replace" /\ CacheOf(a).stamp # file.stamp THEN "read" ELSE "change")
    /\ UNCHANGED <<file, tmp, cache, calls, troubles, landed, spoiled, raced>>

\* Reload: the text, then the stamp.
ReadText(a) ==
    /\ call[a].step = "read" /\ file.whole
    /\ cache' = [cache EXCEPT ![Process(a)].rows = file.rows]
    /\ To(a, "stamp")
    /\ UNCHANGED <<file, tmp, held, calls, troubles, landed, spoiled, raced>>

ReadStamp(a) ==
    /\ call[a].step = "stamp"
    /\ cache' = [cache EXCEPT ![Process(a)].stamp = file.stamp]
    /\ To(a, "change")
    /\ UNCHANGED <<file, tmp, held, calls, troubles, landed, spoiled, raced>>

\* What the call does to the items.
Changed(rows, c) ==
    CASE c.kind \in {"upsert", "add", "update"} -> [rows EXCEPT ![c.id] = c.number]
      [] c.kind = "delete" -> [rows EXCEPT ![c.id] = 0]
      [] OTHER -> c.rows

Release(a) == held' = [held EXCEPT ![Process(a)] = Null]

\* The call answers at once: nothing to write.
Answer(a) ==
    /\ call[a].step = "change"
    /\ \/ call[a].kind = "read" /\ call' = [call EXCEPT ![a] = Idle]
       \/ call[a].kind \in {"update", "delete"} /\ CacheOf(a).rows[call[a].id] = 0
          /\ call' = [call EXCEPT ![a] = Idle]
       \/ /\ call[a].kind = "list"
          /\ LET rows   == CacheOf(a).rows
                 newer(i) == {j \in Ids : rows[j] > rows[i]}
             IN  call' = [call EXCEPT ![a] = IF Cardinality({i \in Ids : rows[i] # 0}) > Kept
                             THEN [@ EXCEPT !.kind = "replace", !.step = "begin",
                                            !.rows = [i \in Ids |-> IF Cardinality(newer(i)) < Kept THEN rows[i] ELSE 0]]
                             ELSE Idle]
    /\ Release(a)
    /\ UNCHANGED <<file, tmp, cache, calls, troubles, landed, spoiled, raced>>

MakeChange(a) ==
    /\ call[a].step = "change" /\ Changing(call[a].kind)
    /\ call[a].kind \in {"update", "delete"} => CacheOf(a).rows[call[a].id] # 0
    /\ cache' = [cache EXCEPT ![Process(a)].rows = Changed(@, call[a])]
    /\ call' = [call EXCEPT ![a].rows = Changed(CacheOf(a).rows, call[a]), ![a].step = "open"]
    /\ UNCHANGED <<file, tmp, held, calls, troubles, landed, spoiled, raced>>

-----------------------------------------------------------------------------
\* Save: the temporary file, the move over the file, the stamp.

OpenTmp(a) ==
    /\ call[a].step = "open" /\ (tmp.exists => tmp.writer = Null)
    /\ tmp' = [exists |-> TRUE, rows |-> CacheOf(a).rows, writer |-> a]
    /\ raced' = (raced \/ \E b \in Callers : Process(b) # Process(a) /\ call[b].step \in {"close", "move"})
    /\ To(a, "close")
    /\ UNCHANGED <<file, cache, held, calls, troubles, landed, spoiled>>

\* The text is complete, wherever the other process has moved it meanwhile.
CloseTmp(a) ==
    /\ call[a].step = "close"
    /\ tmp' = IF tmp.writer = a THEN [tmp EXCEPT !.writer = Null] ELSE tmp
    /\ file' = IF file.writer = a THEN [file EXCEPT !.writer = Null, !.whole = TRUE, !.stamp = @ + 1] ELSE file
    /\ To(a, "move")
    /\ UNCHANGED <<cache, held, calls, troubles, landed, spoiled, raced>>

\* The items after this call, had it been alone: what it changes, over what had landed.
Delta(a) ==
    IF call[a].kind = "replace" THEN call[a].rows ELSE [landed EXCEPT ![call[a].id] = call[a].rows[call[a].id]]

\* A caller whose copy a write by another process makes wrong.
Exposed(b) ==
    \/ call[b].step \in {"stamp", "open", "close", "move", "taken"}
    \/ call[b].step = "change" /\ Changing(call[b].kind)

MoveTmp(a) ==
    /\ call[a].step = "move" /\ tmp.exists
    /\ file' = [rows |-> tmp.rows, stamp |-> file.stamp + 1, whole |-> tmp.writer = Null, writer |-> tmp.writer]
    /\ tmp' = [tmp EXCEPT !.exists = FALSE, !.writer = Null, !.rows = Nothing]
    /\ landed' = Delta(a)
    /\ raced' = \/ raced
                \/ \E b \in Callers : Process(b) # Process(a) /\ Exposed(b)
                \/ \E b \in Callers \ {a} : call[b].kind = "replace"
    /\ To(a, "taken")
    /\ UNCHANGED <<cache, held, calls, troubles, spoiled>>

\* The stamp of what was written, and the answer; a trimming call goes on with its list.
TakeStamp(a) ==
    /\ call[a].step = "taken"
    /\ cache' = [cache EXCEPT ![Process(a)].stamp = file.stamp]
    /\ call' = [call EXCEPT ![a] = IF @.kind = "add" THEN [Idle EXCEPT !.kind = "list", !.step = "begin"] ELSE Idle]
    /\ Release(a)
    /\ UNCHANGED <<file, tmp, calls, troubles, landed, spoiled, raced>>

\* An exception: the disk, a file half written, or the other process at the same temporary file.
Throws(a) ==
    /\ \/ call[a].step = "read" /\ ~file.whole /\ UNCHANGED troubles
       \/ call[a].step = "open" /\ tmp.exists /\ tmp.writer # Null /\ UNCHANGED troubles
       \/ call[a].step = "move" /\ (~tmp.exists \/ tmp.writer # Null) /\ UNCHANGED troubles
       \/ call[a].step \in {"open", "move"} /\ troubles < MaxTroubles /\ troubles' = troubles + 1
    /\ spoiled' = IF call[a].step = "read" THEN spoiled
                  ELSE IF call[a].kind = "replace" THEN Ids ELSE spoiled \cup {call[a].id}
    /\ call' = [call EXCEPT ![a] = Idle]
    /\ Release(a)
    /\ UNCHANGED <<file, tmp, cache, calls, landed, raced>>

\* The server ends at any moment and starts again: its callers are gone, and its copy is loaded anew
\* (from a file cut short it would not start).
Crash ==
    /\ troubles < MaxTroubles /\ file.whole
    /\ troubles' = troubles + 1
    /\ call' = [a \in Callers |-> IF a \in Threads THEN Idle ELSE call[a]]
    /\ held' = [held EXCEPT !["server"] = Null]
    /\ tmp' = IF tmp.writer \in Threads THEN [tmp EXCEPT !.writer = Null] ELSE tmp
    /\ cache' = [cache EXCEPT !["server"] = [rows |-> file.rows, stamp |-> file.stamp]]
    /\ UNCHANGED <<file, calls, landed, spoiled, raced>>

Step(a) ==
    Load(a) \/ Begin(a) \/ ReadText(a) \/ ReadStamp(a) \/ Answer(a) \/ MakeChange(a)
        \/ OpenTmp(a) \/ CloseTmp(a) \/ MoveTmp(a) \/ TakeStamp(a) \/ Throws(a)

Next ==
    \/ \E a \in Callers : Step(a)
    \/ \E a \in Callers, kind \in {"read", "upsert", "update", "delete", "add"}, id \in Ids : Ask(a, kind, id)
    \/ Crash

-----------------------------------------------------------------------------
\* JsonCollection.cs:4-5: the file is written atomically, and read again when it was changed by
\* another process.  No change that reached the file is undone by another one, unless two processes
\* cross, a trim crosses a change, or a change failed after it was made in memory.
ChangesKept == ~raced => \A i \in Ids \ spoiled : file.rows[i] = landed[i]

\* The file is never left half written, and a copy with the stamp of the file is the file.
CopiesTrusted ==
    ~raced =>
        /\ file.whole
        /\ \A p \in Owners :
              cache[p].stamp = file.stamp /\ held[p] = Null
                  => \A i \in Ids \ spoiled : cache[p].rows[i] = file.rows[i]

=============================================================================
