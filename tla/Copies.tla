-------------------------------- MODULE Copies --------------------------------
(***************************************************************************)
(* Two stores keep a copy computed from their JSON file, and the stamp of  *)
(* the file it was computed from: the compiled environments                *)
(* (Configuration/EnvironmentStore.cs) and the index of the active keys    *)
(* (Security/ApiKeyStore.cs).  The first takes the stamp before the        *)
(* content and works under a lock of its own; the second takes it after,   *)
(* with no lock.  The restoration of a backup writes both files under      *)
(* them (Hosting/Backup.cs).                                               *)
(*                                                                         *)
(* Of the content of a file only its version matters.  The items that      *)
(* JsonCollection keeps in memory are those of the file: see Collections.  *)
(***************************************************************************)
EXTENDS Naturals

CONSTANTS
    Clients,       \* the requests under way
    MaxWrites,     \* bound: writes of the files
    Null           \* nothing

Stores == {"environments", "keys"}

VARIABLES
    json,          \* of each store, its file: the stamp, and what it says
    computed,      \* of each store, the copy and the stamp it carries
    using,         \* of each caller: its step, the stamp or the version it has read
    writes,
    \* history
    lagging,       \* stamps of files that changed between the look at the stamp and the lock
    overlapped,    \* stores whose file changed while a caller computed or stamped the copy
    hidden         \* FlushUsage began over a restored file that nobody had indexed

copyVars == <<json, computed, using, writes, lagging, overlapped, hidden>>

Free    == [step |-> "free", stamp |-> 0, says |-> 0]
Version == [stamp : 0..MaxWrites, says : 0..MaxWrites]

TypeOK ==
    /\ json \in [Stores -> Version] /\ computed \in [Stores -> Version]
    /\ using \in [Clients -> [step : {"free", "compile", "settings", "list", "index", "stamp"},
                              stamp : 0..MaxWrites, says : 0..MaxWrites]]
    /\ writes \in 0..MaxWrites
    /\ lagging \subseteq 0..MaxWrites /\ overlapped \subseteq Stores /\ hidden \in BOOLEAN

\* A backup was made just before: its files bear their own dates.
Init ==
    /\ json = [s \in Stores |-> [stamp |-> 1, says |-> 1]] /\ computed = json
    /\ using = [c \in Clients |-> Free]
    /\ writes = 1
    /\ lagging = {} /\ overlapped = {} /\ hidden = FALSE

Goes(c, step) == using' = [using EXCEPT ![c].step = step]
Ends(c)       == using' = [using EXCEPT ![c] = Free]

\* The callers that compute or stamp the copy of a store.
InStep(steps) == {c \in Clients : using[c].step \in steps}
Computing(s)  == IF s = "keys" THEN InStep({"list", "index", "stamp"}) ELSE InStep({"settings"})

\* A file is replaced by a writer, among those who compute its copy or not.
Written(s, version, writer) ==
    /\ json' = [json EXCEPT ![s] = version]
    /\ overlapped' = overlapped \cup {x \in {s} : Computing(s) \ {writer} # {}}

New == [stamp |-> writes + 1, says |-> writes + 1]

\* The files of the backup take the place of the present ones, with the dates that they had.
Restore(s) ==
    /\ writes < MaxWrites /\ json[s].stamp # 0
    /\ Written(s, [stamp |-> 0, says |-> 1], Null)
    /\ writes' = writes + 1
    /\ UNCHANGED <<computed, using, lagging, hidden>>

-----------------------------------------------------------------------------
\* EnvironmentStore.

\* Filter: the stamp of the file, outside the lock.
Filter(c) ==
    /\ using[c] = Free
    /\ using' = [using EXCEPT ![c] = [Free EXCEPT !.step = "compile", !.stamp = json["environments"].stamp]]
    /\ UNCHANGED <<json, computed, writes, lagging, overlapped, hidden>>

GateFree == InStep({"settings"}) = {}

\* Under the lock, the rules are compiled again when that stamp is not the one they carry.
Compile(c) ==
    /\ using[c].step = "compile" /\ GateFree
    /\ LET stamp == using[c].stamp
           stale == stamp # computed["environments"].stamp
       IN /\ computed' = IF stale THEN [computed EXCEPT !["environments"] = [json["environments"] EXCEPT !.stamp = stamp]]
                                  ELSE computed
          /\ lagging' = lagging \cup {x \in {stamp} : stale /\ stamp # json["environments"].stamp}
    /\ Ends(c)
    /\ UNCHANGED <<json, writes, overlapped, hidden>>

\* Save: under the lock, the file ...
SaveSettings(c) ==
    /\ using[c] = Free /\ GateFree /\ writes < MaxWrites
    /\ Written("environments", New, c)
    /\ using' = [using EXCEPT ![c] = [Free EXCEPT !.step = "settings", !.says = New.says]]
    /\ writes' = writes + 1
    /\ UNCHANGED <<computed, lagging, hidden>>

\* The compiled rules are not replaced.
SavedSettings_stampOnly(c) ==
    /\ using[c].step = "settings"
    /\ computed' = [computed EXCEPT !["environments"].stamp = json["environments"].stamp]
    /\ Ends(c)
    /\ UNCHANGED <<json, writes, lagging, overlapped, hidden>>

\* ... then the rules compiled from what was saved, and the stamp of the file.
SavedSettings(c) ==
    /\ using[c].step = "settings"
    /\ computed' = [computed EXCEPT !["environments"] = [stamp |-> json["environments"].stamp, says |-> using[c].says]]
    /\ Ends(c)
    /\ UNCHANGED <<json, writes, lagging, overlapped, hidden>>

-----------------------------------------------------------------------------
\* ApiKeyStore.

\* Match: the index is built again when the stamp of the file is not its own.
Match(c) ==
    /\ using[c] = Free /\ json["keys"].stamp # computed["keys"].stamp
    /\ Goes(c, "list")
    /\ UNCHANGED <<json, computed, writes, lagging, overlapped, hidden>>

\* Create and Revoke: the file, then the index.
ChangeKeys(c) ==
    /\ using[c] = Free /\ writes < MaxWrites
    /\ Written("keys", New, c)
    /\ Goes(c, "list")
    /\ writes' = writes + 1
    /\ UNCHANGED <<computed, lagging, hidden>>

\* FlushUsage: the dates of last use, if there are any, then the stamp alone.
FlushUsage(c) ==
    /\ using[c] = Free
    /\ \/ /\ writes < MaxWrites
          /\ Written("keys", [json["keys"] EXCEPT !.stamp = writes + 1], c)
          /\ writes' = writes + 1
       \/ UNCHANGED <<json, writes, overlapped>>
    /\ Goes(c, "stamp")
    /\ hidden' = (hidden \/ (json["keys"].stamp = 0 /\ computed["keys"].stamp # 0))
    /\ UNCHANGED <<computed, lagging>>

\* RebuildIndex: the list of the keys, the index of the active ones, the stamp.
List(c) ==
    /\ using[c].step = "list"
    /\ using' = [using EXCEPT ![c].step = "index", ![c].says = json["keys"].says]
    /\ UNCHANGED <<json, computed, writes, lagging, overlapped, hidden>>

Index(c) ==
    /\ using[c].step = "index"
    /\ computed' = [computed EXCEPT !["keys"].says = using[c].says]
    /\ Goes(c, "stamp")
    /\ UNCHANGED <<json, writes, lagging, overlapped, hidden>>

StampIndex(c) ==
    /\ using[c].step = "stamp"
    /\ computed' = [computed EXCEPT !["keys"].stamp = json["keys"].stamp]
    /\ Ends(c)
    /\ UNCHANGED <<json, writes, lagging, overlapped, hidden>>

Next ==
    \/ \E c \in Clients :
           \/ Filter(c) \/ Compile(c) \/ SaveSettings(c) \/ SavedSettings(c)
           \/ Match(c) \/ ChangeKeys(c) \/ FlushUsage(c) \/ List(c) \/ Index(c) \/ StampIndex(c)
    \/ \E s \in Stores : Restore(s)

-----------------------------------------------------------------------------
(* A copy that carries the stamp of the file says what the file says       *)
(* ("Relue automatiquement si le fichier est modifié par ailleurs").       *)

Trusted(s) == Computing(s) = {} /\ computed[s].stamp = json[s].stamp

\* Unless the file was restored between Upsert and Stamp, or has been given back a stamp that a slow
\* caller put on later rules.
EnvironmentsFollow ==
    Trusted("environments") /\ "environments" \notin overlapped /\ json["environments"].stamp \notin lagging =>
        computed["environments"].says = json["environments"].says

\* Unless the file changed while a caller built the index, or was restored just before FlushUsage,
\* which puts the stamp of the restored file on the index of the one before.
KeysFollow ==
    Trusted("keys") /\ "keys" \notin overlapped /\ ~hidden =>
        computed["keys"].says = json["keys"].says

CopiesFollow == EnvironmentsFollow /\ KeysFollow

=============================================================================
