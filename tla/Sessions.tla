------------------------------ MODULE Sessions ------------------------------
(***************************************************************************)
(* The crash reporter of the client (Client/Internal/CrashReporter.cs):    *)
(* each process of a service keeps a marker beside the buffer, removes it  *)
(* when it ends well, and reports at its start the markers of the dead.    *)
(*                                                                         *)
(* A process is its rank; it lives once, and several may live at once.     *)
(***************************************************************************)
EXTENDS Naturals, FiniteSets

CONSTANTS
    Processes,   \* the processes of one service, sharing one directory, in the order of their starts: 1..n
    MaxFailures, \* bound: I/O errors (an error and its retry of line 84 are one)
    Null         \* no marker

VARIABLES
    phase,       \* of each process: not started, its step, how it ended
    marker,      \* the processes whose marker is in the directory
    ended,       \* how each process ended, once it has
    listing,     \* the markers a start still has to look at
    subject,     \* the marker it is looking at
    writing,     \* the timer thread: "idle", or "writing" once past its test of _crashed
    timer,       \* whether the timer of each process still ticks
    reports,     \* the number of reports in the buffer about each process
    failures,    \* I/O errors so far
    \* history
    marked,      \* the processes whose marker has been written
    lost,        \* the processes whose report or marker was given up after an error
    doubled      \* the processes the code may report twice, or though they ended well: a deletion
                 \* failed in silence, two starts read one marker, a kill fell between the report
                 \* and the deletion, or the timer wrote the marker again

sessionVars == <<phase, marker, ended, listing, subject, writing, timer, reports, failures, marked, lost, doubled>>

Phases == {"new", "start", "read", "store", "delete", "mark", "up", "crashing", "unmark", "crashed", "stopping", "gone"}

TypeOK ==
    /\ phase \in [Processes -> Phases]
    /\ marker \subseteq Processes /\ marked \subseteq Processes
    /\ lost \subseteq Processes /\ doubled \subseteq Processes
    /\ ended \in [Processes -> {"no", "clean", "crash", "killed"}]
    /\ listing \in [Processes -> SUBSET Processes]
    /\ subject \in [Processes -> Processes \cup {Null}]
    /\ writing \in [Processes -> {"idle", "writing"}]
    /\ timer \in [Processes -> BOOLEAN]
    /\ reports \in [Processes -> Nat]
    /\ failures \in 0..MaxFailures

Init ==
    /\ phase = [p \in Processes |-> "new"]
    /\ marker = {} /\ marked = {} /\ lost = {} /\ doubled = {}
    /\ ended = [p \in Processes |-> "no"]
    /\ listing = [p \in Processes |-> {}]
    /\ subject = [p \in Processes |-> Null]
    /\ writing = [p \in Processes |-> "idle"]
    /\ timer = [p \in Processes |-> FALSE]
    /\ reports = [p \in Processes |-> 0]
    /\ failures = 0

Alive(p) == phase[p] \notin {"new", "gone"}

\* TryDelete, and lines 80 and 84: an error is swallowed and the marker stays.
TryDelete(q) ==
    \/ /\ marker' = marker \ {q}
       /\ UNCHANGED <<failures, doubled>>
    \/ /\ q \in marker
       /\ failures < MaxFailures
       /\ failures' = failures + 1
       /\ doubled' = doubled \cup {q}
       /\ UNCHANGED marker

-----------------------------------------------------------------------------
\* Start: the abandoned sessions, then the marker of this one.

\* Directory.GetFiles: what is there now, its own marker apart.
Start(p) ==
    /\ phase[p] = "new" /\ \A q \in 1..(p - 1) : phase[q] # "new"
    /\ phase' = [phase EXCEPT ![p] = "start"]
    /\ listing' = [listing EXCEPT ![p] = marker \ {p}]
    /\ UNCHANGED <<marker, ended, subject, writing, timer, reports, failures, marked, lost, doubled>>

NextFile(p) ==
    /\ phase[p] = "start" /\ listing[p] # {}
    /\ \E q \in listing[p] :
        /\ subject' = [subject EXCEPT ![p] = q]
        /\ listing' = [listing EXCEPT ![p] = @ \ {q}]
    /\ phase' = [phase EXCEPT ![p] = "read"]
    /\ UNCHANGED <<marker, ended, writing, timer, reports, failures, marked, lost, doubled>>

LastFile(p) ==
    /\ phase[p] = "start" /\ listing[p] = {}
    /\ phase' = [phase EXCEPT ![p] = "mark"]
    /\ subject' = [subject EXCEPT ![p] = Null]
    /\ UNCHANGED <<marker, ended, listing, writing, timer, reports, failures, marked, lost, doubled>>

\* The marker is read and its process looked for.
ReadMarker(p) ==
    /\ phase[p] = "read" /\ subject[p] \in marker
    /\ phase' = [phase EXCEPT ![p] = IF Alive(subject[p]) THEN "start" ELSE "store"]
    \* another start has read the same marker
    /\ doubled' = doubled \cup {subject[q] : q \in {r \in Processes : phase[r] \in {"store", "delete"} /\ subject[r] = subject[p]}}
    /\ UNCHANGED <<marker, ended, listing, subject, writing, timer, reports, failures, marked, lost>>

\* An error in reading it, or another start has removed it: the marker is deleted without a report,
\* or stays for a later start when its deletion fails as well.
Unreadable(p) ==
    /\ phase[p] = "read"
    /\ \/ subject[p] \notin marker /\ UNCHANGED <<marker, failures, lost>>
       \/ /\ subject[p] \in marker
          /\ failures < MaxFailures
          /\ failures' = failures + 1
          /\ \/ marker' = marker \ {subject[p]} /\ lost' = lost \cup {subject[p]}
             \/ UNCHANGED <<marker, lost>>
    /\ phase' = [phase EXCEPT ![p] = "start"]
    /\ UNCHANGED <<ended, listing, subject, writing, timer, reports, marked, doubled>>

\* The report enters the buffer; DiskOutbox.Store only warns when it cannot.
StoreReport(p) ==
    /\ phase[p] = "store"
    /\ \/ /\ reports' = [reports EXCEPT ![subject[p]] = @ + 1]
          /\ UNCHANGED <<failures, lost>>
       \/ /\ failures < MaxFailures
          /\ failures' = failures + 1
          /\ lost' = lost \cup {subject[p]}
          /\ UNCHANGED reports
    /\ phase' = [phase EXCEPT ![p] = "delete"]
    /\ UNCHANGED <<marker, ended, listing, subject, writing, timer, marked, doubled>>

\* File.Delete, and once more in the catch: when both fail the marker stays beside its report.
DeleteMarker(p) ==
    /\ phase[p] = "delete"
    /\ TryDelete(subject[p])
    /\ phase' = [phase EXCEPT ![p] = "start"]
    /\ UNCHANGED <<ended, listing, subject, writing, timer, reports, marked, lost>>

\* The first WriteMarker; an error leaves the process without one.
Mark(p) ==
    /\ phase[p] = "mark"
    /\ \/ /\ marker' = marker \cup {p}
          /\ marked' = marked \cup {p}
          /\ UNCHANGED failures
       \/ /\ failures < MaxFailures
          /\ failures' = failures + 1
          /\ UNCHANGED <<marker, marked>>
    /\ phase' = [phase EXCEPT ![p] = "up"]
    /\ timer' = [timer EXCEPT ![p] = TRUE]
    /\ UNCHANGED <<ended, listing, subject, writing, reports, lost, doubled>>

-----------------------------------------------------------------------------
\* The timer: the test of _crashed, then the move of the marker into place.

Tick(p) ==
    /\ timer[p] /\ writing[p] = "idle" /\ phase[p] = "up"
    /\ writing' = [writing EXCEPT ![p] = "writing"]
    /\ UNCHANGED <<phase, marker, ended, listing, subject, timer, reports, failures, marked, lost, doubled>>

MoveMarker(p) ==
    /\ Alive(p) /\ writing[p] = "writing"
    /\ marker' = marker \cup {p}
    /\ marked' = marked \cup {p}
    /\ writing' = [writing EXCEPT ![p] = "idle"]
    \* the end of the process has already removed the marker
    /\ doubled' = IF phase[p] \in {"crashed", "stopping"} /\ p \notin marker THEN doubled \cup {p} ELSE doubled
    /\ UNCHANGED <<phase, ended, listing, subject, timer, reports, failures, lost>>

-----------------------------------------------------------------------------
\* The end.

\* OnUnhandledException: _crashed, then the report, then the marker.
Unhandled(p) ==
    /\ phase[p] = "up"
    /\ phase' = [phase EXCEPT ![p] = "crashing"]
    /\ UNCHANGED <<marker, ended, listing, subject, writing, timer, reports, failures, marked, lost, doubled>>

\* From here on the process has said itself how it ended, or the buffer has lost it.
StoreCrash(p) ==
    /\ phase[p] = "crashing"
    /\ \/ reports' = [reports EXCEPT ![p] = @ + 1] /\ UNCHANGED <<failures, lost>>
       \/ /\ failures < MaxFailures
          /\ failures' = failures + 1
          /\ lost' = lost \cup {p}
          /\ UNCHANGED reports
    /\ ended' = [ended EXCEPT ![p] = "crash"]
    /\ phase' = [phase EXCEPT ![p] = "unmark"]
    /\ UNCHANGED <<marker, listing, subject, writing, timer, marked, doubled>>

CrashUnmarked(p) ==
    /\ phase[p] = "unmark"
    /\ TryDelete(p)
    /\ phase' = [phase EXCEPT ![p] = "crashed"]
    /\ UNCHANGED <<ended, listing, subject, writing, timer, reports, marked, lost>>

\* The stop of the host is not told to the reporter.
CleanStop_unheard(p) ==
    /\ phase[p] = "up"
    /\ phase' = [phase EXCEPT ![p] = "stopping"]
    /\ ended' = [ended EXCEPT ![p] = "clean"]
    /\ UNCHANGED <<marker, timer, listing, subject, writing, reports, failures, marked, lost, doubled>>

\* MarkCleanShutdown, at the stop of the host; a callback of the timer may still be running, and
\* a marker that cannot be deleted stays.
CleanStop(p) ==
    /\ phase[p] = "up"
    /\ phase' = [phase EXCEPT ![p] = "stopping"]
    /\ ended' = [ended EXCEPT ![p] = "clean"]
    /\ timer' = [timer EXCEPT ![p] = FALSE]
    /\ TryDelete(p)
    /\ UNCHANGED <<listing, subject, writing, reports, marked, lost>>

\* MarkCleanShutdown again, at ProcessExit.
Exit(p) ==
    /\ phase[p] = "stopping"
    /\ phase' = [phase EXCEPT ![p] = "gone"]
    /\ TryDelete(p)
    /\ writing' = [writing EXCEPT ![p] = "idle"]
    /\ UNCHANGED <<ended, listing, subject, timer, reports, marked, lost>>

\* The process is gone at any moment.  A start killed between the report and the deletion leaves
\* the marker to the next one; so does a crash whose report is stored.  A crash killed before its
\* report is one more process that died without a word.
Gone(p) ==
    /\ Alive(p)
    /\ phase' = [phase EXCEPT ![p] = "gone"]
    /\ ended' = [ended EXCEPT ![p] = IF @ = "no" THEN "killed" ELSE @]
    /\ listing' = [listing EXCEPT ![p] = {}]
    /\ subject' = [subject EXCEPT ![p] = Null]
    /\ writing' = [writing EXCEPT ![p] = "idle"]
    /\ timer' = [timer EXCEPT ![p] = FALSE]
    /\ doubled' = doubled \cup {q \in Processes : \/ phase[p] = "delete" /\ subject[p] = q
                                                  \/ phase[p] = "unmark" /\ q = p /\ p \in marker}
    /\ UNCHANGED <<marker, reports, failures, marked, lost>>

Reports(p) == NextFile(p) \/ LastFile(p) \/ ReadMarker(p) \/ Unreadable(p) \/ StoreReport(p) \/ DeleteMarker(p) \/ Mark(p)

Next ==
    \E p \in Processes :
        \/ Start(p) \/ Reports(p)
        \/ Tick(p) \/ MoveMarker(p)
        \/ Unhandled(p) \/ StoreCrash(p) \/ CrashUnmarked(p)
        \/ CleanStop(p) \/ Exit(p) \/ Gone(p)

-----------------------------------------------------------------------------
\* CrashReporter.cs:7: a process that dies without warning is detected at the next start.  Until it
\* is, its marker stays; it is given up for an error only.
AbruptEndIsKept ==
    \A p \in marked : ended[p] = "killed" => p \in marker \/ reports[p] > 0 \/ p \in lost

\* CrashReporter.cs:130: after a normal stop no crash is reported; any other end is reported once.
\* The ends of doubled are apart, and contradict that line: a deletion of the marker that fails is
\* swallowed (:84, :139), so that a later start reports the end a second time, or a normal stop; two
\* starts read one marker, or a start or a crash is cut between report and deletion; the timer
\* moves the marker back after the end has removed it.
EachEndReportedOnce ==
    \A p \in Processes \ doubled : reports[p] <= IF ended[p] \in {"no", "clean"} THEN 0 ELSE 1

=============================================================================
