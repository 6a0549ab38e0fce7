------------------------------- MODULE MCParts -------------------------------
(***************************************************************************)
(* One run for parts of the system that share no state: a behaviour is a   *)
(* behaviour of one of them, chosen at the start.                          *)
(***************************************************************************)
EXTENDS Naturals, Sequences, TLC

CONSTANTS Null,
    Threads, Commands, Ids, Kept, MaxCalls, MaxTroubles,             \* Collections
    Clients, MaxWrites,                                              \* Copies
    Mailboxes, Apps, Flows, Editors, Checks, MaxGiven, MaxEdits,     \* MailTokens
    MaxDay, MaxSalts, MaxSetbacks,                                   \* Visitors
    Requests, Names, FirstName, DirectoryNames, MaxAsked,            \* Accounts
    Processes, MaxFailures,                                          \* Sessions
    Logs, Matching, Precision, FirstQuery, PageSize, MaxItems, MaxLive,   \* LogsPage
    ChannelSize, BatchSize, MaxSegments, MaxActs,
    Paths, Entry, MaxMoves, MaxWaiting,                              \* Rum
    Folders, Lots, Delay, MaxFiles, MaxEnds                          \* Backups

VARIABLES part,
    file, tmp, cache, held, call, calls, troubles, landed, spoiled, raced,
    json, computed, using, writes, lagging, overlapped, hidden,
    stored, flow, edit, renewal, issued, edits,
    today, salt, saltDay, saltFile, ask, drawn, setbacks, served, newest, late, astride,
    users, gate, request, asked, crossed,
    phase, marker, ended, listing, subject, writing, timer, reports, failures, marked, lost, doubled,
    hot, segments, announced, query, live, items, hasOlder, hasNewer, search, more, stream, error, acts, known, before, overdue,
    location, lastPath, checks, views, load, scrolled, reported, tab, waiting, sent, moves, stays, early,
    memory, disk, folders, shown, doomed, merge, backup, ends, written, received, owed, age, troubled

-----------------------------------------------------------------------------
\* The logs of the page: one, then two of the microsecond after, a tick late in it.
At(tick, key) == [tick |-> tick, key |-> key]
PageLogs     == {At(3, 1), At(5, 1), At(5, 2)}
PageMatching == [all |-> PageLogs, some |-> {At(3, 1), At(5, 2)}]

-----------------------------------------------------------------------------
Collections == INSTANCE Collections
Copies      == INSTANCE Copies
MailTokens  == INSTANCE MailTokens
Visitors    == INSTANCE Visitors
Accounts    == INSTANCE Accounts
Sessions    == INSTANCE Sessions
LogsPage    == INSTANCE LogsPage
Rum         == INSTANCE Rum
Backups     == INSTANCE Backups

collectionVars == <<file, tmp, cache, held, call, calls, troubles, landed, spoiled, raced>>
copyVars       == <<json, computed, using, writes, lagging, overlapped, hidden>>
tokenVars      == <<stored, flow, edit, renewal, issued, edits>>
visitorVars    == <<today, salt, saltDay, saltFile, ask, drawn, setbacks, served, newest, late, astride>>
accountVars    == <<users, gate, request, asked, crossed>>
sessionVars    == <<phase, marker, ended, listing, subject, writing, timer, reports, failures, marked, lost, doubled>>
pageVars       == <<hot, segments, announced, query, live, items, hasOlder, hasNewer, search, more, stream, error, acts,
                    known, before, overdue>>
scriptVars     == <<location, lastPath, checks, views, load, scrolled, reported, tab, waiting, sent, moves, stays, early>>
archiveVars    == <<memory, disk, folders, shown, doomed, merge, backup, ends, written, received, owed, age, troubled>>
partVars       == <<part, collectionVars, copyVars, tokenVars, visitorVars, accountVars, sessionVars, pageVars,
                    scriptVars, archiveVars>>

\* What distinguishes two states: the parts that are not chosen keep their initial values.
ActivePart ==
    <<part, CASE part = "collections" -> collectionVars
              [] part = "copies" -> copyVars
              [] part = "tokens" -> tokenVars
              [] part = "visitors" -> visitorVars
              [] part = "accounts" -> accountVars
              [] part = "sessions" -> sessionVars
              [] part = "page" -> pageVars
              [] part = "script" -> scriptVars
              [] part = "backups" -> archiveVars>>

Init ==
    /\ part \in {"collections", "copies", "tokens", "visitors", "accounts", "sessions", "page", "script", "backups"}
    /\ Collections!Init /\ Copies!Init /\ MailTokens!Init /\ Visitors!Init
    /\ Accounts!Init /\ Sessions!Init /\ LogsPage!Init
    /\ Rum!Init /\ Backups!Init

OthersStay ==
    /\ UNCHANGED part
    /\ IF part = "collections" THEN TRUE ELSE UNCHANGED collectionVars
    /\ IF part = "copies" THEN TRUE ELSE UNCHANGED copyVars
    /\ IF part = "tokens" THEN TRUE ELSE UNCHANGED tokenVars
    /\ IF part = "visitors" THEN TRUE ELSE UNCHANGED visitorVars
    /\ IF part = "accounts" THEN TRUE ELSE UNCHANGED accountVars
    /\ IF part = "sessions" THEN TRUE ELSE UNCHANGED sessionVars
    /\ IF part = "page" THEN TRUE ELSE UNCHANGED pageVars
    /\ IF part = "script" THEN TRUE ELSE UNCHANGED scriptVars
    /\ IF part = "backups" THEN TRUE ELSE UNCHANGED archiveVars

Next ==
    \/ part = "collections" /\ Collections!Next /\ OthersStay
    \/ part = "copies" /\ Copies!Next /\ OthersStay
    \/ part = "tokens" /\ MailTokens!Next /\ OthersStay
    \/ part = "visitors" /\ Visitors!Next /\ OthersStay
    \/ part = "accounts" /\ Accounts!Next /\ OthersStay
    \/ part = "sessions" /\ Sessions!Next /\ OthersStay
    \/ part = "page" /\ LogsPage!Next /\ OthersStay
    \/ part = "script" /\ Rum!Next /\ OthersStay
    \/ part = "backups" /\ Backups!Next /\ OthersStay

Spec == Init /\ [][Next]_partVars

-----------------------------------------------------------------------------
\* The state of each part is of the shape its module gives it.
TypeOK ==
    /\ part = "collections" => Collections!TypeOK
    /\ part = "copies" => Copies!TypeOK
    /\ part = "tokens" => MailTokens!TypeOK
    /\ part = "visitors" => Visitors!TypeOK
    /\ part = "accounts" => Accounts!TypeOK
    /\ part = "sessions" => Sessions!TypeOK
    /\ part = "page" => LogsPage!TypeOK
    /\ part = "script" => Rum!TypeOK
    /\ part = "backups" => Backups!TypeOK

\* JsonCollection: no change that reached the file is undone by another one.
ChangesKept == part = "collections" => Collections!ChangesKept

\* JsonCollection, EnvironmentStore, ApiKeyStore: the file is never left half written, and what is
\* kept in memory with its stamp is what it says.
CopiesTrusted ==
    /\ part = "collections" => Collections!CopiesTrusted
    /\ part = "copies" => Copies!CopiesFollow

\* MicrosoftMailTokens: the token that the settings hold is one of the account they name.
TokenOfAccount == part = "tokens" => MailTokens!TokenOfAccount

\* VisitorIdentity: a salt for a day, and a day for a salt.
OneSaltPerDay == part = "visitors" => Visitors!OneSaltPerDay

\* AdminEndpoints, SsoProvisioning: an active administrator is left.
AnAdminRemains == part = "accounts" => Accounts!AnAdminRemains

\* AdminEndpoints, SsoProvisioning: a name belongs to one account.
OneAccountPerName == part = "accounts" => Accounts!OneAccountPerName

\* CrashReporter: no report after a normal stop, and one after any other end, save for the ends whose
\* marker outlives them (a deletion that failed in silence, two starts at one marker, a start or a
\* crash cut before the deletion, a late write of the timer); a process that was killed keeps its
\* marker until it is reported or given up for an error.
EachEndReportedOnce ==
    part = "sessions" => Sessions!EachEndReportedOnce /\ Sessions!AbruptEndIsKept

\* logs.ts: the list is a whole window of what its query asks for, or the logs of the stream.
ListFollowsQuery == part = "page" => LogsPage!ListFollowsQuery

\* wolflog-rum.js: a page is counted once, and its scroll is sent once, when it is left.
PagesCountedOnce == part = "script" => Rum!PagesCountedOnce

\* Backup: what was stored when a backup began is in its archive.
ArchiveComplete == part = "backups" => Backups!ArchiveComplete

=============================================================================
