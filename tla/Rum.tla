---------------------------------- MODULE Rum ----------------------------------
(***************************************************************************)
(* The pages of a site as the script in the browser counts them            *)
(* (Rum/wolflog-rum.js): one "page" when the document is loaded, one       *)
(* "view" per change of route, one "scroll" per page left.  Everything     *)
(* runs in one thread; what the script defers (setTimeout) runs later, in  *)
(* its turn, after anything else that happens meanwhile.                   *)
(*                                                                         *)
(* An event is its kind and its path.  Its other fields, the errors, the   *)
(* network calls and the clicks are left out, the depths that the pages    *)
(* were scrolled to, and a browser that ends without telling the page.     *)
(***************************************************************************)
EXTENDS Naturals, Sequences, FiniteSets, SequencesExt

CONSTANTS
    Paths,           \* the paths of the site
    Entry,           \* the one of the document
    MaxMoves,        \* bound: navigations
    MaxWaiting       \* bound: events that wait to be sent (30 in the code)

VARIABLES
    location,        \* the path in the address bar
    lastPath,        \* the path the script knows
    checks,          \* the deferred calls of routeChanged
    views,           \* the paths whose "view" is deferred
    load,            \* the document: loading, loaded with pageLoad deferred, counted
    scrolled,        \* the page whose scroll is followed, and whether it was sent
    reported,        \* whether the vitals were sent
    tab,             \* visible, hidden, closed
    waiting, sent,   \* the events pushed, and those sent
    moves,
    \* history
    stays,           \* the paths at which the script found the address bar, one after the other
    early            \* a route changed before the document was counted

rumVars == <<location, lastPath, checks, views, load, scrolled, reported, tab, waiting, sent, moves, stays, early>>

Event == [type : {"page", "view", "scroll", "vital"}, path : Paths]

TypeOK ==
    /\ location \in Paths /\ lastPath \in Paths
    /\ checks \in 0..MaxMoves
    /\ views \in Seq(Paths)
    /\ load \in {"loading", "deferred", "counted"}
    /\ scrolled \in [path : Paths, sent : BOOLEAN]
    /\ reported \in BOOLEAN /\ early \in BOOLEAN
    /\ tab \in {"visible", "hidden", "closed"}
    /\ waiting \in Seq(Event) /\ sent \in Seq(Event)
    /\ moves \in 0..MaxMoves
    /\ stays \in Seq(Paths)

Init ==
    /\ location = Entry /\ lastPath = Entry
    /\ checks = 0 /\ views = <<>> /\ load = "loading"
    /\ scrolled = [path |-> Entry, sent |-> FALSE]
    /\ reported = FALSE /\ tab = "visible"
    /\ waiting = <<>> /\ sent = <<>>
    /\ moves = 0 /\ stays = <<Entry>> /\ early = FALSE

Runs == tab \in {"visible", "hidden"}
E(type, path) == [type |-> type, path |-> path]

\* Events are pushed; a full queue is sent.
Push(events) ==
    IF Len(waiting) + Len(events) >= MaxWaiting
    THEN /\ waiting' = <<>> /\ sent' = sent \o waiting \o events
    ELSE /\ waiting' = waiting \o events /\ UNCHANGED sent

\* The vitals of the document, once.
Vitals == IF reported THEN <<>> ELSE <<E("vital", location)>>

\* The scroll of the page that ends, unless it was sent when the tab was hidden.
EndPage == IF scrolled.sent THEN <<>> ELSE <<E("scroll", scrolled.path)>>

\* Mutant: a page that follows one whose scroll was sent is taken for sent.
StartPage_notReset(path) == [scrolled EXCEPT !.path = path]

StartPage(path) == [path |-> path, sent |-> FALSE]

RouteChanged(path) ==
    IF path = lastPath THEN UNCHANGED <<lastPath, scrolled, views, waiting, sent>>
    ELSE /\ Push(EndPage)
         /\ lastPath' = path
         /\ scrolled' = StartPage(path)
         /\ views' = Append(views, path)

\* Where the address bar is when the script looks.
Looks == stays' = IF location' # Last(stays) THEN Append(stays, location') ELSE stays

-----------------------------------------------------------------------------
\* The document is loaded: what follows its other listeners counts the page.
Load ==
    /\ Runs /\ load = "loading"
    /\ load' = "deferred"
    /\ UNCHANGED <<location, lastPath, checks, views, scrolled, reported, tab, waiting, sent, moves, stays, early>>

PageLoad ==
    /\ Runs /\ load = "deferred"
    /\ load' = "counted"
    /\ Push(<<E("page", location)>>)
    /\ early' = (early \/ location # Entry \/ Len(stays) > 1)
    /\ UNCHANGED <<location, lastPath, checks, views, scrolled, reported, tab, moves, stays>>

\* pushState and replaceState: the application goes on before the script looks.
PushState(path) ==
    /\ tab = "visible" /\ moves < MaxMoves
    /\ location' = path /\ checks' = checks + 1 /\ moves' = moves + 1
    /\ UNCHANGED <<lastPath, views, load, scrolled, reported, tab, waiting, sent, stays, early>>

CheckRoute ==
    /\ Runs /\ checks > 0
    /\ checks' = checks - 1
    /\ RouteChanged(location)
    /\ location' = location /\ Looks
    /\ UNCHANGED <<load, reported, tab, moves, early>>

\* Back and forward.
PopState(path) ==
    /\ tab = "visible" /\ moves < MaxMoves
    /\ location' = path /\ checks' = checks /\ moves' = moves + 1
    /\ RouteChanged(path)
    /\ Looks
    /\ UNCHANGED <<load, reported, tab, early>>

\* 150 ms after the change of route.
CountView ==
    /\ Runs /\ views # <<>>
    /\ Push(<<E("view", Head(views))>>)
    /\ views' = Tail(views)
    /\ UNCHANGED <<location, lastPath, checks, load, scrolled, reported, tab, moves, stays, early>>

\* Every five seconds.
Flush ==
    /\ Runs /\ waiting # <<>>
    /\ sent' = sent \o waiting /\ waiting' = <<>>
    /\ UNCHANGED <<location, lastPath, checks, views, load, scrolled, reported, tab, moves, stays, early>>

\* The tab is hidden, or left: vitals, then the scroll, each followed by a sending.
HideOrLeave ==
    /\ Runs
    /\ tab' \in {"hidden", "closed"} \ {tab}
    /\ reported' = TRUE /\ scrolled' = [scrolled EXCEPT !.sent = TRUE]
    /\ sent' = sent \o waiting \o Vitals \o EndPage
    /\ waiting' = <<>>
    /\ UNCHANGED <<location, lastPath, checks, views, load, moves, stays, early>>

Show ==
    /\ tab = "hidden" /\ tab' = "visible"
    /\ UNCHANGED <<location, lastPath, checks, views, load, scrolled, reported, waiting, sent, moves, stays, early>>

Next ==
    \/ Load \/ PageLoad \/ CheckRoute \/ CountView \/ Flush \/ HideOrLeave \/ Show
    \/ \E path \in Paths : PushState(path) \/ PopState(path)

Spec == Init /\ [][Next]_rumVars

-----------------------------------------------------------------------------
Occurrences(path, paths) == Cardinality({i \in DOMAIN paths : paths[i] = path})
Count(types, path, events) ==
    Cardinality({i \in DOMAIN events : events[i].type \in types /\ events[i].path = path})

\* wolflog-rum.js:117, "every change of route is a view", and :256, "sent once per page (change of
\* route, tab hidden, closed)": once no view is deferred, each page the visitor saw is counted once,
\* under its own path, however often the tab was hidden and shown meanwhile; each page left gave one
\* scroll, and the last one too once the tab is closed; and nothing pushed stays in a tab that was
\* closed.  A route that changes before the document is counted is excluded: the script then counts
\* the new page twice, and the first one never.
PagesCountedOnce ==
    LET pushed == sent \o waiting
        counted(p) == Count({"page", "view"}, p, pushed)
        scrolls(p) == Count({"scroll"}, p, pushed)
    IN  \A p \in Paths :
            /\ (load = "counted" /\ views = <<>> /\ ~early) => counted(p) = Occurrences(p, stays)
            /\ scrolls(p) \in Occurrences(p, Front(stays))..Occurrences(p, stays)
            /\ tab = "closed" => (scrolls(p) = Occurrences(p, stays) /\ waiting = <<>>)

=============================================================================
