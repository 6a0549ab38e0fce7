------------------------------ MODULE Dashboards ------------------------------
(***************************************************************************)
(* A dashboard edited by people who do not all see all of its panels       *)
(* (Api/DashboardAccess.cs, Api/DashboardEndpoints.cs, DashboardStore.cs,  *)
(* and the page of the interface, pages/dashboard.ts).  The page sends the *)
(* whole dashboard at each save; the server puts back the panels that the  *)
(* person cannot see.  A request reads the stored dashboard, decides, and  *)
(* writes later.                                                           *)
(*                                                                         *)
(* A panel is its identifier and who changed it last; the parts and the    *)
(* services of an access profile come down to which panels it shows.       *)
(***************************************************************************)
EXTENDS Naturals, Sequences, SequencesExt, FiniteSets

CONSTANTS
    Administrators, Restricted, \* the people: those who see all, those with an access profile
    Panels,           \* the identifiers of panels
    FirstPanels,      \* those of the dashboard at the beginning
    PrivatePanels,    \* those outside the profile, unless it is widened
    Saves,            \* the requests that may be under way together, numbered
    MaxChanges,       \* bound: changes made by people
    Null              \* no dashboard, nobody

VARIABLES
    board,            \* the stored dashboard, or Null
    wide,             \* whether the profile of the restricted people shows every panel
    pages,            \* of each person, the page: what it shows, what it goes back to, whether it edits and saves
    save,             \* the requests under way
    changes           \* the changes so far

dashboardVars == <<board, wide, pages, save, changes>>

People == Administrators \cup Restricted
Panel == [id : Panels, by : People \cup {Null}]
IdsOf(panels) == {panels[i].id : i \in DOMAIN panels}
PanelsOf(d) == IF d = Null THEN <<>> ELSE d.panels
Free == [by |-> Null, kind |-> "none", sent |-> Null, read |-> Null, wide |-> FALSE, step |-> "free"]
Page(d) == [shown |-> d, backup |-> Null, editing |-> FALSE, saving |-> FALSE]

TypeOK ==
    LET Dashboard == [panels : Seq(Panel), open : BOOLEAN] \cup {Null}
        Shown == [panels : Seq(Panel), open : BOOLEAN, hides : BOOLEAN] \cup {Null}
    IN  /\ board \in Dashboard
        /\ wide \in BOOLEAN
        /\ pages \in [People -> [shown : Shown, backup : Shown, editing : BOOLEAN, saving : BOOLEAN]]
        /\ save \in [Saves -> [by : People \cup {Null}, kind : {"none", "apply", "save", "delete"}, sent : Shown,
                               read : Dashboard, wide : BOOLEAN, step : {"free", "get", "write", "answer"}]]
        /\ changes \in 0..MaxChanges

Init ==
    /\ \E ids \in SetToSeqs(FirstPanels) :
           board = [panels |-> [i \in DOMAIN ids |-> [id |-> ids[i], by |-> Null]], open |-> TRUE]
    /\ wide \in BOOLEAN
    /\ pages = [x \in People |-> Page(Null)]
    /\ save = [s \in Saves |-> Free]
    /\ changes = 0

-----------------------------------------------------------------------------
\* DashboardAccess, for person x, whose profile shows everything or not.

\* Of a sequence of panels, those of a set, in their order.
Only(panels, kept) ==
    LET after[i \in 0 .. Len(panels)] ==
            IF i = 0 THEN <<>>
            ELSE IF panels[i] \in kept THEN Append(after[i - 1], panels[i]) ELSE after[i - 1]
    IN  after[Len(panels)]

Sees(x, all, p) == x \in Administrators \/ all \/ p.id \notin PrivatePanels
Visible(x, d) == x \in Administrators \/ d.open

CanUse(x, all, d) ==
    /\ Visible(x, d)
    /\ d.panels = <<>> \/ \E i \in DOMAIN d.panels : Sees(x, all, d.panels[i])

View(x, all, d) ==
    [panels |-> Only(d.panels, {p \in Panel : Sees(x, all, p)}), open |-> d.open,
     hides |-> \E i \in DOMAIN d.panels : ~Sees(x, all, d.panels[i])]

\* What she sends, without the panels that are hidden from her, given by their identifiers.
\* Mutant: a page loaded before they were hidden still sends them.
Mine_trusted(hidden, submitted) == submitted

Mine(hidden, submitted) == Only(submitted, {p \in Panel : p.id \notin hidden})

\* The hidden panels keep their places, hers take the others, while there are any.
PutNext(hidden, placed, panel) ==
    IF panel.id \in hidden THEN [placed EXCEPT !.result = Append(@, panel)]
    ELSE IF placed.mine # <<>> THEN [result |-> Append(placed.result, Head(placed.mine)), mine |-> Tail(placed.mine)]
    ELSE placed

Placed(hidden, existing, mine) ==
    LET after[i \in 0 .. Len(existing)] ==
            IF i = 0 THEN [result |-> <<>>, mine |-> mine] ELSE PutNext(hidden, after[i - 1], existing[i])
    IN  after[Len(existing)]

\* The panels that she does not see keep their places, hers take the others, her new ones come last.
Merge(x, all, existing, submitted) ==
    LET hidden == IdsOf(Only(existing, {p \in Panel : ~Sees(x, all, p)}))
        placed == Placed(hidden, existing, Mine(hidden, submitted))
    IN  IF x \in Administrators THEN submitted ELSE placed.result \o placed.mine

-----------------------------------------------------------------------------
\* The page.

Shows(x, d) == pages' = [pages EXCEPT ![x].shown = d]
Fresh == Panels \ (FirstPanels \cup IdsOf(PanelsOf(board)) \cup UNION {IdsOf(PanelsOf(pages[x].shown)) : x \in People}
                                \cup UNION {IdsOf(PanelsOf(save[s].sent)) : s \in Saves})
Changes == changes < MaxChanges /\ changes' = changes + 1
UnderWay(x) == {s \in Saves : save[s].by = x}

\* The page is opened, or loaded again.
Load(x) ==
    /\ UnderWay(x) = {}
    /\ LET d == IF board # Null /\ CanUse(x, wide, board) THEN View(x, wide, board) ELSE Null
       IN  pages' = [pages EXCEPT ![x] = Page(d)]
    /\ UNCHANGED <<board, wide, save, changes>>

StartEdit(x) ==
    /\ pages[x].shown # Null /\ ~pages[x].editing
    /\ pages' = [pages EXCEPT ![x].backup = pages[x].shown, ![x].editing = TRUE]
    /\ UNCHANGED <<board, wide, save, changes>>

CancelEdit(x) ==
    /\ pages[x].editing
    /\ pages' = [pages EXCEPT ![x] = [Page(@.backup) EXCEPT !.saving = pages[x].saving]]
    /\ UNCHANGED <<board, wide, save, changes>>

\* While editing: a panel is taken away or moved to the end, "visible to" is changed.
Rearrange(x) ==
    /\ pages[x].shown # Null /\ pages[x].editing
    /\ Changes
    /\ LET d == pages[x].shown
       IN  \/ \E i \in DOMAIN d.panels :
                 \E moved \in {<<>>, <<d.panels[i]>>} : Shows(x, [d EXCEPT !.panels = RemoveAt(@, i) \o moved])
           \/ Shows(x, [d EXCEPT !.open = ~@])
    /\ UNCHANGED <<board, wide, save>>

\* A request leaves with the whole dashboard of the page.
Sends(x, kind, d) ==
    \E s \in Saves :
        /\ save[s] = Free /\ \A r \in Saves : save[r] = Free => s <= r
        /\ save' = [save EXCEPT ![s] = [Free EXCEPT !.by = x, !.kind = kind, !.sent = d, !.step = "get"]]

\* A panel is changed or added; it is saved at once, unless the page is being rearranged, and even
\* while another save is under way.
ApplyPanel(x) ==
    /\ pages[x].shown # Null
    /\ Changes
    /\ \E id \in Panels :
           LET shown == pages[x].shown
               applied == [id |-> id, by |-> x]
               d == IF id \in IdsOf(shown.panels)
                    THEN [shown EXCEPT !.panels = [i \in DOMAIN @ |-> IF @[i].id = id THEN applied ELSE @[i]]]
                    ELSE [shown EXCEPT !.panels = Append(@, applied)]
           IN  /\ id \in IdsOf(shown.panels) \cup Fresh
               /\ pages' = [pages EXCEPT ![x].shown = d, ![x].saving = @ \/ ~pages[x].editing]
               /\ IF pages[x].editing THEN UNCHANGED save ELSE Sends(x, "apply", d)
    /\ UNCHANGED <<board, wide>>

\* The button is disabled while a save is under way.
Save(x) ==
    /\ pages[x].shown # Null /\ pages[x].editing /\ ~pages[x].saving
    /\ Sends(x, "save", pages[x].shown)
    /\ pages' = [pages EXCEPT ![x].saving = TRUE]
    /\ UNCHANGED <<board, wide, changes>>

DeleteBoard(x) ==
    /\ pages[x].shown # Null /\ ~pages[x].editing /\ ~pages[x].shown.hides
    /\ Changes
    /\ Sends(x, "delete", Null)
    /\ UNCHANGED <<board, wide, pages>>

\* An administrator changes the profile.
ChangeProfile ==
    /\ Changes
    /\ wide' = ~wide
    /\ UNCHANGED <<board, pages, save>>

-----------------------------------------------------------------------------
\* PUT and DELETE /dashboards/{id}.

\* The request reads its access and the stored dashboard; it is refused, or goes on.
Refused(q) ==
    \/ board # Null /\ ~CanUse(q.by, wide, board)
    \/ q.kind # "delete" /\ q.by \in Restricted /\ ~q.sent.open
    \/ q.kind = "delete" /\ (board = Null \/ \E i \in DOMAIN board.panels : ~Sees(q.by, wide, board.panels[i]))

Get(s) ==
    LET q == save[s]
    IN  /\ q.step = "get"
        /\ IF Refused(q)
           THEN /\ save' = [save EXCEPT ![s] = Free]
                /\ pages' = [pages EXCEPT ![q.by].saving = @ /\ q.kind = "delete"]
           ELSE /\ save' = [save EXCEPT ![s] = [q EXCEPT !.read = board, !.wide = wide, !.step = "write"]]
                /\ UNCHANGED pages
        /\ UNCHANGED <<board, wide, changes>>

\* What the request stores: the panels of the page, with those she does not see.
Merged(q) ==
    [panels |-> IF q.read = Null THEN q.sent.panels ELSE Merge(q.by, q.wide, q.read.panels, q.sent.panels),
     open |-> q.sent.open]

Write(s) ==
    LET q == save[s]
    IN  /\ q.step = "write"
        /\ board' = IF q.kind = "delete" THEN Null ELSE Merged(q)
        /\ save' = [save EXCEPT ![s] =
               IF q.kind # "delete" THEN [q EXCEPT !.step = "answer", !.sent = View(q.by, q.wide, Merged(q)), !.read = Null, !.wide = FALSE]
               ELSE IF board # Null THEN [q EXCEPT !.step = "answer", !.read = Null, !.wide = FALSE]
               ELSE Free]
        /\ UNCHANGED <<wide, pages, changes>>

\* The answer takes the place of what the page shows, changes made since included, or is lost.
Answer(s) ==
    LET q == save[s]
    IN  /\ q.step = "answer"
        /\ save' = [save EXCEPT ![s] = Free]
        /\ \/ pages' = [pages EXCEPT ![q.by].saving = @ /\ q.kind = "delete"]
           \/ pages' = [pages EXCEPT ![q.by] = IF q.kind = "apply" THEN [@ EXCEPT !.shown = q.sent, !.saving = FALSE] ELSE Page(q.sent)]
        /\ UNCHANGED <<board, wide, changes>>

Next ==
    \/ \E x \in People : Load(x) \/ StartEdit(x) \/ CancelEdit(x) \/ Rearrange(x) \/ ApplyPanel(x) \/ Save(x) \/ DeleteBoard(x)
    \/ ChangeProfile
    \/ \E s \in Saves : Get(s) \/ Write(s) \/ Answer(s)

Spec == Init /\ [][Next]_dashboardVars

-----------------------------------------------------------------------------
\* DashboardAccess.Merge, PUT and DELETE: no request removes, changes or reorders a panel that its
\* author does not see, whatever her page showed before; and of the panels she sees, it stores
\* those of her page, in their order.  Unless she took panels away, the hidden ones stay in their
\* places.  A write by somebody else between the reading of the
\* dashboard and its writing is excluded: nothing in the code prevents it.
KeepsHiddenPanels(s) ==
    LET q == save[s]
        ids == IdsOf(Only(PanelsOf(board), {p \in Panel : ~Sees(q.by, q.wide, p)}))
        Hidden == {p \in Panel : p.id \in ids}
        hidden == Only(PanelsOf(board), Hidden)
        hers == Only(PanelsOf(q.sent), Panel \ Hidden)
    IN  /\ Only(PanelsOf(board'), Hidden) = hidden
        /\ Only(PanelsOf(board'), Panel \ Hidden) = hers
        /\ Len(hers) >= Len(PanelsOf(board)) - Len(hidden)
           => \A i \in DOMAIN PanelsOf(board) :
                  board.panels[i] \in Hidden => PanelsOf(board')[i] = board.panels[i]

Stores(s) == save[s].step = "write" /\ save'[s].step = "answer" /\ save[s].read = board

HiddenPanelsKept == [][\A s \in Saves : Stores(s) => KeepsHiddenPanels(s)]_dashboardVars

=============================================================================
