------------------------------ MODULE MailTokens ------------------------------
(***************************************************************************)
(* The Microsoft account of an e-mail probe, or of the notifications       *)
(* (Monitoring/MicrosoftMailTokens.cs, EmailProbeRunner.cs, Notifier.cs).  *)
(* A person connects an account by a code and saves the settings; each     *)
(* check works on a copy of them, exchanges their refresh token and, when  *)
(* Microsoft gives a new one, saves it in the place of the old.            *)
(*                                                                         *)
(* Client secrets, passwords, and the access tokens kept until they expire *)
(* are left out.                                                           *)
(***************************************************************************)
EXTENDS Naturals, FiniteSets

CONSTANTS
    Mailboxes,     \* the Microsoft accounts people connect
    Apps,          \* the applications (tenant and client id)
    Flows,         \* the connections by code
    Editors,       \* the requests that save or test settings
    Checks,        \* the checks under way
    MaxGiven,      \* bound: refresh tokens given by Microsoft
    MaxEdits,      \* bound: edits
    Null           \* nothing

VARIABLES
    stored,        \* what the collection holds: the MicrosoftMailAuth, Null with a password
    flow,          \* _flows: of each connection its application, account and token
    edit,          \* of each editor: its step, what it typed, what it read, what it will save
    renewal,       \* of each check: its step, its copy, and the new token
    issued,        \* Microsoft: of each token its application and account
    edits

tokenVars == <<stored, flow, edit, renewal, issued, edits>>

Tokens     == 1..MaxGiven
Settings   == [mode : {"account", "app"}, app : Apps, token : Tokens \cup {Null}, account : Mailboxes \cup {Null}]
NotEditing == [step |-> "idle", form |-> Null, read |-> Null]
NoCheck    == [step |-> "idle", auth |-> Null, rotated |-> Null]
Forms      == [mode : {"account", "app"}, app : Apps, connection : Flows \cup {Null}]

TypeOK ==
    /\ stored \in Settings \cup {Null}
    /\ flow \in [Flows -> {Null} \cup [app : Apps, given : Tokens \cup {Null},
                                       account : Mailboxes \cup {Null}, token : Tokens \cup {Null}]]
    /\ edit \in [Editors -> {NotEditing} \cup [step : {"prepare"}, form : Forms, read : Settings \cup {Null}]
                               \cup [step : {"save"}, form : Settings, read : {Null}]]
    /\ renewal \in [Checks -> {NoCheck} \cup [step : {"refresh", "save"}, auth : Settings, rotated : Tokens \cup {Null}]]
    /\ \E n \in 0..MaxGiven : issued \in [1..n -> [app : Apps, account : Mailboxes]]
    /\ edits \in 0..MaxEdits

Init ==
    /\ stored = Null
    /\ flow = [f \in Flows |-> Null]
    /\ edit = [e \in Editors |-> NotEditing]
    /\ renewal = [c \in Checks |-> NoCheck]
    /\ issued = [n \in {} |-> Null]
    /\ edits = 0

Given     == Cardinality(DOMAIN issued)
Gives(to) == issued' = [n \in 1..Given + 1 |-> IF n <= Given THEN issued[n] ELSE to]

-----------------------------------------------------------------------------
\* Connection of an account by a code.

StartFlow(f) ==
    /\ flow[f] = Null
    /\ \E app \in Apps : flow' = [flow EXCEPT ![f] = [app |-> app, given |-> Null, account |-> Null, token |-> Null]]
    /\ UNCHANGED <<stored, edit, renewal, issued, edits>>

\* The code has been typed: Microsoft gives a token of the account that typed it, once per code.
Grant(f) ==
    /\ flow[f] # Null /\ flow[f].given = Null /\ Given < MaxGiven
    /\ \E account \in Mailboxes :
           /\ Gives([app |-> flow[f].app, account |-> account])
           /\ flow' = [flow EXCEPT ![f].given = Given + 1, ![f].account = account]
    /\ UNCHANGED <<stored, edit, renewal, edits>>

\* PollAsync: the account first, then the token, by which Prepare knows that the connection succeeded.
Connected(f) ==
    /\ flow[f] # Null /\ flow[f].given # flow[f].token
    /\ flow' = [flow EXCEPT ![f].token = flow[f].given]
    /\ UNCHANGED <<stored, edit, renewal, issued, edits>>

-----------------------------------------------------------------------------
\* Settings.

\* Prepare: the connection just made for this application, otherwise the account recorded for it.
Prepared(form, existing) ==
    LET connected == IF form.connection = Null THEN Null ELSE flow[form.connection]
        with(t, a) == [mode |-> form.mode, app |-> form.app, token |-> t, account |-> a]
    IN CASE form.mode # "account" -> with(Null, Null)
         [] form.mode = "account" /\ connected # Null /\ connected.token # Null /\ connected.app = form.app ->
                with(connected.token, connected.account)
         [] OTHER ->
                IF existing # Null /\ existing.app = form.app /\ existing.token # Null
                THEN with(existing.token, existing.account) ELSE with(Null, Null)

\* PUT or POST: the form, and the settings it changes.
Read(e) ==
    /\ edit[e].step = "idle" /\ edits < MaxEdits
    /\ \E form \in Forms : edit' = [edit EXCEPT ![e] = [step |-> "prepare", form |-> form, read |-> stored]]
    /\ edits' = edits + 1
    /\ UNCHANGED <<stored, flow, renewal, issued>>

Prepare(e) ==
    /\ edit[e].step = "prepare"
    /\ edit' = [edit EXCEPT ![e] = [step |-> "save", form |-> Prepared(edit[e].form, edit[e].read), read |-> Null]]
    /\ UNCHANGED <<stored, flow, renewal, issued, edits>>

\* Upsert: the whole of the settings.
SaveEdit(e) ==
    /\ edit[e].step = "save"
    /\ stored' = edit[e].form
    /\ edit' = [edit EXCEPT ![e] = NotEditing]
    /\ UNCHANGED <<flow, renewal, issued, edits>>

\* Password instead of Microsoft.
Forget ==
    /\ stored # Null /\ edits < MaxEdits
    /\ stored' = Null /\ edits' = edits + 1
    /\ UNCHANGED <<flow, edit, renewal, issued>>

-----------------------------------------------------------------------------
\* Checks.

Starts(c, auth) ==
    /\ renewal[c].step = "idle"
    /\ auth # Null /\ auth.mode = "account" /\ auth.token # Null
    /\ renewal' = [renewal EXCEPT ![c] = [step |-> "refresh", auth |-> auth, rotated |-> Null]]

\* On its plan, with a copy of the settings; or by hand, with those of a form.
Check(c) ==
    /\ Starts(c, stored)
    /\ UNCHANGED <<stored, flow, edit, issued, edits>>

Test(c, e) ==
    /\ edit[e].step = "save"
    /\ Starts(c, edit[e].form)
    /\ edit' = [edit EXCEPT ![e] = NotEditing]
    /\ UNCHANGED <<stored, flow, issued, edits>>

\* AccessTokenAsync: Microsoft gives a new refresh token for the old one, or none, or refuses.
Refresh(c) ==
    /\ renewal[c].step = "refresh"
    /\ \/ /\ Given < MaxGiven
          /\ Gives(issued[renewal[c].auth.token])
          /\ renewal' = [renewal EXCEPT ![c].step = "save", ![c].rotated = Given + 1]
       \/ renewal' = [renewal EXCEPT ![c] = NoCheck] /\ UNCHANGED issued
    /\ UNCHANGED <<stored, flow, edit, edits>>

\* The settings may have changed since.
SaveRefreshToken_unconditional(c) ==
    /\ renewal[c].step = "save"
    /\ stored' = IF stored = Null THEN Null ELSE [stored EXCEPT !.token = renewal[c].rotated]
    /\ renewal' = [renewal EXCEPT ![c] = NoCheck]
    /\ UNCHANGED <<flow, edit, issued, edits>>

\* In the place of the token it was given for, if the settings still hold that one.
SaveRefreshToken(c) ==
    /\ renewal[c].step = "save"
    /\ stored' = IF stored # Null /\ stored.token = renewal[c].auth.token
                 THEN [stored EXCEPT !.token = renewal[c].rotated] ELSE stored
    /\ renewal' = [renewal EXCEPT ![c] = NoCheck]
    /\ UNCHANGED <<flow, edit, issued, edits>>

Next ==
    \/ \E f \in Flows : StartFlow(f) \/ Grant(f) \/ Connected(f)
    \/ \E e \in Editors : Read(e) \/ Prepare(e) \/ SaveEdit(e) \/ \E c \in Checks : Test(c, e)
    \/ Forget
    \/ \E c \in Checks : Check(c) \/ Refresh(c) \/ SaveRefreshToken(c)

-----------------------------------------------------------------------------
\* A token goes to the account and the application it was given for.
Belongs(auth) ==
    auth # Null /\ auth.token # Null =>
        auth.mode = "account" /\ issued[auth.token] = [app |-> auth.app, account |-> auth.account]

\* The token that the settings hold is one of the account they name: the renewal of a check that
\* began before an edit never lands in the settings of another account, and a connection under way
\* is attached whole or not at all.
TokenOfAccount ==
    Belongs(stored) /\ \A c \in Checks : Belongs(renewal[c].auth)

=============================================================================
