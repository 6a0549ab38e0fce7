------------------------------ MODULE MCServices ------------------------------
(***************************************************************************)
(* One run for four parts of the system that share no state, the probes,   *)
(* the profiles on demand, the dashboards and the search bar: a behaviour  *)
(* is a behaviour of one of them, chosen at the start.                     *)
(***************************************************************************)
EXTENDS Naturals, Sequences, TLC

CONSTANTS Null,
    Day, Hours, Interval, FailuresBeforeDown, MaxActs,   \* Probes
    Profiles, Instances, MaxMishaps,                     \* Profiles
    Administrators, Restricted, Panels, FirstPanels, PrivatePanels, Saves, MaxChanges,   \* Dashboards
    LowerCase, FoldCase, Globs, LiveGlobs, Hash, Bits,   \* Search
    SearchTokens, MaxTokens, AllSettings, LogRows, Multiline   \* SearchBar

VARIABLES part,
    moment, probe, turn, copy, nextRun, running, check, state, acts, hourCame, missed, overtaken, wrongHour,
    info, agent, looking, mishaps, taken, together,
    board, wide, pages, save, changes,
    text, settings, stream

\* Plans of the probes: two hours of a day, one hour, an interval.
ThreePlans == [twice |-> {1, 3}, once |-> {2}, often |-> {}]

-----------------------------------------------------------------------------
\* The names of environments, letters, patterns and traces of the searches.
Lowered == ("" :> "") @@ [prod |-> "prod", Prod |-> "prod", live |-> "live", Live |-> "live", dev |-> "dev", test |-> "test"]
Folded  == [c \in {"a", "b", "A", "c", "-", "e"} |-> CASE c = "A" -> "a" [] c = "e" -> "-" [] OTHER -> c]
\* "two lines" is a text of two lines, which "t*" stands for in SQL alone.
Stars     == ("p*" :> {"prod"}) @@ ("h*" :> {"h1", "h2"}) @@ ("t*" :> {"two", "two lines"})
LiveStars == [Stars EXCEPT !["t*"] = {"two"}]
TwoLines  == {"two lines"}
Hashes  == [x |-> <<1, 2>>, y |-> <<3, 5>>]

Word(neg, value)     == [neg |-> neg, key |-> "", value |-> value]
Pair(neg, key, list) == [neg |-> neg, key |-> key, value |-> list]

SomeTokens ==
    {Word(neg, t) : neg \in BOOLEAN, t \in {<<"a", "b", "c">>, <<"A">>, <<"b", "-", "a", "b", "c">>}}
    \cup {Pair(neg, "service", l) : neg \in BOOLEAN, l \in {<<"api">>, <<"api", "web">>}}
    \cup {Pair(neg, "env", l) : neg \in BOOLEAN, l \in {<<"prod">>, <<"Live">>, <<"dev">>, <<"p*">>, <<"prod", "test">>}}
    \cup {Pair(neg, "host", l) : neg \in BOOLEAN, l \in {<<"h*">>, <<"h1">>}}
    \cup {Pair(neg, "order", l) : neg \in BOOLEAN, l \in {<<"1">>, <<"null">>, <<"t*">>}}
    \cup {Pair(FALSE, "level", <<"error">>), Pair(FALSE, "trace", <<"x">>), Pair(FALSE, "fingerprint", <<"f">>),
          Pair(FALSE, "crash", <<"true">>), Pair(FALSE, "crash", <<"no">>), Pair(FALSE, "has", <<"exception">>)}

Log(service, host, env, severity, trace, fingerprint, crash, body, exception, attributes) ==
    [service |-> service, host |-> host, env |-> env, severity |-> severity, trace |-> trace,
     fingerprint |-> fingerprint, crash |-> crash, body |-> body, exception |-> exception, attributes |-> attributes]

None == [k \in {} |-> Null]

SomeLogs ==
    {Log("api", "h1", "Live", 9, "x", Null, FALSE, <<"a", "b", "c">>, Null, [order |-> "1"]),
     Log("api", "h2", "prod", 17, Null, "f", FALSE, <<"b", "-", "A", "b", "c">>, <<"c", "a", "b", "c">>, None),
     Log("web", Null, "live", 21, "y", "f", TRUE, <<"a">>, <<"a", "b">>, None),
     Log("web", "h1", "dev", 13, "x", Null, FALSE, <<>>, Null, [order |-> "2"]),
     Log("web", "h2", Null, 9, Null, Null, TRUE, <<"e", "b", "c">>, Null, [order |-> Null]),
     Log("api", "h2", "prod", 9, Null, Null, FALSE, <<"A">>, Null, [order |-> "two lines"])}

Environment(name, aliases) == [name |-> name, aliases |-> aliases]

SomeSettings ==
    {[environments |-> <<>>, apps |-> None],
     [environments |-> <<Environment("prod", <<"live">>), Environment("dev", <<"prod">>)>>, apps |-> None],
     [environments |-> <<Environment("prod", <<"live">>), Environment("test", <<>>)>>,
      apps |-> [web |-> << <<"live", "test">>, <<"dev", "prod">> >>]],
     [environments |-> <<Environment("prod", <<"live">>)>>,
      apps |-> [web |-> << <<"live", "">>, <<"dev", "prod">> >>]]}

-----------------------------------------------------------------------------
Probes          == INSTANCE Probes
ProfileRequests == INSTANCE Profiles
Dashboards      == INSTANCE Dashboards
SearchBar       == INSTANCE SearchBar WITH Tokens <- SearchTokens, Settings <- AllSettings

probeVars   == <<moment, probe, turn, copy, nextRun, running, check, state, acts,
                 hourCame, missed, overtaken, wrongHour>>
profileVars == <<info, agent, looking, mishaps, taken, together>>
dashboardVars == <<board, wide, pages, save, changes>>
searchVars  == <<text, settings, stream>>
serviceVars == <<part, probeVars, profileVars, dashboardVars, searchVars>>

Init ==
    /\ part \in {"probes", "profiles", "dashboards", "searches"}
    /\ Probes!Init /\ ProfileRequests!Init /\ Dashboards!Init /\ SearchBar!Init
    /\ part # "probes" => probe = Null
    /\ part # "dashboards" => ~wide /\ Head(board.panels).id \in PrivatePanels
    /\ part # "searches" => settings = CHOOSE s \in AllSettings : TRUE

InProbes(A)     == part = "probes" /\ A /\ UNCHANGED <<part, profileVars, dashboardVars, searchVars>>
InProfiles(A)   == part = "profiles" /\ A /\ UNCHANGED <<part, probeVars, dashboardVars, searchVars>>
InDashboards(A) == part = "dashboards" /\ A /\ UNCHANGED <<part, probeVars, profileVars, searchVars>>
InSearches(A)   == part = "searches" /\ A /\ UNCHANGED <<part, probeVars, profileVars, dashboardVars>>

Next ==
    \/ InProbes(Probes!Next)
    \/ InProfiles(ProfileRequests!Next)
    \/ InDashboards(Dashboards!Next)
    \/ InSearches(SearchBar!Next)

\* The loop of the probes goes on, time passes between its turns, their checks end; somebody looks
\* at the list of the profiles from time to time.
Spec ==
    /\ Init /\ [][Next]_serviceVars
    /\ WF_serviceVars(InProbes(Probes!Loop)) /\ SF_serviceVars(InProbes(Probes!Clock))
    /\ \A t \in {"loop", "hand"} : WF_serviceVars(InProbes(Probes!EndOfTask(t)))
    /\ WF_serviceVars(InProfiles(ProfileRequests!Expiry))

-----------------------------------------------------------------------------
\* ProbeEngine: a probe that stays enabled is checked again and again.
GoesOn == Probes!GoesOn

\* ProbeEngine: a probe with fixed hours is checked at one of them; only an hour at which it was
\* paused, removed or still being checked is made up for later.
OnlyAtItsHours == part = "probes" => Probes!OnlyAtItsHours

\* ProfileStore: a request ends, with a profile or as failed.
RequestEnds == ProfileRequests!RequestEnds

\* ProfileStore: a request for any instance goes to one of them.
OneInstanceEach == part = "profiles" => ProfileRequests!OneInstanceEach

\* DashboardAccess, DashboardEndpoints: what a person does not see outlives her saves.
HiddenPanelsKept == Dashboards!HiddenPanelsKept

\* SegmentIndex: a segment that is not opened holds nothing that was asked for, but crashes without
\* a fingerprint.
PrunedHoldsNoMatch == part = "searches" => SearchBar!PrunedHoldsNoMatch

\* SearchQuery, ApiEndpoints: an open live tail shows what a search returns, but for the differences
\* that SearchBar names.
LiveAgreesWithSearch == part = "searches" => SearchBar!LiveAgreesWithSearch

=============================================================================
