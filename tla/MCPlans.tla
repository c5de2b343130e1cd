------------------------------ MODULE MCPlans ------------------------------
(* The plans of tasks in one run of TLC: the clock (TaskClock) with rules  *)
(* of every mode, without constraints, with a window, with weekdays, and   *)
(* with both, beginning on the second Tuesday, at midnight; and, on        *)
(* variables of its own, the pipeline (TaskPipeline) of one character with *)
(* a plain, a one-time and a debug task.  And how a task sees the game and *)
(* gets about in it: reading text (OcrEngine) with two threads and the     *)
(* editor, two frames that differ in fine print; a map (Navigation) of     *)
(* four environments, one with two inner places, one place that two        *)
(* environments share and one without a way to it; the login (PageRouter)  *)
(* of three of the shops; and the battles and walks of a hero (HeroBattle) *)
(* with two files of professions.  One of them, chosen at the start,       *)
(* moves; the others stay where they begin.                                *)
EXTENDS TaskClock

Tuesday == Week + Day
End == Tuesday + 2 * Week

Rule(mode, window, days) == [mode |-> mode, hours |-> 20, window |-> window, weekdays |-> days]
Both == {Rule("daily", <<10, 22>>, {5}), Rule("offset", <<10, 22>>, {1, 6, 7})}
Some == {Rule("once", <<>>, {}), Rule("weekly", <<>>, {}), Rule("offset", <<0, 3>>, {}),
         Rule("daily", <<10, 22>>, {}), Rule("daily", <<>>, {5}),
         Rule("weekly", <<>>, {1, 6, 7})} \cup Both

VARIABLES
    entriesOn, planned, frozen, exhausted, renewed, active, state, cancel, consecutive,
    lastFailed, at, mode, explicit, round, attempted, retryQueue, failedNext, run, counted,
    onlyDebug, tries, culprits, spent, owed

pipelineVars == <<entriesOn, planned, frozen, exhausted, renewed, active, state, cancel,
    consecutive, lastFailed, at, mode, explicit, round, attempted, retryQueue, failedNext, run,
    counted, onlyDebug, tries, culprits, spent, owed>>

Pipeline == INSTANCE TaskPipeline WITH
    Queue <- <<"c1">>, Order <- <<"a", "b", "c">>, Once <- {"b"}, Debug <- {"c"},
    Explicit <- {<<"c", "a">>}, MaxAttempts <- 2, MaxErrors <- 3,
    on <- entriesOn, next <- planned, pc <- at

CONSTANTS
    Threads, Http, Frames, Labels, Ttl, CacheMax, TextHorizon,      \* of OcrEngine
    EnvList, LocList, EnvsOf, Paths, Keeps, Goals, MaxLooks, MaxFaults,     \* of Navigation
    Clients, LoginSteps, MaxDialogs,                                \* of PageRouter
    Scripts, Contents, BaseFlows, Configured, Requested, Asked, Default, MaxBattle, Grace, Level,
    Zone, Starts, Strides, StepsLeft, MaxEdits                      \* of HeroBattle

\* A thread is not the event loop, and no text is looked for that says that there is none.
ASSUME TextAssumption ==
    /\ Http \notin Threads /\ "first" \notin Threads
    /\ "nothing" \notin Labels
    /\ {Ttl, CacheMax, TextHorizon} \subseteq Nat

\* The shops that there are pages for.
ASSUME LoginAssumption ==
    /\ Clients \subseteq {"H4399", "HZ4399", "DANGLE", "UC", "VIVO"}
    /\ {LoginSteps, MaxDialogs} \subseteq Nat

\* The steps of a plan have their times, and what is repeated has an interval; the flows that tasks
\* name themselves are those of Hero; and the exit's mark is somewhere.
Flows == {p \in Seq([kind : {"first", "at", "every", "each"}, after : Nat]) :
             \A i \in DOMAIN p : p[i].kind = "every" => p[i].after > 0}
ASSUME HeroAssumption ==
    /\ Scripts \in Seq(STRING)
    /\ \A c \in Contents : \A name \in DOMAIN c.flows : c.flows[name] \in Flows
    /\ \A name \in DOMAIN BaseFlows : BaseFlows[name] \in Flows
    /\ Asked \cup {Default} \subseteq DOMAIN BaseFlows
    /\ Zone \subseteq 0 .. Level /\ Zone # {}
    /\ Starts \subseteq Nat /\ Strides \subseteq Nat
    /\ {MaxBattle, Grace, Level, StepsLeft} \subseteq Nat

VARIABLES
    moves,
    init, own, cache, reader, want, image, asked, answer, ticks,
    real, covered, belief, journey, goal, target, route, looks, faults, sure, clean, wasted,
    client, screen, dialog, dialogs, login, boxes, prev, last, repeated, steps, page, game, deaf,
    disk, edits, registry, profile, given, context, hero, plan, part, rounds, fired, acts,
    elapsed, tryExit, pause, advance, pos, walked, glimpse, mark, done, gone, loaded, began, acted,
    stood

ocrVars == <<init, own, cache, reader, want, image, asked, answer, ticks>>
mapVars == <<real, covered, belief, journey, goal, target, route, looks, faults, sure, clean,
             wasted>>
loginVars == <<client, screen, dialog, dialogs, login, boxes, prev, last, repeated, steps, page,
               game, deaf>>
heroVars == <<disk, edits, registry, profile, given, context, hero, plan, part, rounds,
              fired, acts, elapsed, tryExit, pause, advance, pos, walked, glimpse, mark, done, gone,
              loaded, began, acted, stood>>
gameVars == <<ocrVars, mapVars, loginVars, heroVars>>

Ocr == INSTANCE OcrEngine WITH Horizon <- TextHorizon, pc <- reader, now <- ticks

Map == INSTANCE Navigation WITH pc <- journey

\* The environments are places, and in themselves only; what is shared by environments has paths
\* to and from them alone; and where a path between environments leaves the belief as it is, there
\* is no place to go on to.
ASSUME MapAssumption ==
    /\ EnvList \in Seq(STRING) /\ LocList \in Seq(STRING)
    /\ Map!Envs \subseteq Map!Locs /\ Map!Nowhere \notin Map!Locs
    /\ EnvsOf \in [Map!Locs -> Seq(Map!Envs) \ {<<>>}]
    /\ \A e \in Map!Envs : EnvsOf[e] = <<e>>
    /\ Paths \subseteq Map!Locs \X Map!Locs
    /\ \A p \in Paths :
        /\ p[1] # p[2]
        /\ \/ p[1] \in Map!Envs \/ p[2] \in Map!Envs
           \/ Len(EnvsOf[p[1]]) = 1 /\ Len(EnvsOf[p[2]]) = 1
    /\ \A p \in Keeps \cap Map!EnvPaths : Map!LocPaths(p[2]) = {}
    /\ Goals \subseteq Seq(Map!Locs) \ {<<>>}
    /\ {MaxLooks, MaxFaults} \subseteq Nat

Login == INSTANCE PageRouter WITH MaxSteps <- LoginSteps, pc <- login

When(kind, after) == [kind |-> kind, after |-> after]
Script(profession, flows, fails) == [profession |-> profession, flows |-> flows, fails |-> fails]
Own == Script("liuli", [own |-> <<When("each", 0)>>], "no")
Late == Script("liuli", <<>>, "late")
Other == Script("other", [theirs |-> <<When("every", 2), When("each", 0)>>], "no")

\* The values that TLC takes for the constants.
TwoFrames == {[ground |-> "g", label |-> "a", fine |-> FALSE],
              [ground |-> "g", label |-> "b", fine |-> TRUE]}
TwoScripts == <<"pros", "data">>
FourContents == {Own, Late, Other, Script("liuli", <<>>, "early")}
FourEnvs == <<"village", "north", "world", "heaven">>
EightLocs == FourEnvs \o <<"heaven1", "heaven2", "bag", "tower">>
FourMaps ==
    [village |-> <<"village">>, north |-> <<"north">>, world |-> <<"world">>,
     heaven |-> <<"heaven">>, heaven1 |-> <<"heaven">>, heaven2 |-> <<"heaven">>,
     bag |-> <<"village", "north">>, tower |-> <<"world">>]
ToWorld == {<<"village", "world">>, <<"north", "world">>, <<"heaven", "world">>}
Ways == ToWorld \cup
    {<<"world", "village">>, <<"world", "north">>, <<"world", "heaven">>,
     <<"heaven", "village">>, <<"village", "bag">>, <<"bag", "village">>,
     <<"north", "bag">>, <<"bag", "north">>, <<"heaven", "heaven1">>,
     <<"heaven1", "heaven">>, <<"heaven", "heaven2">>, <<"heaven2", "heaven">>,
     <<"heaven1", "heaven2">>, <<"heaven2", "heaven1">>}
SixGoals == {<<"tower">>, <<"bag">>, <<"heaven2">>, <<"north">>, <<"heaven1", "village">>,
             <<"heaven", "village", "north">>}
OneFlow == [fight |-> <<When("first", 0), When("at", 1), When("at", 1), When("every", 2),
                        When("each", 0)>>]

Hero == INSTANCE HeroBattle WITH
    MaxSteps <- StepsLeft, at <- hero, step <- part, round <- rounds, last <- acts, steps <- walked

\* What stays where it begins, begins in one way.
GameInit ==
    /\ Ocr!Init
    /\ Map!Init
    /\ moves = "map" \/ (belief = Map!Unknown /\ real = [env |-> "village", loc |-> "village"])
    /\ Login!Init
    /\ moves = "login" \/ (client = "UC" /\ game = "selecting")
    /\ Hero!Init
    /\ \/ disk = [pros |-> Own, data |-> Late]
       \/ moves = "hero" /\ disk \in {[pros |-> Other, data |-> Own],
                                     [pros |-> Own, data |-> Hero!Absent]}

GameNext ==
    \/ moves = "ocr" /\ Ocr!Next /\ UNCHANGED <<mapVars, loginVars, heroVars>>
    \/ moves = "map" /\ Map!Next /\ UNCHANGED <<ocrVars, loginVars, heroVars>>
    \/ moves = "login" /\ Login!Next /\ UNCHANGED <<ocrVars, mapVars, heroVars>>
    \/ moves = "hero" /\ Hero!Next /\ UNCHANGED <<ocrVars, mapVars, loginVars>>

\* See OcrIsSound of OcrEngine, NavigationIsSound of Navigation, LoginIsSound of PageRouter and
\* HeroIsSound of HeroBattle.
GameIsReached ==
    /\ moves = "ocr" => Ocr!OcrIsSound
    /\ moves = "map" => Map!NavigationIsSound
    /\ moves = "login" => Login!LoginIsSound
    /\ moves = "hero" => Hero!HeroIsSound

\* What stays where it begins, begins in one way.
MCInit ==
    /\ moves \in {"clock", "pipeline", "ocr", "map", "login", "hero"}
    /\ Init
    /\ moves = "clock" \/ rule = Rule("once", <<>>, {})
    /\ Pipeline!Init
    /\ moves = "pipeline" \/ (entriesOn = {} /\ \A e \in DOMAIN planned : planned[e] = "past")
    /\ GameInit

MCSpec ==
    /\ MCInit
    /\ [][ /\ moves' = moves
           /\ \/ moves = "clock" /\ Next /\ UNCHANGED <<pipelineVars, gameVars>>
              \/ moves = "pipeline" /\ Pipeline!Next /\ UNCHANGED <<vars, gameVars>>
              \/ GameNext /\ UNCHANGED <<vars, pipelineVars>> ]_<<vars, moves, pipelineVars,
                                         gameVars>>

\* With one character, see QueuesAreSound and the properties of these names in TaskPipeline.
PipelineIsSound == moves = "pipeline" => Pipeline!QueuesAreSound
SamePlanSkipped == Pipeline!SamePlanSkipped

\* What is due is run in the order the queues have, and a task that runs gets to where it has to.
PlansAreCarriedOut == PipelineIsSound /\ GameIsReached
=============================================================================
