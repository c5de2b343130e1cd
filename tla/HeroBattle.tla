----------------------------- MODULE HeroBattle -----------------------------
(* How a task fights (data/character/hero.py, ZmxyOL/character/plan.py): the *)
(* scripts of the professions and the flows they register, the flow a battle *)
(* is fought by, its rounds with steps that have their times, and the walk   *)
(* to the exit of the level.  What the monitor watches for in a battle is in *)
(* BattleWatch; here its signals come at any time.                           *)
EXTENDS Integers, Sequences, FiniteSetsExt

CONSTANTS
    Scripts,        \* the files with professions, in the order in which they are executed
    Contents,       \* what a file may hold: [profession, flows, fails]
    BaseFlows,      \* the flows of Hero: name |-> plan, a sequence of [kind, after]
    Configured,     \* the professions that game.game_profession names
    Requested,      \* what the task's page asks for: names of flows, also of those that are gone
    Asked,          \* the flows the tasks name themselves
    Default,        \* the flow of a battle that names none
    MaxBattle,      \* battle_loop's max_duration
    Grace,          \* battle_loop's advance_grace_sec
    Level,          \* the right end of a level; its left end is 0
    Zone,           \* the places of the exit's mark
    Starts,         \* where the walk to the exit sets out from
    Strides,        \* how far a step to the left may get
    MaxSteps,       \* way_to_exit: the steps to the left
    MaxEdits        \* bound: changes of the files

VARIABLES
    disk,       \* the files: script |-> content, Absent
    edits,
    registry,   \* _hero_registry but for "default": profession |-> class
    profile,    \* h.__class__
    given,      \* the flow that the page gives the task, NoFlow
    context,    \* h.task_context_battle_flow
    at,
    plan,       \* the flow of the battle
    step,       \* the step of the plan that comes next
    round, fired, last, elapsed,
    tryExit, pause, advance,
    pos, steps, glimpse, mark, done, gone,
    \* history
    loaded,     \* the files when the scripts were executed last
    began,      \* elapsed when the last round began
    acted,      \* step |-> how often it acted in this battle, and when last
    stood       \* the last look saw the mark, and no step was made since

registryVars == <<disk, edits, registry, loaded>>
battleVars == <<plan, step, round, fired, last, elapsed, tryExit, pause, advance, began, acted>>
walkVars == <<pos, steps, glimpse, mark, done, gone, stood>>
vars == <<registryVars, profile, given, context, at, battleVars, walkVars>>

Absent == [profession |-> "none", flows |-> <<>>, fails |-> "absent"]
NoFlow == "no flow"
Base == [file |-> "hero", flows |-> <<>>]
Clear == [n |-> 0, when |-> 0]

-----------------------------------------------------------------------------
(* Professions and flows.                                                    *)

\* Executing the scripts of `todo` in their order: each class takes the place of an earlier one of
\* its profession.  A script may fail before or after its class is made.
Registers(f) == disk[f] # Absent /\ disk[f].fails # "early"
Executed(todo) ==
    LET makers(p) == {i \in DOMAIN Scripts : Scripts[i] \in todo /\ Registers(Scripts[i])
                                            /\ disk[Scripts[i]].profession = p}
        made == {disk[f].profession : f \in {f \in todo : Registers(f)}}
    IN  [p \in made |->
            LET f == Scripts[Max(makers(p))] IN [file |-> f, flows |-> disk[f].flows]]

Present == {f \in DOMAIN disk : disk[f] # Absent}

ClassOf(profession) == IF profession \in DOMAIN registry THEN registry[profession] ELSE Base

\* Mutant: a flow of any profession will do.
ResolveAnywhere(class, name) ==
    LET all == {class} \cup {registry[p] : p \in DOMAIN registry}
        having == {c \in all : name \in DOMAIN c.flows}
    IN  IF having # {} THEN <<(CHOOSE c \in having : TRUE).flows[name]>>
        ELSE IF name \in DOMAIN BaseFlows THEN <<BaseFlows[name]>> ELSE <<>>

\* _resolve_flow, along the classes: <<plan>>, <<>> if there is none.
Resolve(class, name) ==
    IF name \in DOMAIN class.flows THEN <<class.flows[name]>>
    ELSE IF name \in DOMAIN BaseFlows THEN <<BaseFlows[name]>>
    ELSE <<>>

\* The files are read by no battle and no walk: a change during one is made after it.
Edit ==
    /\ edits < MaxEdits /\ at \in {"idle", "task"}
    /\ \E i \in DOMAIN Scripts, c \in Contents \cup {Absent} :
        disk' = [disk EXCEPT ![Scripts[i]] = c]
    /\ edits' = edits + 1
    /\ UNCHANGED <<registry, loaded, profile, given, context, at, battleVars, walkVars>>

\* reload_character_modules, with no task running: everything is forgotten, and executed again.
Reload ==
    /\ at = "idle"
    /\ registry' = Executed(Present)
    /\ loaded' = disk
    /\ profile' = Base
    /\ UNCHANGED <<disk, edits, given, context, at, battleVars, walkVars>>

\* resolve_battle_flow_for_profile
OfProfile(class, name) ==
    IF name # NoFlow /\ Resolve(class, name) # <<>> THEN name ELSE NoFlow

\* task_wrapper, _apply_task_battle_startup.
StartTask ==
    /\ at = "idle"
    /\ \E profession \in Configured, name \in Requested :
        /\ profile' = ClassOf(profession)
        /\ given' = name
        /\ context' = OfProfile(ClassOf(profession), name)
    /\ at' = "task"
    /\ UNCHANGED <<registryVars, battleVars, walkVars>>

\* The task ends, in whatever way: _clear_task_battle_startup.
EndTask ==
    /\ at \in {"task", "over", "back", "no flow", "failed"}
    /\ at' = "idle" /\ given' = NoFlow /\ context' = NoFlow
    /\ pos' = 0 /\ steps' = 0 /\ glimpse' = FALSE /\ mark' = FALSE /\ done' = FALSE
    /\ gone' = FALSE /\ stood' = FALSE
    /\ UNCHANGED <<registryVars, profile, battleVars>>

-----------------------------------------------------------------------------
(* battle_loop.                                                              *)
\* The flow the task asks for itself, else the one of its page, else the default.  Some tasks ask
\* for the one of their page, as it was given.
EffectiveFlow(asked) ==
    IF asked # NoFlow THEN asked ELSE IF context # NoFlow THEN context ELSE Default

Fresh == round' = 0 /\ fired' = {} /\ last' = <<>>

BeginBattle ==
    /\ at \in {"task", "over"}
    /\ \E asked \in Asked \cup {NoFlow, given} :
        LET found == Resolve(profile, EffectiveFlow(asked)) IN
        IF found = <<>>
        THEN at' = NoFlow /\ UNCHANGED <<plan, acted>>
        ELSE /\ at' = "head" /\ plan' = found[1]
             /\ acted' = [i \in DOMAIN found[1] |-> Clear]
    /\ step' = 1 /\ Fresh /\ elapsed' = 0 /\ began' = 0
    /\ tryExit' = FALSE /\ pause' = FALSE /\ advance' = FALSE
    /\ UNCHANGED <<registryVars, profile, given, context, walkVars>>

\* The loop is left: its `finally`.  What its next entry sets again is forgotten here.
Leave(end) ==
    /\ at' = end /\ Fresh /\ step' = 1
    /\ plan' = <<>> /\ elapsed' = 0 /\ began' = 0 /\ acted' = <<>>
    /\ tryExit' = FALSE /\ pause' = FALSE /\ advance' = FALSE

LoopHead ==
    /\ at = "head"
    /\ \/ tryExit /\ Leave("over")
       \/ ~tryExit /\ Leave("failed")      \* the run is cancelled
       \/ ~tryExit /\ elapsed > MaxBattle /\ Leave("failed")
       \/ /\ ~tryExit /\ elapsed <= MaxBattle
          /\ \/ /\ pause
                /\ elapsed' = elapsed + 1
                /\ UNCHANGED <<at, step, advance, began>>
             \/ /\ ~pause /\ advance /\ elapsed >= Grace
                /\ advance' = FALSE /\ elapsed' = elapsed + 1     \* travel()
                /\ UNCHANGED <<at, step, began>>
             \/ /\ ~pause /\ (advance => elapsed < Grace)
                /\ advance' = FALSE
                /\ at' = "flow" /\ step' = 1 /\ began' = elapsed
                /\ UNCHANGED elapsed
          /\ UNCHANGED <<plan, round, fired, last, tryExit, pause, acted>>
    /\ UNCHANGED <<registryVars, profile, given, context, walkVars>>

\* Mutant: steps of the same time share what has been done.
KeyOfTime(i) == <<plan[i].kind, plan[i].after>>

\* BattlePlan._add: each step has a key of its own.
KeyOf(i) == <<plan[i].kind, i>>

LastOf(i) == IF KeyOf(i) \in DOMAIN last THEN last[KeyOf(i)] ELSE 0

\* Hero.first_round, once_at and every: whether the step acts.
Acts(i) ==
    CASE plan[i].kind = "first" -> round = 0
      [] plan[i].kind = "at" -> elapsed >= plan[i].after /\ KeyOf(i) \notin fired
      [] plan[i].kind = "every" -> elapsed - LastOf(i) >= plan[i].after
      [] plan[i].kind = "each" -> TRUE

TakeStep ==
    /\ at = "flow" /\ step <= Len(plan)
    /\ IF Acts(step)
       THEN /\ fired' = IF plan[step].kind = "at" THEN fired \cup {KeyOf(step)} ELSE fired
            /\ last' = IF plan[step].kind # "every" THEN last
                       ELSE [k \in DOMAIN last \cup {KeyOf(step)} |->
                                IF k = KeyOf(step) THEN elapsed ELSE last[k]]
            /\ acted' = [acted EXCEPT ![step] = [n |-> @.n + (IF plan[step].kind \in {"first", "at"}
                                                              THEN 1 ELSE 0), when |-> elapsed]]
            /\ elapsed' \in {elapsed, elapsed + 1}
       ELSE UNCHANGED <<fired, last, acted, elapsed>>
    /\ step' = step + 1
    /\ UNCHANGED <<registryVars, profile, given, context, at, plan, round, tryExit, pause,
                   advance, began, walkVars>>

\* A step raises: the run is cancelled, or the screen is not as expected.
StepFails ==
    /\ at = "flow" /\ step <= Len(plan) /\ Leave("failed")
    /\ UNCHANGED <<registryVars, profile, given, context, walkVars>>

NextRound == IF round = 0 THEN 1 ELSE round     \* only the first one is told apart

EndRound ==
    /\ at = "flow" /\ step > Len(plan)
    /\ at' = "head" /\ round' = NextRound
    /\ UNCHANGED <<registryVars, profile, given, context, plan, step, fired, last, elapsed, tryExit,
                   pause, advance, began, acted, walkVars>>

\* The monitor's callbacks: the end of the battle, a pause and its end, the way on.  They are read
\* by the head of the loop, and come before it.
Signalled ==
    /\ at = "head"
    /\ \/ ~tryExit /\ tryExit' = TRUE /\ UNCHANGED <<pause, advance>>
       \/ pause' = ~pause /\ UNCHANGED <<tryExit, advance>>
       \/ ~advance /\ advance' = TRUE /\ UNCHANGED <<tryExit, pause>>
    /\ UNCHANGED <<registryVars, profile, given, context, at, plan, step, round, fired, last, elapsed,
                   began, acted, walkVars>>

-----------------------------------------------------------------------------
(* way_to_exit.                                                              *)
walkRests == <<registryVars, profile, given, context, battleVars>>
Walking == at \in {"look", "left", "leftWait", "leftLook", "right", "rightLook", "hold"}
OnMark == pos \in Zone /\ ~gone

\* To the right end and back, before the mark is watched for; then the first look.
SetOut ==
    /\ at = "over"
    /\ pos' \in Starts
    /\ at' = "look" /\ steps' = 0
    /\ glimpse' = FALSE /\ mark' = FALSE /\ done' = FALSE /\ gone' = FALSE /\ stood' = FALSE
    /\ UNCHANGED walkRests

\* The three looks of the walk; a look that finds the mark ends it, after a while.
Look(otherwise) ==
    IF OnMark THEN at' = "hold" /\ stood' = TRUE ELSE at' = otherwise /\ stood' = FALSE

FirstLook ==
    /\ at = "look"
    /\ IF done THEN at' = "back" /\ UNCHANGED stood ELSE Look("left")
    /\ UNCHANGED <<walkRests, pos, steps, glimpse, mark, done, gone>>

\* The head of both loops: the end is tested, and the time.
Ended == IF done THEN at' = "back" ELSE at' = "failed"

\* Where a step from `pos` to `to` leads past the mark, the monitor may get to see it.
Moves(to) ==
    /\ pos' = IF gone THEN pos ELSE to
    /\ glimpse' \in {glimpse, glimpse \/ (~gone /\ ((pos..to) \cup (to..pos)) \cap Zone # {})}
    /\ stood' = FALSE

StepLeft ==
    /\ at = "left"
    /\ \/ ~done /\ steps < MaxSteps /\ \E d \in Strides : Moves(IF pos >= d THEN pos - d ELSE 0)
          /\ at' = "leftWait"
       \/ steps < MaxSteps /\ Ended /\ UNCHANGED <<pos, glimpse, stood>>
       \/ steps = MaxSteps /\ at' = "right" /\ UNCHANGED <<pos, glimpse, stood>>
    /\ UNCHANGED <<walkRests, steps, mark, done, gone>>

\* The monitor's mark is waited for, for a short time.
WaitMark ==
    /\ at = "leftWait"
    /\ IF mark THEN at' = "leftLook" /\ UNCHANGED steps
       ELSE at' = "left" /\ steps' = steps + 1
    /\ UNCHANGED <<walkRests, pos, glimpse, mark, done, gone, stood>>

\* Mutant: what the monitor has seen is enough.
SeenIsEnough ==
    /\ at = "leftLook" /\ at' = "hold"
    /\ UNCHANGED <<walkRests, walkVars>>

LeftLook ==
    /\ at = "leftLook" /\ Look("right")
    /\ UNCHANGED <<walkRests, pos, steps, glimpse, mark, done, gone>>

StepRight ==
    /\ at = "right"
    /\ \/ ~done /\ Moves(IF pos < Level THEN pos + 1 ELSE Level) /\ at' = "rightLook"
       \/ Ended /\ UNCHANGED <<pos, glimpse, stood>>
    /\ UNCHANGED <<walkRests, steps, mark, done, gone>>

RightLook ==
    /\ at = "rightLook" /\ Look("right")
    /\ UNCHANGED <<walkRests, pos, steps, glimpse, mark, done, gone>>

\* The end is waited for while the mark is shown; whether it comes is not asked.
Hold ==
    /\ at = "hold" /\ at' = "back"
    /\ UNCHANGED <<walkRests, walkVars>>

\* The game lets a hero go who stands on the mark.
GameLetsGo ==
    /\ Walking /\ OnMark /\ gone' = TRUE
    /\ UNCHANGED <<walkRests, at, pos, steps, glimpse, mark, done, stood>>

\* The monitor's two callbacks, each some time after the frame.
MonitorSees ==
    /\ Walking
    /\ \/ OnMark /\ ~glimpse /\ glimpse' = TRUE /\ UNCHANGED <<mark, done>>
       \/ glimpse /\ ~mark /\ mark' = TRUE /\ UNCHANGED <<glimpse, done>>
       \/ gone /\ ~done /\ done' = TRUE /\ UNCHANGED <<glimpse, mark>>
    /\ UNCHANGED <<walkRests, at, pos, steps, gone, stood>>

-----------------------------------------------------------------------------
\* The scripts are executed when the tasks' parameters are made, before any task.
Init ==
    /\ disk \in [{Scripts[i] : i \in DOMAIN Scripts} -> Contents \cup {Absent}]
    /\ edits = 0
    /\ registry = Executed(Present) /\ loaded = disk
    /\ profile = Base /\ given = NoFlow /\ context = NoFlow /\ at = "idle"
    /\ plan = <<>> /\ step = 1 /\ round = 0 /\ fired = {} /\ last = <<>> /\ elapsed = 0
    /\ tryExit = FALSE /\ pause = FALSE /\ advance = FALSE /\ began = 0 /\ acted = <<>>
    /\ pos = 0 /\ steps = 0 /\ glimpse = FALSE /\ mark = FALSE /\ done = FALSE /\ gone = FALSE
    /\ stood = FALSE

Next ==
    \/ Edit \/ Reload \/ StartTask \/ EndTask
    \/ BeginBattle \/ LoopHead \/ TakeStep \/ StepFails \/ EndRound \/ Signalled
    \/ SetOut \/ FirstLook \/ StepLeft \/ WaitMark \/ LeftLook \/ StepRight \/ RightLook \/ Hold
    \/ GameLetsGo \/ MonitorSees

Spec == Init /\ [][Next]_vars

-----------------------------------------------------------------------------
\* A battle is always fought by a flow of the hero's own profession, as its file was when the
\* scripts were executed, or by Hero's; a flow that the page still names and that is gone, or is
\* another profession's, is not taken, and is missed only by a task that asks for it itself.
FlowIsOfTheProfile ==
    /\ at \in {"head", "flow"} =>
        \/ \E name \in DOMAIN BaseFlows : plan = BaseFlows[name]
        \/ /\ loaded[profile.file] # Absent
           /\ \E name \in DOMAIN loaded[profile.file].flows :
                plan = loaded[profile.file].flows[name]
    /\ at = NoFlow => Resolve(profile, given) = <<>>
    /\ context # NoFlow => context = given /\ Resolve(profile, context) # <<>>

\* In a battle, what comes first comes in the first round only; what has a time comes once, not
\* before it, and is not left out by a round that began after it; what is repeated comes in the
\* first round after each interval.  No round begins after the battle's time.
PlanIsKept ==
    /\ at \in {"head", "flow"} => \A i \in DOMAIN plan :
        LET over == at = "head" /\ round > 0 IN
        /\ acted[i].n <= 1
        /\ plan[i].kind = "first" /\ over => acted[i].n = 1
        /\ plan[i].kind = "at" =>
            /\ acted[i].n = 1 => acted[i].when >= plan[i].after
            /\ over /\ began >= plan[i].after => acted[i].n = 1
        /\ plan[i].kind = "every" /\ over => began - acted[i].when < plan[i].after
    /\ at = "flow" => began <= MaxBattle
    /\ ~(at \in {"head", "flow"}) => round = 0 /\ fired = {} /\ last = <<>>

\* The walk ends well only after the end was seen or with the hero on the mark; and one who goes
\* back to the right has the mark before him, unless the steps to the left were used up.
WalkEndsAtTheExit ==
    /\ at = "back" => done \/ stood
    /\ at \in {"right", "rightLook"} /\ ~gone /\ steps < MaxSteps => pos <= Max(Zone)

\* All of the above.
HeroIsSound == FlowIsOfTheProfile /\ PlanIsKept /\ WalkEndsAtTheExit
=============================================================================
