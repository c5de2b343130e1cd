---------------------------- MODULE BattleWatch ----------------------------
(***************************************************************************)
(* The background monitor (AutoScriptor/core/background.py) and a battle   *)
(* under its watch: callbacks that a task registers for what may appear on *)
(* the screen, and the threads that look for it and run them.              *)
(*                                                                         *)
(* The monitor's thread looks at one screenshot per round, first for the   *)
(* concurrent callbacks, then for the regular ones by priority.  While a   *)
(* regular callback runs, a checker thread goes on looking for the         *)
(* concurrent ones; the monitor waits two seconds for it to end and then   *)
(* leaves it to itself.  The table is under a lock, but a callback runs    *)
(* outside it, and so do the screenshot and the recognition.               *)
(*                                                                         *)
(* What is on the screen is a choice: any of the targets looked for may be *)
(* found, or none, which also stands for a callback within its throttle    *)
(* and for a screenshot or a recognition that fails.  Of the signals only  *)
(* TRY_EXIT is kept: the others change what a battle does, not when it     *)
(* ends.                                                                   *)
(*                                                                         *)
(* The task follows the battle procedures (_run_kunlunshan_round,          *)
(* heaven_battle): a scope with the script's callbacks, inside it          *)
(* Hero.battle_loop, which resets the signals, protects the table from     *)
(* clear() and watches with two callbacks of its own until TRY_EXIT.       *)
(* A callback runs on the monitor's thread while the task goes on, and     *)
(* may register further callbacks through the script's scope.              *)
(***************************************************************************)
EXTENDS Integers, Sequences, FiniteSets

CONSTANTS
    Names,       \* the names under which callbacks are registered
    Precedence,  \* all of them, the highest priority first
    Once,        \* the ones registered with once=True
    Concurrent,  \* the ones registered with allow_concurrent=True
    Bodies,      \* what a callback may do: per name, a set of sequences of
                 \* effects, which are to set TRY_EXIT or to register a name
    Checkers,    \* bound: the checker threads that can be alive at a time
    Gens,        \* bound: per name, the registrations that can be in use at a time
    Script,      \* the names the script registers, in order
    Builtins,    \* the names battle_loop registers, in order
    Signs        \* the names whose targets stay on the screen once they appear

Threads == Checkers \cup {"monitor"}

\* A registration is the info dict that _register_callback makes.  Two of the
\* same name are different objects: the second component tells them apart.
Infos == UNION {{n} \X (1 .. Gens[n]) : n \in Names}

Effects == {"exit"} \cup Names

ASSUME NamesAssumption ==
    /\ Names = {Precedence[k] : k \in DOMAIN Precedence}
    /\ Len(Precedence) = Cardinality(Names)
    /\ Once \cup Concurrent \subseteq Names
ASSUME BodiesAssumption ==
    /\ DOMAIN Bodies = Names /\ "exit" \notin Names
    /\ \A n \in Names : Bodies[n] \subseteq Seq(Effects) /\ Bodies[n] # {}
ASSUME BoundsAssumption ==
    Gens \in [Names -> Nat \ {0}] /\ IsFiniteSet(Checkers) /\ Checkers \cap {"monitor", "task"} = {}
ASSUME ScriptAssumption ==
    /\ Script \in Seq(Names) \ {<<>>} /\ Builtins \in Seq(Names) \ {<<>>}
    /\ Signs \subseteq Names \ Concurrent

\* The battle's own callbacks: each has a name of its own, stays when it has run, and no
\* callback registers one of its name (hero.py, _setup_builtin_triggers).
Own == {Builtins[k] : k \in DOMAIN Builtins}

ASSUME OwnAssumption ==
    /\ \A j, k \in DOMAIN Builtins : j # k => Builtins[j] # Builtins[k]
    /\ Own \cap Once = {}
    /\ \A n \in Names : Bodies[n] \subseteq Seq(Effects \ Own)

VARIABLES
    table,       \* _callbacks: per name the registration in force, 0 if none
    tryExit,     \* the signal TRY_EXIT
    protect,     \* _external_clear_protect_count
    inCallback,  \* _in_callback
    snapshot,    \* the monitor's copy of the table, made at the top of a round
    at,          \* where each thread is
    batch,       \* per thread: the matches of its screenshot still to be answered
    todo,        \* per thread: the rest of the callback it is running
    fired,       \* history: the names in the table whose callback, a regular one that
                 \* is to run once, has been answered
    items,       \* the registrations of the script's scope and of the builtin one
    late         \* history: the names in the table whose callback was registered through a
                 \* scope whose exit had begun

vars == <<table, tryExit, protect, inCallback, snapshot, at, batch, todo, fired,
          items, late>>

Goto(t, label) == at' = [at EXCEPT ![t] = label]

Current(i) == table[i[1]] = i[2]
Registered == {i \in Infos : Current(i)}

\* The threads that hold a registration they have read from the table.
InHand == snapshot \cup UNION {{batch[t][k] : k \in DOMAIN batch[t]} : t \in Threads}

-----------------------------------------------------------------------------
(* The table.                                                              *)

\* A registration of n that nobody refers to any more; `kept` are those that
\* the task's scopes refer to.
Unused(n, kept) == {g \in 1 .. Gens[n] : <<n, g>> \notin InHand \cup Registered \cup kept}

\* _register_callback: replaces a callback of the same name.
Register(i) ==
    /\ table' = [table EXCEPT ![i[1]] = i[2]]
    /\ fired' = fired \ {i[1]}

\* remove(name, expected_info): only the very registration is removed.
Remove(i) ==
    IF Current(i)
    THEN table' = [table EXCEPT ![i[1]] = 0] /\ fired' = fired \ {i[1]}
    ELSE UNCHANGED <<table, fired>>

Nothing == [n \in Names |-> 0]

\* Mutant: the protection is not looked at.
ClearAnyway == TRUE

\* clear(): ignored while a battle is protected, unless a callback asks for it.
MayClear == protect = 0

\* clear(clear_signals=True) from a thread that runs no callback.
Clear ==
    /\ MayClear
    /\ table' = Nothing
    /\ tryExit' = FALSE /\ fired' = {}
    /\ UNCHANGED <<protect, inCallback, snapshot>>

-----------------------------------------------------------------------------
(* Looking at the screen.                                                  *)

\* Some of what is offered, found on one screenshot, by priority.
Rank(i) == CHOOSE k \in DOMAIN Precedence : Precedence[k] = i[1]
InOrder(offered) ==
    {found \in UNION {[1 .. n -> offered] : n \in 0 .. Cardinality(offered)} :
        \A j, k \in DOMAIN found : j < k => Rank(found[j]) < Rank(found[k])}

\* run(): a round begins with a copy of the table, of which the regular callbacks
\* are used.
Snapshot ==
    /\ at["monitor"] = "top"
    /\ Registered # {}
    /\ snapshot' = {i \in Registered : i[1] \notin Concurrent}
    /\ Goto("monitor", "scan")
    /\ UNCHANGED <<table, tryExit, protect, inCallback, batch, todo, fired>>

\* Where a thread goes on with the matches that are left: when there are none, the
\* monitor turns to the regular callbacks and then to the next round.
Onward(t, kind, left) ==
    IF left # <<>> THEN kind
    ELSE IF t \in Checkers THEN "loop"
    ELSE IF kind = "concurrent" THEN "rows" ELSE "top"

\* _locate_all on one screenshot: the matches among what is offered.
Look(t, found, label) ==
    /\ batch' = [batch EXCEPT ![t] = found]
    /\ Goto(t, Onward(t, label, found))
    /\ UNCHANGED <<table, tryExit, protect, inCallback, todo, fired>>

\* _check_concurrent, which takes its own copy of the table; the checker's loop
\* comes here as long as a regular callback runs.
LookConcurrent(t) ==
    /\ \/ t = "monitor" /\ at[t] = "scan"
       \/ t \in Checkers /\ at[t] = "loop" /\ inCallback
    /\ \E found \in InOrder({i \in Registered : i[1] \in Concurrent}) :
          Look(t, found, "concurrent")
    /\ UNCHANGED snapshot

\* run(): one look for the regular callbacks of the round's copy.
LookRegular(found) ==
    /\ at["monitor"] = "rows"
    /\ Look("monitor", found, "regular")
    /\ snapshot' = {}

-----------------------------------------------------------------------------
(* Answering the matches, one after the other.                             *)

Answering(t) == at[t] \in {"concurrent", "regular"}
First(t) == Head(batch[t])

\* _callback_is_current: the match of a callback that is gone is dropped.
Drop(t) ==
    /\ Answering(t)
    /\ ~Current(First(t))
    /\ batch' = [batch EXCEPT ![t] = Tail(@)]
    /\ Goto(t, Onward(t, at[t], Tail(batch[t])))
    /\ UNCHANGED <<table, tryExit, protect, inCallback, snapshot, todo, fired>>

\* It is still there, and its callback begins; from here on nothing keeps it from
\* running.  A regular one starts a checker.  A callback that would register one more
\* of a name than Gens allows takes another course.
Fire(t, kept) ==
    /\ Answering(t)
    /\ Current(First(t))
    /\ \E body \in Bodies[First(t)[1]] :
         /\ \A k \in DOMAIN body : body[k] \in Names => Unused(body[k], kept) # {}
         /\ todo' = [todo EXCEPT ![t] = body]
    /\ \/ /\ First(t)[1] \in Concurrent
          /\ Goto(t, "body")
          /\ UNCHANGED inCallback
       \/ /\ First(t)[1] \notin Concurrent
          /\ inCallback' = TRUE
          /\ \E c \in Checkers : /\ at[c] = "off"
                                 /\ at' = [at EXCEPT ![t] = "body", ![c] = "loop"]
    /\ fired' = IF First(t)[1] \in Once \ Concurrent THEN fired \cup {First(t)[1]} ELSE fired
    /\ UNCHANGED <<table, tryExit, protect, snapshot, batch>>

InBody(t) == at[t] = "body" /\ todo[t] # <<>>
NextEffect(t) == todo' = [todo EXCEPT ![t] = Tail(@)]

\* set_signal(TRY_EXIT, True) from a callback.
SignalExit(t) ==
    /\ InBody(t) /\ Head(todo[t]) = "exit"
    /\ tryExit' = TRUE
    /\ NextEffect(t)
    /\ UNCHANGED <<table, protect, inCallback, snapshot, at, batch, fired>>

Finished(t) == at[t] = "body" /\ todo[t] = <<>>

\* A regular callback is over, by a return or by an exception; its checker is told.
Return ==
    /\ Finished("monitor") /\ First("monitor")[1] \notin Concurrent
    /\ inCallback' = FALSE
    /\ Goto("monitor", "join")
    /\ UNCHANGED <<table, tryExit, protect, snapshot, batch, todo, fired>>

\* Mutant: a callback that is to run once stays in the table.
SettleKeeping(t) ==
    /\ \/ at[t] = "join"
       \/ Finished(t) /\ First(t)[1] \in Concurrent
    /\ batch' = [batch EXCEPT ![t] = Tail(@)]
    /\ Goto(t, Onward(t, IF First(t)[1] \in Concurrent THEN "concurrent" ELSE "regular",
                      Tail(batch[t])))
    /\ UNCHANGED <<table, fired, tryExit, protect, inCallback, snapshot, todo>>

\* After a regular callback the monitor joins the checker, which has ended or is left
\* to itself after two seconds.  A callback that is to run once is then removed,
\* unless it has been replaced.
Settle(t) ==
    /\ \/ at[t] = "join"
       \/ Finished(t) /\ First(t)[1] \in Concurrent
    /\ IF First(t)[1] \in Once THEN Remove(First(t)) ELSE UNCHANGED <<table, fired>>
    /\ batch' = [batch EXCEPT ![t] = Tail(@)]
    /\ Goto(t, Onward(t, IF First(t)[1] \in Concurrent THEN "concurrent" ELSE "regular",
                      Tail(batch[t])))
    /\ UNCHANGED <<tryExit, protect, inCallback, snapshot, todo>>

\* _concurrent_loop ends when it finds that no regular callback is running.
EndLoop(c) ==
    /\ at[c] = "loop" /\ ~inCallback
    /\ Goto(c, "off")
    /\ UNCHANGED <<table, tryExit, protect, inCallback, snapshot, batch, todo, fired>>

\* What a thread does next; registering is up to whoever knows the scopes.
ThreadStep(t, kept) ==
    \/ LookConcurrent(t)
    \/ Drop(t) \/ Fire(t, kept) \/ SignalExit(t) \/ Settle(t)
    \/ t = "monitor" /\ (Snapshot \/ Return \/ \E found \in InOrder(snapshot) : LookRegular(found))
    \/ t \in Checkers /\ EndLoop(t)

-----------------------------------------------------------------------------
\* What the scopes refer to; while a scope is left, the list it still has to remove.
Kept == {items.script[k] : k \in DOMAIN items.script}
        \cup {items.builtin[k] : k \in DOMAIN items.builtin}
        \cup (IF at["task"] \in {"unwatch", "leaving"}
              THEN {todo["task"][k] : k \in DOMAIN todo["task"]} ELSE {})

Init ==
    /\ table = Nothing /\ tryExit = FALSE /\ protect = 0
    /\ inCallback = FALSE /\ snapshot = {} /\ fired = {}
    /\ at = [t \in Threads \cup {"task"} |->
                CASE t = "monitor" -> "top" [] t = "task" -> "idle" [] OTHER -> "off"]
    /\ batch = [t \in Threads |-> <<>>]
    /\ todo = [t \in Threads \cup {"task"} |-> <<>>]
    /\ items = [script |-> <<>>, builtin |-> <<>>]
    /\ late = {}

Task(from, to) == at["task"] = from /\ Goto("task", to)
Plan(list) == todo' = [todo EXCEPT !["task"] = list]

-----------------------------------------------------------------------------
(* The task.                                                               *)

\* _run_kunlunshan_round begins: TRY_EXIT is reset and a scope is opened.
StartRound ==
    /\ Task("idle", "adding")
    /\ tryExit' = FALSE
    /\ Plan(Script)
    /\ UNCHANGED <<table, protect, inCallback, snapshot, batch, fired, items, late>>

\* scope.add() of the script and of _setup_builtin_triggers.
Add(from, to, scope) ==
    /\ at["task"] = from /\ todo["task"] # <<>>
    /\ \E g \in Unused(Head(todo["task"]), Kept) :
         /\ \A h \in Unused(Head(todo["task"]), Kept) : g <= h
         /\ Register(<<Head(todo["task"]), g>>)
         /\ items' = [items EXCEPT ![scope] = Append(@, <<Head(todo["task"]), g>>)]
         /\ late' = late \ {Head(todo["task"])}
    /\ Plan(Tail(todo["task"]))
    /\ Goto("task", IF Len(todo["task"]) = 1 THEN to ELSE from)
    /\ UNCHANGED <<tryExit, protect, inCallback, snapshot, batch>>

AddScript == Add("adding", "entry", "script")
AddBuiltin == Add("builtins", "loop", "builtin")

\* battle_loop: TRY_EXIT is reset after its delay.
ResetExit ==
    /\ Task("entry", "protect")
    /\ tryExit' = FALSE
    /\ UNCHANGED <<table, protect, inCallback, snapshot, batch, todo, fired, items, late>>

\* with bg.protect_clear(), bg.scope().
Protect ==
    /\ Task("protect", "builtins")
    /\ protect' = protect + 1
    /\ Plan(Builtins)
    /\ UNCHANGED <<table, tryExit, inCallback, snapshot, batch, fired, items, late>>

\* The loop is left when TRY_EXIT is found True, also in a pause.
SeeExit ==
    /\ tryExit
    /\ Task("loop", "unwatch")
    /\ Plan(items.builtin)
    /\ items' = [items EXCEPT !.builtin = <<>>]
    /\ UNCHANGED <<table, tryExit, protect, inCallback, snapshot, batch, fired, late>>

\* A cancellation, the time limit or an error of the flow raises in the loop.
Raise ==
    /\ Task("loop", "unwatch")
    /\ Plan(items.builtin)
    /\ items' = [items EXCEPT !.builtin = <<>>]
    /\ UNCHANGED <<table, tryExit, protect, inCallback, snapshot, batch, fired, late>>

\* A cancellation raises in the delay before the loop.
RaiseEarly ==
    /\ Task("entry", "cancelled")
    /\ UNCHANGED <<table, tryExit, protect, inCallback, snapshot, batch, todo, fired,
                   items, late>>

\* BackgroundScope.__exit__: one locked removal per item, the last one first.
RemoveItem(from, to) ==
    LET list == todo["task"]
        rest == SubSeq(list, 1, Len(list) - 1)
    IN  /\ at["task"] = from
        /\ Remove(list[Len(list)])
        /\ Plan(rest)
        /\ Goto("task", IF rest = <<>> THEN to ELSE from)
        /\ late' = {n \in late : table'[n] # 0}
        /\ UNCHANGED <<tryExit, protect, inCallback, snapshot, batch, items>>

LeaveWatch == RemoveItem("unwatch", "unprotect")
LeaveScript == RemoveItem("leaving", "idle")

\* The end of protect_clear(); then the round's finally resets TRY_EXIT, and the
\* script's scope is left.
Finally ==
    /\ at["task"] \in {"unprotect", "cancelled"}
    /\ protect' = IF at["task"] = "unprotect" THEN protect - 1 ELSE protect
    /\ tryExit' = FALSE
    /\ Plan(items.script)
    /\ items' = [items EXCEPT !.script = <<>>]
    /\ Goto("task", "leaving")
    /\ UNCHANGED <<table, inCallback, snapshot, batch, fired, late>>

-----------------------------------------------------------------------------
(* The other actors.                                                       *)

\* Mutant: the callback registers past the scope.
AddPastScope(t) ==
    /\ InBody(t) /\ Head(todo[t]) \in Names
    /\ \E g \in Unused(Head(todo[t]), Kept) : Register(<<Head(todo[t]), g>>)
    /\ NextEffect(t)
    /\ UNCHANGED <<tryExit, protect, inCallback, snapshot, at, batch, items, late>>

\* scope.add() in a callback: the list of a scope that is being left, or has
\* been, is not looked at again.
AddInCallback(t) ==
    /\ InBody(t) /\ Head(todo[t]) \in Names
    /\ LET n == Head(todo[t]) IN
       \E g \in Unused(n, Kept) :
         /\ \A h \in Unused(n, Kept) : g <= h
         /\ Register(<<n, g>>)
         /\ \/ /\ at["task"] \in {"idle", "leaving"}
               /\ late' = late \cup {n}
               /\ UNCHANGED items
            \/ /\ at["task"] \notin {"idle", "leaving"}
               /\ items' = [items EXCEPT !.script = Append(@, <<n, g>>)]
               /\ late' = late \ {n}
    /\ NextEffect(t)
    /\ UNCHANGED <<tryExit, protect, inCallback, snapshot, at, batch>>

\* Another thread clears the table; between two tasks, task_wrapper does.
OutsideClear ==
    /\ Clear
    /\ late' = {}
    /\ UNCHANGED <<at, batch, todo, items>>

Thread(t) ==
    \/ /\ ThreadStep(t, Kept)
       /\ late' = {n \in late : table'[n] # 0}
       /\ UNCHANGED items
    \/ AddInCallback(t)

\* What the task does by itself.
Progress ==
    \/ AddScript \/ AddBuiltin \/ ResetExit \/ Protect \/ SeeExit
    \/ LeaveWatch \/ LeaveScript \/ Finally

Next ==
    \/ \E t \in Threads : Thread(t)
    \/ StartRound \/ Progress \/ Raise \/ RaiseEarly
    \/ OutsideClear

Spec == Init /\ [][Next]_vars

\* The look at the screen finds the target of n.
Sees(n) ==
    /\ \E found \in InOrder(snapshot) : /\ \E k \in DOMAIN found : found[k][1] = n
                                    /\ LookRegular(found)
    /\ UNCHANGED <<items, late>>

\* Threads run, callbacks end, the task goes on, and a target that stays on the
\* screen is recognised time and again.
Fairness ==
    /\ \A t \in Threads : WF_vars(Thread(t))
    /\ WF_vars(Progress)
    /\ \A n \in Signs : SF_vars(Sees(n))

FairSpec == Spec /\ Fairness

-----------------------------------------------------------------------------
(* Properties.                                                             *)

TaskLabels == {"idle", "adding", "entry", "protect", "builtins", "loop",
               "unwatch", "unprotect", "cancelled", "leaving"}

TypeOK ==
    /\ \A n \in Names : table[n] \in 0 .. Gens[n]
    /\ fired \subseteq Once \ Concurrent /\ late \subseteq Names
    /\ snapshot \subseteq Infos
    /\ tryExit \in BOOLEAN
    /\ protect \in 0 .. 1
    /\ inCallback = (at["monitor"] = "body" /\ First("monitor")[1] \notin Concurrent)
    /\ at["task"] \in TaskLabels
    /\ \A t \in Threads : batch[t] \in Seq(Infos)

\* While a battle is fought, its own callbacks are watched for, whatever other
\* threads clear (background.md, "clear 保护").
BuiltinsStay ==
    at["task"] = "loop" =>
        \A k \in DOMAIN items.builtin : Current(items.builtin[k])

\* A registration goes only by its own hand (it ran and was to run once), by its
\* scope's end, by a new one of the same name, or with the whole table: never
\* because an earlier one of its name is cleaned up (expected_info).
OnlyOwnersRemove ==
    [][\A i \in Infos :
          Current(i) /\ ~Current(i)' =>
            \/ table[i[1]]' # 0
            \/ table' = Nothing /\ ~tryExit'
            \/ \E t \in Threads : at[t] \in {"join", "body"} /\ First(t) = i
            \/ at["task"] \in {"unwatch", "leaving"} /\ \E k \in DOMAIN todo["task"] : todo["task"][k] = i]_vars

\* A regular callback that is to run once is answered once per registration,
\* however many rounds, checkers and re-registrations there are.
OnceFiresOnce ==
    [][\A t \in Threads :
          at[t] # "body" /\ at[t]' = "body" => First(t)[1] \notin fired]_vars

\* What is left when a round is over was registered by a callback after the exit
\* of the scope had begun; everything else is gone, however the round ended.
ScopeCleans ==
    at["task"] = "idle" => \A n \in Names : table[n] # 0 => n \in late

\* A battle ends when the sign of its end stays on the screen and its callback has
\* not been used up before the battle's signals were reset.
SignEndsBattle ==
    \A n \in Signs :
        (at["task"] = "loop" /\ table[n] # 0 /\ n \notin fired) ~> at["task"] # "loop"

\* Checkers that outlived their callback end when no further one runs.
CheckersEnd ==
    <>[](at["task"] = "idle") => <>[](\A c \in Checkers : at[c] = "off")

\* The table's invariant: types; the battle's callbacks are there while it is fought, and
\* nothing is when a round is over but what came too late.
TableIsSound == TypeOK /\ BuiltinsStay /\ ScopeCleans
=============================================================================
