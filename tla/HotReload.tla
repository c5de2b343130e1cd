------------------------------ MODULE HotReload ------------------------------
(***************************************************************************)
(* How edits of the watched files get into the program                     *)
(* (orchestrator/scheduler.py: ConfigWatcher, the part of _loop that asks  *)
(* it, the reload that is put off while a pipeline runs, and the ends of a *)
(* turn and of a round; orchestrator/task_manager.py: reload_tasks).       *)
(*                                                                         *)
(* The watcher compares modification times with a baseline it takes anew   *)
(* when it has reported a change, again when the change has been handled,  *)
(* and, for the files the program writes itself, after every round.        *)
(* When the loop wakes up, and for what, is LoopWakeup's.                  *)
(***************************************************************************)
EXTENDS Integers

VARIABLES
    at,         \* program counters of the loop and of the thread of a direct run
    holder,     \* who has the execution gate
    active,     \* Scheduler._pipeline_active
    deferred,   \* Scheduler._reload_deferred
    unseen,     \* kinds of watched files that differ from the watcher's baseline
    unloaded,   \* kinds of watched files that differ from what is in memory
    late        \* history: kinds of files with an edit made while another was being handled,
                \* or whose reload has failed

vars == <<at, holder, active, deferred, unseen, unloaded, late>>
files == <<unseen, unloaded, late>>

\* config.json and the account's file, which the program writes itself; the scripts.
Kinds == {"config", "script"}
Threads == {"loop", "direct"}
PipelineLabels == {"head", "task", "turn", "reloads", "leave", "close"}
Labels ==
    [loop: {"wait", "watch", "reload", "reloading", "seen", "dispatch", "settle"}
                \cup PipelineLabels,
     direct: {"off", "begin"} \cup PipelineLabels]

Goto(t, label) == at' = [at EXCEPT ![t] = label]

\* save_config writes the files from memory, over an edit that has not been loaded.
WriteConfig ==
    /\ unseen' = unseen \cup {"config"}
    /\ unloaded' = unloaded \ {"config"}
    /\ UNCHANGED late

Init ==
    /\ at = [loop |-> "wait", direct |-> "off"]
    /\ holder = "nobody" /\ active = FALSE /\ deferred = FALSE
    /\ unseen = {} /\ unloaded = {} /\ late = {}

-----------------------------------------------------------------------------
(* The loop's turn with the watcher.                                       *)

Woken ==
    /\ at["loop"] = "wait"
    /\ Goto("loop", "watch")
    /\ UNCHANGED <<holder, active, deferred, files>>

\* should_reload: what differs becomes the new baseline.
Watch ==
    /\ at["loop"] = "watch"
    /\ Goto("loop", IF unseen # {} THEN "reload" ELSE "dispatch")
    /\ unseen' = {}
    /\ UNCHANGED <<holder, active, deferred, unloaded, late>>

\* Mutant: the configuration is synchronised and the reload forgotten.
SyncOnly ==
    /\ at["loop"] = "reload" /\ active
    /\ unloaded' \in {unloaded, unloaded \ {"config"}}
    /\ Goto("loop", "dispatch")
    /\ UNCHANGED <<holder, active, deferred, unseen, late>>

\* _handle_watched_config_change under a pipeline: only the configuration is synchronised,
\* if that does not fail, and the reload is put off.
PutOff ==
    /\ at["loop"] = "reload" /\ active
    /\ deferred' = TRUE
    /\ unloaded' \in {unloaded, unloaded \ {"config"}}
    /\ Goto("loop", "seen")
    /\ UNCHANGED <<holder, active, unseen, late>>

\* reload_tasks reads what is on the disk now; what is edited after that is not in it.
Read(t, label) ==
    /\ unloaded' = {} /\ late' = {}
    /\ Goto(t, label)
    /\ UNCHANGED <<holder, active, deferred, unseen>>

BeginReload == at["loop"] = "reload" /\ ~active /\ Read("loop", "reloading")

\* A reload that fails is only logged.
FailReload ==
    /\ at["loop"] = "reload" /\ ~active
    /\ late' = late \cup unloaded
    /\ Goto("loop", "seen")
    /\ UNCHANGED <<holder, active, deferred, unseen, unloaded>>

\* The end of a reload takes the deferred one with it, and whatever had it put off.
Loaded(t, label) ==
    /\ deferred' = FALSE
    /\ Goto(t, label)
    /\ UNCHANGED <<holder, active, files>>

EndReload == at["loop"] = "reloading" /\ Loaded("loop", "seen")

\* mark_seen(paths): the baseline is taken anew, with what has changed in the meantime.
Seen(kinds, label) ==
    /\ unseen' = unseen \ kinds
    /\ Goto("loop", label)
    /\ UNCHANGED <<holder, active, deferred, unloaded, late>>

MarkSeen == at["loop"] = "seen" /\ Seen(Kinds, "dispatch")

\* A scheduled round begins with the gate, if the state is RUNNING before and after.
Dispatch ==
    /\ at["loop"] = "dispatch"
    /\ \/ Goto("loop", "wait") /\ UNCHANGED <<holder, active>>
       \/ Goto("loop", "settle") /\ UNCHANGED <<holder, active>>
       \/ holder = "nobody" /\ holder' = "loop" /\ active' = TRUE /\ Goto("loop", "head")
    /\ UNCHANGED <<deferred, files>>

\* After a round only the files the program writes itself are taken for seen.
Settle == at["loop"] = "settle" /\ Seen({"config"}, "wait")

-----------------------------------------------------------------------------
(* The pipeline, on the loop's thread or on that of a direct run.          *)

\* start_direct looks at the gate, not at what the loop is doing.
StartDirect ==
    /\ at["direct"] = "off" /\ holder = "nobody"
    /\ holder' = "direct"
    /\ Goto("direct", "begin")
    /\ UNCHANGED <<active, deferred, files>>

BeginDirect ==
    /\ at["direct"] = "begin"
    /\ active' = TRUE
    /\ Goto("direct", "head")
    /\ UNCHANGED <<holder, deferred, files>>

\* There is a task to run, or there is none, or the run is stopped.
Head(t) ==
    /\ at[t] = "head"
    /\ Goto(t, "task") \/ Goto(t, "leave")
    /\ UNCHANGED <<holder, active, deferred, files>>

\* What a task does to its own entry it saves at once.
EndTask(t) ==
    /\ at[t] = "task"
    /\ WriteConfig \/ UNCHANGED files
    /\ Goto(t, "turn")
    /\ UNCHANGED <<holder, active, deferred>>

\* The end of a turn: a save, or the reload that was put off, which may fail.
SaveTurn(t) ==
    /\ at[t] = "turn" /\ ~deferred
    /\ WriteConfig
    /\ Goto(t, "head")
    /\ UNCHANGED <<holder, active, deferred>>

ReadDeferred(t) == at[t] = "turn" /\ deferred /\ Read(t, "reloads")
FailDeferred(t) ==
    /\ at[t] = "turn" /\ deferred
    /\ Goto(t, "head")
    /\ UNCHANGED <<holder, active, deferred, files>>
EndDeferred(t) == at[t] = "reloads" /\ Loaded(t, "head")

EndPipeline(t) ==
    /\ at[t] = "leave"
    /\ active' = FALSE
    /\ Goto(t, "close")
    /\ UNCHANGED <<holder, deferred, files>>

\* After the report and the closing action the gate is free.
Release(t) ==
    /\ at[t] = "close"
    /\ holder' = "nobody"
    /\ Goto(t, IF t = "loop" THEN "settle" ELSE "off")
    /\ UNCHANGED <<active, deferred, files>>

Turn(t) ==
    \/ Head(t) \/ EndTask(t) \/ SaveTurn(t) \/ ReadDeferred(t) \/ FailDeferred(t)
    \/ EndDeferred(t) \/ EndPipeline(t) \/ Release(t)

-----------------------------------------------------------------------------
\* A task is saved in the WebUI, which saves the whole configuration.
SaveTask ==
    /\ WriteConfig
    /\ UNCHANGED <<at, holder, active, deferred>>

\* The time in which the watcher may take an edit for one that is being handled, or, of
\* the files the program writes itself, for one of a scheduled round.
Handling(k) ==
    \/ at["loop"] \in {"reload", "reloading", "seen"} \/ \E t \in Threads : at[t] = "reloads"
    \/ k = "config" /\ at["loop"] \in PipelineLabels \cup {"dispatch", "settle"}

\* A file is edited outside the program.
Edit(k) ==
    /\ unseen' = unseen \cup {k} /\ unloaded' = unloaded \cup {k}
    /\ late' = IF Handling(k) THEN late \cup {k} ELSE late
    /\ UNCHANGED <<at, holder, active, deferred>>

Next ==
    \/ Woken \/ Watch \/ PutOff \/ BeginReload \/ FailReload \/ EndReload \/ MarkSeen
    \/ Dispatch \/ Settle
    \/ StartDirect \/ BeginDirect \/ (\E t \in Threads : Turn(t))
    \/ SaveTask \/ (\E k \in Kinds : Edit(k))

Spec == Init /\ [][Next]_vars

-----------------------------------------------------------------------------
(* What is to hold.                                                        *)

\* The types; the gate is with the thread in a pipeline, and the pipeline is active just
\* while that thread is in it.
TypeOK ==
    /\ at \in Labels
    /\ \A t \in Threads : holder = t <=> at[t] \in PipelineLabels \cup {"begin"}
    /\ holder \in Threads \cup {"nobody"}
    /\ active <=> \E t \in Threads : at[t] \in PipelineLabels \ {"close"}
    /\ deferred \in BOOLEAN
    /\ unseen \subseteq Kinds /\ unloaded \subseteq Kinds /\ late \subseteq Kinds

\* An edit is not lost unless it is made while another is handled, or its reload failed:
\* until it is loaded, the watcher will see it, or its reload is put off or at hand.
EditsAreAccounted ==
    unloaded \subseteq unseen \cup late \/ deferred \/ at["loop"] \in {"reload", "seen"}

\* The invariant of hot reload: types, and no edit that nobody will load.
ReloadIsSound == TypeOK /\ EditsAreAccounted
=============================================================================
