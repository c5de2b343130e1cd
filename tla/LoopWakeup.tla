----------------------------- MODULE LoopWakeup -----------------------------
(***************************************************************************)
(* What wakes the scheduler's loop (orchestrator/scheduler.py: _loop, the  *)
(* wake event, _get_wait_interval, and who sets and clears the event).     *)
(*                                                                         *)
(* The event has two waiters, which both clear it first: the loop, and the *)
(* pause of a pipeline after the emulator failed to start.  Event.set()    *)
(* lets a thread that is waiting go at once; one that has not begun to     *)
(* wait needs the flag.  Handlers change first and set the event after.    *)
(*                                                                         *)
(* The gate is ExecutionControl's: here it has a holder, and a pipeline    *)
(* ends when it likes.  The files the loop watches are HotReload's.  Time  *)
(* is what a sleep waits for: a task's moment, a minute, or nothing.       *)
(***************************************************************************)
EXTENDS Integers

CONSTANT MaxErrors      \* scheduler.MAX_CONSECUTIVE_ERRORS
ASSUME MaxErrorsAssumption == MaxErrors \in Nat \ {0}

VARIABLES
    state,      \* Scheduler.state
    errors,     \* Scheduler._consecutive_errors
    errorAt,    \* Scheduler._error_at: "none", within ("hot") or past ("cool") the cooldown
    stopEv,     \* Scheduler._stop
    wake,       \* Scheduler._wake
    entry,      \* the tasks' entries: "none" is on, one is on for "later", or is "due"
    at,         \* program counters of the loop and of the thread of a direct run
    sleep,      \* what _get_wait_interval returned
    holder,     \* who has the execution gate
    http,       \* what the handler in progress has yet to do
    asked,      \* history: a handler has changed what the loop looks at since it last looked
    stolen      \* history: a pause has cleared the wake event after such a change

vars == <<state, errors, errorAt, stopEv, wake, entry, at, sleep, holder, http, asked, stolen>>
sched == <<state, errors, errorAt, stopEv>>
asks == <<asked, stolen>>

Threads == {"loop", "direct"}
PipelineLabels == {"head", "task", "unset", "pause", "resume", "leave"}
Labels ==
    [loop: {"top", "plan", "enter", "sleep", "woken", "error", "dispatch", "acquire", "gone"}
                \cup PipelineLabels,
     direct: {"off"} \cup PipelineLabels]

Goto(t, label) == at' = [at EXCEPT ![t] = label]

\* Event.set(): the threads that wait are let go, whatever happens to the flag next.
Awake(label) == CASE label = "sleep" -> "woken" [] label = "pause" -> "resume" [] OTHER -> label
SetWake == wake' = TRUE /\ at' = [t \in Threads |-> Awake(at[t])]

Init ==
    /\ state = "PENDING" /\ errors = 0 /\ errorAt = "none" /\ stopEv = FALSE
    /\ wake = FALSE
    /\ entry \in {"none", "later", "due"}
    /\ at = [loop |-> "gone", direct |-> "off"]
    /\ sleep = "hour" /\ holder = "nobody" /\ http = "idle"
    /\ asked = FALSE /\ stolen = FALSE

-----------------------------------------------------------------------------
(* The loop.                                                               *)

ClearWake ==
    /\ at["loop"] = "top"
    /\ wake' = FALSE
    /\ Goto("loop", "plan")
    /\ UNCHANGED <<sched, entry, sleep, holder, http, asks>>

\* _get_wait_interval: a minute at most in ERROR; otherwise until the first task.
Interval ==
    IF state = "ERROR" /\ errorAt # "none" THEN "minute"
    ELSE CASE entry = "none" -> "hour" [] entry = "later" -> "next" [] entry = "due" -> "now"

Plan ==
    /\ at["loop"] = "plan"
    /\ sleep' = Interval
    /\ asked' = FALSE /\ stolen' = FALSE
    /\ Goto("loop", "enter")
    /\ UNCHANGED <<sched, wake, entry, holder, http>>

\* Mutant: the event is cleared after the interval has been computed.
ClearThenWait ==
    /\ at["loop"] = "enter"
    /\ wake' = FALSE
    /\ Goto("loop", "sleep")
    /\ UNCHANGED <<sched, entry, sleep, holder, http, asks>>

\* Event.wait(): it returns at once when the flag is set.
EnterWait ==
    /\ at["loop"] = "enter"
    /\ Goto("loop", IF wake THEN "woken" ELSE "sleep")
    /\ UNCHANGED <<sched, wake, entry, sleep, holder, http, asks>>

\* The interval is over.
TimeOut ==
    /\ at["loop"] = "sleep"
    /\ sleep = "next" => entry = "due"
    /\ Goto("loop", "woken")
    /\ UNCHANGED <<sched, wake, entry, sleep, holder, http, asks>>

Woken ==
    /\ at["loop"] = "woken"
    /\ Goto("loop", IF stopEv THEN "gone" ELSE "error")
    /\ UNCHANGED <<sched, wake, entry, sleep, holder, http, asks>>

\* _maybe_recover_from_error: reset(), activate() and wake() once the cooldown is over.
Recover ==
    /\ at["loop"] = "error"
    /\ IF state = "ERROR" /\ errorAt = "cool"
       THEN state' = "RUNNING" /\ errors' = 0 /\ errorAt' = "none" /\ wake' = TRUE
       ELSE UNCHANGED <<state, errors, errorAt, wake>>
    /\ Goto("loop", "dispatch")
    /\ UNCHANGED <<stopEv, entry, sleep, holder, http, asks>>

Dispatch ==
    /\ at["loop"] = "dispatch"
    /\ Goto("loop", IF state = "RUNNING" THEN "acquire" ELSE "top")
    /\ UNCHANGED <<sched, wake, entry, sleep, holder, http, asks>>

\* _check_and_run: the state is read again once the gate has been got.
Acquire ==
    /\ at["loop"] = "acquire" /\ holder = "nobody"
    /\ IF stopEv \/ state # "RUNNING"
       THEN UNCHANGED holder /\ Goto("loop", "top")
       ELSE holder' = "loop" /\ Goto("loop", "head")
    /\ UNCHANGED <<sched, wake, entry, sleep, http, asks>>

-----------------------------------------------------------------------------
(* The pipeline, on the loop's thread or on that of a direct run.          *)

\* A scheduled turn needs RUNNING and a due task; a direct one has its list.
TakeTask(t) ==
    /\ at[t] = "head"
    /\ t = "loop" => state = "RUNNING" /\ entry = "due"
    /\ Goto(t, "task")
    /\ UNCHANGED <<sched, wake, entry, sleep, holder, http, asks>>

\* The list is done, the due tasks have all been attempted, or the stop was seen.
LeaveTurns(t) ==
    /\ at[t] = "head"
    /\ t = "direct" \/ state # "RUNNING" \/ entry # "due"
    /\ Goto(t, "leave")
    /\ UNCHANGED <<sched, wake, entry, sleep, holder, http, asks>>

\* record_result: the failure may be the one too many.
RecordFailure ==
    IF errors + 1 >= MaxErrors
    THEN state' = "ERROR" /\ errorAt' = "hot" /\ errors' = MaxErrors
    ELSE errors' = errors + 1 /\ UNCHANGED <<state, errorAt>>

\* The task is over, for better or worse; one that fails again is not counted again.  A
\* scheduled one has a new moment, or is off, or is marked and still due; this or the
\* retry of another task is the pipeline's next turn, unless it was the last.
EndTask(t) ==
    /\ at[t] = "task"
    /\ \/ errors' = 0 /\ UNCHANGED <<state, errorAt>>
       \/ RecordFailure
       \/ UNCHANGED <<state, errors, errorAt>>
    /\ entry' \in (IF t = "loop" THEN {"none", "later", "due"} ELSE {entry})
    /\ Goto(t, "head") \/ Goto(t, "leave")
    /\ UNCHANGED <<stopEv, wake, sleep, holder, http, asks>>

\* The emulator does not start: ERROR, or a pause on the loop's event, which is cleared.
DeviceFails(t) ==
    /\ at[t] = "task"
    /\ RecordFailure
    /\ Goto(t, IF state' = "ERROR" THEN "leave" ELSE "unset")
    /\ UNCHANGED <<stopEv, wake, entry, sleep, holder, http, asks>>

ClearForPause(t) ==
    /\ at[t] = "unset"
    /\ wake' = FALSE
    /\ stolen' = (stolen \/ (wake /\ asked))
    /\ Goto(t, "pause")
    /\ UNCHANGED <<sched, entry, sleep, holder, http, asked>>

\* wait(delay) is over after at most 30 seconds; SetWake ends it at once.
EndPause(t) ==
    /\ at[t] = "pause"
    /\ Goto(t, "resume")
    /\ UNCHANGED <<sched, wake, entry, sleep, holder, http, asks>>

\* The turn is taken again, with the same task if it is a direct run's; or the run is over.
Resume(t) ==
    /\ at[t] = "resume"
    /\ Goto(t, IF state # "RUNNING" THEN "leave" ELSE IF t = "loop" THEN "head" ELSE "task")
    /\ UNCHANGED <<sched, wake, entry, sleep, holder, http, asks>>

Release(t) ==
    /\ at[t] = "leave"
    /\ holder' = "nobody"
    /\ Goto(t, IF t = "loop" THEN "top" ELSE "off")
    /\ UNCHANGED <<sched, wake, entry, sleep, http, asks>>

Turn(t) ==
    \/ TakeTask(t) \/ LeaveTurns(t) \/ EndTask(t) \/ DeviceFails(t)
    \/ ClearForPause(t) \/ EndPause(t) \/ Resume(t) \/ Release(t)

-----------------------------------------------------------------------------
(* The WebUI and the clock.                                                *)

\* A handler changes what the loop looks at first, and sets the event after that.
ToWake == http = "idle" /\ http' = "wake" /\ asked' = TRUE /\ UNCHANGED stolen

\* A task is saved in the WebUI: it may be on now, and due.
SaveTask ==
    /\ ToWake
    /\ entry' \in {"none", "later", "due"}
    /\ UNCHANGED <<sched, wake, at, sleep, holder>>

\* activate(): it starts the loop's thread if there is none.
Activate ==
    /\ ToWake
    /\ state # "ERROR" /\ state' = "RUNNING" /\ errors' = 0
    /\ IF at["loop"] = "gone"
       THEN stopEv' = FALSE /\ Goto("loop", "top")
       ELSE UNCHANGED <<stopEv, at>>
    /\ UNCHANGED <<errorAt, wake, entry, sleep, holder>>

\* request_stop() leaves the moment of the error as it is.
RequestStop ==
    /\ ToWake
    /\ state' = "PENDING" /\ errors' = 0
    /\ UNCHANGED <<errorAt, stopEv, wake, entry, at, sleep, holder>>

\* The process is about to end: the state first, then the flag of the loop.
Shutdown ==
    /\ ToWake
    /\ ~stopEv /\ stopEv' = TRUE
    /\ state' = "PENDING"
    /\ UNCHANGED <<errors, errorAt, wake, entry, at, sleep, holder>>

\* Mutant: only a thread that is waiting is woken.
Notify ==
    /\ http = "wake" /\ http' = "idle"
    /\ at' = [t \in Threads |-> Awake(at[t])]
    /\ UNCHANGED <<sched, wake, entry, sleep, holder, asks>>

Wake ==
    /\ http = "wake" /\ http' = "idle"
    /\ SetWake
    /\ UNCHANGED <<sched, entry, sleep, holder, asks>>

\* reset() wakes nobody: there is nothing to run in PENDING.
ResetError ==
    /\ state = "ERROR"
    /\ state' = "PENDING" /\ errors' = 0 /\ errorAt' = "none"
    /\ UNCHANGED <<stopEv, wake, entry, at, sleep, holder, http, asks>>

\* A direct run begins when the gate is free.
StartDirect ==
    /\ at["direct"] = "off" /\ holder = "nobody"
    /\ holder' = "direct"
    /\ Goto("direct", "head")
    /\ UNCHANGED <<sched, wake, entry, sleep, http, asks>>

\* The moment of the task has come; the cooldown is over.
Arrives ==
    /\ entry = "later" /\ entry' = "due"
    /\ UNCHANGED <<sched, wake, at, sleep, holder, http, asks>>

CoolDown ==
    /\ errorAt = "hot" /\ errorAt' = "cool"
    /\ UNCHANGED <<state, errors, stopEv, wake, entry, at, sleep, holder, http, asks>>

LoopStep == ClearWake \/ Plan \/ EnterWait \/ Woken \/ Recover \/ Dispatch

Next ==
    \/ LoopStep \/ TimeOut \/ Acquire
    \/ \E t \in Threads : Turn(t)
    \/ SaveTask \/ Activate \/ RequestStop \/ Shutdown \/ Wake \/ ResetError \/ StartDirect
    \/ Arrives \/ CoolDown

Spec == Init /\ [][Next]_vars

\* Threads run on and tasks end; a sleep of a minute, or up to a task's moment, is over in
\* time; nobody waits for the hour.  A waiter gets the gate if it is free again and again,
\* and a direct run's list has an end.
Fairness ==
    /\ WF_vars(LoopStep) /\ SF_vars(Acquire)
    /\ \A t \in Threads : WF_vars(Turn(t))
    /\ SF_vars(LeaveTurns("direct"))
    /\ WF_vars(Wake)
    /\ WF_vars(sleep # "hour" /\ TimeOut)

FairSpec == Spec /\ Fairness

-----------------------------------------------------------------------------
(* What is to hold.                                                        *)

\* The types, and that ERROR always has a moment to recover from.
TypeOK ==
    /\ state \in {"PENDING", "RUNNING", "ERROR"}
    /\ errors \in 0..MaxErrors /\ errorAt \in {"none", "hot", "cool"}
    /\ state = "ERROR" => errorAt # "none"
    /\ stopEv \in BOOLEAN /\ wake \in BOOLEAN
    /\ entry \in {"none", "later", "due"}
    /\ at \in Labels
    /\ sleep \in {"hour", "next", "minute", "now"}
    /\ holder \in Threads \cup {"nobody"}
    /\ http \in {"idle", "wake"}
    /\ asked \in BOOLEAN /\ stolen \in BOOLEAN

\* The loop does not sleep on what it has been told: if a handler has changed the tasks or
\* the state since the interval was computed, the handler is about to set the event, or a
\* pause of another thread's pipeline has taken the event away.
WakeUpIsKept == at["loop"] = "sleep" /\ asked => http = "wake" \/ stolen

\* A task that is due under an active scheduler is run, or the scheduler is no longer
\* active, or is being
\* shut down, or the wake-up was stolen, or the task is no longer due.
DueRuns ==
    entry = "due" /\ state = "RUNNING"
        ~> (at["loop"] = "task" \/ state # "RUNNING" \/ stopEv \/ stolen \/ entry # "due")

\* The loop's invariant: types, and no sleep on what the loop has been told.
LoopIsSound == TypeOK /\ WakeUpIsKept
=============================================================================
