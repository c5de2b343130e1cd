-------------------------- MODULE ExecutionControl --------------------------
(***************************************************************************)
(* Who may drive the emulator, and what stopping means.                    *)
(*                                                                         *)
(* orchestrator/scheduler.py and orchestrator/facade.py share one device   *)
(* between three participants: the scheduler's background thread, a        *)
(* direct-run thread started from the WebUI, and the editor.  They meet at *)
(* one execution gate (a lock plus the name of its owner), one cooperative *)
(* cancel event, and the scheduler's state PENDING / RUNNING / ERROR.      *)
(*                                                                         *)
(* Threads.  All HTTP handlers run on one event loop, so two handlers never*)
(* overlap: http is the program counter of the one that runs.  The two     *)
(* worker threads interleave with it and with each other: pc[w] is where   *)
(* worker w is, and a worker is named by the owner name it acquires with.  *)
(* A task is one label: what it does to the device is not modelled, only   *)
(* how it ends.                                                            *)
(***************************************************************************)
EXTENDS Integers

CONSTANTS
    MaxErrors,    \* MAX_CONSECUTIVE_ERRORS
    DirectLimit   \* bound: most task attempts one direct run makes

ASSUME ErrorLimitAssumption == MaxErrors \in Nat \ {0}
ASSUME DirectLimitAssumption == DirectLimit \in Nat

VARIABLES
    state,           \* Scheduler.state
    errorAt,         \* Scheduler._error_at: "none", within ("hot") or past ("cool") the cooldown
    consecutive,     \* Scheduler._consecutive_errors; counted up to MaxErrors
    cancel,          \* TaskManager._cancel_event
    stopEv,          \* Scheduler._stop
    gate,            \* Scheduler._execution_gate is locked
    owner,           \* Scheduler._execution_owner
    directThread,    \* RuntimeController._direct_thread is a live thread
    editor,          \* what the editor does with the device
    editorStopping,  \* _editor_exec_stopping
    http,            \* program counter of the event loop's handler
    pc,              \* program counters of the worker threads
    raised,          \* the scheduled pipeline is unwinding an exception
    todo,            \* attempts left in the direct run
    told,            \* history: workers that /api/stop found at work
    enabled          \* history: the user enabled the scheduler and has not taken it back

control == <<state, errorAt, consecutive, cancel, stopEv>>
lease   == <<gate, owner>>
web     == <<directThread, editor, editorStopping, http>>
threads == <<pc, raised, todo>>
history == <<told, enabled>>
vars    == <<control, lease, web, threads, history>>

Workers == {"scheduler", "direct_run"}

\* Labels at which a worker is inside _run_task_pipeline.
Pipeline == {"head", "device", "pause", "login", "start", "task",
             "mark_head", "mark_leave"}
\* Labels at which a worker holds the gate and is its recorded owner.
Owning   == Pipeline \cup {"admit", "uncancel", "disown"}
\* Labels at which a worker has the gate locked.
Holding  == Owning \cup {"own", "ungate"}
\* Labels of the scheduler's loop outside the gate.
Looping  == {"dead", "wait", "error", "reset", "reactivate", "enable", "refill",
             "dispatch", "acquire", "settle", "mark_wait"}

Labels == Holding \cup Looping \cup {"unref"}

HttpLabels == {"idle", "enable", "refill", "stop_cancel", "stop_state",
               "stop_budget", "editor_release", "editor_uncancel", "down"}

TypeOK ==
    /\ state \in {"PENDING", "RUNNING", "ERROR"}
    /\ errorAt \in {"none", "hot", "cool"}
    /\ consecutive \in 0..MaxErrors
    /\ cancel \in BOOLEAN
    /\ stopEv \in BOOLEAN
    /\ gate \in BOOLEAN
    /\ owner \in Workers \cup {"none", "editor"}
    /\ directThread \in BOOLEAN
    /\ editor \in {"idle", "code", "device"}
    /\ editorStopping \in BOOLEAN
    /\ http \in HttpLabels
    /\ pc \in [Workers -> Labels]
    /\ raised \in BOOLEAN
    /\ todo \in 0..DirectLimit
    /\ told \in [Workers -> BOOLEAN]
    /\ enabled \in BOOLEAN

Init ==
    /\ state = "PENDING"
    /\ errorAt = "none"
    /\ consecutive = 0
    /\ cancel = FALSE
    /\ stopEv = FALSE
    /\ gate = FALSE
    /\ owner = "none"
    /\ directThread = FALSE
    /\ editor = "idle"
    /\ editorStopping = FALSE
    /\ http = "idle"
    /\ pc = [w \in Workers |-> "dead"]
    /\ raised = FALSE
    /\ todo = 0
    /\ told = [w \in Workers |-> FALSE]
    /\ enabled = FALSE

-----------------------------------------------------------------------------
(* The gate, the busy projection, and the error budget.                    *)

GateFree == ~gate

Lock   == gate' = TRUE

\* Mutant: a path that forgets to unlock.
LeaveLocked == UNCHANGED gate

Unlock == gate' = FALSE

\* RuntimeController.is_busy: a device action of the editor is not counted.
Busy == directThread \/ owner = "scheduler" \/ editor = "code"

Goto(w, label) == pc' = [pc EXCEPT ![w] = label]

\* A failure reported under a cancel is not counted.
Counted == ~cancel

\* Mutant: the count does not stop at the threshold.
CountOn(same) ==
    consecutive' = IF Counted /\ ~same THEN consecutive + 1 ELSE consecutive

\* record_result(0, n): same is TRUE when the failing task is the one that
\* failed last, which is not counted again (the keys are in TaskPipeline).
RecordFailure(same) ==
    consecutive' = IF Counted /\ ~same /\ consecutive < MaxErrors
                   THEN consecutive + 1 ELSE consecutive

\* The threshold test at the end of record_result.
Exhausted(same) == Counted /\ ~same /\ consecutive + 1 >= MaxErrors

\* After a failure worker w goes on at label, by way of mark_error if the
\* budget is used up; mark says where its caller goes on.
AfterFailure(w, same, label, mark) ==
    /\ RecordFailure(same)
    /\ Goto(w, IF Exhausted(same) THEN mark ELSE label)

-----------------------------------------------------------------------------
(* HTTP handlers.                                                          *)

\* POST /api/run with activate_scheduler: the route's guards and the early
\* return of activate().
RunScheduler ==
    /\ http = "idle"
    /\ ~Busy
    /\ state # "ERROR"
    /\ http' = "enable"
    /\ UNCHANGED <<control, lease, directThread, editor,
                   editorStopping, threads, history>>

\* activate(): the transition, after the ERROR test ...
HttpEnable ==
    /\ http = "enable"
    /\ state' = "RUNNING"
    /\ enabled' = TRUE
    /\ http' = "refill"
    /\ UNCHANGED <<errorAt, consecutive, cancel, stopEv, lease, directThread,
                   editor, editorStopping, threads, told>>

\* ... then the budget, the cancel event, and the thread if it is not alive.
HttpRefill ==
    /\ http = "refill"
    /\ consecutive' = 0
    /\ cancel' = FALSE
    /\ IF pc["scheduler"] = "dead"
       THEN stopEv' = FALSE /\ Goto("scheduler", "wait")
       ELSE UNCHANGED <<stopEv, pc>>
    /\ http' = "idle"
    /\ UNCHANGED <<state, errorAt, lease, directThread, editor,
                   editorStopping, raised, todo, history>>

\* Mutant: the result of the gate's acquire(blocking=False) is ignored.
StartDirectAnyway ==
    /\ http = "idle"
    /\ ~Busy
    /\ Lock
    /\ owner' = "direct_run"
    /\ directThread' = TRUE
    /\ Goto("direct_run", "uncancel")
    /\ todo' \in 0..DirectLimit
    /\ UNCHANGED <<control, editor, editorStopping, http, raised, history>>

\* POST /api/run without activation, and RuntimeController.start_direct.
StartDirect ==
    /\ http = "idle"
    /\ ~Busy
    /\ GateFree
    /\ Lock
    /\ owner' = "direct_run"
    /\ directThread' = TRUE
    /\ Goto("direct_run", "uncancel")
    /\ todo' \in 0..DirectLimit
    /\ UNCHANGED <<control, editor, editorStopping, http, raised, history>>

\* POST /api/stop, RuntimeController.request_stop: its own cancel, ...
StopRequest ==
    /\ http = "idle"
    /\ cancel' = TRUE
    /\ http' = "stop_cancel"
    /\ UNCHANGED <<state, errorAt, consecutive, stopEv, lease, directThread,
                   editor, editorStopping, threads, history>>

\* ... then Scheduler.request_stop: cancel again, ...
StopCancel ==
    /\ http = "stop_cancel"
    /\ cancel' = TRUE
    /\ http' = "stop_state"
    /\ UNCHANGED <<state, errorAt, consecutive, stopEv, lease, directThread,
                   editor, editorStopping, threads, history>>

\* ... deactivate: from here on the workers inside their pipelines are told, ...
StopState ==
    /\ http = "stop_state"
    /\ state' = "PENDING"
    /\ told' = [w \in Workers |-> told[w] \/ pc[w] \in Pipeline \cup {"uncancel"}]
    /\ enabled' = FALSE
    /\ http' = "stop_budget"
    /\ UNCHANGED <<errorAt, consecutive, cancel, stopEv, lease, directThread,
                   editor, editorStopping, threads>>

\* ... and the recovery budget.
StopBudget ==
    /\ http = "stop_budget"
    /\ consecutive' = 0
    /\ http' = "idle"
    /\ UNCHANGED <<state, errorAt, cancel, stopEv, lease, directThread,
                   editor, editorStopping, threads, history>>

\* The assignments of Scheduler.reset().
ResetState ==
    /\ errorAt' = "none"
    /\ state' = "PENDING"
    /\ consecutive' = 0
    /\ cancel' = FALSE

\* POST /api/scheduler/reset
ResetScheduler ==
    /\ http = "idle"
    /\ ~Busy
    /\ ResetState
    /\ enabled' = FALSE
    /\ UNCHANGED <<stopEv, lease, web, threads, told>>

\* POST /api/scheduler/deactivate
Deactivate ==
    /\ http = "idle"
    /\ state' = "PENDING"
    /\ enabled' = FALSE
    /\ UNCHANGED <<errorAt, consecutive, cancel, stopEv, lease, web, threads, told>>

\* _begin_editor_execution, and _acquire_editor_device_action for the remote
\* click and swipe, which leave the running flags and the cancel event alone.
EditorBegin(use) ==
    /\ http = "idle"
    /\ ~Busy
    /\ GateFree
    /\ Lock
    /\ owner' = "editor"
    /\ editor' = use
    /\ IF use = "code"
       THEN editorStopping' = FALSE /\ cancel' = FALSE
       ELSE UNCHANGED <<editorStopping, cancel>>
    /\ UNCHANGED <<state, errorAt, consecutive, stopEv, directThread,
                   http, threads, history>>

\* _request_editor_execution_stop
EditorStop ==
    /\ http = "idle"
    /\ editor = "code"
    /\ editorStopping' = TRUE
    /\ cancel' = TRUE
    /\ UNCHANGED <<state, errorAt, consecutive, stopEv, lease, directThread,
                   editor, http, threads, history>>

\* _end_editor_execution clears the flags, then releases the gate, then resets
\* the cancel event if the run had been told to stop (was_stopping is carried
\* by editorStopping here until it has been used).
EditorEnd ==
    /\ http = "idle"
    /\ editor # "idle"
    /\ editor' = "idle"
    /\ http' = "editor_release"
    /\ UNCHANGED <<control, lease, directThread, editorStopping,
                   threads, history>>

EditorRelease ==
    /\ http = "editor_release"
    /\ owner' = "none"
    /\ Unlock
    /\ http' = IF editorStopping THEN "editor_uncancel" ELSE "idle"
    /\ UNCHANGED <<control, directThread, editor, editorStopping,
                   threads, history>>

EditorUncancel ==
    /\ http = "editor_uncancel"
    /\ cancel' = FALSE
    /\ editorStopping' = FALSE
    /\ http' = "idle"
    /\ UNCHANGED <<state, errorAt, consecutive, stopEv, lease, directThread,
                   editor, threads, history>>

\* shutdown_webui: deactivate, then stop(); the process exits at some later time.
Shutdown ==
    /\ http = "idle"
    /\ state' = "PENDING"
    /\ enabled' = FALSE
    /\ stopEv' = TRUE
    /\ http' = "down"
    /\ UNCHANGED <<errorAt, consecutive, cancel, lease, directThread,
                   editor, editorStopping, threads, told>>

-----------------------------------------------------------------------------
(* The scheduler's loop, outside the gate.                                 *)

\* One worker moves and nothing outside the threads changes.
Step(w, from, to) ==
    /\ pc[w] = from
    /\ Goto(w, to)
    /\ UNCHANGED <<control, lease, web, raised, todo, history>>

\* The wait is over, by wake() or by its timeout.
LoopTick == Step("scheduler", "wait", IF stopEv THEN "dead" ELSE "error")

\* Mutant: nothing recovers from ERROR.
LoopIgnoresError == Step("scheduler", "error", "dispatch")

\* _maybe_recover_from_error, its guards
LoopError ==
    Step("scheduler", "error",
         IF state = "ERROR" /\ errorAt = "cool" THEN "reset" ELSE "dispatch")

LoopReset ==
    /\ pc["scheduler"] = "reset"
    /\ ResetState
    /\ Goto("scheduler", "reactivate")
    /\ UNCHANGED <<stopEv, lease, web, raised, todo, history>>

LoopReactivate ==
    Step("scheduler", "reactivate", IF state = "ERROR" THEN "dispatch" ELSE "enable")

LoopEnable ==
    /\ pc["scheduler"] = "enable"
    /\ state' = "RUNNING"
    /\ Goto("scheduler", "refill")
    /\ UNCHANGED <<errorAt, consecutive, cancel, stopEv, lease, web, raised,
                   todo, history>>

LoopRefill ==
    /\ pc["scheduler"] = "refill"
    /\ consecutive' = 0
    /\ cancel' = FALSE
    /\ Goto("scheduler", "dispatch")
    /\ UNCHANGED <<state, errorAt, stopEv, lease, web, raised, todo, history>>

LoopDispatch ==
    Step("scheduler", "dispatch", IF state = "RUNNING" THEN "acquire" ELSE "wait")

\* acquire_execution("scheduler"): the blocking lock, then the owner's name.
Acquire ==
    /\ pc["scheduler"] = "acquire"
    /\ GateFree
    /\ Lock
    /\ Goto("scheduler", "own")
    /\ UNCHANGED <<control, owner, web, raised, todo, history>>

Own ==
    /\ pc["scheduler"] = "own"
    /\ owner' = "scheduler"
    /\ Goto("scheduler", "admit")
    /\ UNCHANGED <<control, gate, web, raised, todo, history>>

\* _check_and_run looks again at what may have changed while it was blocked.
Admit ==
    Step("scheduler", "admit",
         IF stopEv \/ state # "RUNNING" THEN "disown" ELSE "uncancel")

\* The except clause of _loop: the crash was an error of the round.
Settle ==
    /\ pc["scheduler"] = "settle"
    /\ raised' = FALSE
    /\ IF raised
       THEN AfterFailure("scheduler", FALSE, "wait", "mark_wait")
       ELSE UNCHANGED consecutive /\ Goto("scheduler", "wait")
    /\ UNCHANGED <<state, errorAt, cancel, stopEv, lease, web, todo, history>>

-----------------------------------------------------------------------------
(* The pipeline both workers run.                                          *)

\* The reset before the pipeline: _check_and_run, run_direct, run_direct_sequence.
Uncancel(w) ==
    /\ pc[w] = "uncancel"
    /\ cancel' = FALSE
    /\ Goto(w, "head")
    /\ UNCHANGED <<state, errorAt, consecutive, stopEv, lease, web, raised, todo, history>>

\* Mutants: only the cancel event is looked at; nothing is.
MustLeaveOnCancel(w) == cancel
NeverLeave(w) == FALSE

\* The two tests at the head of every turn.
MustLeave(w) == cancel \/ (w = "scheduler" /\ state # "RUNNING")

\* The head of a turn: leave, or take the next task, or find that none is left.
Head(w) ==
    \E more \in BOOLEAN :
        /\ w = "direct_run" => (more <=> todo > 0)
        /\ Step(w, "head", IF MustLeave(w) \/ ~more THEN "disown" ELSE "device")

\* runtime_ctx.refresh succeeds, or notices the cancel.
DeviceReady(w) == Step(w, "device", "login")

DeviceCancelled(w) == cancel /\ Step(w, "device", "disown")

DeviceFails(w) ==
    /\ pc[w] = "device"
    /\ AfterFailure(w, FALSE, IF state = "ERROR" THEN "disown" ELSE "pause", "mark_leave")
    /\ UNCHANGED <<state, errorAt, cancel, stopEv, lease, web, raised, todo, history>>

\* The wait before another try of the device.
Pause(w) ==
    Step(w, "pause", IF cancel \/ state # "RUNNING" THEN "disown" ELSE "head")

\* _ensure_character_logged_in; its exception leaves the pipeline.
LoggedIn(w) == Step(w, "login", "start")

LoginRaises(w) ==
    /\ pc[w] = "login"
    /\ raised' = (raised \/ w = "scheduler")
    /\ Goto(w, "disown")
    /\ UNCHANGED <<control, lease, web, todo, history>>

\* The direct run has one attempt fewer to make.
Attempted(w) == todo' = IF w = "direct_run" /\ todo > 0 THEN todo - 1 ELSE todo

\* execute_tasks returns at once, with nothing to record, when the cancel event
\* is set; the task has had its turn of this round all the same.
Start(w) ==
    /\ pc[w] = "start"
    /\ IF cancel
       THEN Goto(w, "head") /\ Attempted(w)
       ELSE Goto(w, "task") /\ UNCHANGED todo
    /\ UNCHANGED <<control, lease, web, raised, history>>

TaskSucceeds(w) ==
    /\ pc[w] = "task"
    /\ consecutive' = 0
    /\ Attempted(w)
    /\ Goto(w, "head")
    /\ UNCHANGED <<state, errorAt, cancel, stopEv, lease, web, raised, history>>

\* A failure that is kept for a later retry round is not recorded.
TaskDeferred(w) ==
    /\ pc[w] = "task"
    /\ Attempted(w)
    /\ Goto(w, "head")
    /\ UNCHANGED <<control, lease, web, raised, history>>

\* The last attempt failed.
TaskFails(w, same) ==
    /\ pc[w] = "task"
    /\ Attempted(w)
    /\ AfterFailure(w, same, "head", "mark_head")
    /\ UNCHANGED <<state, errorAt, cancel, stopEv, lease, web, raised, history>>

\* The last attempt raised: the same, but the pipeline breaks on ERROR.
TaskRaises(w, same) ==
    /\ pc[w] = "task"
    /\ Attempted(w)
    /\ AfterFailure(w, same, IF state = "ERROR" THEN "disown" ELSE "head", "mark_leave")
    /\ UNCHANGED <<state, errorAt, cancel, stopEv, lease, web, raised, history>>

\* mark_error, and where its caller goes on.
MarkError(w) ==
    \E next \in {<<"mark_head", "head">>, <<"mark_leave", "disown">>,
                 <<"mark_wait", "wait">>} :
        /\ pc[w] = next[1]
        /\ errorAt' = "hot"
        /\ state' = "ERROR"
        /\ Goto(w, next[2])
        /\ UNCHANGED <<consecutive, cancel, stopEv, lease, web, raised, todo, history>>

\* release_execution raises unless the caller is the recorded owner.
Disown(w) ==
    /\ pc[w] = "disown"
    /\ owner = w
    /\ owner' = "none"
    /\ told' = [told EXCEPT ![w] = FALSE]
    /\ Goto(w, "ungate")
    /\ UNCHANGED <<control, gate, web, raised, todo, enabled>>

Ungate(w) ==
    /\ pc[w] = "ungate"
    /\ Unlock
    /\ Goto(w, IF w = "scheduler" THEN "settle" ELSE "unref")
    /\ UNCHANGED <<control, owner, web, raised, todo, history>>

\* The end of start_direct's wrapper: the thread forgets itself.
Unref ==
    /\ pc["direct_run"] = "unref"
    /\ directThread' = FALSE
    /\ Goto("direct_run", "dead")
    /\ UNCHANGED <<control, lease, editor, editorStopping, http, raised, todo, history>>

-----------------------------------------------------------------------------
(* The environment and the specification.                                  *)

\* ERROR_AUTO_RECOVER_SECONDS have passed since mark_error.
CoolDown ==
    /\ errorAt = "hot"
    /\ errorAt' = "cool"
    /\ UNCHANGED <<state, consecutive, cancel, stopEv, lease, web, threads, history>>

\* After shutdown_webui the process may exit at any time.
Exit == http = "down" /\ UNCHANGED vars

HttpNext ==
    \/ RunScheduler \/ HttpEnable \/ HttpRefill \/ StartDirect
    \/ StopRequest \/ StopCancel \/ StopState \/ StopBudget
    \/ ResetScheduler \/ Deactivate \/ Shutdown
    \/ EditorBegin("code") \/ EditorBegin("device")
    \/ EditorStop \/ EditorEnd \/ EditorRelease \/ EditorUncancel

LoopNext ==
    \/ LoopTick \/ LoopError \/ LoopReset \/ LoopReactivate \/ LoopEnable
    \/ LoopRefill \/ LoopDispatch \/ Acquire \/ Own \/ Admit \/ Settle

PipelineNext(w) ==
    \/ Uncancel(w) \/ Head(w) \/ DeviceReady(w) \/ DeviceCancelled(w)
    \/ DeviceFails(w) \/ Pause(w) \/ LoggedIn(w) \/ LoginRaises(w)
    \/ Start(w) \/ TaskSucceeds(w) \/ TaskDeferred(w)
    \/ TaskFails(w, TRUE) \/ TaskFails(w, FALSE)
    \/ TaskRaises(w, TRUE) \/ TaskRaises(w, FALSE)
    \/ MarkError(w) \/ Disown(w) \/ Ungate(w)

Next ==
    \/ HttpNext
    \/ LoopNext
    \/ \E w \in Workers : PipelineNext(w)
    \/ Unref
    \/ CoolDown
    \/ Exit

Spec == Init /\ [][Next]_vars

-----------------------------------------------------------------------------
(* Fairness.  A handler that has begun returns, editor code returns, threads*)
(* run, every task and device call ends (the scripts use cancellable waits), *)
(* and time passes.  Nothing makes a user press a button.                    *)

Fairness ==
    /\ WF_vars(HttpEnable \/ HttpRefill \/ StopCancel \/ StopState \/ StopBudget
                \/ EditorEnd \/ EditorRelease \/ EditorUncancel)
    /\ WF_vars(LoopNext)
    /\ \A w \in Workers : WF_vars(PipelineNext(w))
    /\ WF_vars(Unref)
    /\ WF_vars(CoolDown)

FairSpec == Spec /\ Fairness

-----------------------------------------------------------------------------
(* Properties.                                                             *)

\* Which participants have the gate: the editor until its handler has released it.
Uses(p) == \/ p = "editor" /\ (editor # "idle" \/ http = "editor_release")
           \/ p \in Workers /\ pc[p] \in Holding

Participants == Workers \cup {"editor"}

\* At most one participant has the device (scheduler.md, "执行互斥").
MutualExclusion ==
    \A p, q \in Participants : Uses(p) /\ Uses(q) => p = q

\* The abstract lease: the holder is whoever uses the gate.
Holder == IF \E p \in Participants : Uses(p)
          THEN CHOOSE p \in Participants : Uses(p)
          ELSE "none"

Lease == INSTANCE DeviceLease WITH holder <- Holder, Nobody <- "none"

\* The execution gate implements the lease: every step of the handlers and the
\* threads takes the device from nobody, gives it back, or leaves it alone.
ImplementsLease == Lease!Spec

\* The gate is locked exactly while somebody uses it: no path leaks it, so a
\* finished run never leaves the device busy for good.
GateNeverLeaks == gate <=> \E p \in Participants : Uses(p)

\* Whoever is about to call release_execution is the recorded owner, so its
\* RuntimeError("execution owner ...") is unreachable.
ReleaseMatchesOwner ==
    /\ \A w \in Workers : pc[w] \in Owning => owner = w
    /\ Uses("editor") => owner = "editor"

\* guard_idle() admits a change of configuration only when is_busy() is FALSE:
\* it must never be FALSE while a worker is inside its pipeline.
BusyCoversExecution ==
    \A w \in Workers : pc[w] \in Pipeline => Busy

\* A scheduled round that /api/stop found at work takes no further task from
\* its plan, whatever the cancel event has gone through: the second line of
\* defence is the state, which nobody sets to RUNNING under a running round.
ScheduledStopHonoured ==
    [][told["scheduler"] => ~(pc["scheduler"] = "head" /\ pc'["scheduler"] = "device")]_vars

\* A worker that was told to stop ends.
StopEnds == \A w \in Workers : told[w] ~> ~told[w]

\* ERROR ends by itself while the loop is alive, once the user leaves the
\* device alone (_maybe_recover_from_error: "错误态不是终点").
UserIsQuiet == pc["direct_run"] = "dead" /\ editor = "idle"
ErrorEnds ==
    <>[]UserIsQuiet =>
        [](state = "ERROR" /\ pc["scheduler"] # "dead"
             => <>(state # "ERROR" \/ http = "down"))

\* Neither a stop nor an error leaves the system hanging: a worker that was told ends, and ERROR
\* is left.
RunsEnd == StopEnds /\ ErrorEnds

-----------------------------------------------------------------------------
(* What the documents say and the code does not do.                        *)

\* lifecycle.md:92 "取消信号会保留到任务协作退出": the cancel event stays set
\* until every worker that the stop found at work has left.
CancelIsKept == \A w \in Workers : told[w] => cancel

\* run_direct: "不激活调度器".  The scheduler runs only for a user who enabled it
\* and has not stopped, reset or deactivated it since.
EnabledOnlyByUser == state = "RUNNING" => enabled

\* The gate and what its handlers and threads believe of it go together: one user, no leak,
\* the right owner, and is_busy() wherever a worker is inside its pipeline.
GateIsSound == MutualExclusion /\ GateNeverLeaks /\ ReleaseMatchesOwner /\ BusyCoversExecution
=============================================================================
