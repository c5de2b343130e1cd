---------------------------- MODULE TaskPipeline ----------------------------
(***************************************************************************)
(* Which task runs next, how often it is tried, and what its failures do.  *)
(*                                                                         *)
(* _run_task_pipeline of orchestrator/scheduler.py, cycle after cycle: the *)
(* scheduled mode collects due tasks from the characters of the dispatch   *)
(* queue, the direct mode is given its runs.  Failures wait in a list for  *)
(* the next retry round; a scheduled task that used up its attempts is     *)
(* marked and skipped; failures of different sources add up to ERROR.      *)
(*                                                                         *)
(* The gate lets one pipeline run at a time (ExecutionControl), so there   *)
(* is one here, with the user's requests interleaved between its steps.    *)
(* Time is kept relative: an entry's next_exec_time is "past" or "future", *)
(* and of a retry mark only that matters which characters' entries have    *)
(* been moved past the moment it was made.  The tasks here have no opening *)
(* hours or weekdays: what those do to a time is TaskClock.                *)
(***************************************************************************)
EXTENDS Integers, Sequences, FiniteSets

CONSTANTS
    Queue,        \* the valid characters of dispatch_queue, in order
    Order,        \* the registered tasks in the order of the overlay
    Once,         \* the tasks that are switched off by their execution
    Debug,        \* the tasks in debug mode
    Explicit,     \* the lists of tasks that direct runs are given
    MaxAttempts,  \* app.max_attempts
    MaxErrors     \* MAX_CONSECUTIVE_ERRORS

Chars == {Queue[i] : i \in DOMAIN Queue}
Tasks == {Order[i] : i \in DOMAIN Order}

ASSUME QueueAssumption == Queue \in Seq(Chars) /\ Queue # <<>>
ASSUME OrderAssumption == Order \in Seq(Tasks)
ASSUME KindAssumption == Once \subseteq Tasks /\ Debug \subseteq Tasks /\ "none" \notin Tasks
ASSUME ExplicitAssumption == \A list \in Explicit : list \in Seq(Tasks)
ASSUME AttemptsAssumption == MaxAttempts \in Nat \ {0} /\ MaxErrors \in Nat \ {0}

Entries == Chars \X Tasks

\* One task to run: for whom, its id, the task.  The id of a scheduled run is
\* its task, here 0; the id of an explicit run is its position in the list.
Runs == Chars \X Nat \X Tasks
Who(run)  == run[1]
What(run) == run[3]

VARIABLES
    on,           \* the entries that are switched on
    next,         \* an entry's next_exec_time is past or future
    frozen,       \* entries with a human_takeover mark
    exhausted,    \* keys of _retry_exhausted_tasks
    renewed,      \* key -> the characters whose entry of that task has been put off
                  \* beyond the moment the key was marked
    active,       \* the active character
    state,        \* Scheduler.state
    cancel,       \* TaskManager._cancel_event
    consecutive,  \* Scheduler._consecutive_errors, counted up to MaxErrors
    lastFailed,   \* Scheduler._last_failed_task, or "none"
    pc,           \* where the pipeline is
    mode,         \* "scheduled", or "direct"
    explicit,     \* explicit_task_runs
    round,        \* retry_round
    attempted,    \* attempted_this_round
    retryQueue,   \* retry_queue
    failedNext,   \* failed_next_round
    run,          \* the run taken from the head of due: a sequence of at most one
    counted,      \* total_success + total_failed > 0
    onlyDebug,    \* only_debug_tasks_executed
    tries,        \* history: attempts of each run in this pipeline
    culprits,     \* history: the sources of failure counted since the count was zero
    spent,        \* history: entries whose attempts are used up in their present plan
    owed          \* history: deferred runs that have not been tried again

plans   == <<on, next, frozen, spent>>
marks   == <<exhausted, renewed>>
errors  == <<consecutive, lastFailed, culprits>>
rounds  == <<explicit, round, attempted, retryQueue, failedNext, tries, owed>>
totals  == <<counted, onlyDebug>>
vars    == <<plans, marks, active, state, cancel, errors, pc, mode, rounds, run, totals>>

TypeOK ==
    /\ on \subseteq Entries
    /\ next \in [Entries -> {"past", "future"}]
    /\ frozen \subseteq Entries
    /\ exhausted \subseteq Entries
    /\ renewed \in [Entries -> SUBSET Chars]
    /\ active \in Chars
    /\ state \in {"PENDING", "RUNNING", "ERROR"}
    /\ cancel \in BOOLEAN
    /\ consecutive \in 0..MaxErrors
    /\ lastFailed \in Tasks \cup {"none"}
    /\ pc \in {"idle", "head", "device", "pause", "login", "task", "close"}
    /\ mode \in {"scheduled", "direct"}
    /\ explicit \in Seq(Runs)
    /\ round \in 0..(MaxAttempts - 1)
    /\ attempted \subseteq Runs
    /\ retryQueue \in Seq(Runs)
    /\ failedNext \in Seq(Runs)
    /\ run \in Seq(Runs) /\ Len(run) <= 1
    /\ counted \in BOOLEAN
    /\ onlyDebug \in BOOLEAN
    /\ \A r \in DOMAIN tries : r \in Runs /\ tries[r] \in Nat
    /\ culprits \subseteq Tasks \cup {"device", "crash"}
    /\ spent \subseteq Entries
    /\ owed \subseteq Runs

Init ==
    /\ on \in SUBSET Entries
    /\ next \in [Entries -> {"past", "future"}]
    /\ frozen = {}
    /\ exhausted = {}
    /\ renewed = [e \in Entries |-> {}]
    /\ active \in Chars
    /\ state = "PENDING"
    /\ cancel = FALSE
    /\ consecutive = 0
    /\ lastFailed = "none"
    /\ pc = "idle"
    /\ mode = "scheduled"
    /\ explicit = <<>>
    /\ round = 0
    /\ attempted = {}
    /\ retryQueue = <<>>
    /\ failedNext = <<>>
    /\ run = <<>>
    /\ counted = FALSE
    /\ onlyDebug = TRUE
    /\ tries = <<>>
    /\ culprits = {}
    /\ spent = {}
    /\ owed = {}

-----------------------------------------------------------------------------
(* The marks of used-up retries.                                           *)

ClearMarks == exhausted' = {} /\ renewed' = [e \in Entries |-> {}] /\ spent' = {}

\* Mutant: a mark is dropped as soon as it is looked at.
LiftedAtOnce(key, who) == key \in exhausted

\* _is_retry_exhausted(c, t) looks up next_exec_time in the ACTIVE character's
\* table, whoever c is, and drops the mark if that time is later than the mark.
Lifted(key, who) == key \in exhausted /\ who \in renewed[key]

\* What is left of the marks when those of keys are dropped.
DropMarks(keys) ==
    /\ exhausted' = exhausted \ keys
    /\ renewed' = [k \in Entries |-> IF k \in keys THEN {} ELSE renewed[k]]

\* _collect_active_times asks for every enabled entry of the queue's characters.
LiftedByLook == {key \in on : Lifted(key, active)}

\* _mark_retry_exhausted: nothing under a cancel, and a mark is not renewed.
\* The entries that lie in the future now lie beyond the mark.
MarkExhausted(key) ==
    IF cancel \/ key \in exhausted
    THEN UNCHANGED <<exhausted, renewed>>
    ELSE /\ exhausted' = exhausted \cup {key}
         /\ renewed' = [renewed EXCEPT ![key] =
                {c \in Chars : next[<<c, key[2]>>] = "future"}]

\* The entry's next_exec_time is set to a moment in the future, which is later
\* than that of every mark there is.
PutOff(entry) ==
    renewed' = [k \in Entries |->
        IF k \in exhausted /\ k[2] = entry[2]
        THEN renewed[k] \cup {entry[1]} ELSE renewed[k]]

-----------------------------------------------------------------------------
(* The error budget.                                                       *)

ForgetErrors == consecutive' = 0 /\ culprits' = {}

\* record_result(n, 0)
RecordSuccess == ForgetErrors /\ lastFailed' = "none" /\ UNCHANGED state

\* record_result(0, n, key): key is "none" for a failure of the device or of the
\* pipeline itself.  The error is not counted under a cancel, and not again for
\* the task that failed last.
CountError(key, source) ==
    /\ lastFailed' = key
    /\ culprits' = culprits \cup {source}
    /\ consecutive' = IF consecutive < MaxErrors THEN consecutive + 1 ELSE consecutive
    /\ state' = IF consecutive + 1 >= MaxErrors THEN "ERROR" ELSE state

\* Mutant: the same task counts again.
CountEveryFailure(key, source) ==
    IF cancel THEN UNCHANGED <<errors, state>> ELSE CountError(key, source)

RecordFailure(key, source) ==
    IF cancel \/ (key # "none" /\ key = lastFailed)
    THEN UNCHANGED <<errors, state>>
    ELSE CountError(key, source)

-----------------------------------------------------------------------------
(* The user and the clock.                                                 *)

\* Time passes: an entry's next_exec_time is reached.
Arrives(entry) ==
    /\ next[entry] = "future"
    /\ next' = [next EXCEPT ![entry] = "past"]
    /\ UNCHANGED <<on, frozen, spent, marks, active, state, cancel, errors, pc, mode,
                   rounds, run, totals>>

\* save_character_task with a changed leaf, behind guard_idle: the task is
\* switched on, its takeover mark dropped and next_exec_time set to zero.
UserResets(entry) ==
    /\ pc = "idle"
    /\ on' = on \cup {entry}
    /\ next' = [next EXCEPT ![entry] = "past"]
    /\ frozen' = frozen \ {entry}
    /\ renewed' = [k \in Entries |->
           IF k[2] = entry[2] THEN renewed[k] \ {entry[1]} ELSE renewed[k]]
    /\ UNCHANGED <<spent, exhausted, active, state, cancel, errors, pc, mode,
                   rounds, run, totals>>

\* The overview asks for the next execution time, and drops marks as it looks.
Overview ==
    /\ LiftedByLook # {}
    /\ DropMarks(LiftedByLook)
    /\ UNCHANGED <<plans, active, state, cancel, errors, pc, mode, rounds, run, totals>>

\* activate(), from the WebUI behind is_busy()
Activate ==
    /\ pc = "idle"
    /\ state = "PENDING"
    /\ state' = "RUNNING"
    /\ ClearMarks
    /\ ForgetErrors
    /\ cancel' = FALSE
    /\ UNCHANGED <<on, next, frozen, active, lastFailed, pc, mode, rounds, run, totals>>

\* request_stop()
Stop ==
    /\ cancel' = TRUE
    /\ state' = "PENDING"
    /\ ForgetErrors
    /\ ClearMarks
    /\ UNCHANGED <<on, next, frozen, active, lastFailed, pc, mode, rounds, run, totals>>

\* _maybe_recover_from_error after the cooldown: reset(), then activate().
Recover ==
    /\ pc = "idle"
    /\ state = "ERROR"
    /\ state' = "RUNNING"
    /\ ForgetErrors
    /\ ClearMarks
    /\ cancel' = FALSE
    /\ UNCHANGED <<on, next, frozen, active, lastFailed, pc, mode, rounds, run, totals>>

-----------------------------------------------------------------------------
(* A pipeline.                                                             *)

\* The pipeline returns, and its local variables are gone.
Return ==
    /\ pc' = "idle"
    /\ mode' = "scheduled"
    /\ explicit' = <<>>
    /\ round' = 0
    /\ attempted' = {}
    /\ retryQueue' = <<>>
    /\ failedNext' = <<>>
    /\ run' = <<>>
    /\ counted' = FALSE
    /\ onlyDebug' = TRUE
    /\ tries' = <<>>
    /\ owed' = {}

Begin(how, runs) ==
    /\ pc = "idle"
    /\ pc' = "head"
    /\ mode' = how
    /\ explicit' = runs
    /\ cancel' = FALSE
    /\ UNCHANGED <<plans, active, state, errors, round, attempted, retryQueue,
                   failedNext, tries, owed, run, totals>>

\* _loop: the wait interval is computed, which looks at the marks, and
\* _check_and_run starts a scheduled pipeline.
BeginCycle ==
    /\ state = "RUNNING"
    /\ DropMarks(LiftedByLook)
    /\ Begin("scheduled", <<>>)

\* run_direct: one run per task of the list.
BeginDirect(list) ==
    /\ Begin("direct", [i \in DOMAIN list |-> <<active, i, list[i]>>])
    /\ UNCHANGED marks

MustLeave == cancel \/ (mode = "scheduled" /\ state # "RUNNING")

\* The entries _collect_due finds for c, without those whose retries are used up.
DueEntry(c, t) ==
    /\ <<c, t>> \in on
    /\ next[<<c, t>>] = "past"
    /\ (<<c, t>> \in exhausted => Lifted(<<c, t>>, c))
DueOf(c) == {i \in DOMAIN Order : DueEntry(c, Order[i])}

\* _collect_due_cross_character: the first character of the queue that has any;
\* it becomes the active one.  The marks of the characters looked at are checked.
Candidates == {i \in DOMAIN Queue : DueOf(Queue[i]) # {}}
First      == CHOOSE i \in Candidates : \A j \in Candidates : i <= j
Collected  == IF Candidates = {} THEN active ELSE Queue[First]
LookedAt   == {Queue[i] : i \in {j \in DOMAIN Queue : Candidates # {} => j <= First}}
LiftedByCollect ==
    {key \in Entries : key \in on /\ key[1] \in LookedAt /\ next[key] = "past"
                          /\ Lifted(key, key[1])}

\* due, at the head of a turn, when no retry is queued: positions in the list of what is offered.
Offered ==
    IF mode = "direct" THEN explicit ELSE [i \in DOMAIN Order |-> <<Collected, 0, Order[i]>>]
Fresh ==
    {i \in DOMAIN Offered :
        /\ round = 0
        /\ mode = "scheduled" => i \in DueOf(Collected)
        /\ Offered[i] \notin attempted}
FirstFresh == Offered[CHOOSE i \in Fresh : \A j \in Fresh : i <= j]

Collecting == mode = "scheduled" /\ round = 0 /\ retryQueue = <<>>

\* What collecting does to the active character and to the marks.
Collect ==
    IF Collecting
    THEN active' = Collected /\ DropMarks(LiftedByCollect)
    ELSE UNCHANGED <<active, marks>>

Leave ==
    /\ pc = "head"
    /\ MustLeave
    /\ pc' = "close"
    /\ UNCHANGED <<plans, marks, active, state, cancel, errors, mode, rounds, run, totals>>

\* Mutant: a retry runs as whoever is active.
RetryInPlace ==
    /\ pc = "head" /\ ~MustLeave
    /\ retryQueue # <<>>
    /\ run' = <<Head(retryQueue)>>
    /\ retryQueue' = Tail(retryQueue)
    /\ onlyDebug' = (onlyDebug /\ What(Head(retryQueue)) \in Debug)
    /\ pc' = "device"
    /\ UNCHANGED <<plans, marks, active, state, cancel, errors, mode, explicit, round,
                   attempted, failedNext, tries, owed, counted>>

\* The next retry of this round; a scheduled one switches to its character.
TakeRetry ==
    /\ pc = "head" /\ ~MustLeave
    /\ retryQueue # <<>>
    /\ run' = <<Head(retryQueue)>>
    /\ retryQueue' = Tail(retryQueue)
    /\ active' = Who(Head(retryQueue))
    /\ onlyDebug' = (onlyDebug /\ What(Head(retryQueue)) \in Debug)
    /\ pc' = "device"
    /\ UNCHANGED <<plans, marks, state, cancel, errors, mode, explicit, round,
                   attempted, failedNext, tries, owed, counted>>

TakeFresh ==
    /\ pc = "head" /\ ~MustLeave
    /\ retryQueue = <<>>
    /\ Fresh # {}
    /\ run' = <<FirstFresh>>
    /\ Collect
    /\ onlyDebug' = (onlyDebug /\ What(FirstFresh) \in Debug)
    /\ pc' = "device"
    /\ UNCHANGED <<plans, state, cancel, errors, mode, rounds, counted>>

\* Mutant: one round too many.
OneRoundMore == round < MaxAttempts

\* Whether failed runs of this round may be tried again.
MayRetry == round + 1 < MaxAttempts

NextRound ==
    /\ pc = "head" /\ ~MustLeave
    /\ retryQueue = <<>> /\ Fresh = {}
    /\ failedNext # <<>> /\ MayRetry
    /\ round' = round + 1
    /\ retryQueue' = failedNext
    /\ failedNext' = <<>>
    /\ attempted' = {}
    /\ Collect
    /\ UNCHANGED <<plans, state, cancel, errors, pc, mode, explicit, tries, owed, run,
                   totals>>

Complete ==
    /\ pc = "head" /\ ~MustLeave
    /\ retryQueue = <<>> /\ Fresh = {}
    /\ failedNext = <<>> \/ ~MayRetry
    /\ Collect
    /\ pc' = "close"
    /\ UNCHANGED <<plans, state, cancel, errors, mode, rounds, run, totals>>

Task == What(run[1])

\* _maybe_daily_restart, for a task not in debug mode, looks at the marks; then
\* runtime_ctx.refresh succeeds ...
DeviceReady ==
    /\ pc = "device"
    /\ IF Task \in Debug THEN UNCHANGED marks ELSE DropMarks(LiftedByLook)
    /\ pc' = "login"
    /\ UNCHANGED <<plans, active, state, cancel, errors, mode, rounds, run, totals>>

\* ... notices the cancel ...
DeviceCancelled ==
    /\ pc = "device" /\ cancel
    /\ IF Task \in Debug THEN UNCHANGED marks ELSE DropMarks(LiftedByLook)
    /\ pc' = "close"
    /\ UNCHANGED <<plans, active, state, cancel, errors, mode, rounds, run, totals>>

\* Mutant: a device that does not start is not counted.
DeviceFailsUncounted ==
    /\ pc = "device"
    /\ pc' = "pause"
    /\ UNCHANGED <<plans, marks, active, state, cancel, errors, mode, rounds, run, totals>>

\* ... or fails, which counts; the pipeline leaves in ERROR, and otherwise pauses.
DeviceFails ==
    /\ pc = "device"
    /\ IF Task \in Debug THEN UNCHANGED marks ELSE DropMarks(LiftedByLook)
    /\ RecordFailure("none", "device")
    /\ pc' = IF state' = "ERROR" THEN "close" ELSE "pause"
    /\ UNCHANGED <<plans, active, cancel, mode, rounds, run, totals>>

Pause ==
    /\ pc = "pause"
    /\ pc' = IF cancel \/ state # "RUNNING" THEN "close" ELSE "head"
    /\ UNCHANGED <<plans, marks, active, state, cancel, errors, mode, rounds, run, totals>>

\* Mutant: the attempt is not noted.
AttemptUnnoted ==
    /\ pc = "login"
    /\ pc' = "task"
    /\ UNCHANGED <<plans, marks, active, state, cancel, errors, mode, rounds, run, totals>>

LoggedIn ==
    /\ pc = "login"
    /\ attempted' = attempted \cup {run[1]}
    /\ pc' = "task"
    /\ UNCHANGED <<plans, marks, active, state, cancel, errors, mode, explicit, round,
                   retryQueue, failedNext, tries, owed, run, totals>>

\* The login's exception leaves the pipeline; _loop counts it, a direct run's
\* thread dies of it.
LoginRaises ==
    /\ pc = "login"
    /\ IF mode = "scheduled" THEN RecordFailure("none", "crash") ELSE UNCHANGED <<errors, state>>
    /\ Return
    /\ UNCHANGED <<plans, marks, active, cancel>>

-----------------------------------------------------------------------------
(* The outcome of an attempt.  The entry is the active character's.        *)

Entry == <<active, Task>>

Tried == tries' = [r \in DOMAIN tries \cup {run[1]} |->
                      IF r \notin DOMAIN tries THEN 1
                      ELSE IF r = run[1] THEN tries[r] + 1 ELSE tries[r]]

\* _update_next_exec_time: a task that runs once is switched off.
Rescheduled ==
    IF Task \in Once
    THEN on' = on \ {Entry} /\ UNCHANGED <<next, marks>>
    ELSE /\ next' = [next EXCEPT ![Entry] = "future"]
         /\ PutOff(Entry)
         /\ UNCHANGED <<on, exhausted>>

\* execute_tasks returns (0, 0) when the cancel event is set.
Skipped ==
    /\ pc = "task" /\ cancel
    /\ pc' = "head"
    /\ UNCHANGED <<plans, marks, active, state, cancel, errors, mode, rounds, run, totals>>

Succeeds ==
    /\ pc = "task"
    /\ Tried
    /\ Rescheduled
    /\ frozen' = frozen \ {Entry}
    /\ spent' = spent \ {Entry}
    /\ RecordSuccess
    /\ counted' = TRUE
    /\ owed' = owed \ {run[1]}
    /\ pc' = "head"
    /\ UNCHANGED <<active, cancel, mode, explicit, round, attempted, retryQueue,
                   failedNext, run, onlyDebug>>

\* is_human_takeover_blocked, of a mark and a time
Blocked(marked, time) == marked /\ time = "future"

\* A takeover that still suppresses the task counts as a success.
LeaveToHuman ==
    /\ RecordSuccess
    /\ counted' = TRUE
    /\ owed' = owed \ {run[1]}
    /\ UNCHANGED failedNext

\* A failure with attempts left waits for the next round.
Deferrable == MayRetry /\ Task \notin Debug
Defer ==
    /\ failedNext' = Append(failedNext, run[1])
    /\ owed' = owed \cup {run[1]}
    /\ UNCHANGED <<errors, state, counted>>

\* The last attempt counts.  A scheduled task, not in debug mode, is marked.
Marking == mode = "scheduled" /\ Task \notin Debug
GiveUp ==
    /\ RecordFailure(Task, Task)
    /\ counted' = TRUE
    /\ owed' = owed \ {run[1]}
    /\ UNCHANGED failedNext

\* The attempt returns False and leaves the entry alone: an exception after
\* which the game was brought back, a request to retry, or a cancel.
Fails ==
    /\ pc = "task"
    /\ Tried
    /\ \/ /\ Blocked(Entry \in frozen, next[Entry])
          /\ LeaveToHuman
          /\ UNCHANGED <<marks, spent>>
       \/ /\ ~Blocked(Entry \in frozen, next[Entry])
          /\ Deferrable /\ Defer
          /\ UNCHANGED <<marks, spent>>
       \/ /\ ~Blocked(Entry \in frozen, next[Entry])
          /\ ~Deferrable /\ GiveUp
          /\ IF Marking /\ ~cancel
             THEN MarkExhausted(Entry) /\ spent' = spent \cup {Entry}
             ELSE UNCHANGED <<marks, spent>>
    /\ pc' = "head"
    /\ UNCHANGED <<on, next, frozen, active, cancel, mode, explicit, round, attempted,
                   retryQueue, run, onlyDebug>>

\* _mark_human_takeover: the entry is marked and rescheduled.  A task that runs
\* once is only switched off, and its time does not move.
TakenOver ==
    /\ pc = "task"
    /\ Tried
    /\ frozen' = frozen \cup {Entry}
    /\ \/ /\ Task \notin Once \/ next[Entry] = "future"
          /\ Rescheduled
          /\ LeaveToHuman
          /\ spent' = spent \ {Entry}
       \/ /\ Task \in Once /\ next[Entry] = "past"
          /\ on' = on \ {Entry} /\ UNCHANGED next
          /\ IF Deferrable THEN Defer ELSE GiveUp
          /\ IF ~Deferrable /\ Marking THEN MarkExhausted(Entry) ELSE UNCHANGED marks
          /\ UNCHANGED spent
    /\ pc' = "head"
    /\ UNCHANGED <<active, cancel, mode, explicit, round, attempted, retryQueue, run,
                   onlyDebug>>

\* execute_tasks raises: a takeover mark is not consulted, and the pipeline leaves
\* at once if the failure brings on ERROR.
Raises ==
    /\ pc = "task"
    /\ Tried
    /\ IF Deferrable
       THEN Defer /\ UNCHANGED <<marks, spent>> /\ pc' = "head"
       ELSE /\ GiveUp
            /\ IF Marking /\ ~cancel
               THEN MarkExhausted(Entry) /\ spent' = spent \cup {Entry}
               ELSE UNCHANGED <<marks, spent>>
            /\ pc' = IF state' = "ERROR" THEN "close" ELSE "head"
    /\ UNCHANGED <<on, next, frozen, active, cancel, mode, explicit, round, attempted,
                   retryQueue, run, onlyDebug>>

\* The summary after the loop: if tasks other than debug ones were counted, a
\* scheduled pipeline goes back to the first character of the queue.
Close ==
    /\ pc = "close"
    /\ active' = IF counted /\ ~onlyDebug /\ mode = "scheduled" /\ state = "RUNNING"
                 THEN Queue[1] ELSE active
    /\ Return
    /\ UNCHANGED <<plans, marks, state, cancel, errors>>

-----------------------------------------------------------------------------
User ==
    \/ \E entry \in Entries : UserResets(entry)
    \/ \E list \in Explicit : BeginDirect(list)
    \/ Overview \/ Activate \/ Stop

Clock == \E entry \in Entries : Arrives(entry)

Turn == Leave \/ TakeRetry \/ TakeFresh \/ NextRound \/ Complete
Device == DeviceReady \/ DeviceCancelled \/ DeviceFails \/ Pause \/ LoggedIn \/ LoginRaises
Outcome == Skipped \/ Succeeds \/ Fails \/ TakenOver \/ Raises
Pipeline == Turn \/ Device \/ Outcome \/ Close

Next == User \/ Clock \/ Recover \/ BeginCycle \/ Pipeline

Spec == Init /\ [][Next]_vars

\* The pipeline goes on; the loop thread starts cycles; time passes; and a login
\* that is tried again and again for a task succeeds in the end.
Fairness ==
    /\ WF_vars(Pipeline)
    /\ WF_vars(BeginCycle)
    /\ WF_vars(Recover)
    /\ \A entry \in Entries : WF_vars(Arrives(entry))
    /\ \A t \in Tasks : SF_vars(LoggedIn /\ Task = t)

FairSpec == Spec /\ Fairness

-----------------------------------------------------------------------------
(* Properties.                                                             *)

\* No run is attempted more than max_attempts times in a pipeline, whatever fails
\* in between and whatever is requested meanwhile.
AttemptBudget == \A r \in DOMAIN tries : tries[r] <= MaxAttempts

\* A failed run is queued for its next attempt once: it is never in both lists,
\* nor twice in one, nor queued while it is the one being worked on.
Queued == retryQueue \o failedNext
QueuedOnce ==
    /\ \A i, j \in DOMAIN Queued : Queued[i] = Queued[j] => i = j
    /\ pc \in {"device", "login", "task"} => \A i \in DOMAIN Queued : Queued[i] # run[1]

\* A task runs as the character it was collected for, also when it is retried after
\* tasks of another character, and so does what its outcome writes.
RunsAsItsCharacter == pc \in {"device", "login", "task"} => active = Who(run[1])

\* ERROR means that the environment is broken: one task that keeps failing, with
\* everything else well, does not bring it on.
OneBadTaskIsNotAnOutage ==
    [][state # "ERROR" /\ state' = "ERROR" =>
        \/ Cardinality(culprits') > 1
        \/ culprits' \cap {"device", "crash"} # {}]_vars

\* A scheduled pipeline does not start over with a task whose attempts were used
\* up, before the task has been put off to a later time.
SamePlanSkipped ==
    [][TakeFresh /\ mode = "scheduled" =>
        <<Who(run'[1]), What(run'[1])>> \notin spent]_vars

\* A pipeline completes only when every run it deferred has been tried again.
DeferredIsRetried == [][Complete => owed = {}]_vars

\* Every pipeline comes to its end, even if nobody stops it.
PipelineEnds == pc # "idle" ~> pc = "idle"

\* A due task is attempted, unless the scheduler leaves RUNNING or the task stops
\* being due.
Pending(entry) == DueEntry(entry[1], entry[2]) /\ state = "RUNNING"
DueIsAttempted ==
    \A entry \in Entries :
        Pending(entry) ~> \/ ~Pending(entry)
                          \/ pc = "task" /\ Entry = entry

\* The pipeline's invariant: types; attempts within max_attempts, runs queued once, and as
\* their own character.
QueuesAreSound == TypeOK /\ AttemptBudget /\ QueuedOnce /\ RunsAsItsCharacter
=============================================================================
