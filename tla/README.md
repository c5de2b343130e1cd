# A formal model of AutoScriptor

AutoScriptor drives an Android emulator: it runs game scripts ("tasks") for several
characters of an account, by schedule or on demand, and is operated from a WebUI.
This directory holds TLA+ modules of its parts, the TLC runs that check them on small
instances, and proofs, checked by TLAPS, of what holds for every instance.  Paths below
are relative to `src/`.  `PROJECT.json` lists the runs, the theorems, the hazards of the
code line by line with the properties that cover them, and for each definition the lines
it was translated from.

## 1. Inventory

| Component | State | Operations | Interacts with |
|---|---|---|---|
| **Execution control** `orchestrator/scheduler.py`, `facade.py`, `backend/webui/routes/tasks.py`, `routes/editor.py`, `server.py` | scheduler state, error count and time, cancel and stop events, execution gate and owner, direct thread, editor flags | run, stop, reset, deactivate, editor begin/stop/end, shutdown; the loop; mark_error and recovery; acquire/release | one event loop of HTTP handlers, the scheduler's daemon thread, one direct-run thread; they share all of this, mostly without locks |
| **Task pipeline** `scheduler.py` `_run_task_pipeline` | task entries, retry marks, retry lists and round, active character, error budget | collect due tasks across characters, attempt, defer, retry rounds, give up and mark, login, device start | called by both threads under the gate; the WebUI reads and drops marks |
| **Timing rules** `orchestrator/model.py`, `tasks/task_schedule.py` | none (pure); `next_exec_time` in the entry | next run, window clamp, weekday search, due predicate, effective time | loop, pipeline, task manager, WebUI |
| **Loop wake-up and hot reload** `scheduler.py` `_loop`, `ConfigWatcher` | wake event, seen mtimes, `_reload_deferred` | wake, wait, poll files, reload or put off | task manager, configuration |
| **Task manager** `orchestrator/task_manager.py`, `tasks/task_state.py` | current task, progress, takeover fields, marks in the entry | one attempt, retries, recovery of the game, takeover, reschedule | pipeline, monitor, recorder |
| **Recorder** `AutoScriptor/logging/task_video_recorder.py` | segments, the recording process, two threads | start, rotate, stop, keep or drop | task manager, ADB |
| **Delivery** `orchestrator/delivery.py` | per-character reports; notifier queue, worker, history | record, flush, finish; submit, drain | pipeline, robot |
| **Background monitor** `AutoScriptor/core/background.py` | callbacks, signals, callback threads, clear protection | add, remove, clear, scan, concurrent scan, signals | every task |
| **Accounts and configuration** `ZmxyOL/accounts/account_store.py`, `AutoScriptor/utils/app_config.py`, `json_io.py` | flat view, document, two files | load, save, switch account or character, outside edits | everything |
| **Projection and ordering** `orchestrator/projection.py`, `model.py`, `static/js` | task tree, ordering overlay, version | save list, order, layout; import; drag and drop | WebUI |
| **Registry and catalog** `tasks/task_register.py`, `orchestrator/catalog.py` | registered tasks, ids, former paths | load, adopt, prune, reload | task manager, projection |
| **Device session and IPC pool** `AutoScriptor/core/runtime_context.py`, `control/NemuIpc` | session and its lock, connections, buffer, two locks, pool of threads | refresh, drop, capture, tap, text, retry, reconnect | task, monitor, editor |
| **Recognition and primitives** `AutoScriptor/core/api.py`, `box.py`, `recognition/` | what was seen, boxes, OCR engines and cache | locate, wait, click, click until, replay, OCR | every task |
| **Navigation and login** `ZmxyOL/nav` | where the game is believed to be, pages of the login | ensure_in, walk a route, login | tasks, pipeline |
| **Battle** `data/character/hero.py`, `ZmxyOL/character`, `ZmxyOL/battle` | professions and flows, plan, position | choose a flow, fight, walk out | monitor |
| **WebUI and editor** `backend/webui` | tab's list and version; snippets; pictures, table, custom scripts | post, refresh, poll; run virtually; save a key or a script | all of the above |
| **Updater and shell** `backend/core/updater.py`, `gui.py`, `frontend/electron` | checkout, restart timer, supervisor; window, backend, polls | check, pull, restart, stop; start, poll, quit | git, processes |
| **QQ robot, error archives, scripts** `backend/core/qq_bot.py`, `scripts/qq-*`, `logging/tracer.py`, `log_archiver.py` | installation, pid record, lock, listeners; pictures and archives | install, start, stop, set up; write, trim, archive, delete | delivery, task manager |

What makes this code hard: several threads share flags that are read, then acted on; a
stop is cooperative and resets arrive from five places; due times are computed in one
place, waited for in another and written in a third; failures are counted with a memory
of one; marks of one character are compared with the table of another; a table exists
three times and is saved from two of them; calls into the emulator's library may hang and
take effect after they were given up; and every loop must come to an end.

What makes each correct: one device holder at a time, the gate always given back by its
owner, a stop that ends the work it found (execution control); no more than
`max_attempts` attempts, nothing queued twice or lost, one bad task is not an outage
(pipeline); displayed, waited-for and due times agree, once a period, nothing slept
through (timing); no lost wake-up, no lost edit (loop); every way out of an attempt leaves
entry, marks and recorder consistent (task manager, recorder); each report is true and
told once, each message judged once (delivery); a once-callback runs once and only its
owner removes it (monitor); what is saved is the active character's (accounts); a
setting stays its task's (catalog, projection); a task has the session its own refresh
made, no lock or touch is left (device); what is said to be found is on the frame
(recognition); a call that returns has come where it was to come (navigation, battle); a
tab that carries the server's version shows its list (WebUI); pulled code is not
forgotten, no process left behind (updater, shell); strangers' processes are let live,
pictures belong to their run (robot, archives).

## 2. Plan

Done: all components above, each in a module of its own, ordered from the execution gate
outwards; proofs for the gate, the clock, the loop, the reload, the pool, the pipeline,
the queue, the reports, the recorder, the attempt, the accounts, and what is shared by
threads, the screen and the replay among it; the catalog and the robot; reading text, the
login, the routes, and battles.  Only checked: the pages, and touching by name.

Composition: `TaskPipeline` relies on the mutual exclusion that `ExecutionControl` proves
(one pipeline at a time), `ExecutionControl` on nothing of the pipeline but its ways out;
`TaskPipeline` abstracts to past and future the times that `TaskClock` computes; the
attempt that is one step there is `TaskAttempt`, its reports `RunReports`, its put-off
reload `HotReload`, what wakes its loop `LoopWakeup`; a call that may fail or be late in
`NemuChannel` is carried by `WorkerPool`, a session that is made as a whole in
`EditorSnippet` is `DeviceSession`'s.  Where two modules meet, each has the other's steps
as one choice.

## 3. Modules

### Execution

**`ExecutionControl`** - threads and handlers around the gate.  `http` is the program
counter of the event loop (two handlers never overlap; their non-atomic parts, such as the
four assignments of a stop, are separate steps), `pc[w]` that of a worker, `"scheduler"`
or `"direct_run"`.  One label per point between two reads or writes of shared state: the
loop (`wait`, `error`, `reset`, `reactivate`, `enable`, `refill`, `dispatch`), the gate
(`acquire`, `own`, `admit`, `uncancel`, ..., `disown`, `ungate`, `unref`) and the pipeline
both workers run (`head`, `device`, `pause`, `login`, `start`, `task`, and `mark_*` on the
way into `mark_error`).  `Busy` is `RuntimeController.is_busy`.  The cooldown is abstracted
to hot and cool, a task to its ways out; the error count saturates at the limit.  `told`
and `enabled` are history.  **`DeviceLease`** - what the gate promises: a holder that is
given back before it changes; `ExecutionControl` implements it with `Holder` as mapping.

**`TaskPipeline`** - `_run_task_pipeline` cycle after cycle, with the variables of the code
under their names, the entries of all characters, the retry marks and the error budget,
the user's requests (`UserResets`, `Overview`, `Activate`, `Stop`) between any two steps,
and the clock (`Arrives`).  Of a mark's timestamp only one thing is ever asked: whether the
active character's `next_exec_time` is later; `renewed[key]` is the set of characters for
which it is.  `tries`, `culprits`, `spent` and `owed` are history.

**`TaskClock`** - the rules of `model.py` as operators on minutes since a Monday 00:00, and
one task with the loop that sleeps, wakes, defers, runs and reschedules it, and users who
save it.  **`LoopWakeup`** - the wake event with its setters and its two waiters.
**`HotReload`** - the watched files, the reload and when it is put off.
**`TaskAttempt`** - one execution of a task: attempts, recoveries of the game, marks,
takeover, and every return.  **`TaskRecorder`** - segments, the rotating thread, stop().

**`RunReports`**, **`QQNotifier`**, **`Outbox`** - the reports of a pipeline; the queue of
messages with its worker; and what such a queue promises, which it implements.

**`BattleWatch`** - the table of callbacks, the monitor's thread with its checkers, and a
task that fights under its watch.  A registration is a name and a number, standing for the
identity of the info dict that `expected_info` and `_callback_is_current` compare.  A
thread's label follows `run()`; what a look finds, throttles and failing screenshots are
one choice; a callback is a sequence of effects.  The task follows
`_run_kunlunshan_round` around `Hero.battle_loop`: two scopes, the resets of TRY_EXIT, the
protection, the ways out, and clear() from outside.  `fired` and `late` are history.

### Data

**`AccountStore`** - the document, the flat view and the two files; an operation is a list
of steps, between any two of which the program may be killed.  A table is the set of the
edits that are in it.  **`TaskCatalog`** - the load of the task modules with failures,
adoption of former paths and prune, beside what pages write.  **`TaskPages`** - a tab, its
requests and answers in any order, and the version.  **`TaskOrdering`** - the order with its
groups: drag and drop, the save under names, the order shown and run.  **`EditorFiles`** -
pictures, `ui_map.csv` and custom scripts.  **`ErrorArchives`** - pictures of a run, their
trim, the archive and the page that shows it.

### Device and game

**`WorkerPool`** - the threads that carry calls into the library.  **`NemuChannel`** -
captures, taps and texts with their retries over one connection; calls fail, are late, and
then may take effect.  **`DeviceSession`** - who makes, uses and drops a session.
**`EditorSnippet`** - virtual runs beside the page.  **`Screen`**, **`Matches`**,
**`TouchReplay`**, **`OcrEngine`** - the calls that look and press, the boxes a look comes
to, a recording that is played back, reading text.  **`Navigation`**, **`PageRouter`**,
**`HeroBattle`** - routes, the login, battles.

### Processes

**`SourceUpdate`**, **`ElectronShell`**, **`QQBot`** - update and restart; the desktop
shell; the robot's scripts as processes that may be closed, crash, and share pids.

### Runs and proofs

**`MC*`** give the values for TLC.  As one run may check several specifications that share
no variables, each such module has a variable `moves`, chosen at the start, that says which
of them takes the steps; the others stay where they begin.  **`*Proofs`** hold the theorems;
they extend the MC module where the property is one the run states there, and speak of
the component's own specification (`Reload!Spec => []ReloadIsSound`).

Each module names operators that a plausible bug would put in place of its own ("Mutant:
..."); with each of them the run it belongs to finds the property violated.

## 4. Runs

Passing (distinct states; two workers):

| Run | Instance | Shows |
|---|---|---|
| `execution_control` (`MCControl`) | 3 errors, direct runs of up to 2 attempts; a tab; three tasks to order; two keys spelled alike. 287 623 | one device holder, no leaked gate, no wrong release, `is_busy` sound, a stopped round takes no further task, the lease is implemented; a stopped worker ends and ERROR ends; the tab, the order and the editor's files are right, and the tab catches up |
| `task_plans` (`MCPlans`) | 8 rules (every mode; window, weekdays, both), two weeks, 1 save; one character with a plain, a one-time and a debug task; OCR, map, login and hero. 3 776 679 | no spinning, no oversleeping, once a period, no starvation, the displayed time is right; attempts stay within the budget and marks hold; what is said to be found is on the frame, calls come where they are to come, battles use a flow of the hero's profession |
| `pipelines_end` (`MCPipelines`) | 2 characters, 1 task, direct runs that repeat it; 1 character, 2 tasks. 164 089 | nothing is queued twice, retries run as their character, one bad task is no outage; every pipeline ends; a due task is attempted |
| `loop` (`MCLoop`) | 2 errors; pool of 1 with 2 clients and 3 jobs. 256 336 | no lost wake-up, no lost edit, a bounded pool that mislays nothing; due tasks run, calls return |
| `delivery` (`MCDelivery`) | 2 characters, 2 tasks, 2 attempts, 1 renewal; 5 messages, capacity 2; 2 kept segments of 5; a duel. 452 328 | reports are true and whole, the queue implements the outbox, nothing goes on recording; stop() returns; the sign that stays ends the duel and checkers end |
| `account_store` (`MCAccountStore`) | 2 accounts, 3 characters, 2 edits; 3 attempts; 2 tasks, 3 directories; 2 scripts. 2 778 037 | saved edits stay with their character through switches, failures and kills; settings stay their task's; every way out of an attempt is clean; the robot's scripts find, spare and guard what they should |
| `shared` (`MCShared`) | 3 callbacks, 2 checkers; 2 threads, 2 attempts, 2 faults; 2 testers; the others below. 2 602 354 | the battle's callbacks survive clear(), once is once, only owners remove; locks and touches are returned; a task has its own session; virtual runs leave nothing; updates, restarts and quits; what is pressed has just been seen; pictures belong to their run |

Violations.  Each checks one sentence of the documentation or of a comment and finds a
behaviour of the code that contradicts it; `PROJECT.json` quotes the sentence.

| Run | The code |
|---|---|
| `cancel_is_kept` | a direct run erases a stop that came before its thread had got going |
| `enabled_only_by_user` | direct runs that fail bring on ERROR, and the recovery enables a scheduler that the user had switched off |
| `same_plan_skipped` | with two characters a retry mark is compared with the wrong character's time, and a failing task starts over in the same plan |
| `deferred_is_retried` | a retry that meets a failing start of the emulator is dropped |
| `outcome_is_kept` | the loop reloads the configuration without its lock while a direct run writes an outcome, which goes to an entry that nobody saves |

### Read off the code, without a run of their own

- *Pipeline and timing.*  The takeover of a one-time task counts as an error
  (`scheduler.md:228-232` says it does not); ERROR is entered from PENDING by direct runs,
  and if the loop was never started nothing ends it; a retry round may begin before the
  next character's first attempts; a weekly task that ends before 05:00 is due at 05:00 of
  the same day; with a window and weekdays 05:00 of an allowed day is displayed, which the
  window then defers, and if the window has closed by 05:00 the two deferrals alternate for
  ever.  The last two are the premises of `ShownIsDue` and `RunsWithinFortnight`.
- *Monitor and battle.*  A callback that adds through a scope that has been left is not
  removed by it (`background.py:47`), which is `late`; `battle_loop` erases an end answered
  during its delay, the premise of `SignEndsBattle`; three scripts pass a flow past the
  fallback that `battle-flows.md:22` promises to other professions.
- *Device.*  A text may be typed twice (`nemu_ipc.py:605`), a late capture may tear a frame,
  a page that starts the device keeps the stop button waiting (`api.py:82`), old connections
  stay open (`runtime_context.py:108`).  A gesture whose connection another thread has
  closed, and which cannot reopen it, is given up with the touch down and the gesture lock
  free: `strayed` counts it among the gestures that went wrong.
- *Recognition.*  `click` with a list takes any of its targets although its docstring says
  all; `wait_for_appear` of a list never raises at its time-out; `Box` minus and plus do not
  undo each other at zero sizes.
- *Editor and pages.*  A click of a virtual run reaches the device if the page has asked for
  a screenshot meanwhile (`editor.py:1300`), the premise of `StraysOnlyIfAsked`; a second save
  drafted before the first one's answer undoes it (`app.js:925`); a stale tab's list replaces
  newer ones, as no version is compared (`projection.py:678`); the guard of the ordering
  save is never false (`projection.py:705`), so a task that is not registered at a save loses
  its place.
- *Catalog.*  Saving the list drops entries that the prune would protect
  (`projection.py:678`); after a load that failed, an import drops keys that would have been
  adopted later.
- *Updater, shell, robot, archives.*  A pull killed after HEAD has moved is not followed by a
  restart (`half`); a stop that comes while a restart is under way is lost (`gui.py:148`); a
  backend started after a quit within 250 ms stays; stopping the robot ends any node.exe on
  the port (`qq_bot.py:208-209` says otherwise); an archive deleted while it is made comes
  back with pictures only; `clear` disturbed by a trim leaves the former run's pictures.

## 5. Bounds

- *Execution and pipeline.*  `MaxErrors` is the code's 3 (2 in the loop, whose states below
  and at the limit are two); `DirectLimit` = 2 attempts in a direct run, a first and one with
  the memory of the first; the scheduled pipeline has no bound on its attempts.
  `MaxAttempts` = 2 is one main and one retry round, the least with both the deferral and the
  giving up (3 for one attempt alone: a first, a middle and a last).  Three tasks give as many
  sources of failure as the error limit; two characters are what it takes to confuse one with
  another.
- *Time.*  Two weeks, so that every weekday rule comes round twice; steps of at most 330
  minutes, cut at each wake-up, meet windows and 05:00 from many sides; one save lets any rule
  change into any other at any moment.
- *Threads.*  Two checkers, so that one that outlived its callback meets the next one's; two
  registrations of a name in use at a time, the old and the new; two clients for a pool of
  one and two, so that one waits and one takes over; two attempts and two faults in the
  channel, so that a fault meets a retry.  (Four faults are needed for the gesture that is
  given up while another thread has the connection closed; `ChannelSound` has no bound.)
- *Data.*  Two edits of a table, with a second account of one character: an edit may go to
  the wrong character of the same account, and of the other one.  Two tasks in three
  directories, one of them custom; two changes, two writes.  Two keys with one stem.  Two
  scripts at a time, two pids, one stranger, one fault: a pid is used again.
- *Processes.*  Two commits and two timers; two repeats and three polls at a time: a poll that
  doubles meets the bound on repeats.

Every counter that grows is bounded by a guard that names its bound; none of the proofs
depends on the value of one.

## 6. Fairness

Used for the liveness properties only.  *Execution control*: a handler that has begun
returns, editor code returns, the threads run (weak fairness on the loop, each pipeline, the
thread's last step): tasks and device calls end, because scripts wait with cancellable sleeps
and time-outs; time passes (`CoolDown`).  Nothing obliges a user to press anything, and that
ERROR ends is claimed only when direct runs and the editor let the device go in the end.
*Pipeline*: it runs, time passes, and a login that is tried again and again succeeds at some
time (strong fairness: an emulator that never logs in attempts nothing).  *Loop*: it takes
its steps; *pool*: clients and workers do, but a call into the library may hang for ever, which
is why `Obliged` leaves it out.  *Queue, recorder*: the worker, the rotating thread and the
stopping one run; sending has a time-out.  *Duel*: the threads run, callbacks end, the task
goes on, and a sign that stays on the screen is recognised time and again (strong fairness on
`Sees`: a single recognition may fail or be throttled).  *Tab*: the server answers, answers
arrive, the timer polls, and a task that ends says so.

## 7. Proofs

Each theorem is about the component's specification with its constants as they come; the runs
check the same formula on an instance, and every inductive invariant was checked by TLC
before it was proved.

**`ExecutionControlProofs`.**  The safety of the gate is not inductive as it stands: mutual
exclusion needs that a label inside the gate implies the locked gate, that the owner's name is
written between `own` and `disown` exactly by the one inside, and that the thread handle
covers a direct run from acquire to `unref`.  `LeaseInv` says this; its preservation is proved
action by action with three lemmas for steps that stay inside, stay outside, or cross
(`OwningStep`, `LoopingStep`, `LeaseStep`).  From it follow `DeviceIsExclusive`,
`GateIsReturned`, `OwnerReleases`, `BusyIsSound`, and `LeaseRefinement`, where each step is an
acquire, a release or a stutter of `DeviceLease`.  `StopIsHonoured` needs a second invariant:
while a told round is inside its pipeline the state is not RUNNING, because whoever could set it
is either the loop (which is that round) or a handler that `is_busy()` refuses, and a handler
already past that test has ended before the stop could begin.

**`PlansProofs`.**  `ClampIsNextOpening` (the clamp is the first moment inside the window)
and `NextAllowedDayIsFirst` (05:00 of the first allowed day, within a week), for every time and
rule; then `TypeCorrect` (with the bound on `next_exec_time`), `WaitIsExact`, `PeriodIsKept` and
`SleepIsSound`, together `ClockSoundness`, which rests on the invariant that a sleeping loop's wait was computed from the
entry as it still is (`SleepInvariant`), and on the lemmas that both searches are monotone.
The same invariant gives `ShownTimeIsKept`.  `FortnightIsKept` needs one of its own,
`RunIsAhead`: since the last run there is a moment, no further off than the rule allows, at
which the task may be run, and neither the clock, nor a deferral, nor a wait has passed it.
An offset in hours may be as long as the user likes, which is why `Longest` has it.  `OcrSound`:
what is kept in the cache is the text of every image with its fingerprint (`KeptIsRead`), and
one that reads has an engine of its own (`AtWorkReading`).  `LoginSound`: what the app shows
are pages of the client (`AppShows`), a handler is that of one of them (`Chosen`), and the
handlers in vain were all on one page, where they are counted (`Deaf`).  `HeroSound`: the registry
has what the files held when they were executed (`Registry`); what is remembered of a step of the
plan (`fired`, `last`, the first round) is what the step did, in terms of whether it had its
turn in this round (`StepKept`); and a mark that was seen is not behind the hero (`WalkIInv`).

`MapSound` first needs what the search for routes computes, which is defined by recursion over a
number of steps.  `Recursion` says that a function may be given so (by the least step at which
it could not, `SetInduction`); with it, the n-th path of a route begins n - 1 steps from where
the route does (`RoutesApproach`), so that it comes to no place twice (`ApproachIsWay`), and the
three parts of a way between environments have no place in common (`WayOut`, `WaysFit`).  The
invariant says of what is left of the way that each path may follow the one before, in the
environment the game is believed to be in (`Legs`, `OnRoute`), and, if nothing went wrong, in the
one it is in, unless it began at a place of two environments in the wrong one (`WrongStart`);
then the first path ends in an environment, which the next call cannot mistake (`WastedOnce`).

`PlansCarriedOut` is the whole of `PlansAreCarriedOut`, for the specification the run checks: the
steps of `MCPlans` are, on the variables of each part, that part's steps or none, and its
pipeline is one that `PipelineProofs` is about (`SamePipeline`, the assumptions on its constants
are proved).

**`LoopProofs`.**  `LoopSoundness`: the invariant says what the loop was told before it
cleared the event it has read or will read (`ToldBeforeWait`), and that what it was told since
keeps the event set (`WakeUpIsKept`).  `ReloadSoundness`: `EditsAreAccounted` and `Excused`
name whose turn it is when an edit is neither loaded nor noticed.  `PoolSound`: where every job
and thread is (`Calls`, `Nowhere`, `Places`), that none is in two places (`Once`), and who has
the lock (`Posts`, `Uncrossed`).  `PagesSound` is the tab of `TaskPages`, which learns of an edit by
a version alone: an answer to a save comes with a version that will be raised once more, as the
save announces itself (`AnswersBehind`), so that only an answer to a read can bring the tab level
with the server, and then it is the server's list (`ReadIsTable`); and what was drafted by a tab
that was level is that list but for its own changes, until a write outdates it (`DraftsAgree`).

**`DeliveryProofs`.**  `OutboxServed` and `OutboxRefined`, the safety half of
`ImplementsOutbox`: each message is in one place, the queue is in order, and it has a worker.
`ReportsTrue`: an attempt under way is open in its report (`AtWork`, `AheadIsOpen`), what is
pending has its reason (`PendingIsExcused`), verdicts are counted and true.  `RecorderSound`:
the list of segments is the newest of what was started (`NewestAreHeld`), the process at hand
is that of the last (`ProcessIsNewest`), and what the device has is in the list (`OnDevice`).

**`StoreProofs`.**  `AttemptRight`: what each place in the execution of a task owes (`Tidy`),
how rounds, marks and the request for a human go together (`Rounds`, `LastIsMarked`,
`AskedIsLast`).  `StoreSound` and `SavedKept` suppose `~Overlap`: operations go one at a time, as
they do under the configuration lock; what happens when a running task's outcome overlaps
one is the run `outcome_is_kept`, which refutes the same property.  Their invariant
`StoreIInv` reads off the next step of the one thread that works which edits the page, the
document and the files hold (`AtStep`), that all agree when nobody works (`Settled`), and that
each list of steps is one whose switches are followed by a save (`Lists`).  `BotSound`: who a
script has seen serving still does (`Attended`), and is whom it finds on the port (`Noticed`); the
pids it records or kills are of node programs, or of processes that have ended (`Acquainted`);
nobody starts a robot where there is none installed (`Housed`).  That no robot is lost sight of
needs that nothing was disturbed: then one script is at work at a time, and what it does next says
which robot there can be and what the record names (`Careful`, `ConsoleHolds`).
`CatalogAndBotSound` adds the catalog.  Its invariant says that a setting under a task's own name
is not beside one under a former path (`OwnIsAlone`), or a load would put the older one in its
place; and that a place kept under a path is that of the task's only entry (`PlaceIsHeld`), or the
load that moves the entry would leave the place behind.  What a load does is split where the code
splits it: the defaults change nothing that is stored (`EntriesAre`), the reconciliation leaves a
registered task no single path and every task its setting (`Reconciled`), and the prune takes those
without a file alone, since with no errors all files are registered (`RegisterIs`).  The order is
compared as the sequence of those tasks whose place is not given up: `Within` takes them out of a
sequence, and its laws (`WithinTwice`, `WithinAgrees`, `WithinNamed`, `WithinInjective`) are proved by
induction over the sequence (`AllSequences`), with no operator as a parameter.

**`PipelineProofs`.**  `QueuesSound`: every run in a list is the character's it was collected
for (`Own`), lists are apart (`Apart`), and a run's attempts so far and to come fit the budget
(`Budget`, `FirstRound`).  `OneTaskIsNotAnOutage` with the further invariant that errors in a
row have a culprit other than the one that failed last.  `SamePlanIsSkipped` is for one
character, however it is called: a task that has used up its attempts is marked, with a mark
that a look at its entry does not lift (`SpentIsHeld`), as what is worked on is still due
(`StillDue`); with two, the run `same_plan_skipped` refutes it.

**`SharedProofs`.**  `TableSound` and `OnceHonoured`: where each thread is and what it holds
(`Places`, `Answers`), that an answered callback still in the table is the one in hand
(`FiredIsInHand`), and what the task's scopes will remove (`Scopes`, `Covered`, `OwnStay`).
`SessionSound`: the lock is exactly the makers' (`LockIsMakers`), and nobody makes a session
while a task runs (`OwnSession`), because a page that takes the lock finds one and is content.
`ChannelSound`: a step of an operation says which of the two locks its thread has (`Locks`),
and from its size to its frame a capture is connected (`Framed`); the proof is what showed that
a gesture may be given up with its touch down.  `EditorSound`: what is replaced and put back at
each step of a snippet (`Replaced`, `Equipped`).  `UpdateSound`: after a plain stop the supervisor
looks at its flag before it waits again (`Stopping`), and what was pulled and not loaded is at
one of five places.  `ShellSound`: everything follows from the start of the backend
(`FollowsTheStart`), which is polled until the window has the app (`Followed`).  `ReplaySound`:
an event that is waited for is one of the device's (`Awaited`), what was sent begins at the
clock's time for it (`ClockIsSet`, `SentInOrder`), and a finger of the recording that is down is
one the replay will bring up (`FingersHeld`).  `ScreenSound`: where each kind of call may be
(`Stages`), how its two loops use their clocks (`LooksOn`), what its looks have come to by the
time it answers (`Told`), and that what it has pressed and will press is what it picked
(`AimedAt`), which for `click_all` needs that a finite set of spots in their order has each of
them (`SortedIsAll`).

Assumptions: those named in the modules on the constants, nothing else.  The limits of errors and
attempts are naturals above zero (`ErrorLimitAssumption`, `MaxErrorsAssumption`,
`AttemptsAssumption`, `BoundsAssumption`), as the code's literals are; the pool's size is a natural
and the wire knows no client "nobody" (`Sizes`); messages are numbered (`Numbered`);
`keep_segments` is at least one (`Limits`, the code takes `max(1, ...)`); the first account has a
character and none is called "none" or "gone" (`HomeAssumption`); edits are numbered
(`EditsAssumption`); a battle's own
callbacks are none of the script's once-callbacks and no callback removes them
(`OwnAssumption`, `hero.py`); a frame shows a target at finitely many spots and `extract_info`
reads once at least (`ScreenAssumption`); a recording has its events in the order of their times,
which `replay()` asks of its caller (`api.py:1122`, `ReplayAssumption`); no text is looked for
that says there is none (`TextAssumption`); the shops are those there are pages for
(`LoginAssumption`); what a flow repeats has an interval, as all in the repository have, the
flows that tasks name themselves are registered on `Hero` (`_创号战斗流程.py:111`), and the exit's
mark is in the level (`HeroAssumption`); environments are places of their own, those that several
have (法相, 背包) have paths from and to their environments alone, and the paths that keep the
belief lead to 世界地图 and 登录, which have no places (`MapAssumption`, `env_locs.py`,
`loc_trans.py`); pids and ports are numbers above
zero, which stands for none (`BotAssumption`); tasks and directories are finitely many, the
directories numbered from one, zero being the names', and something may be written
(`CatalogAssumption`); no task is called what the order is kept under (`PagesAssumption`, which
`MCControl` has TLC evaluate); the names of threads differ (`SharedAssumption`); "none" is no task.
`OneTaskIsNotAnOutage` supposes a limit of two errors or more: with one, a single failure is an
outage by definition.

Only model-checked: liveness and fairness, as the prover has no rule for ENABLED; what
`TaskOrdering` computes with recursive operators, which no prover here can unfold, and with
it `PagesAreSound`, of which the tab's part is proved and `EditorFiles`'s (folds over rows) checked.
Of `TouchIsSound` the screen's and the replay's parts are proved; the parts of `Matches` (folds over
boxes) and `ErrorArchives` are checked.

## 8. Not modelled, and why

What templates and OCR make of pixels, the library of the emulator and ADB (vendor code, of
which only success, failure and delay are known); the scripts of the game's screens, whose
correctness is the game's; daylight saving; a `KeyboardInterrupt` inside a task (raised on the
main thread only, which runs no task); the shutdown of the emulator after a pipeline;
passwords and their encryption; the migration of old files; Python's own reload of modules;
the parsing of requests, the editing of source text, news, dialogues and presentation; tray
and menus; the copying of videos, the import of an archive, the log itself; scripts that build
or collect. Of the monitor: clear() from within a callback, a forced clear(), stop() and
re-creation, and the signals other than TRY_EXIT (they steer a battle, they do not end it). Of
the channel: numbered fingers and the shapes of gestures. Of the login: quick login and QR
codes. `PROJECT.json` says for every component what is left out.
