----------------------------- MODULE TaskClock -----------------------------
(***************************************************************************)
(* One scheduled task against the clock: the loop of Scheduler sleeps      *)
(* until the task's effective time, wakes, collects it if it is due or     *)
(* defers it, and reschedules it after a run.  Users save the task at any  *)
(* moment, which wakes the loop.                                           *)
(*                                                                         *)
(* The task succeeds (or is handed over to a human, which reschedules it   *)
(* in the same way); a task that fails is TaskPipeline's.  The loop is     *)
(* prompt: it wakes when its wait runs out.                                *)
(***************************************************************************)
EXTENDS Integers, Sequences

----------------------------------------------------------------------------
(***************************************************************************)
(* The timing rules of a task: orchestrator/model.py.                      *)
(*                                                                         *)
(* A time is a number of minutes since 00:00 of some Monday, local time,   *)
(* without daylight saving.  The rules read no finer part of a time than   *)
(* the minute.  A rule, as normalize_reschedule returns it, is a record    *)
(*     [mode, hours, window, weekdays]                                     *)
(* where window is <<start, end>> in hours or <<>> for none, and weekdays  *)
(* is a set of 1..7, {} for none.                                          *)
(***************************************************************************)

Hour  == 60
Day   == 1440
Week  == 10080
Dawn  == 300     \* 05:00

Windows == {w \in (0..23) \X (1..24) : w[1] < w[2]}
Weekdays == 1..7

Rules ==
    [mode : {"once", "daily", "weekly", "offset"}, hours : Nat,
     window : Windows \cup {<<>>}, weekdays : SUBSET Weekdays]

Midnight(t)  == t - (t % Day)
MinuteOf(t)  == t % Day
WeekdayOf(t) == ((t \div Day) % 7) + 1

\* Mutants: the hour does not matter; a Monday too far.
TodayAlways(now) == Midnight(now)
MondayAfterNext(now) == Midnight(now) + (15 - WeekdayOf(now)) * Day

\* _next_daily_day and _next_weekly_day, as the first moment of that day.
NextDailyDay(now) == Midnight(now) + IF MinuteOf(now) >= Dawn THEN Day ELSE 0

DaysToMonday(now) == 8 - WeekdayOf(now)
NextWeeklyDay(now) ==
    Midnight(now) + IF MinuteOf(now) >= Dawn THEN DaysToMonday(now) * Day ELSE 0

\* next_exec_ts_for_spec, for a rule that is not "once".
NextExec(now, rule) ==
    CASE rule.mode = "offset" -> now + rule.hours * Hour
      [] rule.mode = "daily"  -> NextDailyDay(now) + Dawn
      [] rule.mode = "weekly" -> NextWeeklyDay(now) + Dawn

\* clamp_to_sched_window
Inside(t, window) == window[1] * Hour <= MinuteOf(t) /\ MinuteOf(t) < window[2] * Hour
Clamp(t, window) ==
    IF Inside(t, window) THEN t
    ELSE IF MinuteOf(t) < window[1] * Hour
    THEN Midnight(t) + window[1] * Hour
    ELSE Midnight(t) + Day + window[1] * Hour

Clamped(t, rule) == IF rule.window = <<>> THEN t ELSE Clamp(t, rule.window)

\* calc_next_allowed_weekday_ts, for a nonempty set of days: one is found within
\* a week.
Allowed(t, rule) == rule.weekdays = {} \/ WeekdayOf(t) \in rule.weekdays

NextAllowedDay(now, rule) ==
    LET later == {k \in 1..14 : Allowed(now + k * Day, rule)}
        first == CHOOSE k \in later : \A l \in later : k <= l
    IN  Midnight(now) + first * Day + Dawn

\* _update_next_exec_time, the part that computes the time
NextAfterRun(now, rule) == Clamped(NextExec(now, rule), rule)

\* is_task_due, for an enabled and registered task without a takeover mark
IsDue(next, now, rule) ==
    /\ now >= next
    /\ Clamped(now, rule) <= now
    /\ Allowed(now, rule)

\* calc_effective_next_time: what is shown, and what the loop waits for.  A next
\* of zero counts as now.
Later(a, b) == IF a >= b THEN a ELSE b

\* Mutant: the window is not considered.
OpeningUnclamped(next, now, rule) == IF next = 0 THEN now ELSE next

Opening(next, now, rule) ==
    IF rule.window # <<>> THEN Clamp(Later(next, now), rule.window)
    ELSE IF next = 0 THEN now ELSE next

\* Mutant: a forbidden today is not considered.
ForbiddenToday(next, now, rule) ==
    LET opening == Opening(next, now, rule)
    IN  IF opening > now /\ ~Allowed(opening, rule) THEN NextAllowedDay(opening, rule)
        ELSE opening

EffectiveNext(next, now, rule) ==
    LET opening == Opening(next, now, rule)
    IN  IF opening <= now /\ ~Allowed(now, rule) THEN NextAllowedDay(now, rule)
        ELSE IF opening > now /\ ~Allowed(opening, rule) THEN NextAllowedDay(opening, rule)
        ELSE opening

----------------------------------------------------------------------------

CONSTANTS
    RuleSet,    \* the rules a task may have
    Start,      \* the time it is first looked at
    Horizon,    \* bound: the last moment considered
    Step,       \* time passes in steps of at most so many minutes
    MaxSaves    \* bound: how often users save the task

ASSUME RuleAssumption == RuleSet \subseteq Rules
ASSUME TimeAssumption == Start \in Nat \ {0} /\ Horizon \in Nat /\ Step \in Nat \ {0}
ASSUME SavesAssumption == MaxSaves \in Nat

CheckInterval == Hour

VARIABLES
    rule,     \* the task's rule in force
    now,
    on,       \* the entry is switched on
    next,     \* its next_exec_time
    pc,       \* the loop: "awake", "asleep", "check" or "run"
    wakeAt,   \* when the loop's wait runs out
    woken,    \* Scheduler._wake
    saves,    \* how often the task was saved
    since     \* history: when the task last ran or was saved

vars == <<rule, now, on, next, pc, wakeAt, woken, saves, since>>

\* How far ahead next_exec_time may lie.
Ahead(r) == Later(2 * Week, r.hours * Hour) + 2 * Day

TypeOK ==
    /\ rule \in RuleSet
    /\ now \in Nat /\ wakeAt \in Nat /\ since \in Nat
    /\ next \in 0..(now + Ahead(rule))
    /\ on \in BOOLEAN /\ woken \in BOOLEAN
    /\ pc \in {"awake", "asleep", "check", "run"}
    /\ saves \in 0..MaxSaves

Init ==
    /\ rule \in RuleSet
    /\ now = Start
    /\ on = TRUE
    /\ next = 0
    /\ pc = "awake"
    /\ wakeAt = 0
    /\ woken = FALSE
    /\ saves = 0
    /\ since = Start

\* Time passes while the loop sleeps, and while the task runs.
Tick ==
    /\ now < Horizon
    /\ \/ /\ pc = "asleep" /\ ~woken /\ now < wakeAt
          /\ now' = IF now + Step < wakeAt THEN now + Step ELSE wakeAt
       \/ pc = "run" /\ now' = now + Step
    /\ UNCHANGED <<rule, on, next, pc, wakeAt, woken, saves, since>>

\* _get_wait_interval
Sleep ==
    /\ pc = "awake"
    /\ pc' = "asleep"
    /\ woken' = FALSE
    /\ wakeAt' = IF on THEN Later(now, EffectiveNext(next, now, rule)) ELSE now + CheckInterval
    /\ UNCHANGED <<rule, now, on, next, saves, since>>

Wake ==
    /\ pc = "asleep"
    /\ woken \/ now >= wakeAt
    /\ pc' = "check"
    /\ UNCHANGED <<rule, now, on, next, wakeAt, woken, saves, since>>

\* _collect_due: not yet; outside the window; on a day that is not allowed; due.
NotYet ==
    /\ pc = "check"
    /\ ~on \/ now < next
    /\ pc' = "awake"
    /\ UNCHANGED <<rule, now, on, next, wakeAt, woken, saves, since>>

Reached == pc = "check" /\ on /\ now >= next

DeferToWindow ==
    /\ Reached
    /\ Clamped(now, rule) > now
    /\ next' = Clamped(now, rule)
    /\ pc' = "awake"
    /\ UNCHANGED <<rule, now, on, wakeAt, woken, saves, since>>

DeferToDay ==
    /\ Reached
    /\ Clamped(now, rule) <= now
    /\ ~Allowed(now, rule)
    /\ next' = NextAllowedDay(now, rule)
    /\ pc' = "awake"
    /\ UNCHANGED <<rule, now, on, wakeAt, woken, saves, since>>

Take ==
    /\ Reached
    /\ Clamped(now, rule) <= now
    /\ Allowed(now, rule)
    /\ pc' = "run"
    /\ UNCHANGED <<rule, now, on, next, wakeAt, woken, saves, since>>

\* _update_next_exec_time, and the pipeline looks for due tasks again.
Finish ==
    /\ pc = "run"
    /\ IF rule.mode = "once" THEN on' = FALSE /\ UNCHANGED next
       ELSE next' = NextAfterRun(now, rule) /\ UNCHANGED on
    /\ pc' = "check"
    /\ since' = now
    /\ UNCHANGED <<rule, now, wakeAt, woken, saves>>

\* save_character_task, refused while a task runs: the task is switched on and
\* its time is set to zero, or its rule is changed with that.
Save ==
    /\ pc # "run"
    /\ saves < MaxSaves
    /\ saves' = saves + 1
    /\ rule' \in RuleSet
    /\ on' = TRUE
    /\ next' = 0
    /\ since' = now
    /\ woken' = TRUE
    /\ UNCHANGED <<now, pc, wakeAt>>

\* The horizon is reached: nothing more is considered.
Over == now >= Horizon /\ pc = "asleep" /\ UNCHANGED vars

Next ==
    \/ Tick \/ Sleep \/ Wake \/ NotYet \/ DeferToWindow \/ DeferToDay \/ Take
    \/ Finish \/ Save \/ Over

Spec == Init /\ [][Next]_vars

-----------------------------------------------------------------------------
(* Properties.                                                             *)

\* The loop and the due predicate agree: the wait is zero exactly when the task is
\* due, so that the loop neither spins on a task it then leaves alone nor waits
\* with a due one at hand.
WaitMatchesDue ==
    on => (EffectiveNext(next, now, rule) <= now <=> IsDue(next, now, rule))

\* The loop does not sleep through a due moment; on a day reached by a weekday
\* deferral it sleeps until 05:00 at most.
SleepEndsInTime ==
    pc = "asleep" /\ ~woken /\ on /\ IsDue(next, now, rule)
        => wakeAt <= Later(now, IF rule.weekdays = {} THEN now ELSE Midnight(now) + Dawn)

\* The time shown for a task is the time it becomes due at: when the wait computed
\* from it runs out, the task is taken and not deferred once more.  (With a window
\* and weekdays together a time of 05:00 is shown, which the window then defers.)
ShownIsDue ==
    [][Wake /\ now = wakeAt /\ ~woken /\ on /\ (rule.window = <<>> \/ rule.weekdays = {})
        => IsDue(next, now, rule)]_vars

\* The window deferral and the weekday deferral do not send a task back and forth:
\* two weeks do not pass without a run, or eight days beyond its own offset, unless the
\* window has closed by 05:00, the hour that the weekday deferral leads to.  (A loop that
\* was woken looks again at once.)
Fortnight == 2 * Week
Longest(r) == Later(Fortnight, r.hours * Hour + 8 * Day)
Compatible(r) == r.window = <<>> \/ r.weekdays = {} \/ r.window[2] * Hour > Dawn
RunsWithinFortnight ==
    on /\ pc = "asleep" /\ ~woken /\ Compatible(rule) => wakeAt <= since + Longest(rule)

\* A task that has run does not run again before its next period: a daily task not
\* on the same day of the game, which begins at 05:00.
GameDay(t) == (t - Dawn) \div Day
OncePerDay ==
    [][Finish /\ rule.mode \in {"daily", "weekly"} => GameDay(next') > GameDay(now)]_vars

\* The clock's invariant: types, a wait that is zero just when the task is due, and a sleep
\* that ends in time.
ClockIsSound == TypeOK /\ WaitMatchesDue /\ SleepEndsInTime
=============================================================================
