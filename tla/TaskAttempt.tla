----------------------------- MODULE TaskAttempt -----------------------------
(***************************************************************************)
(* One task in one pipeline, attempt by attempt                            *)
(* (orchestrator/task_manager.py: execute_tasks, _execute_single_task,     *)
(* _prepare_task, what success and a takeover write, _try_recover_app;     *)
(* tasks/task_state.py: the progress of a task; the part of                *)
(* orchestrator/scheduler.py that decides whether a failure is retried).   *)
(*                                                                         *)
(* The pipeline asks for one attempt per round and passes the round as the *)
(* attempt's number.  It has read app.max_attempts when it began; every    *)
(* attempt reads it again, and the user may have changed it.  An attempt   *)
(* is left by one of many returns, all of them through its finally.        *)
(* The recording is TaskRecorder's; here it runs, is kept, or is dropped.  *)
(***************************************************************************)
EXTENDS Integers

CONSTANT MaxAttempts    \* the largest app.max_attempts the user may choose

VARIABLES
    kind,       \* the task and the settings: [debug, once, restart -> BOOLEAN]
    total,      \* cfg["app"]["max_attempts"]
    planned,    \* max_attempts as the pipeline read it
    round,      \* retry_round, the number of the attempt
    pc,         \* where the attempt is
    why,        \* what is being answered: "", "retry", "takeover", "error"
    result,     \* what the attempt returned: "none", "success", "failed", "raised"
    cancel,     \* TaskManager._cancel_event
    progress,   \* the task's status field: "none", "part" or "full"
    entry,      \* the task's entry: [on, planned, takeover -> BOOLEAN]
    video,      \* "off", "on" (recording) or "kept" (pulled for the archive)
    current,    \* the current task path, and the capture of frames, are set
    changed,    \* history: max_attempts was changed since the pipeline began
    asked,      \* history: an attempt has ended with the task asking for a human
    runs        \* history: how often the task's function was called

vars == <<kind, total, planned, round, pc, why, result, cancel, progress, entry, video, current,
          changed, asked, runs>>
world == <<kind, total, planned, changed>>
hist == <<asked, runs>>

Labels == {"idle", "begin", "prepare", "run", "ran", "answer", "recover", "spent", "finally",
           "returned", "over"}

Init ==
    /\ kind \in [debug : BOOLEAN, once : BOOLEAN, restart : BOOLEAN]
    /\ total \in 1..MaxAttempts /\ planned = total
    /\ round = 0 /\ pc = "idle" /\ why = "" /\ result = "none" /\ cancel = FALSE
    /\ progress \in {"none", "part", "full"}
    /\ entry = [on |-> TRUE, planned |-> FALSE, takeover |-> FALSE]
    /\ video = "off" /\ current = FALSE
    /\ changed = FALSE /\ asked = FALSE /\ runs = 0

Return(r) == result' = r /\ pc' = "finally"

-----------------------------------------------------------------------------
(* execute_tasks and the attempt up to the call of the task.               *)

\* A stop that is set already ends the call, which has then neither succeeded nor failed.
Call ==
    /\ pc = "idle"
    /\ result' = "none"
    /\ pc' = IF cancel THEN "returned" ELSE "begin"
    /\ UNCHANGED <<world, round, why, cancel, progress, entry, video, current, hist>>

\* range(start, min(total, start + 1)): there is no attempt beyond the total of today.
InRange == round < total

\* The attempt's number is out of range, or a stop is seen before the attempt is set up.
NoAttempt ==
    /\ pc = "begin" /\ (~InRange \/ cancel)
    /\ result' = "failed" /\ pc' = "returned"
    /\ UNCHANGED <<world, round, why, cancel, progress, entry, video, current, hist>>

Begin ==
    /\ pc = "begin" /\ InRange /\ ~cancel
    /\ current' = TRUE
    /\ pc' = "prepare"
    /\ UNCHANGED <<world, round, why, result, cancel, progress, entry, video, hist>>

\* A task that is not registered, or has no entry, fails without a word to anyone.
Unprepared ==
    /\ pc = "prepare"
    /\ Return("failed")
    /\ UNCHANGED <<world, round, why, cancel, progress, entry, video, current, hist>>

\* There is no device session, or it fails when the keys are released.
NoDevice ==
    /\ pc = "prepare"
    /\ why' = "error" /\ pc' = "answer"
    /\ UNCHANGED <<world, round, result, cancel, progress, entry, video, current, hist>>

\* The progress is cleared in memory; a debug run is recorded if the recorder starts.
Start ==
    /\ pc = "prepare"
    /\ progress' = "none"
    /\ video' \in (IF kind.debug THEN {"off", "on"} ELSE {"off"})
    /\ runs' = runs + 1
    /\ pc' = "run"
    /\ UNCHANGED <<world, round, why, result, cancel, entry, current, asked>>

\* The function notes its progress as it goes.
Note ==
    /\ pc = "run"
    /\ progress' \in {"part", "full"}
    /\ UNCHANGED <<world, round, pc, why, result, cancel, entry, video, current, hist>>

\* It returns, raises one of its requests or any other exception, or sees the stop.
Ended ==
    /\ pc = "run"
    /\ \/ pc' = "ran" /\ UNCHANGED <<why, result>>
       \/ why' \in {"retry", "takeover", "error"} /\ pc' = "answer" /\ UNCHANGED result
       \/ cancel /\ Return("failed") /\ UNCHANGED why
    /\ UNCHANGED <<world, round, cancel, progress, entry, video, current, hist>>

Incomplete == progress = "part"

\* A function that returns with its progress incomplete is retried like one that asks.
Unfinished ==
    /\ pc = "ran" /\ Incomplete
    /\ why' = "retry" /\ pc' = "answer"
    /\ UNCHANGED <<world, round, result, cancel, progress, entry, video, current, hist>>

\* _update_next_exec_time: the next moment, or a one-time task is off.
Rescheduled(e) == IF kind.once THEN [e EXCEPT !.on = FALSE] ELSE [e EXCEPT !.planned = TRUE]

\* Success; the save at its end may fail, which is an error of the attempt like any other.
Succeed ==
    /\ pc = "ran" /\ ~Incomplete
    /\ video' = "off"
    /\ progress' = "none"
    /\ entry' = Rescheduled([entry EXCEPT !.takeover = FALSE])
    /\ \/ Return("success") /\ UNCHANGED why
       \/ why' = "error" /\ pc' = "answer" /\ UNCHANGED result
    /\ UNCHANGED <<world, round, cancel, current, hist>>

-----------------------------------------------------------------------------
(* What a failure is answered with.                                        *)

\* _mark_human_takeover; the save at its end may raise, out of the attempt.
Mark ==
    /\ entry' = Rescheduled([entry EXCEPT !.takeover = TRUE])
    /\ Return("failed") \/ Return("raised")

\* Mutant: every task that has used up its attempts is marked.
MarkAlways == Mark

\* _mark_incomplete_progress_takeover: only a task that has begun its work is marked.
MarkIfIncomplete == IF Incomplete THEN Mark ELSE UNCHANGED entry /\ Return("failed")

AnswerTakeover ==
    /\ pc = "answer" /\ why = "takeover"
    /\ Mark
    /\ asked' = (asked \/ result' = "failed")
    /\ UNCHANGED <<world, round, why, cancel, progress, video, current, runs>>

\* Mutant: the attempt before is taken for the last.
AnswerRetryLate ==
    /\ pc = "answer" /\ why = "retry"
    /\ IF round + 1 <= total THEN Return("failed") /\ UNCHANGED entry ELSE MarkIfIncomplete
    /\ UNCHANGED <<world, round, why, cancel, progress, video, current, hist>>

\* Later rounds go on; at the last attempt there is no other.
AnswerRetry ==
    /\ pc = "answer" /\ why = "retry"
    /\ IF round + 1 < total THEN Return("failed") /\ UNCHANGED entry ELSE MarkIfIncomplete
    /\ UNCHANGED <<world, round, why, cancel, progress, video, current, hist>>

\* The recording goes into the archive, its local copy is dropped; a debug task is left as
\* it is.
AnswerError ==
    /\ pc = "answer" /\ why = "error"
    /\ video' = "off"
    /\ IF kind.debug THEN Return("failed") ELSE pc' = "recover" /\ UNCHANGED result
    /\ UNCHANGED <<world, round, why, cancel, progress, entry, current, hist>>

\* _try_recover_app: the game is restarted, and adb as well from the second attempt on.
\* It is off, or fails, or does not come up in time; a stop is one of its exceptions.
Recovered ==
    /\ pc = "recover" /\ kind.restart
    /\ pc' = "spent"
    /\ UNCHANGED <<world, round, why, result, cancel, progress, entry, video, current, hist>>

NotRecovered ==
    /\ pc = "recover"
    /\ MarkIfIncomplete
    /\ UNCHANGED <<world, round, why, cancel, progress, video, current, hist>>

Spent ==
    /\ pc = "spent"
    /\ IF round + 1 < total THEN Return("failed") /\ UNCHANGED entry ELSE MarkIfIncomplete
    /\ UNCHANGED <<world, round, why, cancel, progress, video, current, hist>>

\* The finally: whatever is still recorded is dropped, and nothing is current.
Finally ==
    /\ pc = "finally"
    /\ video' = "off" /\ current' = FALSE
    /\ pc' = "returned"
    /\ UNCHANGED <<world, round, why, result, cancel, progress, entry, hist>>

-----------------------------------------------------------------------------
(* The pipeline between two attempts.                                      *)

\* is_human_takeover_blocked: a mark holds until the moment of the entry has come; that
\* of a one-time task is in the past.
Blocked == entry.takeover /\ entry.planned

\* A failure is tried again in the next round, unless a human is needed, the attempts are
\* used up or the task is a debug task.
MayRetry ==
    /\ result \in {"failed", "raised"}
    /\ result = "failed" => ~Blocked
    /\ round + 1 < planned
    /\ ~kind.debug

NextRound ==
    /\ pc = "returned" /\ MayRetry /\ ~cancel
    /\ round' = round + 1
    /\ pc' = "idle" /\ why' = ""
    /\ UNCHANGED <<world, result, cancel, progress, entry, video, current, hist>>

Over ==
    /\ pc = "returned" /\ (~MayRetry \/ cancel)
    /\ pc' = "over"
    /\ UNCHANGED <<world, round, why, result, cancel, progress, entry, video, current, hist>>

\* The user stops the execution, or saves another max_attempts.
Stop ==
    /\ ~cancel /\ pc # "over" /\ cancel' = TRUE
    /\ UNCHANGED <<world, round, pc, why, result, progress, entry, video, current, hist>>

SaveTotal ==
    /\ pc # "over" /\ ~changed
    /\ total' \in (1..MaxAttempts) \ {total} /\ changed' = TRUE
    /\ UNCHANGED <<kind, planned, round, pc, why, result, cancel, progress, entry, video,
                   current, hist>>

Done == pc = "over" /\ UNCHANGED vars

Attempt ==
    \/ Call \/ NoAttempt \/ Begin \/ Unprepared \/ NoDevice \/ Start \/ Note \/ Ended
    \/ Unfinished \/ Succeed \/ AnswerTakeover \/ AnswerRetry \/ AnswerError
    \/ Recovered \/ NotRecovered \/ Spent \/ Finally

Next == Attempt \/ NextRound \/ Over \/ Stop \/ SaveTotal \/ Done

Spec == Init /\ [][Next]_vars

-----------------------------------------------------------------------------
(* What is to hold.                                                        *)

\* The types; an attempt that has returned has left nothing current and no recording.
TypeOK ==
    /\ kind \in [debug : BOOLEAN, once : BOOLEAN, restart : BOOLEAN]
    /\ total \in 1..MaxAttempts /\ planned \in 1..MaxAttempts
    /\ round \in 0..(planned - 1)
    /\ pc \in Labels /\ why \in {"", "retry", "takeover", "error"}
    /\ result \in {"none", "success", "failed", "raised"}
    /\ cancel \in BOOLEAN /\ progress \in {"none", "part", "full"}
    /\ entry \in [on : BOOLEAN, planned : BOOLEAN, takeover : BOOLEAN]
    /\ video \in {"off", "on"} /\ current \in BOOLEAN
    /\ changed \in BOOLEAN /\ asked \in BOOLEAN
    /\ runs \in 0..planned

\* Every way out of an attempt stops its recording and leaves no task current.
NothingLeftOn == pc \in {"idle", "returned", "over"} => video = "off" /\ ~current

\* A success is one of a task whose work is complete, and it leaves the entry without a
\* mark and with a new moment, or off.
SuccessIsComplete ==
    [][result' = "success" /\ result # "success" =>
        /\ ~Incomplete
        /\ ~entry'.takeover /\ (entry'.planned \/ ~entry'.on)]_vars

\* A task is marked for a human only if it asked for one, or has left its work half done
\* with no attempt left, or without a game to go on in.
MarkHasReason ==
    [][entry'.takeover /\ ~entry.takeover =>
        why = "takeover" \/ (Incomplete /\ (round + 1 >= total \/ pc = "recover"))]_vars

\* A pipeline that gives a task up with its work half done has marked it, so that the user
\* sees it: unless the user stopped it, or changed max_attempts in between, or it is a
\* debug task, or could not even be begun.
GivenUpIsMarked ==
    pc = "over" /\ result = "failed" /\ Incomplete /\ runs = planned
        /\ ~cancel /\ ~changed /\ ~kind.debug
            => entry.takeover

\* A task that has asked for a human is not tried again by the pipeline, if it is one that
\* comes back: its next moment is what the mark waits for.
HumanIsWaitedFor == [][runs' > runs /\ asked => kind.once]_vars

\* The attempt's invariant: types; nothing left on, and a mark on what was given up.
AttemptIsSound == TypeOK /\ NothingLeftOn /\ GivenUpIsMarked

\* Besides, what an attempt's outcome says is so: of a success, of a mark, and of a retry.
AttemptIsRight == []AttemptIsSound /\ SuccessIsComplete /\ MarkHasReason /\ HumanIsWaitedFor
=============================================================================
