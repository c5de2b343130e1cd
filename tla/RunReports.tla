----------------------------- MODULE RunReports -----------------------------
(***************************************************************************)
(* What a pipeline tells about each character (orchestrator/delivery.py:   *)
(* CharacterReport, CharacterReports; the places of _run_task_pipeline in  *)
(* orchestrator/scheduler.py that record, flush and finish).               *)
(*                                                                         *)
(* One scheduled pipeline from its first turn to its end.  Which task is   *)
(* next, and what a failure does to the plans, is TaskPipeline's: here it  *)
(* is cut down to the lists a report depends on.  What is published goes   *)
(* to QQNotifier.                                                          *)
(***************************************************************************)
EXTENDS Integers, Sequences, SequencesExt, FiniteSets

CONSTANTS
    Queue,          \* the characters of dispatch_queue, in order
    Tasks,
    MaxAttempts,    \* app.max_attempts
    Renewals        \* bound: how often tasks become due during the pipeline
ASSUME BoundsAssumption ==
    Queue \in Seq(ToSet(Queue)) /\ MaxAttempts \in Nat \ {0} /\ Renewals \in Nat

Chars == ToSet(Queue)
Runs == Chars \X Tasks
Who(run) == run[1]

VARIABLES
    due,        \* the runs whose task is due and not marked
    renewals,
    active,     \* the active character
    attempted,  \* attempted_this_round
    round,      \* retry_round
    queue,      \* retry_queue
    later,      \* failed_next_round
    pc,         \* where the pipeline is
    run,        \* the run being worked on: a sequence of at most one
    stop,       \* "no", "cancel" (the cancel event), "halt" (not RUNNING any more)
    reports,    \* CharacterReports._reports: the outcome of each run, "none" if it has none
    told,       \* history: the outcome last published of each run
    status,     \* history: the status last published of each character
    sent,       \* history: the reports published of each character
    anew,       \* history: fresh runs begun by a character after its report was published
    truth,      \* history: what the last attempt of each run came to
    dropped     \* history: the runs that an error outside of the task took from the lists

lists == <<due, renewals, attempted, round, queue, later>>
published == <<told, status, sent>>
vars == <<lists, active, pc, run, stop, reports, published, anew, truth, dropped>>

Outcomes == {"none", "pending", "success", "failed"}
Labels == {"head", "device", "login", "task", "left", "completed", "over"}

Init ==
    /\ due \in SUBSET Runs
    /\ renewals = 0
    /\ active \in Chars
    /\ attempted = {} /\ round = 0 /\ queue = <<>> /\ later = <<>>
    /\ pc = "head" /\ run = <<>> /\ stop = "no"
    /\ reports = [r \in Runs |-> "none"] /\ told = [r \in Runs |-> "none"]
    /\ status = [c \in Chars |-> "none"]
    /\ sent = [c \in Chars |-> 0] /\ anew = [c \in Chars |-> 0]
    /\ truth = [r \in Runs |-> "none"]
    /\ dropped = {}

-----------------------------------------------------------------------------
(* CharacterReports.                                                       *)

\* The runs a character's report speaks of; it has a report if there are any.
Reported(c) == {r \in Runs : Who(r) = c /\ reports[r] # "none"}
HasReport(c) == Reported(c) # {}

\* CharacterReport.format_message
StatusOf(c, interrupted) ==
    CASE interrupted \/ (\E r \in Reported(c) : reports[r] = "pending") -> "interrupted"
      [] ~interrupted /\ (\E r \in Reported(c) : reports[r] = "failed")
            /\ (\A r \in Reported(c) : reports[r] # "pending") -> "partly"
      [] OTHER -> "done"

\* Each report goes to the publisher once, and is then gone.
Publish(whose, interrupted) ==
    LET chars == {c \in whose : HasReport(c)} IN
    /\ told' = [r \in Runs |->
           IF Who(r) \in chars /\ reports[r] # "none" THEN reports[r] ELSE told[r]]
    /\ status' = [c \in Chars |-> IF c \in chars THEN StatusOf(c, interrupted) ELSE status[c]]
    /\ sent' = [c \in Chars |-> IF c \in chars THEN sent[c] + 1 ELSE sent[c]]

Without(whose) == [r \in Runs |-> IF Who(r) \in whose THEN "none" ELSE reports[r]]

\* The characters whose retries are still in the lists.
Waiting(q) == {Who(r) : r \in ToSet(q \o later)}

\* Mutant: the characters with retries to come are flushed as well.
FlushedAll(current, q) == Chars \ {current}

\* flush_ready: everybody's but the current character's and those with retries to come.
Flushed(current, q) == Chars \ ({current} \cup Waiting(q))

-----------------------------------------------------------------------------
(* The pipeline.                                                           *)

DueOf(c) == {r \in due : Who(r) = c}

\* _collect_due_cross_character
Collected ==
    LET some == {i \in DOMAIN Queue : DueOf(Queue[i]) # {}} IN
    IF some = {} THEN active ELSE Queue[CHOOSE i \in some : \A j \in some : i <= j]

Fresh == IF round > 0 THEN {} ELSE DueOf(Collected) \ attempted

\* A run is begun: the reports that are ready are flushed, and it is recorded as pending.
Begin(r, q) ==
    LET whose == Flushed(Who(r), q) IN
    /\ Publish(whose, FALSE)
    /\ reports' = [Without(whose) EXCEPT ![r] = "pending"]
    /\ active' = Who(r)
    /\ run' = <<r>>
    /\ pc' = "device"

TakeFresh ==
    /\ pc = "head" /\ stop = "no" /\ queue = <<>>
    /\ \E r \in Fresh :
        /\ Begin(r, queue)
        /\ anew' = IF sent[Who(r)] > 0 /\ ~HasReport(Who(r))
                   THEN [anew EXCEPT ![Who(r)] = @ + 1] ELSE anew
    /\ UNCHANGED <<lists, stop, truth, dropped>>

TakeRetry ==
    /\ pc = "head" /\ stop = "no" /\ queue # <<>>
    /\ queue' = Tail(queue)
    /\ Begin(Head(queue), Tail(queue))
    /\ UNCHANGED <<due, renewals, attempted, round, later, stop, anew, truth, dropped>>

\* The retry's character cannot be switched to: the run is skipped, before the flush.
SkipRetry ==
    /\ pc = "head" /\ stop = "no" /\ queue # <<>>
    /\ Who(Head(queue)) # active
    /\ queue' = Tail(queue)
    /\ dropped' = dropped \cup {Head(queue)}
    /\ UNCHANGED <<due, renewals, attempted, round, later, active, pc, run, stop, reports,
                   published, anew, truth>>

MayRetry == round + 1 < MaxAttempts

\* Nothing is left of this round: the next one, or the end.
NoneLeft ==
    LET who == IF round = 0 THEN Collected ELSE active
        whose == Flushed(who, queue)
    IN
    /\ pc = "head" /\ stop = "no" /\ queue = <<>> /\ Fresh = {}
    /\ active' = who
    /\ Publish(whose, FALSE)
    /\ reports' = Without(whose)

NextRound ==
    /\ NoneLeft
    /\ later # <<>> /\ MayRetry
    /\ round' = round + 1
    /\ queue' = later /\ later' = <<>> /\ attempted' = {}
    /\ UNCHANGED <<due, renewals, pc, run, stop, anew, truth, dropped>>

\* The loop has come to its end; finish() is a step of its own.
Complete ==
    /\ NoneLeft
    /\ later = <<>> \/ ~MayRetry
    /\ pc' = "completed"
    /\ UNCHANGED <<lists, run, stop, anew, truth, dropped>>

Goto(label) == pc' = label

DeviceReady ==
    /\ pc = "device"
    /\ Goto("login")
    /\ UNCHANGED <<lists, active, run, stop, reports, published, anew, truth, dropped>>

\* After a failed start the pipeline goes on with what is next: a retry is not put back.
DeviceFails ==
    /\ pc = "device" /\ stop = "no"
    /\ dropped' = dropped \cup {run[1]}
    /\ Goto("head")
    /\ UNCHANGED <<lists, active, run, stop, reports, published, anew, truth>>

\* The refresh notices the cancel; the login raises.
Abandon ==
    /\ \/ pc = "device" /\ stop # "no"
       \/ pc = "login"
    /\ dropped' = IF pc = "login" THEN dropped \cup {run[1]} ELSE dropped
    /\ Goto("left")
    /\ UNCHANGED <<lists, active, run, stop, reports, published, anew, truth>>

LoggedIn ==
    /\ pc = "login"
    /\ attempted' = attempted \cup {run[1]}
    /\ Goto("task")
    /\ UNCHANGED <<due, renewals, round, queue, later, active, run, stop, reports, published,
                   anew, truth, dropped>>

\* The outcome of an attempt is recorded, unless the run has been cancelled.
Record(outcome) ==
    reports' = IF stop = "cancel" THEN reports ELSE [reports EXCEPT ![run[1]] = outcome]

Succeeds ==
    /\ pc = "task" /\ stop # "cancel"
    /\ Record("success")
    /\ truth' = [truth EXCEPT ![run[1]] = "success"]
    /\ due' = due \ {run[1]}
    /\ Goto("head")
    /\ UNCHANGED <<renewals, attempted, round, queue, later, active, run, stop, published,
                   anew, dropped>>

\* Returned as a failure or raised: it waits for the next round, or is marked and given up.
Fails ==
    /\ pc = "task"
    /\ Record("failed")
    /\ truth' = [truth EXCEPT ![run[1]] = IF stop = "cancel" THEN "none" ELSE "failed"]
    /\ IF MayRetry
       THEN later' = Append(later, run[1]) /\ UNCHANGED due
       ELSE due' = due \ {run[1]} /\ UNCHANGED later
    /\ Goto("head")
    /\ UNCHANGED <<renewals, attempted, round, queue, active, run, stop, published, anew,
                   dropped>>

\* The user stops the scheduler; or it leaves RUNNING otherwise, for ERROR.
Stop ==
    /\ pc # "over" /\ stop = "no"
    /\ stop' \in {"cancel", "halt"}
    /\ UNCHANGED <<lists, active, pc, run, reports, published, anew, truth, dropped>>

Leave ==
    /\ pc = "head" /\ stop # "no"
    /\ Goto("left")
    /\ UNCHANGED <<lists, active, run, stop, reports, published, anew, truth, dropped>>

\* finish(): whatever is left is published.
Finish ==
    /\ pc \in {"left", "completed"}
    /\ Publish(Chars, pc = "left" \/ stop = "cancel")
    /\ reports' = [r \in Runs |-> "none"]
    /\ Goto("over")
    /\ UNCHANGED <<lists, active, run, stop, anew, truth, dropped>>

\* A task becomes due while others run.
Arrives ==
    /\ pc # "over" /\ renewals < Renewals
    /\ \E r \in Runs \ due : due' = due \cup {r}
    /\ renewals' = renewals + 1
    /\ UNCHANGED <<attempted, round, queue, later, active, pc, run, stop, reports, published, anew, truth,
                   dropped>>

Next ==
    \/ TakeFresh \/ TakeRetry \/ SkipRetry \/ NextRound \/ Complete
    \/ DeviceReady \/ DeviceFails \/ Abandon \/ LoggedIn \/ Succeeds \/ Fails
    \/ Stop \/ Leave \/ Finish \/ Arrives

Spec == Init /\ [][Next]_vars

-----------------------------------------------------------------------------
(* What is to hold.                                                        *)

TypeOK ==
    /\ due \subseteq Runs /\ renewals \in 0..Renewals /\ attempted \subseteq Runs
    /\ active \in Chars
    /\ round \in 0..(MaxAttempts - 1)
    /\ queue \in Seq(Runs) /\ later \in Seq(Runs)
    /\ pc \in Labels /\ stop \in {"no", "cancel", "halt"}
    /\ run \in Seq(Runs) /\ Len(run) <= 1
    /\ {reports, told} \subseteq [Runs -> Outcomes]
    /\ status \in [Chars -> {"none", "interrupted", "partly", "done"}]
    /\ sent \in [Chars -> Nat] /\ anew \in [Chars -> Nat]
    /\ truth \in [Runs -> {"none", "success", "failed"}]
    /\ dropped \subseteq Runs

\* A success or a failure that was published is what the task came to in the end: it is
\* neither an attempt that was tried again later nor one that was cut off by a stop.
NoFalseVerdict == \A r \in Runs : told[r] \in {"success", "failed"} => told[r] = truth[r]

\* However the pipeline is left, every task that was attempted has been told of, with its
\* last outcome, or as unfinished if the run was stopped or the device failed under it.
LastWord ==
    pc = "over" => \A r \in Runs :
        /\ reports[r] = "none"
        /\ truth[r] # "none" =>
              told[r] = truth[r] \/ (told[r] = "pending" /\ (stop # "no" \/ r \in dropped))

\* A character gets one report per pipeline, retries included, unless a task of it became
\* due after the report was out.
OneReport == \A c \in Chars : sent[c] <= 1 + anew[c]

\* Nobody is told of an interruption if the pipeline went to its end undisturbed.
InterruptedOnlySo ==
    \A c \in Chars : status[c] = "interrupted" => stop # "no" \/ dropped # {}

\* What has been told of a pipeline is so, is told of all of it, and is told once.
ReportsAreTrue == TypeOK /\ NoFalseVerdict /\ LastWord /\ OneReport /\ InterruptedOnlySo
=============================================================================
