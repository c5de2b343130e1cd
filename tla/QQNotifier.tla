----------------------------- MODULE QQNotifier -----------------------------
(***************************************************************************)
(* The queue of QQ messages and its worker (orchestrator/delivery.py:      *)
(* QQNotifier, send_message; backend/webui/routes/notifications.py: the    *)
(* test message, which is sent beside the queue).                          *)
(*                                                                         *)
(* A worker is started by the submission that finds none, and ends when it *)
(* finds the queue empty.  Both look under the lock, so each is one step;  *)
(* sending and recording are steps of their own, outside of it.            *)
(***************************************************************************)
EXTENDS Integers, Sequences

CONSTANTS
    Messages,       \* the reports, numbers from 1 in the order of their submission
    Capacity        \* 100 in the code

VARIABLES
    fresh,      \* the messages not submitted yet
    pending,    \* QQNotifier._pending
    worker,     \* QQNotifier._worker: "none", "take" (a message), "send", "record"
    hand,       \* the message the worker has taken, or 0
    verdict,    \* what send_message said of it
    turned,     \* the message just turned down, which submit() has yet to record, or 0
    received,   \* messages the robot has got, in order
    log,        \* the verdict recorded for each message, "none" before
    test        \* the test message of the settings page: "none", "sending"

vars == <<fresh, pending, worker, hand, verdict, turned, received, log, test>>

Init ==
    /\ fresh = Messages
    /\ pending = <<>> /\ worker = "none" /\ hand = 0 /\ verdict = "none"
    /\ turned = 0 /\ received = <<>>
    /\ log = [m \in Messages |-> "none"]
    /\ test = "none"

\* The reports come in their order from the thread of the pipeline.
Oldest(m) == m \in fresh /\ \A n \in fresh : m <= n

\* submit(): the queue has room, and there is a worker, or one can be started.
Submit(m) ==
    /\ Oldest(m) /\ turned = 0
    /\ fresh' = fresh \ {m}
    /\ Len(pending) < Capacity
    /\ pending' = Append(pending, m)
    /\ worker' = IF worker = "none" THEN "take" ELSE worker
    /\ UNCHANGED <<hand, verdict, turned, received, log, test>>

\* The queue is full, or the thread of a worker does not start.
TurnDown(m) ==
    /\ Oldest(m) /\ turned = 0
    /\ Len(pending) >= Capacity \/ worker = "none"
    /\ fresh' = fresh \ {m}
    /\ turned' = m
    /\ UNCHANGED <<pending, worker, hand, verdict, received, log, test>>

RecordRefusal ==
    /\ turned # 0
    /\ log' = [log EXCEPT ![turned] = "refused"]
    /\ turned' = 0
    /\ UNCHANGED <<fresh, pending, worker, hand, verdict, received, test>>

\* Mutant: the message stays at the head of the queue until it has been sent.
TakeAndKeep ==
    /\ worker = "take"
    /\ IF pending = <<>>
       THEN worker' = "none" /\ UNCHANGED <<pending, hand>>
       ELSE worker' = "send" /\ hand' = Head(pending) /\ UNCHANGED pending
    /\ UNCHANGED <<fresh, verdict, turned, received, log, test>>

\* _drain: the next message, or the end of the worker.
Take ==
    /\ worker = "take"
    /\ IF pending = <<>>
       THEN worker' = "none" /\ UNCHANGED <<pending, hand>>
       ELSE worker' = "send" /\ hand' = Head(pending) /\ pending' = Tail(pending)
    /\ UNCHANGED <<fresh, verdict, turned, received, log, test>>

\* send_message: confirmed; or an error, before or after the robot has got the message.
Send ==
    /\ worker = "send"
    /\ \/ verdict' = "sent" /\ received' = Append(received, hand)
       \/ verdict' = "failed" /\ received' \in {received, Append(received, hand)}
    /\ worker' = "record"
    /\ UNCHANGED <<fresh, pending, hand, turned, log, test>>

\* Mutant: what failed is put at the end of the queue again.
RecordOrRetry ==
    /\ worker = "record"
    /\ IF verdict = "failed"
       THEN pending' = Append(pending, hand) /\ UNCHANGED log
       ELSE log' = [log EXCEPT ![hand] = verdict] /\ UNCHANGED pending
    /\ hand' = 0 /\ worker' = "take"
    /\ UNCHANGED <<fresh, verdict, turned, received, test>>

\* deliver, or the boundary of _drain: whatever the send came to is recorded.
Record ==
    /\ worker = "record"
    /\ log' = [log EXCEPT ![hand] = verdict]
    /\ hand' = 0 /\ worker' = "take"
    /\ UNCHANGED <<fresh, pending, verdict, turned, received, test>>

\* The settings page sends its test message on the thread of the request.
SendTest == test = "none" /\ test' = "sending" /\ UNCHANGED <<fresh, pending, worker, hand, verdict, turned, received, log>>
TestSent == test = "sending" /\ test' = "none" /\ UNCHANGED <<fresh, pending, worker, hand, verdict, turned, received, log>>

Next ==
    \/ \E m \in Messages : Submit(m) \/ TurnDown(m)
    \/ RecordRefusal \/ Take \/ Send \/ Record
    \/ SendTest \/ TestSent

Spec == Init /\ [][Next]_vars

Fairness == WF_vars(RecordRefusal) /\ WF_vars(Take) /\ WF_vars(Send) /\ WF_vars(Record)

FairSpec == Spec /\ Fairness

-----------------------------------------------------------------------------
(* What is to hold.                                                        *)

TypeOK ==
    /\ fresh \subseteq Messages
    /\ pending \in Seq(Messages) /\ Len(pending) <= Capacity
    /\ worker \in {"none", "take", "send", "record"}
    /\ hand \in Messages \cup {0} /\ (hand # 0 <=> worker \in {"send", "record"})
    /\ verdict \in {"none", "sent", "failed"}
    /\ turned \in Messages \cup {0}
    /\ received \in Seq(Messages)
    /\ log \in [Messages -> {"none", "sent", "failed", "refused"}]
    /\ test \in {"none", "sending"}

\* A message in the queue has a worker that will come to it: no submission falls between
\* the worker's last look at the queue and its end.
NotStranded == pending # <<>> => worker # "none"

\* The robot gets the messages in their order, and none of them twice, whatever the
\* failures: a message that may have arrived is not sent again.
OnceInOrder == \A i, j \in 1..Len(received) : i < j => received[i] < received[j]

\* The notifier is an Outbox: in particular every message that is submitted gets its
\* verdict in the end.
Status(m) ==
    CASE m \in fresh -> "new"
      [] log[m] # "none" -> log[m]
      [] turned = m -> "refused"
      [] worker = "record" /\ hand = m -> verdict
      [] OTHER -> "queued"

Outbox == INSTANCE Outbox WITH status <- [m \in Messages |-> Status(m)]

ImplementsOutbox == Outbox!Spec

\* The queue's invariant: types; a worker for what is queued; arrivals in order and once.
OutboxIsServed == TypeOK /\ NotStranded /\ OnceInOrder
=============================================================================
