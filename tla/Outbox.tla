------------------------------- MODULE Outbox -------------------------------
(***************************************************************************)
(* What a notifier promises about the messages it is given: it says of     *)
(* each at once whether it takes it, attempts those it has taken one by    *)
(* one in their order, once, and ends up with a verdict on every one.      *)
(***************************************************************************)
EXTENDS Integers

CONSTANT Messages       \* numbers, in the order in which they are submitted

VARIABLE status         \* what has become of each message

Verdicts == {"sent", "failed", "refused"}

Init == status = [m \in Messages |-> "new"]

Take(m) ==
    /\ status[m] = "new"
    /\ \/ status' = [status EXCEPT ![m] = "queued"]
       \/ status' = [status EXCEPT ![m] = "refused"]

\* Only the oldest message that is queued is attempted.
Attempt(m) ==
    /\ status[m] = "queued"
    /\ \A n \in Messages : status[n] = "queued" => m <= n
    /\ \/ status' = [status EXCEPT ![m] = "sent"]
       \/ status' = [status EXCEPT ![m] = "failed"]

Next == \E m \in Messages : Take(m) \/ Attempt(m)

Spec == Init /\ [][Next]_status /\ WF_status(\E m \in Messages : Attempt(m))
=============================================================================
