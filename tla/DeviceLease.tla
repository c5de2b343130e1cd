----------------------------- MODULE DeviceLease -----------------------------
(***************************************************************************)
(* What the execution gate promises, without threads, locks or handlers:   *)
(* the device has at most one holder, it changes hands only by being given *)
(* back first, and only its holder gives it back (scheduler.md, "执行互斥"). *)
(***************************************************************************)
CONSTANTS
    Participants,   \* who may hold the device
    Nobody          \* and who does when nobody does

VARIABLE holder

Init == holder = Nobody

Acquire(p) == holder = Nobody /\ holder' = p

Release(p) == holder = p /\ holder' = Nobody

Next == \E p \in Participants : Acquire(p) \/ Release(p)

Spec == Init /\ [][Next]_holder
=============================================================================
