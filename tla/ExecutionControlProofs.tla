----------------------- MODULE ExecutionControlProofs -----------------------
(***************************************************************************)
(* Proofs about ExecutionControl, for every MaxErrors and DirectLimit.     *)
(***************************************************************************)
EXTENDS ExecutionControl, TLAPS

\* The SMT backend needs this said of FALSE.
LEMMA FalseIsBoolean == \A x : x = FALSE => x \in BOOLEAN
  OBVIOUS

\* The labels, one by one, and the two workers.
LEMMA Names ==
    /\ "scheduler" \in Workers /\ "direct_run" \in Workers
    /\ \A w \in Workers : w = "scheduler" \/ w = "direct_run"
    /\ "dead" \in Labels /\ "wait" \in Labels /\ "error" \in Labels
    /\ "reset" \in Labels /\ "reactivate" \in Labels /\ "enable" \in Labels
    /\ "refill" \in Labels /\ "dispatch" \in Labels /\ "acquire" \in Labels
    /\ "settle" \in Labels /\ "mark_wait" \in Labels /\ "unref" \in Labels
    /\ "own" \in Labels /\ "admit" \in Labels /\ "uncancel" \in Labels
    /\ "disown" \in Labels /\ "ungate" \in Labels /\ "head" \in Labels
    /\ "device" \in Labels /\ "pause" \in Labels /\ "login" \in Labels
    /\ "start" \in Labels /\ "task" \in Labels /\ "mark_head" \in Labels
    /\ "mark_leave" \in Labels
  BY DEF Workers, Labels, Holding, Owning, Pipeline, Looping

\* What record_result leaves behind is a count within the threshold, and its
\* caller goes on at a label.
LEMMA FailureTypes ==
    ASSUME TypeOK, NEW w \in Workers, NEW same \in BOOLEAN,
           NEW label \in Labels, NEW mark \in Labels,
           AfterFailure(w, same, label, mark)
    PROVE  consecutive' \in 0..MaxErrors /\ pc' \in [Workers -> Labels]
<1>1. consecutive' \in 0..MaxErrors
  BY ErrorLimitAssumption DEF TypeOK, AfterFailure, RecordFailure
<1>2. pc' \in [Workers -> Labels]
  BY DEF TypeOK, AfterFailure, Goto
<1>3. QED
  BY <1>1, <1>2

\* Every variable keeps its range: scheduler.py and facade.py never store
\* anything else, and the error count saturates at the threshold.
THEOREM TypeCorrect == Spec => []TypeOK
<1>1. Init => TypeOK
  BY Names, FalseIsBoolean, ErrorLimitAssumption, DirectLimitAssumption DEF Init, TypeOK, HttpLabels
<1>2. TypeOK /\ [Next]_vars => TypeOK'
  <2> SUFFICES ASSUME TypeOK, [Next]_vars PROVE TypeOK'
    OBVIOUS
  <2> USE Names, FalseIsBoolean, ErrorLimitAssumption, DirectLimitAssumption
      DEF TypeOK, control, lease, web, threads, history, HttpLabels, Goto
  <2>1. CASE HttpNext
    <3>1. CASE RunScheduler
      BY <3>1 DEF RunScheduler
    <3>2. CASE HttpEnable
      BY <3>2 DEF HttpEnable
    <3>3. CASE HttpRefill
      BY <3>3 DEF HttpRefill
    <3>4. CASE StartDirect
      BY <3>4 DEF StartDirect, Lock
    <3>5. CASE StopRequest
      BY <3>5 DEF StopRequest, Busy
    <3>6. CASE StopCancel
      BY <3>6 DEF StopCancel
    <3>7. CASE StopState
      BY <3>7 DEF StopState
    <3>8. CASE StopBudget
      BY <3>8 DEF StopBudget
    <3>9. CASE ResetScheduler
      BY <3>9 DEF ResetScheduler, ResetState
    <3>10. CASE Deactivate
      BY <3>10 DEF Deactivate
    <3>11. CASE Shutdown
      BY <3>11 DEF Shutdown
    <3>12. CASE EditorBegin("code")
      BY <3>12 DEF EditorBegin, Lock
    <3>13. CASE EditorBegin("device")
      BY <3>13 DEF EditorBegin, Lock
    <3>14. CASE EditorStop
      BY <3>14 DEF EditorStop
    <3>15. CASE EditorEnd
      BY <3>15 DEF EditorEnd
    <3>16. CASE EditorRelease
      BY <3>16 DEF EditorRelease, Unlock
    <3>17. CASE EditorUncancel
      BY <3>17 DEF EditorUncancel
    <3>18. QED
      BY <2>1, <3>1, <3>2, <3>3, <3>4, <3>5, <3>6, <3>7, <3>8, <3>9,
         <3>10, <3>11, <3>12, <3>13, <3>14, <3>15, <3>16, <3>17 DEF
         HttpNext
  <2>2. CASE LoopNext
    <3>1. CASE LoopTick
      BY <3>1 DEF LoopTick, Step
    <3>2. CASE LoopError
      BY <3>2 DEF LoopError, Step
    <3>3. CASE LoopReset
      BY <3>3 DEF LoopReset, ResetState
    <3>4. CASE LoopReactivate
      BY <3>4 DEF LoopReactivate, Step
    <3>5. CASE LoopEnable
      BY <3>5 DEF LoopEnable
    <3>6. CASE LoopRefill
      BY <3>6 DEF LoopRefill
    <3>7. CASE LoopDispatch
      BY <3>7 DEF LoopDispatch, Step
    <3>8. CASE Acquire
      BY <3>8 DEF Acquire, Lock
    <3>9. CASE Own
      BY <3>9 DEF Own
    <3>10. CASE Admit
      BY <3>10 DEF Admit, Step
    <3>11. CASE Settle
      <4>1. CASE raised
        <5>1. AfterFailure("scheduler", FALSE, "wait", "mark_wait")
          BY <3>11, <4>1 DEF Settle
        <5>2. consecutive' \in 0..MaxErrors /\ pc' \in [Workers -> Labels]
          BY <5>1, FailureTypes
        <5>3. QED
          BY <3>11, <5>2 DEF Settle
      <4>2. CASE ~raised
        BY <3>11, <4>2 DEF Settle
      <4>3. QED
        BY <4>1, <4>2
    <3>12. QED
      BY <2>2, <3>1, <3>2, <3>3, <3>4, <3>5, <3>6, <3>7, <3>8, <3>9,
         <3>10, <3>11 DEF LoopNext
  <2>3. ASSUME NEW w \in Workers, PipelineNext(w) PROVE TypeOK'
    <3>1. CASE Uncancel(w)
      BY <3>1 DEF Uncancel
    <3>2. CASE Head(w)
      BY <3>2 DEF Head, Step
    <3>3. CASE DeviceReady(w)
      BY <3>3 DEF DeviceReady, Step
    <3>4. CASE DeviceCancelled(w)
      BY <3>4 DEF DeviceCancelled, Step
    <3>5. CASE DeviceFails(w)
      <4>1. AfterFailure(w, FALSE, IF state = "ERROR" THEN "disown" ELSE "pause", "mark_leave")
        BY <3>5 DEF DeviceFails
      <4>2. (IF state = "ERROR" THEN "disown" ELSE "pause") \in Labels
        OBVIOUS
      <4>3. consecutive' \in 0..MaxErrors /\ pc' \in [Workers -> Labels]
        BY <4>1, <4>2, FailureTypes
      <4>4. QED
        BY <3>5, <4>3 DEF DeviceFails
    <3>6. CASE Pause(w)
      BY <3>6 DEF Pause, Step
    <3>7. CASE LoggedIn(w)
      BY <3>7 DEF LoggedIn, Step
    <3>8. CASE LoginRaises(w)
      BY <3>8 DEF LoginRaises
    <3>9. CASE Start(w)
      BY <3>9 DEF Start, Attempted
    <3>10. CASE TaskSucceeds(w)
      BY <3>10 DEF TaskSucceeds, Attempted
    <3>11. CASE TaskDeferred(w)
      BY <3>11 DEF TaskDeferred, Attempted
    <3>12. CASE MarkError(w)
      BY <3>12 DEF MarkError
    <3>13. CASE Disown(w)
      BY <3>13 DEF Disown
    <3>14. CASE Ungate(w)
      BY <3>14 DEF Ungate, Unlock
    <3>15. ASSUME NEW same \in BOOLEAN, TaskFails(w, same) PROVE TypeOK'
      BY <3>15, FailureTypes DEF TaskFails, Attempted
    <3>16. ASSUME NEW same \in BOOLEAN, TaskRaises(w, same) PROVE TypeOK'
      <4>1. AfterFailure(w, same, IF state = "ERROR" THEN "disown" ELSE "head", "mark_leave")
        BY <3>16 DEF TaskRaises
      <4>2. (IF state = "ERROR" THEN "disown" ELSE "head") \in Labels
        OBVIOUS
      <4>3. consecutive' \in 0..MaxErrors /\ pc' \in [Workers -> Labels]
        BY <4>1, <4>2, FailureTypes
      <4>4. QED
        BY <3>16, <4>3 DEF TaskRaises, Attempted
    <3>17. QED
      BY <2>3, <3>1, <3>2, <3>3, <3>4, <3>5, <3>6, <3>7, <3>8, <3>9,
         <3>10, <3>11, <3>12, <3>13, <3>14, <3>15, <3>16 DEF PipelineNext
  <2>4. CASE Unref \/ CoolDown
    BY <2>4 DEF Unref, CoolDown
  <2>5. CASE Exit \/ UNCHANGED vars
    BY <2>5 DEF Exit, vars
  <2> HIDE DEF TypeOK, control, lease, web, threads, history, HttpLabels, Goto
  <2>6. QED
    BY <2>1, <2>2, <2>3, <2>4, <2>5 DEF Next
<1>3. QED
  BY <1>1, <1>2, PTL DEF Spec

-----------------------------------------------------------------------------
(* The strengthenings.                                                     *)

\* What makes the lease properties inductive: a release in progress comes after
\* the editor's flags are cleared, and a live direct run is referenced.
LeaseInv ==
    /\ MutualExclusion
    /\ GateNeverLeaks
    /\ ReleaseMatchesOwner
    /\ http = "editor_release" => editor = "idle"
    /\ pc["direct_run"] # "dead" => directThread

\* What makes ScheduledStopHonoured inductive: a scheduled round that was told to
\* stop is still in the gate, so no handler may be enabling the scheduler.
StopInv ==
    told["scheduler"] =>
        /\ pc["scheduler"] \in Pipeline \cup {"uncancel", "disown"}
        /\ state # "RUNNING"
        /\ http # "enable"

-----------------------------------------------------------------------------
(* The gate.                                                               *)

\* Which labels have the gate, and at which the worker is its recorded owner.
LEMMA GateLabels ==
    /\ \A l \in Owning : l \in Holding /\ l # "dead"
    /\ \A l \in Looping \cup {"unref"} : l \notin Holding /\ l \notin Owning
    /\ "own" \in Holding /\ "own" \notin Owning
    /\ "ungate" \in Holding /\ "ungate" \notin Owning
  BY DEF Holding, Owning, Pipeline, Looping

\* A step the gate does not notice.
SameLease ==
    /\ UNCHANGED <<gate, owner, editor, directThread>>
    /\ http' = "editor_release" <=> http = "editor_release"
    /\ \A w \in Workers : pc'[w] \in Holding <=> pc[w] \in Holding
    /\ \A w \in Workers : pc'[w] \in Owning <=> pc[w] \in Owning
    /\ pc["direct_run"] = "dead" => pc'["direct_run"] = "dead"

\* What a step does to the users of the gate: nothing, or it takes the device
\* from nobody, or it gives it back to nobody.
SameUsers == \A p \in Participants : Uses(p)' <=> Uses(p)

Taken(p) == /\ \A q \in Participants : ~Uses(q)
            /\ \A q \in Participants : Uses(q)' <=> q = p

Returned(p) == /\ \A q \in Participants : Uses(q) <=> q = p
               /\ \A q \in Participants : ~Uses(q)'

HandOver == SameUsers \/ \E p \in Participants : Taken(p) \/ Returned(p)

LEMMA SameLeaseKeepsInv ==
    ASSUME LeaseInv, SameLease PROVE LeaseInv' /\ HandOver
<1>1. \A p \in Participants : Uses(p)' <=> Uses(p)
  <2>1. SUFFICES ASSUME NEW p \in Participants PROVE Uses(p)' <=> Uses(p)
    OBVIOUS
  <2>2. CASE p = "editor"
    BY <2>2 DEF SameLease, Uses, Workers
  <2>3. CASE p \in Workers
    BY <2>3 DEF SameLease, Uses, Workers
  <2>4. QED
    BY <2>2, <2>3 DEF Participants
<1>2. MutualExclusion'
  BY <1>1 DEF LeaseInv, MutualExclusion
<1>3. GateNeverLeaks'
  BY <1>1 DEF LeaseInv, SameLease, GateNeverLeaks
<1>4. ReleaseMatchesOwner'
  <2>1. Uses("editor")' <=> Uses("editor")
    BY <1>1 DEF Participants
  <2>2. QED
    BY <2>1 DEF LeaseInv, SameLease, ReleaseMatchesOwner
<1>5. QED
  BY <1>1, <1>2, <1>3, <1>4 DEF LeaseInv, SameLease, HandOver, SameUsers

\* A worker that stays on its side of the gate: inside ...
LEMMA OwningStep ==
    ASSUME TypeOK, NEW w \in Workers, NEW label \in Owning, pc[w] \in Owning,
           pc' = [pc EXCEPT ![w] = label],
           UNCHANGED <<gate, owner, editor, directThread, http>>
    PROVE  SameLease
<1>1. \A v \in Workers : pc'[v] = IF v = w THEN label ELSE pc[v]
  BY DEF TypeOK
<1>2. \A v \in Workers : /\ (pc'[v] \in Holding <=> pc[v] \in Holding)
                        /\ (pc'[v] \in Owning <=> pc[v] \in Owning)
  BY <1>1, GateLabels
<1>3. pc["direct_run"] = "dead" => pc'["direct_run"] = "dead"
  BY <1>1, GateLabels DEF Workers
<1>4. QED
  BY <1>2, <1>3 DEF SameLease

\* ... or outside.
LEMMA LoopingStep ==
    ASSUME TypeOK, NEW w \in Workers, NEW label \in Looping, pc[w] \in Looping,
           w = "scheduler" \/ pc[w] # "dead",
           pc' = [pc EXCEPT ![w] = label],
           UNCHANGED <<gate, owner, editor, directThread, http>>
    PROVE  SameLease
<1>1. \A v \in Workers : pc'[v] = IF v = w THEN label ELSE pc[v]
  BY DEF TypeOK
<1>2. \A v \in Workers : /\ (pc'[v] \in Holding <=> pc[v] \in Holding)
                        /\ (pc'[v] \in Owning <=> pc[v] \in Owning)
  BY <1>1, GateLabels
<1>3. pc["direct_run"] = "dead" => pc'["direct_run"] = "dead"
  BY <1>1, Names
<1>4. QED
  BY <1>2, <1>3 DEF SameLease

\* LeaseInv is inductive: only StartDirect, EditorBegin and Acquire lock the gate,
\* each when nobody uses it, and only the user unlocks it.
LEMMA LeaseStep ==
    ASSUME TypeOK, LeaseInv, Next PROVE LeaseInv' /\ HandOver
<1> USE DEF Goto
<1>1. CASE HttpNext
  <2>1. CASE \/ RunScheduler \/ HttpEnable \/ StopRequest \/ StopCancel \/ StopState
             \/ StopBudget \/ ResetScheduler \/ Deactivate \/ Shutdown
             \/ EditorStop \/ EditorUncancel
    <3>1. /\ UNCHANGED <<gate, owner, editor, directThread, pc>>
          /\ http' = "editor_release" <=> http = "editor_release"
      BY <2>1 DEF RunScheduler, HttpEnable, StopRequest, StopCancel, StopState,
                  StopBudget, ResetScheduler, Deactivate, Shutdown, EditorStop,
                  EditorUncancel, lease, threads, web
    <3>2. SameLease
      BY <3>1 DEF SameLease
    <3>3. QED
      BY <3>2, SameLeaseKeepsInv
  <2>2. CASE HttpRefill
    <3>1. /\ UNCHANGED <<gate, owner, editor, directThread>>
          /\ http' = "editor_release" <=> http = "editor_release"
      BY <2>2 DEF HttpRefill, lease
    <3>2. CASE pc["scheduler"] # "dead"
      <4>1. UNCHANGED pc
        BY <2>2, <3>2 DEF HttpRefill
      <4>2. SameLease
        BY <3>1, <4>1 DEF SameLease
      <4>3. QED
        BY <4>2, SameLeaseKeepsInv
    <3>3. CASE pc["scheduler"] = "dead"
      <4>1. \A w \in Workers : pc'[w] = IF w = "scheduler" THEN "wait" ELSE pc[w]
        BY <2>2, <3>3 DEF HttpRefill, TypeOK
      <4>2. "wait" \in Looping /\ "dead" \in Looping
        BY DEF Looping
      <4>3. SameLease
        BY <3>1, <3>3, <4>1, <4>2, GateLabels, Names DEF SameLease
      <4>4. QED
        BY <4>3, SameLeaseKeepsInv
    <3>4. QED
      BY <3>2, <3>3
  <2>3. CASE StartDirect
    <3>1. pc["direct_run"] = "dead" /\ (\A p \in Participants : ~Uses(p))
      BY <2>3 DEF StartDirect, Busy, GateFree, LeaseInv, GateNeverLeaks
    <3>2. \A w \in Workers : pc'[w] = IF w = "direct_run" THEN "uncancel" ELSE pc[w]
      BY <2>3 DEF StartDirect, TypeOK
    <3>3. "uncancel" \in Owning
      BY DEF Owning
    <3>4. \A p \in Participants : Uses(p)' <=> p = "direct_run"
      BY <2>3, <3>1, <3>2, <3>3, GateLabels, Names DEF StartDirect, Participants, Uses
    <3>5. pc'["scheduler"] \notin Owning
      BY <3>1, <3>2, GateLabels, Names DEF Uses, Participants
    <3>6. LeaseInv'
      BY <2>3, <3>3, <3>4, <3>5, Names
         DEF StartDirect, Lock, LeaseInv, MutualExclusion, GateNeverLeaks,
             ReleaseMatchesOwner, Participants
    <3>7. HandOver
      BY <3>1, <3>4, Names DEF HandOver, Taken, Participants
    <3>8. QED
      BY <3>6, <3>7
  <2>4. ASSUME NEW use \in {"code", "device"}, EditorBegin(use) PROVE LeaseInv' /\ HandOver
    <3>1. \A p \in Participants : ~Uses(p)
      BY <2>4 DEF EditorBegin, GateFree, LeaseInv, GateNeverLeaks
    <3>2. \A p \in Participants : Uses(p)' <=> p = "editor"
      BY <2>4, <3>1 DEF EditorBegin, threads, Uses, Participants, Workers
    <3>3. \A w \in Workers : pc'[w] \notin Owning
      BY <2>4, <3>1, GateLabels DEF EditorBegin, threads, Uses, Participants
    <3>4. LeaseInv'
      BY <2>4, <3>2, <3>3
         DEF EditorBegin, threads, Lock, LeaseInv, MutualExclusion, GateNeverLeaks,
             ReleaseMatchesOwner, Participants
    <3>5. HandOver
      BY <3>1, <3>2 DEF HandOver, Taken, Participants
    <3>6. QED
      BY <3>4, <3>5
  <2>5. CASE EditorEnd
    <3>1. \A p \in Participants : Uses(p)' <=> Uses(p)
      BY <2>5 DEF EditorEnd, threads, Uses, Participants, Workers
    <3>2. LeaseInv'
      BY <2>5, <3>1
         DEF EditorEnd, lease, threads, LeaseInv, MutualExclusion, GateNeverLeaks,
             ReleaseMatchesOwner, Participants
    <3>3. HandOver
      BY <3>1 DEF HandOver, SameUsers
    <3>4. QED
      BY <3>2, <3>3
  <2>6. CASE EditorRelease
    <3>1. Uses("editor") /\ editor = "idle"
      BY <2>6 DEF EditorRelease, LeaseInv, Uses
    <3>2. \A p \in Participants : ~Uses(p)'
      BY <2>6, <3>1 DEF EditorRelease, threads, Uses, Participants, Workers,
                        LeaseInv, MutualExclusion
    <3>3. \A w \in Workers : pc'[w] \notin Owning
      BY <2>6, <3>2, GateLabels DEF EditorRelease, threads, Uses, Participants
    <3>4. LeaseInv'
      BY <2>6, <3>1, <3>2, <3>3
         DEF EditorRelease, threads, Unlock, LeaseInv, MutualExclusion,
             GateNeverLeaks, ReleaseMatchesOwner, Participants
    <3>5. HandOver
      BY <3>1, <3>2 DEF HandOver, Returned, Participants, LeaseInv, MutualExclusion
    <3>6. QED
      BY <3>4, <3>5
  <2>7. QED
    BY <1>1, <2>1, <2>2, <2>3, <2>4, <2>5, <2>6 DEF HttpNext
<1>2. CASE LoopNext
  <2>1. CASE \/ LoopTick \/ LoopError \/ LoopReset \/ LoopReactivate \/ LoopEnable
             \/ LoopRefill \/ LoopDispatch \/ Settle
    <3>1. PICK label \in Looping : pc' = [pc EXCEPT !["scheduler"] = label]
      BY <2>1 DEF LoopTick, LoopError, LoopReset, LoopReactivate, LoopEnable,
                  LoopRefill, LoopDispatch, Settle, AfterFailure, Step, Looping
    <3>2. pc["scheduler"] \in Looping /\ UNCHANGED <<gate, owner, editor, directThread, http>>
      BY <2>1 DEF LoopTick, LoopError, LoopReset, LoopReactivate, LoopEnable,
                  LoopRefill, LoopDispatch, Settle, Step, Looping, lease, web
    <3>3. SameLease
      BY <3>1, <3>2, LoopingStep, Names
    <3>4. QED
      BY <3>3, SameLeaseKeepsInv
  <2>2. CASE Admit
    <3>1. PICK label \in Owning : pc' = [pc EXCEPT !["scheduler"] = label]
      BY <2>2 DEF Admit, Step, Owning
    <3>2. pc["scheduler"] \in Owning /\ UNCHANGED <<gate, owner, editor, directThread, http>>
      BY <2>2 DEF Admit, Step, Owning, lease, web
    <3>3. SameLease
      BY <3>1, <3>2, OwningStep, Names
    <3>4. QED
      BY <3>3, SameLeaseKeepsInv
  <2>3. CASE Acquire
    <3>1. \A p \in Participants : ~Uses(p)
      BY <2>3 DEF Acquire, GateFree, LeaseInv, GateNeverLeaks
    <3>2. \A w \in Workers : pc'[w] = IF w = "scheduler" THEN "own" ELSE pc[w]
      BY <2>3 DEF Acquire, TypeOK
    <3>3. \A p \in Participants : Uses(p)' <=> p = "scheduler"
      BY <2>3, <3>1, <3>2, GateLabels, Names DEF Acquire, web, Participants, Uses
    <3>4. \A w \in Workers : pc'[w] \notin Owning
      BY <3>1, <3>2, GateLabels, Names DEF Uses, Participants
    <3>5. LeaseInv'
      BY <2>3, <3>2, <3>3, <3>4, Names
         DEF Acquire, web, Lock, LeaseInv, MutualExclusion, GateNeverLeaks,
             ReleaseMatchesOwner, Participants
    <3>6. HandOver
      BY <3>1, <3>3, Names DEF HandOver, Taken, Participants
    <3>7. QED
      BY <3>5, <3>6
  <2>4. CASE Own
    <3>1. \A w \in Workers : pc'[w] = IF w = "scheduler" THEN "admit" ELSE pc[w]
      BY <2>4 DEF Own, TypeOK
    <3>2. pc["scheduler"] = "own" /\ "own" \in Holding /\ "admit" \in Holding
      BY <2>4, GateLabels DEF Own, Owning
    <3>3. \A p \in Participants : Uses(p)' <=> Uses(p)
      BY <2>4, <3>1, <3>2 DEF Own, web, Participants, Uses
    <3>4. \A p \in Participants : Uses(p) <=> p = "scheduler"
      BY <3>2, Names DEF LeaseInv, MutualExclusion, Participants, Uses
    <3>5. \A w \in Workers : pc'[w] \in Owning => w = "scheduler"
      BY <3>1, <3>4, GateLabels, Names DEF Uses, Participants
    <3>6. LeaseInv'
      BY <2>4, <3>1, <3>3, <3>4, <3>5, Names
         DEF Own, web, LeaseInv, MutualExclusion, GateNeverLeaks,
             ReleaseMatchesOwner, Participants
    <3>7. HandOver
      BY <3>3 DEF HandOver, SameUsers
    <3>8. QED
      BY <3>6, <3>7
  <2>5. QED
    BY <1>2, <2>1, <2>2, <2>3, <2>4 DEF LoopNext
<1>3. ASSUME NEW w \in Workers, PipelineNext(w) PROVE LeaseInv' /\ HandOver
  <2>1. CASE \/ Uncancel(w) \/ Head(w) \/ DeviceReady(w) \/ DeviceCancelled(w)
             \/ DeviceFails(w) \/ Pause(w) \/ LoggedIn(w) \/ LoginRaises(w)
             \/ Start(w) \/ TaskSucceeds(w) \/ TaskDeferred(w)
             \/ TaskFails(w, TRUE) \/ TaskFails(w, FALSE)
             \/ TaskRaises(w, TRUE) \/ TaskRaises(w, FALSE)
    <3>1. PICK label \in Owning : pc' = [pc EXCEPT ![w] = label]
      BY <2>1 DEF Uncancel, Head, DeviceReady, DeviceCancelled, DeviceFails, Pause,
                  LoggedIn, LoginRaises, Start, TaskSucceeds, TaskDeferred,
                  TaskFails, TaskRaises, AfterFailure, Step, Owning, Pipeline
    <3>2. pc[w] \in Owning /\ UNCHANGED <<gate, owner, editor, directThread, http>>
      BY <2>1 DEF Uncancel, Head, DeviceReady, DeviceCancelled, DeviceFails, Pause,
                  LoggedIn, LoginRaises, Start, TaskSucceeds, TaskDeferred,
                  TaskFails, TaskRaises, Step, Owning, Pipeline, lease, web
    <3>3. SameLease
      BY <3>1, <3>2, OwningStep
    <3>4. QED
      BY <3>3, SameLeaseKeepsInv
  <2>2. CASE MarkError(w)
    <3>1. PICK next \in {<<"mark_head", "head">>, <<"mark_leave", "disown">>,
                         <<"mark_wait", "wait">>} :
             pc[w] = next[1] /\ pc' = [pc EXCEPT ![w] = next[2]]
      BY <2>2 DEF MarkError
    <3>2. UNCHANGED <<gate, owner, editor, directThread, http>>
      BY <2>2 DEF MarkError, lease, web
    <3>3. \/ next[1] \in Owning /\ next[2] \in Owning
          \/ next[1] = "mark_wait" /\ next[2] \in Looping
      BY DEF Owning, Pipeline, Looping
    <3>4. SameLease
      <4>1. CASE next[1] \in Owning /\ next[2] \in Owning
        BY <3>1, <3>2, <4>1, OwningStep
      <4>2. CASE next[1] = "mark_wait" /\ next[2] \in Looping
        <5>1. pc[w] # "dead" /\ pc[w] \in Looping
          BY <3>1, <4>2 DEF Looping
        <5>2. QED
          BY <3>1, <3>2, <4>2, <5>1, LoopingStep
      <4>3. QED
        BY <3>3, <4>1, <4>2
    <3>5. QED
      BY <3>4, SameLeaseKeepsInv
  <2>3. CASE Disown(w)
    <3>1. \A v \in Workers : pc'[v] = IF v = w THEN "ungate" ELSE pc[v]
      BY <2>3 DEF Disown, TypeOK
    <3>2. pc[w] = "disown" /\ "disown" \in Holding
      BY <2>3, GateLabels DEF Disown, Owning
    <3>3. \A p \in Participants : Uses(p)' <=> Uses(p)
      BY <2>3, <3>1, <3>2, GateLabels DEF Disown, web, Participants, Uses
    <3>4. \A p \in Participants : Uses(p) <=> p = w
      BY <3>2 DEF LeaseInv, MutualExclusion, Participants, Uses
    <3>5. \A v \in Workers : pc'[v] \notin Owning
      BY <3>1, <3>4, GateLabels DEF Uses, Participants
    <3>6. w # "editor"
      BY DEF Workers
    <3>7. pc'["direct_run"] # "dead" => pc["direct_run"] # "dead"
      BY <3>1, <3>2, Names
    <3>8. LeaseInv'
      BY <2>3, <3>3, <3>4, <3>5, <3>6, <3>7
         DEF Disown, web, LeaseInv, MutualExclusion, GateNeverLeaks,
             ReleaseMatchesOwner, Participants
    <3>9. HandOver
      BY <3>3 DEF HandOver, SameUsers
    <3>10. QED
      BY <3>8, <3>9
  <2>4. CASE Ungate(w)
    <3>1. \A v \in Workers : pc'[v] = IF v # w THEN pc[v] ELSE
                                       IF w = "scheduler" THEN "settle" ELSE "unref"
      BY <2>4 DEF Ungate, TypeOK
    <3>2. pc[w] = "ungate" /\ pc'[w] \notin Holding
      BY <2>4, <3>1, GateLabels DEF Ungate, Looping
    <3>3. \A p \in Participants : Uses(p) <=> p = w
      BY <3>2, GateLabels DEF LeaseInv, MutualExclusion, Participants, Uses
    <3>4. \A p \in Participants : ~Uses(p)'
      <4>1. ~Uses("editor")'
        BY <2>4, <3>3 DEF Ungate, web, Participants, Uses, Workers
      <4>2. \A v \in Workers : ~Uses(v)'
        BY <3>1, <3>2, <3>3 DEF Participants, Uses, Workers
      <4>3. QED
        BY <4>1, <4>2 DEF Participants
    <3>5. \A v \in Workers : pc'[v] \notin Owning
      BY <3>4, GateLabels DEF Uses, Participants
    <3>6. pc'["direct_run"] # "dead" => pc["direct_run"] # "dead"
      BY <3>1, <3>2, Names
    <3>7. LeaseInv'
      BY <2>4, <3>4, <3>5, <3>6
         DEF Ungate, web, Unlock, LeaseInv, MutualExclusion, GateNeverLeaks,
             ReleaseMatchesOwner, Participants
    <3>8. HandOver
      BY <3>3, <3>4 DEF HandOver, Returned, Participants
    <3>9. QED
      BY <3>7, <3>8
  <2>5. QED
    BY <1>3, <2>1, <2>2, <2>3, <2>4 DEF PipelineNext
<1>4. CASE Unref
  <2>1. \A v \in Workers : pc'[v] = IF v = "direct_run" THEN "dead" ELSE pc[v]
    BY <1>4 DEF Unref, TypeOK
  <2>2. pc["direct_run"] = "unref" /\ "dead" \in Looping
    BY <1>4 DEF Unref, Looping
  <2>3. \A p \in Participants : Uses(p)' <=> Uses(p)
    BY <1>4, <2>1, <2>2, GateLabels DEF Unref, Participants, Uses
  <2>4. \A v \in Workers : pc'[v] \in Owning => pc[v] \in Owning
    BY <2>1, <2>2, GateLabels
  <2>5. LeaseInv'
    BY <1>4, <2>1, <2>3, <2>4, Names
       DEF Unref, lease, LeaseInv, MutualExclusion, GateNeverLeaks,
           ReleaseMatchesOwner, Participants
  <2>6. HandOver
    BY <2>3 DEF HandOver, SameUsers
  <2>7. QED
    BY <2>5, <2>6
<1>5. CASE CoolDown \/ Exit
  <2>1. UNCHANGED <<gate, owner, editor, directThread, http, pc>>
    BY <1>5 DEF CoolDown, Exit, vars, lease, web, threads
  <2>2. SameLease
    BY <2>1 DEF SameLease
  <2>3. QED
    BY <2>2, SameLeaseKeepsInv
<1>6. QED
  BY <1>1, <1>2, <1>3, <1>4, <1>5 DEF Next

LEMMA LeaseStutter ==
    ASSUME UNCHANGED vars PROVE (LeaseInv' <=> LeaseInv) /\ SameUsers
<1>1. UNCHANGED <<gate, owner, editor, directThread, http, pc>>
  BY DEF vars, lease, web, threads
<1>2. SameUsers
  BY <1>1 DEF SameUsers, Uses
<1>3. LeaseInv' <=> LeaseInv
  BY <1>1, <1>2 DEF SameUsers, LeaseInv, MutualExclusion, GateNeverLeaks,
                    ReleaseMatchesOwner, Participants
<1>4. QED
  BY <1>2, <1>3

LEMMA NobodyAtFirst ==
    Init => LeaseInv /\ \A p \in Participants : ~Uses(p)
<1> SUFFICES ASSUME Init PROVE LeaseInv /\ \A p \in Participants : ~Uses(p)
  OBVIOUS
<1>1. \A w \in Workers : pc[w] \notin Holding /\ pc[w] \notin Owning
  BY GateLabels DEF Init, Looping
<1>2. \A p \in Participants : ~Uses(p)
  BY <1>1 DEF Init, Uses, Participants, Workers
<1>3. LeaseInv
  BY <1>1, <1>2, Names DEF Init, LeaseInv, MutualExclusion, GateNeverLeaks,
                    ReleaseMatchesOwner, Participants
<1>4. QED
  BY <1>2, <1>3

\* The gate's inductive invariant holds in every reachable state.
THEOREM LeaseInvariant == Spec => []LeaseInv
<1>1. Init => LeaseInv
  BY NobodyAtFirst
<1>2. TypeOK /\ LeaseInv /\ [Next]_vars => LeaseInv'
  BY LeaseStep, LeaseStutter
<1>3. QED
  BY <1>1, <1>2, TypeCorrect, PTL DEF Spec

\* At most one of the scheduler, the direct run and the editor has the device.
THEOREM DeviceIsExclusive == Spec => []MutualExclusion
<1>1. LeaseInv => MutualExclusion
  BY DEF LeaseInv
<1>2. QED
  BY <1>1, LeaseInvariant, PTL

\* No path of a handler or a thread leaves the gate locked behind it, and none
\* unlocks it under its user.
THEOREM GateIsReturned == Spec => []GateNeverLeaks
<1>1. LeaseInv => GateNeverLeaks
  BY DEF LeaseInv
<1>2. QED
  BY <1>1, LeaseInvariant, PTL

\* release_execution never raises for a wrong owner.
THEOREM OwnerReleases == Spec => []ReleaseMatchesOwner
<1>1. LeaseInv => ReleaseMatchesOwner
  BY DEF LeaseInv
<1>2. QED
  BY <1>1, LeaseInvariant, PTL

\* guard_idle() never lets a change of configuration in under a running pipeline.
THEOREM BusyIsSound == Spec => []BusyCoversExecution
<1>1. LeaseInv => BusyCoversExecution
  <2>1. SUFFICES ASSUME LeaseInv, NEW w \in Workers, pc[w] \in Pipeline PROVE Busy
    BY DEF BusyCoversExecution
  <2>2. owner = w
    BY <2>1 DEF LeaseInv, ReleaseMatchesOwner, Owning
  <2>3. CASE w = "scheduler"
    BY <2>2, <2>3 DEF Busy
  <2>4. CASE w = "direct_run"
    <3>1. pc["direct_run"] # "dead"
      BY <2>1, <2>4 DEF Pipeline
    <3>2. QED
      BY <2>1, <3>1 DEF LeaseInv, Busy
  <2>5. QED
    BY <2>3, <2>4, Names
<1>2. QED
  BY <1>1, LeaseInvariant, PTL

\* Every step of the handlers and threads is a step of the abstract lease: the
\* device is taken from nobody and given back by its holder, never passed on.
THEOREM LeaseRefinement == Spec => ImplementsLease
<1>1. Init => Lease!Init
  BY NobodyAtFirst DEF Lease!Init, Holder
<1>2. LeaseInv /\ TypeOK /\ [Next]_vars => [Lease!Next]_Holder
  <2>1. SUFFICES ASSUME HandOver PROVE [Lease!Next]_Holder
    BY LeaseStep, LeaseStutter DEF HandOver
  <2>2. CASE SameUsers
    <3>1. Holder' = Holder
      BY <2>2 DEF SameUsers, Holder
    <3>2. QED
      BY <3>1
  <2>3. ASSUME NEW p \in Participants, Taken(p) PROVE Lease!Next
    <3>1. Holder = "none"
      BY <2>3 DEF Taken, Holder
    <3>2. Holder' = p
      BY <2>3 DEF Taken, Holder
    <3>3. QED
      BY <3>1, <3>2 DEF Lease!Next, Lease!Acquire
  <2>4. ASSUME NEW p \in Participants, Returned(p) PROVE Lease!Next
    <3>1. Holder = p
      BY <2>4 DEF Returned, Holder
    <3>2. Holder' = "none"
      BY <2>4 DEF Returned, Holder
    <3>3. QED
      BY <3>1, <3>2 DEF Lease!Next, Lease!Release
  <2>5. QED
    BY <2>1, <2>2, <2>3, <2>4 DEF HandOver
<1>3. QED
  BY <1>1, <1>2, TypeCorrect, LeaseInvariant, PTL DEF Spec, ImplementsLease, Lease!Spec

-----------------------------------------------------------------------------
(* Stopping the scheduled round.                                           *)

\* Where a scheduled round that was told to stop may be, and its next task.
Stoppable == Pipeline \cup {"uncancel", "disown"}

TakesTask == pc["scheduler"] = "head" /\ pc'["scheduler"] = "device"

StopKept == StopInv' /\ (told["scheduler"] => ~TakesTask)

LEMMA StoppableLabels ==
    /\ \A l \in Stoppable : l \in Owning /\ l \notin Looping /\ l # "own" /\ l # "ungate"
    /\ "uncancel" \in Stoppable /\ "disown" \in Stoppable /\ "head" \in Stoppable
    /\ "device" \in Stoppable /\ "pause" \in Stoppable /\ "login" \in Stoppable
    /\ "start" \in Stoppable /\ "task" \in Stoppable /\ "mark_head" \in Stoppable
    /\ "mark_leave" \in Stoppable
  BY DEF Stoppable, Owning, Pipeline, Looping

\* A step that leaves the scheduler's place, the history and RUNNING alone.
LEMMA StopUntouched ==
    ASSUME StopInv, told' = told, pc'["scheduler"] = pc["scheduler"],
           state' = state \/ state' # "RUNNING", http' = http \/ http' # "enable"
    PROVE  StopKept
  BY DEF StopInv, StopKept, TakesTask

\* A step of a told round within the pipeline that takes no task.
LEMMA StopMoves ==
    ASSUME StopInv, told' = told, pc'["scheduler"] \in Stoppable, ~TakesTask,
           state' = state \/ state' # "RUNNING", http' = http
    PROVE  StopKept
  BY DEF StopInv, StopKept, Stoppable

\* A step of the loop outside the gate: no told round is under way.
LEMMA StopOutside ==
    ASSUME StopInv, told' = told, pc["scheduler"] \notin Stoppable
    PROVE  StopKept
  BY DEF StopInv, StopKept, Stoppable

LEMMA StopStep ==
    ASSUME TypeOK, LeaseInv, StopInv, Next PROVE StopKept
<1> USE DEF Goto
<1>1. CASE HttpNext
  <2>1. CASE \/ StopRequest \/ StopCancel \/ StopBudget \/ ResetScheduler \/ Deactivate
             \/ Shutdown \/ EditorStop \/ EditorEnd \/ EditorRelease \/ EditorUncancel
             \/ EditorBegin("code") \/ EditorBegin("device")
    <3>1. /\ told' = told /\ pc' = pc
          /\ state' = state \/ state' # "RUNNING"
          /\ http' = http \/ http' # "enable"
      BY <2>1 DEF StopRequest, StopCancel, StopBudget, ResetScheduler, ResetState,
                  Deactivate, Shutdown, EditorStop, EditorEnd, EditorRelease,
                  EditorUncancel, EditorBegin, control, threads, history, web
    <3>2. QED
      BY <3>1, StopUntouched
  <2>2. CASE RunScheduler
    <3>1. ~told["scheduler"]
      <4>1. SUFFICES ASSUME told["scheduler"] PROVE FALSE
        OBVIOUS
      <4>2. pc["scheduler"] \in Owning
        BY <4>1, StoppableLabels DEF StopInv, Stoppable
      <4>3. owner = "scheduler"
        BY <4>2, Names DEF LeaseInv, ReleaseMatchesOwner
      <4>4. QED
        BY <2>2, <4>3 DEF RunScheduler, Busy
    <3>2. QED
      BY <2>2, <3>1 DEF RunScheduler, history, StopKept, StopInv
  <2>3. CASE HttpEnable
    BY <2>3 DEF HttpEnable, StopKept, StopInv
  <2>4. CASE HttpRefill
    <3>1. told["scheduler"] => pc["scheduler"] # "dead" /\ pc' = pc
      BY <2>4 DEF HttpRefill, StopInv, Pipeline
    <3>2. QED
      BY <2>4, <3>1 DEF HttpRefill, history, StopKept, StopInv, TakesTask
  <2>5. CASE StartDirect
    <3>1. pc'["scheduler"] = pc["scheduler"]
      BY <2>5, Names DEF StartDirect, TypeOK
    <3>2. QED
      BY <2>5, <3>1, StopUntouched DEF StartDirect, control, history
  <2>6. CASE StopState
    <3>1. told'["scheduler"] <=> told["scheduler"] \/ pc["scheduler"] \in Pipeline \cup {"uncancel"}
      BY <2>6, Names DEF StopState
    <3>2. pc' = pc /\ state' = "PENDING" /\ http' = "stop_budget"
      BY <2>6 DEF StopState, threads
    <3>3. QED
      BY <3>1, <3>2 DEF StopKept, StopInv, TakesTask
  <2>7. QED
    BY <1>1, <2>1, <2>2, <2>3, <2>4, <2>5, <2>6 DEF HttpNext
<1>2. CASE LoopNext
  <2>1. CASE Admit
    <3>1. pc["scheduler"] \notin Pipeline \cup {"uncancel", "disown"}
      BY <2>1 DEF Admit, Step, Pipeline
    <3>2. QED
      BY <2>1, <3>1, StopOutside DEF Admit, Step, history, Stoppable
  <2>2. CASE ~Admit
    <3>1. told' = told
      BY <1>2, <2>2 DEF LoopNext, LoopTick, LoopError, LoopReset, LoopReactivate,
         LoopEnable, LoopRefill, LoopDispatch, Acquire, Own, Settle, Step, history
    <3>2. pc["scheduler"] \in Looping \cup {"own"}
      BY <1>2, <2>2 DEF LoopNext, LoopTick, LoopError, LoopReset, LoopReactivate,
         LoopEnable, LoopRefill, LoopDispatch, Acquire, Own, Settle, Step, Looping
    <3>3. QED
      BY <3>1, <3>2, StopOutside, StoppableLabels
  <2>3. QED
    BY <2>1, <2>2
<1>3. ASSUME NEW w \in Workers, PipelineNext(w), w # "scheduler" PROVE StopKept
  <2>1. pc'["scheduler"] = pc["scheduler"] /\ told'["scheduler"] = told["scheduler"]
    BY <1>3, Names
       DEF PipelineNext, Uncancel, Head, DeviceReady, DeviceCancelled, DeviceFails, Pause,
           LoggedIn, LoginRaises, Start, TaskSucceeds, TaskDeferred, TaskFails, TaskRaises,
           AfterFailure, MarkError, Disown, Ungate, Step, TypeOK, history
  <2>2. http' = http /\ (state' = state \/ state' # "RUNNING")
    BY <1>3
       DEF PipelineNext, Uncancel, Head, DeviceReady, DeviceCancelled, DeviceFails, Pause,
           LoggedIn, LoginRaises, Start, TaskSucceeds, TaskDeferred, TaskFails, TaskRaises,
           MarkError, Disown, Ungate, Step, control, web
  <2>3. QED
    BY <2>1, <2>2 DEF StopKept, StopInv, TakesTask
<1>4. CASE PipelineNext("scheduler")
  <2>1. CASE Head("scheduler")
    <3>1. told' = told /\ state' = state /\ http' = http /\ pc["scheduler"] = "head"
      BY <2>1 DEF Head, Step, history, control, web
    <3>2. CASE told["scheduler"]
      <4>1. MustLeave("scheduler")
        BY <3>2 DEF StopInv, MustLeave
      <4>2. pc'["scheduler"] = "disown"
        BY <2>1, <4>1, Names DEF Head, Step, TypeOK
      <4>3. QED
        BY <3>1, <4>2, StopMoves, StoppableLabels DEF TakesTask
    <3>3. CASE ~told["scheduler"]
      BY <3>1, <3>3 DEF StopKept, StopInv
    <3>4. QED
      BY <3>2, <3>3
  <2>2. CASE Disown("scheduler")
    <3>1. told'["scheduler"] = FALSE /\ pc["scheduler"] = "disown"
      BY <2>2, Names DEF Disown, TypeOK
    <3>2. QED
      BY <3>1 DEF StopKept, StopInv, TakesTask
  <2>3. CASE Ungate("scheduler")
    <3>1. pc["scheduler"] \notin Stoppable /\ told' = told
      BY <2>3, StoppableLabels DEF Ungate, history
    <3>2. QED
      BY <3>1, StopOutside
  <2>4. CASE MarkError("scheduler")
    <3>1. /\ pc["scheduler"] # "head" /\ told' = told /\ state' = "ERROR" /\ http' = http
          /\ pc'["scheduler"] \in {"head", "disown"} \/ pc["scheduler"] = "mark_wait"
      BY <2>4, Names DEF MarkError, TypeOK, history, web
    <3>2. CASE pc["scheduler"] = "mark_wait"
      BY <3>1, <3>2, StopOutside, StoppableLabels DEF Looping
    <3>3. CASE pc'["scheduler"] \in {"head", "disown"}
      BY <3>1, <3>3, StopMoves, StoppableLabels DEF TakesTask
    <3>4. QED
      BY <3>1, <3>2, <3>3
  <2>5. CASE \/ Uncancel("scheduler") \/ DeviceReady("scheduler")
             \/ DeviceCancelled("scheduler") \/ DeviceFails("scheduler")
             \/ Pause("scheduler") \/ LoggedIn("scheduler") \/ LoginRaises("scheduler")
             \/ Start("scheduler") \/ TaskSucceeds("scheduler") \/ TaskDeferred("scheduler")
             \/ TaskFails("scheduler", TRUE) \/ TaskFails("scheduler", FALSE)
             \/ TaskRaises("scheduler", TRUE) \/ TaskRaises("scheduler", FALSE)
    <3>1. told' = told /\ state' = state /\ http' = http /\ pc["scheduler"] # "head"
      BY <2>5 DEF Uncancel, DeviceReady, DeviceCancelled, DeviceFails, Pause, LoggedIn,
                  LoginRaises, Start, TaskSucceeds, TaskDeferred, TaskFails, TaskRaises,
                  Step, history, control, web
    <3>2. PICK label \in Stoppable : pc' = [pc EXCEPT !["scheduler"] = label]
      BY <2>5, StoppableLabels
         DEF Uncancel, DeviceReady, DeviceCancelled, DeviceFails, Pause, LoggedIn,
             LoginRaises, Start, TaskSucceeds, TaskDeferred, TaskFails, TaskRaises,
             AfterFailure, Step
    <3>3. pc'["scheduler"] \in Stoppable
      BY <3>2, Names DEF TypeOK
    <3>4. QED
      BY <3>1, <3>3, StopMoves DEF TakesTask
  <2>6. QED
    BY <1>4, <2>1, <2>2, <2>3, <2>4, <2>5 DEF PipelineNext
<1>5. CASE Unref
  <2>1. pc'["scheduler"] = pc["scheduler"]
    BY <1>5, Names DEF Unref, TypeOK
  <2>2. QED
    BY <1>5, <2>1, StopUntouched DEF Unref, control, history
<1>6. CASE CoolDown \/ Exit
  BY <1>6, StopUntouched DEF CoolDown, Exit, vars, history, threads, web, control
<1>7. QED
  BY <1>1, <1>2, <1>3, <1>4, <1>5, <1>6 DEF Next

\* After /api/stop a scheduled round starts no further task, although the cancel
\* event it was stopped by may have been cleared in between.
THEOREM StopIsHonoured == Spec => ScheduledStopHonoured
<1>1. Init => StopInv
  BY Names DEF Init, StopInv
<1>2. TypeOK /\ LeaseInv /\ StopInv /\ [Next]_vars => StopKept
  <2>1. ASSUME StopInv, UNCHANGED vars PROVE StopKept
    BY <2>1, StopUntouched DEF vars, history, threads, web, control
  <2>2. QED
    BY <2>1, StopStep
<1>3. StopKept => StopInv' /\ (told["scheduler"]
      => ~(pc["scheduler"] = "head" /\ pc'["scheduler"] = "device"))
  BY DEF StopKept, TakesTask
<1>4. QED
  BY <1>1, <1>2, <1>3, TypeCorrect, LeaseInvariant, PTL DEF Spec, ScheduledStopHonoured

\* The gate as a whole: the four facts above together, for every number of errors and of
\* direct attempts.
THEOREM GateSoundness == Spec => []GateIsSound
<1>1. MutualExclusion /\ GateNeverLeaks /\ ReleaseMatchesOwner /\ BusyCoversExecution
        => GateIsSound
  BY DEF GateIsSound
<1>2. QED
  BY <1>1, DeviceIsExclusive, GateIsReturned, OwnerReleases, BusyIsSound, PTL
=============================================================================
