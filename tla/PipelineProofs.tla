--------------------------- MODULE PipelineProofs ---------------------------
(***************************************************************************)
(* The pipelines, for every queue of characters, every list of tasks and   *)
(* every limit: no run has more attempts than max_attempts or is queued    *)
(* twice, each runs as the character it was collected for, one bad task    *)
(* does not bring on ERROR, and with one character a used-up plan is not   *)
(* begun again.                                                            *)
(***************************************************************************)
EXTENDS TaskPipeline, FiniteSetTheorems, WellFoundedInduction, TLAPS

Members(list) == {list[i] : i \in DOMAIN list}
Distinct(list) == \A i, j \in DOMAIN list : list[i] = list[j] => i = j

\* The attempts a run has had in this pipeline.
Had(r) == IF r \in DOMAIN tries THEN tries[r] ELSE 0

AtWork == pc \in {"device", "login", "task"}

\* The run being worked on is there, and the active character's; all runs of a direct pipeline are.
Own ==
    /\ AtWork => Len(run) = 1 /\ active = Who(run[1])
    /\ pc = "task" => run[1] \in attempted
    /\ pc = "idle" => mode = "scheduled" /\ retryQueue = <<>> /\ failedNext = <<>>
    /\ mode = "direct" =>
         \A r \in Members(explicit) \cup Members(retryQueue) \cup Members(failedNext) :
                              Who(r) = active

\* Nothing is queued twice, nor while it is worked on.
Apart ==
    /\ Distinct(retryQueue) /\ Distinct(failedNext)
    /\ Members(retryQueue) \cap Members(failedNext) = {}
    /\ AtWork => run[1] \notin Members(retryQueue) \cup Members(failedNext)

\* A run has had an attempt in each round up to this one at most; one that is worked on, or will
\* be in this round, has had none in it.
Budget ==
    /\ \A r \in DOMAIN tries : tries[r] <= round + 1
    /\ \A r \in Members(retryQueue) : Had(r) <= round
    /\ AtWork => Had(run[1]) <= round

\* In the first round nothing is retried, and what has been attempted or queued is noted.
FirstRound ==
    round = 0 =>
        /\ retryQueue = <<>>
        /\ DOMAIN tries \subseteq attempted
        /\ Members(failedNext) \subseteq attempted

\* The inductive invariant.
IInv == TypeOK /\ Own /\ Apart /\ Budget /\ FirstRound

-----------------------------------------------------------------------------
(* What the operators of the pipeline do.                                  *)

\* A nonempty set of positions has a first one.
LEMMA HasFirst ==
    ASSUME NEW S \in SUBSET Nat, S # {}
    PROVE  (CHOOSE i \in S : \A j \in S : i <= j) \in S
<1>1. PICK i \in S : \A j \in S : <<j, i>> \notin OpToRel(<, Nat)
  BY NatLessThanWellFounded, WFMin
<1>2. \A j \in S : ~(j < i)
  BY <1>1 DEF OpToRel
<1>3. \A j \in S : i <= j
  BY <1>2
<1> QED BY <1>3

\* The character collected for is one of the queue's, or the active one.
LEMMA CollectedIsChar == active \in Chars => Collected \in Chars
<1> SUFFICES ASSUME active \in Chars PROVE Collected \in Chars
  OBVIOUS
<1>1. CASE Candidates = {}
  BY <1>1 DEF Collected
<1>2. CASE Candidates # {}
  <2>1. Candidates \in SUBSET Nat
    BY QueueAssumption DEF Candidates
  <2>2. First \in Candidates
    BY <1>2, <2>1, HasFirst DEF First
  <2> QED BY <1>2, <2>2 DEF Collected, Candidates, Chars
<1> QED BY <1>1, <1>2

\* A run has a character and a task.
LEMMA RunParts == \A r \in Runs : Who(r) \in Chars /\ What(r) \in Tasks
BY DEF Runs, Who, What

\* The run that is taken is offered, has not been attempted, and is the collected character's.
LEMMA FirstFreshFacts ==
    ASSUME TypeOK, Fresh # {}
    PROVE  /\ FirstFresh \in Runs /\ FirstFresh \notin attempted /\ round = 0
           /\ mode = "scheduled" => Who(FirstFresh) = Collected
           /\ mode = "direct" => FirstFresh \in Members(explicit)
<1> DEFINE i == CHOOSE k \in Fresh : \A j \in Fresh : k <= j
<1>1. explicit \in Seq(Runs) /\ active \in Chars /\ mode \in {"scheduled", "direct"}
  BY DEF TypeOK
<1>2. DOMAIN Offered \in SUBSET Nat /\ \A k \in DOMAIN Offered : Offered[k] \in Runs
  <2>1. CASE mode = "direct"
    BY <1>1, <2>1 DEF Offered
  <2>2. CASE mode # "direct"
    <3>1. Offered = [k \in DOMAIN Order |-> <<Collected, 0, Order[k]>>]
      BY <2>2 DEF Offered
    <3>2. DOMAIN Order \in SUBSET Nat /\ \A k \in DOMAIN Order : Order[k] \in Tasks
      BY OrderAssumption DEF Tasks
    <3>3. Collected \in Chars
      BY <1>1, CollectedIsChar
    <3>4. \A k \in DOMAIN Order : <<Collected, 0, Order[k]>> \in Runs
      BY <3>2, <3>3 DEF Runs
    <3> QED BY <3>1, <3>2, <3>4
  <2> QED BY <2>1, <2>2
<1>3. i \in Fresh
  <2>1. Fresh \in SUBSET Nat
    BY <1>2 DEF Fresh
  <2> QED BY <2>1, HasFirst
<1>4. i \in DOMAIN Offered /\ round = 0 /\ Offered[i] \notin attempted /\ FirstFresh = Offered[i]
  BY <1>3 DEF Fresh, FirstFresh
<1>5. mode = "scheduled" => Who(FirstFresh) = Collected
  BY <1>4 DEF Offered, Who
<1>6. mode = "direct" => FirstFresh \in Members(explicit)
  BY <1>4 DEF Offered, Members
<1> QED BY <1>2, <1>4, <1>5, <1>6

\* The members of lists that lose their head or get one more, and that none is there twice.
LEMMA ListFacts ==
    /\ <<>> \in Seq(Runs) /\ Members(<<>>) = {} /\ Distinct(<<>>)
    /\ \A s \in Seq(Runs) :
         /\ Members(s) \subseteq Runs
         /\ s # <<>> =>
              /\ Head(s) \in Members(s) /\ Head(s) \in Runs
              /\ Tail(s) \in Seq(Runs) /\ Members(Tail(s)) \subseteq Members(s)
              /\ Distinct(s) => Distinct(Tail(s)) /\ Head(s) \notin Members(Tail(s))
         /\ \A r \in Runs :
              /\ Append(s, r) \in Seq(Runs) /\ Members(Append(s, r)) = Members(s) \cup {r}
              /\ Distinct(s) /\ r \notin Members(s) => Distinct(Append(s, r))
<1>1. <<>> \in Seq(Runs) /\ Members(<<>>) = {} /\ Distinct(<<>>)
  BY DEF Members, Distinct
<1>2. ASSUME NEW s \in Seq(Runs) PROVE Members(s) \subseteq Runs
  BY DEF Members
<1>3. ASSUME NEW s \in Seq(Runs), s # <<>>
      PROVE  /\ Head(s) \in Members(s) /\ Head(s) \in Runs
             /\ Tail(s) \in Seq(Runs) /\ Members(Tail(s)) \subseteq Members(s)
             /\ Distinct(s) => Distinct(Tail(s)) /\ Head(s) \notin Members(Tail(s))
  <2>1. Head(s) = s[1] /\ 1 \in DOMAIN s /\ Tail(s) \in Seq(Runs)
    BY <1>3
  <2>2. \A i \in DOMAIN Tail(s) : i \in Nat /\ i > 0 /\ i + 1 \in DOMAIN s /\ Tail(s)[i] = s[i + 1]
    BY <1>3
  <2>3. Members(Tail(s)) \subseteq Members(s)
    BY <2>2 DEF Members
  <2>4. ASSUME Distinct(s) PROVE Distinct(Tail(s)) /\ Head(s) \notin Members(Tail(s))
    <3>1. ASSUME NEW i \in DOMAIN Tail(s), NEW j \in DOMAIN Tail(s), Tail(s)[i] = Tail(s)[j]
          PROVE  i = j
      <4>1. i + 1 = j + 1
        BY <2>2, <2>4, <3>1 DEF Distinct
      <4> QED BY <2>2, <4>1
    <3>2. ASSUME NEW i \in DOMAIN Tail(s), Tail(s)[i] = s[1] PROVE FALSE
      <4>1. i + 1 = 1
        BY <2>1, <2>2, <2>4, <3>2 DEF Distinct
      <4> QED BY <2>2, <4>1
    <3> QED BY <2>1, <3>1, <3>2 DEF Distinct, Members
  <2> QED BY <1>2, <2>1, <2>3, <2>4 DEF Members
<1>4. ASSUME NEW s \in Seq(Runs), NEW r \in Runs
      PROVE  /\ Append(s, r) \in Seq(Runs) /\ Members(Append(s, r)) = Members(s) \cup {r}
             /\ Distinct(s) /\ r \notin Members(s) => Distinct(Append(s, r))
  <2> DEFINE a == Append(s, r)
  <2>1. /\ a \in Seq(Runs) /\ DOMAIN a = 1..(Len(s) + 1) /\ DOMAIN s = 1..Len(s)
        /\ Len(s) \in Nat /\ a[Len(s) + 1] = r /\ \A i \in 1..Len(s) : a[i] = s[i]
    OBVIOUS
  <2>2. DOMAIN a = DOMAIN s \cup {Len(s) + 1}
    BY <2>1
  <2> HIDE DEF a
  <2>3. Members(a) = Members(s) \cup {r}
    BY <2>1, <2>2 DEF Members
  <2>4. ASSUME Distinct(s), r \notin Members(s) PROVE Distinct(a)
    BY <2>1, <2>2, <2>4 DEF Distinct, Members
  <2> QED BY <2>1, <2>3, <2>4 DEF a
<1> QED BY <1>1, <1>2, <1>3, <1>4

\* Marks stay well formed, whatever is done to them.
MarkTypes == exhausted \subseteq Entries /\ renewed \in [Entries -> SUBSET Chars]

LEMMA MarksTyped ==
    ASSUME MarkTypes
    PROVE  /\ ClearMarks => MarkTypes'
           /\ \A keys : DropMarks(keys) => MarkTypes'
           /\ \A key \in Entries : MarkExhausted(key) => MarkTypes'
           /\ \A entry \in Entries : PutOff(entry) /\ UNCHANGED exhausted => MarkTypes'
           /\ UNCHANGED marks => MarkTypes'
<1>1. ClearMarks => MarkTypes'
  BY DEF MarkTypes, ClearMarks
<1>2. \A keys : DropMarks(keys) => MarkTypes'
  BY DEF MarkTypes, DropMarks
<1>3. ASSUME NEW key \in Entries, MarkExhausted(key) PROVE MarkTypes'
  BY <1>3 DEF MarkTypes, MarkExhausted
<1>4. ASSUME NEW entry \in Entries, PutOff(entry), UNCHANGED exhausted PROVE MarkTypes'
  <2>1. entry[1] \in Chars
    BY DEF Entries
  <2> QED BY <1>4, <2>1 DEF MarkTypes, PutOff
<1>5. UNCHANGED marks => MarkTypes'
  BY DEF MarkTypes, marks
<1> QED BY <1>1, <1>2, <1>3, <1>4, <1>5

\* The types in three parts: the plans and their marks, the errors, the pipeline.
PlanTypes ==
    /\ on \subseteq Entries /\ frozen \subseteq Entries /\ spent \subseteq Entries
    /\ next \in [Entries -> {"past", "future"}]
    /\ MarkTypes
ErrorTypes ==
    /\ state \in {"PENDING", "RUNNING", "ERROR"} /\ cancel \in BOOLEAN
    /\ consecutive \in 0..MaxErrors /\ lastFailed \in Tasks \cup {"none"}
    /\ culprits \subseteq Tasks \cup {"device", "crash"}
LoopTypes ==
    /\ active \in Chars
    /\ pc \in {"idle", "head", "device", "pause", "login", "task", "close"}
    /\ mode \in {"scheduled", "direct"}
    /\ explicit \in Seq(Runs) /\ retryQueue \in Seq(Runs) /\ failedNext \in Seq(Runs)
    /\ run \in Seq(Runs) /\ Len(run) <= 1
    /\ round \in 0..(MaxAttempts - 1)
    /\ attempted \subseteq Runs /\ owed \subseteq Runs
    /\ \A r \in DOMAIN tries : r \in Runs /\ tries[r] \in Nat
Flags == counted \in BOOLEAN /\ onlyDebug \in BOOLEAN

LEMMA TypeParts == TypeOK <=> PlanTypes /\ ErrorTypes /\ LoopTypes /\ Flags
BY DEF TypeOK, PlanTypes, MarkTypes, ErrorTypes, LoopTypes, Flags

\* While a run is worked on, it and its entry are there.
LEMMA RunInHand ==
    ASSUME TypeOK, Own, AtWork
    PROVE  run[1] \in Runs /\ Task \in Tasks /\ Entry \in Entries
<1>1. run \in Seq(Runs) /\ Len(run) = 1 /\ active \in Chars
  BY DEF TypeOK, Own
<1>2. run[1] \in Runs
  BY <1>1
<1>3. Task \in Tasks
  BY <1>2, RunParts DEF Task
<1> QED BY <1>1, <1>2, <1>3 DEF Entry, Entries

\* How the errors are counted.
LEMMA ErrorsTyped ==
    ASSUME ErrorTypes
    PROVE  /\ cancel' \in BOOLEAN /\ RecordSuccess => ErrorTypes'
           /\ \A t \in Tasks : cancel' = cancel /\ RecordFailure(t, t) => ErrorTypes'
           /\ \A s \in {"device", "crash"} :
                cancel' = cancel /\ RecordFailure("none", s) => ErrorTypes'
           /\ \A f \in {"PENDING", "RUNNING"} :
                /\ cancel' \in BOOLEAN /\ state' = f /\ ForgetErrors /\ UNCHANGED lastFailed
                => ErrorTypes'
           /\ cancel' \in BOOLEAN /\ UNCHANGED <<errors, state>> => ErrorTypes'
<1>0. MaxErrors \in Nat /\ MaxErrors > 0
  BY AttemptsAssumption
<1>1. cancel' \in BOOLEAN /\ RecordSuccess => ErrorTypes'
  BY <1>0 DEF ErrorTypes, RecordSuccess, ForgetErrors
<1>2. ASSUME NEW key \in Tasks \cup {"none"}, NEW source \in Tasks \cup {"device", "crash"},
             cancel' = cancel, RecordFailure(key, source)
      PROVE  ErrorTypes'
  <2>1. CASE UNCHANGED <<errors, state>>
    BY <1>2, <2>1 DEF ErrorTypes, errors
  <2>2. CASE CountError(key, source)
    <3>1. consecutive' \in 0..MaxErrors
      BY <1>0, <2>2 DEF ErrorTypes, CountError
    <3>2. state' \in {"PENDING", "RUNNING", "ERROR"}
      BY <2>2 DEF ErrorTypes, CountError
    <3> QED BY <1>2, <2>2, <3>1, <3>2 DEF ErrorTypes, CountError
  <2> QED BY <1>2, <2>1, <2>2 DEF RecordFailure
<1>3. ASSUME NEW f \in {"PENDING", "RUNNING"}, cancel' \in BOOLEAN, state' = f, ForgetErrors,
             UNCHANGED lastFailed
      PROVE  ErrorTypes'
  BY <1>0, <1>3 DEF ErrorTypes, ForgetErrors
<1>4. cancel' \in BOOLEAN /\ UNCHANGED <<errors, state>> => ErrorTypes'
  BY DEF ErrorTypes, errors
<1> QED BY <1>1, <1>2, <1>3, <1>4

\* The errors keep their types, whatever happens.
LEMMA ErrorsKept == TypeOK /\ Own /\ [Next]_vars => ErrorTypes'
<1> SUFFICES ASSUME TypeOK, Own, [Next]_vars PROVE ErrorTypes'
  OBVIOUS
<1>0. ErrorTypes
  BY TypeParts
<1>1. CASE \/ \E entry \in Entries : UserResets(entry) \/ Arrives(entry)
           \/ \E list \in Explicit : BeginDirect(list)
           \/ Overview \/ BeginCycle \/ Turn
  <2>1. cancel' \in BOOLEAN /\ UNCHANGED <<errors, state>>
    BY <1>0, <1>1 DEF ErrorTypes, UserResets, Arrives, BeginDirect, Begin, Overview, BeginCycle,
        Turn, Leave, TakeRetry, TakeFresh, NextRound, Complete
  <2> QED BY <1>0, <2>1, ErrorsTyped
<1>2. CASE Activate \/ Stop \/ Recover
  <2>1. /\ cancel' \in BOOLEAN /\ ForgetErrors /\ UNCHANGED lastFailed
        /\ state' = "PENDING" \/ state' = "RUNNING"
    BY <1>2 DEF Activate, Stop, Recover
  <2> QED BY <1>0, <2>1, ErrorsTyped
<1>3. CASE Device
  <2>1. cancel' = cancel
    BY <1>3 DEF Device, DeviceReady, DeviceCancelled, DeviceFails, Pause, LoggedIn, LoginRaises
  <2>2. \/ UNCHANGED <<errors, state>>
        \/ RecordFailure("none", "device") \/ RecordFailure("none", "crash")
    BY <1>3 DEF Device, DeviceReady, DeviceCancelled, DeviceFails, Pause, LoggedIn, LoginRaises
  <2>3. cancel' \in BOOLEAN
    BY <1>0, <2>1 DEF ErrorTypes
  <2> QED BY <1>0, <2>1, <2>2, <2>3, ErrorsTyped
<1>4. CASE Outcome
  <2>1. pc = "task" /\ cancel' = cancel
    BY <1>4 DEF Outcome, Skipped, Succeeds, Fails, TakenOver, Raises
  <2>2. Task \in Tasks
    BY <2>1, RunInHand DEF AtWork
  <2>3. UNCHANGED <<errors, state>> \/ RecordSuccess \/ RecordFailure(Task, Task)
    BY <1>4 DEF Outcome, Skipped, Succeeds, Fails, TakenOver, Raises, LeaveToHuman, Defer, GiveUp
  <2>4. cancel' \in BOOLEAN
    BY <1>0, <2>1 DEF ErrorTypes
  <2> QED BY <1>0, <2>1, <2>2, <2>3, <2>4, ErrorsTyped
<1>5. CASE Close \/ UNCHANGED vars
  <2>1. cancel' \in BOOLEAN /\ UNCHANGED <<errors, state>>
    BY <1>0, <1>5 DEF ErrorTypes, Close, vars, errors
  <2> QED BY <1>0, <2>1, ErrorsTyped
<1> QED BY <1>1, <1>2, <1>3, <1>4, <1>5 DEF Next, User, Clock, Pipeline

\* The entries and the marks keep theirs.
LEMMA PlansKept == TypeOK /\ Own /\ [Next]_vars => PlanTypes'
<1> SUFFICES ASSUME TypeOK, Own, [Next]_vars PROVE PlanTypes'
  OBVIOUS
<1>0. PlanTypes /\ MarkTypes
  BY TypeParts DEF PlanTypes
<1>1. CASE \/ \E list \in Explicit : BeginDirect(list)
           \/ Leave \/ TakeRetry \/ Pause \/ LoggedIn \/ LoginRaises \/ Skipped \/ Close
           \/ UNCHANGED vars
  <2>1. UNCHANGED <<plans, marks>>
    BY <1>1 DEF BeginDirect, Begin, Leave, TakeRetry, Pause, LoggedIn, LoginRaises, Skipped, Close,
                vars
  <2> QED BY <1>0, <2>1, MarksTyped DEF PlanTypes, plans
<1>2. CASE \/ Overview \/ BeginCycle \/ TakeFresh \/ NextRound \/ Complete
           \/ DeviceReady \/ DeviceCancelled \/ DeviceFails
  <2>1. /\ UNCHANGED plans
        /\ UNCHANGED marks \/ \E keys \in {LiftedByLook, LiftedByCollect} : DropMarks(keys)
    BY <1>2 DEF Overview, BeginCycle, Begin, TakeFresh, NextRound, Complete, Collect,
        DeviceReady, DeviceCancelled, DeviceFails, marks
  <2> QED BY <1>0, <2>1, MarksTyped DEF PlanTypes, plans
<1>3. CASE Activate \/ Stop \/ Recover
  <2>1. UNCHANGED <<on, next, frozen>> /\ ClearMarks
    BY <1>3 DEF Activate, Stop, Recover
  <2> QED BY <1>0, <2>1, MarksTyped DEF PlanTypes, ClearMarks
<1>4. ASSUME NEW entry \in Entries, UserResets(entry) PROVE PlanTypes'
  BY <1>0, <1>4 DEF PlanTypes, MarkTypes, UserResets
<1>5. ASSUME NEW entry \in Entries, Arrives(entry) PROVE PlanTypes'
  <2>1. next' \in [Entries -> {"past", "future"}]
    BY <1>0, <1>5 DEF PlanTypes, Arrives
  <2> QED BY <1>0, <1>5, <2>1, MarksTyped DEF PlanTypes, Arrives
<1>6. CASE Outcome /\ ~Skipped
  <2>1. pc = "task"
    BY <1>6 DEF Outcome, Succeeds, Fails, TakenOver, Raises
  <2>2. Entry \in Entries
    BY <2>1, RunInHand DEF AtWork
  <2>3. /\ on' = on \/ on' = on \ {Entry}
        /\ next' = next \/ next' = [next EXCEPT ![Entry] = "future"]
        /\ frozen' \in {frozen, frozen \cup {Entry}, frozen \ {Entry}}
        /\ spent' \in {spent, spent \cup {Entry}, spent \ {Entry}}
    BY <1>6 DEF Outcome, Succeeds, Fails, TakenOver, Raises, Rescheduled
  <2>4. UNCHANGED marks \/ MarkExhausted(Entry) \/ (PutOff(Entry) /\ UNCHANGED exhausted)
    BY <1>6 DEF Outcome, Succeeds, Fails, TakenOver, Raises, Rescheduled
  <2>5. next' \in [Entries -> {"past", "future"}]
    BY <1>0, <2>2, <2>3 DEF PlanTypes
  <2> QED BY <1>0, <2>2, <2>3, <2>4, <2>5, MarksTyped DEF PlanTypes
<1> QED BY <1>1, <1>2, <1>3, <1>4, <1>5, <1>6 DEF Next, User, Clock, Pipeline, Turn, Device, Outcome

-----------------------------------------------------------------------------
(* What the steps do to the lists of a pipeline.                           *)

local == <<explicit, round, attempted, retryQueue, failedNext, tries, mode>>

\* A step that leaves the lists and the run alone, and begins no work.
Quiet ==
    /\ UNCHANGED <<local, active, run>>
    /\ pc' = pc \/ pc' \in {"head", "close", "pause"} \/ (pc = "device" /\ pc' = "login")

Returns == active' \in Chars /\ Return

\* A pipeline is begun, ...
Begins ==
    /\ pc = "idle" /\ pc' = "head"
    /\ UNCHANGED <<active, round, attempted, retryQueue, failedNext, tries, run>>
    /\ \/ mode' = "scheduled" /\ explicit' = <<>>
       \/ /\ mode' = "direct" /\ explicit' \in Seq(Runs)
          /\ \A r \in Members(explicit') : Who(r) = active

\* ... takes a run, ...
Takes ==
    /\ pc = "head" /\ pc' = "device"
    /\ UNCHANGED <<explicit, round, attempted, failedNext, tries, mode>>
    /\ run' = <<run'[1]>> /\ run'[1] \in Runs /\ active' = Who(run'[1])
    /\ \/ retryQueue # <<>> /\ retryQueue' = Tail(retryQueue) /\ run'[1] = Head(retryQueue)
       \/ /\ retryQueue = <<>> /\ UNCHANGED retryQueue
          /\ round = 0 /\ run'[1] \notin attempted
          /\ mode = "direct" => active' = active

\* ... goes into its next round, ...
Turns ==
    /\ pc = "head" /\ pc' = "head"
    /\ UNCHANGED <<explicit, tries, mode, run>> /\ active' \in Chars
    /\ mode = "direct" => active' = active
    /\ round' = round + 1 /\ round + 1 < MaxAttempts
    /\ retryQueue = <<>> /\ retryQueue' = failedNext /\ failedNext' = <<>> /\ attempted' = {}

\* ... is done with them, ...
Completes ==
    /\ pc = "head" /\ pc' = "close" /\ UNCHANGED <<local, run>> /\ active' \in Chars
    /\ mode = "direct" => active' = active

\* ... notes an attempt, and has its outcome.
Notes ==
    /\ pc = "login" /\ pc' = "task" /\ attempted' = attempted \cup {run[1]}
    /\ UNCHANGED <<explicit, round, retryQueue, failedNext, tries, mode, active, run>>
Ends ==
    /\ pc = "task" /\ pc' \in {"head", "close"} /\ Tried
    /\ failedNext' = failedNext \/ failedNext' = Append(failedNext, run[1])
    /\ UNCHANGED <<explicit, round, attempted, retryQueue, mode, active, run>>

LEMMA Steps ==
    ASSUME TypeOK, Own, [Next]_vars
    PROVE  Quiet \/ Returns \/ Begins \/ Takes \/ Turns \/ Completes \/ Notes \/ Ends
<1> USE DEF local, plans, marks, errors, rounds, totals
<1>1. CASE \/ \E entry \in Entries : UserResets(entry) \/ Arrives(entry)
           \/ Overview \/ Activate \/ Stop \/ Recover \/ Leave \/ DeviceReady
           \/ DeviceCancelled \/ DeviceFails \/ Pause \/ Skipped \/ UNCHANGED vars
  <2>1. Quiet
    <3>1. CASE \/ \E entry \in Entries : UserResets(entry) \/ Arrives(entry)
               \/ Overview \/ Activate \/ Stop \/ Recover \/ UNCHANGED vars
      BY <3>1 DEF Quiet, AtWork, UserResets, Arrives, Overview, Activate, Stop, Recover, vars
    <3>2. CASE Leave \/ DeviceReady \/ DeviceCancelled \/ DeviceFails \/ Pause \/ Skipped
      BY <3>2 DEF Quiet, AtWork, Leave, DeviceReady, DeviceCancelled, DeviceFails, Pause, Skipped
    <3> QED BY <1>1, <3>1, <3>2
  <2> QED BY <2>1
<1>2. CASE LoginRaises \/ Close
  <2>1. Queue[1] \in Chars
    BY QueueAssumption
  <2>2. active \in Chars
    BY DEF TypeOK
  <2> QED BY <1>2, <2>1, <2>2 DEF Returns, LoginRaises, Close
<1>3. CASE BeginCycle
  BY <1>3 DEF Begins, BeginCycle, Begin
<1>4. ASSUME NEW list \in Explicit, BeginDirect(list) PROVE Begins
  <2>1. /\ pc = "idle" /\ pc' = "head" /\ mode' = "direct"
        /\ explicit' = [i \in DOMAIN list |-> <<active, i, list[i]>>]
        /\ UNCHANGED <<active, round, attempted, retryQueue, failedNext, tries, run>>
    BY <1>4 DEF BeginDirect, Begin
  <2>2. list \in Seq(Tasks) /\ active \in Chars
    BY ExplicitAssumption DEF TypeOK
  <2>3. explicit' \in Seq(Runs)
    <3>1. /\ DOMAIN list = 1..Len(list) /\ Len(list) \in Nat
          /\ \A i \in DOMAIN list : list[i] \in Tasks
      BY <2>2
    <3>2. \A i \in DOMAIN list : <<active, i, list[i]>> \in Runs
      BY <2>2, <3>1 DEF Runs
    <3> QED BY <2>1, <3>1, <3>2
  <2>4. \A r \in Members(explicit') : Who(r) = active
    BY <2>1 DEF Members, Who
  <2> QED BY <2>1, <2>3, <2>4 DEF Begins
<1>5. CASE TakeRetry
  <2>1. retryQueue # <<>> /\ retryQueue \in Seq(Runs) /\ Head(retryQueue) \in Runs
    BY <1>5, ListFacts DEF TakeRetry, TypeOK
  <2> QED BY <1>5, <2>1 DEF Takes, TakeRetry
<1>6. CASE TakeFresh
  <2>1. /\ pc = "head" /\ pc' = "device" /\ retryQueue = <<>> /\ Fresh # {}
        /\ run' = <<FirstFresh>> /\ Collect
        /\ UNCHANGED <<explicit, round, attempted, retryQueue, failedNext, tries, mode>>
    BY <1>6 DEF TakeFresh
  <2>2. /\ FirstFresh \in Runs /\ FirstFresh \notin attempted /\ round = 0
        /\ mode = "scheduled" => Who(FirstFresh) = Collected
        /\ mode = "direct" => FirstFresh \in Members(explicit)
    BY <2>1, FirstFreshFacts
  <2>3. active' = Who(FirstFresh) /\ (mode = "direct" => active' = active)
    <3>1. CASE mode = "scheduled"
      BY <2>1, <2>2, <3>1 DEF Collect, Collecting
    <3>2. CASE mode = "direct"
      BY <2>1, <2>2, <3>2 DEF Collect, Collecting, Own
    <3> QED BY <3>1, <3>2 DEF TypeOK
  <2> QED BY <2>1, <2>2, <2>3 DEF Takes
<1>7. CASE NextRound \/ Complete
  <2>1. Collect
    BY <1>7 DEF NextRound, Complete
  <2>2. active' \in Chars /\ (mode = "direct" => active' = active)
    <3>1. active \in Chars /\ Collected \in Chars
      BY CollectedIsChar DEF TypeOK
    <3> QED BY <2>1, <3>1 DEF Collect, Collecting
  <2> QED BY <1>7, <2>2 DEF Turns, Completes, NextRound, Complete, MayRetry
<1>8. CASE LoggedIn
  BY <1>8 DEF Notes, LoggedIn
<1>9. CASE Succeeds \/ Fails \/ TakenOver \/ Raises
  BY <1>9 DEF Ends, Succeeds, Fails, TakenOver, Raises, LeaveToHuman, Defer, GiveUp
<1> QED BY <1>1, <1>2, <1>3, <1>4, <1>5, <1>6, <1>7, <1>8, <1>9
        DEF Next, User, Clock, Pipeline, Turn, Device, Outcome

\* An attempt counts for the run that had it.
LEMMA TriedFacts ==
    ASSUME LoopTypes, run[1] \in Runs, Tried
    PROVE  /\ DOMAIN tries' = DOMAIN tries \cup {run[1]}
           /\ \A r \in DOMAIN tries' : r \in Runs /\ tries'[r] \in Nat
           /\ \A r : Had(r) \in Nat /\ Had(r)' = IF r = run[1] THEN Had(r) + 1 ELSE Had(r)
<1>1. /\ DOMAIN tries' = DOMAIN tries \cup {run[1]}
      /\ \A r \in DOMAIN tries' :
            tries'[r] = IF r \notin DOMAIN tries THEN 1
                        ELSE IF r = run[1] THEN tries[r] + 1 ELSE tries[r]
  BY DEF Tried
<1>2. \A r \in DOMAIN tries : r \in Runs /\ tries[r] \in Nat
  BY DEF LoopTypes
<1> QED BY <1>1, <1>2 DEF Had

\* The local variables keep their types.
LEMMA LoopKept == TypeOK /\ Own /\ [Next]_vars => LoopTypes'
<1> SUFFICES ASSUME TypeOK, Own, [Next]_vars PROVE LoopTypes'
  OBVIOUS
<1>11. Quiet \/ Returns \/ Begins \/ Takes \/ Turns \/ Completes \/ Notes \/ Ends
  BY Steps
<1>0. LoopTypes
  BY TypeParts
<1>1. pc' \in {"idle", "head", "device", "pause", "login", "task", "close"}
  BY <1>0, <1>11 DEF LoopTypes, Quiet, Returns, Return, Begins, Takes, Turns, Completes, Notes, Ends
<1>2. owed' \subseteq Runs
  <2>1. \/ UNCHANGED owed \/ owed' = {}
        \/ pc = "task" /\ owed' \in {owed \cup {run[1]}, owed \ {run[1]}}
    BY DEF Next, User, Clock, Pipeline, Turn, Device, Outcome, rounds,
        UserResets, Arrives, Overview, Activate, Stop, Recover, vars, BeginCycle, BeginDirect,
        Begin, Leave, DeviceReady, DeviceCancelled, DeviceFails, Pause, Skipped, TakeRetry,
        TakeFresh, NextRound, Complete, LoggedIn,
        LoginRaises, Succeeds, Fails, TakenOver, Raises, Close, Return, LeaveToHuman, Defer, GiveUp
  <2> QED BY <1>0, <2>1, RunInHand DEF LoopTypes, AtWork
<1>3. CASE Quiet
  BY <1>0, <1>1, <1>2, <1>3 DEF LoopTypes, Quiet, local
<1>4. CASE Returns
  BY <1>1, <1>2, <1>4, ListFacts, AttemptsAssumption DEF LoopTypes, Returns, Return
<1>5. CASE Begins
  BY <1>0, <1>1, <1>2, <1>5, ListFacts DEF LoopTypes, Begins
<1>6. CASE Takes
  <2>1. retryQueue' \in Seq(Runs)
    <3>1. retryQueue \in Seq(Runs) /\ (retryQueue # <<>> => Tail(retryQueue) \in Seq(Runs))
      BY <1>0 DEF LoopTypes
    <3> QED BY <1>6, <3>1 DEF Takes
  <2>2. run' \in Seq(Runs) /\ Len(run') <= 1
    <3>1. \A r \in Runs : <<r>> \in Seq(Runs) /\ Len(<<r>>) <= 1
      OBVIOUS
    <3> QED BY <1>6, <3>1 DEF Takes
  <2>3. active' \in Chars
    BY <1>6, RunParts DEF Takes
  <2> QED BY <1>0, <1>1, <1>2, <1>6, <2>1, <2>2, <2>3 DEF LoopTypes, Takes
<1>7. CASE Turns
  BY <1>0, <1>1, <1>2, <1>7, ListFacts, AttemptsAssumption DEF LoopTypes, Turns
<1>8. CASE Completes
  BY <1>0, <1>1, <1>2, <1>8 DEF LoopTypes, Completes, local
<1>9. CASE Notes
  <2>1. run[1] \in Runs
    BY <1>9, RunInHand DEF AtWork, Notes
  <2> QED BY <1>0, <1>1, <1>2, <1>9, <2>1 DEF LoopTypes, Notes
<1>10. CASE Ends
  <2>1. run[1] \in Runs
    BY <1>10, RunInHand DEF AtWork, Ends
  <2>2. \A r \in DOMAIN tries' : r \in Runs /\ tries'[r] \in Nat
    BY <1>0, <1>10, <2>1, TriedFacts DEF Ends
  <2>3. failedNext' \in Seq(Runs)
    <3>1. failedNext \in Seq(Runs)
      BY <1>0 DEF LoopTypes
    <3>2. Append(failedNext, run[1]) \in Seq(Runs)
      BY <2>1, <3>1, ListFacts
    <3> QED BY <1>10, <3>1, <3>2 DEF Ends
  <2> QED BY <1>0, <1>1, <1>2, <1>10, <2>2, <2>3 DEF LoopTypes, Ends
<1> QED BY <1>11, <1>3, <1>4, <1>5, <1>6, <1>7, <1>8, <1>9, <1>10

\* The run stays the active character's, and noted when it is attempted.
LEMMA OwnKept == IInv /\ [Next]_vars => Own'
<1> SUFFICES ASSUME IInv, [Next]_vars PROVE Own'
  OBVIOUS
<1>0. Quiet \/ Returns \/ Begins \/ Takes \/ Turns \/ Completes \/ Notes \/ Ends
  BY Steps DEF IInv
<1>00. Own /\ LoopTypes
  BY TypeParts DEF IInv
<1>1. CASE Quiet
  BY <1>00, <1>1 DEF Own, AtWork, Quiet, local
<1>2. CASE Returns
  BY <1>2 DEF Own, AtWork, Returns, Return
<1>3. CASE Begins
  BY <1>00, <1>3, ListFacts DEF Own, AtWork, Begins
<1>4. CASE Takes
  <2>1. Len(run') = 1 /\ active' = Who(run'[1]) /\ pc' = "device"
    <3>1. run' = <<run'[1]>> /\ active' = Who(run'[1]) /\ pc' = "device"
      BY <1>4 DEF Takes
    <3> QED BY <3>1
  <2>2. mode = "direct" => active' = active /\ Members(retryQueue') \subseteq Members(retryQueue)
    <3>1. CASE retryQueue = <<>>
      BY <1>4, <3>1 DEF Takes
    <3>2. CASE retryQueue # <<>>
      <4>1. /\ Head(retryQueue) \in Members(retryQueue)
            /\ Members(Tail(retryQueue)) \subseteq Members(retryQueue)
        BY <1>00, <3>2, ListFacts DEF LoopTypes
      <4> QED BY <1>00, <1>4, <3>2, <4>1 DEF Takes, Own
    <3> QED BY <3>1, <3>2
  <2> QED BY <1>00, <1>4, <2>1, <2>2 DEF Own, AtWork, Takes
<1>5. CASE Turns
  BY <1>00, <1>5, ListFacts DEF Own, AtWork, Turns
<1>6. CASE Completes
  BY <1>00, <1>6 DEF Own, AtWork, Completes, local
<1>7. CASE Notes
  BY <1>00, <1>7 DEF Own, AtWork, Notes
<1>8. CASE Ends
  <2>1. run[1] \in Runs /\ failedNext \in Seq(Runs) /\ active = Who(run[1])
    BY <1>00, <1>8, RunInHand DEF IInv, AtWork, Ends, LoopTypes, Own
  <2>2. Members(failedNext') \subseteq Members(failedNext) \cup {run[1]}
    BY <1>8, <2>1, ListFacts, ZenonT(120) DEF Ends
  <2> QED BY <1>00, <1>8, <2>1, <2>2 DEF Own, AtWork, Ends
<1> QED BY <1>0, <1>1, <1>2, <1>3, <1>4, <1>5, <1>6, <1>7, <1>8

\* Nothing comes to be queued twice.
LEMMA ApartKept == IInv /\ [Next]_vars => Apart'
<1> SUFFICES ASSUME IInv, [Next]_vars PROVE Apart'
  OBVIOUS
<1>0. Quiet \/ Returns \/ Begins \/ Takes \/ Turns \/ Completes \/ Notes \/ Ends
  BY Steps DEF IInv
<1>00. Apart /\ retryQueue \in Seq(Runs) /\ failedNext \in Seq(Runs)
  BY TypeParts DEF IInv, LoopTypes
<1>1. CASE Quiet
  BY <1>00, <1>1 DEF Apart, AtWork, Quiet, local
<1>2. CASE Returns
  BY <1>2, ListFacts DEF Apart, AtWork, Returns, Return
<1>3. CASE Begins
  BY <1>00, <1>3 DEF Apart, AtWork, Begins
<1>4. CASE Takes
  <2>1. CASE retryQueue # <<>>
    <3>1. /\ retryQueue' = Tail(retryQueue) /\ run'[1] = Head(retryQueue)
          /\ failedNext' = failedNext
      BY <1>4, <2>1 DEF Takes
    <3>2. /\ Distinct(retryQueue') /\ run'[1] \notin Members(retryQueue')
          /\ Members(retryQueue') \subseteq Members(retryQueue) /\ run'[1] \in Members(retryQueue)
      BY <1>00, <2>1, <3>1, ListFacts DEF Apart
    <3> QED BY <1>00, <3>1, <3>2 DEF Apart
  <2>2. CASE retryQueue = <<>>
    <3>1. run'[1] \notin attempted /\ round = 0 /\ UNCHANGED <<retryQueue, failedNext>>
      BY <1>4, <2>2 DEF Takes
    <3>2. run'[1] \notin Members(retryQueue) \cup Members(failedNext)
      BY <2>2, <3>1, ListFacts DEF IInv, FirstRound
    <3> QED BY <1>00, <3>1, <3>2 DEF Apart
  <2> QED BY <2>1, <2>2
<1>5. CASE Turns
  BY <1>00, <1>5, ListFacts DEF Apart, AtWork, Turns
<1>6. CASE Completes
  BY <1>00, <1>6 DEF Apart, AtWork, Completes, local
<1>7. CASE Notes
  BY <1>00, <1>7 DEF Apart, AtWork, Notes
<1>8. CASE Ends
  <2>1. run[1] \in Runs /\ run[1] \notin Members(retryQueue) \cup Members(failedNext)
    BY <1>00, <1>8, RunInHand DEF IInv, AtWork, Ends, Apart
  <2>2. /\ Members(failedNext') \subseteq Members(failedNext) \cup {run[1]}
        /\ Distinct(failedNext')
    <3>1. /\ Members(Append(failedNext, run[1])) = Members(failedNext) \cup {run[1]}
          /\ Distinct(Append(failedNext, run[1]))
      BY <1>00, <2>1, ListFacts DEF Apart
    <3> QED BY <1>00, <1>8, <3>1 DEF Ends, Apart
  <2> QED BY <1>00, <1>8, <2>1, <2>2 DEF Apart, AtWork, Ends
<1> QED BY <1>0, <1>1, <1>2, <1>3, <1>4, <1>5, <1>6, <1>7, <1>8

\* A run has an attempt per round at most.
LEMMA BudgetKept == IInv /\ [Next]_vars => Budget'
<1> SUFFICES ASSUME IInv, [Next]_vars PROVE Budget'
  OBVIOUS
<1>0. Quiet \/ Returns \/ Begins \/ Takes \/ Turns \/ Completes \/ Notes \/ Ends
  BY Steps DEF IInv
<1>00. Budget /\ LoopTypes /\ round \in Nat
  BY TypeParts, AttemptsAssumption DEF IInv, LoopTypes
<1>01. \A r \in DOMAIN tries : tries[r] \in Nat
  BY <1>00 DEF LoopTypes
<1>1. CASE Quiet
  <2>1. UNCHANGED <<round, retryQueue, tries, run>> /\ (AtWork' => AtWork)
    BY <1>1 DEF Quiet, local, AtWork
  <2> QED BY <1>00, <2>1 DEF Budget, Had
<1>2. CASE Returns
  BY <1>2, ListFacts DEF Budget, AtWork, Returns, Return
<1>3. CASE Begins
  BY <1>00, <1>3 DEF Budget, AtWork, Begins, Had
<1>4. CASE Takes
  <2>1. CASE retryQueue # <<>>
    <3>1. /\ retryQueue' = Tail(retryQueue) /\ run'[1] = Head(retryQueue)
          /\ UNCHANGED <<round, tries>>
      BY <1>4, <2>1 DEF Takes
    <3>2. Members(retryQueue') \subseteq Members(retryQueue) /\ run'[1] \in Members(retryQueue)
      BY <1>00, <2>1, <3>1, ListFacts DEF LoopTypes
    <3> QED BY <1>00, <3>1, <3>2 DEF Budget, Had
  <2>2. CASE retryQueue = <<>>
    <3>1. run'[1] \notin attempted /\ round = 0 /\ UNCHANGED <<round, tries, retryQueue>>
      BY <1>4, <2>2 DEF Takes
    <3>2. run'[1] \notin DOMAIN tries
      BY <3>1 DEF IInv, FirstRound
    <3> QED BY <1>00, <3>1, <3>2 DEF Budget, Had
  <2> QED BY <2>1, <2>2
<1>5. CASE Turns
  <2>1. round' = round + 1 /\ UNCHANGED tries /\ pc' = "head" /\ retryQueue' = failedNext
    BY <1>5 DEF Turns
  <2>2. \A r : Had(r)' <= round'
    BY <1>00, <1>01, <2>1 DEF Budget, Had
  <2> QED BY <1>00, <1>01, <2>1, <2>2 DEF Budget, AtWork
<1>6. CASE Completes
  BY <1>00, <1>6 DEF Budget, AtWork, Completes, local, Had
<1>7. CASE Notes
  BY <1>00, <1>7 DEF Budget, AtWork, Notes, Had
<1>8. CASE Ends
  <2>1. /\ run[1] \in Runs /\ run[1] \notin Members(retryQueue) /\ Had(run[1]) <= round
        /\ Tried /\ UNCHANGED <<round, retryQueue>> /\ pc' \in {"head", "close"}
    BY <1>00, <1>8, RunInHand DEF IInv, AtWork, Ends, Apart, Budget
  <2>2. /\ DOMAIN tries' = DOMAIN tries \cup {run[1]}
        /\ \A r : Had(r) \in Nat /\ Had(r)' = IF r = run[1] THEN Had(r) + 1 ELSE Had(r)
    BY <1>00, <2>1, TriedFacts
  <2>3. \A r \in DOMAIN tries' : tries'[r] = Had(r)'
    BY DEF Had
  <2>4. \A r \in DOMAIN tries' : Had(r)' <= round + 1
    BY <1>00, <2>1, <2>2 DEF Budget, Had
  <2>5. \A r \in Members(retryQueue) : Had(r)' <= round
    BY <1>00, <2>1, <2>2 DEF Budget
  <2> QED BY <2>1, <2>3, <2>4, <2>5 DEF Budget, AtWork
<1> QED BY <1>0, <1>1, <1>2, <1>3, <1>4, <1>5, <1>6, <1>7, <1>8

\* In the first round, what has been attempted stays noted.
LEMMA FirstRoundKept == IInv /\ [Next]_vars => FirstRound'
<1> SUFFICES ASSUME IInv, [Next]_vars PROVE FirstRound'
  OBVIOUS
<1>0. Quiet \/ Returns \/ Begins \/ Takes \/ Turns \/ Completes \/ Notes \/ Ends
  BY Steps DEF IInv
<1>00. FirstRound /\ LoopTypes /\ round \in Nat
  BY TypeParts, AttemptsAssumption DEF IInv, LoopTypes
<1>1. CASE Quiet \/ Returns \/ Begins \/ Completes
  BY <1>00, <1>1, ListFacts DEF FirstRound, Quiet, Returns, Return, Begins, Completes, local
<1>2. CASE Takes \/ Turns \/ Notes
  BY <1>00, <1>2 DEF FirstRound, Takes, Turns, Notes
<1>3. CASE Ends
  <2>1. /\ run[1] \in Runs /\ run[1] \in attempted /\ Tried
        /\ UNCHANGED <<round, retryQueue, attempted>>
    BY <1>3, RunInHand DEF IInv, AtWork, Ends, Own
  <2>2. DOMAIN tries' = DOMAIN tries \cup {run[1]}
    BY <1>00, <2>1, TriedFacts
  <2>3. Members(failedNext') \subseteq Members(failedNext) \cup {run[1]}
    <3>1. failedNext \in Seq(Runs)
      BY <1>00 DEF LoopTypes
    <3>2. Members(Append(failedNext, run[1])) = Members(failedNext) \cup {run[1]}
      BY <2>1, <3>1, ListFacts
    <3> QED BY <1>3, <3>2 DEF Ends
  <2> QED BY <1>00, <2>1, <2>2, <2>3 DEF FirstRound
<1> QED BY <1>0, <1>1, <1>2, <1>3

\* What the invariant says of the queues.
LEMMA IInvMeans == IInv => QueuesAreSound
<1> SUFFICES ASSUME IInv PROVE QueuesAreSound
  OBVIOUS
<1>1. AttemptBudget
  <2>1. /\ round \in 0..(MaxAttempts - 1) /\ \A r \in DOMAIN tries : tries[r] \in Nat
        /\ \A r \in DOMAIN tries : tries[r] <= round + 1
    BY DEF IInv, TypeOK, Budget
  <2> QED BY <2>1, AttemptsAssumption DEF AttemptBudget
<1>2. QueuedOnce
  <2> DEFINE m == Len(retryQueue)
             n == Len(failedNext)
  <2>1. /\ retryQueue \in Seq(Runs) /\ failedNext \in Seq(Runs)
    BY DEF IInv, TypeOK
  <2>2. /\ m \in Nat /\ n \in Nat /\ DOMAIN Queued = 1..(m + n)
        /\ DOMAIN retryQueue = 1..m /\ DOMAIN failedNext = 1..n
        /\ \A i \in 1..m : Queued[i] = retryQueue[i]
        /\ \A i \in 1..(m + n) : i > m => i - m \in 1..n /\ Queued[i] = failedNext[i - m]
    BY <2>1 DEF Queued
  <2> HIDE DEF m, n
  <2>3. ASSUME NEW i \in DOMAIN Queued, NEW j \in DOMAIN Queued, Queued[i] = Queued[j]
        PROVE  i = j
    <3>1. CASE i <= m /\ j <= m
      BY <2>2, <2>3, <3>1 DEF IInv, Apart, Distinct
    <3>2. CASE i > m /\ j > m
      <4>1. i - m = j - m
        BY <2>2, <2>3, <3>2, SMTT(60) DEF IInv, Apart, Distinct
      <4> QED BY <2>2, <3>2, <4>1
    <3>3. ASSUME NEW k \in DOMAIN Queued, NEW l \in DOMAIN Queued, k <= m, l > m
          PROVE  Queued[k] # Queued[l]
      <4>1. Queued[k] \in Members(retryQueue) /\ Queued[l] \in Members(failedNext)
        BY <2>2, <3>3 DEF Members
      <4> QED BY <4>1 DEF IInv, Apart
    <3> QED BY <2>2, <2>3, <3>1, <3>2, <3>3
  <2>4. ASSUME NEW i \in DOMAIN Queued
        PROVE  Queued[i] \in Members(retryQueue) \cup Members(failedNext)
    BY <2>2 DEF Members
  <2> QED BY <2>3, <2>4 DEF QueuedOnce, IInv, Apart, AtWork
<1> QED BY <1>1, <1>2 DEF QueuesAreSound, IInv, RunsAsItsCharacter, Own, AtWork

LEMMA InitIInv == Init => IInv
<1> SUFFICES ASSUME Init PROVE IInv
  OBVIOUS
<1>1. PlanTypes /\ Flags
  BY DEF Init, PlanTypes, MarkTypes, Flags
<1>2. ErrorTypes
  <2>1. 0 \in 0..MaxErrors
    BY AttemptsAssumption
  <2> QED BY <2>1 DEF Init, ErrorTypes
<1>3. LoopTypes
  BY AttemptsAssumption, ListFacts DEF Init, LoopTypes
<1>4. Own /\ Apart /\ Budget /\ FirstRound
  BY ListFacts DEF Init, Own, Apart, Budget, FirstRound, AtWork
<1> QED BY <1>1, <1>2, <1>3, <1>4, TypeParts DEF IInv

\* The flags of a pipeline's end stay flags.
LEMMA FlagsKept == Flags /\ [Next]_vars => Flags'
<1> SUFFICES ASSUME Flags, [Next]_vars PROVE Flags'
  OBVIOUS
<1>1. CASE User \/ Clock \/ Recover \/ BeginCycle \/ Turn \/ UNCHANGED vars
  BY <1>1 DEF Flags, User, Clock, UserResets, Arrives, BeginDirect, Begin, Overview, Activate,
      Stop, Recover, BeginCycle, Turn, Leave, TakeRetry, TakeFresh, NextRound, Complete,
      totals, vars
<1>2. CASE Device \/ Close
  BY <1>2 DEF Flags, Device, DeviceReady, DeviceCancelled, DeviceFails, Pause, LoggedIn,
      LoginRaises, Close, Return, totals
<1>3. CASE Outcome
  BY <1>3 DEF Flags, Outcome, Skipped, Succeeds, Fails, TakenOver, Raises, LeaveToHuman, Defer,
      GiveUp, totals
<1> QED BY <1>1, <1>2, <1>3 DEF Next, Pipeline

\* The inductive invariant, for every queue of characters, list of tasks and limit.
THEOREM PipelineInvariant == Spec => []IInv
<1>1. IInv /\ [Next]_vars => IInv'
  <2>1. IInv /\ [Next]_vars => TypeOK'
    <3>1. IInv /\ [Next]_vars => PlanTypes' /\ ErrorTypes' /\ LoopTypes' /\ Flags'
      BY PlansKept, ErrorsKept, LoopKept, FlagsKept, TypeParts DEF IInv
    <3> QED BY <3>1 DEF TypeOK, PlanTypes, MarkTypes, ErrorTypes, LoopTypes, Flags
  <2> QED BY <2>1, OwnKept, ApartKept, BudgetKept, FirstRoundKept DEF IInv
<1> QED BY <1>1, InitIInv, PTL DEF Spec

\* No run has more attempts than max_attempts, none is queued twice or while it is worked on, and
\* each runs as the character it was collected for (_run_task_pipeline of scheduler.py).
THEOREM QueuesSound == Spec => []QueuesAreSound
BY PipelineInvariant, IInvMeans, PTL

-----------------------------------------------------------------------------
(* The errors that add up.                                                 *)

\* As long as an error is counted, the task that failed last is to blame, or the device or the
\* pipeline itself.
Blamed ==
    /\ IsFiniteSet(culprits)
    /\ consecutive > 0 => culprits # {}
    /\ culprits # {} => lastFailed \in culprits \/ culprits \cap {"device", "crash"} # {}

LEMMA BlamedKept == ErrorTypes /\ Blamed /\ [Next]_vars => Blamed'
<1> SUFFICES ASSUME ErrorTypes, Blamed, [Next]_vars PROVE Blamed'
  OBVIOUS
<1>0. MaxErrors \in Nat /\ consecutive \in Nat
  BY AttemptsAssumption DEF ErrorTypes
<1>1. \/ UNCHANGED errors \/ ForgetErrors
      \/ \E key \in {"none", Task} : \E s \in {"device", "crash", Task} :
            (s = key \/ s \in {"device", "crash"}) /\ CountError(key, s)
  <2>1. CASE User \/ Clock \/ Recover \/ BeginCycle \/ Turn \/ Close \/ UNCHANGED vars
    BY <2>1 DEF User, Clock, UserResets, Arrives, BeginDirect, Begin, Overview, Activate,
        Stop, Recover, BeginCycle, Turn, Leave, TakeRetry, TakeFresh, NextRound, Complete, Close,
        vars
  <2>2. CASE Device
    BY <2>2 DEF Device, DeviceReady, DeviceCancelled, DeviceFails, Pause, LoggedIn, LoginRaises,
        RecordFailure
  <2>3. CASE Outcome
    BY <2>3 DEF Outcome, Skipped, Succeeds, Fails, TakenOver, Raises, LeaveToHuman, Defer,
        GiveUp, RecordFailure, RecordSuccess
  <2> QED BY <2>1, <2>2, <2>3 DEF Next, Pipeline
<1>2. CASE UNCHANGED errors
  BY <1>2 DEF Blamed, errors
<1>3. CASE ForgetErrors
  BY <1>3, FS_EmptySet DEF Blamed, ForgetErrors
<1>4. ASSUME NEW key, NEW s, s = key \/ s \in {"device", "crash"}, CountError(key, s) PROVE Blamed'
  <2>1. lastFailed' = key /\ culprits' = culprits \cup {s}
    BY <1>4 DEF CountError
  <2> QED BY <1>4, <2>1, FS_AddElement DEF Blamed
<1> QED BY <1>1, <1>2, <1>3, <1>4

\* With a limit of two errors or more, the scheduler goes to ERROR only if two tasks failed, or the
\* device or the pipeline did: one task that keeps failing does not bring it on (record_result).
THEOREM OneTaskIsNotAnOutage == MaxErrors > 1 => (Spec => OneBadTaskIsNotAnOutage)
<1> SUFFICES ASSUME MaxErrors > 1 PROVE Spec => OneBadTaskIsNotAnOutage
  OBVIOUS
<1>1. Init => Blamed
  BY FS_EmptySet DEF Init, Blamed
<1>2. TypeOK /\ Own /\ Blamed /\ [Next]_vars
        => [state # "ERROR" /\ state' = "ERROR" =>
              \/ Cardinality(culprits') > 1
              \/ culprits' \cap {"device", "crash"} # {}]_vars
  <2> SUFFICES ASSUME TypeOK, Own, Blamed, [Next]_vars, state # "ERROR", state' = "ERROR",
                      culprits' \cap {"device", "crash"} = {}
               PROVE  Cardinality(culprits') > 1
    OBVIOUS
  <2>0. ErrorTypes /\ MaxErrors \in Nat /\ consecutive \in Nat
    BY TypeParts, AttemptsAssumption DEF ErrorTypes
  <2>1. \E key \in {"none", Task} : \E s \in {"device", "crash", Task} :
            /\ s = key \/ s \in {"device", "crash"}
            /\ key = "none" => s \in {"device", "crash"}
            /\ CountError(key, s) /\ (key = "none" \/ key # lastFailed)
    <3>1. CASE User \/ Clock \/ Recover \/ BeginCycle \/ Turn \/ Close \/ UNCHANGED vars
      BY <3>1 DEF User, Clock, UserResets, Arrives, BeginDirect, Begin, Overview, Activate,
          Stop, Recover, BeginCycle, Turn, Leave, TakeRetry, TakeFresh, NextRound, Complete, Close,
          vars
    <3>2. CASE Device
      BY <3>2 DEF Device, DeviceReady, DeviceCancelled, DeviceFails, Pause, LoggedIn, LoginRaises,
          RecordFailure
    <3>3. CASE Outcome
      <4>1. pc = "task"
        BY <3>3 DEF Outcome, Skipped, Succeeds, Fails, TakenOver, Raises
      <4>2. Task # "none"
        BY <4>1, RunInHand, KindAssumption DEF AtWork
      <4> QED BY <3>3, <4>2 DEF Outcome, Skipped, Succeeds, Fails, TakenOver, Raises,
              LeaveToHuman, Defer, GiveUp, RecordFailure, RecordSuccess
    <3> QED BY <3>1, <3>2, <3>3 DEF Next, Pipeline
  <2>2. PICK key, s : /\ s = key \/ s \in {"device", "crash"}
                      /\ key = "none" => s \in {"device", "crash"}
                      /\ CountError(key, s) /\ (key = "none" \/ key # lastFailed)
    BY <2>1
  <2>3. culprits' = culprits \cup {s} /\ consecutive + 1 >= MaxErrors
    BY <2>2 DEF CountError
  <2>4. s = key /\ s \in culprits' /\ culprits # {} /\ key # "none"
    BY <2>0, <2>2, <2>3 DEF Blamed
  <2>5. culprits \cap {"device", "crash"} = {}
    BY <2>3
  <2>6. lastFailed \in culprits' /\ lastFailed # s
    BY <2>2, <2>3, <2>4, <2>5 DEF Blamed
  <2>7. IsFiniteSet(culprits')
    BY <2>3, FS_AddElement DEF Blamed
  <2> QED BY <2>4, <2>6, <2>7, FS_CardinalityType, FS_EmptySet, FS_Singleton
<1>3. Spec => [](TypeOK /\ Own /\ Blamed)
  <2>1. TypeOK /\ Blamed /\ [Next]_vars => Blamed'
    BY BlamedKept, TypeParts
  <2>2. IInv => TypeOK /\ Own
    BY DEF IInv
  <2> QED BY <1>1, <2>1, <2>2, PipelineInvariant, PTL DEF Spec
<1> QED BY <1>2, <1>3, PTL DEF Spec, OneBadTaskIsNotAnOutage

-----------------------------------------------------------------------------
(* With one character, a plan that is used up is not begun again.          *)

EntryOf(r) == <<Who(r), What(r)>>

\* The runs that have been taken and are not done with.
InWork == Members(retryQueue) \cup Members(failedNext) \cup IF AtWork THEN {run[1]} ELSE {}

\* The mark of an entry holds, and will not be lifted when it is looked at.
Held(e) == e \in exhausted /\ e[1] \notin renewed[e]
Liftable(e) == e \in exhausted /\ e[1] \in renewed[e]

\* An entry whose attempts are used up is marked.
SpentIsHeld == \A e \in spent : Held(e)

\* A scheduled run that is worked on, or waits for its next attempt, is still due.
StillDue ==
    mode = "scheduled" =>
        \A r \in InWork : r[2] = 0 /\ next[EntryOf(r)] = "past" /\ ~Liftable(EntryOf(r))

\* A step that makes no time future, and neither sets marks nor puts them off.
Gentle ==
    \A e \in Entries :
        /\ next'[e] = next[e] \/ next'[e] = "past"
        /\ e \in exhausted' => e \in exhausted
        /\ renewed'[e] \subseteq renewed[e]

\* A step that may change one entry only.
Only(x) ==
    \A e \in Entries \ {x} :
        next'[e] = next[e] /\ (e \in exhausted' <=> e \in exhausted) /\ renewed'[e] = renewed[e]

\* What is in work is a run, with an entry.
LEMMA InWorkTyped ==
    ASSUME TypeOK, Own
    PROVE  InWork \subseteq Runs /\ \A r \in InWork : EntryOf(r) \in Entries
<1>1. retryQueue \in Seq(Runs) /\ failedNext \in Seq(Runs)
  BY DEF TypeOK
<1>2. AtWork => run[1] \in Runs
  BY RunInHand
<1>3. InWork \subseteq Runs
  BY <1>1, <1>2, ListFacts DEF InWork
<1> QED BY <1>3, RunParts DEF EntryOf, Entries

\* What was due stays due in a gentle step.
LEMMA GentleKeepsDue ==
    ASSUME TypeOK, Own, StillDue, Gentle, InWork' \subseteq InWork, mode' = mode
    PROVE  StillDue'
<1> SUFFICES ASSUME mode' = "scheduled", NEW r \in InWork'
             PROVE  r[2] = 0 /\ next'[EntryOf(r)] = "past" /\ ~Liftable(EntryOf(r))'
  BY DEF StillDue, EntryOf, Who, What
<1>1. r \in InWork /\ EntryOf(r) \in Entries
  BY InWorkTyped
<1>2. r[2] = 0 /\ next[EntryOf(r)] = "past" /\ ~Liftable(EntryOf(r))
  BY <1>1 DEF StillDue
<1> QED BY <1>1, <1>2 DEF Gentle, Liftable

\* Dropping marks that may be lifted is gentle, and drops none of those that hold.
LEMMA DropsAreGentle ==
    ASSUME TypeOK, NEW c, Chars = {c}
    PROVE  \A keys \in {LiftedByLook, LiftedByCollect} :
               DropMarks(keys) /\ UNCHANGED <<next, spent>> =>
                   Gentle /\ (SpentIsHeld => SpentIsHeld')
<1> SUFFICES ASSUME NEW keys \in {LiftedByLook, LiftedByCollect}, DropMarks(keys),
                    UNCHANGED <<next, spent>>
             PROVE  Gentle /\ (SpentIsHeld => SpentIsHeld')
  OBVIOUS
<1>1. active = c /\ (\A e \in Entries : e[1] = c)
  BY DEF TypeOK, Entries
<1>2. keys \subseteq Entries /\ \A e \in keys : e \in exhausted /\ c \in renewed[e]
  BY <1>1 DEF LiftedByLook, LiftedByCollect, Lifted, TypeOK
<1>3. \A e \in Entries : renewed'[e] = IF e \in keys THEN {} ELSE renewed[e]
  BY DEF DropMarks
<1>4. exhausted' = exhausted \ keys
  BY DEF DropMarks
<1>5. Gentle
  BY <1>3, <1>4 DEF Gentle
<1>6. ASSUME SpentIsHeld PROVE SpentIsHeld'
  <2> SUFFICES ASSUME NEW e \in spent PROVE e \in exhausted' /\ e[1] \notin renewed'[e]
    BY DEF SpentIsHeld, Held
  <2>1. e \in Entries /\ e \in exhausted /\ c \notin renewed[e]
    BY <1>1, <1>6 DEF SpentIsHeld, Held, TypeOK
  <2>2. e \notin keys
    BY <1>2, <2>1
  <2> QED BY <1>1, <1>3, <1>4, <2>1, <2>2
<1> QED BY <1>5, <1>6

\* Entries that are marked, put off or set to a time: the others stay as they are.
LEMMA OnlyTheEntry ==
    ASSUME TypeOK, NEW c, Chars = {c}, NEW x \in Entries,
           UNCHANGED next \/ next' = [next EXCEPT ![x] = "future"],
           UNCHANGED marks \/ MarkExhausted(x) \/ (PutOff(x) /\ UNCHANGED exhausted)
    PROVE  Only(x)
<1>1. \A e \in Entries : e = <<c, e[2]>>
  BY DEF Entries
<1>2. \A e \in Entries \ {x} : e[2] # x[2]
  BY <1>1
<1>3. next \in [Entries -> {"past", "future"}] /\ renewed \in [Entries -> SUBSET Chars]
  BY DEF TypeOK
<1>4. \A e \in Entries \ {x} : next'[e] = next[e]
  BY <1>3
<1>5. \A e \in Entries \ {x} : (e \in exhausted' <=> e \in exhausted) /\ renewed'[e] = renewed[e]
  <2>1. CASE UNCHANGED marks
    BY <2>1 DEF marks
  <2>2. CASE MarkExhausted(x)
    BY <1>3, <2>2 DEF MarkExhausted
  <2>3. CASE PutOff(x) /\ UNCHANGED exhausted
    BY <1>2, <1>3, <2>3 DEF PutOff
  <2> QED BY <2>1, <2>2, <2>3
<1> QED BY <1>4, <1>5 DEF Only

\* What is held stays so in a step that changes another entry.
LEMMA OnlyKeepsHeld ==
    ASSUME TypeOK, NEW x \in Entries, Only(x), SpentIsHeld, spent' \subseteq spent \cup {x},
           x \in spent' => Held(x)'
    PROVE  SpentIsHeld'
<1> SUFFICES ASSUME NEW e \in spent' PROVE Held(e)'
  BY DEF SpentIsHeld
<1>1. CASE e = x
  BY <1>1
<1>2. CASE e # x
  <2>1. e \in spent /\ e \in Entries
    BY <1>2 DEF TypeOK
  <2> QED BY <1>2, <2>1 DEF SpentIsHeld, Held, Only
<1> QED BY <1>1, <1>2

\* The others in work stay due in a step that changes the entry of the run in hand.
LEMMA OnlyKeepsDue ==
    ASSUME TypeOK, Own, NEW c, Chars = {c}, pc = "task", StillDue, Only(Entry),
           InWork' \subseteq InWork \ {run[1]}, mode' = mode
    PROVE  StillDue'
<1> SUFFICES ASSUME mode' = "scheduled", NEW r \in InWork'
             PROVE  r[2] = 0 /\ next'[EntryOf(r)] = "past" /\ ~Liftable(EntryOf(r))'
  BY DEF StillDue, EntryOf, Who, What
<1>1. r \in InWork /\ r # run[1] /\ r \in Runs /\ EntryOf(r) \in Entries
  BY InWorkTyped
<1>2. run[1] \in InWork /\ run[1] \in Runs /\ active = Who(run[1])
  BY InWorkTyped DEF InWork, AtWork, Own
<1>3. r[2] = 0 /\ next[EntryOf(r)] = "past" /\ ~Liftable(EntryOf(r)) /\ run[1][2] = 0
  BY <1>1, <1>2 DEF StillDue
<1>4. \A s \in Runs : s = <<c, s[2], s[3]>>
  BY DEF Runs
<1>5. What(r) # What(run[1])
  <2>1. r = <<c, 0, r[3]>> /\ run[1] = <<c, 0, run[1][3]>>
    BY <1>1, <1>2, <1>3, <1>4
  <2> QED BY <1>1, <2>1 DEF What
<1>6. EntryOf(r) # Entry
  BY <1>5 DEF EntryOf, Entry, Task
<1> QED BY <1>1, <1>3, <1>6 DEF Only, Liftable

\* The step is one of those that leave the entries and marks to what they are, or to a gentle
\* change, or one of the outcomes.
LEMMA MarksStep ==
    ASSUME TypeOK, Own, NEW c, Chars = {c}, [Next]_vars, SpentIsHeld, ~Outcome
    PROVE  SpentIsHeld' /\ Gentle
<1>1. next \in [Entries -> {"past", "future"}] /\ renewed \in [Entries -> SUBSET Chars]
  BY DEF TypeOK
<1>2. CASE \/ \E list \in Explicit : BeginDirect(list)
           \/ Leave \/ TakeRetry \/ Pause \/ LoggedIn \/ LoginRaises \/ Close
           \/ UNCHANGED vars
  <2>1. UNCHANGED <<next, spent, exhausted, renewed>>
    BY <1>2 DEF BeginDirect, Begin, Leave, TakeRetry, Pause, LoggedIn, LoginRaises, Close,
                vars, plans, marks
  <2> QED BY <2>1 DEF SpentIsHeld, Held, Gentle
<1>3. CASE \/ Overview \/ BeginCycle \/ TakeFresh \/ NextRound \/ Complete
           \/ DeviceReady \/ DeviceCancelled \/ DeviceFails
  <2>1. /\ UNCHANGED <<next, spent>>
        /\ \/ UNCHANGED <<exhausted, renewed>>
           \/ \E keys \in {LiftedByLook, LiftedByCollect} : DropMarks(keys)
    BY <1>3 DEF Overview, BeginCycle, Begin, TakeFresh, NextRound, Complete, Collect,
        DeviceReady, DeviceCancelled, DeviceFails, marks, plans
  <2>2. CASE UNCHANGED <<exhausted, renewed>>
    BY <2>1, <2>2 DEF SpentIsHeld, Held, Gentle
  <2> QED BY <2>1, <2>2, DropsAreGentle
<1>4. CASE Activate \/ Stop \/ Recover
  <2>1. ClearMarks /\ UNCHANGED next
    BY <1>4 DEF Activate, Stop, Recover
  <2> QED BY <2>1 DEF ClearMarks, SpentIsHeld, Gentle
<1>5. ASSUME NEW entry \in Entries, UserResets(entry) PROVE SpentIsHeld' /\ Gentle
  <2>1. /\ UNCHANGED <<spent, exhausted>>
        /\ next' = [next EXCEPT ![entry] = "past"]
        /\ renewed' = [k \in Entries |->
               IF k[2] = entry[2] THEN renewed[k] \ {entry[1]} ELSE renewed[k]]
    BY <1>5 DEF UserResets
  <2>2. Gentle
    BY <1>1, <2>1 DEF Gentle
  <2> QED BY <2>1, <2>2 DEF Gentle, SpentIsHeld, Held, TypeOK
<1>6. ASSUME NEW entry \in Entries, Arrives(entry) PROVE SpentIsHeld' /\ Gentle
  <2>1. /\ UNCHANGED <<spent, exhausted, renewed>>
        /\ next' = [next EXCEPT ![entry] = "past"]
    BY <1>6 DEF Arrives, marks
  <2> QED BY <1>1, <2>1 DEF Gentle, SpentIsHeld, Held
<1> QED BY <1>2, <1>3, <1>4, <1>5, <1>6 DEF Next, User, Clock, Pipeline, Turn, Device

\* What is in work after a step that is no outcome was so before it, except a run that is taken.
LEMMA InWorkStep ==
    ASSUME IInv, [Next]_vars, ~Outcome, ~TakeFresh
    PROVE  InWork' = {} \/ (InWork' \subseteq InWork /\ mode' = mode)
<1>0. TypeOK /\ Own /\ retryQueue \in Seq(Runs) /\ failedNext \in Seq(Runs)
  BY DEF IInv, TypeOK
<1>1. CASE Quiet
  BY <1>1 DEF Quiet, local, InWork, AtWork
<1>2. CASE Returns
  BY <1>2, ListFacts DEF Returns, Return, InWork, AtWork
<1>3. CASE Begins
  BY <1>0, <1>3, ListFacts DEF Begins, InWork, AtWork, Own
<1>4. CASE Takes
  <2>1. TakeRetry
    <3>1. pc = "head" /\ pc' = "device"
      BY <1>4 DEF Takes
    <3> QED BY <3>1 DEF Next, User, Clock, Pipeline, Turn, Device, UserResets, Arrives,
            Overview, Activate, Stop, Recover, BeginCycle, BeginDirect, Begin, Leave, NextRound,
            Complete, DeviceReady, DeviceCancelled, DeviceFails, Pause, LoggedIn, LoginRaises,
            Close, Return, vars
  <2>2. /\ retryQueue # <<>> /\ retryQueue' = Tail(retryQueue) /\ run' = <<Head(retryQueue)>>
        /\ failedNext' = failedNext /\ mode' = mode
    BY <2>1 DEF TakeRetry
  <2>3. /\ Head(retryQueue) \in Members(retryQueue)
        /\ Members(Tail(retryQueue)) \subseteq Members(retryQueue)
    BY <1>0, <2>2, ListFacts
  <2> QED BY <2>2, <2>3 DEF InWork
<1>5. CASE Turns
  BY <1>5, ListFacts DEF Turns, InWork, AtWork
<1>6. CASE Completes
  BY <1>6 DEF Completes, local, InWork, AtWork
<1>7. CASE Notes
  BY <1>7 DEF Notes, InWork, AtWork
<1>8. CASE Ends
  <2>1. /\ pc = "task" /\ run[1] \in InWork /\ run[1] \in Runs
        /\ failedNext' = failedNext \/ failedNext' = Append(failedNext, run[1])
        /\ UNCHANGED <<retryQueue, mode>> /\ pc' \in {"head", "close"}
    BY <1>0, <1>8, RunInHand DEF Ends, InWork, AtWork
  <2>2. Members(Append(failedNext, run[1])) = Members(failedNext) \cup {run[1]}
    BY <1>0, <2>1, ListFacts
  <2> QED BY <2>1, <2>2 DEF InWork, AtWork
<1> QED BY <1>0, <1>1, <1>2, <1>3, <1>4, <1>5, <1>6, <1>7, <1>8, Steps

\* A run that is taken from what is due has not been used up, and its mark is gone.
LEMMA FreshIsDue ==
    ASSUME IInv, NEW c, Chars = {c}, SpentIsHeld, TakeFresh, mode = "scheduled"
    PROVE  /\ run' = <<FirstFresh>> /\ FirstFresh[2] = 0 /\ FirstFresh \in Runs
           /\ EntryOf(FirstFresh) \notin spent
           /\ next'[EntryOf(FirstFresh)] = "past" /\ EntryOf(FirstFresh) \notin exhausted'
           /\ InWork' \subseteq InWork \cup {FirstFresh} /\ mode' = mode
<1> DEFINE i == CHOOSE k \in Fresh : \A j \in Fresh : k <= j
           t == Order[i]
           e == <<c, t>>
<1>0. TypeOK /\ Own /\ active = c
  BY DEF IInv, TypeOK
<1>1. /\ Fresh # {} /\ run' = <<FirstFresh>> /\ Collect /\ retryQueue = <<>>
      /\ UNCHANGED <<next, spent, mode, retryQueue, failedNext>>
  BY DEF TakeFresh, plans, rounds
<1>2. FirstFresh \in Runs /\ round = 0
  BY <1>0, <1>1, FirstFreshFacts
<1>3. Collected = c
  BY <1>0, CollectedIsChar
<1>4. Offered = [k \in DOMAIN Order |-> <<c, 0, Order[k]>>]
  BY <1>3 DEF Offered
<1>5. i \in Fresh
  <2>1. DOMAIN Offered \in SUBSET Nat
    BY <1>4, OrderAssumption
  <2>2. Fresh \in SUBSET Nat
    BY <2>1 DEF Fresh
  <2> QED BY <1>1, <2>2, HasFirst
<1>6. i \in DOMAIN Order /\ i \in DueOf(c) /\ FirstFresh = <<c, 0, t>>
  BY <1>3, <1>4, <1>5 DEF Fresh, FirstFresh
<1> HIDE DEF i
<1>7. t \in Tasks /\ e \in Entries
  BY <1>6 DEF Tasks, Entries
<1>8. e \in on /\ next[e] = "past" /\ (e \in exhausted => c \in renewed[e])
  BY <1>6 DEF DueOf, DueEntry, Lifted
<1>9. EntryOf(FirstFresh) = e
  BY <1>6 DEF EntryOf, Who, What
<1>10. e \notin spent
  BY <1>8 DEF SpentIsHeld, Held
<1>11. c \in LookedAt
  <2>1. PICK k \in DOMAIN Queue : Queue[k] = c
    BY DEF Chars
  <2>2. Candidates # {} /\ Candidates \in SUBSET Nat
    <3>1. DueOf(Queue[k]) # {}
      BY <1>6, <2>1
    <3>2. DOMAIN Queue \in SUBSET Nat
      BY QueueAssumption
    <3> QED BY <3>1, <3>2 DEF Candidates
  <2>3. First \in Candidates
    BY <2>2, HasFirst DEF First
  <2>4. First \in DOMAIN Queue /\ Queue[First] = c /\ First \in Nat
    BY <2>2, <2>3 DEF Candidates, Chars
  <2>5. First <= First
    BY <2>4
  <2> QED BY <2>4, <2>5 DEF LookedAt
<1>12. e \notin exhausted'
  <2>1. DropMarks(LiftedByCollect)
    BY <1>1, <1>2 DEF Collect, Collecting
  <2>2. e \in exhausted => e \in LiftedByCollect
    BY <1>7, <1>8, <1>11 DEF LiftedByCollect, Lifted
  <2> QED BY <2>1, <2>2 DEF DropMarks
<1>13. InWork' \subseteq InWork \cup {FirstFresh}
  BY <1>1 DEF InWork
<1> QED BY <1>1, <1>2, <1>6, <1>8, <1>9, <1>10, <1>12, <1>13

\* An outcome puts the run off to its next attempt and leaves the marks alone, or is done with
\* the run and touches no entry but its own.
LEMMA OutcomeStep ==
    ASSUME IInv, NEW c, Chars = {c}, Outcome, ~Skipped, SpentIsHeld, StillDue
    PROVE  /\ SpentIsHeld' /\ mode' = mode
           /\ \/ UNCHANGED <<next, exhausted, renewed>> /\ InWork' \subseteq InWork
              \/ Only(Entry) /\ InWork' \subseteq InWork \ {run[1]}
<1>0. TypeOK /\ Own /\ pc = "task" /\ AtWork
  BY DEF IInv, Outcome, Skipped, Succeeds, Fails, TakenOver, Raises, AtWork
<1>1. /\ run[1] \in Runs /\ Entry \in Entries /\ Entry = EntryOf(run[1])
      /\ run[1] \notin Members(retryQueue) \cup Members(failedNext)
      /\ retryQueue \in Seq(Runs) /\ failedNext \in Seq(Runs) /\ run[1] \in InWork
      /\ next \in [Entries -> {"past", "future"}] /\ renewed \in [Entries -> SUBSET Chars]
      /\ exhausted \subseteq Entries /\ spent \subseteq Entries /\ active = c
  BY <1>0, RunInHand DEF Own, IInv, Apart, EntryOf, Entry, Task, TypeOK, InWork
<1>2. mode = "scheduled" => next[Entry] = "past" /\ ~Liftable(Entry)
  BY <1>1 DEF StillDue
<1>3. Entry[1] = c /\ <<c, Entry[2]>> = Entry
  BY <1>1 DEF Entry
<1>4. mode' = mode /\ retryQueue' = retryQueue /\ ~AtWork'
  BY <1>0 DEF Outcome, Skipped, Succeeds, Fails, TakenOver, Raises, AtWork
<1>5. failedNext' = failedNext => InWork' \subseteq InWork \ {run[1]}
  BY <1>1, <1>4 DEF InWork
<1>6. Defer => InWork' \subseteq InWork
  <2>1. Members(Append(failedNext, run[1])) = Members(failedNext) \cup {run[1]}
    BY <1>1, ListFacts
  <2> QED BY <1>1, <1>4, <2>1 DEF Defer, InWork
<1>7. ASSUME UNCHANGED <<next, marks, spent>>, Defer \/ failedNext' = failedNext
      PROVE  /\ SpentIsHeld'
             /\ UNCHANGED <<next, exhausted, renewed>> /\ InWork' \subseteq InWork
  BY <1>5, <1>6, <1>7 DEF SpentIsHeld, Held, marks
<1>8. ASSUME failedNext' = failedNext, spent' = spent \ {Entry},
             UNCHANGED next \/ next' = [next EXCEPT ![Entry] = "future"],
             UNCHANGED marks \/ (PutOff(Entry) /\ UNCHANGED exhausted)
      PROVE  SpentIsHeld' /\ Only(Entry) /\ InWork' \subseteq InWork \ {run[1]}
  <2>1. Only(Entry)
    BY <1>0, <1>1, <1>8, OnlyTheEntry
  <2> QED BY <1>0, <1>1, <1>5, <1>8, <2>1, OnlyKeepsHeld
<1>9. ASSUME failedNext' = failedNext, UNCHANGED next, mode = "scheduled", MarkExhausted(Entry),
             spent' = spent \/ (spent' = spent \cup {Entry} /\ ~cancel)
      PROVE  SpentIsHeld' /\ Only(Entry) /\ InWork' \subseteq InWork \ {run[1]}
  <2>1. Only(Entry)
    BY <1>0, <1>1, <1>9, OnlyTheEntry
  <2>2. Entry \in spent' => Entry \in exhausted' /\ c \notin renewed'[Entry]
    <3>1. CASE Entry \in exhausted
      BY <1>2, <1>3, <1>9, <3>1 DEF MarkExhausted, Liftable
    <3>2. CASE Entry \notin exhausted
      <4>1. Entry \notin spent
        BY <3>2 DEF SpentIsHeld, Held
      <4>2. SUFFICES ASSUME ~cancel PROVE Entry \in exhausted' /\ c \notin renewed'[Entry]
        BY <1>9, <4>1
      <4>3. /\ exhausted' = exhausted \cup {Entry}
            /\ renewed'[Entry] = {x \in Chars : next[<<x, Entry[2]>>] = "future"}
        BY <1>1, <1>9, <3>2, <4>2 DEF MarkExhausted
      <4> QED BY <1>2, <1>3, <1>9, <4>3
    <3> QED BY <3>1, <3>2
  <2> QED BY <1>0, <1>1, <1>3, <1>5, <1>9, <2>1, <2>2, OnlyKeepsHeld DEF Held
<1>10. CASE Succeeds
  <2>1. /\ failedNext' = failedNext /\ spent' = spent \ {Entry} /\ Rescheduled
    BY <1>10 DEF Succeeds
  <2>2. /\ UNCHANGED next \/ next' = [next EXCEPT ![Entry] = "future"]
        /\ UNCHANGED marks \/ (PutOff(Entry) /\ UNCHANGED exhausted)
    BY <2>1 DEF Rescheduled
  <2> QED BY <1>4, <1>8, <2>1, <2>2
<1>11. CASE Fails
  <2>1. UNCHANGED next
    BY <1>11 DEF Fails
  <2>2. \/ UNCHANGED <<marks, spent>> /\ (Defer \/ failedNext' = failedNext)
        \/ /\ mode = "scheduled" /\ MarkExhausted(Entry) /\ failedNext' = failedNext
           /\ spent' = spent \cup {Entry} /\ ~cancel
    BY <1>11 DEF Fails, LeaveToHuman, GiveUp, Marking
  <2> QED BY <1>4, <1>7, <1>9, <2>1, <2>2
<1>12. CASE TakenOver
  <2>1. \/ /\ Rescheduled /\ failedNext' = failedNext /\ spent' = spent \ {Entry}
        \/ /\ UNCHANGED <<next, spent>>
           /\ \/ UNCHANGED marks /\ (Defer \/ failedNext' = failedNext)
              \/ mode = "scheduled" /\ MarkExhausted(Entry) /\ failedNext' = failedNext
    BY <1>12 DEF TakenOver, LeaveToHuman, GiveUp, Marking
  <2>2. Rescheduled => /\ UNCHANGED next \/ next' = [next EXCEPT ![Entry] = "future"]
                       /\ UNCHANGED marks \/ (PutOff(Entry) /\ UNCHANGED exhausted)
    BY DEF Rescheduled
  <2> QED BY <1>4, <1>7, <1>8, <1>9, <2>1, <2>2
<1>13. CASE Raises
  <2>1. UNCHANGED next
    BY <1>13 DEF Raises
  <2>2. \/ UNCHANGED <<marks, spent>> /\ (Defer \/ failedNext' = failedNext)
        \/ /\ mode = "scheduled" /\ MarkExhausted(Entry) /\ failedNext' = failedNext
           /\ spent' = spent \cup {Entry} /\ ~cancel
    BY <1>13 DEF Raises, GiveUp, Marking
  <2> QED BY <1>4, <1>7, <1>9, <2>1, <2>2
<1> QED BY <1>10, <1>11, <1>12, <1>13 DEF Outcome

\* With one character, what is used up is skipped by every further cycle until it has been put
\* off: neither a look at the marks nor a user's new time lifts the mark (_is_retry_exhausted).
\* With two, a look on behalf of the other lifts it.
THEOREM SamePlanIsSkipped ==
    ASSUME NEW c, Chars = {c}
    PROVE  Spec => SamePlanSkipped
<1>1. Init => SpentIsHeld /\ StillDue
  <2> SUFFICES ASSUME Init PROVE SpentIsHeld /\ StillDue
    OBVIOUS
  <2>1. InWork = {}
    BY ListFacts DEF Init, InWork, AtWork
  <2> QED BY <2>1 DEF Init, SpentIsHeld, StillDue
<1>2. IInv /\ IInv' /\ SpentIsHeld /\ StillDue /\ [Next]_vars => SpentIsHeld' /\ StillDue'
  <2> SUFFICES ASSUME IInv, IInv', SpentIsHeld, StillDue, [Next]_vars
               PROVE  SpentIsHeld' /\ StillDue'
    OBVIOUS
  <2>0. TypeOK /\ Own
    BY DEF IInv
  <2>1. CASE Skipped
    <3>1. UNCHANGED <<next, exhausted, renewed, spent, mode, retryQueue, failedNext>> /\ ~AtWork'
      BY <2>1 DEF Skipped, plans, marks, rounds, AtWork
    <3>2. InWork' \subseteq InWork
      BY <3>1 DEF InWork
    <3>3. Gentle /\ SpentIsHeld'
      BY <3>1 DEF Gentle, SpentIsHeld, Held
    <3> QED BY <2>0, <3>1, <3>2, <3>3, GentleKeepsDue
  <2>2. CASE Outcome /\ ~Skipped
    <3>1. CASE UNCHANGED <<next, exhausted, renewed>> /\ InWork' \subseteq InWork
      <4>1. Gentle
        BY <3>1 DEF Gentle
      <4> QED BY <2>0, <2>2, <3>1, <4>1, OutcomeStep, GentleKeepsDue
    <3>2. CASE Only(Entry) /\ InWork' \subseteq InWork \ {run[1]}
      <4>1. pc = "task"
        BY <2>2 DEF Outcome, Skipped, Succeeds, Fails, TakenOver, Raises
      <4> QED BY <2>0, <2>2, <3>2, <4>1, OutcomeStep, OnlyKeepsDue
    <3> QED BY <2>2, <3>1, <3>2, OutcomeStep
  <2>3. CASE ~Outcome /\ ~TakeFresh
    <3>1. SpentIsHeld' /\ Gentle
      BY <2>0, <2>3, MarksStep
    <3>2. CASE InWork' = {}
      BY <3>1, <3>2 DEF StillDue
    <3> QED BY <2>0, <2>3, <3>1, <3>2, InWorkStep, GentleKeepsDue
  <2>4. CASE TakeFresh /\ ~Outcome
    <3>1. SpentIsHeld' /\ Gentle
      BY <2>0, <2>4, MarksStep
    <3>2. mode' = mode
      BY <2>4 DEF TakeFresh
    <3>3. CASE mode # "scheduled"
      BY <3>1, <3>2, <3>3 DEF StillDue
    <3>4. CASE mode = "scheduled"
      <4>1. /\ FirstFresh[2] = 0 /\ FirstFresh \in Runs
            /\ next'[EntryOf(FirstFresh)] = "past" /\ EntryOf(FirstFresh) \notin exhausted'
            /\ InWork' \subseteq InWork \cup {FirstFresh}
        BY <2>4, <3>4, FreshIsDue
      <4>2. \A r \in InWork : /\ r[2] = 0 /\ next[EntryOf(r)] = "past" /\ ~Liftable(EntryOf(r))
                              /\ EntryOf(r) \in Entries
        BY <2>0, <3>4, InWorkTyped DEF StillDue
      <4>3. \A r \in InWork : r[2] = 0 /\ next'[EntryOf(r)] = "past" /\ ~Liftable(EntryOf(r))'
        BY <3>1, <4>2 DEF Gentle, Liftable
      <4>4. ASSUME NEW r \in InWork'
            PROVE  r[2] = 0 /\ next'[EntryOf(r)] = "past" /\ ~Liftable(EntryOf(r))'
        <5>1. CASE r \in InWork
          BY <4>3, <5>1
        <5>2. CASE r = FirstFresh
          BY <4>1, <5>2 DEF Liftable
        <5> QED BY <4>1, <5>1, <5>2
      <4> QED BY <3>1, <4>4 DEF StillDue, EntryOf, Who, What
    <3> QED BY <3>3, <3>4, <3>1
  <2> QED BY <2>1, <2>2, <2>3, <2>4
<1>3. IInv /\ SpentIsHeld /\ [Next]_vars
        => [TakeFresh /\ mode = "scheduled" => <<Who(run'[1]), What(run'[1])>> \notin spent]_vars
  <2> SUFFICES ASSUME IInv, SpentIsHeld, TakeFresh, mode = "scheduled"
               PROVE  <<Who(run'[1]), What(run'[1])>> \notin spent
    OBVIOUS
  <2>1. run' = <<FirstFresh>> /\ EntryOf(FirstFresh) \notin spent
    BY FreshIsDue
  <2> QED BY <2>1 DEF EntryOf
<1> QED BY <1>1, <1>2, <1>3, PipelineInvariant, PTL DEF Spec, SamePlanSkipped
=============================================================================
