--------------------------- MODULE DeliveryProofs ---------------------------
(***************************************************************************)
(* The notifier, for every set of messages and every capacity of its       *)
(* queue: none is stranded, none arrives twice or out of order, and        *)
(* it does step by step what an Outbox may do.  The reports of a pipeline, *)
(* for every queue of characters, every set of tasks and every number of   *)
(* attempts: what has been told is so, of all of it, and once.  And the    *)
(* recorder, for every number of segments kept: its list is the newest of  *)
(* what was got going, and the device has little more than the list.       *)
(***************************************************************************)
EXTENDS MCDelivery, FiniteSetTheorems, WellFoundedInduction, TLAPS

\* Messages are numbers from 1; the queue may have no room at all.
Numbered == Messages \subseteq Nat \ {0} /\ Capacity \in Nat

Increasing(s) == \A i, j \in 1..Len(s) : i < j => s[i] < s[j]
Below(s, m) == \A i \in 1..Len(s) : s[i] < m
In(m, s) == \E i \in 1..Len(s) : s[i] = m

\* A message passes from the fresh ones through the queue and the hand to the robot, and none
\* overtakes another.
Ordered ==
    /\ Increasing(pending) /\ Increasing(received)
    /\ \A j \in 1..Len(pending) : Below(received, pending[j]) /\ hand < pending[j]
    /\ worker = "send" => Below(received, hand)
    /\ worker = "record" => \A i \in 1..Len(received) : received[i] <= hand
    /\ \A m \in fresh : Below(pending, m) /\ Below(received, m) /\ hand < m /\ turned < m

\* Every message is in one place: fresh, turned down, queued, in hand, or judged.
OnePlace ==
    /\ worker = "record" => verdict # "none"
    /\ \A m \in Messages : log[m] # "none" =>
          m \notin fresh /\ m # hand /\ m # turned /\ ~In(m, pending)
    /\ turned # 0 => turned # hand /\ ~In(turned, pending)
    /\ \A m \in Messages : m \in fresh \/ log[m] # "none" \/ m = turned \/ m = hand
         \/ In(m, pending)

\* The inductive invariant.
OutboxIInv == Notifier!TypeOK /\ Notifier!NotStranded /\ Ordered /\ OnePlace

\* What Append does to a sequence of messages.
LEMMA Appended ==
    ASSUME NEW s \in Seq(Messages), NEW m \in Messages
    PROVE  /\ Append(s, m) \in Seq(Messages)
           /\ Len(Append(s, m)) = Len(s) + 1
           /\ Len(s) \in Nat
           /\ \A i \in 1..Len(s) : Append(s, m)[i] = s[i] /\ s[i] \in Messages
           /\ Append(s, m)[Len(s) + 1] = m
OBVIOUS

\* What Head and Tail do.
LEMMA Taken ==
    ASSUME NEW s \in Seq(Messages), s # <<>>
    PROVE  /\ Tail(s) \in Seq(Messages)
           /\ Len(s) \in Nat /\ Len(s) > 0
           /\ Len(Tail(s)) = Len(s) - 1
           /\ \A i \in 1..(Len(s) - 1) : Tail(s)[i] = s[i + 1]
           /\ Head(s) = s[1] /\ s[1] \in Messages
           /\ \A i \in 1..Len(s) : s[i] \in Messages
OBVIOUS

\* An increasing sequence of messages stays so with one more at its end.
LEMMA IncreasingAppended ==
    ASSUME Numbered, NEW s \in Seq(Messages), NEW m \in Messages, Increasing(s), Below(s, m)
    PROVE  Increasing(Append(s, m))
<1> DEFINE a == Append(s, m)
<1>1. ASSUME NEW i \in 1..Len(a), NEW j \in 1..Len(a), i < j PROVE a[i] < a[j]
  <2>1. i \in 1..Len(s) /\ a[i] = s[i]
    BY <1>1, Appended
  <2>2. CASE j \in 1..Len(s)
    BY <1>1, <2>1, <2>2, Appended DEF Increasing
  <2>3. CASE j = Len(s) + 1
    BY <2>1, <2>3, Appended DEF Below
  <2> QED BY <2>2, <2>3, Appended
<1> QED BY <1>1 DEF Increasing

\* ... and below whatever it was below, if the new one is.
LEMMA BelowAppended ==
    ASSUME Numbered, NEW s \in Seq(Messages), NEW m \in Messages, NEW n \in Messages,
           Below(s, n), m < n
    PROVE  Below(Append(s, m), n)
<1> DEFINE a == Append(s, m)
<1>1. ASSUME NEW i \in 1..Len(a) PROVE a[i] < n
  <2>1. CASE i \in 1..Len(s)
    BY <2>1, Appended DEF Below
  <2>2. CASE i = Len(s) + 1
    BY <2>2, Appended
  <2> QED BY <2>1, <2>2, Appended
<1> QED BY <1>1 DEF Below

\* The rest of an increasing sequence lies above its head.
LEMMA IncreasingTail ==
    ASSUME Numbered, NEW s \in Seq(Messages), s # <<>>, Increasing(s)
    PROVE  /\ Increasing(Tail(s))
           /\ \A i \in 1..Len(Tail(s)) : Head(s) < Tail(s)[i]
BY Taken DEF Increasing

\* A message is in a sequence with one more if it is in it or is that one, ...
LEMMA InAppended ==
    ASSUME NEW s \in Seq(Messages), NEW m \in Messages, NEW n \in Messages
    PROVE  In(n, Append(s, m)) <=> In(n, s) \/ n = m
<1>1. ASSUME In(n, Append(s, m)) PROVE In(n, s) \/ n = m
  BY <1>1, Appended DEF In
<1>2. ASSUME In(n, s) PROVE In(n, Append(s, m))
  BY <1>2, Appended DEF In
<1>3. In(m, Append(s, m))
  <2>1. Len(s) + 1 \in 1..Len(Append(s, m))
    BY Appended
  <2> QED BY <2>1, Appended DEF In
<1> QED BY <1>1, <1>2, <1>3

\* ... and is in one that has lost its head if it was in it and is not that head.
LEMMA InTail ==
    ASSUME Numbered, NEW s \in Seq(Messages), s # <<>>, Increasing(s), NEW n \in Messages
    PROVE  In(n, Tail(s)) <=> In(n, s) /\ n # Head(s)
<1>1. ASSUME In(n, Tail(s)) PROVE In(n, s) /\ n # Head(s)
  <2>1. PICK i \in 1..Len(Tail(s)) : Tail(s)[i] = n
    BY <1>1 DEF In
  <2>2. i + 1 \in 1..Len(s) /\ s[i + 1] = n
    BY <2>1, Taken
  <2>3. Head(s) < n
    BY <2>1, IncreasingTail
  <2> QED BY <2>2, <2>3, Taken DEF In, Numbered
<1>2. ASSUME In(n, s), n # Head(s) PROVE In(n, Tail(s))
  <2>1. PICK i \in 1..Len(s) : s[i] = n
    BY <1>2 DEF In
  <2>2. i # 1
    BY <1>2, <2>1, Taken
  <2>3. i - 1 \in 1..Len(Tail(s)) /\ Tail(s)[i - 1] = n
    BY <2>1, <2>2, Taken
  <2> QED BY <2>3 DEF In
<1> QED BY <1>1, <1>2

\* In the beginning all messages are fresh.
LEMMA InitIInv == Numbered /\ Notifier!Init => OutboxIInv
BY DEF Numbered, Notifier!Init, OutboxIInv, Notifier!TypeOK, Notifier!NotStranded, Ordered,
    OnePlace, Increasing, Below, In

\* The types and the worker of the queue are kept.
LEMMA TypesKept == Numbered /\ OutboxIInv /\ [Notifier!Next]_(Notifier!vars)
    => (Notifier!TypeOK /\ Notifier!NotStranded)'
<1> SUFFICES ASSUME Numbered, OutboxIInv, [Notifier!Next]_(Notifier!vars)
            PROVE (Notifier!TypeOK /\ Notifier!NotStranded)'
  OBVIOUS
<1> USE DEF OutboxIInv, Notifier!TypeOK, Notifier!NotStranded
<1>0. 0 \notin Messages
  BY DEF Numbered
<1>1. ASSUME NEW m \in Messages, Notifier!Submit(m) PROVE (Notifier!TypeOK /\ Notifier!NotStranded)'
  <2>1. /\ pending' \in Seq(Messages) /\ Len(pending') = Len(pending) + 1
        /\ Len(pending') <= Capacity
    BY <1>1, Appended DEF Notifier!Submit, Numbered
  <2> QED BY <1>0, <1>1, <2>1 DEF Notifier!Submit
<1>2. ASSUME NEW m \in Messages, Notifier!TurnDown(m)
            PROVE (Notifier!TypeOK /\ Notifier!NotStranded)'
  BY <1>2 DEF Notifier!TurnDown
<1>3. CASE Notifier!RecordRefusal
  BY <1>3 DEF Notifier!RecordRefusal
<1>4. CASE Notifier!Take
  <2>1. CASE pending = <<>>
    BY <1>4, <2>1 DEF Notifier!Take
  <2>2. CASE pending # <<>>
    <3>1. /\ worker = "take" /\ worker' = "send" /\ hand' = Head(pending)
          /\ pending' = Tail(pending)
          /\ UNCHANGED <<fresh, verdict, turned, received, log, test>>
      BY <1>4, <2>2 DEF Notifier!Take
    <3>2. pending' \in Seq(Messages) /\ hand' \in Messages
      BY <2>2, <3>1, Taken
    <3>3. Len(pending') <= Capacity
      <4>1. Len(pending) \in Nat /\ Len(pending') = Len(pending) - 1 /\ Len(pending) <= Capacity
        BY <2>2, <3>1, Taken
      <4> QED BY <4>1 DEF Numbered
    <3> QED BY <1>0, <3>1, <3>2, <3>3
  <2> QED BY <2>1, <2>2
<1>5. CASE Notifier!Send
  <2>1. Append(received, hand) \in Seq(Messages)
    BY <1>5, Appended DEF Notifier!Send
  <2> QED BY <1>5, <2>1 DEF Notifier!Send
<1>6. CASE Notifier!Record
  BY <1>0, <1>6 DEF Notifier!Record
<1>7. CASE Notifier!SendTest \/ Notifier!TestSent
  BY <1>7 DEF Notifier!SendTest, Notifier!TestSent
<1>8. CASE UNCHANGED Notifier!vars
  BY <1>8 DEF Notifier!vars
<1> QED BY <1>1, <1>2, <1>3, <1>4, <1>5, <1>6, <1>7, <1>8 DEF Notifier!Next

\* No message overtakes another.
LEMMA OrderKept == Numbered /\ OutboxIInv /\ [Notifier!Next]_(Notifier!vars) => Ordered'
<1> SUFFICES ASSUME Numbered, OutboxIInv, [Notifier!Next]_(Notifier!vars) PROVE Ordered'
  OBVIOUS
<1> USE DEF OutboxIInv, Notifier!TypeOK, Numbered
<1>1. ASSUME NEW m \in Messages, Notifier!Submit(m) PROVE Ordered'
  <2>1. /\ Below(pending, m) /\ Below(received, m) /\ hand < m /\ m \in fresh
        /\ \A n \in fresh' : m < n /\ n \in fresh /\ n \in Messages
    BY <1>1 DEF Notifier!Submit, Notifier!Oldest, Ordered
  <2>2. Increasing(pending')
    BY <1>1, <2>1, IncreasingAppended DEF Notifier!Submit, Ordered
  <2>3. ASSUME NEW j \in 1..Len(pending') PROVE Below(received', pending'[j]) /\ hand' < pending'[j]
    <3>1. CASE j \in 1..Len(pending)
      BY <1>1, <3>1, Appended DEF Notifier!Submit, Ordered
    <3>2. CASE j = Len(pending) + 1
      BY <1>1, <2>1, <3>2, Appended DEF Notifier!Submit
    <3> QED BY <1>1, <3>1, <3>2, Appended DEF Notifier!Submit
  <2>4. ASSUME NEW n \in fresh'
        PROVE  Below(pending', n) /\ Below(received', n) /\ hand' < n /\ turned' < n
    BY <1>1, <2>1, <2>4, BelowAppended DEF Notifier!Submit, Ordered
  <2> QED BY <1>1, <2>2, <2>3, <2>4 DEF Notifier!Submit, Ordered
<1>2. ASSUME NEW m \in Messages, Notifier!TurnDown(m) PROVE Ordered'
  <2>1. \A n \in fresh' : m < n /\ n \in fresh
    BY <1>2 DEF Notifier!TurnDown, Notifier!Oldest
  <2> QED BY <1>2, <2>1 DEF Notifier!TurnDown, Ordered
<1>3. CASE Notifier!RecordRefusal
  BY <1>3 DEF Notifier!RecordRefusal, Ordered
<1>4. CASE Notifier!Take
  <2>1. CASE pending = <<>>
    BY <1>4, <2>1 DEF Notifier!Take, Ordered
  <2>2. CASE pending # <<>>
    <3>1. /\ worker' = "send" /\ hand' = Head(pending) /\ pending' = Tail(pending)
          /\ UNCHANGED <<fresh, received, turned>>
      BY <1>4, <2>2 DEF Notifier!Take
    <3>2. /\ Increasing(pending')
          /\ \A j \in 1..Len(pending') : hand' < pending'[j]
      BY <2>2, <3>1, IncreasingTail DEF Ordered
    <3>3. \A j \in 1..Len(pending') : j + 1 \in 1..Len(pending) /\ pending'[j] = pending[j + 1]
      BY <2>2, <3>1, Taken
    <3>4. 1 \in 1..Len(pending) /\ hand' = pending[1]
      BY <2>2, <3>1, Taken
    <3>5. Below(received', hand') /\ \A n \in fresh' : hand' < n
      BY <3>1, <3>4 DEF Ordered, Below
    <3>6. \A j \in 1..Len(pending') : Below(received', pending'[j])
      BY <3>1, <3>3 DEF Ordered
    <3>7. \A n \in fresh' : Below(pending', n)
      BY <3>1, <3>3 DEF Ordered, Below
    <3> QED BY <3>1, <3>2, <3>5, <3>6, <3>7 DEF Ordered
  <2> QED BY <2>1, <2>2
<1>5. CASE Notifier!Send
  <2>1. hand \in Messages /\ Below(received, hand)
    BY <1>5 DEF Notifier!Send, Ordered
  <2>2. CASE received' = received
    BY <1>5, <2>1, <2>2, SMTT(60) DEF Notifier!Send, Ordered, Below
  <2>3. CASE received' = Append(received, hand)
    <3>1. Increasing(received')
      BY <2>1, <2>3, IncreasingAppended DEF Ordered
    <3>2. ASSUME NEW i \in 1..Len(received') PROVE received'[i] <= hand
      <4>1. CASE i \in 1..Len(received)
        <5>1. received'[i] = received[i] /\ received[i] \in Messages
          BY <2>1, <2>3, <4>1, Appended
        <5>2. received[i] < hand
          BY <2>1, <4>1 DEF Below
        <5>3. received[i] \in Nat /\ hand \in Nat
          BY <2>1, <5>1
        <5> QED BY <5>1, <5>2, <5>3
      <4>2. CASE i = Len(received) + 1
        BY <2>1, <2>3, <4>2, Appended
      <4> QED BY <2>1, <2>3, <3>2, <4>1, <4>2, Appended
    <3>3. \A n \in Messages : Below(received, n) /\ hand < n => Below(received', n)
      BY <2>1, <2>3, BelowAppended
    <3>4. \A j \in 1..Len(pending) : pending[j] \in Messages
      OBVIOUS
    <3> QED BY <1>5, <3>1, <3>2, <3>3, <3>4 DEF Notifier!Send, Ordered
  <2> QED BY <1>5, <2>2, <2>3 DEF Notifier!Send
<1>6. CASE Notifier!Record
  <2>1. /\ worker = "record" /\ worker' = "take" /\ hand' = 0
        /\ UNCHANGED <<fresh, pending, turned, received>>
    BY <1>6 DEF Notifier!Record
  <2>2. \A m \in Messages : 0 < m
    OBVIOUS
  <2>3. \A j \in 1..Len(pending) : pending[j] \in Messages
    OBVIOUS
  <2> QED BY <2>1, <2>2, <2>3 DEF Ordered
<1>7. CASE Notifier!SendTest \/ Notifier!TestSent
  BY <1>7 DEF Notifier!SendTest, Notifier!TestSent, Ordered
<1>8. CASE UNCHANGED Notifier!vars
  BY <1>8 DEF Notifier!vars, Ordered
<1> QED BY <1>1, <1>2, <1>3, <1>4, <1>5, <1>6, <1>7, <1>8 DEF Notifier!Next

\* A message stays in one place.
LEMMA PlaceKept == Numbered /\ OutboxIInv /\ [Notifier!Next]_(Notifier!vars) => OnePlace'
<1> SUFFICES ASSUME Numbered, OutboxIInv, [Notifier!Next]_(Notifier!vars) PROVE OnePlace'
  OBVIOUS
<1> USE DEF OutboxIInv, Notifier!TypeOK, Numbered
<1>0. /\ \A m \in fresh : m # hand /\ m # turned /\ ~In(m, pending)
      /\ hand # 0 => ~In(hand, pending)
  <2>1. \A m \in fresh : m \in Nat /\ hand < m /\ turned < m /\ Below(pending, m)
    BY DEF Ordered
  <2>2. \A j \in 1..Len(pending) : pending[j] \in Messages /\ hand < pending[j]
    <3>1. \A j \in 1..Len(pending) : pending[j] \in Messages
      OBVIOUS
    <3> QED BY <3>1 DEF Ordered
  <2> QED BY <2>1, <2>2 DEF In, Below
<1>1. ASSUME NEW m \in Messages, Notifier!Submit(m) PROVE OnePlace'
  <2>1. \A n \in Messages : In(n, pending') <=> In(n, pending) \/ n = m
    BY <1>1, InAppended DEF Notifier!Submit
  <2> QED BY <1>0, <1>1, <2>1 DEF Notifier!Submit, Notifier!Oldest, OnePlace
<1>2. ASSUME NEW m \in Messages, Notifier!TurnDown(m) PROVE OnePlace'
  BY <1>0, <1>2 DEF Notifier!TurnDown, Notifier!Oldest, OnePlace
<1>3. CASE Notifier!RecordRefusal
  BY <1>0, <1>3 DEF Notifier!RecordRefusal, OnePlace
<1>4. CASE Notifier!Take
  <2>1. CASE pending = <<>>
    BY <1>4, <2>1 DEF Notifier!Take, OnePlace
  <2>2. CASE pending # <<>>
    <3>1. /\ worker' = "send" /\ hand' = Head(pending) /\ pending' = Tail(pending) /\ hand = 0
          /\ UNCHANGED <<fresh, log, turned, verdict>>
      BY <1>4, <2>2 DEF Notifier!Take
    <3>2. \A n \in Messages : In(n, pending') <=> In(n, pending) /\ n # hand'
      BY <2>2, <3>1, InTail DEF Ordered
    <3>3. hand' \in Messages /\ In(hand', pending)
      BY <2>2, <3>1, Taken DEF In
    <3> QED BY <3>1, <3>2, <3>3 DEF OnePlace
  <2> QED BY <2>1, <2>2
<1>5. CASE Notifier!Send
  BY <1>5 DEF Notifier!Send, OnePlace
<1>6. CASE Notifier!Record
  BY <1>0, <1>6 DEF Notifier!Record, OnePlace
<1>7. CASE Notifier!SendTest \/ Notifier!TestSent
  BY <1>7 DEF Notifier!SendTest, Notifier!TestSent, OnePlace
<1>8. CASE UNCHANGED Notifier!vars
  BY <1>8 DEF Notifier!vars, OnePlace
<1> QED BY <1>1, <1>2, <1>3, <1>4, <1>5, <1>6, <1>7, <1>8 DEF Notifier!Next

\* The inductive invariant holds of every behaviour.
THEOREM OutboxInvariant == Numbered => (Notifier!Spec => []OutboxIInv)
<1>1. Numbered /\ OutboxIInv /\ [Notifier!Next]_(Notifier!vars) => OutboxIInv'
  BY TypesKept, OrderKept, PlaceKept DEF OutboxIInv
<1> SUFFICES ASSUME Numbered PROVE Notifier!Spec => []OutboxIInv
  OBVIOUS
<1>2. Notifier!Init => OutboxIInv
  BY InitIInv
<1>3. OutboxIInv /\ [Notifier!Next]_(Notifier!vars) => OutboxIInv'
  BY <1>1
<1> QED BY <1>2, <1>3, PTL DEF Notifier!Spec

\* Types; whatever is queued has a worker; the robot gets each message at most once, in order.
THEOREM OutboxServed == Numbered => (Notifier!Spec => []OutboxIsServed)
<1> SUFFICES ASSUME Numbered PROVE Notifier!Spec => []OutboxIsServed
  OBVIOUS
<1>1. OutboxIInv => OutboxIsServed
  BY DEF OutboxIInv, OutboxIsServed, Notifier!OutboxIsServed, Ordered, Increasing,
      Notifier!OnceInOrder
<1>2. Notifier!Spec => []OutboxIInv
  BY OutboxInvariant
<1> QED BY <1>1, <1>2, PTL

-----------------------------------------------------------------------------
(* The refinement: what has become of the messages, seen from outside, goes   *)
(* the way an Outbox goes.                                                    *)

\* The statuses of all the messages, as the Outbox sees them.
Statuses == [m \in Messages |-> Notifier!Status(m)]

\* A message is in one place only, ...
LEMMA OnePlaceOnly ==
    ASSUME Numbered, OutboxIInv, NEW m \in Messages
    PROVE  /\ m \in fresh => log[m] = "none" /\ m # hand /\ m # turned /\ ~In(m, pending)
           /\ log[m] # "none" => m # hand /\ m # turned /\ ~In(m, pending)
           /\ m = turned => m # hand /\ ~In(m, pending)
           /\ m = hand => ~In(m, pending) /\ worker \in {"send", "record"}
           /\ worker = "record" => verdict \in {"sent", "failed"}
           /\ log[m] \in {"none", "sent", "failed", "refused"}
<1> USE DEF OutboxIInv, Notifier!TypeOK, OnePlace, Numbered
<1>1. m \in fresh => m # hand /\ m # turned /\ ~In(m, pending)
  BY DEF Ordered, Below, In
<1>2. m = hand => ~In(m, pending)
  <2>1. \A j \in 1..Len(pending) : pending[j] \in Messages
    OBVIOUS
  <2> QED BY <2>1 DEF Ordered, In
<1>3. m # 0
  OBVIOUS
<1> QED BY <1>1, <1>2, <1>3

\* ... and that is what its status says.
LEMMA StatusIs ==
    ASSUME Numbered, OutboxIInv, NEW m \in Messages
    PROVE  /\ Statuses[m] = Notifier!Status(m)
           /\ m \in fresh => Notifier!Status(m) = "new"
           /\ log[m] # "none" => Notifier!Status(m) = log[m]
           /\ m = turned => Notifier!Status(m) = "refused"
           /\ m = hand /\ worker = "record" => Notifier!Status(m) = verdict
           /\ In(m, pending) \/ (m = hand /\ worker = "send") => Notifier!Status(m) = "queued"
           /\ \/ m \in fresh \/ log[m] # "none" \/ m = turned \/ (m = hand /\ worker = "record")
              \/ In(m, pending) \/ (m = hand /\ worker = "send")
<1>1. Statuses[m] = Notifier!Status(m)
  BY DEF Statuses
<1>2. m \in fresh \/ log[m] # "none" \/ m = turned \/ m = hand \/ In(m, pending)
  BY DEF OutboxIInv, OnePlace
<1>3. /\ m \in fresh => log[m] = "none" /\ m # hand /\ m # turned /\ ~In(m, pending)
      /\ log[m] # "none" => m # hand /\ m # turned /\ ~In(m, pending)
      /\ m = turned => m # hand /\ ~In(m, pending)
      /\ m = hand => ~In(m, pending) /\ worker \in {"send", "record"}
  BY OnePlaceOnly
<1>4. m \in fresh => Notifier!Status(m) = "new"
  BY <1>3 DEF Notifier!Status
<1>5. log[m] # "none" => Notifier!Status(m) = log[m]
  BY <1>3 DEF Notifier!Status
<1>6. m = turned => Notifier!Status(m) = "refused"
  BY <1>3 DEF Notifier!Status
<1>7. m = hand /\ worker = "record" => Notifier!Status(m) = verdict
  BY <1>3 DEF Notifier!Status
<1>8. In(m, pending) \/ (m = hand /\ worker = "send") => Notifier!Status(m) = "queued"
  BY <1>3 DEF Notifier!Status
<1>9. m = hand => worker = "record" \/ worker = "send"
  BY <1>3
<1> QED BY <1>1, <1>2, <1>4, <1>5, <1>6, <1>7, <1>8, <1>9

\* In the beginning every message is new.
LEMMA InitMaps == Numbered /\ Notifier!Init => Notifier!Outbox!Init
<1> SUFFICES ASSUME Numbered, Notifier!Init PROVE Notifier!Outbox!Init
  OBVIOUS
<1>1. ASSUME NEW m \in Messages PROVE Notifier!Status(m) = "new"
  <2>1. m \in fresh /\ log[m] = "none" /\ turned # m /\ worker # "record"
    BY <1>1 DEF Notifier!Init, Numbered
  <2> QED BY <2>1 DEF Notifier!Status
<1> QED BY <1>1 DEF Notifier!Outbox!Init

\* A step that gives one message another status changes only that of the function.
LEMMA OneChanges ==
    ASSUME NEW m \in Messages, NEW v, Statuses'[m] = v,
           \A n \in Messages \ {m} : Statuses'[n] = Statuses[n]
    PROVE  Statuses' = [Statuses EXCEPT ![m] = v]
<1>1. Statuses' = [n \in Messages |-> Statuses'[n]] /\ DOMAIN Statuses = Messages
  BY DEF Statuses
<1> QED BY <1>1

\* Every step takes a new message, attempts the oldest that is queued, or changes nothing
\* that can be seen.
LEMMA StepMaps == Numbered /\ OutboxIInv /\ OutboxIInv' /\ [Notifier!Next]_(Notifier!vars)
    => [Notifier!Outbox!Next]_Statuses
<1> SUFFICES ASSUME Numbered, OutboxIInv, OutboxIInv', [Notifier!Next]_(Notifier!vars)
            PROVE [Notifier!Outbox!Next]_Statuses
  OBVIOUS
<1> USE DEF Numbered
<1>0. Notifier!TypeOK /\ \A n \in Messages : n # 0 /\ log[n] \in {"none", "sent", "failed",
      "refused"}
  BY DEF OutboxIInv, Notifier!TypeOK
<1>a. ASSUME \A n \in Messages : Notifier!Status(n)' = Notifier!Status(n) PROVE UNCHANGED Statuses
  BY <1>a DEF Statuses
<1>1. ASSUME NEW m \in Messages, Notifier!Submit(m) PROVE Notifier!Outbox!Take(m)
  <2>1. Notifier!Status(m) = "new" /\ Statuses[m] = "new"
    BY <1>1, StatusIs DEF Notifier!Submit, Notifier!Oldest
  <2>2. log[m] = "none" /\ m # turned
    BY <1>1, OnePlaceOnly DEF Notifier!Submit, Notifier!Oldest
  <2>3. m \notin fresh' /\ m # hand' /\ In(m, pending')
    BY <1>0, <1>1, InAppended, OnePlaceOnly DEF Notifier!Submit, Notifier!Oldest, Notifier!TypeOK
  <2>4. Notifier!Status(m)' = "queued"
    BY <1>1, <2>2, <2>3 DEF Notifier!Submit, Notifier!Status
  <2>5. \A n \in Messages \ {m} : Notifier!Status(n)' = Notifier!Status(n)
    BY <1>1 DEF Notifier!Submit, Notifier!Status
  <2>6. Statuses' = [Statuses EXCEPT ![m] = "queued"]
    BY <2>4, <2>5, OneChanges DEF Statuses
  <2> QED BY <2>1, <2>6 DEF Notifier!Outbox!Take, Statuses
<1>2. ASSUME NEW m \in Messages, Notifier!TurnDown(m) PROVE Notifier!Outbox!Take(m)
  <2>1. Notifier!Status(m) = "new" /\ Statuses[m] = "new"
    BY <1>2, StatusIs DEF Notifier!TurnDown, Notifier!Oldest
  <2>2. log[m] = "none" /\ m # hand
    BY <1>2, OnePlaceOnly DEF Notifier!TurnDown, Notifier!Oldest
  <2>4. Notifier!Status(m)' = "refused"
    BY <1>2, <2>2 DEF Notifier!TurnDown, Notifier!Status
  <2>5. \A n \in Messages \ {m} : Notifier!Status(n)' = Notifier!Status(n)
    BY <1>0, <1>2 DEF Notifier!TurnDown, Notifier!Status
  <2>6. Statuses' = [Statuses EXCEPT ![m] = "refused"]
    BY <2>4, <2>5, OneChanges DEF Statuses
  <2> QED BY <2>1, <2>6 DEF Notifier!Outbox!Take, Statuses
<1>3. CASE Notifier!RecordRefusal
  <2>1. turned \in Messages /\ turned \notin fresh /\ log[turned] = "none" /\ turned # hand
    BY <1>0, <1>3, OnePlaceOnly DEF Notifier!RecordRefusal, Notifier!TypeOK
  <2>2. Notifier!Status(turned) = "refused"
    BY <2>1, StatusIs
  <2>3. log' = [log EXCEPT ![turned] = "refused"]
        /\ log \in [Messages -> {"none", "sent", "failed", "refused"}]
        /\ UNCHANGED <<fresh, pending, worker, hand, verdict>> /\ turned' = 0
    BY <1>0, <1>3 DEF Notifier!RecordRefusal, Notifier!TypeOK
  <2>4. ASSUME NEW n \in Messages PROVE Notifier!Status(n)' = Notifier!Status(n)
    <3>1. CASE n = turned
      BY <2>1, <2>2, <2>3, <3>1 DEF Notifier!Status
    <3>2. CASE n # turned
      BY <1>0, <2>3, <3>2 DEF Notifier!Status
    <3> QED BY <3>1, <3>2
  <2> QED BY <1>a, <2>4
<1>4. CASE Notifier!Take
  BY <1>4, <1>a DEF Notifier!Take, Notifier!Status
<1>5. CASE Notifier!Send
  <2>1. hand \in Messages /\ worker = "send" /\ worker' = "record" /\ hand' = hand
        /\ verdict' \in {"sent", "failed"} /\ UNCHANGED <<fresh, pending, turned, log>>
    BY <1>0, <1>5 DEF Notifier!Send, Notifier!TypeOK
  <2>2. Notifier!Status(hand) = "queued" /\ Statuses[hand] = "queued"
    BY <2>1, StatusIs
  <2>3. hand \notin fresh /\ log[hand] = "none" /\ hand # turned
    BY <2>1, OnePlaceOnly
  <2>4. Notifier!Status(hand)' = verdict'
    BY <2>1, <2>3 DEF Notifier!Status
  <2>5. \A n \in Messages \ {hand} : Notifier!Status(n)' = Notifier!Status(n)
    BY <2>1 DEF Notifier!Status
  <2>6. Statuses' = [Statuses EXCEPT ![hand] = verdict']
    BY <2>1, <2>4, <2>5, OneChanges DEF Statuses
  <2>7. ASSUME NEW n \in Messages, Statuses[n] = "queued" PROVE hand <= n
    <3>1. In(n, pending) \/ n = hand
      BY <2>1, <2>7, StatusIs, OnePlaceOnly
    <3>2. CASE In(n, pending)
      BY <1>0, <2>1, <3>2 DEF In, OutboxIInv, Ordered, Notifier!TypeOK
    <3> QED BY <2>1, <3>1, <3>2
  <2>8. Notifier!Outbox!Attempt(hand)
    BY <2>1, <2>2, <2>6, <2>7 DEF Notifier!Outbox!Attempt, Statuses
  <2> QED BY <2>1, <2>8 DEF Notifier!Outbox!Next
<1>6. CASE Notifier!Record
  <2>1. hand \in Messages /\ hand \notin fresh /\ log[hand] = "none" /\ hand # turned
        /\ worker = "record" /\ verdict \in {"sent", "failed"}
    BY <1>0, <1>6, OnePlaceOnly DEF Notifier!Record, Notifier!TypeOK
  <2>2. Notifier!Status(hand) = verdict
    BY <2>1, StatusIs
  <2>3. log' = [log EXCEPT ![hand] = verdict]
        /\ log \in [Messages -> {"none", "sent", "failed", "refused"}]
        /\ UNCHANGED <<fresh, pending, turned, verdict>> /\ hand' = 0 /\ worker' = "take"
    BY <1>0, <1>6 DEF Notifier!Record, Notifier!TypeOK
  <2>4. ASSUME NEW n \in Messages PROVE Notifier!Status(n)' = Notifier!Status(n)
    <3>1. CASE n = hand
      BY <2>1, <2>2, <2>3, <3>1 DEF Notifier!Status
    <3>2. CASE n # hand
      BY <1>0, <2>1, <2>3, <3>2 DEF Notifier!Status
    <3> QED BY <3>1, <3>2
  <2> QED BY <1>a, <2>4
<1>7. CASE Notifier!SendTest \/ Notifier!TestSent
  BY <1>7, <1>a DEF Notifier!SendTest, Notifier!TestSent, Notifier!Status
<1>8. CASE UNCHANGED Notifier!vars
  BY <1>8, <1>a DEF Notifier!vars, Notifier!Status
<1> QED BY <1>1, <1>2, <1>3, <1>4, <1>5, <1>6, <1>7, <1>8 DEF Notifier!Next,
           Notifier!Outbox!Next, Statuses

\* The notifier does step by step what an Outbox may do.  That it comes to an end with every
\* message it has taken is for the runs: it needs fairness.
THEOREM OutboxRefined == Numbered => (Notifier!Spec
    => Notifier!Outbox!Init /\ [][Notifier!Outbox!Next]_Statuses)
<1> SUFFICES ASSUME Numbered PROVE Notifier!Spec
            => Notifier!Outbox!Init /\ [][Notifier!Outbox!Next]_Statuses
  OBVIOUS
<1>1. Notifier!Init => Notifier!Outbox!Init
  BY InitMaps
<1>2. OutboxIInv /\ OutboxIInv' /\ [Notifier!Next]_(Notifier!vars)
      => [Notifier!Outbox!Next]_Statuses
  BY StepMaps
<1>3. Notifier!Spec => []OutboxIInv
  BY OutboxInvariant
<1> QED BY <1>1, <1>2, <1>3, PTL DEF Notifier!Spec

-----------------------------------------------------------------------------
(* The reports of a pipeline.                                              *)

Working == pc \in {"device", "login", "task"}
Ahead == ToSet(queue) \cup ToSet(later)
Pend == {"none", "pending"}

\* The run being worked on is pending in its report and was not told of as finished; so is
\* every run that is still to be retried, unless the pipeline is over.
AtWork ==
    Working =>
        /\ Len(run) = 1 /\ reports[run[1]] = "pending" /\ told[run[1]] \in Pend
        /\ pc = "task" => run[1] \in attempted
AheadIsOpen == pc # "over" => \A r \in Ahead : reports[r] # "none" /\ told[r] \in Pend

\* What a report says of a run: it is pending for a reason, or its outcome is the true one.
PendingIsExcused ==
    \A r \in Runs : reports[r] = "pending" =>
        stop # "no" \/ r \in dropped \/ (Working /\ r = run[1])
ReportIsTrue == \A r \in Runs : reports[r] \in {"success", "failed"} => reports[r] = truth[r]

\* In the first round a run that has come to something is not begun again.
TriedOnce == round = 0 => \A r \in Runs : truth[r] # "none" => r \in attempted

\* A run that has left the reports has been told of, with its outcome or an excuse.
Answered ==
    /\ \A r \in Runs : truth[r] # "none" /\ reports[r] = "none" =>
            told[r] = truth[r] \/ (told[r] = "pending" /\ (stop # "no" \/ r \in dropped))
    /\ pc = "over" => \A r \in Runs : reports[r] = "none"

\* A character with an open report has not had more reports than it began anew.
Counted == \A c \in Chars : sent[c] <= (IF HasReport(c) THEN anew[c] ELSE 1 + anew[c])

LeftForCause == pc = "left" => stop # "no" \/ dropped # {}

\* The inductive invariant of the reports.
ReportsIInv ==
    /\ TypeOK /\ AtWork /\ AheadIsOpen /\ PendingIsExcused /\ ReportIsTrue /\ NoFalseVerdict
    /\ TriedOnce /\ Answered /\ Counted /\ LeftForCause /\ InterruptedOnlySo

\* Every run is a character's.
LEMMA RunOfChar == \A r \in Runs : Who(r) \in Chars
BY DEF Runs, Who

\* A character has a report if one of its runs has an outcome in it.
LEMMA HasReportMeans ==
    \A c : HasReport(c) <=> \E r \in Runs : Who(r) = c /\ reports[r] # "none"
BY DEF HasReport, Reported

\* The runs of lists that lose their head, get one more or are joined.
LEMMA ListFacts ==
    /\ <<>> \in Seq(Runs) /\ ToSet(<<>>) = {}
    /\ \A s \in Seq(Runs) :
         /\ ToSet(s) \subseteq Runs
         /\ s # <<>> => /\ Head(s) \in ToSet(s) /\ Head(s) \in Runs
                        /\ Tail(s) \in Seq(Runs) /\ ToSet(Tail(s)) \subseteq ToSet(s)
         /\ \A r \in Runs : /\ Append(s, r) \in Seq(Runs)
                            /\ ToSet(Append(s, r)) = ToSet(s) \cup {r}
    /\ \A s, t \in Seq(Runs) : ToSet(s \o t) = ToSet(s) \cup ToSet(t)
<1>1. <<>> \in Seq(Runs) /\ ToSet(<<>>) = {}
  BY DEF ToSet
<1>2. ASSUME NEW s \in Seq(Runs) PROVE ToSet(s) \subseteq Runs
  BY DEF ToSet
<1>3. ASSUME NEW s \in Seq(Runs), s # <<>>
      PROVE  /\ Head(s) \in ToSet(s) /\ Head(s) \in Runs
             /\ Tail(s) \in Seq(Runs) /\ ToSet(Tail(s)) \subseteq ToSet(s)
  <2>1. Head(s) = s[1] /\ 1 \in DOMAIN s /\ Tail(s) \in Seq(Runs)
    BY <1>3
  <2>2. ASSUME NEW i \in DOMAIN Tail(s) PROVE i + 1 \in DOMAIN s /\ Tail(s)[i] = s[i + 1]
    BY <1>3, <2>2
  <2> QED BY <1>2, <2>1, <2>2 DEF ToSet
<1>4. ASSUME NEW s \in Seq(Runs), NEW r \in Runs
      PROVE  Append(s, r) \in Seq(Runs) /\ ToSet(Append(s, r)) = ToSet(s) \cup {r}
  <2> DEFINE a == Append(s, r)
  <2>1. /\ a \in Seq(Runs) /\ DOMAIN a = 1..(Len(s) + 1) /\ DOMAIN s = 1..Len(s)
        /\ Len(s) \in Nat /\ a[Len(s) + 1] = r /\ \A i \in 1..Len(s) : a[i] = s[i]
    OBVIOUS
  <2>2. DOMAIN a = DOMAIN s \cup {Len(s) + 1}
    BY <2>1
  <2> HIDE DEF a
  <2>3. ToSet(a) = ToSet(s) \cup {r}
    BY <2>1, <2>2 DEF ToSet
  <2> QED BY <2>1, <2>3 DEF a
<1>5. ASSUME NEW s \in Seq(Runs), NEW t \in Seq(Runs)
      PROVE  ToSet(s \o t) = ToSet(s) \cup ToSet(t)
  <2> DEFINE j == s \o t
  <2>1. /\ DOMAIN j = 1..(Len(s) + Len(t)) /\ DOMAIN s = 1..Len(s) /\ DOMAIN t = 1..Len(t)
        /\ Len(s) \in Nat /\ Len(t) \in Nat
        /\ \A i \in 1..(Len(s) + Len(t)) : j[i] = IF i <= Len(s) THEN s[i] ELSE t[i - Len(s)]
    OBVIOUS
  <2> HIDE DEF j
  <2>2. ASSUME NEW i \in DOMAIN j PROVE j[i] \in ToSet(s) \cup ToSet(t)
    <3>1. CASE i <= Len(s)
      BY <2>1, <3>1 DEF ToSet
    <3>2. CASE ~(i <= Len(s))
      <4>1. i - Len(s) \in DOMAIN t /\ j[i] = t[i - Len(s)]
        BY <2>1, <3>2
      <4> QED BY <4>1 DEF ToSet
    <3> QED BY <3>1, <3>2
  <2>3. ASSUME NEW i \in DOMAIN s PROVE s[i] \in ToSet(j)
    BY <2>1 DEF ToSet
  <2>4. ASSUME NEW i \in DOMAIN t PROVE t[i] \in ToSet(j)
    <3>1. i + Len(s) \in DOMAIN j /\ j[i + Len(s)] = t[i]
      BY <2>1
    <3> QED BY <3>1 DEF ToSet
  <2>5. ToSet(j) \subseteq ToSet(s) \cup ToSet(t)
    BY <2>2 DEF ToSet
  <2>6. ToSet(s) \cup ToSet(t) \subseteq ToSet(j)
    BY <2>3, <2>4 DEF ToSet
  <2> QED BY <2>5, <2>6 DEF j
<1> QED BY <1>1, <1>2, <1>3, <1>4, <1>5

\* The first character with something due is one of the queue.
LEMMA CollectedIsOne == active \in Chars => Collected \in Chars
<1> SUFFICES ASSUME active \in Chars PROVE Collected \in Chars
  OBVIOUS
<1> DEFINE some == {i \in DOMAIN Queue : DueOf(Queue[i]) # {}}
<1>1. CASE some = {}
  BY <1>1 DEF Collected
<1>2. CASE some # {}
  <2>1. some \subseteq Nat
    BY BoundsAssumption
  <2>2. \E i \in some : \A j \in some : i <= j
    <3>1. PICK i \in some : \A j \in some : <<j, i>> \notin OpToRel(<, Nat)
      BY <1>2, <2>1, NatLessThanWellFounded, WFMin
    <3>2. \A j \in some : ~(j < i)
      BY <2>1, <3>1 DEF OpToRel
    <3> QED BY <2>1, <3>2
  <2>3. (CHOOSE i \in some : \A j \in some : i <= j) \in some
    BY <2>2
  <2>4. Collected = Queue[CHOOSE i \in some : \A j \in some : i <= j]
    BY <1>2 DEF Collected
  <2> QED BY <2>3, <2>4 DEF Chars, ToSet
<1> QED BY <1>1, <1>2

\* What publishing the reports of some characters does.
LEMMA PublishFacts ==
    ASSUME TypeOK, NEW whose \in SUBSET Chars, NEW interrupted \in BOOLEAN,
           Publish(whose, interrupted)
    PROVE  /\ told' \in [Runs -> Outcomes] /\ sent' \in [Chars -> Nat]
           /\ status' \in [Chars -> {"none", "interrupted", "partly", "done"}]
           /\ \A r \in Runs :
                told'[r] = IF Who(r) \in whose /\ reports[r] # "none" THEN reports[r] ELSE told[r]
           /\ \A c \in Chars :
                sent'[c] = IF c \in whose /\ HasReport(c) THEN sent[c] + 1 ELSE sent[c]
           /\ \A c \in Chars : status'[c] = "interrupted" =>
                \/ status[c] = "interrupted" \/ interrupted
                \/ \E r \in Runs : reports[r] = "pending"
<1> DEFINE chars == {c \in whose : HasReport(c)}
<1>1. /\ told' = [r \in Runs |->
             IF Who(r) \in chars /\ reports[r] # "none" THEN reports[r] ELSE told[r]]
      /\ status' = [c \in Chars |-> IF c \in chars THEN StatusOf(c, interrupted) ELSE status[c]]
      /\ sent' = [c \in Chars |-> IF c \in chars THEN sent[c] + 1 ELSE sent[c]]
  BY DEF Publish
<1>2. \A r \in Runs : reports[r] # "none" => HasReport(Who(r))
  BY HasReportMeans
<1>3. /\ \A r \in Runs : reports[r] \in Outcomes /\ told[r] \in Outcomes
      /\ \A c \in Chars : sent[c] \in Nat
                       /\ status[c] \in {"none", "interrupted", "partly", "done"}
  BY DEF TypeOK
<1>4. ASSUME NEW c \in Chars
      PROVE  /\ StatusOf(c, interrupted) \in {"interrupted", "partly", "done"}
             /\ StatusOf(c, interrupted) = "interrupted" =>
                  interrupted \/ \E r \in Runs : reports[r] = "pending"
  <2> DEFINE p == \E r \in Reported(c) : reports[r] = "pending"
             f == \E r \in Reported(c) : reports[r] = "failed"
  <2>1. p => \E r \in Runs : reports[r] = "pending"
    BY DEF Reported
  <2>2. CASE interrupted \/ p
    <3>1. StatusOf(c, interrupted) = "interrupted"
      BY <2>2 DEF StatusOf
    <3> QED BY <2>1, <2>2, <3>1
  <2>3. CASE ~interrupted /\ ~p /\ f
    <3>1. StatusOf(c, interrupted) = "partly"
      BY <2>3 DEF StatusOf
    <3> QED BY <3>1
  <2>4. CASE ~interrupted /\ ~p /\ ~f
    <3>1. StatusOf(c, interrupted) = "done"
      BY <2>4 DEF StatusOf
    <3> QED BY <3>1
  <2> QED BY <2>2, <2>3, <2>4
<1>5. \A r \in Runs :
          told'[r] = IF Who(r) \in whose /\ reports[r] # "none" THEN reports[r] ELSE told[r]
  BY <1>1, <1>2
<1>6. \A c \in Chars : sent'[c] = IF c \in whose /\ HasReport(c) THEN sent[c] + 1 ELSE sent[c]
  BY <1>1
<1>7. \A c \in Chars : status'[c] = "interrupted" =>
          \/ status[c] = "interrupted" \/ interrupted
          \/ \E r \in Runs : reports[r] = "pending"
  BY <1>1, <1>4
<1>8. told' \in [Runs -> Outcomes] /\ sent' \in [Chars -> Nat]
  BY <1>1, <1>3
<1>9. status' \in [Chars -> {"none", "interrupted", "partly", "done"}]
  BY <1>1, <1>3, <1>4
<1> QED BY <1>5, <1>6, <1>7, <1>8, <1>9

\* Whoever has a run in the lists is not flushed, nor is the current character.
LEMMA FlushedFacts ==
    ASSUME TypeOK, NEW q \in Seq(Runs), NEW c
    PROVE  /\ Flushed(c, q) \subseteq Chars /\ c \notin Flushed(c, q)
           /\ \A r \in ToSet(q) \cup ToSet(later) : Who(r) \notin Flushed(c, q)
BY ListFacts DEF TypeOK, Flushed, Waiting

\* Reports that have been published are gone; a run that is begun is pending.
LEMMA BeginFacts ==
    ASSUME TypeOK, NEW r \in Runs, NEW q \in Seq(Runs), Begin(r, q)
    PROVE  /\ told' \in [Runs -> Outcomes] /\ sent' \in [Chars -> Nat]
           /\ reports' \in [Runs -> Outcomes]
           /\ status' \in [Chars -> {"none", "interrupted", "partly", "done"}]
           /\ active' = Who(r) /\ active' \in Chars /\ run' = <<r>> /\ pc' = "device"
           /\ reports'[r] = "pending" /\ told'[r] = told[r]
           /\ \A s \in Runs : s # r =>
                IF Who(s) \in Flushed(Who(r), q)
                THEN reports'[s] = "none"
                       /\ told'[s] = IF reports[s] = "none" THEN told[s] ELSE reports[s]
                ELSE reports'[s] = reports[s] /\ told'[s] = told[s]
           /\ \A c \in Chars :
                sent'[c] = IF c \in Flushed(Who(r), q) /\ HasReport(c)
                           THEN sent[c] + 1 ELSE sent[c]
           /\ \A c \in Chars : status'[c] = "interrupted" =>
                status[c] = "interrupted" \/ \E s \in Runs : reports[s] = "pending"
<1> DEFINE whose == Flushed(Who(r), q)
<1>1. /\ Publish(whose, FALSE) /\ active' = Who(r) /\ run' = <<r>> /\ pc' = "device"
      /\ reports' = [Without(whose) EXCEPT ![r] = "pending"]
  BY DEF Begin
<1>2. whose \subseteq Chars /\ Who(r) \notin whose /\ Who(r) \in Chars
  BY FlushedFacts, RunOfChar
<1>3. reports \in [Runs -> Outcomes]
  BY DEF TypeOK
<1>4. /\ reports' \in [Runs -> Outcomes] /\ reports'[r] = "pending"
      /\ \A s \in Runs : s # r =>
            reports'[s] = IF Who(s) \in whose THEN "none" ELSE reports[s]
  BY <1>1, <1>3 DEF Without, Outcomes
<1> HIDE DEF whose
<1>5. FALSE \in BOOLEAN
  OBVIOUS
<1>6. /\ told' \in [Runs -> Outcomes] /\ sent' \in [Chars -> Nat]
      /\ status' \in [Chars -> {"none", "interrupted", "partly", "done"}]
      /\ \A s \in Runs :
            told'[s] = IF Who(s) \in whose /\ reports[s] # "none" THEN reports[s] ELSE told[s]
      /\ \A c \in Chars : sent'[c] = IF c \in whose /\ HasReport(c) THEN sent[c] + 1 ELSE sent[c]
      /\ \A c \in Chars : status'[c] = "interrupted" =>
            status[c] = "interrupted" \/ \E s \in Runs : reports[s] = "pending"
  BY <1>1, <1>2, <1>5, PublishFacts
<1>7. \A s \in Runs : s # r =>
          IF Who(s) \in whose
          THEN reports'[s] = "none"
                 /\ told'[s] = IF reports[s] = "none" THEN told[s] ELSE reports[s]
          ELSE reports'[s] = reports[s] /\ told'[s] = told[s]
  BY <1>4, <1>6
<1>8. told'[r] = told[r]
  BY <1>2, <1>6
<1> QED BY <1>1, <1>2, <1>4, <1>6, <1>7, <1>8 DEF whose

\* When nothing is left of a round, and at the end, reports are published and gone.
LEMMA FlushFacts ==
    ASSUME TypeOK, NEW whose \in SUBSET Chars, NEW interrupted \in BOOLEAN,
           Publish(whose, interrupted), reports' = Without(whose)
    PROVE  /\ told' \in [Runs -> Outcomes] /\ sent' \in [Chars -> Nat]
           /\ reports' \in [Runs -> Outcomes]
           /\ status' \in [Chars -> {"none", "interrupted", "partly", "done"}]
           /\ \A s \in Runs :
                IF Who(s) \in whose
                THEN reports'[s] = "none"
                       /\ told'[s] = IF reports[s] = "none" THEN told[s] ELSE reports[s]
                ELSE reports'[s] = reports[s] /\ told'[s] = told[s]
           /\ \A c \in Chars : sent'[c] = IF c \in whose
               /\ HasReport(c) THEN sent[c] + 1 ELSE sent[c]
           /\ \A c \in Chars : status'[c] = "interrupted" =>
                \/ status[c] = "interrupted" \/ interrupted
                \/ \E s \in Runs : reports[s] = "pending"
<1>1. reports \in [Runs -> Outcomes]
  BY DEF TypeOK
<1>2. /\ reports' \in [Runs -> Outcomes]
      /\ \A s \in Runs : reports'[s] = IF Who(s) \in whose THEN "none" ELSE reports[s]
  BY <1>1 DEF Without, Outcomes
<1>3. /\ told' \in [Runs -> Outcomes] /\ sent' \in [Chars -> Nat]
      /\ status' \in [Chars -> {"none", "interrupted", "partly", "done"}]
      /\ \A s \in Runs :
            told'[s] = IF Who(s) \in whose /\ reports[s] # "none" THEN reports[s] ELSE told[s]
      /\ \A c \in Chars : sent'[c] = IF c \in whose /\ HasReport(c) THEN sent[c] + 1 ELSE sent[c]
      /\ \A c \in Chars : status'[c] = "interrupted" =>
            \/ status[c] = "interrupted" \/ interrupted
            \/ \E s \in Runs : reports[s] = "pending"
  BY PublishFacts
<1>4. \A s \in Runs :
          IF Who(s) \in whose
          THEN reports'[s] = "none"
                 /\ told'[s] = IF reports[s] = "none" THEN told[s] ELSE reports[s]
          ELSE reports'[s] = reports[s] /\ told'[s] = told[s]
  BY <1>2, <1>3
<1> QED BY <1>2, <1>3, <1>4

\* While the pipeline is at work it has a run in hand.
LEMMA RunInHand == ReportsIInv /\ Working => run[1] \in Runs
<1>1. ReportsIInv /\ Working => run \in Seq(Runs) /\ Len(run) = 1
  BY DEF ReportsIInv, AtWork, TypeOK
<1> QED BY <1>1

\* The same of the next state.
LEMMA HasReportNext ==
    \A c : HasReport(c)' <=> \E r \in Runs : Who(r) = c /\ reports'[r] # "none"
BY DEF HasReport, Reported

\* Nothing new has been reported or told.
LEMMA SameTold ==
    ReportsIInv /\ UNCHANGED <<reports, told, truth, sent, anew>>
        => (ReportIsTrue /\ NoFalseVerdict /\ Counted)'
BY DEF ReportsIInv, ReportIsTrue, NoFalseVerdict, Counted, HasReport, Reported

\* The device is ready.
LEMMA DeviceReadyKept == ReportsIInv /\ DeviceReady => ReportsIInv'
<1> SUFFICES ASSUME ReportsIInv, DeviceReady PROVE ReportsIInv'
  OBVIOUS
<1> USE DEF ReportsIInv
<1>1. /\ pc = "device" /\ pc' = "login"
      /\ UNCHANGED <<due, renewals, attempted, round, queue, later, active, run, stop, reports,
          told, status, sent, anew, truth, dropped>>
  BY DEF DeviceReady, lists, published, Goto
<1>2. TypeOK'
  BY <1>1 DEF TypeOK, Labels, Outcomes
<1>3. (AtWork /\ AheadIsOpen /\ TriedOnce)'
  BY <1>1 DEF AtWork, AheadIsOpen, TriedOnce, Working, Ahead, Pend
<1>4. (PendingIsExcused /\ Answered /\ LeftForCause /\ InterruptedOnlySo)'
  BY <1>1 DEF PendingIsExcused, Answered, LeftForCause, InterruptedOnlySo, Working
<1>5. (ReportIsTrue /\ NoFalseVerdict /\ Counted)'
  BY <1>1, SameTold
<1> QED BY <1>2, <1>3, <1>4, <1>5

\* The device fails.
LEMMA DeviceFailsKept == ReportsIInv /\ DeviceFails => ReportsIInv'
<1> SUFFICES ASSUME ReportsIInv, DeviceFails PROVE ReportsIInv'
  OBVIOUS
<1> USE DEF ReportsIInv
<1>1. /\ pc = "device" /\ pc' = "head"
      /\ dropped' = dropped \cup {run[1]} /\ run[1] \in Runs
      /\ UNCHANGED <<due, renewals, attempted, round, queue, later, active, run, stop, reports,
          told, status, sent, anew, truth>>
  BY RunInHand DEF DeviceFails, Working, lists, published, Goto
<1>2. TypeOK'
  BY <1>1 DEF TypeOK, Labels, Outcomes
<1>3. (AtWork /\ AheadIsOpen /\ TriedOnce)'
  BY <1>1 DEF AtWork, AheadIsOpen, TriedOnce, Working, Ahead, Pend
<1>4. (PendingIsExcused /\ Answered /\ LeftForCause /\ InterruptedOnlySo)'
  BY <1>1 DEF PendingIsExcused, Answered, LeftForCause, InterruptedOnlySo, Working
<1>5. (ReportIsTrue /\ NoFalseVerdict /\ Counted)'
  BY <1>1, SameTold
<1> QED BY <1>2, <1>3, <1>4, <1>5

\* The character is logged in.
LEMMA LoggedInKept == ReportsIInv /\ LoggedIn => ReportsIInv'
<1> SUFFICES ASSUME ReportsIInv, LoggedIn PROVE ReportsIInv'
  OBVIOUS
<1> USE DEF ReportsIInv
<1>1. /\ pc = "login" /\ pc' = "task"
      /\ attempted' = attempted \cup {run[1]} /\ run[1] \in Runs
      /\ UNCHANGED <<due, renewals, round, queue, later, active, run, stop, reports, told,
          status, sent, anew, truth, dropped>>
  BY RunInHand DEF LoggedIn, Working, lists, published, Goto
<1>2. TypeOK'
  BY <1>1 DEF TypeOK, Labels, Outcomes
<1>3. (AtWork /\ AheadIsOpen /\ TriedOnce)'
  BY <1>1 DEF AtWork, AheadIsOpen, TriedOnce, Working, Ahead, Pend
<1>4. (PendingIsExcused /\ Answered /\ LeftForCause /\ InterruptedOnlySo)'
  BY <1>1 DEF PendingIsExcused, Answered, LeftForCause, InterruptedOnlySo, Working
<1>5. (ReportIsTrue /\ NoFalseVerdict /\ Counted)'
  BY <1>1, SameTold
<1> QED BY <1>2, <1>3, <1>4, <1>5

\* The run is abandoned.
LEMMA AbandonKept == ReportsIInv /\ Abandon => ReportsIInv'
<1> SUFFICES ASSUME ReportsIInv, Abandon PROVE ReportsIInv'
  OBVIOUS
<1> USE DEF ReportsIInv
<1>1. /\ pc \in {"device", "login"} /\ pc' = "left"
      /\ run[1] \in Runs
      /\ \/ dropped' = dropped /\ stop # "no"
         \/ dropped' = dropped \cup {run[1]}
      /\ UNCHANGED <<due, renewals, attempted, round, queue, later, active, run, stop, reports,
          told, status, sent, anew, truth>>
  BY RunInHand DEF Abandon, Working, lists, published, Goto
<1>2. TypeOK'
  BY <1>1 DEF TypeOK, Labels, Outcomes
<1>3. (AtWork /\ AheadIsOpen /\ TriedOnce)'
  BY <1>1 DEF AtWork, AheadIsOpen, TriedOnce, Working, Ahead, Pend
<1>4. (PendingIsExcused /\ Answered /\ LeftForCause /\ InterruptedOnlySo)'
  BY <1>1 DEF PendingIsExcused, Answered, LeftForCause, InterruptedOnlySo, Working
<1>5. (ReportIsTrue /\ NoFalseVerdict /\ Counted)'
  BY <1>1, SameTold
<1> QED BY <1>2, <1>3, <1>4, <1>5

\* The scheduler is stopped.
LEMMA StopKept == ReportsIInv /\ Stop => ReportsIInv'
<1> SUFFICES ASSUME ReportsIInv, Stop PROVE ReportsIInv'
  OBVIOUS
<1> USE DEF ReportsIInv
<1>1. /\ pc # "over" /\ stop = "no" /\ stop' \in {"cancel", "halt"}
      /\ UNCHANGED <<due, renewals, attempted, round, queue, later, active, pc, run, reports,
          told, status, sent, anew, truth, dropped>>
  BY DEF Stop, lists, published, Goto
<1>2. TypeOK'
  BY <1>1 DEF TypeOK, Labels, Outcomes
<1>3. (AtWork /\ AheadIsOpen /\ TriedOnce)'
  BY <1>1 DEF AtWork, AheadIsOpen, TriedOnce, Working, Ahead, Pend
<1>4. (PendingIsExcused /\ Answered /\ LeftForCause /\ InterruptedOnlySo)'
  BY <1>1 DEF PendingIsExcused, Answered, LeftForCause, InterruptedOnlySo, Working
<1>5. (ReportIsTrue /\ NoFalseVerdict /\ Counted)'
  BY <1>1, SameTold
<1> QED BY <1>2, <1>3, <1>4, <1>5

\* The loop is left.
LEMMA LeaveKept == ReportsIInv /\ Leave => ReportsIInv'
<1> SUFFICES ASSUME ReportsIInv, Leave PROVE ReportsIInv'
  OBVIOUS
<1> USE DEF ReportsIInv
<1>1. /\ pc = "head" /\ pc' = "left" /\ stop # "no"
      /\ UNCHANGED <<due, renewals, attempted, round, queue, later, active, run, stop, reports,
          told, status, sent, anew, truth, dropped>>
  BY DEF Leave, lists, published, Goto
<1>2. TypeOK'
  BY <1>1 DEF TypeOK, Labels, Outcomes
<1>3. (AtWork /\ AheadIsOpen /\ TriedOnce)'
  BY <1>1 DEF AtWork, AheadIsOpen, TriedOnce, Working, Ahead, Pend
<1>4. (PendingIsExcused /\ Answered /\ LeftForCause /\ InterruptedOnlySo)'
  BY <1>1 DEF PendingIsExcused, Answered, LeftForCause, InterruptedOnlySo, Working
<1>5. (ReportIsTrue /\ NoFalseVerdict /\ Counted)'
  BY <1>1, SameTold
<1> QED BY <1>2, <1>3, <1>4, <1>5

\* A task becomes due.
LEMMA ArrivesKept == ReportsIInv /\ Arrives => ReportsIInv'
<1> SUFFICES ASSUME ReportsIInv, Arrives PROVE ReportsIInv'
  OBVIOUS
<1> USE DEF ReportsIInv
<1>1. /\ renewals < Renewals /\ renewals' = renewals + 1
      /\ \E r \in Runs \ due : due' = due \cup {r}
      /\ UNCHANGED <<attempted, round, queue, later, active, pc, run, stop, reports, told,
          status, sent, anew, truth, dropped>>
  BY DEF Arrives, lists, published, Goto
<1>2. TypeOK'
  BY <1>1, BoundsAssumption DEF TypeOK, Labels, Outcomes
<1>3. (AtWork /\ AheadIsOpen /\ TriedOnce)'
  BY <1>1 DEF AtWork, AheadIsOpen, TriedOnce, Working, Ahead, Pend
<1>4. (PendingIsExcused /\ Answered /\ LeftForCause /\ InterruptedOnlySo)'
  BY <1>1 DEF PendingIsExcused, Answered, LeftForCause, InterruptedOnlySo, Working
<1>5. (ReportIsTrue /\ NoFalseVerdict /\ Counted)'
  BY <1>1, SameTold
<1> QED BY <1>2, <1>3, <1>4, <1>5

\* A retry is skipped.
LEMMA SkipRetryKept == ReportsIInv /\ SkipRetry => ReportsIInv'
<1> SUFFICES ASSUME ReportsIInv, SkipRetry PROVE ReportsIInv'
  OBVIOUS
<1> USE DEF ReportsIInv
<1>1. /\ pc = "head" /\ queue # <<>> /\ queue' = Tail(queue)
      /\ dropped' = dropped \cup {Head(queue)}
      /\ Head(queue) \in Runs /\ Tail(queue) \in Seq(Runs)
      /\ ToSet(Tail(queue)) \subseteq ToSet(queue)
      /\ UNCHANGED <<due, renewals, attempted, round, later, active, pc, run, stop, reports,
          told, status, sent, anew, truth>>
  BY ListFacts DEF SkipRetry, TypeOK, lists, published, Goto
<1>2. TypeOK'
  BY <1>1 DEF TypeOK, Labels, Outcomes
<1>3. (AtWork /\ AheadIsOpen /\ TriedOnce)'
  BY <1>1 DEF AtWork, AheadIsOpen, TriedOnce, Working, Ahead, Pend
<1>4. (PendingIsExcused /\ Answered /\ LeftForCause /\ InterruptedOnlySo)'
  BY <1>1 DEF PendingIsExcused, Answered, LeftForCause, InterruptedOnlySo, Working
<1>5. (ReportIsTrue /\ NoFalseVerdict /\ Counted)'
  BY <1>1, SameTold
<1> QED BY <1>2, <1>3, <1>4, <1>5

\* A task succeeds.
LEMMA SucceedsKept == ReportsIInv /\ Succeeds => ReportsIInv'
<1> SUFFICES ASSUME ReportsIInv, Succeeds PROVE ReportsIInv'
  OBVIOUS
<1> USE DEF ReportsIInv
<1>1. /\ pc = "task" /\ pc' = "head" /\ run[1] \in Runs /\ run[1] \in attempted
      /\ reports[run[1]] = "pending" /\ told[run[1]] \in {"none", "pending"}
  BY RunInHand DEF Succeeds, Goto, AtWork, Working, Pend
<1>2. /\ stop # "cancel" /\ reports' = [reports EXCEPT ![run[1]] = "success"]
      /\ truth' = [truth EXCEPT ![run[1]] = "success"] /\ due' = due \ {run[1]}
      /\ UNCHANGED <<renewals, attempted, round, queue, later, active, run, stop, told, status,
          sent, anew, dropped>>
  BY DEF Succeeds, Record, lists, published
<1>3. reports \in [Runs -> Outcomes] /\ truth \in [Runs -> {"none", "success", "failed"}]
  BY DEF TypeOK
<1>4. /\ reports'[run[1]] = "success" /\ truth'[run[1]] = "success"
      /\ \A r \in Runs : r # run[1] => reports'[r] = reports[r] /\ truth'[r] = truth[r]
  BY <1>1, <1>2, <1>3
<1>5. TypeOK'
  BY <1>1, <1>2, <1>3, <1>4, SMTT(60) DEF TypeOK, Labels, Outcomes
<1>6. AtWork'
  BY <1>1, <1>2, <1>3, <1>4 DEF AtWork, Working
<1>7. AheadIsOpen'
  BY <1>1, <1>2, <1>3, <1>4, ListFacts DEF AheadIsOpen, Ahead, Pend, TypeOK
<1>8. PendingIsExcused'
  BY <1>1, <1>2, <1>3, <1>4 DEF PendingIsExcused, Working
<1>9. ReportIsTrue'
  BY <1>1, <1>2, <1>3, <1>4 DEF ReportIsTrue
<1>10. NoFalseVerdict'
  BY <1>1, <1>2, <1>3, <1>4 DEF NoFalseVerdict, ReportIsTrue
<1>11. TriedOnce'
  BY <1>1, <1>2, <1>3, <1>4 DEF TriedOnce
<1>12. Answered'
  BY <1>1, <1>2, <1>3, <1>4 DEF Answered
<1>13. Counted'
  BY <1>1, <1>2, <1>3, <1>4, HasReportMeans, HasReportNext DEF Counted
<1>14. LeftForCause'
  BY <1>1, <1>2, <1>3, <1>4 DEF LeftForCause
<1>15. InterruptedOnlySo'
  BY <1>1, <1>2, <1>3, <1>4 DEF InterruptedOnlySo
<1> QED BY <1>5, <1>6, <1>7, <1>8, <1>9, <1>10, <1>11, <1>12, <1>13, <1>14, <1>15

\* A task fails.
LEMMA FailsKept == ReportsIInv /\ Fails => ReportsIInv'
<1> SUFFICES ASSUME ReportsIInv, Fails PROVE ReportsIInv'
  OBVIOUS
<1> USE DEF ReportsIInv
<1>1. /\ pc = "task" /\ pc' = "head" /\ run[1] \in Runs /\ run[1] \in attempted
      /\ reports[run[1]] = "pending" /\ told[run[1]] \in {"none", "pending"}
  BY RunInHand DEF Fails, Goto, AtWork, Working, Pend
<1>2. /\ reports' = IF stop = "cancel" THEN reports ELSE [reports EXCEPT ![run[1]] = "failed"]
      /\ truth' = [truth EXCEPT ![run[1]] = IF stop = "cancel" THEN "none" ELSE "failed"]
      /\ due' \in SUBSET due
      /\ later' \in {later, Append(later, run[1])}
      /\ UNCHANGED <<renewals, attempted, round, queue, active, run, stop, told, status, sent,
          anew, dropped>>
  BY DEF Fails, Record, lists, published
<1>3. reports \in [Runs -> Outcomes] /\ truth \in [Runs -> {"none", "success", "failed"}]
  BY DEF TypeOK
<1>4. /\ \A r \in Runs : r # run[1] => reports'[r] = reports[r] /\ truth'[r] = truth[r]
      /\ \/ stop = "cancel" /\ reports'[run[1]] = "pending" /\ truth'[run[1]] = "none"
         \/ stop # "cancel" /\ reports'[run[1]] = "failed" /\ truth'[run[1]] = "failed"
  BY <1>1, <1>2, <1>3
<1>5. later' \in Seq(Runs) /\ ToSet(later') \subseteq ToSet(later) \cup {run[1]}
  <2>1. later \in Seq(Runs)
    BY DEF TypeOK
  <2>2. /\ Append(later, run[1]) \in Seq(Runs)
        /\ ToSet(Append(later, run[1])) = ToSet(later) \cup {run[1]}
    BY <1>1, <2>1, ListFacts
  <2> QED BY <1>2, <2>1, <2>2
<1>6. TypeOK'
  BY <1>1, <1>2, <1>3, <1>4, <1>5, SMTT(60) DEF TypeOK, Labels, Outcomes
<1>7. AtWork'
  BY <1>1, <1>2, <1>3, <1>4, <1>5 DEF AtWork, Working
<1>8. AheadIsOpen'
  BY <1>1, <1>2, <1>3, <1>4, <1>5, ListFacts DEF AheadIsOpen, Ahead, Pend, TypeOK
<1>9. PendingIsExcused'
  BY <1>1, <1>2, <1>3, <1>4, <1>5 DEF PendingIsExcused, Working
<1>10. ReportIsTrue'
  BY <1>1, <1>2, <1>3, <1>4, <1>5 DEF ReportIsTrue
<1>11. NoFalseVerdict'
  BY <1>1, <1>2, <1>3, <1>4, <1>5 DEF NoFalseVerdict, ReportIsTrue
<1>12. TriedOnce'
  BY <1>1, <1>2, <1>3, <1>4, <1>5 DEF TriedOnce
<1>13. Answered'
  BY <1>1, <1>2, <1>3, <1>4, <1>5 DEF Answered
<1>14. Counted'
  BY <1>1, <1>2, <1>3, <1>4, <1>5, HasReportMeans, HasReportNext DEF Counted
<1>15. LeftForCause'
  BY <1>1, <1>2, <1>3, <1>4, <1>5 DEF LeftForCause
<1>16. InterruptedOnlySo'
  BY <1>1, <1>2, <1>3, <1>4, <1>5 DEF InterruptedOnlySo
<1> QED BY <1>6, <1>7, <1>8, <1>9, <1>10, <1>11, <1>12, <1>13, <1>14, <1>15, <1>16

\* A retry is begun.
LEMMA TakeRetryKept == ReportsIInv /\ TakeRetry => ReportsIInv'
<1> SUFFICES ASSUME ReportsIInv, TakeRetry PROVE ReportsIInv'
  OBVIOUS
<1> USE DEF ReportsIInv
<1>1. /\ pc = "head" /\ queue # <<>> /\ queue' = Tail(queue)
      /\ UNCHANGED <<due, renewals, attempted, round, later, stop, anew, truth, dropped>>
  BY DEF TakeRetry
<1> DEFINE h == Head(queue)
  whose == Flushed(Who(h), Tail(queue))
<1>2. /\ h \in Runs /\ Tail(queue) \in Seq(Runs) /\ h \in ToSet(queue)
      /\ ToSet(Tail(queue)) \subseteq ToSet(queue) /\ ToSet(queue) \subseteq Runs
          /\ ToSet(later) \subseteq Runs
  BY <1>1, ListFacts DEF TypeOK
<1>3. reports[h] # "none" /\ told[h] \in {"none", "pending"}
  BY <1>1, <1>2 DEF AheadIsOpen, Ahead, Pend
<1>4. whose \subseteq Chars /\ Who(h) \notin whose /\ Who(h) \in Chars
      /\ \A r \in ToSet(Tail(queue)) \cup ToSet(later) : Who(r) \notin whose
  BY <1>2, FlushedFacts, RunOfChar
<1>5. /\ reports'[h] = "pending" /\ told'[h] = told[h] /\ run' = <<h>> /\ pc' = "device"
      /\ \A s \in Runs : s # h =>
            IF Who(s) \in whose
            THEN reports'[s] = "none"
                   /\ told'[s] = IF reports[s] = "none" THEN told[s] ELSE reports[s]
            ELSE reports'[s] = reports[s] /\ told'[s] = told[s]
      /\ \A c \in Chars : sent'[c] = IF c \in whose /\ HasReport(c) THEN sent[c] + 1 ELSE sent[c]
      /\ \A c \in Chars : status'[c] = "interrupted" =>
            status[c] = "interrupted" \/ \E s \in Runs : reports[s] = "pending"
  BY <1>2, BeginFacts, ZenonT(120) DEF TakeRetry
<1>6. /\ told' \in [Runs -> Outcomes] /\ sent' \in [Chars -> Nat]
      /\ reports' \in [Runs -> Outcomes] /\ active' \in Chars
      /\ status' \in [Chars -> {"none", "interrupted", "partly", "done"}]
  BY <1>2, BeginFacts DEF TakeRetry
<1> HIDE DEF h, whose
<1>7. TypeOK'
  <2>1. run' \in Seq(Runs) /\ Len(run') <= 1 /\ pc' \in Labels
    BY <1>2, <1>5 DEF Labels, h
  <2>2. queue' \in Seq(Runs)
    BY <1>1, <1>2
  <2> QED BY <1>1, <1>6, <2>1, <2>2 DEF TypeOK
<1>8. AtWork'
  BY <1>1, <1>2, <1>3, <1>4, <1>5, <1>6 DEF AtWork, Working, Pend
<1>9. AheadIsOpen'
  BY <1>1, <1>2, <1>3, <1>4, <1>5, <1>6, ZenonT(120) DEF AheadIsOpen, Ahead, Pend
<1>10. PendingIsExcused'
  BY <1>1, <1>2, <1>3, <1>4, <1>5, <1>6 DEF PendingIsExcused, Working
<1>11. ReportIsTrue'
  BY <1>1, <1>2, <1>3, <1>4, <1>5, <1>6 DEF ReportIsTrue
<1>12. NoFalseVerdict'
  BY <1>1, <1>2, <1>3, <1>4, <1>5, <1>6 DEF NoFalseVerdict, ReportIsTrue
<1>13. TriedOnce'
  BY <1>1, <1>2, <1>3, <1>4, <1>5, <1>6 DEF TriedOnce
<1>14. Answered'
  <2>1. ASSUME NEW r \in Runs, truth'[r] # "none", reports'[r] = "none"
        PROVE  told'[r] = truth'[r] \/ (told'[r] = "pending" /\ (stop' # "no" \/ r \in dropped'))
    <3>1. /\ truth'[r] = truth[r] /\ stop' = stop /\ dropped' = dropped
          /\ told'[r] = IF reports[r] = "none" THEN told[r] ELSE reports[r]
      BY <1>1, <1>2, <1>3, <1>4, <1>5, <1>6, <2>1
    <3>2. CASE reports[r] = "none"
      BY <2>1, <3>1, <3>2 DEF Answered
    <3>3. CASE reports[r] = "pending"
      BY <1>1, <3>1, <3>3 DEF PendingIsExcused, Working
    <3>4. CASE reports[r] \in {"success", "failed"}
      BY <3>1, <3>4 DEF ReportIsTrue
    <3> QED BY <3>2, <3>3, <3>4 DEF TypeOK, Outcomes
  <2> QED BY <1>1, <1>2, <1>3, <1>4, <1>5, <1>6, <2>1 DEF Answered
<1>15. Counted'
  <2>1. ASSUME NEW c \in Chars
        PROVE  sent'[c] <= IF HasReport(c)' THEN anew'[c] ELSE 1 + anew'[c]
    <3>1. /\ sent[c] \in Nat /\ anew[c] \in Nat
          /\ sent[c] <= IF HasReport(c) THEN anew[c] ELSE 1 + anew[c]
      BY DEF Counted, TypeOK
    <3>2. CASE c \in whose
      <4>1. ~HasReport(c)' /\ anew'[c] = anew[c]
        BY <1>1, <1>2, <1>3, <1>4, <1>5, <1>6, <3>2, HasReportNext
      <4>2. sent'[c] = IF HasReport(c) THEN sent[c] + 1 ELSE sent[c]
        BY <1>1, <1>2, <1>3, <1>4, <1>5, <1>6, <3>2
      <4> QED BY <3>1, <4>1, <4>2
    <3>3. CASE c \notin whose /\ c # Who(h)
      <4>1. (HasReport(c)' <=> HasReport(c)) /\ anew'[c] = anew[c]
        BY <1>1, <1>2, <1>3, <1>4, <1>5, <1>6, <3>3, HasReportMeans, HasReportNext, ZenonT(120)
      <4>2. sent'[c] = sent[c]
        BY <1>1, <1>2, <1>3, <1>4, <1>5, <1>6, <3>3
      <4> QED BY <3>1, <4>1, <4>2
    <3>4. CASE c = Who(h)
      <4>1. HasReport(c)' /\ sent'[c] = sent[c]
        BY <1>1, <1>2, <1>3, <1>4, <1>5, <3>4, HasReportNext
      <4>2. HasReport(c) /\ anew'[c] = anew[c]
        BY <1>1, <1>2, <1>3, <3>4, HasReportMeans
      <4> QED BY <3>1, <4>1, <4>2
    <3> QED BY <3>2, <3>3, <3>4
  <2> QED BY <2>1 DEF Counted
<1>16. LeftForCause'
  BY <1>1, <1>2, <1>3, <1>4, <1>5, <1>6 DEF LeftForCause
<1>17. InterruptedOnlySo'
  BY <1>1, <1>2, <1>3, <1>4, <1>5, <1>6 DEF InterruptedOnlySo, PendingIsExcused, Working
<1> QED BY <1>7, <1>8, <1>9, <1>10, <1>11, <1>12, <1>13, <1>14, <1>15, <1>16, <1>17

\* A fresh run is begun.
LEMMA TakeFreshKept == ReportsIInv /\ TakeFresh => ReportsIInv'
<1> SUFFICES ASSUME ReportsIInv, TakeFresh PROVE ReportsIInv'
  OBVIOUS
<1> USE DEF ReportsIInv
<1> SUFFICES ASSUME NEW h \in Fresh, Begin(h, queue),
                    anew' = IF sent[Who(h)] > 0 /\ ~HasReport(Who(h))
                            THEN [anew EXCEPT ![Who(h)] = @ + 1] ELSE anew
             PROVE ReportsIInv'
  BY DEF TakeFresh
<1>1. /\ pc = "head" /\ queue = <<>>
      /\ UNCHANGED <<due, renewals, attempted, round, queue, later, stop, truth, dropped>>
  BY DEF TakeFresh, lists
<1> DEFINE whose == Flushed(Who(h), queue)
<1>2. h \in Runs /\ h \notin attempted /\ round = 0 /\ queue \in Seq(Runs)
      /\ ToSet(queue) \subseteq Runs /\ ToSet(later) \subseteq Runs
  BY ListFacts DEF Fresh, DueOf, TypeOK
<1>3. told[h] \in {"none", "pending"}
  BY <1>2 DEF TypeOK, TriedOnce, NoFalseVerdict, Outcomes
<1>4. whose \subseteq Chars /\ Who(h) \notin whose /\ Who(h) \in Chars
      /\ \A r \in ToSet(queue) \cup ToSet(later) : Who(r) \notin whose
  BY <1>2, FlushedFacts, RunOfChar
<1>5. /\ reports'[h] = "pending" /\ told'[h] = told[h] /\ run' = <<h>> /\ pc' = "device"
      /\ \A s \in Runs : s # h =>
            IF Who(s) \in whose
            THEN reports'[s] = "none"
                   /\ told'[s] = IF reports[s] = "none" THEN told[s] ELSE reports[s]
            ELSE reports'[s] = reports[s] /\ told'[s] = told[s]
      /\ \A c \in Chars : sent'[c] = IF c \in whose /\ HasReport(c) THEN sent[c] + 1 ELSE sent[c]
      /\ \A c \in Chars : status'[c] = "interrupted" =>
            status[c] = "interrupted" \/ \E s \in Runs : reports[s] = "pending"
  BY <1>2, BeginFacts
<1>6. /\ told' \in [Runs -> Outcomes] /\ sent' \in [Chars -> Nat]
      /\ reports' \in [Runs -> Outcomes] /\ active' \in Chars
      /\ status' \in [Chars -> {"none", "interrupted", "partly", "done"}]
  BY <1>2, BeginFacts
<1> HIDE DEF whose
<1>7. TypeOK'
  <2>1. run' \in Seq(Runs) /\ Len(run') <= 1 /\ pc' \in Labels
    BY <1>2, <1>5 DEF Labels
  <2>2. anew' \in [Chars -> Nat]
    BY <1>4 DEF TypeOK
  <2> QED BY <1>1, <1>6, <2>1, <2>2 DEF TypeOK
<1>8. AtWork'
  BY <1>1, <1>2, <1>3, <1>4, <1>5, <1>6 DEF AtWork, Working, Pend
<1>9. AheadIsOpen'
  BY <1>1, <1>2, <1>3, <1>4, <1>5, <1>6 DEF AheadIsOpen, Ahead, Pend
<1>10. PendingIsExcused'
  BY <1>1, <1>2, <1>3, <1>4, <1>5, <1>6 DEF PendingIsExcused, Working
<1>11. ReportIsTrue'
  BY <1>1, <1>2, <1>3, <1>4, <1>5, <1>6 DEF ReportIsTrue
<1>12. NoFalseVerdict'
  BY <1>1, <1>2, <1>3, <1>4, <1>5, <1>6, SMTT(60) DEF NoFalseVerdict, ReportIsTrue
<1>13. TriedOnce'
  BY <1>1, <1>2, <1>3, <1>4, <1>5, <1>6 DEF TriedOnce
<1>14. Answered'
  <2>1. ASSUME NEW r \in Runs, truth'[r] # "none", reports'[r] = "none"
        PROVE  told'[r] = truth'[r] \/ (told'[r] = "pending" /\ (stop' # "no" \/ r \in dropped'))
    <3>1. /\ truth'[r] = truth[r] /\ stop' = stop /\ dropped' = dropped
          /\ told'[r] = IF reports[r] = "none" THEN told[r] ELSE reports[r]
      BY <1>1, <1>2, <1>3, <1>4, <1>5, <1>6, <2>1
    <3>2. CASE reports[r] = "none"
      BY <2>1, <3>1, <3>2 DEF Answered
    <3>3. CASE reports[r] = "pending"
      BY <1>1, <3>1, <3>3 DEF PendingIsExcused, Working
    <3>4. CASE reports[r] \in {"success", "failed"}
      BY <3>1, <3>4 DEF ReportIsTrue
    <3> QED BY <3>2, <3>3, <3>4 DEF TypeOK, Outcomes
  <2> QED BY <1>1, <1>2, <1>3, <1>4, <1>5, <1>6, <2>1 DEF Answered
<1>15. Counted'
  <2>1. ASSUME NEW c \in Chars
        PROVE  sent'[c] <= IF HasReport(c)' THEN anew'[c] ELSE 1 + anew'[c]
    <3>1. /\ sent[c] \in Nat /\ anew[c] \in Nat
          /\ sent[c] <= IF HasReport(c) THEN anew[c] ELSE 1 + anew[c]
      BY DEF Counted, TypeOK
    <3>2. CASE c \in whose
      <4>1. ~HasReport(c)' /\ anew'[c] = anew[c]
        BY <1>2, <1>4, <1>5, <3>2, HasReportNext, SMTT(60) DEF TypeOK
      <4>2. sent'[c] = IF HasReport(c) THEN sent[c] + 1 ELSE sent[c]
        BY <1>1, <1>2, <1>3, <1>4, <1>5, <1>6, <3>2
      <4> QED BY <3>1, <4>1, <4>2
    <3>3. CASE c \notin whose /\ c # Who(h)
      <4>1. (HasReport(c)' <=> HasReport(c)) /\ anew'[c] = anew[c]
        BY <1>2, <1>4, <1>5, <3>3, HasReportMeans, HasReportNext, ZenonT(120) DEF TypeOK
      <4>2. sent'[c] = sent[c]
        BY <1>1, <1>2, <1>3, <1>4, <1>5, <1>6, <3>3
      <4> QED BY <3>1, <4>1, <4>2
    <3>4. CASE c = Who(h)
      <4>1. HasReport(c)' /\ sent'[c] = sent[c]
        BY <1>1, <1>2, <1>3, <1>4, <1>5, <3>4, HasReportNext
      <4>2. anew'[c] = IF sent[c] > 0 /\ ~HasReport(c) THEN anew[c] + 1 ELSE anew[c]
        BY <3>4 DEF TypeOK
      <4> QED BY <3>1, <4>1, <4>2
    <3> QED BY <3>2, <3>3, <3>4
  <2> QED BY <2>1 DEF Counted
<1>16. LeftForCause'
  BY <1>1, <1>2, <1>3, <1>4, <1>5, <1>6 DEF LeftForCause
<1>17. InterruptedOnlySo'
  BY <1>1, <1>2, <1>3, <1>4, <1>5, <1>6 DEF InterruptedOnlySo, PendingIsExcused, Working
<1> QED BY <1>7, <1>8, <1>9, <1>10, <1>11, <1>12, <1>13, <1>14, <1>15, <1>16, <1>17

\* The next round begins.
LEMMA NextRoundKept == ReportsIInv /\ NextRound => ReportsIInv'
<1> SUFFICES ASSUME ReportsIInv, NextRound PROVE ReportsIInv'
  OBVIOUS
<1> USE DEF ReportsIInv
<1> DEFINE who == IF round = 0 THEN Collected ELSE active
           whose == Flushed(who, queue)
<1>1. /\ pc = "head" /\ queue = <<>> /\ active' = who
      /\ Publish(whose, FALSE) /\ reports' = Without(whose)
  BY DEF NextRound, NoneLeft
<1>2. queue \in Seq(Runs) /\ ToSet(queue) \subseteq Runs /\ ToSet(later) \subseteq Runs
      /\ who \in Chars /\ later \in Seq(Runs)
  BY ListFacts, CollectedIsOne DEF TypeOK
<1>3. whose \subseteq Chars
      /\ \A r \in ToSet(queue) \cup ToSet(later) : Who(r) \notin whose
  BY <1>2, FlushedFacts
<1>4. /\ \A s \in Runs :
            IF Who(s) \in whose
            THEN reports'[s] = "none"
                   /\ told'[s] = IF reports[s] = "none" THEN told[s] ELSE reports[s]
            ELSE reports'[s] = reports[s] /\ told'[s] = told[s]
      /\ \A c \in Chars : sent'[c] = IF c \in whose /\ HasReport(c) THEN sent[c] + 1 ELSE sent[c]
      /\ \A c \in Chars : status'[c] = "interrupted" =>
            status[c] = "interrupted" \/ \E s \in Runs : reports[s] = "pending"
  BY <1>1, <1>3, FlushFacts
<1>5. /\ told' \in [Runs -> Outcomes] /\ sent' \in [Chars -> Nat]
      /\ reports' \in [Runs -> Outcomes] /\ active' \in Chars
      /\ status' \in [Chars -> {"none", "interrupted", "partly", "done"}]
  BY <1>1, <1>2, <1>3, FlushFacts
<1>6. /\ later # <<>> /\ round + 1 < MaxAttempts /\ round' = round + 1
      /\ queue' = later /\ later' = <<>> /\ attempted' = {}
      /\ UNCHANGED <<due, renewals, pc, run, stop, anew, truth, dropped>>
  BY DEF NextRound, MayRetry
<1> HIDE DEF who, whose
<1>7. TypeOK'
  BY <1>1, <1>2, <1>3, <1>4, <1>5, <1>6, ListFacts, BoundsAssumption, SMTT(60) DEF TypeOK, Labels
<1>8. AtWork'
  BY <1>1, <1>2, <1>3, <1>4, <1>5, <1>6 DEF AtWork, Working, Pend
<1>9. AheadIsOpen'
  BY <1>1, <1>2, <1>3, <1>4, <1>5, <1>6, ListFacts DEF AheadIsOpen, Ahead, Pend
<1>10. PendingIsExcused'
  BY <1>1, <1>2, <1>3, <1>4, <1>5, <1>6 DEF PendingIsExcused, Working
<1>11. ReportIsTrue'
  BY <1>1, <1>2, <1>3, <1>4, <1>5, <1>6 DEF ReportIsTrue
<1>12. NoFalseVerdict'
  BY <1>1, <1>2, <1>3, <1>4, <1>5, <1>6 DEF NoFalseVerdict, ReportIsTrue
<1>13. TriedOnce'
  BY <1>1, <1>2, <1>3, <1>4, <1>5, <1>6 DEF TriedOnce, TypeOK
<1>14. Answered'
  <2>1. ASSUME NEW r \in Runs, truth'[r] # "none", reports'[r] = "none"
        PROVE  told'[r] = truth'[r] \/ (told'[r] = "pending" /\ (stop' # "no" \/ r \in dropped'))
    <3>1. /\ truth'[r] = truth[r] /\ stop' = stop /\ dropped' = dropped
          /\ told'[r] = IF reports[r] = "none" THEN told[r] ELSE reports[r]
      BY <1>1, <1>2, <1>3, <1>4, <1>5, <1>6, <2>1
    <3>2. CASE reports[r] = "none"
      BY <2>1, <3>1, <3>2 DEF Answered
    <3>3. CASE reports[r] = "pending"
      BY <1>1, <3>1, <3>3 DEF PendingIsExcused, Working
    <3>4. CASE reports[r] \in {"success", "failed"}
      BY <3>1, <3>4 DEF ReportIsTrue
    <3> QED BY <3>2, <3>3, <3>4 DEF TypeOK, Outcomes
  <2> QED BY <1>1, <1>2, <1>3, <1>4, <1>5, <1>6, <2>1 DEF Answered
<1>15. Counted'
  <2>1. ASSUME NEW c \in Chars
        PROVE  sent'[c] <= IF HasReport(c)' THEN anew'[c] ELSE 1 + anew'[c]
    <3>1. /\ sent[c] \in Nat /\ anew[c] \in Nat
          /\ sent[c] <= IF HasReport(c) THEN anew[c] ELSE 1 + anew[c]
      BY DEF Counted, TypeOK
    <3>2. CASE c \in whose
      <4>1. ~HasReport(c)' /\ anew'[c] = anew[c]
        BY <1>1, <1>2, <1>3, <1>4, <1>5, <1>6, <3>2, HasReportNext
      <4>2. sent'[c] = IF HasReport(c) THEN sent[c] + 1 ELSE sent[c]
        BY <1>1, <1>2, <1>3, <1>4, <1>5, <1>6, <3>2
      <4> QED BY <3>1, <4>1, <4>2
    <3>3. CASE c \notin whose
      <4>1. (HasReport(c)' <=> HasReport(c)) /\ anew'[c] = anew[c]
        BY <1>1, <1>2, <1>3, <1>4, <1>5, <1>6, <3>3, HasReportMeans, HasReportNext
      <4>2. sent'[c] = sent[c]
        BY <1>1, <1>2, <1>3, <1>4, <1>5, <1>6, <3>3
      <4> QED BY <3>1, <4>1, <4>2
    <3> QED BY <3>2, <3>3
  <2> QED BY <2>1 DEF Counted
<1>16. LeftForCause'
  BY <1>1, <1>2, <1>3, <1>4, <1>5, <1>6 DEF LeftForCause
<1>17. InterruptedOnlySo'
  BY <1>1, <1>2, <1>3, <1>4, <1>5, <1>6 DEF InterruptedOnlySo, PendingIsExcused, Working
<1> QED BY <1>7, <1>8, <1>9, <1>10, <1>11, <1>12, <1>13, <1>14, <1>15, <1>16, <1>17

\* The loop comes to its end.
LEMMA CompleteKept == ReportsIInv /\ Complete => ReportsIInv'
<1> SUFFICES ASSUME ReportsIInv, Complete PROVE ReportsIInv'
  OBVIOUS
<1> USE DEF ReportsIInv
<1> DEFINE who == IF round = 0 THEN Collected ELSE active
           whose == Flushed(who, queue)
<1>1. /\ pc = "head" /\ queue = <<>> /\ active' = who
      /\ Publish(whose, FALSE) /\ reports' = Without(whose)
  BY DEF Complete, NoneLeft
<1>2. queue \in Seq(Runs) /\ ToSet(queue) \subseteq Runs /\ ToSet(later) \subseteq Runs
      /\ who \in Chars /\ later \in Seq(Runs)
  BY ListFacts, CollectedIsOne DEF TypeOK
<1>3. whose \subseteq Chars
      /\ \A r \in ToSet(queue) \cup ToSet(later) : Who(r) \notin whose
  BY <1>2, FlushedFacts
<1>4. /\ \A s \in Runs :
            IF Who(s) \in whose
            THEN reports'[s] = "none"
                   /\ told'[s] = IF reports[s] = "none" THEN told[s] ELSE reports[s]
            ELSE reports'[s] = reports[s] /\ told'[s] = told[s]
      /\ \A c \in Chars : sent'[c] = IF c \in whose /\ HasReport(c) THEN sent[c] + 1 ELSE sent[c]
      /\ \A c \in Chars : status'[c] = "interrupted" =>
            status[c] = "interrupted" \/ \E s \in Runs : reports[s] = "pending"
  BY <1>1, <1>3, FlushFacts
<1>5. /\ told' \in [Runs -> Outcomes] /\ sent' \in [Chars -> Nat]
      /\ reports' \in [Runs -> Outcomes] /\ active' \in Chars
      /\ status' \in [Chars -> {"none", "interrupted", "partly", "done"}]
  BY <1>1, <1>2, <1>3, FlushFacts
<1>6. /\ pc' = "completed"
      /\ UNCHANGED <<due, renewals, attempted, round, queue, later, run, stop, anew, truth,
          dropped>>
  BY DEF Complete, lists
<1> HIDE DEF who, whose
<1>7. TypeOK'
  BY <1>1, <1>2, <1>3, <1>4, <1>5, <1>6 DEF TypeOK, Labels
<1>8. AtWork'
  BY <1>1, <1>2, <1>3, <1>4, <1>5, <1>6 DEF AtWork, Working, Pend
<1>9. AheadIsOpen'
  BY <1>1, <1>2, <1>3, <1>4, <1>5, <1>6 DEF AheadIsOpen, Ahead, Pend
<1>10. PendingIsExcused'
  BY <1>1, <1>2, <1>3, <1>4, <1>5, <1>6 DEF PendingIsExcused, Working
<1>11. ReportIsTrue'
  BY <1>1, <1>2, <1>3, <1>4, <1>5, <1>6 DEF ReportIsTrue
<1>12. NoFalseVerdict'
  BY <1>1, <1>2, <1>3, <1>4, <1>5, <1>6 DEF NoFalseVerdict, ReportIsTrue
<1>13. TriedOnce'
  BY <1>1, <1>2, <1>3, <1>4, <1>5, <1>6 DEF TriedOnce
<1>14. Answered'
  <2>1. ASSUME NEW r \in Runs, truth'[r] # "none", reports'[r] = "none"
        PROVE  told'[r] = truth'[r] \/ (told'[r] = "pending" /\ (stop' # "no" \/ r \in dropped'))
    <3>1. /\ truth'[r] = truth[r] /\ stop' = stop /\ dropped' = dropped
          /\ told'[r] = IF reports[r] = "none" THEN told[r] ELSE reports[r]
      BY <1>1, <1>2, <1>3, <1>4, <1>5, <1>6, <2>1
    <3>2. CASE reports[r] = "none"
      BY <2>1, <3>1, <3>2 DEF Answered
    <3>3. CASE reports[r] = "pending"
      BY <1>1, <3>1, <3>3 DEF PendingIsExcused, Working
    <3>4. CASE reports[r] \in {"success", "failed"}
      BY <3>1, <3>4 DEF ReportIsTrue
    <3> QED BY <3>2, <3>3, <3>4 DEF TypeOK, Outcomes
  <2> QED BY <1>1, <1>2, <1>3, <1>4, <1>5, <1>6, <2>1 DEF Answered
<1>15. Counted'
  <2>1. ASSUME NEW c \in Chars
        PROVE  sent'[c] <= IF HasReport(c)' THEN anew'[c] ELSE 1 + anew'[c]
    <3>1. /\ sent[c] \in Nat /\ anew[c] \in Nat
          /\ sent[c] <= IF HasReport(c) THEN anew[c] ELSE 1 + anew[c]
      BY DEF Counted, TypeOK
    <3>2. CASE c \in whose
      <4>1. ~HasReport(c)' /\ anew'[c] = anew[c]
        BY <1>1, <1>2, <1>3, <1>4, <1>5, <1>6, <3>2, HasReportNext
      <4>2. sent'[c] = IF HasReport(c) THEN sent[c] + 1 ELSE sent[c]
        BY <1>1, <1>2, <1>3, <1>4, <1>5, <1>6, <3>2
      <4> QED BY <3>1, <4>1, <4>2
    <3>3. CASE c \notin whose
      <4>1. (HasReport(c)' <=> HasReport(c)) /\ anew'[c] = anew[c]
        BY <1>1, <1>2, <1>3, <1>4, <1>5, <1>6, <3>3, HasReportMeans, HasReportNext
      <4>2. sent'[c] = sent[c]
        BY <1>1, <1>2, <1>3, <1>4, <1>5, <1>6, <3>3
      <4> QED BY <3>1, <4>1, <4>2
    <3> QED BY <3>2, <3>3
  <2> QED BY <2>1 DEF Counted
<1>16. LeftForCause'
  BY <1>1, <1>2, <1>3, <1>4, <1>5, <1>6 DEF LeftForCause
<1>17. InterruptedOnlySo'
  BY <1>1, <1>2, <1>3, <1>4, <1>5, <1>6 DEF InterruptedOnlySo, PendingIsExcused, Working
<1> QED BY <1>7, <1>8, <1>9, <1>10, <1>11, <1>12, <1>13, <1>14, <1>15, <1>16, <1>17

\* Whatever is left is published.
LEMMA FinishKept == ReportsIInv /\ Finish => ReportsIInv'
<1> SUFFICES ASSUME ReportsIInv, Finish PROVE ReportsIInv'
  OBVIOUS
<1> USE DEF ReportsIInv
<1>1. /\ pc \in {"left", "completed"} /\ pc' = "over"
      /\ UNCHANGED <<due, renewals, attempted, round, queue, later, active, run, stop, anew,
          truth, dropped>>
  BY DEF Finish, lists, Goto
<1>2. /\ Publish(Chars, pc = "left" \/ stop = "cancel") /\ reports' = Without(Chars)
  BY RunOfChar DEF Finish, Without
<1>3. (pc = "left" \/ stop = "cancel") \in BOOLEAN
  OBVIOUS
<1>4. /\ \A s \in Runs : reports'[s] = "none"
                   /\ told'[s] = IF reports[s] = "none" THEN told[s] ELSE reports[s]
      /\ \A c \in Chars : sent'[c] = IF HasReport(c) THEN sent[c] + 1 ELSE sent[c]
      /\ \A c \in Chars : status'[c] = "interrupted" =>
            \/ status[c] = "interrupted" \/ pc = "left" \/ stop = "cancel"
            \/ \E s \in Runs : reports[s] = "pending"
  BY <1>2, <1>3, FlushFacts, RunOfChar
<1>5. /\ told' \in [Runs -> Outcomes] /\ sent' \in [Chars -> Nat]
      /\ reports' \in [Runs -> Outcomes]
      /\ status' \in [Chars -> {"none", "interrupted", "partly", "done"}]
  BY <1>2, <1>3, FlushFacts
<1>6. TypeOK'
  BY <1>1, <1>2, <1>3, <1>4, <1>5 DEF TypeOK, Labels
<1>7. AtWork'
  BY <1>1, <1>2, <1>3, <1>4, <1>5 DEF AtWork, Working, Pend
<1>8. AheadIsOpen'
  BY <1>1, <1>2, <1>3, <1>4, <1>5 DEF AheadIsOpen, Ahead, Pend
<1>9. PendingIsExcused'
  BY <1>1, <1>2, <1>3, <1>4, <1>5 DEF PendingIsExcused, Working
<1>10. ReportIsTrue'
  BY <1>1, <1>2, <1>3, <1>4, <1>5 DEF ReportIsTrue
<1>11. NoFalseVerdict'
  BY <1>1, <1>2, <1>3, <1>4, <1>5 DEF NoFalseVerdict, ReportIsTrue
<1>12. TriedOnce'
  BY <1>1, <1>2, <1>3, <1>4, <1>5 DEF TriedOnce
<1>13. Answered'
  <2>1. ASSUME NEW r \in Runs, truth'[r] # "none", reports'[r] = "none"
        PROVE  told'[r] = truth'[r] \/ (told'[r] = "pending" /\ (stop' # "no" \/ r \in dropped'))
    <3>1. /\ truth'[r] = truth[r] /\ stop' = stop /\ dropped' = dropped
          /\ told'[r] = IF reports[r] = "none" THEN told[r] ELSE reports[r]
      BY <1>1, <1>2, <1>3, <1>4, <1>5, <2>1
    <3>2. CASE reports[r] = "none"
      BY <2>1, <3>1, <3>2 DEF Answered
    <3>3. CASE reports[r] = "pending"
      BY <1>1, <3>1, <3>3 DEF PendingIsExcused, Working
    <3>4. CASE reports[r] \in {"success", "failed"}
      BY <3>1, <3>4 DEF ReportIsTrue
    <3> QED BY <3>2, <3>3, <3>4 DEF TypeOK, Outcomes
  <2> QED BY <1>1, <1>2, <1>3, <1>4, <1>5, <2>1 DEF Answered
<1>14. Counted'
  <2>1. ASSUME NEW c \in Chars
        PROVE  sent'[c] <= IF HasReport(c)' THEN anew'[c] ELSE 1 + anew'[c]
    <3>1. /\ sent[c] \in Nat /\ anew[c] \in Nat
          /\ sent[c] <= IF HasReport(c) THEN anew[c] ELSE 1 + anew[c]
      BY DEF Counted, TypeOK
    <3>2. CASE c \in Chars
      <4>1. ~HasReport(c)' /\ anew'[c] = anew[c]
        BY <1>1, <1>2, <1>3, <1>4, <1>5, <3>2, HasReportNext
      <4>2. sent'[c] = IF HasReport(c) THEN sent[c] + 1 ELSE sent[c]
        BY <1>1, <1>2, <1>3, <1>4, <1>5, <3>2
      <4> QED BY <3>1, <4>1, <4>2
    <3> QED BY <3>2
  <2> QED BY <2>1 DEF Counted
<1>15. LeftForCause'
  BY <1>1, <1>2, <1>3, <1>4, <1>5 DEF LeftForCause
<1>16. InterruptedOnlySo'
  BY <1>1, <1>2, <1>3, <1>4, <1>5 DEF InterruptedOnlySo, PendingIsExcused, Working, LeftForCause
<1> QED BY <1>6, <1>7, <1>8, <1>9, <1>10, <1>11, <1>12, <1>13, <1>14, <1>15, <1>16

\* Nothing is reported in the beginning.
LEMMA InitReportsIInv == Init => ReportsIInv
<1> SUFFICES ASSUME Init PROVE ReportsIInv
  OBVIOUS
<1>1. TypeOK
  BY BoundsAssumption, ListFacts DEF Init, TypeOK, Labels, Outcomes
<1>2. AtWork /\ AheadIsOpen /\ LeftForCause
  BY ListFacts DEF Init, AtWork, Working, AheadIsOpen, Ahead, LeftForCause
<1>3. PendingIsExcused /\ ReportIsTrue /\ NoFalseVerdict /\ TriedOnce /\ Answered
  BY DEF Init, PendingIsExcused, ReportIsTrue, NoFalseVerdict, TriedOnce, Answered
<1>4. Counted
  BY DEF Init, Counted, HasReport, Reported
<1>5. InterruptedOnlySo
  BY DEF Init, InterruptedOnlySo
<1> QED BY <1>1, <1>2, <1>3, <1>4, <1>5 DEF ReportsIInv

\* A stutter changes nothing of it.
LEMMA ReportsStutterKept == ReportsIInv /\ UNCHANGED vars => ReportsIInv'
<1> SUFFICES ASSUME ReportsIInv, UNCHANGED vars PROVE ReportsIInv'
  OBVIOUS
<1>1. TypeOK'
  BY DEF ReportsIInv, TypeOK, vars, lists, published
<1>2. (AtWork /\ AheadIsOpen /\ LeftForCause /\ InterruptedOnlySo)'
  BY DEF ReportsIInv, AtWork, Working, AheadIsOpen, Ahead, LeftForCause, InterruptedOnlySo,
      vars, lists, published
<1>3. (PendingIsExcused /\ ReportIsTrue /\ NoFalseVerdict /\ TriedOnce /\ Answered)'
  BY DEF ReportsIInv, PendingIsExcused, Working, ReportIsTrue, NoFalseVerdict, TriedOnce,
      Answered, vars, lists, published
<1>4. Counted'
  BY DEF ReportsIInv, Counted, HasReport, Reported, vars, lists, published
<1> QED BY <1>1, <1>2, <1>3, <1>4 DEF ReportsIInv

\* What the invariant says of the reports.
LEMMA ReportsIInvMeans == ReportsIInv => ReportsAreTrue
<1> SUFFICES ASSUME ReportsIInv PROVE ReportsAreTrue
  OBVIOUS
<1>1. LastWord
  BY DEF ReportsIInv, Answered, LastWord
<1>2. OneReport
  <2>1. ASSUME NEW c \in Chars PROVE sent[c] <= 1 + anew[c]
    <3>1. /\ sent[c] \in Nat /\ anew[c] \in Nat
          /\ sent[c] <= IF HasReport(c) THEN anew[c] ELSE 1 + anew[c]
      BY DEF ReportsIInv, Counted, TypeOK
    <3> QED BY <3>1
  <2> QED BY <2>1 DEF OneReport
<1> QED BY <1>1, <1>2 DEF ReportsIInv, ReportsAreTrue

\* What each run of a pipeline owes to its report and to what was told of it, for every queue of
\* characters, every set of tasks and every number of attempts.
THEOREM ReportsInvariant == Spec => []ReportsIInv
<1>1. ReportsIInv /\ [Next]_vars => ReportsIInv'
  <2> SUFFICES ASSUME ReportsIInv, [Next]_vars PROVE ReportsIInv'
    OBVIOUS
  <2>1. CASE TakeFresh \/ TakeRetry \/ SkipRetry \/ NextRound \/ Complete
    BY <2>1, TakeFreshKept, TakeRetryKept, SkipRetryKept, NextRoundKept, CompleteKept
  <2>2. CASE DeviceReady \/ DeviceFails \/ Abandon \/ LoggedIn \/ Succeeds \/ Fails
    BY <2>2, DeviceReadyKept, DeviceFailsKept, AbandonKept, LoggedInKept, SucceedsKept, FailsKept
  <2>3. CASE Stop \/ Leave \/ Finish \/ Arrives
    BY <2>3, StopKept, LeaveKept, FinishKept, ArrivesKept
  <2> QED BY <2>1, <2>2, <2>3, ReportsStutterKept DEF Next
<1> QED BY <1>1, InitReportsIInv, PTL DEF Spec

\* What a pipeline has told is so, is told of everything it attempted, and is told once
\* (delivery.py, and the places of _run_task_pipeline that record, flush and finish).
THEOREM ReportsTrue == Spec => []ReportsAreTrue
BY ReportsInvariant, ReportsIInvMeans, PTL

-----------------------------------------------------------------------------
(* The recorder of a debug run.                                            *)

\* The recorder keeps one segment at least; keep_segments is max(1, ...).
Limits == Keep \in Nat \ {0} /\ MaxSegments \in Nat

Held == Recorder!ToSet(segments)
Adding == main = "register" \/ rotor = "register"

\* The list is the newest of what this recording got going, and what is about to be added is
\* newer than all of it.
NewestAreHeld ==
    /\ begun \subseteq 1..index /\ Held \subseteq begun
    /\ \A i, j \in 1..Len(segments) : i < j => segments[i] < segments[j]
    /\ \A s \in begun \ Held :
          Len(segments) = Keep /\ \A i \in 1..Len(segments) : s < segments[i]
    /\ Adding => index # 0 /\ index \notin begun

\* Whose adb process is held, and by which of the two threads.
ProcessIsNewest ==
    /\ main \in {"idle", "launch", "register", "await", "pull", "clean"} => proc = 0
    /\ rotor \in {"wait", "finish"} => proc = index /\ index # 0
    /\ rotor \in {"await", "check", "launch", "register"} => proc = 0

\* As long as adb answers, the device records the newest segment or none, and has the files of
\* the list and of the segment that is being added.
OnDevice ==
    ~fault =>
        /\ writing \subseteq {index}
        /\ main \in {"idle", "launch", "pull", "clean"} => writing = {}
        /\ rotor \in {"check", "launch"} => writing = {}
        /\ rotor = "off" /\ main \in {"on", "join", "finish"} /\ proc = 0 => writing = {}
        /\ main # "idle" => files \subseteq Held \cup (IF Adding THEN {index} ELSE {})
        /\ main = "idle" => files \subseteq {0} /\ (index # 0 => files = {})
        /\ main = "clean" /\ keep => pulled = Held

\* The inductive invariant.
RecorderIInv == Recorder!TypeOK /\ NewestAreHeld /\ ProcessIsNewest /\ OnDevice


\* What the newest of a list are.
LEMMA NewestMeans ==
    ASSUME Limits, NEW s \in Seq(1..MaxSegments), Len(s) > Keep
    PROVE  /\ Recorder!Newest(s) \in Seq(1..MaxSegments)
           /\ Len(Recorder!Newest(s)) = Keep
           /\ \A i \in 1..Keep : Recorder!Newest(s)[i] = s[Len(s) - Keep + i]
<1>1. Recorder!Newest(s) = SubSeq(s, Len(s) - Keep + 1, Len(s))
  BY DEF Limits, Recorder!Newest
<1>2. Len(s) \in Nat /\ Keep \in Nat \ {0} /\ MaxSegments \in Nat
  BY DEF Limits
<1> DEFINE m == Len(s) - Keep + 1
<1>3. m \in 1..(Len(s) + 1) /\ Len(s) \in (m - 1)..Len(s)
  BY <1>2
<1>4. /\ SubSeq(s, m, Len(s)) \in Seq(1..MaxSegments)
      /\ Len(SubSeq(s, m, Len(s))) = Len(s) - m + 1
      /\ \A i \in 1..(Len(s) - m + 1) : SubSeq(s, m, Len(s))[i] = s[m + i - 1]
  <2> HIDE DEF m
  <2> QED BY <1>2, <1>3, SMTT(60)
<1>5. Len(s) - m + 1 = Keep /\ \A i \in 1..Keep : m + i - 1 = Len(s) - Keep + i
  BY <1>2
<1> QED BY <1>1, <1>4, <1>5

\* The list with a new segment is again the newest of what this recording got going.
LEMMA Added ==
    ASSUME Limits, Recorder!TypeOK, NewestAreHeld, index \notin begun, index # 0,
           Recorder!Register
    PROVE  /\ segments' \in Seq(1..MaxSegments) /\ Len(segments') <= Keep
           /\ begun' = begun \cup {index} /\ proc' = index
           /\ Held' \subseteq Held \cup {index} /\ index \in Held'
           /\ \A i, j \in 1..Len(segments') : i < j => segments'[i] < segments'[j]
           /\ \A s \in begun' \ Held' :
                 Len(segments') = Keep /\ \A i \in 1..Len(segments') : s < segments'[i]
           /\ \/ files' = files \ ((Held \cup {index}) \ Held') /\ UNCHANGED fault
              \/ UNCHANGED files /\ fault' = TRUE
<1> DEFINE all == Append(segments, index)
<1>1. /\ Keep \in Nat \ {0} /\ MaxSegments \in Nat
      /\ index \in 1..MaxSegments /\ segments \in Seq(1..MaxSegments) /\ Len(segments) \in Nat
      /\ Len(segments) <= Keep
      /\ begun \subseteq 1..(index - 1)
  BY DEF Limits, Recorder!TypeOK, NewestAreHeld
<1>2. /\ all \in Seq(1..MaxSegments) /\ Len(all) = Len(segments) + 1
      /\ \A i \in 1..Len(segments) : all[i] = segments[i]
      /\ all[Len(segments) + 1] = index
  BY <1>1
<1>3. segments' = Recorder!Newest(all) /\ begun' = begun \cup {index} /\ proc' = index
  BY DEF Recorder!Register
<1>4. Recorder!ToSet(all) = Held \cup {index}
  BY <1>1, <1>2, SMTT(60) DEF Recorder!ToSet, Held
<1>5. \A i \in 1..Len(segments) : segments[i] \in begun /\ segments[i] < index
  <2>1. ASSUME NEW i \in 1..Len(segments) PROVE segments[i] \in begun
    BY <1>1 DEF NewestAreHeld, Held, Recorder!ToSet
  <2> QED BY <1>1, <2>1
<1>6. \A i, j \in 1..Len(all) : i < j => all[i] < all[j]
  BY <1>1, <1>2, <1>5, SMTT(60) DEF NewestAreHeld
<1>7. \/ files' = files \ ((Held \cup {index}) \ Held') /\ UNCHANGED fault
      \/ UNCHANGED files /\ fault' = TRUE
  BY <1>3, <1>4 DEF Recorder!Register, Held
<1>8. CASE Len(all) <= Keep
  <2>1. segments' = all
    BY <1>3, <1>8 DEF Recorder!Newest
  <2>2. Held' = Held \cup {index}
    BY <2>1, <1>4 DEF Held
  <2>3. begun' \ Held' \subseteq begun \ Held
    BY <2>2, <1>3
  <2>4. \A s \in begun \ Held : Len(segments) = Keep
    BY DEF NewestAreHeld
  <2>5. begun' \ Held' = {}
    <3>1. Len(segments) # Keep
      BY <1>1, <1>2, <1>8
    <3> QED BY <3>1, <2>3, <2>4
  <2> QED BY <2>1, <2>2, <2>5, <1>1, <1>2, <1>3, <1>6, <1>7, <1>8
<1>9. CASE Len(all) > Keep
  <2>1. Len(segments) = Keep /\ Len(all) = Keep + 1
    BY <1>1, <1>2, <1>9
  <2>2. /\ segments' \in Seq(1..MaxSegments) /\ Len(segments') = Keep
        /\ \A i \in 1..Keep : segments'[i] = all[1 + i]
    <3> HIDE DEF all
    <3>1. /\ segments' \in Seq(1..MaxSegments) /\ Len(segments') = Keep
          /\ \A i \in 1..Keep : segments'[i] = all[Len(all) - Keep + i]
      BY <1>2, <1>3, <1>9, NewestMeans
    <3>2. \A i \in 1..Keep : Len(all) - Keep + i = 1 + i
      BY <2>1, <1>1
    <3> QED BY <3>1, <3>2
  <2>3. /\ \A i \in 1..Keep : segments'[i] = IF i = Keep THEN index ELSE segments[i + 1]
        /\ segments'[Keep] = index
    BY <2>1, <2>2, <1>1, <1>2
  <2>4. DOMAIN segments = 1..Keep /\ DOMAIN segments' = 1..Keep
    BY <1>1, <2>1, <2>2
  <2>5. Held' \subseteq Held \cup {index} /\ index \in Held'
    <3>1. index \in Held'
      BY <2>3, <2>4, <1>1, SMTT(60) DEF Held, Recorder!ToSet
    <3>2. ASSUME NEW i \in 1..Keep PROVE segments'[i] \in Held \cup {index}
      <4>1. CASE i = Keep
        BY <4>1, <2>3
      <4>2. CASE i # Keep
        <5>1. i + 1 \in 1..Keep /\ segments'[i] = segments[i + 1]
          BY <4>2, <2>3, <1>1
        <5> QED BY <5>1, <2>4 DEF Held, Recorder!ToSet
      <4> QED BY <4>1, <4>2
    <3> QED BY <3>1, <3>2, <2>4 DEF Held, Recorder!ToSet
  <2>6. \A i, j \in 1..Len(segments') : i < j => segments'[i] < segments'[j]
    <3> HIDE DEF all
    <3>1. ASSUME NEW i \in 1..Keep, NEW j \in 1..Keep, i < j
          PROVE  segments'[i] < segments'[j]
      <4>1. 1 + i \in 1..Len(all) /\ 1 + j \in 1..Len(all) /\ 1 + i < 1 + j
        BY <3>1, <2>1, <1>1
      <4>2. segments'[i] = all[1 + i] /\ segments'[j] = all[1 + j]
        BY <2>2
      <4> QED BY <4>1, <4>2, <1>6
    <3> QED BY <3>1, <2>2
  <2>7. ASSUME NEW s \in begun' \ Held', NEW i \in 1..Keep PROVE s < segments'[i]
    <3>1. s \in begun
      BY <2>5, <1>3
    <3>2. \A k \in 1..Keep : k # 1 => segments[k] \in Held'
      <4>1. ASSUME NEW k \in 1..Keep, k # 1 PROVE segments[k] \in Held'
        <5>1. k - 1 \in 1..Keep /\ segments'[k - 1] = segments[k]
          <6>1. k - 1 \in 1..Keep /\ k - 1 # Keep /\ (k - 1) + 1 = k
            BY <4>1, <1>1
          <6> QED BY <6>1, <2>3
        <5> QED BY <5>1, <2>4 DEF Held, Recorder!ToSet
      <4> QED BY <4>1
    <3>3. s \in Nat /\ s < index
      BY <3>1, <1>1
    <3>4. \A k \in 1..Keep : k # 1 => s < segments[k]
      <4>1. CASE s \in Held
        <5>1. PICK n \in 1..Keep : s = segments[n]
          BY <4>1, <2>4 DEF Held, Recorder!ToSet
        <5>2. n = 1
          BY <5>1, <3>2
        <5> QED BY <5>1, <5>2, <2>1, <1>1 DEF NewestAreHeld
      <4>2. CASE s \notin Held
        BY <4>2, <3>1, <2>1 DEF NewestAreHeld
      <4> QED BY <4>1, <4>2
    <3>5. CASE i = Keep
      BY <3>5, <3>3, <2>3
    <3>6. CASE i # Keep
      <4>1. i + 1 \in 1..Keep /\ i + 1 # 1 /\ segments'[i] = segments[i + 1]
        BY <3>6, <2>3, <1>1
      <4> QED BY <4>1, <3>4
    <3> QED BY <3>5, <3>6
  <2>8. \A s \in begun' \ Held' :
           Len(segments') = Keep /\ \A i \in 1..Len(segments') : s < segments'[i]
    BY <2>2, <2>7
  <2>9. Len(segments') <= Keep
    BY <2>2, <1>1
  <2> HIDE DEF all
  <2> QED BY <2>2, <2>5, <2>6, <2>8, <2>9, <1>3, <1>7
<1>10. Len(all) <= Keep \/ Len(all) > Keep
  BY <1>1, <1>2
<1> HIDE DEF all
<1> QED BY <1>8, <1>9, <1>10

\* After the segment is registered, by whichever of the two threads.
LEMMA AfterRegister ==
    ASSUME Limits, RecorderIInv, Adding, index # 0, index \notin begun, Recorder!Register,
           rotor' = "wait", main' \in {"on", "join"},
           UNCHANGED <<stopped, keep, index, writing, pulled>>
    PROVE  RecorderIInv'
<1>1. /\ segments' \in Seq(1..MaxSegments) /\ Len(segments') <= Keep
      /\ begun' = begun \cup {index} /\ proc' = index
      /\ Held' \subseteq Held \cup {index} /\ index \in Held'
      /\ \A i, j \in 1..Len(segments') : i < j => segments'[i] < segments'[j]
      /\ \A s \in begun' \ Held' :
            Len(segments') = Keep /\ \A i \in 1..Len(segments') : s < segments'[i]
      /\ \/ files' = files \ ((Held \cup {index}) \ Held') /\ UNCHANGED fault
         \/ UNCHANGED files /\ fault' = TRUE
  BY Added DEF RecorderIInv
<1>2. index \in 1..MaxSegments /\ index \in 1..index /\ Held \subseteq begun /\ ~Adding'
  BY DEF RecorderIInv, Recorder!TypeOK, NewestAreHeld, Adding, Limits
<1>3. Recorder!TypeOK'
  BY <1>1, <1>2 DEF RecorderIInv, Recorder!TypeOK
<1>4. NewestAreHeld'
  BY <1>1, <1>2 DEF RecorderIInv, NewestAreHeld
<1>5. ProcessIsNewest'
  BY <1>1 DEF ProcessIsNewest
<1>6. OnDevice'
  <2>1. ~fault' => ~fault /\ files' = files \ ((Held \cup {index}) \ Held')
    BY <1>1
  <2>2. ~fault => files \subseteq Held \cup {index} /\ writing \subseteq {index}
    BY DEF RecorderIInv, OnDevice, Adding, Recorder!TypeOK
  <2>3. ~fault' => files' \subseteq Held' /\ writing' \subseteq {index'}
    BY <2>1, <2>2
  <2> QED BY <2>3, <1>1, <1>2 DEF OnDevice
<1> QED BY <1>3, <1>4, <1>5, <1>6 DEF RecorderIInv

\* The recorder begins in it.
LEMMA InitRecorderIInv ==
    ASSUME Limits, Recorder!Init
    PROVE  RecorderIInv
<1>1. /\ main = "idle" /\ rotor = "off" /\ stopped = FALSE /\ keep = FALSE
      /\ index = 0 /\ proc = 0 /\ segments = <<>> /\ writing = {} /\ files \subseteq {0}
      /\ pulled = {} /\ begun = {} /\ fault = FALSE
  BY DEF Recorder!Init
<1>2. Keep \in Nat \ {0} /\ MaxSegments \in Nat
  BY DEF Limits
<1>3. segments \in Seq(1..MaxSegments) /\ Len(segments) = 0 /\ Held = {}
  BY <1>1 DEF Held, Recorder!ToSet
<1>4. Recorder!TypeOK
  <2>1. Len(segments) <= Keep /\ index \in 0..MaxSegments /\ proc \in 0..MaxSegments
    BY <1>1, <1>2, <1>3
  <2> QED BY <1>1, <1>3, <2>1 DEF Recorder!TypeOK
<1>5. NewestAreHeld
  BY <1>1, <1>3 DEF NewestAreHeld, Adding
<1>6. ProcessIsNewest
  BY <1>1 DEF ProcessIsNewest
<1>7. OnDevice
  BY <1>1 DEF OnDevice
<1> QED BY <1>4, <1>5, <1>6, <1>7 DEF RecorderIInv

\* The invariant holds on after a step that leaves the list and what is counted alone.
LEMMA ListKept ==
    ASSUME Limits, RecorderIInv, UNCHANGED <<index, segments, begun>>, Adding' => Adding
    PROVE  NewestAreHeld' /\ Held' = Held
<1>1. Held' = Held
  BY DEF Held
<1> QED BY <1>1 DEF RecorderIInv, NewestAreHeld

\* Every step of either thread, and of the device, keeps the invariant.
LEMMA NextRecorderIInv ==
    ASSUME Limits, RecorderIInv, [Recorder!Next]_(Recorder!vars)
    PROVE  RecorderIInv'
<1> USE DEF RecorderIInv
<1>1. CASE Recorder!Start
  <2>1. /\ main = "idle" /\ index < MaxSegments /\ main' = "launch" /\ stopped' = FALSE
        /\ segments' = <<>> /\ pulled' = {} /\ begun' = {}
        /\ UNCHANGED <<rotor, keep, index, proc, writing>>
        /\ fault' \in BOOLEAN /\ (files' = {} \/ files' = files)
        /\ (~fault' => files' = {} /\ writing = {})
    BY <1>1 DEF Recorder!Start, Recorder!TypeOK
  <2>2. rotor = "off" /\ proc = 0
    BY <2>1 DEF Recorder!TypeOK, ProcessIsNewest
  <2>3. segments' \in Seq(1..MaxSegments) /\ Len(segments') = 0 /\ Held' = {}
    BY <2>1 DEF Held, Recorder!ToSet
  <2>4. Recorder!TypeOK'
    <3>1. Len(segments') <= Keep
      BY <2>3 DEF Limits
    <3> QED BY <2>1, <2>2, <2>3, <3>1 DEF Recorder!TypeOK
  <2>5. NewestAreHeld'
    BY <2>1, <2>2, <2>3 DEF NewestAreHeld, Adding
  <2>6. ProcessIsNewest'
    BY <2>1, <2>2 DEF ProcessIsNewest
  <2>7. OnDevice'
    BY <2>1, <2>2 DEF OnDevice
  <2> QED BY <2>4, <2>5, <2>6, <2>7
<1>2. CASE Recorder!StartFirst
  <2>1. /\ main = "launch" /\ index < MaxSegments /\ index' = index + 1
        /\ \/ main' = "register" /\ writing' = writing \cup {index'} /\ files' = files \cup {index'}
           \/ main' = "on" /\ UNCHANGED <<writing, files>>
        /\ UNCHANGED <<rotor, stopped, keep, proc, segments, pulled, begun, fault>>
    BY <1>2 DEF Recorder!StartFirst, Recorder!Launch, Recorder!Refuse
  <2>2. /\ rotor = "off" /\ proc = 0 /\ ~Adding /\ (Adding' => main' = "register")
        /\ (main' = "register" => Adding')
    BY <2>1 DEF Recorder!TypeOK, ProcessIsNewest, Adding
  <2>3. index \in 0..MaxSegments /\ index' \in 0..MaxSegments /\ index' # 0 /\ index' \in 1..MaxSegments
        /\ MaxSegments \in Nat /\ begun \subseteq 1..index
    BY <2>1 DEF Recorder!TypeOK, Limits, NewestAreHeld
  <2>4. Recorder!TypeOK'
    BY <2>1, <2>2, <2>3 DEF Recorder!TypeOK
  <2>5. NewestAreHeld' /\ Held' = Held
    <3>1. begun \subseteq 1..index' /\ index' \notin begun
      BY <2>1, <2>3
    <3>2. Held' = Held
      BY <2>1 DEF Held
    <3> QED BY <2>1, <2>3, <3>1, <3>2 DEF NewestAreHeld
  <2>6. ProcessIsNewest'
    BY <2>1, <2>2 DEF ProcessIsNewest
  <2>7. OnDevice'
    <3>1. ~fault => writing = {} /\ files \subseteq Held
      BY <2>1, <2>2 DEF OnDevice
    <3> QED BY <3>1, <2>1, <2>2, <2>3, <2>5 DEF OnDevice
  <2> QED BY <2>4, <2>5, <2>6, <2>7
<1>3. CASE Recorder!Registered
  <2>1. /\ main = "register" /\ main' = "on" /\ rotor' = "wait" /\ Recorder!Register
        /\ UNCHANGED <<stopped, keep, index, writing, pulled>> /\ Adding
    BY <1>3 DEF Recorder!Registered, Adding
  <2>2. index # 0 /\ index \notin begun
    BY <2>1 DEF NewestAreHeld
  <2> QED BY <2>1, <2>2, AfterRegister
<1>4. CASE Recorder!RotorRegisters
  <2>1. /\ rotor = "register" /\ rotor' = "wait" /\ Recorder!Register /\ main' = main
        /\ UNCHANGED <<stopped, keep, index, writing, pulled>> /\ Adding
        /\ main \in {"on", "join"}
    BY <1>4 DEF Recorder!RotorRegisters, Adding, Recorder!TypeOK
  <2>2. index # 0 /\ index \notin begun
    BY <2>1 DEF NewestAreHeld
  <2> QED BY <2>1, <2>2, AfterRegister
<1>5. CASE Recorder!RotorStarts
  <2>1. /\ rotor = "launch" /\ index < MaxSegments /\ index' = index + 1
        /\ \/ rotor' = "register" /\ writing' = writing \cup {index'} /\ files' = files \cup {index'}
           \/ rotor' = "off" /\ UNCHANGED <<writing, files>>
        /\ UNCHANGED <<main, stopped, keep, proc, segments, pulled, begun, fault>>
    BY <1>5 DEF Recorder!RotorStarts, Recorder!Launch, Recorder!Refuse
  <2>2. /\ main \in {"on", "join"} /\ proc = 0 /\ ~Adding /\ (Adding' => rotor' = "register")
        /\ (rotor' = "register" => Adding')
    BY <2>1 DEF Recorder!TypeOK, ProcessIsNewest, Adding
  <2>3. index \in 0..MaxSegments /\ index' \in 0..MaxSegments /\ index' # 0 /\ index' \in 1..MaxSegments
        /\ MaxSegments \in Nat /\ begun \subseteq 1..index
    BY <2>1 DEF Recorder!TypeOK, Limits, NewestAreHeld
  <2>4. Recorder!TypeOK'
    BY <2>1, <2>2, <2>3 DEF Recorder!TypeOK
  <2>5. NewestAreHeld' /\ Held' = Held
    <3>1. begun \subseteq 1..index' /\ index' \notin begun
      BY <2>1, <2>3
    <3>2. Held' = Held
      BY <2>1 DEF Held
    <3> QED BY <2>1, <2>3, <3>1, <3>2 DEF NewestAreHeld
  <2>6. ProcessIsNewest'
    BY <2>1, <2>2 DEF ProcessIsNewest
  <2>7. OnDevice'
    <3>1. ~fault => writing = {} /\ files \subseteq Held
      BY <2>1, <2>2 DEF OnDevice
    <3> QED BY <3>1, <2>1, <2>2, <2>3, <2>5 DEF OnDevice
  <2> QED BY <2>4, <2>5, <2>6, <2>7
<1>6. ASSUME UNCHANGED <<index, segments, begun>>,
             Recorder!Rotate \/ Recorder!RotorFinishes \/ Recorder!RotorAwaits
               \/ Recorder!RotorChecks \/ Recorder!SegmentEnds \/ Recorder!Stop \/ Recorder!Join
               \/ Recorder!FinishLast \/ Recorder!AwaitLast \/ Recorder!Pull \/ Recorder!Clean
               \/ UNCHANGED Recorder!vars
      PROVE  RecorderIInv'
  <2> USE <1>6
  <2>1. Adding' => Adding
    BY DEF Adding, Recorder!Rotate, Recorder!RotorFinishes, Recorder!RotorAwaits,
      Recorder!RotorChecks, Recorder!SegmentEnds, Recorder!Stop, Recorder!Join,
      Recorder!FinishLast, Recorder!AwaitLast, Recorder!Pull, Recorder!Clean, Recorder!vars
  <2>2. NewestAreHeld' /\ Held' = Held
    BY <2>1, ListKept
  <2>3. Recorder!TypeOK'
    <3>1. proc' \in {0, proc} /\ writing' \subseteq writing /\ files' \subseteq files
          /\ (pulled' \subseteq pulled \/ pulled' \subseteq Held)
      BY DEF Held, Recorder!Rotate, Recorder!RotorFinishes, Recorder!RotorAwaits,
        Recorder!RotorChecks, Recorder!SegmentEnds, Recorder!Stop, Recorder!Join,
        Recorder!FinishLast, Recorder!AwaitLast, Recorder!Pull, Recorder!Clean, Recorder!vars,
        Recorder!device
    <3>2. main' \in {"idle", "launch", "register", "on", "join", "finish", "await", "pull", "clean"}
          /\ rotor' \in {"off", "wait", "finish", "await", "check", "launch", "register"}
          /\ (rotor' # "off" => main' \in {"on", "join"})
      BY DEF Recorder!TypeOK, Recorder!Rotate, Recorder!RotorFinishes, Recorder!RotorAwaits,
        Recorder!RotorChecks, Recorder!SegmentEnds, Recorder!Stop, Recorder!Join,
        Recorder!FinishLast, Recorder!AwaitLast, Recorder!Pull, Recorder!Clean, Recorder!vars
    <3>3. stopped' \in BOOLEAN /\ keep' \in BOOLEAN /\ fault' \in BOOLEAN
      BY DEF Recorder!TypeOK, Recorder!Rotate, Recorder!RotorFinishes, Recorder!RotorAwaits,
        Recorder!RotorChecks, Recorder!SegmentEnds, Recorder!Stop, Recorder!Join, Recorder!Idle,
        Recorder!FinishLast, Recorder!AwaitLast, Recorder!Pull, Recorder!Clean, Recorder!vars
    <3>4. proc' \in 0..MaxSegments
      BY <3>1 DEF Recorder!TypeOK, Limits
    <3>5. Held \subseteq 1..MaxSegments
      BY DEF NewestAreHeld, Recorder!TypeOK
    <3> QED BY <3>1, <3>2, <3>3, <3>4, <3>5 DEF Recorder!TypeOK
  <2>4. ProcessIsNewest'
    BY DEF ProcessIsNewest, Recorder!TypeOK, Recorder!Rotate, Recorder!RotorFinishes,
      Recorder!RotorAwaits, Recorder!RotorChecks, Recorder!SegmentEnds, Recorder!Stop,
      Recorder!Join, Recorder!FinishLast, Recorder!AwaitLast, Recorder!Pull, Recorder!Clean,
      Recorder!vars, Recorder!device
  <2>5. OnDevice'
    <3>1. CASE Recorder!Rotate
      BY <3>1, <2>1, <2>2 DEF OnDevice, ProcessIsNewest, Recorder!Rotate, Recorder!device, Adding
    <3>2. CASE Recorder!RotorFinishes
      BY <3>2, <2>1, <2>2 DEF OnDevice, ProcessIsNewest, Recorder!RotorFinishes, Recorder!device,
        Adding, Recorder!TypeOK
    <3>3. CASE Recorder!RotorAwaits
      BY <3>3, <2>1, <2>2 DEF OnDevice, Recorder!RotorAwaits, Recorder!Idle, Recorder!device, Adding
    <3>4. CASE Recorder!RotorChecks
      BY <3>4, <2>1, <2>2 DEF OnDevice, Recorder!RotorChecks, Recorder!device, Adding
    <3>5. CASE Recorder!SegmentEnds
      BY <3>5, <2>1, <2>2 DEF OnDevice, Recorder!SegmentEnds, Adding
    <3>6. CASE Recorder!Stop
      BY <3>6, <2>1, <2>2 DEF OnDevice, Recorder!Stop, Recorder!device, Adding
    <3>7. CASE Recorder!Join
      BY <3>7, <2>1, <2>2 DEF OnDevice, Recorder!Join, Recorder!device, Adding
    <3>8. CASE Recorder!FinishLast
      BY <3>8, <2>1, <2>2 DEF OnDevice, Recorder!FinishLast, Recorder!device, Adding,
        Recorder!TypeOK
    <3>9. CASE Recorder!AwaitLast
      BY <3>9, <2>1, <2>2 DEF OnDevice, Recorder!AwaitLast, Recorder!Idle, Recorder!device, Adding,
        Recorder!TypeOK
    <3>10. CASE Recorder!Pull
      BY <3>10, <2>1, <2>2 DEF OnDevice, Recorder!Pull, Recorder!device, Adding, Held,
        Recorder!TypeOK
    <3>11. CASE Recorder!Clean
      BY <3>11, <2>1, <2>2 DEF OnDevice, Recorder!Clean, Adding, Recorder!TypeOK
    <3>12. CASE UNCHANGED Recorder!vars
      BY <3>12, <2>1, <2>2 DEF OnDevice, Recorder!vars, Adding
    <3> QED BY <3>1, <3>2, <3>3, <3>4, <3>5, <3>6, <3>7, <3>8, <3>9, <3>10, <3>11, <3>12
  <2> QED BY <2>2, <2>3, <2>4, <2>5
<1>7. \/ Recorder!Start \/ Recorder!StartFirst \/ Recorder!Registered \/ Recorder!RotorRegisters
      \/ Recorder!RotorStarts
      \/ /\ UNCHANGED <<index, segments, begun>>
         /\ Recorder!Rotate \/ Recorder!RotorFinishes \/ Recorder!RotorAwaits
              \/ Recorder!RotorChecks \/ Recorder!SegmentEnds \/ Recorder!Stop \/ Recorder!Join
              \/ Recorder!FinishLast \/ Recorder!AwaitLast \/ Recorder!Pull \/ Recorder!Clean
              \/ UNCHANGED Recorder!vars
  BY DEF Recorder!Next, Recorder!Rotor, Recorder!Stopping, Recorder!Rotate,
    Recorder!RotorFinishes, Recorder!RotorAwaits, Recorder!RotorChecks, Recorder!SegmentEnds,
    Recorder!Stop, Recorder!Join, Recorder!FinishLast, Recorder!AwaitLast, Recorder!Pull,
    Recorder!Clean, Recorder!vars, Recorder!device
<1> HIDE DEF RecorderIInv
<1> QED BY <1>1, <1>2, <1>3, <1>4, <1>5, <1>6, <1>7

\* The recorder's own copy of Cardinality is Cardinality.
LEMMA SameCardinality == \A S : Recorder!Cardinality(S) = Cardinality(S)
BY DEF Recorder!Cardinality, Cardinality

\* The segments of the list, by their places.
LEMMA HeldIsListed ==
    ASSUME Limits, RecorderIInv
    PROVE  /\ segments \in Seq(1..MaxSegments) /\ Len(segments) \in Nat
           /\ Len(segments) <= Keep /\ Keep \in Nat \ {0}
           /\ DOMAIN segments = 1..Len(segments)
           /\ Held = {segments[j] : j \in 1..Len(segments)}
           /\ \A i \in 1..Len(segments) : segments[i] \in Nat
<1>1. /\ segments \in Seq(1..MaxSegments) /\ Len(segments) <= Keep
      /\ Keep \in Nat \ {0} /\ MaxSegments \in Nat
  BY DEF Limits, RecorderIInv, Recorder!TypeOK
<1>2. Len(segments) \in Nat /\ DOMAIN segments = 1..Len(segments)
      /\ \A i \in 1..Len(segments) : segments[i] \in 1..MaxSegments
  BY <1>1
<1>3. \A i \in 1..Len(segments) : segments[i] \in Nat
  BY <1>1, <1>2
<1>4. Held = {segments[j] : j \in 1..Len(segments)}
  BY <1>2 DEF Held, Recorder!ToSet
<1> QED BY <1>1, <1>2, <1>3, <1>4

\* How many segments the list holds: as many as it has places, and of those from a place on, no
\* more than there are such places.
LEMMA HeldIsCounted ==
    ASSUME Limits, RecorderIInv
    PROVE  /\ IsFiniteSet(Held) /\ Cardinality(Held) = Len(segments)
           /\ \A i \in 0..Len(segments) :
                LET Later == {segments[j] : j \in (i + 1)..Len(segments)}
                IN  IsFiniteSet(Later) /\ Cardinality(Later) <= Len(segments) - i
<1>1. /\ segments \in Seq(1..MaxSegments) /\ Len(segments) \in Nat
      /\ DOMAIN segments = 1..Len(segments) /\ Held = {segments[j] : j \in 1..Len(segments)}
      /\ \A i \in 1..Len(segments) : segments[i] \in Nat
  BY HeldIsListed
<1>2. ASSUME NEW i \in 0..Len(segments)
      PROVE  LET Later == {segments[j] : j \in (i + 1)..Len(segments)}
             IN  IsFiniteSet(Later) /\ Cardinality(Later) <= Len(segments) - i
  <2> DEFINE Places == (i + 1)..Len(segments)
             Later == {segments[j] : j \in Places}
             f == [j \in Places |-> segments[j]]
  <2>1. f \in Surjection(Places, Later)
    BY DEF Surjection
  <2>2. IsFiniteSet(Places) /\ Cardinality(Places) = Len(segments) - i
    <3>1. i + 1 \in Int /\ Len(segments) \in Int
      BY <1>1
    <3>2. IsFiniteSet(Places)
          /\ Cardinality(Places) = IF i + 1 > Len(segments) THEN 0
                                   ELSE Len(segments) - (i + 1) + 1
      BY <3>1, FS_Interval
    <3> QED BY <3>2, <1>1
  <2> HIDE DEF f
  <2>3. IsFiniteSet(Later) /\ Cardinality(Later) <= Cardinality(Places)
    BY <2>1, <2>2, FS_Surjection
  <2> QED BY <2>2, <2>3
<1>3. IsFiniteSet(Held) /\ Cardinality(Held) = Len(segments)
  <2> DEFINE Places == 1..Len(segments)
             f == [j \in Places |-> segments[j]]
  <2>1. f \in Surjection(Places, Held)
    BY <1>1 DEF Surjection
  <2>2. f \in Injection(Places, Held)
    <3>1. ASSUME NEW i \in Places, NEW j \in Places, segments[i] = segments[j] PROVE i = j
      <4>1. ~(i < j) /\ ~(j < i)
        BY <3>1, <1>1 DEF RecorderIInv, NewestAreHeld
      <4> QED BY <4>1, <1>1
    <3>2. f \in [Places -> Held]
      BY <1>1
    <3>3. \A i, j \in Places : f[i] = f[j] => i = j
      BY <3>1
    <3> HIDE DEF f
    <3> QED BY <3>2, <3>3 DEF Injection, IsInjective
  <2>3. IsFiniteSet(Places) /\ Cardinality(Places) = Len(segments)
    <3>1. IsFiniteSet(Places)
          /\ Cardinality(Places) = IF 1 > Len(segments) THEN 0 ELSE Len(segments) - 1 + 1
      BY <1>1, FS_Interval, SMTT(60)
    <3> QED BY <3>1, <1>1
  <2> HIDE DEF f
  <2>4. IsFiniteSet(Held) /\ Cardinality(Held) = Cardinality(Places)
    BY <2>1, <2>2, <2>3, FS_Surjection
  <2> QED BY <2>3, <2>4
<1> QED BY <1>2, <1>3

\* The segments of the list are those than which fewer than Keep are newer.
LEMMA LastMinutes ==
    ASSUME Limits, RecorderIInv
    PROVE  Held = {s \in begun : Cardinality({n \in begun : n > s}) < Keep}
<1>1. /\ begun \subseteq 1..index /\ index \in Nat /\ Keep \in Nat \ {0} /\ Held \subseteq begun
      /\ Len(segments) \in Nat /\ Len(segments) <= Keep
      /\ Held = {segments[j] : j \in 1..Len(segments)}
      /\ \A i \in 1..Len(segments) : segments[i] \in Nat
  BY HeldIsListed, SMTT(60) DEF RecorderIInv, Recorder!TypeOK, NewestAreHeld
<1>2. ASSUME NEW T \in SUBSET begun PROVE IsFiniteSet(T)
  <2>1. IsFiniteSet(1..index)
    BY <1>1, FS_Interval
  <2>2. T \in SUBSET (1..index)
    BY <1>1
  <2> QED BY <2>1, <2>2, FS_Subset
<1>3. ASSUME NEW s \in Held PROVE Cardinality({n \in begun : n > s}) < Keep
  <2> DEFINE Newer == {n \in begun : n > s}
  <2>1. PICK i \in 1..Len(segments) : s = segments[i]
    BY <1>1
  <2> DEFINE Later == {segments[j] : j \in (i + 1)..Len(segments)}
  <2>2. Newer \subseteq Later
    <3>1. ASSUME NEW n \in Newer PROVE n \in Later
      <4>1. n \in Held
        BY <2>1, <1>1, SMTT(60) DEF RecorderIInv, NewestAreHeld
      <4>2. PICK j \in 1..Len(segments) : n = segments[j]
        BY <4>1, <1>1
      <4>3. ~(j < i) /\ j # i
        BY <4>2, <2>1, <1>1, SMTT(60) DEF RecorderIInv, NewestAreHeld
      <4>4. j \in (i + 1)..Len(segments)
        BY <4>3, <1>1
      <4> QED BY <4>2, <4>4
    <3> QED BY <3>1
  <2>3. IsFiniteSet(Later) /\ Cardinality(Later) <= Len(segments) - i
    <3>1. i \in 0..Len(segments)
      BY <1>1
    <3> QED BY <3>1, HeldIsCounted
  <2> HIDE DEF Newer, Later
  <2>4. Cardinality(Newer) <= Cardinality(Later)
        /\ Cardinality(Newer) \in Nat /\ Cardinality(Later) \in Nat
    BY <2>2, <2>3, FS_Subset, FS_CardinalityType
  <2>5. Cardinality(Newer) < Keep
    BY <2>3, <2>4, <1>1
  <2> QED BY <2>5 DEF Newer
<1>4. ASSUME NEW s \in begun \ Held PROVE ~(Cardinality({n \in begun : n > s}) < Keep)
  <2> DEFINE Newer == {n \in begun : n > s}
  <2>1. Len(segments) = Keep /\ \A i \in 1..Len(segments) : s < segments[i]
    BY DEF RecorderIInv, NewestAreHeld
  <2>2. Held \subseteq Newer
    BY <2>1, <1>1
  <2>3. IsFiniteSet(Newer)
    BY <1>2
  <2> HIDE DEF Newer
  <2>4. Cardinality(Held) <= Cardinality(Newer) /\ Cardinality(Newer) \in Nat
    BY <2>2, <2>3, FS_Subset, FS_CardinalityType
  <2>5. ~(Cardinality(Newer) < Keep)
    BY <2>1, <2>4, HeldIsCounted, <1>1
  <2> QED BY <2>5 DEF Newer
<1> QED BY <1>1, <1>3, <1>4

\* What the invariant says of the device and of the local directory.
LEMMA SoundFromIInv ==
    ASSUME Limits, RecorderIInv
    PROVE  RecorderIsSound
<1>1. Recorder!NothingLeftRecording
  <2>1. main = "idle" => rotor = "off" /\ proc = 0
    BY DEF RecorderIInv, Recorder!TypeOK, ProcessIsNewest
  <2>2. main = "idle" /\ ~fault /\ index # 0 => writing = {} /\ files = {}
    BY DEF RecorderIInv, OnDevice
  <2> QED BY <2>1, <2>2 DEF Recorder!NothingLeftRecording
<1>2. Recorder!OneAtATime
  <2> SUFFICES ASSUME ~fault
               PROVE  Cardinality(writing) <= 1 /\ Cardinality(files \ {0}) <= Keep + 1
    BY SameCardinality DEF Recorder!OneAtATime
  <2>1. writing \subseteq {index} /\ files \ {0} \subseteq Held \cup {index}
    BY DEF RecorderIInv, OnDevice
  <2>2. Len(segments) <= Keep /\ Len(segments) \in Nat /\ Keep \in Nat
    BY DEF RecorderIInv, Recorder!TypeOK, Limits
  <2>3. Cardinality(writing) <= 1
    <3>1. IsFiniteSet({index}) /\ Cardinality({index}) = 1
      BY FS_Singleton
    <3>2. writing \in SUBSET {index}
      BY <2>1
    <3> QED BY <3>1, <3>2, FS_Subset
  <2>4. IsFiniteSet(Held \cup {index}) /\ Cardinality(Held \cup {index}) <= Keep + 1
    <3>1. IsFiniteSet(Held) /\ Cardinality(Held) = Len(segments)
      BY HeldIsCounted
    <3>2. /\ IsFiniteSet(Held \cup {index})
          /\ Cardinality(Held \cup {index})
                = IF index \in Held THEN Cardinality(Held) ELSE Cardinality(Held) + 1
      BY <3>1, FS_AddElement
    <3> QED BY <3>1, <3>2, <2>2
  <2>5. Cardinality(files \ {0}) <= Cardinality(Held \cup {index})
        /\ Cardinality(files \ {0}) \in Nat /\ Cardinality(Held \cup {index}) \in Nat
    BY <2>1, <2>4, FS_Subset, FS_CardinalityType
  <2> QED BY <2>2, <2>3, <2>4, <2>5
<1>3. Recorder!LastMinutesKept
  <2>1. main = "clean" /\ keep /\ ~fault => pulled = Held /\ writing = {}
    BY DEF RecorderIInv, OnDevice
  <2>2. {s \in begun : Recorder!Cardinality({n \in begun : n > s}) < Keep} = Held
    BY LastMinutes, SameCardinality
  <2> QED BY <2>1, <2>2 DEF Recorder!LastMinutesKept
<1> QED BY <1>1, <1>2, <1>3 DEF RecorderIInv, RecorderIsSound, Recorder!RecorderIsSound

\* In every state of the recorder, the list is the newest of what this recording got going,
\* and the device has no more of it than the list and the segment that is being added.
THEOREM RecorderInvariant == Limits => (Recorder!Spec => []RecorderIInv)
<1> SUFFICES ASSUME Limits PROVE Recorder!Spec => []RecorderIInv
  OBVIOUS
<1>1. Recorder!Init => RecorderIInv
  BY InitRecorderIInv
<1>2. RecorderIInv /\ [Recorder!Next]_(Recorder!vars) => RecorderIInv'
  BY NextRecorderIInv
<1> QED BY <1>1, <1>2, PTL DEF Recorder!Spec

\* However many segments are kept and however the rotation and the end of a recording meet
\* (task_video_recorder.py: _rotate_loop, stop): nothing goes on recording when stop() has
\* returned, the device records one segment at a time and does not fill up, and what is
\* pulled of a failed run is its last segments.
THEOREM RecorderSound == Limits => (Recorder!Spec => []RecorderIsSound)
<1> SUFFICES ASSUME Limits PROVE Recorder!Spec => []RecorderIsSound
  OBVIOUS
<1>1. RecorderIInv => RecorderIsSound
  BY SoundFromIInv
<1>2. Recorder!Spec => []RecorderIInv
  BY RecorderInvariant
<1> QED BY <1>1, <1>2, PTL
=============================================================================
