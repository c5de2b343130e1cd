---------------------------- MODULE SharedProofs ----------------------------
(***************************************************************************)
(* What the threads share, for any sizes of each of its parts.  The        *)
(* callbacks (BattleWatch), for any names, priorities, bodies and          *)
(* checkers: the table is sound, and what is to run once runs once.  The   *)
(* inductive invariant says where each thread is and what it holds         *)
(* (Places, Answers), that a callback that was answered and is still in    *)
(* the table is the one the monitor is answering (FiredIsInHand), and that *)
(* the task's scopes hold what they will remove (Scopes, Covered,          *)
(* OwnStay).  A step of a thread leaves the scopes alone (Apart), a step   *)
(* of the task the threads.  Then, each with an invariant of its own, the  *)
(* device session, the captures and gestures, the editor's snippet, the    *)
(* update, the desktop shell, the replay of a recording and what a task    *)
(* sees and presses.                                                       *)
(***************************************************************************)
EXTENDS MCShared, FiniteSetTheorems, WellFoundedInduction, TLAPS

MonitorLabels == {"top", "scan", "concurrent", "rows", "regular", "body", "join"}
CheckerLabels == {"off", "loop", "concurrent", "body"}
Labels == TaskLabels \cup MonitorLabels \cup CheckerLabels

WatchTypes ==
    /\ table \in [Names -> Nat] /\ \A n \in Names : table[n] \in 0 .. Gens[n]
    /\ snapshot \subseteq Infos
    /\ batch \in [Threads -> Seq(Infos)]
    /\ fired \subseteq Once \ Concurrent /\ late \subseteq Names
    /\ tryExit \in BOOLEAN
    /\ items \in [script : Seq(Infos), builtin : Seq(Infos)]

\* Where the threads are, and what they run.
Places ==
    /\ at \in [Threads \cup {"task"} -> Labels]
    /\ at["task"] \in TaskLabels /\ at["monitor"] \in MonitorLabels
    /\ \A c \in Checkers : at[c] \in CheckerLabels
    /\ DOMAIN todo = Threads \cup {"task"}
    /\ \A t \in Threads : todo[t] \in Seq(Effects \ Own)

\* The matches that are being answered: a thread that answers has one, a checker has concurrent
\* ones only, and a regular callback runs while _in_callback says so.
Answers ==
    /\ \A t \in Threads : at[t] \in {"concurrent", "regular", "body", "join"} => batch[t] # <<>>
    /\ \A c \in Checkers : \A k \in DOMAIN batch[c] : batch[c][k][1] \in Concurrent
    /\ inCallback = (at["monitor"] = "body" /\ First("monitor")[1] \notin Concurrent)

\* What has been answered and is still in the table is what the monitor is answering.
FiredIsInHand ==
    \A n \in fired : at["monitor"] \in {"body", "join"} /\ First("monitor") = <<n, table[n]>>

\* The task's scopes: what they hold is added and removed where the round says.
Scopes ==
    /\ at["task"] \in {"adding", "builtins"} => todo["task"] \in Seq(Names) \ {<<>>}
    /\ at["task"] \in {"unwatch", "leaving"} => todo["task"] \in Seq(Infos) \ {<<>>}
    /\ at["task"] \notin {"builtins", "loop"} => items.builtin = <<>>
    /\ at["task"] \in {"idle", "leaving"} => items.script = <<>>
    /\ at["task"] = "loop" => items.builtin # <<>>
    /\ at["task"] \notin {"idle", "adding", "leaving"} => items.script # <<>>
    /\ protect = IF at["task"] \in {"builtins", "loop", "unwatch", "unprotect"} THEN 1 ELSE 0

\* A registration is in a scope that will remove it, or came too late for one.
Covered == \A n \in Names : table[n] # 0 => n \in late \/ <<n, table[n]>> \in Kept

\* The battle's callbacks, from the moment each is added.
OwnStay ==
    /\ at["task"] \in {"builtins", "loop"} =>
          \A k \in DOMAIN items.builtin : Current(items.builtin[k]) /\ items.builtin[k][1] \in Own
    /\ at["task"] = "builtins" =>
          /\ \A k \in DOMAIN todo["task"] : todo["task"][k] \in Own
          /\ \A j, k \in DOMAIN todo["task"] : j # k => todo["task"][j] # todo["task"][k]
          /\ \A j \in DOMAIN items.builtin, k \in DOMAIN todo["task"] :
                items.builtin[j][1] # todo["task"][k]

\* The inductive invariant.
WatchIInv ==
    /\ WatchTypes /\ Places /\ Answers /\ FiredIsInHand /\ Scopes /\ Covered /\ OwnStay

\* The threads: the monitor, the checkers, and beside them the task.
LEMMA ThreadFacts ==
    /\ "monitor" \in Threads /\ "monitor" \notin Checkers /\ Checkers \subseteq Threads
    /\ "task" \notin Threads /\ "task" \in Threads \cup {"task"}
    /\ \A t \in Threads : t = "monitor" \/ t \in Checkers
BY BoundsAssumption DEF Threads

\* A registration is a name and a number.
LEMMA InfoFacts ==
    /\ \A i \in Infos : i[1] \in Names /\ i[2] \in 1 .. Gens[i[1]] /\ i = <<i[1], i[2]>>
    /\ \A n \in Names : \A g \in 1 .. Gens[n] : <<n, g>> \in Infos
    /\ \A n \in Names : Gens[n] \in Nat
BY BoundsAssumption DEF Infos

\* What a thread has at hand when it answers.
LEMMA InHandFacts ==
    ASSUME WatchIInv, NEW t \in Threads, batch[t] # <<>>
    PROVE  /\ First(t) \in Infos /\ First(t)[1] \in Names /\ Tail(batch[t]) \in Seq(Infos)
           /\ First(t) = batch[t][1] /\ 1 \in DOMAIN batch[t]
           /\ \A k \in DOMAIN Tail(batch[t]) : k + 1 \in DOMAIN batch[t]
                                               /\ Tail(batch[t])[k] = batch[t][k + 1]
<1>1. batch[t] \in Seq(Infos) /\ batch[t] # <<>>
  BY DEF WatchIInv, WatchTypes
<1>2. Head(batch[t]) \in Infos /\ Tail(batch[t]) \in Seq(Infos) /\ Head(batch[t]) = batch[t][1]
      /\ 1 \in DOMAIN batch[t]
  BY <1>1
<1>3. \A k \in DOMAIN Tail(batch[t]) : k + 1 \in DOMAIN batch[t]
                                       /\ Tail(batch[t])[k] = batch[t][k + 1]
  BY <1>1
<1> QED BY <1>2, <1>3, InfoFacts DEF First

\* What can be found is a sequence of what is offered.
LEMMA Found ==
    ASSUME NEW offered \in SUBSET Infos, NEW found \in InOrder(offered)
    PROVE  found \in Seq(Infos) /\ \A k \in DOMAIN found : found[k] \in offered
<1>1. PICK n \in 0 .. Cardinality(offered) : found \in [1 .. n -> offered]
  BY DEF InOrder
<1>2. n \in Nat
  OBVIOUS
<1> QED BY <1>1, <1>2

\* A thread's step leaves the scopes alone, and what it takes from the table is not the battle's.
Apart ==
    /\ at'["task"] = at["task"] /\ todo'["task"] = todo["task"] /\ UNCHANGED <<items, protect>>
    /\ late' = {n \in late : table'[n] # 0}
    /\ \A n \in Names : table'[n] \in {0, table[n]} /\ (n \in Own => table'[n] = table[n])

\* Such a step keeps what is said of the scopes.
LEMMA ApartKeeps ==
    ASSUME WatchIInv, Apart
    PROVE  Scopes' /\ Covered' /\ OwnStay'
<1>1. Scopes'
  BY DEF WatchIInv, Scopes, Apart
<1>2. Kept' = Kept
  BY DEF Kept, Apart
<1>3. Covered'
  BY <1>2 DEF WatchIInv, Covered, Apart
<1>4. OwnStay'
  <2>1. ASSUME at["task"] \in {"builtins", "loop"}, NEW k \in DOMAIN items.builtin
        PROVE  Current(items.builtin[k])' /\ items.builtin[k][1] \in Own
    <3>1. /\ table[items.builtin[k][1]] = items.builtin[k][2] /\ items.builtin[k][1] \in Own
          /\ items.builtin[k] \in Infos
      BY <2>1 DEF WatchIInv, WatchTypes, OwnStay, Current
    <3>2. items.builtin[k][1] \in Names
      BY <3>1, InfoFacts
    <3>3. table'[items.builtin[k][1]] = items.builtin[k][2]
      BY <3>1, <3>2 DEF Apart
    <3> QED BY <3>1, <3>3 DEF Apart, Current
  <2> QED BY <2>1 DEF WatchIInv, OwnStay, Apart
<1> QED BY <1>1, <1>3, <1>4

\* A thread goes on, not into a callback, with the matches that are left.
LEMMA MoveKept ==
    ASSUME WatchIInv, NEW t \in Threads, NEW label, NEW left \in Seq(Infos),
           at' = [at EXCEPT ![t] = label], batch' = [batch EXCEPT ![t] = left], todo' = todo,
           label \in IF t = "monitor" THEN MonitorLabels \ {"body"} ELSE CheckerLabels \ {"body"},
           label \in {"concurrent", "regular", "join"} => left # <<>>,
           t # "monitor" => \A k \in DOMAIN left : left[k][1] \in Concurrent,
           inCallback' = IF t = "monitor" THEN FALSE ELSE inCallback
    PROVE  /\ batch' \in [Threads -> Seq(Infos)] /\ Places' /\ Answers'
           /\ at'["task"] = at["task"] /\ todo'["task"] = todo["task"]
           /\ at'[t] = label
           /\ t # "monitor" => at'["monitor"] = at["monitor"] /\ First("monitor")' = First("monitor")
<1> USE ThreadFacts
<1>1. /\ at \in [Threads \cup {"task"} -> Labels] /\ batch \in [Threads -> Seq(Infos)]
      /\ label \in Labels
  <2>1. label \in Labels
    BY DEF Labels
  <2> QED BY <2>1 DEF WatchIInv, WatchTypes, Places
<1>2. /\ at' \in [Threads \cup {"task"} -> Labels] /\ batch' \in [Threads -> Seq(Infos)]
      /\ at'[t] = label /\ batch'[t] = left
      /\ \A u \in Threads : u # t => at'[u] = at[u] /\ batch'[u] = batch[u]
      /\ at'["task"] = at["task"]
  BY <1>1
<1>3. Places'
  <2>1. at'["monitor"] \in MonitorLabels /\ \A c \in Checkers : at'[c] \in CheckerLabels
    BY <1>2 DEF WatchIInv, Places
  <2> QED BY <2>1, <1>2 DEF WatchIInv, Places
<1>4. t # "monitor" => at'["monitor"] = at["monitor"] /\ First("monitor")' = First("monitor")
  BY <1>2 DEF First
<1>5. Answers'
  <2>1. \A u \in Threads : at'[u] \in {"concurrent", "regular", "body", "join"} => batch'[u] # <<>>
    <3>1. label # "body"
      BY DEF MonitorLabels, CheckerLabels
    <3> QED BY <3>1, <1>2 DEF WatchIInv, Answers
  <2>2. \A c \in Checkers : \A k \in DOMAIN batch'[c] : batch'[c][k][1] \in Concurrent
    BY <1>2 DEF WatchIInv, Answers
  <2>3. inCallback' = (at'["monitor"] = "body" /\ First("monitor")'[1] \notin Concurrent)
    <3>1. CASE t = "monitor"
      BY <3>1, <1>2 DEF MonitorLabels
    <3>2. CASE t # "monitor"
      BY <3>2, <1>4 DEF WatchIInv, Answers
    <3> QED BY <3>1, <3>2
  <2> QED BY <2>1, <2>2, <2>3 DEF Answers
<1> QED BY <1>2, <1>3, <1>4, <1>5

\* What goes with a step of the threads in BattleWatch.
Beside == late' = {n \in late : table'[n] # 0} /\ UNCHANGED items

\* All that concerns the threads.
Threading == WatchTypes /\ Places /\ Answers /\ FiredIsInHand

\* The registrations that are in the table.
LEMMA RegisteredFacts == Registered \subseteq Infos
BY DEF Registered

\* A thread looks at the screen.
Looks(t) ==
    \/ LookConcurrent(t)
    \/ t = "monitor" /\ \E found \in InOrder(snapshot) : LookRegular(found)

\* A look at the screen (_check_concurrent and the regular pass of run) keeps the invariant.
LEMMA LookKept ==
    ASSUME WatchIInv, NEW t \in Threads, Beside, Looks(t)
    PROVE  Apart /\ Threading'
<1> USE ThreadFacts DEF Looks
<1>0. /\ UNCHANGED <<table, tryExit, protect, inCallback, todo, fired, items>>
      /\ late' = {n \in late : table'[n] # 0} /\ snapshot' \in {{}, snapshot}
  BY DEF LookConcurrent, LookRegular, Look, Beside
<1>1. PICK found \in Seq(Infos), kind \in {"concurrent", "regular"} :
        /\ at' = [at EXCEPT ![t] = Onward(t, kind, found)]
        /\ batch' = [batch EXCEPT ![t] = found]
        /\ kind = "concurrent" => \A k \in DOMAIN found : found[k][1] \in Concurrent
        /\ t # "monitor" => kind = "concurrent"
        /\ at[t] \in {"scan", "rows", "loop"}
  <2>1. CASE LookConcurrent(t)
    <3> DEFINE offered == {i \in Registered : i[1] \in Concurrent}
    <3>1. PICK found \in InOrder(offered) : Look(t, found, "concurrent")
      BY <2>1 DEF LookConcurrent
    <3>2. offered \in SUBSET Infos /\ \A i \in offered : i[1] \in Concurrent
      BY RegisteredFacts
    <3> HIDE DEF offered
    <3>3. found \in Seq(Infos) /\ \A k \in DOMAIN found : found[k][1] \in Concurrent
      BY <3>2, Found
    <3> QED BY <2>1, <3>1, <3>3 DEF Look, Goto, LookConcurrent
  <2>2. CASE t = "monitor" /\ \E found \in InOrder(snapshot) : LookRegular(found)
    <3>1. PICK found \in InOrder(snapshot) : LookRegular(found)
      BY <2>2
    <3>2. found \in Seq(Infos)
      BY Found DEF WatchIInv, WatchTypes
    <3> QED BY <2>2, <3>1, <3>2 DEF Look, Goto, LookRegular
  <2> QED BY <2>1, <2>2
<1>2. /\ Onward(t, kind, found) \in IF t = "monitor" THEN MonitorLabels \ {"body"}
                                   ELSE CheckerLabels \ {"body"}
      /\ Onward(t, kind, found) \in {"concurrent", "regular", "join"} => found # <<>>
  BY <1>1 DEF Onward, MonitorLabels, CheckerLabels
<1>3. inCallback' = IF t = "monitor" THEN FALSE ELSE inCallback
  <2>1. CASE t = "monitor"
    BY <2>1, <1>0, <1>1 DEF WatchIInv, Answers
  <2>2. CASE t # "monitor"
    BY <2>2, <1>0
  <2> QED BY <2>1, <2>2
<1>4. /\ batch' \in [Threads -> Seq(Infos)] /\ Places' /\ Answers'
      /\ at'["task"] = at["task"] /\ todo'["task"] = todo["task"]
      /\ t # "monitor" => at'["monitor"] = at["monitor"] /\ First("monitor")' = First("monitor")
  <2> DEFINE label == Onward(t, kind, found)
  <2>1. at' = [at EXCEPT ![t] = label]
    BY <1>1
  <2>2. t # "monitor" => \A k \in DOMAIN found : found[k][1] \in Concurrent
    BY <1>1
  <2>3. todo' = todo
    BY <1>0
  <2>4. batch' = [batch EXCEPT ![t] = found]
    BY <1>1
  <2>5. label \in IF t = "monitor" THEN MonitorLabels \ {"body"} ELSE CheckerLabels \ {"body"}
    BY <1>2
  <2>6. label \in {"concurrent", "regular", "join"} => found # <<>>
    BY <1>2
  <2> HIDE DEF label
  <2> QED BY <2>1, <2>2, <2>3, <2>4, <2>5, <2>6, <1>3, MoveKept
<1>5. WatchTypes'
  BY <1>0, <1>4 DEF WatchIInv, WatchTypes
<1>6. FiredIsInHand'
  <2>1. CASE t = "monitor"
    BY <2>1, <1>0, <1>1 DEF WatchIInv, FiredIsInHand
  <2>2. CASE t # "monitor"
    BY <2>2, <1>0, <1>4 DEF WatchIInv, FiredIsInHand
  <2> QED BY <2>1, <2>2
<1>7. Apart
  BY <1>0, <1>4 DEF Apart
<1> QED BY <1>4, <1>5, <1>6, <1>7 DEF Threading

\* The match of a callback that is gone is dropped.
LEMMA DropKept ==
    ASSUME WatchIInv, NEW t \in Threads, Beside, Drop(t)
    PROVE  Apart /\ Threading'
<1> USE ThreadFacts
<1> DEFINE left == Tail(batch[t])
           label == Onward(t, at[t], left)
<1>0. /\ UNCHANGED <<table, tryExit, protect, inCallback, todo, fired, items, snapshot>>
      /\ late' = {n \in late : table'[n] # 0}
      /\ at[t] \in {"concurrent", "regular"} /\ ~Current(First(t))
      /\ at' = [at EXCEPT ![t] = label] /\ batch' = [batch EXCEPT ![t] = left]
  BY DEF Drop, Beside, Answering, Goto, WatchIInv, WatchTypes
<1>1. batch[t] # <<>>
  BY <1>0 DEF WatchIInv, Answers
<1>2. /\ left \in Seq(Infos)
      /\ \A k \in DOMAIN left : k + 1 \in DOMAIN batch[t] /\ left[k] = batch[t][k + 1]
  BY <1>1, InHandFacts
<1>3. t # "monitor" => at[t] = "concurrent" /\ \A k \in DOMAIN left : left[k][1] \in Concurrent
  BY <1>0, <1>2, SMTT(60) DEF WatchIInv, Answers, Places, CheckerLabels
<1>4. /\ label \in IF t = "monitor" THEN MonitorLabels \ {"body"} ELSE CheckerLabels \ {"body"}
      /\ label \in {"concurrent", "regular", "join"} => left # <<>>
  BY <1>0, <1>3 DEF Onward, MonitorLabels, CheckerLabels
<1>5. inCallback' = IF t = "monitor" THEN FALSE ELSE inCallback
  <2>1. CASE t = "monitor"
    BY <2>1, <1>0 DEF WatchIInv, Answers
  <2>2. CASE t # "monitor"
    BY <2>2, <1>0
  <2> QED BY <2>1, <2>2
<1>6. todo' = todo /\ (t # "monitor" => \A k \in DOMAIN left : left[k][1] \in Concurrent)
  BY <1>0, <1>3
<1> HIDE DEF left, label
<1>7. /\ batch' \in [Threads -> Seq(Infos)] /\ Places' /\ Answers'
      /\ at'["task"] = at["task"] /\ todo'["task"] = todo["task"]
      /\ t # "monitor" => at'["monitor"] = at["monitor"] /\ First("monitor")' = First("monitor")
  BY <1>0, <1>2, <1>4, <1>5, <1>6, MoveKept
<1>8. WatchTypes'
  BY <1>0, <1>7 DEF WatchIInv, WatchTypes
<1>9. FiredIsInHand'
  <2>1. CASE t = "monitor"
    BY <2>1, <1>0, <1>7 DEF WatchIInv, FiredIsInHand
  <2>2. CASE t # "monitor"
    BY <2>2, <1>0, <1>7 DEF WatchIInv, FiredIsInHand
  <2> QED BY <2>1, <2>2
<1>10. Apart
  BY <1>0, <1>7 DEF Apart
<1> QED BY <1>7, <1>8, <1>9, <1>10 DEF Threading

\* What a removal does: nothing, or the name is free again.
LEMMA Removed ==
    ASSUME WatchIInv, NEW i \in Infos, Remove(i)
    PROVE  /\ table' \in [Names -> Nat] /\ \A n \in Names : table'[n] \in 0 .. Gens[n]
           /\ \A n \in Names : table'[n] \in {0, table[n]} /\ (n # i[1] => table'[n] = table[n])
           /\ table'[i[1]] # i[2]
           /\ table[i[1]] # i[2] => UNCHANGED <<table, fired>>
           /\ table[i[1]] = i[2] => fired' = fired \ {i[1]}
<1>1. /\ table \in [Names -> Nat] /\ \A n \in Names : table[n] \in 0 .. Gens[n]
      /\ i[1] \in Names /\ i[2] \in 1 .. Gens[i[1]]
  BY InfoFacts DEF WatchIInv, WatchTypes
<1>2. CASE table[i[1]] = i[2]
  <2>1. table' = [table EXCEPT ![i[1]] = 0] /\ fired' = fired \ {i[1]}
    BY <1>2 DEF Remove, Current
  <2>2. 0 \in Nat /\ \A n \in Names : 0 \in 0 .. Gens[n]
    BY InfoFacts
  <2> QED BY <1>1, <1>2, <2>1, <2>2
<1>3. CASE table[i[1]] # i[2]
  <2>1. UNCHANGED <<table, fired>>
    BY <1>3 DEF Remove, Current
  <2> QED BY <1>1, <1>3, <2>1
<1> QED BY <1>2, <1>3

\* A callback is over, and goes if it was to run once.
LEMMA SettleKept ==
    ASSUME WatchIInv, NEW t \in Threads, Beside, Settle(t)
    PROVE  Apart /\ Threading'
<1> USE ThreadFacts
<1> DEFINE left == Tail(batch[t])
           kind == IF First(t)[1] \in Concurrent THEN "concurrent" ELSE "regular"
           label == Onward(t, kind, left)
<1>0. /\ UNCHANGED <<tryExit, protect, inCallback, todo, items, snapshot>>
      /\ late' = {n \in late : table'[n] # 0}
      /\ at[t] = "join" \/ (at[t] = "body" /\ First(t)[1] \in Concurrent)
      /\ IF First(t)[1] \in Once THEN Remove(First(t)) ELSE UNCHANGED <<table, fired>>
      /\ at' = [at EXCEPT ![t] = label] /\ batch' = [batch EXCEPT ![t] = left]
  BY DEF Settle, Beside, Finished, Goto, WatchIInv, WatchTypes
<1>1. batch[t] # <<>>
  BY <1>0 DEF WatchIInv, Answers
<1>2. /\ left \in Seq(Infos) /\ First(t) \in Infos /\ First(t)[1] \in Names
      /\ First(t) = batch[t][1] /\ 1 \in DOMAIN batch[t]
      /\ \A k \in DOMAIN left : k + 1 \in DOMAIN batch[t] /\ left[k] = batch[t][k + 1]
  BY <1>1, InHandFacts
<1>3. t # "monitor" => First(t)[1] \in Concurrent /\ \A k \in DOMAIN left : left[k][1] \in Concurrent
  BY <1>2 DEF WatchIInv, Answers
<1>4. /\ label \in IF t = "monitor" THEN MonitorLabels \ {"body"} ELSE CheckerLabels \ {"body"}
      /\ label \in {"concurrent", "regular", "join"} => left # <<>>
  BY <1>0, <1>3 DEF Onward, MonitorLabels, CheckerLabels
<1>5. inCallback' = IF t = "monitor" THEN FALSE ELSE inCallback
  <2>1. CASE t = "monitor"
    BY <2>1, <1>0 DEF WatchIInv, Answers
  <2>2. CASE t # "monitor"
    BY <2>2, <1>0
  <2> QED BY <2>1, <2>2
<1>6. todo' = todo /\ (t # "monitor" => \A k \in DOMAIN left : left[k][1] \in Concurrent)
  BY <1>0, <1>3
<1>11. /\ table' \in [Names -> Nat] /\ \A n \in Names : table'[n] \in 0 .. Gens[n]
       /\ \A n \in Names : table'[n] \in {0, table[n]} /\ (n \in Own => table'[n] = table[n])
       /\ fired' \subseteq fired
       /\ \A n \in fired' : First(t) = <<n, table[n]>> => n \notin Once
       /\ \A n \in fired' : First(t)[1] # n \/ First(t)[1] \notin Once => table'[n] = table[n]
  <2>1. CASE First(t)[1] \in Once
    <3>1. First(t)[1] \notin Own
      BY <2>1, OwnAssumption
    <3>2. /\ table' \in [Names -> Nat] /\ \A n \in Names : table'[n] \in 0 .. Gens[n]
          /\ \A n \in Names : table'[n] \in {0, table[n]}
                              /\ (n # First(t)[1] => table'[n] = table[n])
          /\ table[First(t)[1]] # First(t)[2] => UNCHANGED <<table, fired>>
          /\ table[First(t)[1]] = First(t)[2] => fired' = fired \ {First(t)[1]}
      BY <1>0, <1>2, <2>1, Removed
    <3>3. fired \subseteq Names
      BY NamesAssumption DEF WatchIInv, WatchTypes
    <3>4. \A n \in Names : First(t) = <<n, table[n]>> =>
             First(t)[1] = n /\ First(t)[2] = table[n]
      OBVIOUS
    <3> QED BY <2>1, <3>1, <3>2, <3>3, <3>4
  <2>2. CASE First(t)[1] \notin Once
    BY <2>2, <1>0 DEF WatchIInv, WatchTypes
  <2> QED BY <2>1, <2>2
<1> HIDE DEF left, label, kind
<1>7. /\ batch' \in [Threads -> Seq(Infos)] /\ Places' /\ Answers'
      /\ at'["task"] = at["task"] /\ todo'["task"] = todo["task"]
      /\ t # "monitor" => at'["monitor"] = at["monitor"] /\ First("monitor")' = First("monitor")
  BY <1>0, <1>2, <1>4, <1>5, <1>6, MoveKept
<1>8. WatchTypes'
  BY <1>0, <1>7, <1>11 DEF WatchIInv, WatchTypes
<1>9. FiredIsInHand'
  <2>1. CASE t = "monitor"
    <3>1. \A n \in fired : First("monitor") = <<n, table[n]>> /\ n \in Once
      BY DEF WatchIInv, FiredIsInHand, WatchTypes
    <3>2. fired' = {}
      BY <2>1, <3>1, <1>11
    <3> QED BY <3>2 DEF FiredIsInHand
  <2>2. CASE t # "monitor"
    <3>1. ASSUME NEW n \in fired'
          PROVE  at'["monitor"] \in {"body", "join"} /\ First("monitor")' = <<n, table'[n]>>
      <4>1. n \in fired /\ n \in Once \ Concurrent
        BY <1>11 DEF WatchIInv, WatchTypes
      <4>2. First(t)[1] # n
        BY <4>1, <2>2, <1>3
      <4>3. table'[n] = table[n]
        BY <4>2, <1>11
      <4> QED BY <4>1, <4>3, <2>2, <1>7 DEF WatchIInv, FiredIsInHand
    <3> QED BY <3>1 DEF FiredIsInHand
  <2> QED BY <2>1, <2>2
<1>10. Apart
  BY <1>0, <1>7, <1>11 DEF Apart
<1> QED BY <1>7, <1>8, <1>9, <1>10 DEF Threading

\* The steps that take nothing from the matches, and start no callback.
Stays(t) ==
    \/ t = "monitor" /\ (Snapshot \/ Return)
    \/ t \in Checkers /\ EndLoop(t)

\* They keep the invariant.
LEMMA StayKept ==
    ASSUME WatchIInv, NEW t \in Threads, Beside, Stays(t)
    PROVE  Apart /\ Threading'
<1> USE ThreadFacts DEF Stays
<1>0. /\ UNCHANGED <<table, tryExit, protect, batch, todo, fired, items>>
      /\ late' = {n \in late : table'[n] # 0} /\ snapshot' \subseteq Infos
  <2>1. snapshot' \subseteq Infos
    BY RegisteredFacts DEF Snapshot, Return, EndLoop, WatchIInv, WatchTypes
  <2> QED BY <2>1 DEF Snapshot, Return, EndLoop, Beside
<1>1. PICK label \in {"scan", "join", "off"} :
        /\ at' = [at EXCEPT ![t] = label]
        /\ label \in IF t = "monitor" THEN MonitorLabels \ {"body"} ELSE CheckerLabels \ {"body"}
        /\ label = "join" => at[t] = "body"
        /\ label # "join" => at[t] \notin {"body", "join"}
        /\ inCallback' = IF t = "monitor" THEN FALSE ELSE inCallback
  <2>1. CASE t = "monitor" /\ Snapshot
    <3>1. inCallback' = FALSE
      BY <2>1 DEF Snapshot, WatchIInv, Answers
    <3> QED BY <2>1, <3>1 DEF Snapshot, Goto, MonitorLabels
  <2>2. CASE t = "monitor" /\ Return
    BY <2>2 DEF Return, Finished, Goto, MonitorLabels
  <2>3. CASE t \in Checkers /\ EndLoop(t)
    BY <2>3 DEF EndLoop, Goto, CheckerLabels
  <2> QED BY <2>1, <2>2, <2>3
<1>2. /\ batch[t] \in Seq(Infos) /\ batch' = [batch EXCEPT ![t] = batch[t]]
      /\ label \in {"concurrent", "regular", "join"} => batch[t] # <<>>
      /\ t # "monitor" => \A k \in DOMAIN batch[t] : batch[t][k][1] \in Concurrent
  BY <1>0, <1>1 DEF WatchIInv, WatchTypes, Answers
<1>3. todo' = todo
  BY <1>0
<1>4. /\ Places' /\ Answers' /\ at'["task"] = at["task"] /\ todo'["task"] = todo["task"]
      /\ at'[t] = label
      /\ t # "monitor" => at'["monitor"] = at["monitor"] /\ First("monitor")' = First("monitor")
  BY <1>1, <1>2, <1>3, MoveKept
<1>5. WatchTypes'
  BY <1>0 DEF WatchIInv, WatchTypes
<1>6. FiredIsInHand'
  BY <1>0, <1>1, <1>4 DEF WatchIInv, FiredIsInHand, First
<1>7. Apart
  BY <1>0, <1>4 DEF Apart
<1> QED BY <1>4, <1>5, <1>6, <1>7 DEF Threading

\* A callback begins; of a regular one, the checker with it.
LEMMA FireKept ==
    ASSUME WatchIInv, NEW t \in Threads, Beside, Fire(t, Kept)
    PROVE  Apart /\ Threading' /\ First(t)[1] \notin fired
<1> USE ThreadFacts
<1>0. /\ UNCHANGED <<table, tryExit, protect, snapshot, batch, items>>
      /\ late' = {n \in late : table'[n] # 0}
      /\ at[t] \in {"concurrent", "regular"} /\ Current(First(t))
      /\ fired' = IF First(t)[1] \in Once \ Concurrent THEN fired \cup {First(t)[1]} ELSE fired
  BY DEF Fire, Beside, Answering
<1>1. First(t) \in Infos /\ First(t)[1] \in Names /\ First(t) = <<First(t)[1], First(t)[2]>>
  BY <1>0, InHandFacts, InfoFacts DEF WatchIInv, Answers
<1>2. t # "monitor" => First(t)[1] \in Concurrent
  <2>1. t # "monitor" => 1 \in DOMAIN batch[t] /\ First(t) = batch[t][1]
    BY <1>0, InHandFacts DEF WatchIInv, Answers
  <2> QED BY <2>1 DEF WatchIInv, Answers
<1>3. First(t)[1] \notin fired
  <2>1. CASE t = "monitor"
    BY <2>1, <1>0 DEF WatchIInv, FiredIsInHand
  <2>2. CASE t # "monitor"
    BY <2>2, <1>2 DEF WatchIInv, WatchTypes
  <2> QED BY <2>1, <2>2
<1>4. PICK body \in Bodies[First(t)[1]] : todo' = [todo EXCEPT ![t] = body]
  BY DEF Fire
<1>5. /\ body \in Seq(Effects \ Own) /\ DOMAIN todo' = Threads \cup {"task"}
      /\ todo'["task"] = todo["task"]
      /\ \A u \in Threads : todo'[u] \in Seq(Effects \ Own)
  BY <1>1, <1>4, OwnAssumption DEF WatchIInv, Places
<1>6. /\ at' \in [Threads \cup {"task"} -> Labels] /\ at'[t] = "body"
      /\ \A u \in Threads \cup {"task"} :
            u # t => at'[u] = at[u] \/ (u \in Checkers /\ at[u] = "off" /\ at'[u] = "loop")
      /\ inCallback' = IF First(t)[1] \in Concurrent THEN inCallback ELSE TRUE
  <2>1. at \in [Threads \cup {"task"} -> Labels] /\ "body" \in Labels /\ "loop" \in Labels
    BY DEF WatchIInv, Places, Labels, MonitorLabels, CheckerLabels
  <2>2. CASE First(t)[1] \in Concurrent /\ Goto(t, "body") /\ UNCHANGED inCallback
    <3>1. at' = [at EXCEPT ![t] = "body"]
      BY <2>2 DEF Goto
    <3> QED BY <2>1, <2>2, <3>1
  <2>3. CASE /\ First(t)[1] \notin Concurrent /\ inCallback' = TRUE
             /\ \E c \in Checkers : /\ at[c] = "off"
                                    /\ at' = [at EXCEPT ![t] = "body", ![c] = "loop"]
    <3>1. PICK c \in Checkers : at[c] = "off" /\ at' = [at EXCEPT ![t] = "body", ![c] = "loop"]
      BY <2>3
    <3>2. c # t
      BY <2>3, <1>0, <3>1
    <3>3. /\ at'[t] = "body" /\ at'[c] = "loop" /\ at' \in [Threads \cup {"task"} -> Labels]
          /\ \A u \in Threads \cup {"task"} : u # t /\ u # c => at'[u] = at[u]
      BY <2>1, <3>1, <3>2
    <3> QED BY <2>3, <3>1, <3>3
  <2> QED BY <2>2, <2>3 DEF Fire
<1>7. Places'
  <2>1. /\ at'["task"] = at["task"] /\ at'["monitor"] \in MonitorLabels
        /\ \A c \in Checkers : at'[c] \in CheckerLabels
    BY <1>6 DEF WatchIInv, Places, MonitorLabels, CheckerLabels
  <2> QED BY <2>1, <1>5, <1>6 DEF WatchIInv, Places
<1>8. Answers'
  <2>1. \A u \in Threads : at'[u] \in {"concurrent", "regular", "body", "join"} => batch[u] # <<>>
    BY <1>0, <1>6 DEF WatchIInv, Answers
  <2>2. inCallback' = (at'["monitor"] = "body" /\ First("monitor")[1] \notin Concurrent)
    <3>1. CASE t = "monitor"
      BY <3>1, <1>0, <1>6 DEF WatchIInv, Answers
    <3>2. CASE t # "monitor"
      BY <3>2, <1>2, <1>6 DEF WatchIInv, Answers
    <3> QED BY <3>1, <3>2
  <2>3. First("monitor")' = First("monitor") /\ batch' = batch
    BY <1>0 DEF First
  <2> QED BY <2>1, <2>2, <2>3 DEF Answers, WatchIInv
<1>9. WatchTypes'
  BY <1>0, <1>1 DEF WatchIInv, WatchTypes
<1>10. FiredIsInHand'
  <2>1. First("monitor")' = First("monitor") /\ table' = table
    BY <1>0 DEF First
  <2>2. CASE t = "monitor"
    <3>1. fired = {}
      BY <2>2, <1>0 DEF WatchIInv, FiredIsInHand
    <3>2. \A n \in fired' : First("monitor") = <<n, table[n]>>
      BY <2>2, <3>1, <1>0, <1>1 DEF Current
    <3> QED BY <2>1, <2>2, <3>2, <1>6 DEF FiredIsInHand
  <2>3. CASE t # "monitor"
    <3>1. fired' = fired
      BY <2>3, <1>0, <1>2
    <3> QED BY <2>1, <2>3, <3>1, <1>6 DEF FiredIsInHand, WatchIInv
  <2> QED BY <2>2, <2>3
<1>11. Apart
  BY <1>0, <1>5, <1>6 DEF Apart
<1> QED BY <1>3, <1>7, <1>8, <1>9, <1>10, <1>11 DEF Threading

\* The step after an effect of a callback.
LEMMA EffectDone ==
    ASSUME WatchIInv, NEW t \in Threads, InBody(t), NextEffect(t), UNCHANGED <<at, batch, inCallback>>
    PROVE  /\ Places' /\ Answers' /\ todo'["task"] = todo["task"]
           /\ Head(todo[t]) \in Effects \ Own
<1>1. todo[t] \in Seq(Effects \ Own) /\ todo[t] # <<>>
  BY DEF WatchIInv, Places, InBody
<1>2. Tail(todo[t]) \in Seq(Effects \ Own) /\ Head(todo[t]) \in Effects \ Own
  BY <1>1
<1>3. /\ DOMAIN todo' = Threads \cup {"task"} /\ todo'["task"] = todo["task"]
      /\ \A u \in Threads : todo'[u] \in Seq(Effects \ Own)
  <2>1. todo' = [todo EXCEPT ![t] = Tail(todo[t])]
    BY DEF NextEffect
  <2> QED BY <2>1, <1>2, ThreadFacts DEF WatchIInv, Places
<1>4. Places'
  BY <1>3 DEF WatchIInv, Places
<1>5. Answers'
  BY DEF WatchIInv, Answers, First
<1> QED BY <1>2, <1>3, <1>4, <1>5

\* A callback asks for the exit.
LEMMA SignalKept ==
    ASSUME WatchIInv, NEW t \in Threads, Beside, SignalExit(t)
    PROVE  Apart /\ Threading'
<1>1. /\ InBody(t) /\ NextEffect(t) /\ tryExit' = TRUE
      /\ UNCHANGED <<table, protect, inCallback, snapshot, at, batch, fired, items>>
      /\ late' = {n \in late : table'[n] # 0}
  BY DEF SignalExit, Beside
<1>2. Places' /\ Answers' /\ todo'["task"] = todo["task"]
  BY <1>1, EffectDone
<1>3. WatchTypes' /\ FiredIsInHand'
  BY <1>1 DEF WatchIInv, WatchTypes, FiredIsInHand, First
<1>4. Apart
  BY <1>1, <1>2 DEF Apart
<1> QED BY <1>2, <1>3, <1>4 DEF Threading

\* What the scopes hold, place by place.
LEMMA KeptIs ==
    \A i : i \in Kept <=>
              \/ \E k \in DOMAIN items.script : items.script[k] = i
              \/ \E k \in DOMAIN items.builtin : items.builtin[k] = i
              \/ at["task"] \in {"unwatch", "leaving"} /\ \E k \in DOMAIN todo["task"] : todo["task"][k] = i
BY DEF Kept

\* A sequence that has grown at its end.
LEMMA Appended ==
    ASSUME NEW S, NEW s \in Seq(S), NEW x \in S
    PROVE  /\ Append(s, x) \in Seq(S) \ {<<>>}
           /\ \A k \in DOMAIN s : k \in DOMAIN Append(s, x) /\ Append(s, x)[k] = s[k]
           /\ \E k \in DOMAIN Append(s, x) : Append(s, x)[k] = x
           /\ \A k \in DOMAIN Append(s, x) : k \in DOMAIN s \/ Append(s, x)[k] = x
<1>1. /\ Append(s, x) \in Seq(S) /\ Len(s) \in Nat /\ Len(Append(s, x)) = Len(s) + 1
      /\ DOMAIN s = 1 .. Len(s) /\ DOMAIN Append(s, x) = 1 .. (Len(s) + 1)
  OBVIOUS
<1>2. Append(s, x) # <<>>
  BY <1>1
<1>3. Append(s, x)[Len(s) + 1] = x
  OBVIOUS
<1>4. \A k \in DOMAIN s : k \in DOMAIN Append(s, x) /\ Append(s, x)[k] = s[k]
  OBVIOUS
<1>5. Len(s) + 1 \in DOMAIN Append(s, x)
  BY <1>1
<1>6. \A k \in DOMAIN Append(s, x) : k \in DOMAIN s \/ k = Len(s) + 1
  BY <1>1
<1> QED BY <1>1, <1>2, <1>3, <1>4, <1>5, <1>6

\* A callback registers one more, through the scope of the script or too late.
LEMMA CallbackAddKept ==
    ASSUME WatchIInv, NEW t \in Threads, AddInCallback(t)
    PROVE  WatchIInv'
<1> DEFINE n == Head(todo[t])
<1>1. /\ InBody(t) /\ n \in Names /\ NextEffect(t)
      /\ UNCHANGED <<tryExit, protect, inCallback, snapshot, at, batch>>
  BY DEF AddInCallback
<1>2. PICK g \in 1 .. Gens[n] :
        /\ table' = [table EXCEPT ![n] = g] /\ fired' = fired \ {n}
        /\ \/ at["task"] \in {"idle", "leaving"} /\ late' = late \cup {n} /\ UNCHANGED items
           \/ /\ at["task"] \notin {"idle", "leaving"} /\ late' = late \ {n}
              /\ items' = [items EXCEPT !.script = Append(items.script, <<n, g>>)]
  <2>1. PICK g \in Unused(n, Kept) :
          /\ Register(<<n, g>>)
          /\ \/ at["task"] \in {"idle", "leaving"} /\ late' = late \cup {n} /\ UNCHANGED items
             \/ /\ at["task"] \notin {"idle", "leaving"} /\ late' = late \ {n}
                /\ items' = [items EXCEPT !.script = Append(items.script, <<n, g>>)]
    BY DEF AddInCallback
  <2>2. g \in 1 .. Gens[n]
    BY DEF Unused
  <2> QED BY <2>1, <2>2 DEF Register
<1>3. /\ Places' /\ Answers' /\ todo'["task"] = todo["task"] /\ n \in Effects \ Own
  BY <1>1, EffectDone
<1> HIDE DEF n
<1>4. /\ <<n, g>> \in Infos /\ g \in Nat /\ g \in 0 .. Gens[n]
      /\ table \in [Names -> Nat] /\ items \in [script : Seq(Infos), builtin : Seq(Infos)]
  BY <1>1, InfoFacts DEF WatchIInv, WatchTypes
<1>5. /\ table' \in [Names -> Nat] /\ table'[n] = g
      /\ \A m \in Names : m # n => table'[m] = table[m]
  BY <1>1, <1>2, <1>4
<1>6. /\ items' \in [script : Seq(Infos), builtin : Seq(Infos)]
      /\ items'.builtin = items.builtin
      /\ \/ items'.script = items.script /\ at["task"] \in {"idle", "leaving"}
         \/ items'.script = Append(items.script, <<n, g>>) /\ at["task"] \notin {"idle", "leaving"}
  <2>1. CASE at["task"] \in {"idle", "leaving"} /\ UNCHANGED items
    BY <2>1, <1>4
  <2>2. CASE /\ at["task"] \notin {"idle", "leaving"}
             /\ items' = [items EXCEPT !.script = Append(items.script, <<n, g>>)]
    <3>1. Append(items.script, <<n, g>>) \in Seq(Infos)
      BY <1>4, Appended
    <3> QED BY <2>2, <3>1, <1>4
  <2> QED BY <2>1, <2>2, <1>2
<1>7. WatchTypes'
  <2>1. \A m \in Names : table'[m] \in 0 .. Gens[m]
    BY <1>4, <1>5 DEF WatchIInv, WatchTypes
  <2> QED BY <2>1, <1>1, <1>2, <1>5, <1>6 DEF WatchIInv, WatchTypes
<1>8. FiredIsInHand'
  <2>1. fired \subseteq Names
    BY NamesAssumption DEF WatchIInv, WatchTypes
  <2> QED BY <2>1, <1>1, <1>2, <1>5 DEF WatchIInv, FiredIsInHand, First
<1>9. Scopes'
  <2>1. at["task"] \notin {"idle", "leaving"} => items'.script # <<>>
    BY <1>4, <1>6, Appended
  <2>2. at["task"] \in {"idle", "leaving"} => items'.script = items.script
    BY <1>6
  <2> QED BY <2>1, <2>2, <1>1, <1>3, <1>6 DEF WatchIInv, Scopes
<1>10. Covered'
  <2>1. \A i : i \in Kept => i \in Kept'
    <3>1. \A k \in DOMAIN items.script : k \in DOMAIN items'.script /\ items'.script[k] = items.script[k]
      <4>1. items.script \in Seq(Infos)
        BY <1>4
      <4>2. CASE items'.script = items.script
        BY <4>2
      <4>3. CASE items'.script = Append(items.script, <<n, g>>)
        BY <4>1, <4>3, <1>4, Appended
      <4> QED BY <4>2, <4>3, <1>6
    <3> QED BY <3>1, <1>1, <1>3, <1>6, KeptIs DEF Kept
  <2>2. n \in late' \/ <<n, g>> \in Kept'
    <3>1. CASE at["task"] \in {"idle", "leaving"}
      BY <3>1, <1>2
    <3>2. CASE at["task"] \notin {"idle", "leaving"}
      <4>1. PICK before \in Seq(Infos), i \in Infos : before = items.script /\ i = <<n, g>>
        BY <1>4
      <4>2. items'.script = Append(before, i)
        BY <3>2, <4>1, <1>6
      <4>3. \E k \in DOMAIN Append(before, i) : Append(before, i)[k] = i
        BY Appended
      <4> QED BY <4>1, <4>2, <4>3 DEF Kept
    <3> QED BY <3>1, <3>2
  <2>3. ASSUME NEW m \in Names, table'[m] # 0 PROVE m \in late' \/ <<m, table'[m]>> \in Kept'
    <3>1. CASE m = n
      BY <3>1, <2>2, <1>5
    <3>2. CASE m # n
      <4>1. table'[m] = table[m] /\ (m \in late => m \in late')
        BY <3>2, <1>2, <1>5
      <4> QED BY <4>1, <2>1, <2>3 DEF WatchIInv, Covered
    <3> QED BY <3>1, <3>2
  <2> QED BY <2>3 DEF Covered
<1>11. OwnStay'
  <2>1. ASSUME at["task"] \in {"builtins", "loop"}, NEW k \in DOMAIN items.builtin
        PROVE  Current(items.builtin[k])' /\ items.builtin[k][1] \in Own
    <3>1. /\ table[items.builtin[k][1]] = items.builtin[k][2] /\ items.builtin[k][1] \in Own
          /\ items.builtin[k] \in Infos
      BY <2>1 DEF WatchIInv, WatchTypes, OwnStay, Current
    <3>2. items.builtin[k][1] \in Names /\ items.builtin[k][1] # n
      BY <3>1, <1>3, InfoFacts
    <3>3. table'[items.builtin[k][1]] = items.builtin[k][2]
      BY <3>1, <3>2, <1>5
    <3> QED BY <3>1, <3>3, <1>6 DEF Current
  <2> QED BY <2>1, <1>1, <1>3, <1>6 DEF WatchIInv, OwnStay
<1> QED BY <1>3, <1>7, <1>8, <1>9, <1>10, <1>11 DEF WatchIInv

\* The task goes on, and nothing of the threads with it.
LEMMA TaskMoveKept ==
    ASSUME WatchIInv, NEW label \in TaskLabels, at' = [at EXCEPT !["task"] = label],
           DOMAIN todo' = DOMAIN todo, \A t \in Threads : todo'[t] = todo[t],
           UNCHANGED <<batch, inCallback>>
    PROVE  /\ Places' /\ Answers' /\ at'["task"] = label
           /\ \A t \in Threads : at'[t] = at[t] /\ First(t)' = First(t)
<1> USE ThreadFacts
<1>1. /\ at' \in [Threads \cup {"task"} -> Labels] /\ at'["task"] = label
      /\ \A t \in Threads : at'[t] = at[t]
  BY DEF WatchIInv, Places, Labels
<1>3. \A t \in Threads : First(t)' = First(t)
  BY DEF First
<1>4. Places'
  BY <1>1 DEF WatchIInv, Places
<1>5. Answers'
  BY <1>1, <1>3 DEF WatchIInv, Answers
<1> QED BY <1>1, <1>3, <1>4, <1>5

\* The task's steps that leave the table alone.
Steady == StartRound \/ ResetExit \/ Protect \/ SeeExit \/ Raise \/ RaiseEarly \/ Finally

\* They keep the invariant.
LEMMA SteadyKept ==
    ASSUME WatchIInv, Steady
    PROVE  WatchIInv'
<1>1. /\ UNCHANGED <<table, inCallback, snapshot, batch, fired, late>>
      /\ tryExit' \in BOOLEAN
  BY DEF Steady, StartRound, ResetExit, Protect, SeeExit, Raise, RaiseEarly, Finally, WatchIInv, WatchTypes
<1>2. /\ items \in [script : Seq(Infos), builtin : Seq(Infos)]
      /\ \A list : [items EXCEPT !.builtin = list].builtin = list
                   /\ [items EXCEPT !.builtin = list].script = items.script
                   /\ [items EXCEPT !.script = list].script = list
                   /\ [items EXCEPT !.script = list].builtin = items.builtin
      /\ [items EXCEPT !.builtin = <<>>] \in [script : Seq(Infos), builtin : Seq(Infos)]
      /\ [items EXCEPT !.script = <<>>] \in [script : Seq(Infos), builtin : Seq(Infos)]
  <2>1. items \in [script : Seq(Infos), builtin : Seq(Infos)] /\ <<>> \in Seq(Infos)
    BY DEF WatchIInv, WatchTypes
  <2> QED BY <2>1
<1>3. items' \in [script : Seq(Infos), builtin : Seq(Infos)]
  BY <1>2 DEF Steady, StartRound, ResetExit, Protect, SeeExit, Raise, RaiseEarly, Finally
<1>4. WatchTypes'
  BY <1>1, <1>3 DEF WatchIInv, WatchTypes
<1>5. PICK label \in TaskLabels,
           list \in {todo["task"], Script, Builtins, items.builtin, items.script} :
        /\ at' = [at EXCEPT !["task"] = label]
        /\ todo' \in {todo, [todo EXCEPT !["task"] = list]} /\ (todo' = todo => list = todo["task"])
        /\ \/ at["task"] = "idle" /\ label = "adding" /\ list = Script /\ UNCHANGED <<protect, items>>
           \/ at["task"] = "entry" /\ label \in {"protect", "cancelled"} /\ list = todo["task"]
              /\ UNCHANGED <<protect, items>>
           \/ at["task"] = "protect" /\ label = "builtins" /\ list = Builtins
              /\ protect' = protect + 1 /\ UNCHANGED items
           \/ at["task"] = "loop" /\ label = "unwatch" /\ list = items.builtin
              /\ UNCHANGED protect /\ items' = [items EXCEPT !.builtin = <<>>]
           \/ at["task"] \in {"unprotect", "cancelled"} /\ label = "leaving" /\ list = items.script
              /\ protect' = (IF at["task"] = "unprotect" THEN protect - 1 ELSE protect)
              /\ items' = [items EXCEPT !.script = <<>>]
  <2>1. \A list : [todo EXCEPT !["task"] = list] = todo => list = todo["task"]
    BY ThreadFacts DEF WatchIInv, Places
  <2>2. CASE StartRound
    BY <2>1, <2>2 DEF StartRound, Task, Goto, Plan, TaskLabels
  <2>3. CASE ResetExit \/ RaiseEarly
    BY <2>3 DEF ResetExit, RaiseEarly, Task, Goto, TaskLabels
  <2>4. CASE Protect
    BY <2>1, <2>4 DEF Protect, Task, Goto, Plan, TaskLabels
  <2>5. CASE SeeExit \/ Raise
    BY <2>1, <2>5 DEF SeeExit, Raise, Task, Goto, Plan, TaskLabels
  <2>6. CASE Finally
    BY <2>1, <2>6 DEF Finally, Goto, Plan, TaskLabels
  <2> QED BY <2>2, <2>3, <2>4, <2>5, <2>6 DEF Steady
<1>6. /\ Places' /\ Answers' /\ at'["task"] = label /\ todo'["task"] = list
      /\ \A t \in Threads : at'[t] = at[t] /\ First(t)' = First(t)
  <2>1. at' = [at EXCEPT !["task"] = label]
    BY <1>5
  <2>2. DOMAIN todo = Threads \cup {"task"}
    BY DEF WatchIInv, Places
  <2>3. /\ DOMAIN todo' = DOMAIN todo /\ todo'["task"] = list
        /\ \A t \in Threads : todo'[t] = todo[t]
    <3>1. CASE todo' = todo
      BY <1>5, <3>1
    <3>2. CASE todo' = [todo EXCEPT !["task"] = list]
      BY <2>2, <3>2, ThreadFacts
    <3> QED BY <1>5, <3>1, <3>2
  <2>4. UNCHANGED <<batch, inCallback>>
    BY <1>1
  <2> QED BY <2>1, <2>3, <2>4, TaskMoveKept
<1>7. FiredIsInHand'
  BY <1>1, <1>6, ThreadFacts DEF WatchIInv, FiredIsInHand
<1>8. Scopes'
  <2>1. CASE at["task"] = "idle" /\ label = "adding" /\ list = Script /\ UNCHANGED <<protect, items>>
    BY <2>1, <1>6, ScriptAssumption, SMTT(60) DEF WatchIInv, Scopes
  <2>2. CASE /\ at["task"] = "entry" /\ label \in {"protect", "cancelled"}
             /\ UNCHANGED <<protect, items>>
    BY <2>2, <1>6 DEF WatchIInv, Scopes
  <2>3. CASE /\ at["task"] = "protect" /\ label = "builtins" /\ list = Builtins
             /\ protect' = protect + 1 /\ UNCHANGED items
    BY <2>3, <1>6, ScriptAssumption DEF WatchIInv, Scopes
  <2>4. CASE /\ at["task"] = "loop" /\ label = "unwatch" /\ list = items.builtin
             /\ UNCHANGED protect /\ items' = [items EXCEPT !.builtin = <<>>]
    BY <2>4, <1>2, <1>6 DEF WatchIInv, Scopes
  <2>5. CASE /\ at["task"] \in {"unprotect", "cancelled"} /\ label = "leaving" /\ list = items.script
             /\ protect' = (IF at["task"] = "unprotect" THEN protect - 1 ELSE protect)
             /\ items' = [items EXCEPT !.script = <<>>]
    BY <2>5, <1>2, <1>6, SMTT(60) DEF WatchIInv, Scopes
  <2> QED BY <1>5, <2>1, <2>2, <2>3, <2>4, <2>5
<1>9. Covered'
  <2>1. ASSUME NEW i \in Kept PROVE i \in Kept'
    <3>1. CASE \E k \in DOMAIN items.script : items.script[k] = i
      <4>1. CASE items'.script = items.script
        BY <3>1, <4>1 DEF Kept
      <4>2. CASE label = "leaving" /\ list = items.script
        BY <3>1, <4>2, <1>6, SMTT(60) DEF Kept
      <4> QED BY <4>1, <4>2, <1>2, <1>5
    <3>2. CASE \E k \in DOMAIN items.builtin : items.builtin[k] = i
      <4>1. CASE items'.builtin = items.builtin
        BY <3>2, <4>1 DEF Kept
      <4>2. CASE label = "unwatch" /\ list = items.builtin
        BY <3>2, <4>2, <1>6 DEF Kept
      <4> QED BY <4>1, <4>2, <1>2, <1>5
    <3>3. CASE at["task"] \in {"unwatch", "leaving"}
      BY <3>3, <1>5
    <3> QED BY <3>1, <3>2, <3>3, KeptIs
  <2> QED BY <2>1, <1>1 DEF WatchIInv, Covered
<1>10. OwnStay'
  <2>1. CASE label # "builtins"
    <3>1. label # "loop"
      BY <1>5
    <3> QED BY <2>1, <3>1, <1>6 DEF OwnStay
  <2>2. CASE label = "builtins"
    <3>1. at["task"] = "protect" /\ list = Builtins /\ items' = items /\ items.builtin = <<>>
      BY <2>2, <1>5 DEF WatchIInv, Scopes
    <3>2. \A k \in DOMAIN Builtins : Builtins[k] \in Own
      BY DEF Own
    <3> QED BY <2>2, <3>1, <3>2, <1>6, OwnAssumption DEF OwnStay
  <2> QED BY <2>1, <2>2
<1> QED BY <1>4, <1>6, <1>7, <1>8, <1>9, <1>10 DEF WatchIInv

\* The table is emptied from outside; a battle that is fought is protected.
LEMMA ClearKept ==
    ASSUME WatchIInv, OutsideClear
    PROVE  WatchIInv'
<1>1. /\ protect = 0 /\ table' = Nothing /\ tryExit' = FALSE /\ fired' = {} /\ late' = {}
      /\ UNCHANGED <<protect, inCallback, snapshot, at, batch, todo, items>>
  BY DEF OutsideClear, Clear, MayClear
<1>2. table' \in [Names -> Nat] /\ \A n \in Names : table'[n] = 0 /\ 0 \in 0 .. Gens[n]
  BY <1>1, InfoFacts DEF Nothing
<1>3. WatchTypes'
  BY <1>1, <1>2 DEF WatchIInv, WatchTypes
<1>4. Places' /\ Answers'
  BY <1>1 DEF WatchIInv, Places, Answers, First
<1>5. FiredIsInHand' /\ Covered'
  BY <1>1, <1>2 DEF FiredIsInHand, Covered
<1>6. Scopes'
  BY <1>1 DEF WatchIInv, Scopes
<1>7. OwnStay'
  <2>1. at["task"] \notin {"builtins", "loop"}
    BY <1>1 DEF WatchIInv, Scopes
  <2> QED BY <2>1, <1>1 DEF OwnStay
<1> QED BY <1>3, <1>4, <1>5, <1>6, <1>7 DEF WatchIInv

\* The task registers the next one of a scope, of the script's or of the battle's.
LEMMA TaskAddKept ==
    ASSUME WatchIInv, AddScript \/ AddBuiltin
    PROVE  WatchIInv'
<1> DEFINE list == todo["task"]
           n == Head(list)
           rest == Tail(list)
<1>1. PICK origin \in {"adding", "builtins"}, label \in {"adding", "builtins", "entry", "loop"},
           scope \in {"script", "builtin"} :
        /\ at["task"] = origin /\ list # <<>>
        /\ origin = "adding" => scope = "script" /\ label \in {"adding", "entry"}
        /\ origin = "builtins" => scope = "builtin" /\ label \in {"builtins", "loop"}
        /\ label = origin <=> Len(list) # 1
        /\ \E g \in Unused(n, Kept) :
             /\ Register(<<n, g>>) /\ late' = late \ {n}
             /\ items' = [items EXCEPT ![scope] = Append(items[scope], <<n, g>>)]
        /\ todo' = [todo EXCEPT !["task"] = rest] /\ at' = [at EXCEPT !["task"] = label]
        /\ UNCHANGED <<tryExit, protect, inCallback, snapshot, batch>>
  BY DEF AddScript, AddBuiltin, Add, Plan, Goto
<1>2. /\ list \in Seq(Names) /\ n \in Names /\ rest \in Seq(Names) /\ (label = origin => rest # <<>>)
      /\ n = list[1] /\ 1 \in DOMAIN list
      /\ \A k \in DOMAIN rest : k + 1 \in DOMAIN list /\ rest[k] = list[k + 1] /\ k + 1 # 1
  <2>1. list \in Seq(Names) /\ list # <<>>
    BY <1>1 DEF WatchIInv, Scopes
  <2> HIDE DEF list
  <2>2. Len(list) \in Nat /\ Len(list) # 0
    BY <2>1
  <2>3. rest \in Seq(Names) /\ Len(rest) = Len(list) - 1
    BY <2>1
  <2>4. label = origin => rest # <<>>
    <3>1. label = origin => Len(list) # 1
      BY <1>1
    <3> HIDE DEF rest
    <3>2. rest = <<>> => Len(rest) = 0
      OBVIOUS
    <3> QED BY <2>2, <2>3, <3>1, <3>2
  <2>5. n = list[1] /\ 1 \in DOMAIN list /\ n \in Names
    BY <2>1
  <2>6. \A k \in DOMAIN rest : k + 1 \in DOMAIN list /\ rest[k] = list[k + 1] /\ k + 1 # 1
    BY <2>1, <2>3
  <2> QED BY <2>1, <2>3, <2>4, <2>5, <2>6
<1>3. PICK g \in 1 .. Gens[n] :
        /\ table' = [table EXCEPT ![n] = g] /\ fired' = fired \ {n} /\ late' = late \ {n}
        /\ items' = [items EXCEPT ![scope] = Append(items[scope], <<n, g>>)]
  <2>1. PICK g \in Unused(n, Kept) :
          /\ Register(<<n, g>>) /\ late' = late \ {n}
          /\ items' = [items EXCEPT ![scope] = Append(items[scope], <<n, g>>)]
    BY <1>1
  <2>2. g \in 1 .. Gens[n]
    BY DEF Unused
  <2> QED BY <2>1, <2>2 DEF Register
<1>4. /\ <<n, g>> \in Infos /\ g \in Nat /\ g # 0 /\ g \in 0 .. Gens[n]
      /\ table \in [Names -> Nat] /\ items \in [script : Seq(Infos), builtin : Seq(Infos)]
  BY <1>2, InfoFacts DEF WatchIInv, WatchTypes
<1>5. /\ table' \in [Names -> Nat] /\ table'[n] = g
      /\ \A m \in Names : m # n => table'[m] = table[m]
  BY <1>2, <1>3, <1>4
<1>6. /\ DOMAIN todo' = DOMAIN todo /\ todo'["task"] = rest
      /\ \A t \in Threads : todo'[t] = todo[t]
  BY <1>1, ThreadFacts DEF WatchIInv, Places
<1>7. /\ Places' /\ Answers' /\ at'["task"] = label
      /\ \A t \in Threads : at'[t] = at[t] /\ First(t)' = First(t)
  <2>1. label \in TaskLabels /\ at' = [at EXCEPT !["task"] = label] /\ UNCHANGED <<batch, inCallback>>
    BY <1>1 DEF TaskLabels
  <2> QED BY <2>1, <1>6, TaskMoveKept
<1> HIDE DEF n, rest, list
<1>8. /\ items' \in [script : Seq(Infos), builtin : Seq(Infos)]
      /\ scope = "script" => /\ items'.builtin = items.builtin
                             /\ items'.script = Append(items.script, <<n, g>>)
      /\ scope = "builtin" => /\ items'.script = items.script
                              /\ items'.builtin = Append(items.builtin, <<n, g>>)
  <2>1. Append(items.script, <<n, g>>) \in Seq(Infos) /\ Append(items.builtin, <<n, g>>) \in Seq(Infos)
    BY <1>4, Appended
  <2>2. CASE scope = "script"
    BY <2>1, <2>2, <1>3, <1>4
  <2>3. CASE scope = "builtin"
    BY <2>1, <2>3, <1>3, <1>4
  <2> QED BY <2>2, <2>3
<1>9. WatchTypes'
  <2>1. \A m \in Names : table'[m] \in 0 .. Gens[m]
    BY <1>4, <1>5 DEF WatchIInv, WatchTypes
  <2> QED BY <2>1, <1>1, <1>3, <1>5, <1>8 DEF WatchIInv, WatchTypes
<1>10. FiredIsInHand'
  <2>1. fired \subseteq Names
    BY NamesAssumption DEF WatchIInv, WatchTypes
  <2> QED BY <2>1, <1>3, <1>5, <1>7, ThreadFacts DEF WatchIInv, FiredIsInHand
<1>11. Scopes'
  <2>1. /\ scope = "script" => items'.script # <<>>
        /\ scope = "builtin" => items'.builtin # <<>>
    BY <1>4, <1>8, Appended, SMTT(60)
  <2> QED BY <2>1, <1>1, <1>2, <1>6, <1>7, <1>8 DEF WatchIInv, Scopes
<1>12. Covered'
  <2>1. ASSUME NEW s \in {"script", "builtin"}, NEW k \in DOMAIN items[s]
        PROVE  k \in DOMAIN items'[s] /\ items'[s][k] = items[s][k]
    <3>1. items[s] \in Seq(Infos)
      BY <1>4
    <3>2. CASE scope = s
      <4>1. items'[s] = Append(items[s], <<n, g>>)
        BY <3>2, <1>8
      <4> QED BY <3>1, <4>1, <1>4, Appended
    <3>3. CASE scope # s
      BY <3>3, <1>8
    <3> QED BY <3>2, <3>3
  <2>2. \A i : i \in Kept => i \in Kept'
    <3>1. ASSUME NEW i \in Kept PROVE i \in Kept'
      <4>1. CASE \E k \in DOMAIN items.script : items.script[k] = i
        BY <2>1, <4>1 DEF Kept
      <4>2. CASE \E k \in DOMAIN items.builtin : items.builtin[k] = i
        BY <2>1, <4>2 DEF Kept
      <4> QED BY <4>1, <4>2, <1>1, KeptIs
    <3> QED BY <3>1
  <2>3. <<n, g>> \in Kept'
    <3>1. \E s \in {"script", "builtin"} : \E k \in DOMAIN items'[s] : items'[s][k] = <<n, g>>
      <4>1. items[scope] \in Seq(Infos) /\ items'[scope] = Append(items[scope], <<n, g>>)
        <5>1. CASE scope = "script"
          BY <5>1, <1>4, <1>8
        <5>2. CASE scope = "builtin"
          BY <5>2, <1>4, <1>8
        <5> QED BY <5>1, <5>2
      <4>2. \E k \in DOMAIN items'[scope] : items'[scope][k] = <<n, g>>
        <5> DEFINE old == items[scope]
                   new == items'[scope]
        <5>1. old \in Seq(Infos) /\ new = Append(old, <<n, g>>) /\ <<n, g>> \in Infos
          BY <4>1, <1>4
        <5> HIDE DEF old, new
        <5>2. \E k \in DOMAIN new : new[k] = <<n, g>>
          BY <5>1, Appended, SMTT(60)
        <5> QED BY <5>2 DEF new
      <4> QED BY <4>2
    <3> QED BY <3>1 DEF Kept
  <2>4. ASSUME NEW m \in Names, table'[m] # 0 PROVE m \in late' \/ <<m, table'[m]>> \in Kept'
    <3>1. CASE m = n
      BY <3>1, <2>3, <1>5
    <3>2. CASE m # n
      <4>1. table'[m] = table[m] /\ (m \in late => m \in late')
        BY <3>2, <1>3, <1>5
      <4> QED BY <4>1, <2>2, <2>4 DEF WatchIInv, Covered
    <3> QED BY <3>1, <3>2
  <2> QED BY <2>4 DEF Covered
<1>13. OwnStay'
  <2>1. CASE origin = "adding"
    BY <2>1, <1>1, <1>7 DEF OwnStay
  <2>2. CASE origin = "builtins"
    <3>1. /\ \A k \in DOMAIN items.builtin :
                 table[items.builtin[k][1]] = items.builtin[k][2] /\ items.builtin[k][1] \in Own
          /\ \A k \in DOMAIN list : list[k] \in Own
          /\ \A j, k \in DOMAIN list : j # k => list[j] # list[k]
          /\ \A j \in DOMAIN items.builtin, k \in DOMAIN list : items.builtin[j][1] # list[k]
      BY <2>2, <1>1 DEF WatchIInv, OwnStay, Current, list
    <3>2. /\ n \in Own /\ \A k \in DOMAIN rest : rest[k] \in Own /\ rest[k] # n
          /\ \A j, k \in DOMAIN rest : j # k => rest[j] # rest[k]
          /\ \A j \in DOMAIN items.builtin : items.builtin[j][1] # n
          /\ \A j \in DOMAIN items.builtin, k \in DOMAIN rest : items.builtin[j][1] # rest[k]
      <4>1. \A j, k \in DOMAIN rest : j # k => j + 1 # k + 1
        BY <1>2
      <4> QED BY <3>1, <4>1, <1>2
    <3>3. ASSUME NEW k \in DOMAIN items'.builtin
          PROVE  \/ items'.builtin[k] = <<n, g>>
                 \/ k \in DOMAIN items.builtin /\ items'.builtin[k] = items.builtin[k]
      <4>1. items.builtin \in Seq(Infos) /\ items'.builtin = Append(items.builtin, <<n, g>>)
        BY <2>2, <1>1, <1>4, <1>8
      <4> QED BY <4>1, <1>4, Appended, SMTT(60)
    <3>4. ASSUME NEW k \in DOMAIN items'.builtin
          PROVE  /\ Current(items.builtin[k])' /\ items'.builtin[k][1] \in Own
                 /\ \A j \in DOMAIN rest : items'.builtin[k][1] # rest[j]
      <4>1. CASE items'.builtin[k] = <<n, g>>
        BY <4>1, <3>2, <1>5 DEF Current
      <4>2. CASE k \in DOMAIN items.builtin /\ items'.builtin[k] = items.builtin[k]
        <5>1. items.builtin[k] \in Infos
          BY <4>2, <1>4
        <5>2. items.builtin[k][1] \in Names /\ items.builtin[k][1] # n
          BY <4>2, <5>1, <3>2, InfoFacts
        <5>3. table'[items.builtin[k][1]] = items.builtin[k][2]
          BY <4>2, <5>2, <3>1, <1>5
        <5> QED BY <4>2, <5>3, <3>1, <3>2 DEF Current
      <4> QED BY <3>3, <4>1, <4>2
    <3> QED BY <3>2, <3>4, <1>6, <1>7 DEF OwnStay
  <2> QED BY <2>1, <2>2
<1> QED BY <1>7, <1>9, <1>10, <1>11, <1>12, <1>13, SMTT(30) DEF WatchIInv

\* A sequence without its last element.
LEMMA WithoutLast ==
    ASSUME NEW S, NEW s \in Seq(S), s # <<>>
    PROVE  LET front == SubSeq(s, 1, Len(s) - 1)
           IN  /\ s[Len(s)] \in S /\ front \in Seq(S)
               /\ \A k \in DOMAIN s :
                     s[k] = s[Len(s)] \/ (k \in DOMAIN front /\ front[k] = s[k])
<1> DEFINE front == SubSeq(s, 1, Len(s) - 1)
<1>1. Len(s) \in Nat /\ Len(s) # 0 /\ DOMAIN s = 1 .. Len(s)
  OBVIOUS
<1>2. s[Len(s)] \in S
  BY <1>1
<1>3. front \in Seq(S) /\ Len(front) = Len(s) - 1
  BY <1>1, SMTT(60)
<1>4. \A k \in 1 .. (Len(s) - 1) : k \in DOMAIN front /\ front[k] = s[k]
  BY <1>1
<1> HIDE DEF front
<1>5. \A n \in Nat : \A k \in 1 .. n : k = n \/ k \in 1 .. (n - 1)
  OBVIOUS
<1>6. \A k \in DOMAIN s : s[k] = s[Len(s)] \/ (k \in DOMAIN front /\ front[k] = s[k])
  BY <1>1, <1>4, <1>5
<1> QED BY <1>2, <1>3, <1>6 DEF front

\* The task removes the last of what it leaves.
LEMMA RemoveKept ==
    ASSUME WatchIInv, LeaveWatch \/ LeaveScript
    PROVE  WatchIInv'
<1> DEFINE list == todo["task"]
           i == list[Len(list)]
           rest == SubSeq(list, 1, Len(list) - 1)
<1>1. PICK origin \in {"unwatch", "leaving"}, label \in {"unwatch", "unprotect", "leaving", "idle"} :
        /\ at["task"] = origin /\ Remove(i)
        /\ origin = "unwatch" => label \in {"unwatch", "unprotect"}
        /\ origin = "leaving" => label \in {"leaving", "idle"}
        /\ label = origin <=> rest # <<>>
        /\ todo' = [todo EXCEPT !["task"] = rest] /\ at' = [at EXCEPT !["task"] = label]
        /\ late' = {n \in late : table'[n] # 0}
        /\ UNCHANGED <<tryExit, protect, inCallback, snapshot, batch, items>>
  BY SMTT(60) DEF LeaveWatch, LeaveScript, RemoveItem, Plan, Goto
<1>2. /\ i \in Infos /\ rest \in Seq(Infos)
      /\ \A k \in DOMAIN list : list[k] = i \/ (k \in DOMAIN rest /\ rest[k] = list[k])
  <2>1. list \in Seq(Infos) /\ list # <<>>
    BY <1>1 DEF WatchIInv, Scopes
  <2> QED BY <2>1, WithoutLast
<1>3. /\ DOMAIN todo' = DOMAIN todo /\ todo'["task"] = rest
      /\ \A t \in Threads : todo'[t] = todo[t]
  BY <1>1, ThreadFacts DEF WatchIInv, Places
<1>4. /\ Places' /\ Answers' /\ at'["task"] = label
      /\ \A t \in Threads : at'[t] = at[t] /\ First(t)' = First(t)
  <2>1. label \in TaskLabels /\ at' = [at EXCEPT !["task"] = label] /\ UNCHANGED <<batch, inCallback>>
    BY <1>1 DEF TaskLabels
  <2> QED BY <2>1, <1>3, TaskMoveKept
<1>5. /\ table' \in [Names -> Nat] /\ \A n \in Names : table'[n] \in 0 .. Gens[n]
      /\ \A n \in Names : table'[n] \in {0, table[n]} /\ (n # i[1] => table'[n] = table[n])
      /\ table'[i[1]] # i[2]
      /\ table[i[1]] # i[2] => UNCHANGED <<table, fired>>
      /\ table[i[1]] = i[2] => fired' = fired \ {i[1]}
  <2> HIDE DEF i
  <2> QED BY <1>1, <1>2, Removed
<1> HIDE DEF i, rest, list
<1>6. WatchTypes'
  BY <1>1, <1>5 DEF WatchIInv, WatchTypes
<1>7. FiredIsInHand'
  <2>1. fired \subseteq Names
    BY NamesAssumption DEF WatchIInv, WatchTypes
  <2>2. \A n \in fired' : n \in fired /\ table'[n] = table[n]
    BY <2>1, <1>5
  <2> QED BY <2>2, <1>4, ThreadFacts DEF WatchIInv, FiredIsInHand
<1>8. Scopes'
  <2>1. rest # <<>> => rest \in Seq(Infos) \ {<<>>}
    BY <1>2
  <2> QED BY <2>1, <1>1, <1>3, <1>4, SMTT(60) DEF WatchIInv, Scopes
<1>9. Covered'
  <2>1. ASSUME NEW m \in Names, table'[m] # 0 PROVE m \in late' \/ <<m, table'[m]>> \in Kept'
    <3>1. table'[m] = table[m]
      BY <2>1, <1>5
    <3>2. CASE m \in late
      BY <2>1, <3>2, <1>1
    <3>3. CASE <<m, table[m]>> \in Kept
      <4>1. <<m, table[m]>> # i
        <5>1. <<m, table[m]>>[1] = m /\ <<m, table[m]>>[2] = table[m]
          OBVIOUS
        <5> QED BY <5>1, <3>1, <1>5
      <4>2. CASE \/ \E k \in DOMAIN items.script : items.script[k] = <<m, table[m]>>
                 \/ \E k \in DOMAIN items.builtin : items.builtin[k] = <<m, table[m]>>
        BY <4>2, <3>1, <1>1 DEF Kept
      <4>3. CASE \E k \in DOMAIN list : list[k] = <<m, table[m]>>
        <5>1. PICK k \in DOMAIN rest : rest[k] = <<m, table[m]>>
          BY <4>1, <4>3, <1>2
        <5>2. rest # <<>>
          BY <5>1
        <5> QED BY <5>1, <5>2, <3>1, <1>1, <1>3, <1>4 DEF Kept
      <4> QED BY <3>3, <4>2, <4>3, KeptIs DEF list
    <3> QED BY <2>1, <3>1, <3>2, <3>3 DEF WatchIInv, Covered
  <2> QED BY <2>1 DEF Covered
<1>10. OwnStay'
  BY <1>1, <1>4 DEF OwnStay
<1> QED BY <1>4, <1>6, <1>7, <1>8, <1>9, <1>10 DEF WatchIInv

\* At the start nothing is registered, and nobody answers.
LEMMA InitWatchIInv ==
    ASSUME Init
    PROVE  WatchIInv
<1> USE ThreadFacts DEF Init
<1>1. WatchTypes
  <2>1. \A n \in Names : 0 \in 0 .. Gens[n]
    BY InfoFacts
  <2>2. table \in [Names -> Nat] /\ \A n \in Names : table[n] = 0
    BY DEF Nothing
  <2>3. batch \in [Threads -> Seq(Infos)]
    OBVIOUS
  <2>4. items \in [script : Seq(Infos), builtin : Seq(Infos)]
    OBVIOUS
  <2>5. snapshot = {} /\ fired = {} /\ late = {} /\ tryExit = FALSE
    OBVIOUS
  <2> QED BY <2>1, <2>2, <2>3, <2>4, <2>5, ZenonT(120) DEF WatchTypes
<1>2. /\ at["task"] = "idle" /\ at["monitor"] = "top" /\ \A c \in Checkers : at[c] = "off"
  BY BoundsAssumption
<1>3. Places
  <2>1. at \in [Threads \cup {"task"} -> Labels]
    BY DEF Labels, TaskLabels, MonitorLabels, CheckerLabels
  <2>2. DOMAIN todo = Threads \cup {"task"} /\ \A t \in Threads : todo[t] \in Seq(Effects \ Own)
    OBVIOUS
  <2> QED BY <2>1, <2>2, <1>2 DEF Places, TaskLabels, MonitorLabels, CheckerLabels
<1>4. Answers
  <2>1. \A t \in Threads : batch[t] = <<>> /\ at[t] \in {"top", "off"}
    BY <1>2
  <2>2. \A c \in Checkers : \A k \in DOMAIN batch[c] : batch[c][k][1] \in Concurrent
    BY <2>1
  <2>3. inCallback = (at["monitor"] = "body" /\ First("monitor")[1] \notin Concurrent)
    BY <1>2
  <2> QED BY <2>1, <2>2, <2>3 DEF Answers
<1>5. FiredIsInHand /\ Covered
  BY DEF FiredIsInHand, Covered, Nothing
<1>6. Scopes /\ OwnStay
  BY <1>2 DEF Scopes, OwnStay
<1> QED BY <1>1, <1>3, <1>4, <1>5, <1>6 DEF WatchIInv

\* Every step keeps the invariant.
LEMMA NextWatchIInv ==
    ASSUME WatchIInv, [Next]_vars
    PROVE  WatchIInv'
<1>1. ASSUME NEW t \in Threads, ThreadStep(t, Kept), Beside
      PROVE  WatchIInv'
  <2>1. Apart /\ Threading'
    <3>1. CASE Looks(t)
      BY <1>1, <3>1, LookKept
    <3>2. CASE Drop(t)
      BY <1>1, <3>2, DropKept
    <3>3. CASE Fire(t, Kept)
      BY <1>1, <3>3, FireKept
    <3>4. CASE SignalExit(t)
      BY <1>1, <3>4, SignalKept
    <3>5. CASE Settle(t)
      BY <1>1, <3>5, SettleKept
    <3>6. CASE Stays(t)
      BY <1>1, <3>6, StayKept
    <3>7. Looks(t) \/ Drop(t) \/ Fire(t, Kept) \/ SignalExit(t) \/ Settle(t) \/ Stays(t)
      <4>1. ThreadStep(t, Kept)
        BY <1>1
      <4>2. \/ LookConcurrent(t)
            \/ Drop(t) \/ Fire(t, Kept) \/ SignalExit(t) \/ Settle(t)
            \/ t = "monitor" /\ (Snapshot \/ Return \/ \E found \in InOrder(snapshot) : LookRegular(found))
            \/ t \in Checkers /\ EndLoop(t)
        BY <4>1 DEF ThreadStep
      <4> QED BY <4>2 DEF Looks, Stays
    <3> QED BY <3>1, <3>2, <3>3, <3>4, <3>5, <3>6, <3>7
  <2>2. Scopes' /\ Covered' /\ OwnStay'
    BY <2>1, ApartKeeps
  <2> QED BY <2>1, <2>2 DEF Threading, WatchIInv
<1>2. CASE UNCHANGED vars
  <2>1. UNCHANGED <<table, tryExit, protect, inCallback, snapshot, at, batch, todo, fired, items, late>>
    BY <1>2 DEF vars
  <2>2. WatchTypes'
    BY <2>1 DEF WatchIInv, WatchTypes
  <2>3. Places' /\ Answers'
    BY <2>1 DEF WatchIInv, Places, Answers, First
  <2>4. FiredIsInHand'
    BY <2>1 DEF WatchIInv, FiredIsInHand, First
  <2>5. Scopes'
    BY <2>1 DEF WatchIInv, Scopes
  <2>6. Covered'
    BY <2>1 DEF WatchIInv, Covered, Kept
  <2>7. OwnStay'
    BY <2>1 DEF WatchIInv, OwnStay, Current
  <2> QED BY <2>2, <2>3, <2>4, <2>5, <2>6, <2>7 DEF WatchIInv
<1>3. CASE \E t \in Threads : Thread(t)
  <2>1. PICK t \in Threads : Thread(t)
    BY <1>3
  <2>2. (ThreadStep(t, Kept) /\ Beside) \/ AddInCallback(t)
    BY <2>1 DEF Thread, Beside
  <2> QED BY <2>2, <1>1, CallbackAddKept
<1>4. CASE Steady
  BY <1>4, SteadyKept
<1>5. CASE AddScript \/ AddBuiltin
  BY <1>5, TaskAddKept
<1>6. CASE LeaveWatch \/ LeaveScript
  BY <1>6, RemoveKept
<1>7. CASE OutsideClear
  BY <1>7, ClearKept
<1> QED BY <1>2, <1>3, <1>4, <1>5, <1>6, <1>7 DEF Next, Progress, Steady

\* The inductive invariant of the table of callbacks (core/background.py) and of a battle under
\* its watch (hero.py, battle_loop): for all names, priorities, callbacks and checkers.
THEOREM WatchInvariant == Spec => []WatchIInv
<1>1. Init => WatchIInv
  BY InitWatchIInv
<1>2. WatchIInv /\ [Next]_vars => WatchIInv'
  BY NextWatchIInv
<1> QED BY <1>1, <1>2, PTL DEF Spec

\* What the inductive invariant gives.
LEMMA IInvIsSound ==
    ASSUME WatchIInv
    PROVE  TableIsSound
<1>1. TypeOK
  BY DEF WatchIInv, WatchTypes, Places, Answers, Scopes, TypeOK
<1>2. BuiltinsStay
  BY DEF WatchIInv, OwnStay, BuiltinsStay
<1>3. ScopeCleans
  <2>1. at["task"] = "idle" => Kept = {}
    BY DEF WatchIInv, Scopes, Kept
  <2> QED BY <2>1 DEF WatchIInv, Covered, ScopeCleans
<1> QED BY <1>1, <1>2, <1>3 DEF TableIsSound

\* The battle's own callbacks stay while it is fought, whoever clears the table, and a round leaves
\* nothing behind but what was registered too late (BackgroundScope, protect_clear).
THEOREM TableSound == Spec => []TableIsSound
BY WatchInvariant, IInvIsSound, PTL

\* The steps of the task and of a callback that register one of a name.
LEMMA RegisterSteps ==
    ASSUME WatchIInv, AddScript \/ AddBuiltin \/ \E t \in Threads : AddInCallback(t)
    PROVE  \E n \in Names, g \in Nat \ {0} : table' = [table EXCEPT ![n] = g]
<1>1. ASSUME NEW n \in Names, NEW g \in Unused(n, Kept), Register(<<n, g>>)
      PROVE  \E m \in Names, h \in Nat \ {0} : table' = [table EXCEPT ![m] = h]
  <2>1. g \in 1 .. Gens[n] /\ Gens[n] \in Nat
    BY InfoFacts DEF Unused
  <2>2. g \in Nat \ {0} /\ table' = [table EXCEPT ![n] = g]
    BY <1>1, <2>1 DEF Register
  <2> QED BY <2>2
<1>2. CASE AddScript \/ AddBuiltin
  <2>1. /\ at["task"] \in {"adding", "builtins"} /\ todo["task"] # <<>>
        /\ \E g \in Unused(Head(todo["task"]), Kept) : Register(<<Head(todo["task"]), g>>)
    BY <1>2 DEF AddScript, AddBuiltin, Add
  <2>2. todo["task"] \in Seq(Names) /\ todo["task"] # <<>>
    BY <2>1 DEF WatchIInv, Scopes
  <2>3. Head(todo["task"]) \in Names
    BY <2>2
  <2> QED BY <2>1, <2>3, <1>1, SMTT(60)
<1>3. CASE \E t \in Threads : AddInCallback(t)
  <2>1. PICK t \in Threads : AddInCallback(t)
    BY <1>3, SMTT(60)
  <2>2. /\ Head(todo[t]) \in Names
        /\ \E g \in Unused(Head(todo[t]), Kept) : Register(<<Head(todo[t]), g>>)
    BY <2>1 DEF AddInCallback
  <2> QED BY <2>2, <1>1
<1> QED BY <1>2, <1>3

\* What each step does to the table.
LEMMA TableSteps ==
    ASSUME WatchIInv, [Next]_vars
    PROVE  \/ table' = table
           \/ table' = Nothing /\ ~tryExit'
           \/ \E n \in Names, g \in Nat \ {0} : table' = [table EXCEPT ![n] = g]
           \/ \E t \in Threads : at[t] \in {"join", "body"} /\ First(t) \in Infos /\ Remove(First(t))
           \/ /\ at["task"] \in {"unwatch", "leaving"}
              /\ \E k \in DOMAIN todo["task"] : todo["task"][k] \in Infos /\ Remove(todo["task"][k])
<1>1. ASSUME NEW t \in Threads, ThreadStep(t, Kept)
      PROVE  table' = table \/ (at[t] \in {"join", "body"} /\ First(t) \in Infos /\ Remove(First(t)))
  <2>1. CASE Settle(t)
    <3>1. /\ at[t] \in {"join", "body"}
          /\ IF First(t)[1] \in Once THEN Remove(First(t)) ELSE UNCHANGED <<table, fired>>
      BY <2>1 DEF Settle, Finished
    <3>2. batch[t] # <<>>
      BY <3>1 DEF WatchIInv, Answers
    <3> QED BY <3>1, <3>2, InHandFacts
  <2>2. CASE LookConcurrent(t)
    BY <2>2 DEF LookConcurrent, Look
  <2>3. CASE Drop(t) \/ Fire(t, Kept) \/ SignalExit(t)
    BY <2>3 DEF Drop, Fire, SignalExit
  <2>4. CASE t = "monitor" /\ (Snapshot \/ Return \/ \E found \in InOrder(snapshot) : LookRegular(found))
    BY <2>4 DEF Snapshot, Return, LookRegular, Look
  <2>5. CASE t \in Checkers /\ EndLoop(t)
    BY <2>5 DEF EndLoop
  <2> QED BY <1>1, <2>1, <2>2, <2>3, <2>4, <2>5 DEF ThreadStep
<1>2. CASE \E t \in Threads : Thread(t)
  <2>1. PICK t \in Threads : Thread(t)
    BY <1>2
  <2>2. CASE ThreadStep(t, Kept)
    BY <2>2, <1>1
  <2>3. CASE AddInCallback(t)
    BY <2>3, RegisterSteps
  <2> QED BY <2>1, <2>2, <2>3 DEF Thread
<1>3. CASE AddScript \/ AddBuiltin
  BY <1>3, RegisterSteps
<1>4. CASE LeaveWatch \/ LeaveScript
  <2>1. at["task"] \in {"unwatch", "leaving"} /\ Remove(todo["task"][Len(todo["task"])])
    BY <1>4 DEF LeaveWatch, LeaveScript, RemoveItem
  <2>2. todo["task"] \in Seq(Infos) /\ todo["task"] # <<>>
    BY <2>1 DEF WatchIInv, Scopes
  <2>3. Len(todo["task"]) \in DOMAIN todo["task"] /\ todo["task"][Len(todo["task"])] \in Infos
    BY <2>2
  <2> QED BY <2>1, <2>3
<1>5. CASE OutsideClear
  BY <1>5 DEF OutsideClear, Clear
<1>6. CASE Steady
  BY <1>6 DEF Steady, StartRound, ResetExit, Protect, SeeExit, Raise, RaiseEarly, Finally
<1>7. CASE UNCHANGED vars
  BY <1>7 DEF vars
<1> QED BY <1>2, <1>3, <1>4, <1>5, <1>6, <1>7 DEF Next, Progress, Steady

\* A registration goes by its own hand, by its scope's end, by a new one of its name or with the
\* whole table: remove() with expected_info takes no other.
LEMMA OwnersRemove ==
    ASSUME WatchIInv, [Next]_vars, NEW i \in Infos, Current(i), ~Current(i)'
    PROVE  \/ table[i[1]]' # 0
           \/ table' = Nothing /\ ~tryExit'
           \/ \E t \in Threads : at[t] \in {"join", "body"} /\ First(t) = i
           \/ at["task"] \in {"unwatch", "leaving"} /\ \E k \in DOMAIN todo["task"] : todo["task"][k] = i
<1>1. table[i[1]] = i[2] /\ table'[i[1]] # i[2] /\ i = <<i[1], i[2]>> /\ i[1] \in Names
  BY InfoFacts DEF Current
<1>2. ASSUME NEW j \in Infos, Remove(j)
      PROVE  j = i
  <2>1. /\ \A n \in Names : n # j[1] => table'[n] = table[n]
        /\ table[j[1]] # j[2] => table' = table
    BY <1>2, Removed
  <2>2. j = <<j[1], j[2]>>
    BY InfoFacts
  <2> QED BY <2>1, <2>2, <1>1
<1>3. CASE \E n \in Names, g \in Nat \ {0} : table' = [table EXCEPT ![n] = g]
  <2>1. PICK n \in Names, g \in Nat \ {0} : table' = [table EXCEPT ![n] = g]
    BY <1>3
  <2>2. n = i[1] /\ table'[i[1]] = g /\ g # 0
    BY <1>1, <2>1 DEF WatchIInv, WatchTypes
  <2> QED BY <2>2
<1>4. CASE \E t \in Threads : at[t] \in {"join", "body"} /\ First(t) \in Infos /\ Remove(First(t))
  BY <1>2, <1>4
<1>5. CASE /\ at["task"] \in {"unwatch", "leaving"}
           /\ \E k \in DOMAIN todo["task"] : todo["task"][k] \in Infos /\ Remove(todo["task"][k])
  BY <1>2, <1>5
<1> QED BY <1>1, <1>3, <1>4, <1>5, TableSteps

\* A thread begins a callback by Fire, and by nothing else.
LEMMA OnlyFire ==
    ASSUME WatchIInv, [Next]_vars, NEW t \in Threads, at[t] # "body", at'[t] = "body"
    PROVE  Fire(t, Kept) /\ Beside
<1> USE ThreadFacts
<1>0. DOMAIN at = Threads \cup {"task"}
  BY DEF WatchIInv, Places
<1>1. ASSUME NEW x, NEW label, at' = [at EXCEPT ![x] = label], label # "body" PROVE FALSE
  BY <1>0, <1>1
<1>2. at' # at
  OBVIOUS
<1>3. ASSUME NEW u \in Threads, Fire(u, Kept), u # t PROVE FALSE
  <2>1. CASE Goto(u, "body")
    BY <1>0, <1>3, <2>1 DEF Goto
  <2>2. CASE \E c \in Checkers : at' = [at EXCEPT ![u] = "body", ![c] = "loop"]
    BY <1>0, <1>3, <2>2
  <2> QED BY <1>3, <2>1, <2>2 DEF Fire
<1>4. ASSUME NEW u \in Threads, ThreadStep(u, Kept), ~Fire(u, Kept) PROVE FALSE
  <2>1. ASSUME NEW kind \in {"concurrent", "regular"}, NEW left, at' = [at EXCEPT ![u] = Onward(u, kind, left)]
        PROVE  FALSE
    <3>1. Onward(u, kind, left) # "body"
      BY DEF Onward
    <3> QED BY <2>1, <3>1, <1>1
  <2>2. CASE LookConcurrent(u)
    BY <2>1, <2>2 DEF LookConcurrent, Look, Goto
  <2>3. CASE Drop(u)
    <3>1. at[u] \in {"concurrent", "regular"} /\ at' = [at EXCEPT ![u] = Onward(u, at[u], Tail(batch[u]))]
      BY <2>3 DEF Drop, Answering, Goto
    <3> QED BY <2>1, <3>1
  <2>4. CASE SignalExit(u)
    BY <2>4, <1>2 DEF SignalExit
  <2>5. CASE Settle(u)
    <3> DEFINE kind == IF First(u)[1] \in Concurrent THEN "concurrent" ELSE "regular"
    <3>1. at' = [at EXCEPT ![u] = Onward(u, kind, Tail(batch[u]))] /\ kind \in {"concurrent", "regular"}
      BY <2>5 DEF Settle, Goto
    <3> HIDE DEF kind
    <3> QED BY <2>1, <3>1
  <2>6. CASE u = "monitor" /\ (Snapshot \/ Return \/ \E found \in InOrder(snapshot) : LookRegular(found))
    <3>1. CASE Snapshot \/ Return
      BY <3>1, <1>1 DEF Snapshot, Return, Goto
    <3>2. CASE \E found \in InOrder(snapshot) : LookRegular(found)
      BY <2>1, <2>6, <3>2 DEF LookRegular, Look, Goto
    <3> QED BY <2>6, <3>1, <3>2
  <2>7. CASE u \in Checkers /\ EndLoop(u)
    BY <2>7, <1>1 DEF EndLoop, Goto
  <2> QED BY <1>4, <2>2, <2>3, <2>4, <2>5, <2>6, <2>7 DEF ThreadStep
<1>5. ASSUME NEW label, at' = [at EXCEPT !["task"] = label] PROVE FALSE
  BY <1>0, <1>5
<1>6. CASE \E u \in Threads : Thread(u)
  <2>1. PICK u \in Threads : Thread(u)
    BY <1>6
  <2>2. ~AddInCallback(u)
    BY <1>2 DEF AddInCallback
  <2>3. ThreadStep(u, Kept) /\ Beside
    BY <2>1, <2>2, SMTT(60) DEF Thread, Beside
  <2> QED BY <2>3, <1>3, <1>4
<1>7. CASE Steady
  BY <1>5, <1>7, SMTT(60)
     DEF Steady, StartRound, ResetExit, Protect, SeeExit, Raise, RaiseEarly, Finally, Task, Goto
<1>8. CASE AddScript \/ AddBuiltin \/ LeaveWatch \/ LeaveScript
  BY <1>5, <1>8 DEF AddScript, AddBuiltin, LeaveWatch, LeaveScript, Add, RemoveItem, Goto
<1>9. CASE OutsideClear \/ UNCHANGED vars
  BY <1>2, <1>9 DEF OutsideClear, vars
<1> QED BY <1>6, <1>7, <1>8, <1>9 DEF Next, Progress, Steady

\* A regular callback with once=True is answered once per registration, and only its owner takes a
\* registration away, however the threads, the scopes and the clears interleave.
THEOREM OnceHonoured == Spec => OnceIsHonoured
<1>1. Spec => []WatchIInv
  BY WatchInvariant
<1>2. WatchIInv /\ [Next]_vars =>
        [\A i \in Infos :
          Current(i) /\ ~Current(i)' =>
            \/ table[i[1]]' # 0
            \/ table' = Nothing /\ ~tryExit'
            \/ \E t \in Threads : at[t] \in {"join", "body"} /\ First(t) = i
            \/ at["task"] \in {"unwatch", "leaving"} /\ \E k \in DOMAIN todo["task"] : todo["task"][k] = i]_vars
  BY OwnersRemove
<1>3. WatchIInv /\ [Next]_vars =>
        [\A t \in Threads :
          at[t] # "body" /\ at[t]' = "body" => First(t)[1] \notin fired]_vars
  BY OnlyFire, FireKept
<1> QED BY <1>1, <1>2, <1>3, PTL DEF Spec, OnceIsHonoured, OnlyOwnersRemove, OnceFiresOnce

-----------------------------------------------------------------------------
(* The session (DeviceSession).  Whoever makes one has the refresh lock, a    *)
(* task that drops its own has not; the other threads only use what is there. *)

Making == {"drop", "forget", "start", "test", "join", "publish", "complete", "sync", "synced"}
Renewing == {"drop", "forget", "start", "test", "join", "publish", "complete"}
TaskSteps == Making \cup {"rest", "wait", "clear", "cleared", "run"}
WebSteps == Making \cup {"rest", "wait", "got", "fetch", "open", "store", "call"}

SessionTypes ==
    /\ DOMAIN goes = Session!Threads /\ DOMAIN ctrl = Session!Threads
    /\ DOMAIN dropping = {"task", "web"}
    /\ goes["task"] \in TaskSteps /\ goes["web"] \in WebSteps

LockIsMakers ==
    \A m \in {"task", "web"} :
        /\ (lock = m) = (goes[m] \in Making /\ ~dropping[m])
        /\ dropping[m] =>
            m = "task" /\ goes[m] \in {"drop", "forget", "clear", "cleared", "sync", "synced"}
        /\ goes[m] \in {"clear", "cleared"} => dropping[m]
        /\ goes[m] = "join" => tester \in Testers

\* Nobody makes a session while a task runs, and what is read of the fields is still so.
OwnSession ==
    /\ own # 0 =>
        /\ goes["task"] = "run" /\ mixctrl = own /\ mumu /\ core = own
        /\ goes["web"] \notin Renewing
        /\ goes["web"] = "synced" => ctrl["web"] = own
    /\ goes["task"] \in {"sync", "synced"} /\ ~dropping["task"] => mumu
    /\ goes["task"] = "synced" /\ ~dropping["task"] => ctrl["task"] = mixctrl

SessionIInv == SessionTypes /\ LockIsMakers /\ OwnSession

LEMMA SessionThreads ==
    /\ "task" \in Session!Threads /\ "web" \in Session!Threads /\ "monitor" \in Session!Threads
    /\ Testers \subseteq Session!Threads
    /\ {"task", "web", "monitor", "nobody"} \cap Testers = {}
BY SharedAssumption DEF Session!Threads, Session!Makers, Session!Users

LEMMA InitSessionIInv ==
    ASSUME Session!Init
    PROVE  SessionIInv
<1> USE DEF Session!Init, Session!None, Session!Nobody, Session!Makers
<1>1. SessionTypes
  BY SessionThreads DEF SessionTypes, TaskSteps, WebSteps
<1>2. LockIsMakers /\ OwnSession
  BY SessionThreads DEF LockIsMakers, OwnSession, Making
<1> QED BY <1>1, <1>2 DEF SessionIInv

\* What the other threads do: the makers' steps, the lock and the session stay.
LEMMA OthersAside ==
    ASSUME SessionIInv,
           UNCHANGED <<mixctrl, mumu, core, lock, own, dropping, tester>>,
           DOMAIN goes' = DOMAIN goes, DOMAIN ctrl' = DOMAIN ctrl,
           \A m \in {"task", "web"} : goes'[m] = goes[m] /\ ctrl'[m] = ctrl[m]
    PROVE  SessionIInv'
<1>1. SessionTypes' /\ LockIsMakers' /\ OwnSession'
  BY DEF SessionIInv, SessionTypes, LockIsMakers, OwnSession
<1> QED BY <1>1 DEF SessionIInv

LEMMA TakeLockKeepsSession ==
    ASSUME SessionIInv, NEW m \in {"task", "web"}, Session!TakeLock(m)
    PROVE  SessionIInv'
<1> USE SessionThreads
    DEF Session!TakeLock, Session!HasSession, Session!Goto, Session!Moves,
       Session!contextVars, Session!connectionVars, Session!makingVars, Session!None,
       Session!Nobody, Making, Renewing, TaskSteps, WebSteps
<1>1. SessionTypes'
  BY DEF SessionIInv, SessionTypes, LockIsMakers
<1>2. LockIsMakers'
  BY DEF SessionIInv, SessionTypes, LockIsMakers
<1>3. OwnSession'
  BY DEF SessionIInv, SessionTypes, LockIsMakers, OwnSession
<1> QED BY <1>1, <1>2, <1>3 DEF SessionIInv

LEMMA DropKeepsSession ==
    ASSUME SessionIInv, NEW m \in {"task", "web"}, Session!Drop(m)
    PROVE  SessionIInv'
<1> USE SessionThreads
    DEF Session!Drop, Session!Goto, Session!Moves, Session!contextVars,
       Session!connectionVars, Session!makingVars, Session!None, Session!Nobody, Making,
       Renewing, TaskSteps, WebSteps
<1>1. SessionTypes'
  BY DEF SessionIInv, SessionTypes, LockIsMakers
<1>2. LockIsMakers'
  BY DEF SessionIInv, SessionTypes, LockIsMakers
<1>3. OwnSession'
  BY DEF SessionIInv, SessionTypes, LockIsMakers, OwnSession
<1> QED BY <1>1, <1>2, <1>3 DEF SessionIInv

LEMMA ForgetKeepsSession ==
    ASSUME SessionIInv, NEW m \in {"task", "web"}, Session!Forget(m)
    PROVE  SessionIInv'
<1> USE SessionThreads
    DEF Session!Forget, Session!Goto, Session!Moves, Session!contextVars,
       Session!connectionVars, Session!makingVars, Session!None, Session!Nobody, Making,
       Renewing, TaskSteps, WebSteps
<1>1. SessionTypes'
  BY DEF SessionIInv, SessionTypes, LockIsMakers
<1>2. LockIsMakers'
  BY DEF SessionIInv, SessionTypes, LockIsMakers
<1>3. OwnSession'
  BY DEF SessionIInv, SessionTypes, LockIsMakers, OwnSession
<1> QED BY <1>1, <1>2, <1>3 DEF SessionIInv

LEMMA StartKeepsSession ==
    ASSUME SessionIInv, NEW m \in {"task", "web"}, Session!Start(m)
    PROVE  SessionIInv'
<1> USE SessionThreads
    DEF Session!Start, Session!Goto, Session!Moves, Session!contextVars,
       Session!connectionVars, Session!makingVars, Session!None, Session!Nobody, Making,
       Renewing, TaskSteps, WebSteps
<1>1. SessionTypes'
  BY DEF SessionIInv, SessionTypes, LockIsMakers
<1>2. LockIsMakers'
  BY DEF SessionIInv, SessionTypes, LockIsMakers
<1>3. OwnSession'
  BY DEF SessionIInv, SessionTypes, LockIsMakers, OwnSession
<1> QED BY <1>1, <1>2, <1>3 DEF SessionIInv

LEMMA StartFailsKeepsSession ==
    ASSUME SessionIInv, NEW m \in {"task", "web"}, Session!StartFails(m)
    PROVE  SessionIInv'
<1> USE SessionThreads
    DEF Session!StartFails, Session!Raise, Session!Unlock, Session!Goto, Session!Moves,
       Session!contextVars, Session!connectionVars, Session!makingVars, Session!None,
       Session!Nobody, Making, Renewing, TaskSteps, WebSteps
<1>1. SessionTypes'
  BY DEF SessionIInv, SessionTypes, LockIsMakers
<1>2. LockIsMakers'
  BY DEF SessionIInv, SessionTypes, LockIsMakers
<1>3. OwnSession'
  BY DEF SessionIInv, SessionTypes, LockIsMakers, OwnSession
<1> QED BY <1>1, <1>2, <1>3 DEF SessionIInv

LEMMA BeginTestKeepsSession ==
    ASSUME SessionIInv, NEW m \in {"task", "web"}, Session!BeginTest(m)
    PROVE  SessionIInv'
<1> USE SessionThreads
    DEF Session!BeginTest, Session!Goto, Session!Moves, Session!contextVars,
       Session!connectionVars, Session!makingVars, Session!None, Session!Nobody, Making,
       Renewing, TaskSteps, WebSteps
<1>1. SessionTypes'
  BY DEF SessionIInv, SessionTypes, LockIsMakers
<1>2. LockIsMakers'
  BY DEF SessionIInv, SessionTypes, LockIsMakers
<1>3. OwnSession'
  BY DEF SessionIInv, SessionTypes, LockIsMakers, OwnSession
<1> QED BY <1>1, <1>2, <1>3 DEF SessionIInv

LEMMA PassedKeepsSession ==
    ASSUME SessionIInv, NEW m \in {"task", "web"}, Session!Passed(m)
    PROVE  SessionIInv'
<1> USE SessionThreads
    DEF Session!Passed, Session!Goto, Session!Moves, Session!contextVars,
       Session!connectionVars, Session!makingVars, Session!None, Session!Nobody, Making,
       Renewing, TaskSteps, WebSteps
<1>1. SessionTypes'
  BY DEF SessionIInv, SessionTypes, LockIsMakers
<1>2. LockIsMakers'
  BY DEF SessionIInv, SessionTypes, LockIsMakers
<1>3. OwnSession'
  BY DEF SessionIInv, SessionTypes, LockIsMakers, OwnSession
<1> QED BY <1>1, <1>2, <1>3 DEF SessionIInv

LEMMA NotPassedKeepsSession ==
    ASSUME SessionIInv, NEW m \in {"task", "web"}, Session!NotPassed(m)
    PROVE  SessionIInv'
<1> USE SessionThreads
    DEF Session!NotPassed, Session!Goto, Session!Moves, Session!contextVars,
       Session!connectionVars, Session!makingVars, Session!None, Session!Nobody, Making,
       Renewing, TaskSteps, WebSteps
<1>1. SessionTypes'
  BY DEF SessionIInv, SessionTypes, LockIsMakers
<1>2. LockIsMakers'
  BY DEF SessionIInv, SessionTypes, LockIsMakers
<1>3. OwnSession'
  BY DEF SessionIInv, SessionTypes, LockIsMakers, OwnSession
<1> QED BY <1>1, <1>2, <1>3 DEF SessionIInv

LEMMA NonePassedKeepsSession ==
    ASSUME SessionIInv, NEW m \in {"task", "web"}, Session!NonePassed(m)
    PROVE  SessionIInv'
<1> USE SessionThreads
    DEF Session!NonePassed, Session!Raise, Session!Unlock, Session!Goto, Session!Moves,
       Session!contextVars, Session!connectionVars, Session!makingVars, Session!None,
       Session!Nobody, Making, Renewing, TaskSteps, WebSteps
<1>1. SessionTypes'
  BY DEF SessionIInv, SessionTypes, LockIsMakers
<1>2. LockIsMakers'
  BY DEF SessionIInv, SessionTypes, LockIsMakers
<1>3. OwnSession'
  BY DEF SessionIInv, SessionTypes, LockIsMakers, OwnSession
<1> QED BY <1>1, <1>2, <1>3 DEF SessionIInv

LEMMA PublishKeepsSession ==
    ASSUME SessionIInv, NEW m \in {"task", "web"}, Session!Publish(m)
    PROVE  SessionIInv'
<1> USE SessionThreads
    DEF Session!Publish, Session!Goto, Session!Moves, Session!contextVars,
       Session!connectionVars, Session!makingVars, Session!None, Session!Nobody, Making,
       Renewing, TaskSteps, WebSteps
<1>1. SessionTypes'
  BY DEF SessionIInv, SessionTypes, LockIsMakers
<1>2. LockIsMakers'
  BY DEF SessionIInv, SessionTypes, LockIsMakers
<1>3. OwnSession'
  BY DEF SessionIInv, SessionTypes, LockIsMakers, OwnSession
<1> QED BY <1>1, <1>2, <1>3 DEF SessionIInv

LEMMA CompleteKeepsSession ==
    ASSUME SessionIInv, NEW m \in {"task", "web"}, Session!Complete(m)
    PROVE  SessionIInv'
<1> USE SessionThreads
    DEF Session!Complete, Session!Goto, Session!Moves, Session!contextVars,
       Session!connectionVars, Session!makingVars, Session!None, Session!Nobody, Making,
       Renewing, TaskSteps, WebSteps
<1>1. SessionTypes'
  BY DEF SessionIInv, SessionTypes, LockIsMakers
<1>2. LockIsMakers'
  BY DEF SessionIInv, SessionTypes, LockIsMakers
<1>3. OwnSession'
  BY DEF SessionIInv, SessionTypes, LockIsMakers, OwnSession
<1> QED BY <1>1, <1>2, <1>3 DEF SessionIInv

LEMMA ClearKeepsSession ==
    ASSUME SessionIInv, NEW m \in {"task", "web"}, Session!Clear(m)
    PROVE  SessionIInv'
<1> USE SessionThreads
    DEF Session!Clear, Session!Goto, Session!Moves, Session!contextVars,
       Session!connectionVars, Session!makingVars, Session!None, Session!Nobody, Making,
       Renewing, TaskSteps, WebSteps
<1>1. SessionTypes'
  BY DEF SessionIInv, SessionTypes, LockIsMakers
<1>2. LockIsMakers'
  BY DEF SessionIInv, SessionTypes, LockIsMakers
<1>3. OwnSession'
  BY DEF SessionIInv, SessionTypes, LockIsMakers, OwnSession
<1> QED BY <1>1, <1>2, <1>3 DEF SessionIInv

LEMMA ClearedKeepsSession ==
    ASSUME SessionIInv, NEW m \in {"task", "web"}, Session!Cleared(m)
    PROVE  SessionIInv'
<1> USE SessionThreads
    DEF Session!Cleared, Session!Goto, Session!Moves, Session!contextVars,
       Session!connectionVars, Session!makingVars, Session!None, Session!Nobody, Making,
       Renewing, TaskSteps, WebSteps
<1>1. SessionTypes'
  BY DEF SessionIInv, SessionTypes, LockIsMakers
<1>2. LockIsMakers'
  BY DEF SessionIInv, SessionTypes, LockIsMakers
<1>3. OwnSession'
  BY DEF SessionIInv, SessionTypes, LockIsMakers, OwnSession
<1> QED BY <1>1, <1>2, <1>3 DEF SessionIInv

LEMMA SyncKeepsSession ==
    ASSUME SessionIInv, NEW m \in {"task", "web"}, Session!Sync(m)
    PROVE  SessionIInv'
<1> USE SessionThreads
    DEF Session!Sync, Session!Goto, Session!Moves, Session!contextVars,
       Session!connectionVars, Session!makingVars, Session!None, Session!Nobody, Making,
       Renewing, TaskSteps, WebSteps
<1>1. SessionTypes'
  BY DEF SessionIInv, SessionTypes, LockIsMakers
<1>2. LockIsMakers'
  BY DEF SessionIInv, SessionTypes, LockIsMakers
<1>3. OwnSession'
  BY DEF SessionIInv, SessionTypes, LockIsMakers, OwnSession
<1> QED BY <1>1, <1>2, <1>3 DEF SessionIInv

LEMMA SyncedKeepsSession ==
    ASSUME SessionIInv, NEW m \in {"task", "web"}, Session!Synced(m)
    PROVE  SessionIInv'
<1> USE SessionThreads
    DEF Session!Synced, Session!Unlock, Session!Goto, Session!Moves, Session!contextVars,
       Session!connectionVars, Session!makingVars, Session!None, Session!Nobody, Making,
       Renewing, TaskSteps, WebSteps
<1>1. SessionTypes'
  BY DEF SessionIInv, SessionTypes, LockIsMakers
<1>2. LockIsMakers'
  BY DEF SessionIInv, SessionTypes, LockIsMakers
<1>3. OwnSession'
  BY DEF SessionIInv, SessionTypes, LockIsMakers, OwnSession
<1> QED BY <1>1, <1>2, <1>3 DEF SessionIInv

LEMMA TaskBeginsKeepsSession ==
    ASSUME SessionIInv, Session!TaskBegins
    PROVE  SessionIInv'
<1> USE SessionThreads
    DEF Session!TaskBegins, Session!Goto, Session!Moves, Session!contextVars,
       Session!connectionVars, Session!makingVars, Session!None, Session!Nobody, Making,
       Renewing, TaskSteps, WebSteps
<1>1. SessionTypes'
  BY DEF SessionIInv, SessionTypes, LockIsMakers
<1>2. LockIsMakers'
  BY DEF SessionIInv, SessionTypes, LockIsMakers
<1>3. OwnSession'
  BY DEF SessionIInv, SessionTypes, LockIsMakers, OwnSession
<1> QED BY <1>1, <1>2, <1>3 DEF SessionIInv

LEMMA WebBeginsKeepsSession ==
    ASSUME SessionIInv, Session!WebBegins
    PROVE  SessionIInv'
<1> USE SessionThreads
    DEF Session!WebBegins, Session!Goto, Session!Moves, Session!contextVars,
       Session!connectionVars, Session!makingVars, Session!None, Session!Nobody, Making,
       Renewing, TaskSteps, WebSteps
<1>1. SessionTypes'
  BY DEF SessionIInv, SessionTypes, LockIsMakers
<1>2. LockIsMakers'
  BY DEF SessionIInv, SessionTypes, LockIsMakers
<1>3. OwnSession'
  BY DEF SessionIInv, SessionTypes, LockIsMakers, OwnSession
<1> QED BY <1>1, <1>2, <1>3 DEF SessionIInv

LEMMA TaskEndsKeepsSession ==
    ASSUME SessionIInv, Session!TaskEnds
    PROVE  SessionIInv'
<1> USE SessionThreads
    DEF Session!TaskEnds, Session!Goto, Session!Moves, Session!contextVars,
       Session!connectionVars, Session!makingVars, Session!None, Session!Nobody, Making,
       Renewing, TaskSteps, WebSteps
<1>1. SessionTypes'
  BY DEF SessionIInv, SessionTypes, LockIsMakers
<1>2. LockIsMakers'
  BY DEF SessionIInv, SessionTypes, LockIsMakers
<1>3. OwnSession'
  BY DEF SessionIInv, SessionTypes, LockIsMakers, OwnSession
<1> QED BY <1>1, <1>2, <1>3 DEF SessionIInv

LEMMA TaskDropsKeepsSession ==
    ASSUME SessionIInv, Session!TaskDrops
    PROVE  SessionIInv'
<1> USE SessionThreads
    DEF Session!TaskDrops, Session!Goto, Session!Moves, Session!contextVars,
       Session!connectionVars, Session!makingVars, Session!None, Session!Nobody, Making,
       Renewing, TaskSteps, WebSteps
<1>1. SessionTypes'
  BY DEF SessionIInv, SessionTypes, LockIsMakers
<1>2. LockIsMakers'
  BY DEF SessionIInv, SessionTypes, LockIsMakers
<1>3. OwnSession'
  BY DEF SessionIInv, SessionTypes, LockIsMakers, OwnSession
<1> QED BY <1>1, <1>2, <1>3 DEF SessionIInv

LEMMA CancelledKeepsSession ==
    ASSUME SessionIInv, Session!Cancelled
    PROVE  SessionIInv'
<1> USE SessionThreads
    DEF Session!Cancelled, Session!Raise, Session!Unlock, Session!Goto, Session!Moves,
       Session!contextVars, Session!connectionVars, Session!makingVars, Session!None,
       Session!Nobody, Making, Renewing, TaskSteps, WebSteps
<1>1. SessionTypes'
  BY DEF SessionIInv, SessionTypes, LockIsMakers
<1>2. LockIsMakers'
  BY DEF SessionIInv, SessionTypes, LockIsMakers
<1>3. OwnSession'
  BY DEF SessionIInv, SessionTypes, LockIsMakers, OwnSession
<1> QED BY <1>1, <1>2, <1>3 DEF SessionIInv

LEMMA WebGotKeepsSession ==
    ASSUME SessionIInv, Session!WebGot
    PROVE  SessionIInv'
<1> USE SessionThreads
    DEF Session!WebGot, Session!Goto, Session!Moves, Session!contextVars,
       Session!connectionVars, Session!makingVars, Session!None, Session!Nobody, Making,
       Renewing, TaskSteps, WebSteps
<1>1. SessionTypes'
  BY DEF SessionIInv, SessionTypes, LockIsMakers
<1>2. LockIsMakers'
  BY DEF SessionIInv, SessionTypes, LockIsMakers
<1>3. OwnSession'
  BY DEF SessionIInv, SessionTypes, LockIsMakers, OwnSession
<1> QED BY <1>1, <1>2, <1>3 DEF SessionIInv

\* The editor's call, the monitor's and the click tests.
LEMMA UsesKeepsSession ==
    ASSUME SessionIInv,
           \/ Session!MonitorLooks \/ Session!Stop
           \/ \E t \in {"web", "monitor"} : Session!Use(t)
           \/ \E t \in Testers : Session!Click(t) \/ Session!ClickFails(t) \/ Session!Forgotten(t)
    PROVE  SessionIInv'
<1> USE SessionThreads DEF Session!Goto, Session!Moves, Session!contextVars, Session!connectionVars,
       Session!makingVars
<1>1. CASE Session!MonitorLooks \/ Session!Stop
  BY <1>1, OthersAside DEF SessionIInv, SessionTypes, Session!MonitorLooks, Session!Stop
<1>2. ASSUME NEW t \in Testers, Session!Click(t) \/ Session!ClickFails(t) \/ Session!Forgotten(t)
      PROVE  SessionIInv'
  <2>1. /\ UNCHANGED <<mixctrl, mumu, core, lock, own, dropping, tester>>
        /\ DOMAIN goes' = DOMAIN goes /\ DOMAIN ctrl' = DOMAIN ctrl
        /\ \A u \in Session!Threads \ {t} : goes'[u] = goes[u] /\ ctrl'[u] = ctrl[u]
    BY <1>2 DEF SessionIInv, SessionTypes, Session!Click, Session!ClickFails, Session!Forgotten
  <2> QED BY <2>1, OthersAside
<1>3. ASSUME NEW t \in {"web", "monitor"}, Session!Use(t)
      PROVE  SessionIInv'
  <2>1. /\ UNCHANGED <<mixctrl, mumu, core, lock, own, dropping, tester>>
        /\ DOMAIN goes' = DOMAIN goes /\ DOMAIN ctrl' = DOMAIN ctrl
        /\ \A u \in Session!Threads \ {t} : goes'[u] = goes[u] /\ ctrl'[u] = ctrl[u]
        /\ goes[t] \in {"fetch", "open", "store", "call"}
        /\ goes'[t] \in {"rest", "open", "store", "call"}
    BY <1>3 DEF SessionIInv, SessionTypes, Session!Use, Session!Fetch, Session!Open, Session!Store,
       Session!Call, Session!CallFails, Session!Leaves
  <2>2. CASE t = "monitor"
    BY <2>1, <2>2, OthersAside
  <2>3. CASE t = "web"
    <3> USE <2>1, <2>3 DEF Making, Renewing, TaskSteps, WebSteps
    <3>1. SessionTypes' /\ LockIsMakers'
      BY DEF SessionIInv, SessionTypes, LockIsMakers
    <3>2. OwnSession'
      BY DEF SessionIInv, OwnSession
    <3> QED BY <3>1, <3>2 DEF SessionIInv
  <2> QED BY <2>2, <2>3, SMTT(60)
<1> QED BY <1>1, <1>2, <1>3

LEMMA NextSessionIInv ==
    ASSUME SessionIInv, [Session!Next]_(Session!vars)
    PROVE  SessionIInv'
<1>1. ASSUME NEW m \in {"task", "web"}, Session!Make(m)
      PROVE  SessionIInv'
  BY <1>1, TakeLockKeepsSession, DropKeepsSession, ForgetKeepsSession, StartKeepsSession,
     StartFailsKeepsSession, BeginTestKeepsSession, PassedKeepsSession, NotPassedKeepsSession,
     NonePassedKeepsSession, PublishKeepsSession, CompleteKeepsSession, ClearKeepsSession,
     ClearedKeepsSession, SyncKeepsSession,
     SyncedKeepsSession DEF Session!Make
<1>2. CASE UNCHANGED Session!vars
  BY <1>2, OthersAside DEF Session!vars, Session!contextVars, Session!makingVars
<1> QED BY <1>1, <1>2, TaskBeginsKeepsSession, WebBeginsKeepsSession, TaskEndsKeepsSession,
       TaskDropsKeepsSession, CancelledKeepsSession,
       WebGotKeepsSession, UsesKeepsSession DEF Session!Next, Session!Makers, Session!Users

\* The inductive invariant of the device session (runtime_context.py).
THEOREM SessionInvariant == Session!Spec => []SessionIInv
<1>1. Session!Init => SessionIInv
  BY InitSessionIInv
<1>2. SessionIInv /\ [Session!Next]_(Session!vars) => SessionIInv'
  BY NextSessionIInv
<1> QED BY <1>1, <1>2, PTL DEF Session!Spec

\* A task runs with the session it has made, and every refresh leaves the lock, for any number
\* of click tests, controls and connections.
THEOREM SessionSound == Session!Spec => []SessionIsSound
<1>1. SessionIInv => Session!TaskHasItsSession
  BY DEF SessionIInv, OwnSession, Session!TaskHasItsSession, Session!Running, Session!None
<1>2. SessionIInv => Session!LockKept
  BY DEF SessionIInv, SessionTypes, LockIsMakers, Session!LockKept, Session!Makers, Making,
     TaskSteps, WebSteps
<1>3. SessionIInv => SessionIsSound
  BY <1>1, <1>2 DEF SessionIsSound, Session!SessionIsSound
<1> QED BY <1>3, SessionInvariant, PTL

-----------------------------------------------------------------------------
(* Captures and gestures (NemuChannel).  A thread is at a step of its         *)
(* operation, and its step says which of the two locks it has.                *)

CaptureSteps == {"try", "reconnect", "connect", "begin", "measure", "resize", "shoot", "copy",
                 "exhausted", "raised"}
GestureSteps == {"try", "reconnect", "connect", "begin", "measure", "resize", "press", "release",
                 "exhausted"}
TapSteps == GestureSteps \cup {"lock", "adb", "done"}
TextSteps == {"begin", "connect", "type", "adb", "done", "raised"}
ChannelSteps == {"rest"} \cup CaptureSteps \cup TapSteps \cup TextSteps

ChannelTypes ==
    /\ does \in [ChannelUsers -> ChannelSteps]
    /\ op \in [ChannelUsers -> {"none", "capture", "tap", "text"}]
    /\ touched \in [ChannelUsers -> BOOLEAN]
    /\ seen \in [ChannelUsers -> {"landscape", "portrait", "none"}]
    /\ display \in {"landscape", "portrait"}

\* A thread's step is one of its operation.
AtStep(t) ==
    /\ op[t] = "none" => does[t] = "rest"
    /\ op[t] = "capture" => does[t] \in CaptureSteps
    /\ op[t] = "tap" => does[t] \in TapSteps
    /\ op[t] = "text" => does[t] \in TextSteps
    /\ touched[t] => op[t] = "tap"

\* A capture has io_lock throughout, a gesture at most while it connects; a gesture has
\* _ipc_lock throughout.
Locks(t) ==
    /\ op[t] = "capture" /\ does[t] # "raised" => ioLock = t
    /\ ioLock = t => \/ op[t] = "capture" /\ does[t] # "raised"
                     \/ op[t] = "tap" /\ does[t] = "connect"
    /\ op[t] = "tap" /\ does[t] \in GestureSteps <=> gestureLock = t

\* From its size to its frame, a capture is connected, and the size is the frame's.
Framed(t) ==
    /\ op[t] = "capture" /\ does[t] \in {"measure", "resize", "shoot", "copy"} => connected
    /\ op[t] = "capture" /\ does[t] = "copy" => size = seen[t] \/ remeasured

Placed(t) == AtStep(t) /\ Locks(t) /\ Framed(t)

\* A touch is down within its own gesture, and no late press or release is to come.
Contacts ==
    /\ strayed \/ \A l \in delayed : l[1] \notin {"press", "release"}
    /\ Channel!GesturesApart

ChannelIInv == ChannelTypes /\ (\A t \in ChannelUsers : Placed(t)) /\ Contacts

LEMMA InitChannelIInv ==
    ASSUME Channel!Init
    PROVE  ChannelIInv
<1> USE DEF Channel!Init
<1>1. ChannelTypes
  BY DEF ChannelTypes, ChannelSteps
<1>2. ASSUME NEW t \in ChannelUsers
      PROVE  Placed(t)
  BY SharedAssumption DEF Placed, AtStep, Locks, Framed, Channel!Nobody
<1>3. Contacts
  BY DEF Contacts, Channel!GesturesApart
<1> QED BY <1>1, <1>2, <1>3 DEF ChannelIInv

\* A step of t is nothing to u, which keeps its locks and, if it captures, its connection and
\* its size.
Aside(u) ==
    /\ does'[u] = does[u] /\ op'[u] = op[u] /\ touched'[u] = touched[u] /\ seen'[u] = seen[u]
    /\ (ioLock' = u) = (ioLock = u) /\ (gestureLock' = u) = (gestureLock = u)
    /\ ioLock = u => connected' = connected /\ (size' = size \/ remeasured')
    /\ remeasured => remeasured'

LEMMA AsideIsPlaced ==
    ASSUME NEW u, Placed(u), Aside(u)
    PROVE  Placed(u)'
<1>1. AtStep(u)' /\ Locks(u)'
  BY DEF Placed, Aside, AtStep, Locks
<1>2. Framed(u)'
  BY DEF Placed, Aside, Locks, Framed
<1> QED BY <1>1, <1>2 DEF Placed

LEMMA ThreadsKept ==
    ASSUME ChannelIInv, NEW t \in ChannelUsers, ChannelTypes', Placed(t)', Contacts',
           \A u \in ChannelUsers \ {t} : Aside(u)
    PROVE  ChannelIInv'
BY AsideIsPlaced DEF ChannelIInv

LEMMA StartCaptureKept ==
    ASSUME ChannelIInv, NEW t \in ChannelUsers, Channel!StartCapture(t)
    PROVE  ChannelIInv'
<1> USE SharedAssumption
    DEF Channel!StartCapture, Channel!Begins, Channel!Goto, Channel!Locals,
       Channel!emulatorVars, Channel!bufferVars, Channel!lockVars, Channel!Nobody,
       CaptureSteps, GestureSteps, TapSteps, TextSteps
<1>1. ChannelTypes'
  BY DEF ChannelIInv, ChannelTypes, ChannelSteps
<1>2. Placed(t)
  BY DEF ChannelIInv
<1>3. AtStep(t)'
  BY <1>2 DEF ChannelIInv, ChannelTypes, Placed, AtStep
<1>4. Locks(t)'
  BY <1>2 DEF ChannelIInv, ChannelTypes, Placed, AtStep, Locks
<1>5. Framed(t)'
  BY <1>2 DEF ChannelIInv, ChannelTypes, Placed, AtStep, Locks, Framed
<1>6. ASSUME NEW u \in ChannelUsers \ {t}
      PROVE  Aside(u)
  BY <1>2, <1>6 DEF ChannelIInv, ChannelTypes, Aside, Placed, AtStep, Locks
<1>7. Contacts'
  BY <1>2 DEF ChannelIInv, ChannelTypes, Placed, AtStep, Locks, Contacts, Channel!GesturesApart
<1> QED BY <1>1, <1>3, <1>4, <1>5, <1>6, <1>7, ThreadsKept DEF Placed

LEMMA StartTapKept ==
    ASSUME ChannelIInv, NEW t \in ChannelUsers, Channel!StartTap(t)
    PROVE  ChannelIInv'
<1> USE SharedAssumption
    DEF Channel!StartTap, Channel!Begins, Channel!Goto, Channel!Locals, Channel!emulatorVars,
       Channel!bufferVars, Channel!lockVars, Channel!Nobody, CaptureSteps, GestureSteps,
       TapSteps, TextSteps
<1>1. ChannelTypes'
  BY DEF ChannelIInv, ChannelTypes, ChannelSteps
<1>2. Placed(t)
  BY DEF ChannelIInv
<1>3. AtStep(t)'
  BY <1>2 DEF ChannelIInv, ChannelTypes, Placed, AtStep
<1>4. Locks(t)'
  BY <1>2 DEF ChannelIInv, ChannelTypes, Placed, AtStep, Locks
<1>5. Framed(t)'
  BY <1>2 DEF ChannelIInv, ChannelTypes, Placed, AtStep, Locks, Framed
<1>6. ASSUME NEW u \in ChannelUsers \ {t}
      PROVE  Aside(u)
  BY <1>2, <1>6 DEF ChannelIInv, ChannelTypes, Aside, Placed, AtStep, Locks
<1>7. Contacts'
  BY <1>2 DEF ChannelIInv, ChannelTypes, Placed, AtStep, Locks, Contacts, Channel!GesturesApart
<1> QED BY <1>1, <1>3, <1>4, <1>5, <1>6, <1>7, ThreadsKept DEF Placed

LEMMA StartTextKept ==
    ASSUME ChannelIInv, NEW t \in ChannelUsers, Channel!StartText(t)
    PROVE  ChannelIInv'
<1> USE SharedAssumption
    DEF Channel!StartText, Channel!Begins, Channel!Goto, Channel!Locals, Channel!emulatorVars,
       Channel!bufferVars, Channel!lockVars, Channel!Nobody, CaptureSteps, GestureSteps,
       TapSteps, TextSteps
<1>1. ChannelTypes'
  BY DEF ChannelIInv, ChannelTypes, ChannelSteps
<1>2. Placed(t)
  BY DEF ChannelIInv
<1>3. AtStep(t)'
  BY <1>2 DEF ChannelIInv, ChannelTypes, Placed, AtStep
<1>4. Locks(t)'
  BY <1>2 DEF ChannelIInv, ChannelTypes, Placed, AtStep, Locks
<1>5. Framed(t)'
  BY <1>2 DEF ChannelIInv, ChannelTypes, Placed, AtStep, Locks, Framed
<1>6. ASSUME NEW u \in ChannelUsers \ {t}
      PROVE  Aside(u)
  BY <1>2, <1>6 DEF ChannelIInv, ChannelTypes, Aside, Placed, AtStep, Locks
<1>7. Contacts'
  BY <1>2 DEF ChannelIInv, ChannelTypes, Placed, AtStep, Locks, Contacts, Channel!GesturesApart
<1> QED BY <1>1, <1>3, <1>4, <1>5, <1>6, <1>7, ThreadsKept DEF Placed

LEMMA BeginTryKept ==
    ASSUME ChannelIInv, NEW t \in ChannelUsers, Channel!BeginTry(t)
    PROVE  ChannelIInv'
<1> USE SharedAssumption
    DEF Channel!BeginTry, Channel!Goto, Channel!Locals, Channel!emulatorVars,
       Channel!bufferVars, Channel!lockVars, Channel!Nobody, CaptureSteps, GestureSteps,
       TapSteps, TextSteps
<1>1. ChannelTypes'
  BY DEF ChannelIInv, ChannelTypes, ChannelSteps
<1>2. Placed(t)
  BY DEF ChannelIInv
<1>3. AtStep(t)'
  BY <1>2 DEF ChannelIInv, ChannelTypes, Placed, AtStep
<1>4. Locks(t)'
  BY <1>2 DEF ChannelIInv, ChannelTypes, Placed, AtStep, Locks
<1>5. Framed(t)'
  BY <1>2 DEF ChannelIInv, ChannelTypes, Placed, AtStep, Locks, Framed
<1>6. ASSUME NEW u \in ChannelUsers \ {t}
      PROVE  Aside(u)
  BY <1>2, <1>6 DEF ChannelIInv, ChannelTypes, Aside, Placed, AtStep, Locks
<1>7. Contacts'
  BY <1>2 DEF ChannelIInv, ChannelTypes, Placed, AtStep, Locks, Contacts, Channel!GesturesApart
<1> QED BY <1>1, <1>3, <1>4, <1>5, <1>6, <1>7, ThreadsKept DEF Placed

LEMMA DisconnectKept ==
    ASSUME ChannelIInv, NEW t \in ChannelUsers, Channel!Disconnect(t)
    PROVE  ChannelIInv'
<1> USE SharedAssumption
    DEF Channel!Disconnect, Channel!ErrorAnswered, Channel!GaveUp, Channel!LeaveConnecting,
       Channel!Capturing, Channel!Fails, Channel!Goto, Channel!Locals, Channel!emulatorVars,
       Channel!bufferVars, Channel!lockVars, Channel!Nobody, CaptureSteps, GestureSteps,
       TapSteps, TextSteps
<1>1. ChannelTypes'
  BY DEF ChannelIInv, ChannelTypes, ChannelSteps
<1>2. Placed(t)
  BY DEF ChannelIInv
<1>3. AtStep(t)'
  BY <1>2 DEF ChannelIInv, ChannelTypes, Placed, AtStep
<1>4. Locks(t)'
  BY <1>2 DEF ChannelIInv, ChannelTypes, Placed, AtStep, Locks
<1>5. Framed(t)'
  BY <1>2 DEF ChannelIInv, ChannelTypes, Placed, AtStep, Locks, Framed
<1>6. ASSUME NEW u \in ChannelUsers \ {t}
      PROVE  Aside(u)
  <2>1. ioLock \in {t, Channel!Nobody} /\ ioLock' \in {t, Channel!Nobody} /\ ioLock # u
    BY <1>2, <1>6 DEF Placed, Locks
  <2>2. /\ does'[u] = does[u] /\ op'[u] = op[u] /\ touched'[u] = touched[u] /\ seen'[u] = seen[u]
        /\ gestureLock' = gestureLock /\ remeasured' = remeasured
    BY <1>6 DEF ChannelIInv, ChannelTypes
  <2> QED BY <2>1, <2>2, <1>6 DEF Aside
<1>7. Contacts'
  BY <1>2 DEF ChannelIInv, ChannelTypes, Placed, AtStep, Locks, Contacts, Channel!GesturesApart
<1> QED BY <1>1, <1>3, <1>4, <1>5, <1>6, <1>7, ThreadsKept DEF Placed

LEMMA ConnectKept ==
    ASSUME ChannelIInv, NEW t \in ChannelUsers, Channel!Connect(t)
    PROVE  ChannelIInv'
<1> USE SharedAssumption
    DEF Channel!Connect, Channel!ErrorAnswered, Channel!GaveUp, Channel!LeaveConnecting,
       Channel!Capturing, Channel!Goto, Channel!Locals, Channel!emulatorVars,
       Channel!bufferVars, Channel!lockVars, Channel!Nobody, CaptureSteps, GestureSteps,
       TapSteps, TextSteps
<1>1. ChannelTypes'
  BY DEF ChannelIInv, ChannelTypes, ChannelSteps
<1>2. Placed(t)
  BY DEF ChannelIInv
<1>3. AtStep(t)'
  BY <1>2 DEF ChannelIInv, ChannelTypes, Placed, AtStep
<1>4. Locks(t)'
  BY <1>2 DEF ChannelIInv, ChannelTypes, Placed, AtStep, Locks
<1>5. Framed(t)'
  BY <1>2 DEF ChannelIInv, ChannelTypes, Placed, AtStep, Locks, Framed
<1>6. ASSUME NEW u \in ChannelUsers \ {t}
      PROVE  Aside(u)
  BY <1>2, <1>6 DEF ChannelIInv, ChannelTypes, Aside, Placed, AtStep, Locks
<1>7. Contacts'
  BY <1>2 DEF ChannelIInv, ChannelTypes, Placed, AtStep, Locks, Contacts, Channel!GesturesApart
<1> QED BY <1>1, <1>3, <1>4, <1>5, <1>6, <1>7, ThreadsKept DEF Placed

LEMMA BeginKept ==
    ASSUME ChannelIInv, NEW t \in ChannelUsers, Channel!Begin(t)
    PROVE  ChannelIInv'
<1> USE SharedAssumption
    DEF Channel!Begin, Channel!Capturing, Channel!Goto, Channel!Locals, Channel!emulatorVars,
       Channel!bufferVars, Channel!lockVars, Channel!Nobody, CaptureSteps, GestureSteps,
       TapSteps, TextSteps
<1>1. ChannelTypes'
  BY DEF ChannelIInv, ChannelTypes, ChannelSteps
<1>2. Placed(t)
  BY DEF ChannelIInv
<1>3. AtStep(t)'
  BY <1>2 DEF ChannelIInv, ChannelTypes, Placed, AtStep
<1>4. Locks(t)'
  BY <1>2 DEF ChannelIInv, ChannelTypes, Placed, AtStep, Locks
<1>5. Framed(t)'
  BY <1>2 DEF ChannelIInv, ChannelTypes, Placed, AtStep, Locks, Framed
<1>6. ASSUME NEW u \in ChannelUsers \ {t}
      PROVE  Aside(u)
  BY <1>2, <1>6 DEF ChannelIInv, ChannelTypes, Aside, Placed, AtStep, Locks
<1>7. Contacts'
  BY <1>2 DEF ChannelIInv, ChannelTypes, Placed, AtStep, Locks, Contacts, Channel!GesturesApart
<1> QED BY <1>1, <1>3, <1>4, <1>5, <1>6, <1>7, ThreadsKept DEF Placed

LEMMA MeasureKept ==
    ASSUME ChannelIInv, NEW t \in ChannelUsers, Channel!Measure(t)
    PROVE  ChannelIInv'
<1> USE SharedAssumption
    DEF Channel!Measure, Channel!Succeeds, Channel!Fails, Channel!ErrorAnswered,
       Channel!GaveUp, Channel!Goto, Channel!Locals, Channel!emulatorVars,
       Channel!bufferVars, Channel!lockVars, Channel!Nobody, CaptureSteps, GestureSteps,
       TapSteps, TextSteps
<1>1. ChannelTypes'
  BY DEF ChannelIInv, ChannelTypes, ChannelSteps
<1>2. Placed(t)
  BY DEF ChannelIInv
<1>3. AtStep(t)'
  BY <1>2 DEF ChannelIInv, ChannelTypes, Placed, AtStep
<1>4. Locks(t)'
  BY <1>2 DEF ChannelIInv, ChannelTypes, Placed, AtStep, Locks
<1>5. Framed(t)'
  BY <1>2 DEF ChannelIInv, ChannelTypes, Placed, AtStep, Locks, Framed
<1>6. ASSUME NEW u \in ChannelUsers \ {t}
      PROVE  Aside(u)
  BY <1>2, <1>6 DEF ChannelIInv, ChannelTypes, Aside, Placed, AtStep, Locks
<1>7. Contacts'
  BY <1>2 DEF ChannelIInv, ChannelTypes, Placed, AtStep, Locks, Contacts, Channel!GesturesApart
<1> QED BY <1>1, <1>3, <1>4, <1>5, <1>6, <1>7, ThreadsKept DEF Placed

LEMMA ResizeKept ==
    ASSUME ChannelIInv, NEW t \in ChannelUsers, Channel!Resize(t)
    PROVE  ChannelIInv'
<1> USE SharedAssumption
    DEF Channel!Resize, Channel!Capturing, Channel!Goto, Channel!Locals, Channel!emulatorVars,
       Channel!bufferVars, Channel!lockVars, Channel!Nobody, CaptureSteps, GestureSteps,
       TapSteps, TextSteps
<1>1. ChannelTypes'
  BY DEF ChannelIInv, ChannelTypes, ChannelSteps
<1>2. Placed(t)
  BY DEF ChannelIInv
<1>3. AtStep(t)'
  BY <1>2 DEF ChannelIInv, ChannelTypes, Placed, AtStep
<1>4. Locks(t)'
  BY <1>2 DEF ChannelIInv, ChannelTypes, Placed, AtStep, Locks
<1>5. Framed(t)'
  BY <1>2 DEF ChannelIInv, ChannelTypes, Placed, AtStep, Locks, Framed
<1>6. ASSUME NEW u \in ChannelUsers \ {t}
      PROVE  Aside(u)
  <2>1. op[t] = "capture" => ioLock = t
    BY <1>2 DEF Placed, Locks
  <2>2. /\ does'[u] = does[u] /\ op'[u] = op[u] /\ touched'[u] = touched[u] /\ seen'[u] = seen[u]
        /\ UNCHANGED <<ioLock, gestureLock, connected>>
        /\ ioLock = u => remeasured'
        /\ remeasured => remeasured'
    BY <2>1, <1>6 DEF ChannelIInv, ChannelTypes
  <2> QED BY <2>2 DEF Aside
<1>7. Contacts'
  BY <1>2 DEF ChannelIInv, ChannelTypes, Placed, AtStep, Locks, Contacts, Channel!GesturesApart
<1> QED BY <1>1, <1>3, <1>4, <1>5, <1>6, <1>7, ThreadsKept DEF Placed

LEMMA ShootKept ==
    ASSUME ChannelIInv, NEW t \in ChannelUsers, Channel!Shoot(t)
    PROVE  ChannelIInv'
<1> USE SharedAssumption
    DEF Channel!Shoot, Channel!Succeeds, Channel!Fails, Channel!TakesTooLong, Channel!Dropped,
       Channel!ErrorAnswered, Channel!GaveUp, Channel!Goto, Channel!Locals,
       Channel!emulatorVars, Channel!bufferVars, Channel!lockVars, Channel!Nobody,
       CaptureSteps, GestureSteps, TapSteps, TextSteps
<1>1. ChannelTypes'
  BY DEF ChannelIInv, ChannelTypes, ChannelSteps
<1>2. Placed(t)
  BY DEF ChannelIInv
<1>3. AtStep(t)'
  BY <1>2 DEF ChannelIInv, ChannelTypes, Placed, AtStep
<1>4. Locks(t)'
  BY <1>2 DEF ChannelIInv, ChannelTypes, Placed, AtStep, Locks
<1>5. Framed(t)'
  BY <1>2 DEF ChannelIInv, ChannelTypes, Placed, AtStep, Locks, Framed
<1>6. ASSUME NEW u \in ChannelUsers \ {t}
      PROVE  Aside(u)
  <2>0. op[t] = "capture" /\ does[t] = "shoot"
    BY <1>2 DEF ChannelIInv, ChannelTypes, Placed, AtStep
  <2>1. ioLock = t /\ ioLock' \in {t, Channel!Nobody} /\ ioLock # u
    BY <1>2, <1>6, <2>0 DEF Placed, Locks
  <2>2. /\ does'[u] = does[u] /\ op'[u] = op[u] /\ touched'[u] = touched[u] /\ seen'[u] = seen[u]
        /\ gestureLock' = gestureLock /\ remeasured' = remeasured
    BY <1>6 DEF ChannelIInv, ChannelTypes
  <2> QED BY <2>1, <2>2, <1>6 DEF Aside
<1>7. Contacts'
  BY <1>2 DEF ChannelIInv, ChannelTypes, Placed, AtStep, Locks, Contacts, Channel!GesturesApart
<1> QED BY <1>1, <1>3, <1>4, <1>5, <1>6, <1>7, ThreadsKept DEF Placed

LEMMA CopyKept ==
    ASSUME ChannelIInv, NEW t \in ChannelUsers, Channel!Copy(t)
    PROVE  ChannelIInv'
<1> USE SharedAssumption
    DEF Channel!Copy, Channel!Ends, Channel!Goto, Channel!Locals, Channel!emulatorVars,
       Channel!bufferVars, Channel!lockVars, Channel!Nobody, CaptureSteps, GestureSteps,
       TapSteps, TextSteps
<1>1. ChannelTypes'
  BY DEF ChannelIInv, ChannelTypes, ChannelSteps
<1>2. Placed(t)
  BY DEF ChannelIInv
<1>3. AtStep(t)'
  BY <1>2 DEF ChannelIInv, ChannelTypes, Placed, AtStep
<1>4. Locks(t)'
  BY <1>2 DEF ChannelIInv, ChannelTypes, Placed, AtStep, Locks
<1>5. Framed(t)'
  BY <1>2 DEF ChannelIInv, ChannelTypes, Placed, AtStep, Locks, Framed
<1>6. ASSUME NEW u \in ChannelUsers \ {t}
      PROVE  Aside(u)
  BY <1>2, <1>6 DEF ChannelIInv, ChannelTypes, Aside, Placed, AtStep, Locks
<1>7. Contacts'
  BY <1>2 DEF ChannelIInv, ChannelTypes, Placed, AtStep, Locks, Contacts, Channel!GesturesApart
<1> QED BY <1>1, <1>3, <1>4, <1>5, <1>6, <1>7, ThreadsKept DEF Placed

LEMMA LockGestureKept ==
    ASSUME ChannelIInv, NEW t \in ChannelUsers, Channel!LockGesture(t)
    PROVE  ChannelIInv'
<1> USE SharedAssumption
    DEF Channel!LockGesture, Channel!Goto, Channel!Locals, Channel!emulatorVars,
       Channel!bufferVars, Channel!lockVars, Channel!Nobody, CaptureSteps, GestureSteps,
       TapSteps, TextSteps
<1>1. ChannelTypes'
  BY DEF ChannelIInv, ChannelTypes, ChannelSteps
<1>2. Placed(t)
  BY DEF ChannelIInv
<1>3. AtStep(t)'
  BY <1>2 DEF ChannelIInv, ChannelTypes, Placed, AtStep
<1>4. Locks(t)'
  BY <1>2 DEF ChannelIInv, ChannelTypes, Placed, AtStep, Locks
<1>5. Framed(t)'
  BY <1>2 DEF ChannelIInv, ChannelTypes, Placed, AtStep, Locks, Framed
<1>6. ASSUME NEW u \in ChannelUsers \ {t}
      PROVE  Aside(u)
  BY <1>2, <1>6 DEF ChannelIInv, ChannelTypes, Aside, Placed, AtStep, Locks
<1>7. Contacts'
  BY <1>2 DEF ChannelIInv, ChannelTypes, Placed, AtStep, Locks, Contacts, Channel!GesturesApart
<1> QED BY <1>1, <1>3, <1>4, <1>5, <1>6, <1>7, ThreadsKept DEF Placed

LEMMA PressKept ==
    ASSUME ChannelIInv, NEW t \in ChannelUsers, Channel!Press(t)
    PROVE  ChannelIInv'
<1> USE SharedAssumption
    DEF Channel!Press, Channel!Succeeds, Channel!Fails, Channel!TakesTooLong,
       Channel!ErrorAnswered, Channel!GaveUp, Channel!Goto, Channel!Locals,
       Channel!emulatorVars, Channel!bufferVars, Channel!lockVars, Channel!Nobody,
       CaptureSteps, GestureSteps, TapSteps, TextSteps
<1>1. ChannelTypes'
  BY DEF ChannelIInv, ChannelTypes, ChannelSteps
<1>2. Placed(t)
  BY DEF ChannelIInv
<1>3. AtStep(t)'
  BY <1>2 DEF ChannelIInv, ChannelTypes, Placed, AtStep
<1>4. Locks(t)'
  BY <1>2 DEF ChannelIInv, ChannelTypes, Placed, AtStep, Locks
<1>5. Framed(t)'
  BY <1>2 DEF ChannelIInv, ChannelTypes, Placed, AtStep, Locks, Framed
<1>6. ASSUME NEW u \in ChannelUsers \ {t}
      PROVE  Aside(u)
  BY <1>2, <1>6 DEF ChannelIInv, ChannelTypes, Aside, Placed, AtStep, Locks
<1>7. Contacts'
  BY <1>2 DEF ChannelIInv, ChannelTypes, Placed, AtStep, Locks, Contacts, Channel!GesturesApart
<1> QED BY <1>1, <1>3, <1>4, <1>5, <1>6, <1>7, ThreadsKept DEF Placed

LEMMA ReleaseKept ==
    ASSUME ChannelIInv, NEW t \in ChannelUsers, Channel!Release(t)
    PROVE  ChannelIInv'
<1> USE SharedAssumption
    DEF Channel!Release, Channel!Succeeds, Channel!Fails, Channel!TakesTooLong,
       Channel!ErrorAnswered, Channel!GaveUp, Channel!Goto, Channel!Locals,
       Channel!emulatorVars, Channel!bufferVars, Channel!lockVars, Channel!Nobody,
       CaptureSteps, GestureSteps, TapSteps, TextSteps
<1>1. ChannelTypes'
  BY DEF ChannelIInv, ChannelTypes, ChannelSteps
<1>2. Placed(t)
  BY DEF ChannelIInv
<1>3. AtStep(t)'
  BY <1>2 DEF ChannelIInv, ChannelTypes, Placed, AtStep
<1>4. Locks(t)'
  BY <1>2 DEF ChannelIInv, ChannelTypes, Placed, AtStep, Locks
<1>5. Framed(t)'
  BY <1>2 DEF ChannelIInv, ChannelTypes, Placed, AtStep, Locks, Framed
<1>6. ASSUME NEW u \in ChannelUsers \ {t}
      PROVE  Aside(u)
  BY <1>2, <1>6 DEF ChannelIInv, ChannelTypes, Aside, Placed, AtStep, Locks
<1>7. Contacts'
  BY <1>2 DEF ChannelIInv, ChannelTypes, Placed, AtStep, Locks, Contacts, Channel!GesturesApart
<1> QED BY <1>1, <1>3, <1>4, <1>5, <1>6, <1>7, ThreadsKept DEF Placed

LEMMA ExhaustedKept ==
    ASSUME ChannelIInv, NEW t \in ChannelUsers, Channel!Exhausted(t)
    PROVE  ChannelIInv'
<1> USE SharedAssumption
    DEF Channel!Exhausted, Channel!Capturing, Channel!Goto, Channel!Locals,
       Channel!emulatorVars, Channel!bufferVars, Channel!lockVars, Channel!Nobody,
       CaptureSteps, GestureSteps, TapSteps, TextSteps
<1>1. ChannelTypes'
  BY DEF ChannelIInv, ChannelTypes, ChannelSteps
<1>2. Placed(t)
  BY DEF ChannelIInv
<1>3. AtStep(t)'
  BY <1>2 DEF ChannelIInv, ChannelTypes, Placed, AtStep
<1>4. Locks(t)'
  BY <1>2 DEF ChannelIInv, ChannelTypes, Placed, AtStep, Locks
<1>5. Framed(t)'
  BY <1>2 DEF ChannelIInv, ChannelTypes, Placed, AtStep, Locks, Framed
<1>6. ASSUME NEW u \in ChannelUsers \ {t}
      PROVE  Aside(u)
  BY <1>2, <1>6 DEF ChannelIInv, ChannelTypes, Aside, Placed, AtStep, Locks
<1>7. Contacts'
  BY <1>2 DEF ChannelIInv, ChannelTypes, Placed, AtStep, Locks, Contacts, Channel!GesturesApart
<1> QED BY <1>1, <1>3, <1>4, <1>5, <1>6, <1>7, ThreadsKept DEF Placed

LEMMA TypeKept ==
    ASSUME ChannelIInv, NEW t \in ChannelUsers, Channel!Type(t)
    PROVE  ChannelIInv'
<1> USE SharedAssumption
    DEF Channel!Type, Channel!Succeeds, Channel!Fails, Channel!TakesTooLong,
       Channel!ErrorAnswered, Channel!GaveUp, Channel!Goto, Channel!Locals,
       Channel!emulatorVars, Channel!bufferVars, Channel!lockVars, Channel!Nobody,
       CaptureSteps, GestureSteps, TapSteps, TextSteps
<1>1. ChannelTypes'
  BY DEF ChannelIInv, ChannelTypes, ChannelSteps
<1>2. Placed(t)
  BY DEF ChannelIInv
<1>3. AtStep(t)'
  BY <1>2 DEF ChannelIInv, ChannelTypes, Placed, AtStep
<1>4. Locks(t)'
  BY <1>2 DEF ChannelIInv, ChannelTypes, Placed, AtStep, Locks
<1>5. Framed(t)'
  BY <1>2 DEF ChannelIInv, ChannelTypes, Placed, AtStep, Locks, Framed
<1>6. ASSUME NEW u \in ChannelUsers \ {t}
      PROVE  Aside(u)
  BY <1>2, <1>6 DEF ChannelIInv, ChannelTypes, Aside, Placed, AtStep, Locks
<1>7. Contacts'
  BY <1>2 DEF ChannelIInv, ChannelTypes, Placed, AtStep, Locks, Contacts, Channel!GesturesApart
<1> QED BY <1>1, <1>3, <1>4, <1>5, <1>6, <1>7, ThreadsKept DEF Placed

LEMMA AdbKept ==
    ASSUME ChannelIInv, NEW t \in ChannelUsers, Channel!Adb(t)
    PROVE  ChannelIInv'
<1> USE SharedAssumption
    DEF Channel!Adb, Channel!Goto, Channel!Locals, Channel!emulatorVars, Channel!bufferVars,
       Channel!lockVars, Channel!Nobody, CaptureSteps, GestureSteps, TapSteps, TextSteps
<1>1. ChannelTypes'
  BY DEF ChannelIInv, ChannelTypes, ChannelSteps
<1>2. Placed(t)
  BY DEF ChannelIInv
<1>3. AtStep(t)'
  BY <1>2 DEF ChannelIInv, ChannelTypes, Placed, AtStep
<1>4. Locks(t)'
  BY <1>2 DEF ChannelIInv, ChannelTypes, Placed, AtStep, Locks
<1>5. Framed(t)'
  BY <1>2 DEF ChannelIInv, ChannelTypes, Placed, AtStep, Locks, Framed
<1>6. ASSUME NEW u \in ChannelUsers \ {t}
      PROVE  Aside(u)
  BY <1>2, <1>6 DEF ChannelIInv, ChannelTypes, Aside, Placed, AtStep, Locks
<1>7. Contacts'
  BY <1>2 DEF ChannelIInv, ChannelTypes, Placed, AtStep, Locks, Contacts, Channel!GesturesApart
<1> QED BY <1>1, <1>3, <1>4, <1>5, <1>6, <1>7, ThreadsKept DEF Placed

LEMMA ReturnKept ==
    ASSUME ChannelIInv, NEW t \in ChannelUsers, Channel!Return(t)
    PROVE  ChannelIInv'
<1> USE SharedAssumption
    DEF Channel!Return, Channel!Ends, Channel!Goto, Channel!Locals, Channel!emulatorVars,
       Channel!bufferVars, Channel!lockVars, Channel!Nobody, CaptureSteps, GestureSteps,
       TapSteps, TextSteps
<1>1. ChannelTypes'
  BY DEF ChannelIInv, ChannelTypes, ChannelSteps
<1>2. Placed(t)
  BY DEF ChannelIInv
<1>3. AtStep(t)'
  BY <1>2 DEF ChannelIInv, ChannelTypes, Placed, AtStep
<1>4. Locks(t)'
  BY <1>2 DEF ChannelIInv, ChannelTypes, Placed, AtStep, Locks
<1>5. Framed(t)'
  BY <1>2 DEF ChannelIInv, ChannelTypes, Placed, AtStep, Locks, Framed
<1>6. ASSUME NEW u \in ChannelUsers \ {t}
      PROVE  Aside(u)
  BY <1>2, <1>6 DEF ChannelIInv, ChannelTypes, Aside, Placed, AtStep, Locks
<1>7. Contacts'
  BY <1>2 DEF ChannelIInv, ChannelTypes, Placed, AtStep, Locks, Contacts, Channel!GesturesApart
<1> QED BY <1>1, <1>3, <1>4, <1>5, <1>6, <1>7, ThreadsKept DEF Placed

\* switch_to_nemu, what late calls do, and the emulator's own changes, move no thread.
LEMMA OutsideKeepsChannel ==
    ASSUME ChannelIInv,
           \/ Channel!Rearm \/ Channel!Disturb
           \/ \E l \in delayed : Channel!Land(l) \/ Channel!Vanish(l)
    PROVE  ChannelIInv'
<1>1. UNCHANGED <<connected, size, remeasured, ioLock, gestureLock, does, op, touched, seen, strayed>>
  BY DEF Channel!Rearm, Channel!Disturb, Channel!Land, Channel!Vanish, Channel!emulatorVars,
     Channel!bufferVars, Channel!lockVars, Channel!threadVars
<1>2. ChannelTypes'
  <2>1. display' \in {"landscape", "portrait"}
    BY DEF ChannelIInv, ChannelTypes, Channel!Rearm, Channel!Disturb, Channel!Land, Channel!Vanish,
       Channel!emulatorVars, Channel!Sizes
  <2> QED BY <1>1, <2>1 DEF ChannelIInv, ChannelTypes
<1>3. ASSUME NEW t \in ChannelUsers
      PROVE  Placed(t)'
  BY <1>1 DEF ChannelIInv, Placed, AtStep, Locks, Framed
<1>4. delayed' \subseteq delayed
  BY DEF Channel!Rearm, Channel!Disturb, Channel!Land, Channel!Vanish, Channel!emulatorVars
<1>5. strayed \/ contact' \in {contact, Channel!Nobody}
  <2>1. CASE Channel!Rearm \/ Channel!Disturb
    BY <2>1 DEF Channel!Rearm, Channel!Disturb, Channel!emulatorVars
  <2>2. ASSUME NEW l \in delayed, Channel!Land(l) \/ Channel!Vanish(l)
        PROVE  strayed \/ contact' \in {contact, Channel!Nobody}
    BY <2>2 DEF ChannelIInv, Contacts, Channel!Land, Channel!Vanish
  <2> QED BY <2>1, <2>2
<1>6. Contacts'
  BY <1>1, <1>4, <1>5 DEF ChannelIInv, Contacts, Channel!GesturesApart, Channel!Nobody
<1> QED BY <1>2, <1>3, <1>6 DEF ChannelIInv

LEMMA NextChannelIInv ==
    ASSUME ChannelIInv, [Channel!Next]_(Channel!vars)
    PROVE  ChannelIInv'
<1>1. ASSUME NEW t \in ChannelUsers, Channel!Start(t)
      PROVE  ChannelIInv'
  BY <1>1, StartCaptureKept, StartTapKept, StartTextKept DEF Channel!Start
<1>2. ASSUME NEW t \in ChannelUsers, Channel!Operate(t)
      PROVE  ChannelIInv'
  BY <1>2, BeginTryKept, DisconnectKept, ConnectKept, BeginKept, MeasureKept, ResizeKept, ShootKept,
     CopyKept, LockGestureKept, PressKept, ReleaseKept, ExhaustedKept, TypeKept, AdbKept, ReturnKept
     DEF Channel!Operate
<1>3. CASE UNCHANGED Channel!vars
  <2>1. UNCHANGED <<display, contact, delayed, connected, size, remeasured, ioLock, gestureLock,
                    does, op, touched, seen, strayed>>
    BY <1>3 DEF Channel!vars, Channel!emulatorVars, Channel!bufferVars, Channel!lockVars,
       Channel!threadVars
  <2> QED BY <2>1 DEF ChannelIInv, ChannelTypes, Placed, AtStep, Locks, Framed, Contacts,
             Channel!GesturesApart
<1> QED BY <1>1, <1>2, <1>3, OutsideKeepsChannel DEF Channel!Next

\* The inductive invariant of the captures and gestures (nemu_ipc.py).
THEOREM ChannelInvariant == Channel!Spec => []ChannelIInv
<1>1. Channel!Init => ChannelIInv
  BY InitChannelIInv
<1>2. ChannelIInv /\ [Channel!Next]_(Channel!vars) => ChannelIInv'
  BY NextChannelIInv
<1> QED BY <1>1, <1>2, PTL DEF Channel!Spec

\* Frames are spoiled from outside only, gestures keep apart unless one goes wrong, and every
\* operation gives its locks back, for any number of threads, attempts and faults.
THEOREM ChannelSound == Channel!Spec => []ChannelIsSound
<1>1. ASSUME ChannelIInv, NEW t \in ChannelUsers
      PROVE  /\ does[t] = "copy" => (size = seen[t] \/ remeasured) /\ ioLock = t /\ connected
             /\ does[t] \in {"rest", "adb"} => t \notin {ioLock, gestureLock}
             /\ does[t] = "lock" => ioLock # t
             /\ gestureLock = t => op[t] = "tap"
  <2>1. Placed(t) /\ op[t] \in {"none", "capture", "tap", "text"}
    BY <1>1 DEF ChannelIInv, ChannelTypes
  <2> QED BY <2>1 DEF Placed, AtStep, Locks, Framed, CaptureSteps, GestureSteps, TapSteps, TextSteps
<1>2. ChannelIInv => ChannelIsSound
  BY <1>1 DEF ChannelIInv, Contacts, ChannelIsSound, Channel!ChannelIsSound,
     Channel!FramesSpoiledFromOutside, Channel!LocksReturned
<1> QED BY <1>2, ChannelInvariant, PTL

-----------------------------------------------------------------------------
(* The snippet of the editor (EditorSnippet).  While a snippet runs, the       *)
(* global is the virtual control, or a patched one, unless the page has asked  *)
(* for the device; otherwise nothing virtual is about.                         *)

EditorTypes ==
    /\ controls \in 0 .. Sessions /\ shown \in 0 .. Sessions
    /\ global \in 0 .. Sessions \/ global = Editor!Virtual
    /\ original \in 0 .. Sessions \/ original = Editor!Virtual
    /\ virtual \in BOOLEAN /\ canvas \in BOOLEAN /\ meddled \in BOOLEAN
    /\ patched \subseteq Editor!Controls

\* Who has the gate, and where.
EditorPlaces ==
    /\ gate \in {"free", "snippet", "task", "remote"}
    /\ gate = "free" => stage = "out"
    /\ gate = "snippet" => stage \in {"asked", "prepared", "running"}
    /\ gate = "task" => stage = "running"
    /\ gate = "remote" => stage \in {"asked", "running"}

RunsSnippet == gate = "snippet" /\ stage = "running"
HasDevice == shown \in Editor!Controls /\ global = shown

\* What a snippet has replaced.
Replaced ==
    /\ ~RunsSnippet => patched = {} /\ global # Editor!Virtual
    /\ RunsSnippet => canvas \in {FALSE, virtual}
    /\ RunsSnippet /\ ~virtual => patched = {} /\ HasDevice
    /\ RunsSnippet /\ virtual /\ ~canvas => global # Editor!Virtual /\ (global \in patched \/ meddled)
    /\ RunsSnippet /\ canvas => original # Editor!Virtual /\ (global = Editor!Virtual \/ meddled)

\* Who is about to use the device has it.
Equipped ==
    /\ gate = "snippet" /\ stage = "prepared" => canvas \in {FALSE, virtual} /\ (canvas \/ HasDevice)
    /\ gate \in {"task", "remote"} /\ stage = "running" => HasDevice

EditorIInv == EditorTypes /\ EditorPlaces /\ Replaced /\ Equipped /\ leaked # "unasked"

\* The virtual control is none of the others.
LEMMA VirtualIsApart ==
    /\ Editor!Controls \subseteq 0 .. Sessions /\ 0 \notin Editor!Controls
    /\ \A c \in 0 .. Sessions : c # 0 => c \in Editor!Controls
    /\ \A c \in 0 .. Sessions : c # Editor!Virtual
    /\ Editor!None = 0
BY SharedAssumption DEF Editor!Controls, Editor!Virtual, Editor!None

\* ensure_device_session leaves a session that is published, and so does its making.
LEMMA Ensured ==
    ASSUME EditorIInv, Editor!Ensure \/ Editor!Make
    PROVE  /\ controls' \in 0 .. Sessions /\ shown' \in Editor!Controls /\ global' = shown'
           /\ global' \in 0 .. Sessions /\ global' # Editor!Virtual
<1>1. CASE Editor!Make
  <2>1. controls \in 0 .. Sessions /\ controls < Sessions /\ Sessions \in Nat
    BY <1>1, SharedAssumption DEF EditorIInv, EditorTypes, Editor!Make
  <2>2. controls + 1 \in 1 .. Sessions
    BY <2>1
  <2> QED BY <1>1, <2>2, VirtualIsApart DEF Editor!Make, Editor!Controls
<1>2. CASE shown # 0 /\ global' = shown /\ UNCHANGED <<shown, controls>>
  BY <1>2, VirtualIsApart DEF EditorIInv, EditorTypes
<1> QED BY <1>1, <1>2, VirtualIsApart DEF Editor!Ensure

LEMMA InitEditorIInv ==
    ASSUME Editor!Init
    PROVE  EditorIInv
<1> USE VirtualIsApart DEF Editor!Init
<1>1. 0 \in 0 .. Sessions
  BY SharedAssumption
<1>2. EditorTypes /\ EditorPlaces
  BY <1>1 DEF EditorTypes, EditorPlaces
<1>3. global # Editor!Virtual
  BY <1>1
<1> QED BY <1>2, <1>3 DEF EditorIInv, Replaced, Equipped, RunsSnippet

\* Every step of the page, of the snippet and of the others keeps the invariant.
LEMMA NextEditorIInv ==
    ASSUME EditorIInv, [Editor!Next]_(Editor!vars)
    PROVE  EditorIInv'
<1> USE VirtualIsApart
<1> USE DEF EditorIInv, EditorTypes, EditorPlaces, Replaced, Equipped, RunsSnippet, HasDevice
<1>1. CASE Editor!Screenshot \/ Editor!Locate
  <2>1. /\ Editor!Ensure /\ UNCHANGED <<patched, gate, stage, virtual, canvas, original, leaked>>
        /\ meddled' = (meddled \/ stage = "running")
    BY <1>1 DEF Editor!Screenshot, Editor!Locate
  <2>2. /\ controls' \in 0 .. Sessions /\ shown' \in Editor!Controls /\ global' = shown'
        /\ global' \in 0 .. Sessions /\ global' # Editor!Virtual
    BY <2>1, Ensured
  <2> QED BY <2>1, <2>2
<1>2. CASE Editor!Ingest
  BY <1>2 DEF Editor!Ingest, Editor!deviceVars, Editor!runVars
<1>3. CASE Editor!Begin
  BY <1>3 DEF Editor!Begin, Editor!deviceVars, Editor!Goto
<1>4. CASE Editor!Prepare
  <2>1. /\ gate = "snippet" /\ stage = "asked" /\ stage' = "prepared"
        /\ canvas' = (virtual /\ frame # "none")
        /\ IF canvas' THEN UNCHANGED <<shown, controls, global>> ELSE Editor!Ensure
        /\ UNCHANGED <<patched, gate, virtual, original, leaked, meddled>>
    BY <1>4 DEF Editor!Prepare, Editor!deviceVars, Editor!Goto
  <2>2. ~canvas' => /\ controls' \in 0 .. Sessions /\ shown' \in Editor!Controls /\ global' = shown'
                    /\ global' \in 0 .. Sessions /\ global' # Editor!Virtual
    BY <2>1, Ensured
  <2> QED BY <2>1, <2>2
<1>5. CASE Editor!Refuse
  BY <1>5 DEF Editor!Refuse, Editor!deviceVars, Editor!Goto
<1>6. CASE Editor!Replace
  BY <1>6 DEF Editor!Replace, Editor!Goto
<1>7. CASE Editor!Click
  <2>1. ~(virtual /\ Editor!OnDevice(global) /\ ~meddled)
    BY <1>7 DEF Editor!Click, Editor!OnDevice
  <2> QED BY <1>7, <2>1 DEF Editor!Click, Editor!deviceVars, Editor!runVars
<1>8. CASE Editor!End
  <2>1. /\ gate = "snippet" /\ stage = "running" /\ gate' = "free" /\ stage' = "out"
        /\ patched' = {} /\ global' = IF canvas THEN original ELSE global
        /\ UNCHANGED <<shown, controls, virtual, canvas, original, leaked, meddled>>
    BY <1>8 DEF Editor!End, Editor!Goto
  <2>2. global' # Editor!Virtual
    BY <2>1
  <2>3. global' \in 0 .. Sessions
    BY <2>1, <2>2
  <2> QED BY <2>1, <2>2, <2>3
<1>9. CASE Editor!TaskBegins
  <2>1. /\ gate = "free" /\ gate' = "task" /\ stage' = "running" /\ Editor!Make
        /\ UNCHANGED <<patched, virtual, canvas, original, leaked, meddled>>
    BY <1>9 DEF Editor!TaskBegins, Editor!Goto
  <2>2. /\ controls' \in 0 .. Sessions /\ shown' \in Editor!Controls /\ global' = shown'
        /\ global' \in 0 .. Sessions /\ global' # Editor!Virtual
    BY <2>1, Ensured
  <2> QED BY <2>1, <2>2
<1>10. CASE Editor!TaskEnds
  BY <1>10, SharedAssumption DEF Editor!TaskEnds, Editor!deviceVars, Editor!Goto
<1>11. CASE Editor!RemoteBegins \/ Editor!RemoteEnds
  BY <1>11 DEF Editor!RemoteBegins, Editor!RemoteEnds, Editor!deviceVars, Editor!Goto
<1>12. CASE Editor!RemoteClicks
  <2>1. /\ gate = "remote" /\ stage = "asked" /\ stage' = "running" /\ Editor!Ensure
        /\ UNCHANGED <<patched, gate, virtual, canvas, original, leaked, meddled>>
    BY <1>12 DEF Editor!RemoteClicks, Editor!Goto
  <2>2. /\ controls' \in 0 .. Sessions /\ shown' \in Editor!Controls /\ global' = shown'
        /\ global' \in 0 .. Sessions /\ global' # Editor!Virtual
    BY <2>1, Ensured
  <2> QED BY <2>1, <2>2
<1>13. CASE UNCHANGED Editor!vars
  BY <1>13 DEF Editor!vars, Editor!deviceVars, Editor!runVars
<1> QED BY <1>1, <1>2, <1>3, <1>4, <1>5, <1>6, <1>7, <1>8, <1>9, <1>10, <1>11, <1>12, <1>13
    DEF Editor!Next

\* The inductive invariant of the editor's snippet (routes/editor.py, _run_editor_snippet).
THEOREM EditorInvariant == Editor!Spec => []EditorIInv
<1>1. Editor!Init => EditorIInv
  BY InitEditorIInv
<1>2. EditorIInv /\ [Editor!Next]_(Editor!vars) => EditorIInv'
  BY NextEditorIInv
<1> QED BY <1>1, <1>2, PTL DEF Editor!Spec

\* Nothing virtual outlives its run, who is meant for the device has it, and a click of a virtual
\* run reaches the device only if the page has asked for it, for any number of sessions.
THEOREM EditorSound == Editor!Spec => []EditorIsSound
<1>1. EditorIInv => EditorIsSound
  <2> SUFFICES ASSUME EditorIInv PROVE Editor!EditorIsSound
    BY DEF EditorIsSound
  <2> USE VirtualIsApart DEF EditorIInv, EditorTypes, EditorPlaces, Replaced, Equipped, RunsSnippet,
      HasDevice
  <2>1. Editor!DeviceIsReached
    BY DEF Editor!DeviceIsReached, Editor!OnDevice
  <2>2. Editor!NothingLeftVirtual
    BY DEF Editor!NothingLeftVirtual
  <2>3. Editor!StraysOnlyIfAsked
    BY DEF Editor!StraysOnlyIfAsked
  <2> QED BY <2>1, <2>2, <2>3 DEF Editor!EditorIsSound
<1> QED BY <1>1, EditorInvariant, PTL

-----------------------------------------------------------------------------
(* The update of the source and its restart (SourceUpdate).  The checkout only *)
(* grows, a request goes on in the worker that took it, and a plain stop finds *)
(* nothing under way that could ask for another worker.                        *)

\* What there is at the remote, in the checkout and in the worker, in this order.
Grows ==
    /\ head <= remote /\ tracking <= remote /\ code <= head
    /\ request = "pull" => head < tracking
    /\ request = "pulled" => code < head

\* Without a worker there is no request and no timer; a new one starts with no event.
Quiet ==
    /\ ~alive => timers = 0 /\ request = "none"
    /\ sup = "starting" => ~event

\* After a plain stop the supervisor looks at the flag before it waits again, or waits for a
\* worker that is told to end.
Stopping ==
    asked = "plain" =>
        /\ sup \notin {"killing", "resetting"}
        /\ handler \/ should_exit
        /\ sup = "waiting" => ~event /\ timers = 0 /\ request = "none" /\ (closing \/ ~alive)

UpdateIInv ==
    /\ Updater!TypeOK /\ Grows /\ Quiet /\ Stopping
    /\ Updater!RestartIsEarned /\ Updater!UpdateIsNotForgotten /\ Updater!OneWorker

UpdateTypes ==
    /\ remote \in 0 .. Pushes /\ tracking \in 0 .. Pushes /\ head \in 0 .. Pushes
    /\ code \in 0 .. Pushes
    /\ timers \in 0 .. Timers /\ Pushes \in Nat /\ Timers \in Nat

LEMMA UpdateTyped == UpdateIInv => UpdateTypes
BY SharedAssumption DEF UpdateIInv, Updater!TypeOK, UpdateTypes

LEMMA InitUpdateIInv ==
    ASSUME Updater!Init
    PROVE  UpdateIInv
<1> USE SharedAssumption DEF Updater!Init
<1>1. Updater!TypeOK
  <2>1. 0 \in 0 .. Pushes /\ 0 \in 0 .. Timers
    OBVIOUS
  <2>2. state = "idle" /\ supported \in BOOLEAN
    OBVIOUS
  <2> QED BY <2>1, <2>2 DEF Updater!TypeOK, Updater!Updatable
<1>2. Grows /\ Quiet /\ Stopping
  BY DEF Grows, Quiet, Stopping
<1>3. Updater!RestartIsEarned /\ Updater!UpdateIsNotForgotten /\ Updater!OneWorker
  BY DEF Updater!RestartIsEarned, Updater!UpdateIsNotForgotten, Updater!OneWorker
<1> QED BY <1>1, <1>2, <1>3 DEF UpdateIInv

\* What is said of the counters, and of the rest.
LEMMA OthersKept ==
    ASSUME UpdateIInv, Updater!Others
    PROVE  UpdateIInv'
<1> USE UpdateTyped DEF UpdateTypes
<1>1. /\ UNCHANGED <<tracking, head, code, alive, closing, supported, state, request, half, timers,
                     event, sup, should_exit, handler, asked>>
      /\ remote' \in 0 .. Pushes /\ remote <= remote'
      /\ mine' \in BOOLEAN /\ dirty' \in BOOLEAN
  <2>1. mine \in BOOLEAN /\ dirty \in BOOLEAN
    BY DEF UpdateIInv, Updater!TypeOK
  <2>2. CASE Updater!Push
    BY <2>1, <2>2 DEF Updater!Others, Updater!Push, Updater!update
  <2>3. CASE Updater!Edit
    BY <2>1, <2>3 DEF Updater!Others, Updater!Edit, Updater!update
  <2>4. CASE Updater!Commit
    BY <2>1, <2>4 DEF Updater!Others, Updater!Commit, Updater!update
  <2> QED BY <2>2, <2>3, <2>4 DEF Updater!Others
<1>2. Updater!TypeOK'
  BY <1>1 DEF UpdateIInv, Updater!TypeOK, Updater!Updatable
<1>3. Grows'
  BY <1>1 DEF UpdateIInv, Grows
<1>4. Quiet' /\ Stopping'
  BY <1>1 DEF UpdateIInv, Quiet, Stopping
<1>5. (Updater!RestartIsEarned /\ Updater!UpdateIsNotForgotten /\ Updater!OneWorker)'
  BY <1>1 DEF UpdateIInv, Updater!RestartIsEarned, Updater!UpdateIsNotForgotten, Updater!OneWorker
<1> QED BY <1>2, <1>3, <1>4, <1>5 DEF UpdateIInv

\* The requests of the worker that runs.
LEMMA RequestsKept ==
    ASSUME UpdateIInv, Updater!Requests
    PROVE  UpdateIInv'
<1> USE UpdateTyped DEF UpdateTypes
<1>1. /\ UNCHANGED <<remote, mine, dirty, code, alive, closing, supported, event, sup, should_exit,
                     handler, asked>>
      /\ alive
  BY DEF Updater!Requests, Updater!CheckBegin, Updater!RunBegin, Updater!GitFails, Updater!Status,
     Updater!Fetch, Updater!Compare, Updater!Weigh, Updater!Pull, Updater!Finish, Updater!Request,
     Updater!source
<1>2. \/ /\ UNCHANGED <<head, tracking, half, timers>> /\ request = "none" /\ ~closing
         /\ request' \in {"check", "status"}
      \/ /\ UNCHANGED <<head, tracking, half, timers>> /\ request \notin {"none", "pulled"}
         /\ request' \in {"none", "fetch"} \/ (request' = "pull" /\ head < tracking)
      \/ /\ UNCHANGED <<head, half, timers>> /\ tracking' = remote
         /\ request \in {"check", "fetch"} /\ request' \in {"compare", "weigh"}
      \/ /\ UNCHANGED timers /\ request = "pull" /\ tracking' = remote /\ head' = remote
         /\ \/ request' = "pulled" /\ half' = half
            \/ request' = "none" /\ half' = TRUE
      \/ /\ UNCHANGED <<head, tracking, half>> /\ request = "pulled" /\ request' = "none"
         /\ \/ ~supported /\ UNCHANGED timers
            \/ supported /\ timers < Timers /\ timers' = timers + 1
  <2> USE DEF Updater!Request, Updater!Answer, Updater!source
  <2>1. CASE Updater!CheckBegin \/ Updater!RunBegin
    BY <2>1 DEF Updater!CheckBegin, Updater!RunBegin
  <2>2. CASE Updater!GitFails \/ Updater!Status \/ Updater!Compare \/ Updater!Weigh
    BY <2>2 DEF Updater!GitFails, Updater!Status, Updater!Compare, Updater!Weigh, Updater!Behind
  <2>3. CASE Updater!Fetch
    BY <2>3 DEF Updater!Fetch
  <2>4. CASE Updater!Pull
    BY <2>4 DEF Updater!Pull
  <2>5. CASE Updater!Finish
    BY <2>5 DEF Updater!Finish
  <2> QED BY <2>1, <2>2, <2>3, <2>4, <2>5 DEF Updater!Requests
<1>3. state' \in Updater!Updatable \cup {"checking", "updating", "restarting"}
  <2>1. state \in Updater!Updatable \cup {"checking", "updating", "restarting"}
    BY DEF UpdateIInv, Updater!TypeOK
  <2> QED BY <2>1 DEF Updater!Requests, Updater!CheckBegin, Updater!RunBegin, Updater!GitFails,
     Updater!Status, Updater!Fetch, Updater!Compare, Updater!Weigh, Updater!Pull, Updater!Finish,
     Updater!Answer, Updater!Updatable
<1>4. UpdateTypes' /\ Grows'
  BY <1>1, <1>2 DEF UpdateIInv, Grows
<1>5. Updater!TypeOK'
  <2>1. request' \in {"none", "check", "compare", "status", "fetch", "weigh", "pull", "pulled"}
    BY <1>2
  <2>2. half' \in BOOLEAN
    BY <1>2 DEF UpdateIInv, Updater!TypeOK
  <2>3. {remote, tracking, head, code}' \subseteq 0 .. Pushes /\ timers' \in 0 .. Timers
    BY <1>4
  <2> QED BY <2>1, <2>2, <2>3, <1>1, <1>3 DEF UpdateIInv, Updater!TypeOK
<1>6. Quiet' /\ Stopping'
  BY <1>1, <1>2 DEF UpdateIInv, Quiet, Stopping
<1>7. Updater!RestartIsEarned'
  BY <1>1, <1>2 DEF UpdateIInv, Grows, Updater!RestartIsEarned
<1>8. Updater!UpdateIsNotForgotten'
  BY <1>1, <1>2 DEF UpdateIInv, Grows, Updater!UpdateIsNotForgotten
<1>9. Updater!OneWorker'
  BY <1>1 DEF UpdateIInv, Updater!OneWorker
<1> QED BY <1>4, <1>5, <1>6, <1>7, <1>8, <1>9 DEF UpdateIInv

\* The timer, the end of the worker, and the supervisor.
LEMMA SupervisorKept ==
    ASSUME UpdateIInv, Updater!Fire \/ Updater!Exit \/ Updater!Supervisor
    PROVE  UpdateIInv'
<1> USE UpdateTyped DEF UpdateTypes
<1>1. UNCHANGED <<remote, tracking, head, mine, dirty, supported>>
  BY SMTT(60)
  DEF Updater!Fire, Updater!Exit, Updater!Supervisor, Updater!Turn, Updater!Kill, Updater!Reset,
     Updater!Start, Updater!Leave, Updater!Signal, Updater!SignalDone, Updater!source
<1> DEFINE Ends == alive' = FALSE /\ request' = "none" /\ timers' = 0
<1>2. \/ /\ alive /\ timers > 0 /\ timers' = timers - 1 /\ event' = TRUE
         /\ UNCHANGED <<code, alive, closing, request, half, sup, should_exit, handler, asked>>
      \/ Ends /\ UNCHANGED <<code, closing, half, event, sup, should_exit, handler, asked>>
      \/ /\ ~handler
         /\ \/ sup = "testing" /\ sup' = IF should_exit THEN "leaving" ELSE "waiting"
            \/ sup = "waiting" /\ event /\ sup' = "killing"
            \/ sup = "waiting" /\ ~event /\ sup' = IF alive THEN "testing" ELSE "leaving"
         /\ UNCHANGED <<code, alive, closing, request, half, timers, event, should_exit, handler,
                        asked>>
      \/ /\ sup = "killing" /\ Ends /\ sup' = "resetting" /\ ~handler
         /\ UNCHANGED <<code, closing, half, event, should_exit, handler, asked>>
      \/ /\ sup = "resetting" /\ should_exit' = FALSE /\ event' = FALSE /\ sup' = "starting"
         /\ UNCHANGED <<code, alive, closing, request, half, timers, handler, asked>>
      \/ /\ sup = "starting" /\ alive' = TRUE /\ closing' = FALSE /\ code' = head /\ half' = FALSE
         /\ sup' = "testing" /\ ~handler
         /\ UNCHANGED <<request, timers, event, should_exit, handler, asked>>
      \/ /\ sup = "leaving" /\ Ends /\ sup' = "ended"
         /\ UNCHANGED <<code, closing, half, event, should_exit, handler, asked>>
      \/ /\ ~handler /\ ~should_exit /\ handler' = TRUE /\ closing' = alive
         /\ asked' = IF asked = "plain" \/ ~Updater!UnderWay THEN "plain" ELSE "late"
         /\ UNCHANGED <<code, alive, request, half, timers, event, sup, should_exit>>
      \/ /\ handler /\ Ends /\ handler' = FALSE /\ should_exit' = TRUE
         /\ UNCHANGED <<code, closing, half, event, sup, asked>>
  <2> USE DEF Updater!update, Updater!WorkerEnds
  <2>1. CASE Updater!Fire
    BY <2>1 DEF Updater!Fire
  <2>2. CASE Updater!Exit
    BY <2>2 DEF Updater!Exit
  <2>3. CASE Updater!Turn
    BY <2>3 DEF Updater!Turn
  <2>4. CASE Updater!Kill
    BY <2>4 DEF Updater!Kill
  <2>5. CASE Updater!Reset
    BY <2>5 DEF Updater!Reset
  <2>6. CASE Updater!Start
    BY <2>6 DEF Updater!Start
  <2>7. CASE Updater!Leave
    BY <2>7 DEF Updater!Leave
  <2>8. CASE Updater!Signal
    BY <2>8 DEF Updater!Signal
  <2>9. CASE Updater!SignalDone
    BY <2>9 DEF Updater!SignalDone
  <2> QED BY <2>1, <2>2, <2>3, <2>4, <2>5, <2>6, <2>7, <2>8, <2>9 DEF Updater!Supervisor
<1>3. state' \in {state, "idle"}
  BY DEF Updater!Fire, Updater!Exit, Updater!Supervisor, Updater!Turn, Updater!Kill, Updater!Reset,
     Updater!Start, Updater!Leave, Updater!Signal, Updater!SignalDone, Updater!update
<1>4. UpdateTypes' /\ Grows'
  BY <1>1, <1>2 DEF UpdateIInv, Grows, Quiet, Updater!OneWorker
<1>5. Updater!TypeOK'
  <2>1. {remote, tracking, head, code}' \subseteq 0 .. Pushes /\ timers' \in 0 .. Timers
    BY <1>4
  <2>2. request' \in {"none", "check", "compare", "status", "fetch", "weigh", "pull", "pulled"}
    BY <1>2 DEF UpdateIInv, Updater!TypeOK
  <2>3. sup' \in {"testing", "waiting", "killing", "resetting", "starting", "leaving", "ended"}
    BY <1>2 DEF UpdateIInv, Updater!TypeOK
  <2>4. asked' \in {"no", "plain", "late"}
    BY <1>2 DEF UpdateIInv, Updater!TypeOK
  <2>5. {mine, dirty, alive, closing, supported, event, should_exit, handler, half}' \subseteq BOOLEAN
    BY <1>1, <1>2 DEF UpdateIInv, Updater!TypeOK
  <2>6. state' \in Updater!Updatable \cup {"checking", "updating", "restarting"}
    BY <1>3 DEF UpdateIInv, Updater!TypeOK, Updater!Updatable
  <2> QED BY <2>1, <2>2, <2>3, <2>4, <2>5, <2>6 DEF Updater!TypeOK
<1>6. Quiet'
  BY <1>2 DEF UpdateIInv, Quiet, Updater!OneWorker
<1>7. Stopping'
  BY <1>2 DEF UpdateIInv, Stopping, Updater!UnderWay
<1> DEFINE Same == code' = code /\ alive /\ half' = half /\ (request' = request)
<1>8. alive' =>
        \/ /\ Same /\ timers > 0 /\ event' /\ sup' = sup
        \/ /\ Same /\ timers' = timers /\ event' = event
           /\ sup' \in {"testing", "waiting"} => sup \in {"testing", "waiting"}
        \/ /\ code' = head /\ timers' = 0 /\ ~event'
  <2> HIDE DEF Grows, UpdateIInv
  <2>1. sup = "starting" => timers = 0 /\ ~event
    BY DEF UpdateIInv, Quiet, Updater!OneWorker
  <2>2. sup = "resetting" => ~alive
    BY DEF UpdateIInv, Updater!OneWorker
  <2> QED BY ONLY <1>2, <2>1, <2>2
<1>9. Updater!RestartIsEarned' /\ Updater!UpdateIsNotForgotten'
  <2>1. CASE ~alive'
    BY <2>1 DEF Updater!RestartIsEarned, Updater!UpdateIsNotForgotten
  <2>2. CASE Same /\ timers > 0 /\ event' /\ sup' = sup
    BY <2>2, <1>1 DEF UpdateIInv, Updater!RestartIsEarned, Updater!UpdateIsNotForgotten
  <2>3. CASE /\ Same /\ timers' = timers /\ event' = event
             /\ sup' \in {"testing", "waiting"} => sup \in {"testing", "waiting"}
    <3>1. head' = head /\ supported' = supported
      BY <1>1
    <3>2. Updater!RestartIsEarned /\ Updater!UpdateIsNotForgotten
      BY DEF UpdateIInv
    <3>3. Updater!RestartIsEarned'
      BY <2>3, <3>1, <3>2 DEF Updater!RestartIsEarned
    <3>4. Updater!UpdateIsNotForgotten'
      BY <2>3, <3>1, <3>2 DEF Updater!UpdateIsNotForgotten
    <3> QED BY <3>3, <3>4
  <2>4. CASE code' = head /\ timers' = 0 /\ ~event'
    BY <2>4, <1>1 DEF UpdateIInv, Updater!RestartIsEarned, Updater!UpdateIsNotForgotten
  <2> QED BY <1>8, <2>1, <2>2, <2>3, <2>4
<1>10. Updater!OneWorker'
  BY <1>2 DEF UpdateIInv, Updater!OneWorker
<1> QED BY <1>4, <1>5, <1>6, <1>7, <1>9, <1>10 DEF UpdateIInv

LEMMA NextUpdateIInv ==
    ASSUME UpdateIInv, [Updater!Next]_(Updater!vars)
    PROVE  UpdateIInv'
<1>1. CASE Updater!Others
  BY <1>1, OthersKept
<1>2. CASE Updater!Requests
  BY <1>2, RequestsKept
<1>3. CASE Updater!Fire \/ Updater!Exit \/ Updater!Supervisor
  BY <1>3, SupervisorKept
<1>4. CASE UNCHANGED Updater!vars
  BY <1>4 DEF Updater!vars, Updater!source, Updater!update, UpdateIInv, Updater!TypeOK, Grows, Quiet,
     Stopping, Updater!RestartIsEarned, Updater!UpdateIsNotForgotten, Updater!OneWorker
<1> QED BY <1>1, <1>2, <1>3, <1>4 DEF Updater!Next

\* The inductive invariant of the update and the restart (core/updater.py, webui/gui.py).
THEOREM UpdateInvariant == Updater!Spec => []UpdateIInv
<1>1. Updater!Init => UpdateIInv
  BY InitUpdateIInv
<1>2. UpdateIInv /\ [Updater!Next]_(Updater!vars) => UpdateIInv'
  BY NextUpdateIInv
<1> QED BY <1>1, <1>2, PTL DEF Updater!Spec

\* The backend is restarted for new code only, no pulled code is forgotten, a stop is kept and
\* there is one worker, for any number of commits and timers.
THEOREM UpdateSound == Updater!Spec => []UpdateIsSound
<1>1. UpdateIInv => UpdateIsSound
  <2>1. UpdateIInv => Updater!StopIsKept
    BY DEF UpdateIInv, Stopping, Updater!StopIsKept
  <2> QED BY <2>1 DEF UpdateIInv, UpdateIsSound, Updater!UpdateIsSound
<1> QED BY <1>1, UpdateInvariant, PTL

-----------------------------------------------------------------------------
(* The desktop shell (ElectronShell).  A poll is under way from the moment    *)
(* the backend has reported or the 8 s are over until the window has the app. *)

Alive == backend \notin {"none", "ended"}
Polled == \E n \in 0 .. Repeats : polls[n] > 0

ShellTypes ==
    /\ polls \in [0 .. Repeats -> Nat]
    /\ later \in {"off", "set", "done"}
    /\ quit \in {"no", "killing", "finishing", "leaving"}

\* The backend is started by the timer, and everything else follows from its start.
FollowsTheStart ==
    /\ timer => backend = "none"
    /\ backend = "none" => later = "off" /\ ~serverReady
    /\ quit # "no" /\ ~early => ~timer

ToldToEnd == quit \in {"finishing", "leaving"} /\ ~early => told \/ ~Alive

Followed == window = "loading" /\ Alive /\ (later = "done" \/ serverReady) => Polled \/ gaveUp

ShellIInv == ShellTypes /\ FollowsTheStart /\ ToldToEnd /\ Followed

LEMMA InitShellIInv ==
    ASSUME Shell!Init
    PROVE  ShellIInv
<1> USE SharedAssumption DEF Shell!Init
<1>1. ShellTypes
  BY DEF ShellTypes
<1>2. FollowsTheStart /\ ToldToEnd /\ Followed
  BY DEF FollowsTheStart, ToldToEnd, Followed, Alive
<1> QED BY <1>1, <1>2 DEF ShellIInv

\* One more poll.
LEMMA PollAdds ==
    ASSUME ShellTypes, Shell!Poll(0)
    PROVE  polls' \in [0 .. Repeats -> Nat] /\ Polled'
<1>1. 0 \in 0 .. Repeats /\ polls[0] \in Nat
  BY SharedAssumption DEF ShellTypes
<1>2. polls' = [polls EXCEPT ![0] = polls[0] + 1]
  BY DEF Shell!Poll
<1>3. polls'[0] > 0
  BY <1>1, <1>2 DEF ShellTypes
<1> QED BY <1>1, <1>2, <1>3 DEF ShellTypes, Polled

\* A poll that fails is made again, unless that is one too many.
LEMMA RepeatKeepsOn ==
    ASSUME ShellTypes, NEW n \in 0 .. Repeats, polls[n] > 0, NEW twice \in BOOLEAN,
           Shell!Repeat(n, twice)
    PROVE  /\ polls' \in [0 .. Repeats -> Nat]
           /\ gaveUp' \/ (Polled' /\ gaveUp' = gaveUp)
<1> USE SharedAssumption
<1> DEFINE more == IF twice THEN 2 ELSE 1
<1>1. polls[n] - 1 \in Nat /\ more \in Nat /\ more > 0
  BY DEF ShellTypes
<1>2. CASE n = Repeats
  <2>1. polls' = [polls EXCEPT ![n] = polls[n] - 1] /\ gaveUp'
    BY <1>2 DEF Shell!Repeat
  <2> QED BY <2>1, <1>1 DEF ShellTypes
<1>3. CASE n < Repeats
  <2>1. n + 1 \in 0 .. Repeats /\ polls[n + 1] \in Nat /\ n # n + 1
    BY <1>3 DEF ShellTypes
  <2>2. /\ polls' = [polls EXCEPT ![n] = polls[n] - 1, ![n + 1] = @ + more]
        /\ gaveUp' = gaveUp
    BY <1>3 DEF Shell!Repeat
  <2> HIDE DEF more
  <2>3. polls' \in [0 .. Repeats -> Nat] /\ polls'[n + 1] = polls[n + 1] + more
    BY <1>1, <2>1, <2>2, SMTT(60) DEF ShellTypes
  <2> QED BY <1>1, <2>1, <2>2, <2>3, SMTT(60) DEF Polled
<1> QED BY <1>2, <1>3

LEMMA NextShellIInv ==
    ASSUME ShellIInv, [Shell!Next]_(Shell!vars)
    PROVE  ShellIInv'
<1> USE DEF ShellIInv
<1>1. CASE Shell!startPython
  <2> USE <1>1 DEF Shell!startPython
  <2>1. ShellTypes' /\ FollowsTheStart'
    BY DEF ShellTypes, FollowsTheStart
  <2>2. ToldToEnd' /\ Followed'
    BY DEF FollowsTheStart, ToldToEnd, Followed, Alive, Polled
  <2> QED BY <2>1, <2>2
<1>2. CASE Shell!Spawned
  <2> USE <1>2 DEF Shell!Spawned
  <2>1. ShellTypes' /\ FollowsTheStart'
    BY DEF ShellTypes, FollowsTheStart
  <2>2. ToldToEnd' /\ Followed'
    BY DEF ToldToEnd, Followed, Alive, Polled
  <2> QED BY <2>1, <2>2
<1>3. CASE Shell!Later
  <2>1. /\ later = "set" /\ later' = "done"
        /\ UNCHANGED <<timer, backend, told, serverReady, gaveUp, window, quit, early>>
        /\ \/ serverReady /\ polls' = polls
           \/ Shell!Poll(0)
    BY <1>3 DEF Shell!Later
  <2>2. polls' \in [0 .. Repeats -> Nat] /\ (serverReady \/ Polled')
    BY <2>1, PollAdds DEF ShellTypes
  <2>3. polls' = polls \/ Polled'
    BY <2>1, PollAdds
  <2>4. ShellTypes' /\ FollowsTheStart' /\ ToldToEnd'
    BY <2>1, <2>2 DEF ShellTypes, FollowsTheStart, ToldToEnd, Alive
  <2>5. Followed'
    BY <2>1, <2>2, <2>3 DEF Followed, Alive, Polled
  <2> QED BY <2>4, <2>5
<1>4. CASE Shell!maybeNotifyServerReady
  <2>1. /\ serverReady' = TRUE /\ backend = "serving" /\ Shell!Poll(0)
        /\ UNCHANGED <<timer, backend, told, later, gaveUp, window, quit, early>>
    BY <1>4 DEF Shell!maybeNotifyServerReady
  <2>2. polls' \in [0 .. Repeats -> Nat] /\ Polled'
    BY <2>1, PollAdds
  <2>3. ShellTypes' /\ FollowsTheStart' /\ ToldToEnd' /\ Followed'
    BY <2>1, <2>2 DEF ShellTypes, FollowsTheStart, ToldToEnd, Followed, Alive
  <2> QED BY <2>3
<1>5. CASE Shell!Backend
  <2>1. /\ backend \notin {"none", "ended"} /\ backend' # "none"
        /\ UNCHANGED <<timer, told, serverReady, later, polls, gaveUp, window, quit, early>>
    BY <1>5 DEF Shell!Backend
  <2>2. ShellTypes' /\ FollowsTheStart'
    BY <2>1 DEF ShellTypes, FollowsTheStart
  <2>3. ToldToEnd' /\ Followed'
    BY <2>1 DEF ToldToEnd, Followed, Alive, Polled
  <2> QED BY <2>2, <2>3
<1>6. ASSUME NEW n \in 0 .. Repeats, Shell!pollServer(n)
      PROVE  ShellIInv'
  <2>1. /\ polls[n] > 0
        /\ UNCHANGED <<timer, backend, told, serverReady, later, quit, early>>
        /\ \/ window' = "app" /\ polls' = [polls EXCEPT ![n] = polls[n] - 1] /\ gaveUp' = gaveUp
           \/ window' = window /\ (Shell!Repeat(n, FALSE) \/ Shell!Repeat(n, TRUE))
    BY <1>6 DEF Shell!pollServer
  <2>2. /\ polls' \in [0 .. Repeats -> Nat]
        /\ window' = "app" \/ (window' = window /\ (gaveUp' \/ (Polled' /\ gaveUp' = gaveUp)))
    <3>1. CASE window' = "app" /\ polls' = [polls EXCEPT ![n] = polls[n] - 1]
      BY <2>1, <3>1 DEF ShellTypes
    <3>2. CASE window' = window /\ (Shell!Repeat(n, FALSE) \/ Shell!Repeat(n, TRUE))
      BY <2>1, <3>2, RepeatKeepsOn
    <3> QED BY <2>1, <3>1, <3>2
  <2>3. ShellTypes' /\ FollowsTheStart' /\ ToldToEnd'
    BY <2>1, <2>2 DEF ShellTypes, FollowsTheStart, ToldToEnd, Alive
  <2>4. Followed'
    BY <2>1, <2>2 DEF Followed, Alive
  <2> QED BY <2>3, <2>4
<1>7. CASE Shell!quitApp
  <2>1. /\ quit = "no" /\ early' = timer
        /\ \/ quit' = "killing" /\ told' = told
           \/ quit' = "finishing" /\ told' = (backend # "none")
        /\ UNCHANGED <<timer, backend, serverReady, later, polls, gaveUp, window>>
    BY <1>7 DEF Shell!quitApp, Shell!quitStarted
  <2>2. ShellTypes' /\ FollowsTheStart'
    BY <2>1 DEF ShellTypes, FollowsTheStart
  <2>3. ToldToEnd' /\ Followed'
    BY <2>1 DEF ToldToEnd, Followed, Alive, Polled
  <2> QED BY <2>2, <2>3
<1>8. CASE Shell!Killed \/ Shell!finishQuit \/ Shell!AppQuit \/ Shell!SystemQuit
  <2>1. /\ UNCHANGED <<timer, backend, serverReady, later, polls, gaveUp, early>>
        /\ window' \in {window, "closed"}
        /\ \/ quit = "killing" /\ quit' = "finishing" /\ told' = TRUE
           \/ quit = "finishing" /\ quit' = "leaving" /\ told' = told
           \/ quit' = quit /\ told' = told
    BY <1>8 DEF Shell!Killed, Shell!finishQuit, Shell!AppQuit, Shell!SystemQuit
  <2>2. ShellTypes' /\ FollowsTheStart'
    BY <2>1 DEF ShellTypes, FollowsTheStart
  <2>3. ToldToEnd' /\ Followed'
    BY <2>1 DEF ToldToEnd, Followed, Alive, Polled
  <2> QED BY <2>2, <2>3
<1>9. CASE UNCHANGED Shell!vars
  BY <1>9 DEF Shell!vars, ShellTypes, FollowsTheStart, ToldToEnd, Followed, Alive, Polled
<1> QED BY <1>1, <1>2, <1>3, <1>4, <1>5, <1>6, <1>7, <1>8, <1>9 DEF Shell!Next

\* The inductive invariant of the desktop shell (electron/main.js).
THEOREM ShellInvariant == Shell!Spec => []ShellIInv
<1>1. Shell!Init => ShellIInv
  BY InitShellIInv
<1>2. ShellIInv /\ [Shell!Next]_(Shell!vars) => ShellIInv'
  BY NextShellIInv
<1> QED BY <1>1, <1>2, PTL DEF Shell!Spec

\* A quit leaves no backend behind that it could have told, and no window stays on the loading
\* page in front of a backend that runs, however often polls are repeated.
THEOREM ShellSound == Shell!Spec => []ShellIsSound
<1>1. ShellIInv => ShellIsSound
  BY DEF ShellIInv, ShellTypes, FollowsTheStart, ToldToEnd, Followed, Polled, Alive, ShellIsSound,
     Shell!ShellIsSound, Shell!QuitLeavesNothing, Shell!WindowIsServed
<1> QED BY <1>1, ShellInvariant, PTL

-----------------------------------------------------------------------------
(* The replay of a recording (TouchReplay).                                *)

Ops == {"command", "down", "move", "up"}
Events == [at : Nat, op : Ops, finger : Nat]
Sent == [event : Events, time : Nat]

ReplayTypes ==
    /\ events \in Recordings /\ from \in Nat /\ held \subseteq Fingers
    /\ next \in 1 .. Len(events) + 1 /\ plays \in {"check", "wait", "send", "clean", "over"}
    /\ anchor \in Int /\ clock \in 0 .. Horizon /\ halt \in BOOLEAN
    /\ begun \in Nat \cup {Replay!NotYet} /\ sent \in Seq(Sent) /\ tooLate \in Nat
    /\ mineDown \subseteq Fingers /\ down \subseteq Fingers

\* An event that is waited for is one of the device's, and the clock runs for it.
Awaited ==
    plays \in {"wait", "send"} =>
        /\ next <= Len(events) /\ begun # Replay!NotYet
        /\ Replay!Event.op \in {"down", "move", "up"} /\ Replay!Event.finger \in Fingers

\* Which fingers may still be down: those it will bring up, and those that would not obey.
FingersHeld ==
    /\ mineDown \subseteq Replay!Played
    /\ down \cap Replay!Played \subseteq mineDown \cup stuck \cup lost
    /\ held \ Replay!Played \subseteq down
    /\ plays = "over" => mineDown = {}

\* The first touch sets the clock of the recording, which is put back but never forward.
ClockIsSet ==
    /\ sent # <<>> => begun # Replay!NotYet /\ anchor - from >= begun - sent[1].event.at
    /\ sent = <<>> /\ plays = "check" => begun = Replay!NotYet
    /\ sent = <<>> /\ plays \in {"wait", "send"} => anchor - from = begun - Replay!Event.at
    /\ plays = "send" => clock >= Replay!Due

\* What is to come is not before what was sent.
SentInOrder ==
    sent # <<>> =>
        /\ sent[Len(sent)].time <= clock
        /\ plays \in {"check", "wait", "send"} =>
              \A j \in next .. Len(events) : sent[Len(sent)].event.at <= events[j].at

\* What goes out after a stop is the one event that was not asked about again.
LastOne == tooLate = 0 \/ (tooLate = 1 /\ halt /\ plays \notin {"wait", "send"})

ReplayIInv ==
    ReplayTypes /\ Awaited /\ FingersHeld /\ ClockIsSet /\ SentInOrder /\ Replay!TimesAreKept /\ LastOne

LEMMA RecordedEvents ==
    ASSUME events \in Recordings
    PROVE  /\ events \in Seq(Events) /\ Len(events) \in Nat
           /\ \A j \in 1 .. Len(events) : events[j] \in Events
           /\ \A j, k \in 1 .. Len(events) : j < k => events[j].at <= events[k].at
<1>1. events \in Seq(Events)
  BY ReplayAssumption DEF Events, Ops
<1>2. \A j, k \in DOMAIN events : j < k => events[j].at <= events[k].at
  BY ReplayAssumption
<1> QED BY <1>1, <1>2

LEMMA SentTimes ==
    ASSUME NEW s \in Seq(Sent)
    PROVE  /\ Len(s) \in Nat /\ (s # <<>> => Len(s) > 0)
           /\ \A k \in 1 .. Len(s) : s[k] \in Sent /\ s[k].event.at \in Nat /\ s[k].time \in Nat
<1>1. Len(s) \in Nat /\ (s # <<>> => Len(s) > 0) /\ \A k \in 1 .. Len(s) : s[k] \in Sent
  OBVIOUS
<1>2. \A x \in Sent : x.event \in Events /\ x.time \in Nat
  BY DEF Sent
<1>3. \A x \in Events : x.at \in Nat
  BY DEF Events
<1> QED BY <1>1, <1>2, <1>3

LEMMA InitReplayIInv == Replay!Init => ReplayIInv
<1> SUFFICES ASSUME Replay!Init PROVE ReplayIInv
  OBVIOUS
<1>1. events \in Recordings /\ Len(events) \in Nat
  BY RecordedEvents DEF Replay!Init
<1>2. held \subseteq Fingers /\ Horizon \in Nat
  BY ReplayAssumption DEF Replay!Init
<1>5. ReplayTypes
  <2>1. /\ next \in 1 .. Len(events) + 1 /\ clock \in 0 .. Horizon /\ from \in Nat
        /\ begun \in Nat \cup {Replay!NotYet} /\ anchor \in Int /\ tooLate \in Nat
    BY <1>1, <1>2 DEF Replay!Init
  <2>2. sent \in Seq(Sent)
    BY DEF Replay!Init
  <2> QED BY <1>1, <1>2, <2>1, <2>2 DEF Replay!Init, ReplayTypes
<1>6. Awaited /\ ClockIsSet /\ SentInOrder /\ LastOne
  BY DEF Replay!Init, Awaited, ClockIsSet, SentInOrder, LastOne
<1>3. Replay!Played = {} /\ Replay!TimesAreKept
  BY DEF Replay!Init, Replay!Played, Replay!TimesAreKept
<1>4. FingersHeld
  BY <1>3 DEF FingersHeld, Replay!Init
<1> QED BY <1>3, <1>4, <1>5, <1>6 DEF ReplayIInv

\* A step that sends nothing and is not the release of a finger.
LEMMA QuietSteps ==
    ASSUME ReplayIInv, UNCHANGED <<events, held, sent, down, mineDown, stuck, lost>>,
           plays' = "over" => mineDown = {}
    PROVE  FingersHeld' /\ Replay!Played' = Replay!Played
BY DEF ReplayIInv, FingersHeld, Replay!Played

LEMMA SkipStep == ASSUME ReplayIInv, Replay!Skip PROVE ReplayIInv'
<1>1. /\ plays = "check" /\ next <= Len(events) /\ next' = next + 1
      /\ UNCHANGED <<events, from, held, plays, anchor, mineDown, clock, halt, down, failed, lost,
                     stuck, begun, sent, tooLate>>
  BY DEF Replay!Skip
<1>2. FingersHeld'
  BY <1>1, QuietSteps DEF ReplayIInv, FingersHeld
<1>3. ReplayTypes' /\ Awaited' /\ LastOne' /\ Replay!TimesAreKept'
  BY <1>1, RecordedEvents DEF ReplayIInv, ReplayTypes, Awaited, LastOne, Replay!TimesAreKept
<1>4. ClockIsSet' /\ SentInOrder'
  BY <1>1, RecordedEvents DEF ReplayIInv, ReplayTypes, ClockIsSet, SentInOrder
<1> QED BY <1>2, <1>3, <1>4 DEF ReplayIInv

LEMMA CheckStep == ASSUME ReplayIInv, Replay!Check PROVE ReplayIInv'
<1>1. /\ plays = "check" /\ next <= Len(events) /\ ~halt /\ plays' = "wait"
      /\ Replay!Event.op \in {"down", "move", "up"} /\ Replay!Event.finger \in Fingers
      /\ begun' = IF begun = Replay!NotYet THEN clock ELSE begun
      /\ anchor' = IF begun = Replay!NotYet \/ clock - Replay!Due > Lag
                   THEN clock - (Replay!Event.at - from) ELSE anchor
      /\ UNCHANGED <<events, from, held, next, mineDown, clock, halt, down, failed, lost, stuck,
                     sent, tooLate>>
  BY DEF Replay!Check
<1>2. events[next] \in Events /\ events[next].at \in Nat /\ Len(events) \in Nat
  BY <1>1, RecordedEvents, SMTT(60) DEF ReplayIInv, ReplayTypes, Events
<1>3. FingersHeld'
  BY <1>1, QuietSteps DEF ReplayIInv, FingersHeld
<1>4. ReplayTypes' /\ Awaited' /\ LastOne'
  BY <1>1, <1>2, SMTT(60) DEF ReplayIInv, ReplayTypes, Awaited, LastOne, Replay!Event, Replay!NotYet
<1>5. sent # <<>> => begun' = begun /\ begun \in Nat /\ anchor' >= anchor
  <2> SUFFICES ASSUME sent # <<>> PROVE begun' = begun /\ begun \in Nat /\ anchor' >= anchor
    OBVIOUS
  <2>1. begun # Replay!NotYet /\ begun \in Nat
    BY DEF ReplayIInv, ReplayTypes, ClockIsSet
  <2>2. Lag \in Nat /\ clock \in Int /\ from \in Int /\ anchor \in Int
    BY ReplayAssumption DEF ReplayIInv, ReplayTypes
  <2>3. anchor' = IF clock - (anchor + (events[next].at - from)) > Lag
                  THEN clock - (events[next].at - from) ELSE anchor
    BY <1>1, <2>1 DEF Replay!Event, Replay!Due
  <2> QED BY <1>1, <1>2, <2>1, <2>2, <2>3, SMTT(60)
<1>6. sent = <<>> => anchor' - from = begun' - Replay!Event.at
  BY <1>1, <1>2, SMTT(60) DEF ReplayIInv, ReplayTypes, ClockIsSet, Replay!Event
<1>7. sent # <<>> => sent[1].event.at \in Nat
  BY SentTimes DEF ReplayIInv, ReplayTypes
<1>8. ClockIsSet'
  <2>1. /\ anchor \in Int /\ anchor' \in Int /\ from \in Int /\ plays' = "wait" /\ sent' = sent
        /\ Replay!Event' = Replay!Event /\ from' = from
    BY <1>1, <1>4 DEF ReplayIInv, ReplayTypes, Replay!Event
  <2>2. sent # <<>> => begun' # Replay!NotYet /\ anchor' - from >= begun' - sent[1].event.at
    BY <1>5, <1>7, <2>1, SMTT(60) DEF ReplayIInv, ClockIsSet
  <2> QED BY <1>6, <2>1, <2>2 DEF ClockIsSet
<1>9. SentInOrder' /\ Replay!TimesAreKept'
  BY <1>1, <1>5 DEF ReplayIInv, SentInOrder, Replay!TimesAreKept
<1> QED BY <1>3, <1>4, <1>8, <1>9 DEF ReplayIInv

LEMMA EndSteps ==
    ASSUME ReplayIInv, Replay!Reject \/ Replay!Leave \/ Replay!Clean
    PROVE  ReplayIInv'
<1>1. /\ plays' \in {"clean", "over"} /\ (plays' = "over" => mineDown = {})
      /\ UNCHANGED <<events, from, held, next, anchor, mineDown, clock, halt, down, failed, lost,
                     stuck, begun, sent, tooLate>>
  BY DEF Replay!Reject, Replay!Leave, Replay!Clean
<1>2. FingersHeld'
  BY <1>1, QuietSteps
<1>3. ReplayTypes' /\ Awaited' /\ LastOne' /\ ClockIsSet' /\ SentInOrder' /\ Replay!TimesAreKept'
  BY <1>1 DEF ReplayIInv, ReplayTypes, Awaited, LastOne, ClockIsSet, SentInOrder, Replay!TimesAreKept
<1> QED BY <1>2, <1>3 DEF ReplayIInv

LEMMA WaitedStep == ASSUME ReplayIInv, Replay!Waited PROVE ReplayIInv'
<1>1. /\ plays = "wait" /\ plays' = "send" /\ clock >= Replay!Due
      /\ UNCHANGED <<events, from, held, next, anchor, mineDown, clock, halt, down, failed, lost,
                     stuck, begun, sent, tooLate>>
  BY DEF Replay!Waited
<1>2. FingersHeld'
  BY <1>1, QuietSteps
<1>3. ReplayTypes' /\ Awaited' /\ LastOne' /\ Replay!TimesAreKept'
  BY <1>1 DEF ReplayIInv, ReplayTypes, Awaited, LastOne, Replay!TimesAreKept, Replay!Event
<1>4. ClockIsSet' /\ SentInOrder'
  BY <1>1 DEF ReplayIInv, ClockIsSet, SentInOrder, Replay!Event, Replay!Due
<1> QED BY <1>2, <1>3, <1>4 DEF ReplayIInv

\* What was sent is longer by one, which was due.
LEMMA OneMoreSent ==
    ASSUME ReplayIInv, plays = "send", UNCHANGED <<events, from, begun, anchor>>,
           sent' = Append(sent, [event |-> Replay!Event, time |-> clock])
    PROVE  /\ sent' \in Seq(Sent) /\ sent' # <<>> /\ Len(sent') = Len(sent) + 1
           /\ sent'[Len(sent')] = [event |-> events[next], time |-> clock]
           /\ Replay!TimesAreKept'
           /\ anchor - from >= begun - sent'[1].event.at
           /\ Replay!Played' = Replay!Played \cup {Replay!Event.finger}
<1>1. /\ next \in 1 .. Len(events) /\ Len(events) \in Nat /\ events[next] \in Events
      /\ events[next].at \in Nat /\ begun \in Nat /\ clock \in Nat /\ from \in Nat /\ anchor \in Int
      /\ sent \in Seq(Sent)
  BY RecordedEvents, ReplayAssumption, SMTT(60) DEF ReplayIInv, ReplayTypes, Awaited, Events
<1> DEFINE new == [event |-> events[next], time |-> clock]
<1>2. new \in Sent
  BY <1>1 DEF Sent
<1>3. /\ sent' \in Seq(Sent) /\ sent' # <<>> /\ Len(sent') = Len(sent) + 1 /\ Len(sent) \in Nat
      /\ sent'[Len(sent')] = new /\ \A k \in 1 .. Len(sent) : sent'[k] = sent[k]
      /\ DOMAIN sent' = 1 .. Len(sent) + 1 /\ DOMAIN sent = 1 .. Len(sent)
  BY <1>1, <1>2 DEF Replay!Event
<1>4. \A k \in 1 .. Len(sent) : sent[k].event.at \in Nat /\ sent[k].time \in Nat
  BY <1>1, SentTimes
<1>5. clock >= anchor + (events[next].at - from)
  BY DEF ReplayIInv, ClockIsSet, Replay!Due, Replay!Event
<1>6. anchor - from >= begun - sent'[1].event.at
  <2>1. CASE sent = <<>>
    BY <2>1, <1>1, <1>3 DEF ReplayIInv, ClockIsSet, Replay!Event
  <2>2. CASE sent # <<>>
    BY <2>2, <1>3 DEF ReplayIInv, ClockIsSet
  <2> QED BY <2>1, <2>2
<1>7. sent # <<>> => sent[Len(sent)].event.at <= events[next].at /\ sent[Len(sent)].time <= clock
  BY <1>1 DEF ReplayIInv, SentInOrder
<1>8. sent'[1].event.at \in Nat
  <2>1. CASE sent = <<>>
    BY <2>1, <1>1, <1>3
  <2>2. CASE sent # <<>>
    BY <2>2, <1>3, <1>4
  <2> QED BY <2>1, <2>2
<1>9. \A k \in 1 .. Len(sent) + 1 :
          /\ sent'[k].time - begun >= sent'[k].event.at - sent'[1].event.at
          /\ k > 1 => /\ sent'[k - 1].event.at <= sent'[k].event.at
                      /\ sent'[k - 1].time <= sent'[k].time
  <2> SUFFICES ASSUME NEW k \in 1 .. Len(sent) + 1
               PROVE  /\ sent'[k].time - begun >= sent'[k].event.at - sent'[1].event.at
                      /\ k > 1 => /\ sent'[k - 1].event.at <= sent'[k].event.at
                                  /\ sent'[k - 1].time <= sent'[k].time
    OBVIOUS
  <2>1. CASE k = Len(sent) + 1
    <3>1. sent'[k].time = clock /\ sent'[k].event.at = events[next].at
      BY <2>1, <1>3
    <3>2. k > 1 => sent'[k - 1] = sent[Len(sent)] /\ sent # <<>>
      <4> SUFFICES ASSUME k > 1 PROVE sent'[k - 1] = sent[Len(sent)] /\ sent # <<>>
        OBVIOUS
      <4>1. k - 1 = Len(sent) /\ Len(sent) \in 1 .. Len(sent)
        BY <2>1, <1>3
      <4>2. sent # <<>>
        BY <4>1
      <4> QED BY <4>1, <4>2, <1>3
    <3>3. clock - begun >= events[next].at - sent'[1].event.at
      <4>1. PICK g \in Int : g = sent'[1].event.at
        BY <1>8
      <4>2. PICK e \in Int : e = events[next].at
        BY <1>1
      <4>3. anchor - from >= begun - g /\ clock >= anchor + (e - from)
        BY <1>5, <1>6, <4>1, <4>2
      <4>4. clock - begun >= e - g
        BY <1>1, <4>3
      <4> QED BY <4>1, <4>2, <4>4
    <3> QED BY <3>1, <3>2, <3>3, <1>7
  <2>2. CASE k # Len(sent) + 1
    <3>1. k \in 1 .. Len(sent) /\ sent'[k] = sent[k] /\ sent'[1] = sent[1]
          /\ (k > 1 => sent'[k - 1] = sent[k - 1])
      BY <2>2, <1>3
    <3> QED BY <3>1, <1>3 DEF ReplayIInv, Replay!TimesAreKept
  <2> QED BY <2>1, <2>2
<1>10. Replay!TimesAreKept'
  BY <1>3, <1>9 DEF Replay!TimesAreKept
<1>11. Replay!Played' = Replay!Played \cup {Replay!Event.finger}
  <2>1. \A k \in 1 .. Len(sent) + 1 :
            sent'[k].event.finger = IF k = Len(sent) + 1 THEN Replay!Event.finger
                                    ELSE sent[k].event.finger
    BY <1>3 DEF Replay!Event
  <2>2. /\ Replay!Played' = {sent'[k].event.finger : k \in 1 .. Len(sent) + 1}
        /\ Replay!Played = {sent[k].event.finger : k \in 1 .. Len(sent)}
    BY <1>3 DEF Replay!Played
  <2> QED BY <2>1, <2>2, <1>3
<1> QED BY <1>3, <1>6, <1>10, <1>11

LEMMA SendStep == ASSUME ReplayIInv, Replay!Send PROVE ReplayIInv'
<1>1. /\ plays = "send" /\ sent' = Append(sent, [event |-> Replay!Event, time |-> clock])
      /\ tooLate' = IF halt THEN tooLate + 1 ELSE tooLate
      /\ UNCHANGED <<events, from, held, anchor, clock, halt, stuck, begun>>
  BY DEF Replay!Send
<1>2. \/ /\ down' = Replay!After(Replay!Event.op, Replay!Event.finger)
         /\ mineDown' = IF Replay!Event.op = "up" THEN mineDown \ {Replay!Event.finger}
                        ELSE mineDown \cup {Replay!Event.finger}
         /\ next' = next + 1 /\ plays' = "check" /\ lost' = lost
      \/ /\ plays' = "clean" /\ down' \in {down, Replay!After(Replay!Event.op, Replay!Event.finger)}
         /\ lost' = lost \cup ({Replay!Event.finger} \ mineDown)
         /\ UNCHANGED <<mineDown, next>>
  BY DEF Replay!Send
<1>3. /\ sent' \in Seq(Sent) /\ sent' # <<>> /\ Len(sent') = Len(sent) + 1
      /\ sent'[Len(sent')] = [event |-> events[next], time |-> clock]
      /\ Replay!TimesAreKept'
      /\ anchor - from >= begun - sent'[1].event.at
      /\ Replay!Played' = Replay!Played \cup {Replay!Event.finger}
  BY <1>1, OneMoreSent
<1>4. /\ next \in 1 .. Len(events) /\ Len(events) \in Nat /\ Replay!Event.finger \in Fingers
      /\ begun # Replay!NotYet /\ tooLate = 0
      /\ \A j, k \in 1 .. Len(events) : j < k => events[j].at <= events[k].at
  BY <1>1, RecordedEvents DEF ReplayIInv, ReplayTypes, Awaited, LastOne
<1>5. ReplayTypes'
  BY <1>1, <1>2, <1>3, <1>4, SMTT(60) DEF ReplayIInv, ReplayTypes, Replay!After
<1>6. Awaited' /\ LastOne'
  BY <1>1, <1>2, <1>4 DEF ReplayIInv, Awaited, LastOne, ReplayTypes
<1>7. FingersHeld'
  BY <1>1, <1>2, <1>3 DEF ReplayIInv, FingersHeld, Replay!After
<1>8. ClockIsSet'
  BY <1>1, <1>2, <1>3, <1>4 DEF ClockIsSet
<1>9. SentInOrder'
  <2>1. sent'[Len(sent')].time = clock /\ sent'[Len(sent')].event.at = events[next].at
    BY <1>3
  <2>2. clock \in Nat /\ plays' \in {"check", "clean"}
        /\ (plays' = "check" => next' = next + 1)
    BY <1>2, ReplayAssumption DEF ReplayIInv, ReplayTypes
  <2> QED BY <2>1, <2>2, <1>1, <1>4 DEF SentInOrder
<1> QED BY <1>3, <1>5, <1>6, <1>7, <1>8, <1>9 DEF ReplayIInv

LEMMA ReleaseStep ==
    ASSUME ReplayIInv, NEW finger \in Fingers, Replay!Release(finger)
    PROVE  ReplayIInv'
<1>1. /\ plays = "clean" /\ finger \in mineDown /\ mineDown' = mineDown \ {finger}
      /\ \/ down' = down \ {finger} /\ stuck' = stuck
         \/ down' = down /\ stuck' = stuck \cup {finger}
      /\ UNCHANGED <<events, from, held, next, plays, anchor, clock, halt, lost, begun, sent,
                     tooLate>>
  BY DEF Replay!Release
<1>2. FingersHeld'
  BY <1>1 DEF ReplayIInv, FingersHeld, Replay!Played
<1>3. ReplayTypes' /\ Awaited' /\ LastOne' /\ ClockIsSet' /\ SentInOrder' /\ Replay!TimesAreKept'
  BY <1>1 DEF ReplayIInv, ReplayTypes, Awaited, LastOne, ClockIsSet, SentInOrder, Replay!TimesAreKept
<1> QED BY <1>2, <1>3 DEF ReplayIInv

LEMMA PassStep ==
    ASSUME ReplayIInv, NEW t \in 1 .. Slow, Replay!Pass(t)
    PROVE  ReplayIInv'
<1>1. /\ clock + t <= Horizon /\ clock' = clock + t /\ t \in Nat
      /\ UNCHANGED <<events, from, held, next, plays, anchor, mineDown, halt, down, failed, lost,
                     stuck, begun, sent, tooLate>>
  BY ReplayAssumption DEF Replay!Pass
<1>2. FingersHeld'
  BY <1>1, QuietSteps DEF ReplayIInv, FingersHeld
<1>3. clock' >= clock /\ clock \in Nat /\ clock' \in 0 .. Horizon
  BY <1>1, ReplayAssumption DEF ReplayIInv, ReplayTypes
<1>4. ReplayTypes' /\ Awaited' /\ LastOne' /\ Replay!TimesAreKept'
  BY <1>1, <1>3
     DEF ReplayIInv, ReplayTypes, Awaited, LastOne, Replay!TimesAreKept, Replay!Event
<1>5. ClockIsSet'
  <2>1. plays = "send" => Replay!Due \in Int
    BY RecordedEvents, SMTT(60) DEF ReplayIInv, ReplayTypes, Awaited, Replay!Due, Replay!Event, Events
  <2> QED BY <1>1, <1>3, <2>1 DEF ReplayIInv, ClockIsSet, Replay!Due, Replay!Event
<1>6. SentInOrder'
  <2>1. sent # <<>> => sent[Len(sent)].time \in Nat
    BY SentTimes DEF ReplayIInv, ReplayTypes
  <2> QED BY <1>1, <1>3, <2>1 DEF ReplayIInv, SentInOrder
<1> QED BY <1>2, <1>4, <1>5, <1>6 DEF ReplayIInv

LEMMA NextReplayIInv ==
    ASSUME ReplayIInv, [Replay!Next]_(Replay!vars)
    PROVE  ReplayIInv'
<1>1. CASE Replay!Stop
  <2>1. /\ halt' = TRUE /\ plays # "over"
        /\ UNCHANGED <<events, from, held, next, plays, anchor, mineDown, clock, down, failed, lost,
                       stuck, begun, sent, tooLate>>
    BY <1>1 DEF Replay!Stop
  <2>2. FingersHeld'
    BY <2>1, QuietSteps
  <2>3. ReplayTypes' /\ Awaited' /\ LastOne' /\ ClockIsSet' /\ SentInOrder' /\ Replay!TimesAreKept'
    BY <2>1 DEF ReplayIInv, ReplayTypes, Awaited, LastOne, ClockIsSet, SentInOrder,
                Replay!TimesAreKept, Replay!Event, Replay!Due
  <2> QED BY <2>2, <2>3 DEF ReplayIInv
<1>2. CASE UNCHANGED Replay!vars
  BY <1>2 DEF Replay!vars, ReplayIInv, ReplayTypes, Awaited, FingersHeld, LastOne, ClockIsSet, SentInOrder,
              Replay!TimesAreKept, Replay!Event, Replay!Due, Replay!Played
<1> QED BY <1>1, <1>2, SkipStep, CheckStep, EndSteps, WaitedStep, SendStep, ReleaseStep, PassStep
        DEF Replay!Next

\* The inductive invariant of the replay: which fingers it has to bring up, and how the clock of
\* the recording stands to the device's (replay, AutoScriptor/core/api.py).
THEOREM ReplayInvariant == Replay!Spec => []ReplayIInv
<1>1. Replay!Init => ReplayIInv
  BY InitReplayIInv
<1>2. ReplayIInv /\ [Replay!Next]_(Replay!vars) => ReplayIInv'
  BY NextReplayIInv
<1> QED BY <1>1, <1>2, PTL DEF Replay!Spec

\* However a replay ends, its fingers come up unless the device will not; no event is sent before
\* its time or out of order; and one at most after a stop: for any recordings, any fingers the
\* task holds, and any bounds on delays and failures.
THEOREM ReplaySound == Replay!Spec => []Replay!ReplayIsSound
<1>1. ReplayIInv => Replay!ReplayIsSound
  BY DEF ReplayIInv, ReplayTypes, FingersHeld, LastOne, Replay!ReplayIsSound, Replay!TypeOK,
         Replay!FingersComeUp, Replay!StopIsHeard
<1> QED BY <1>1, ReplayInvariant, PTL

-----------------------------------------------------------------------------
(* What a task sees and presses (Screen).                                  *)

Clicks == {"click", "clickAll"}
Polls == {"colour", "signal", "extract"}
ScreenLabels ==
    {"idle", "over", "look", "found", "poll", "gone", "aim", "press", "rest", "done", "until"}
ScreenAnswers == {"none", "found", "gone", "clicked", "absent", "timeout", "cancelled"}

\* What the last look came to: what was looked for, anything, the box to click, the column.
Hit == Screens!Wanted(boxesSeen)
Something == Screens!First(boxesSeen)
Target == Screens!Pick(boxesSeen)
Column == Screens!Sorted(boxesSeen[1])

ScreenTypes ==
    /\ call \in Screens!Calls \cup {Screens!None} /\ looks \in ScreenLabels
    /\ again \in BOOLEAN /\ stop \in BOOLEAN /\ unsure \in BOOLEAN
    /\ first \in BOOLEAN /\ retry \in BOOLEAN
    /\ limit \in Nat /\ since \in Nat /\ ticks \in Nat /\ since0 \in Nat
    /\ after \in Nat /\ overdue \in Nat
    /\ presses \in Seq(Spots) /\ pressed \in Seq(Spots) /\ boxesSeen \in Seq(SUBSET Spots)
    /\ \A i \in 1 .. Len(boxesSeen) : IsFiniteSet(boxesSeen[i])
    /\ answer \in ScreenAnswers

\* Where each kind of call may be, and when it is in its second loop.
Stages ==
    /\ looks # "idle" => call \in Screens!Calls
    /\ looks \in {"look", "found"} => call.what \notin Polls
    /\ looks = "poll" => call.what \in Polls
    /\ looks = "gone" => call.what = "disappear"
    /\ looks \in {"aim", "press", "rest"} => call.what \in Clicks \cup {"swipe"}
    /\ looks \in {"done", "until"} => call.what \in Clicks /\ call.until
    /\ again /\ call.what \in Clicks => call.until
    /\ again => call.what \notin {"appear", "match"} \cup Polls
    /\ looks = "over" <=> answer # "none"

\* Between two calls nothing is left of the last.
AtRest ==
    looks = "idle" =>
        /\ call = Screens!None /\ ~again /\ since0 = 0 /\ limit = 0 /\ since = 0 /\ ticks = 0
        /\ ~first /\ ~retry /\ presses = <<>> /\ pressed = <<>> /\ boxesSeen = <<>>
        /\ ~unsure /\ overdue = 0

\* A locate() that goes on has not found what it wants, or not twice; one that is over has.
SeenSoFar ==
    /\ looks = "look" /\ ~first => ~Hit \/ (unsure /\ Screens!Careful)
    /\ looks = "found" => Hit /\ ~unsure /\ Len(boxesSeen) = Len(call.wish.of)
    /\ looks \in {"aim", "press", "rest"} /\ call.what \in Clicks =>
          /\ ~unsure /\ Something
          /\ call.what = "clickAll" => Len(boxesSeen) = 1

\* What has been pressed and is still to be pressed is what was aimed at, in its order.
AimedAt ==
    IF call.what = "click"
    THEN /\ Len(pressed) + Len(presses) = call.times
         /\ \A k \in 1 .. Len(pressed) : pressed[k] = Target
         /\ \A k \in 1 .. Len(presses) : presses[k] = Target
    ELSE pressed \o presses \in Column
Pressing ==
    /\ looks \in {"look", "found"} /\ call.what \in Clicks \cup {"appear", "match"} => pressed = <<>>
    /\ looks \in {"look", "found", "done", "until"} /\ call.what \in Clicks => presses = <<>>
    /\ looks \in {"aim", "press"} /\ call.what \in Clicks => presses # <<>>
    /\ looks \in {"aim", "press", "rest"} /\ call.what \in Clicks => AimedAt

\* How long a locate() has gone on: a look beyond its time is its last.
LooksOn ==
    /\ overdue <= 1
    /\ looks = "look" =>
          /\ since <= ticks /\ ticks <= since + limit + 1 + overdue
          /\ first => ticks = since /\ overdue = 0
          /\ overdue = 1 => ~first /\ ~retry /\ ticks >= since + limit
    /\ looks = "found" => ticks <= since + limit + 2
    /\ looks = "poll" =>
          /\ since = 0 /\ ticks <= limit
          /\ call.what = "extract" => ticks = since0 /\ since0 < limit /\ limit = Retries

\* The first locate() of a call has the whole of its time.
HasItsTime ==
    looks = "look" /\ ~again /\ call.what \in Clicks \cup {"appear", "match"} =>
        /\ since = 0
        /\ limit = IF call.what \in Clicks THEN Screens!Patience(call) ELSE call.timeout

LastPress == after = 0 \/ (after = 1 /\ stop /\ looks \in {"rest", "over", "idle"})
InTheEnd == call.until /\ answer = "timeout" /\ again => ticks > call.timeout

\* What a call answers is so: AnswersAreTrue, of what the last look came to.
Told ==
    LET alone == looks = "over" /\ ~call.until IN
    /\ answer = "found" /\ call.what = "appear" => Screens!Sought.all \/ Something
    /\ answer = "found" /\ call.what = "match" => Hit
    /\ answer = "absent" /\ call.what \in Polls \ {"extract"} => ticks >= limit
    /\ answer = "absent" /\ call.what = "extract" => since0 = Retries \/ call.ifExist
    /\ answer = "timeout" /\ call.what = "signal" => ticks > call.timeout
    /\ answer = "gone" => ~Something
    /\ alone /\ answer \in {"timeout", "absent"} /\ call.what \in Clicks \cup {"appear", "match"} =>
           /\ pressed = <<>> /\ (unsure \/ ~Hit)
           /\ ticks >= (IF call.what \in Clicks THEN Screens!Patience(call) ELSE call.timeout)
    /\ answer = "timeout" /\ call.what = "disappear" => ticks - since0 > call.timeout
    /\ alone /\ answer = "clicked" /\ call.what = "click" =>
           pressed = [i \in 1 .. call.times |-> Target]
    /\ answer = "clicked" /\ call.what = "clickAll" =>
           /\ Screens!ToSet(pressed) = boxesSeen[1]
           /\ \A i, j \in DOMAIN pressed : i < j => pressed[i] < pressed[j]

ScreenIInv ==
    /\ ScreenTypes /\ Stages /\ AtRest /\ SeenSoFar /\ Pressing /\ LooksOn /\ HasItsTime
    /\ LastPress /\ InTheEnd /\ Told

-----------------------------------------------------------------------------
\* A set of spots that is not empty has a first one.
LEMMA LowestIsOne ==
    ASSUME NEW S \in SUBSET Nat, S # {}
    PROVE  Screens!Lowest(S) \in S
<1>1. PICK i \in S : \A j \in S : <<j, i>> \notin OpToRel(<, Nat)
  BY NatLessThanWellFounded, WFMin
<1>2. \A j \in S : i \in Nat /\ j \in Nat /\ i <= j
  <2> SUFFICES ASSUME NEW j \in S PROVE i \in Nat /\ j \in Nat /\ i <= j
    OBVIOUS
  <2>1. i \in Nat /\ j \in Nat
    OBVIOUS
  <2>2. ~(j < i)
    BY <1>1, <2>1 DEF OpToRel
  <2> QED BY <2>1, <2>2
<1> QED BY <1>2 DEF Screens!Lowest

LEMMA CallFacts ==
    ASSUME NEW c \in Screens!Calls
    PROVE  /\ c.what \in {"appear", "disappear", "match"} \cup Polls \cup Clicks \cup {"swipe"}
           /\ c.wish \in [of : Seq(Targets), all : BOOLEAN]
           /\ c.timeout \in Nat /\ c.times \in 1 .. 2 /\ c.ifExist \in BOOLEAN
           /\ c.until \in BOOLEAN /\ c.stable \in BOOLEAN
           /\ c.until => c.what = "click"
           /\ c.stable => c.what \in Clicks
           /\ c.what = "clickAll" => Len(c.wish.of) = 1
           /\ c.what = "swipe" => ~c.wish.all
BY ScreenAssumption
   DEF Screens!Calls, Screens!Waits, Screens!Polls, Screens!Clicks, Polls, Clicks

\* The box that is picked is a box that was seen.
LEMMA PickIsSeen ==
    ASSUME boxesSeen \in Seq(SUBSET Spots), Something
    PROVE  Target \in Spots /\ \E i \in 1 .. Len(boxesSeen) : Target \in boxesSeen[i]
<1> DEFINE Ones == {j \in DOMAIN boxesSeen : boxesSeen[j] # {}}
<1>1. Ones \in SUBSET Nat /\ Ones # {}
  BY DEF Something, Screens!First
<1>2. PICK i \in Ones : i = Screens!Lowest(Ones)
  BY <1>1, LowestIsOne
<1>3. i \in 1 .. Len(boxesSeen) /\ boxesSeen[i] # {} /\ boxesSeen[i] \in SUBSET Spots
  <2>1. i \in DOMAIN boxesSeen /\ boxesSeen[i] # {}
    BY <1>2
  <2>2. DOMAIN boxesSeen = 1 .. Len(boxesSeen)
    OBVIOUS
  <2> QED BY <2>1, <2>2
<1>4. boxesSeen[i] \in SUBSET Nat
  BY <1>3, ScreenAssumption
<1>5. Target = Screens!Lowest(boxesSeen[i])
  BY <1>2 DEF Target, Screens!Pick
<1> QED BY <1>3, <1>4, <1>5, LowestIsOne

LEMMA HowMany == \A S : Screens!Cardinality(S) = Cardinality(S)
BY DEF Screens!Cardinality, Cardinality

\* The spots in their order are all of them, and there is one if the set has one.
LEMMA SortedIsAll ==
    ASSUME NEW S, S \subseteq Spots, IsFiniteSet(S), NEW s \in Screens!Sorted(S)
    PROVE  /\ s \in Seq(Spots) /\ Len(s) = Cardinality(S) /\ (S # {} => s # <<>>)
           /\ {s[k] : k \in 1 .. Len(s)} = S
           /\ \A j, k \in 1 .. Len(s) : j < k => s[j] < s[k]
<1>1. /\ s \in [1 .. Cardinality(S) -> S] /\ Cardinality(S) \in Nat
      /\ \A j, k \in 1 .. Cardinality(S) : j < k => s[j] < s[k]
  <2>1. s \in [1 .. Cardinality(S) -> S]
    BY HowMany DEF Screens!Sorted
  <2>2. \A j, k \in DOMAIN s : j < k => s[j] < s[k]
    BY Zenon DEF Screens!Sorted
  <2> QED BY <2>1, <2>2, FS_CardinalityType
<1>2. s \in Seq(Spots) /\ Len(s) = Cardinality(S)
  BY <1>1
<1>3. S # {} => Cardinality(S) # 0
  BY FS_EmptySet
<1>4. s \in Injection(1 .. Cardinality(S), S)
  <2>1. \A j, k \in 1 .. Cardinality(S) : s[j] = s[k] => j = k
    <3> SUFFICES ASSUME NEW j \in 1 .. Cardinality(S), NEW k \in 1 .. Cardinality(S), j # k
                 PROVE  s[j] # s[k]
      OBVIOUS
    <3>1. s[j] \in Nat /\ s[k] \in Nat
      BY <1>1, ScreenAssumption
    <3>2. s[j] < s[k] \/ s[k] < s[j]
      BY <1>1
    <3> QED BY <3>1, <3>2
  <2> QED BY <1>1, <2>1 DEF Injection, IsInjective
<1>5. Cardinality(1 .. Cardinality(S)) = Cardinality(S)
  BY <1>1, FS_Interval
<1>6. s \in Surjection(1 .. Cardinality(S), S)
  BY <1>4, <1>5, FS_Injection
<1> QED BY <1>1, <1>2, <1>3, <1>6 DEF Surjection

\* The same boxes for the same call come to the same.
LEMMA SameSight ==
    ASSUME UNCHANGED <<call, boxesSeen>>
    PROVE  Hit' = Hit /\ Something' = Something /\ Target' = Target /\ Column' = Column
BY DEF Hit, Something, Target, Column, Screens!Wanted, Screens!First, Screens!Full, Screens!Sought,
       Screens!Pick, Screens!Lowest, Screens!Sorted

LEMMA SameAim ==
    ASSUME UNCHANGED <<call, boxesSeen, pressed, presses>>
    PROVE  AimedAt' = AimedAt
BY SameSight DEF AimedAt

LEMMA NoAnswerYet == ASSUME answer' = "none" PROVE Told' /\ InTheEnd'
BY DEF Told, InTheEnd

\* A call that is over has only its answer to be judged by.
LEMMA CallEnds ==
    ASSUME ScreenIInv, ScreenTypes', looks # "idle", looks' = "over", answer' # "none",
           UNCHANGED <<call, again, overdue, stop, after>>,
           InTheEnd', Told'
    PROVE  ScreenIInv'
<1>1. Stages'
  BY DEF ScreenIInv, Stages
<1>2. AtRest' /\ SeenSoFar' /\ Pressing' /\ LooksOn' /\ HasItsTime' /\ LastPress'
  BY DEF ScreenIInv, AtRest, SeenSoFar, Pressing, LooksOn, HasItsTime, LastPress
<1> QED BY <1>1, <1>2 DEF ScreenIInv

LEMMA InitScreenIInv == Screens!Init => ScreenIInv
<1> SUFFICES ASSUME Screens!Init PROVE ScreenIInv
  OBVIOUS
<1>1. ScreenTypes
  <2>1. boxesSeen \in Seq(SUBSET Spots) /\ \A i \in 1 .. Len(boxesSeen) : IsFiniteSet(boxesSeen[i])
    BY DEF Screens!Init
  <2>2. presses \in Seq(Spots) /\ pressed \in Seq(Spots)
    BY DEF Screens!Init
  <2> QED BY <2>1, <2>2 DEF Screens!Init, ScreenTypes, ScreenLabels, ScreenAnswers
<1>2. /\ Stages /\ AtRest /\ SeenSoFar /\ Pressing /\ LooksOn /\ HasItsTime /\ LastPress
  BY DEF Screens!Init, Stages, AtRest, SeenSoFar, Pressing, LooksOn, HasItsTime, LastPress,
         Screens!None
<1>3. InTheEnd /\ Told
  BY DEF Screens!Init, InTheEnd, Told
<1> QED BY <1>1, <1>2, <1>3 DEF ScreenIInv

\* Before its end a call has no answer; a call is one that may be made.
LEMMA InACall ==
    ASSUME ScreenIInv
    PROVE  /\ looks # "over" => answer = "none"
           /\ looks # "idle" => call \in Screens!Calls
BY DEF ScreenIInv, Stages

LEMMA StopStep == ASSUME ScreenIInv, Screens!Stop PROVE ScreenIInv'
<1> USE DEF Screens!Stop, Screens!seekVars
<1>1. ScreenTypes'
  BY DEF ScreenIInv, ScreenTypes
<1>2. Hit' = Hit /\ Something' = Something /\ Target' = Target /\ Column' = Column /\ AimedAt' = AimedAt
  BY SameSight, SameAim
<1>3. UNCHANGED <<Screens!Careful, Screens!Sought, Screens!Patience(call)>>
  BY DEF Screens!Careful, Screens!Sought, Screens!Patience
<1>4. Stages' /\ AtRest' /\ LooksOn' /\ HasItsTime' /\ LastPress' /\ InTheEnd'
  BY <1>3 DEF ScreenIInv, Stages, AtRest, LooksOn, HasItsTime, LastPress, InTheEnd
<1>5. SeenSoFar' /\ Pressing'
  BY <1>2, <1>3 DEF ScreenIInv, SeenSoFar, Pressing
<1>6. Told'
  BY <1>2, <1>3 DEF ScreenIInv, Told, Screens!ToSet
<1> QED BY <1>1, <1>4, <1>5, <1>6 DEF ScreenIInv

LEMMA NewTaskStep == ASSUME ScreenIInv, Screens!NewTask PROVE ScreenIInv'
<1> USE DEF Screens!NewTask, Screens!seekVars
<1>1. ScreenTypes'
  BY DEF ScreenIInv, ScreenTypes
<1>2. answer' = "none" /\ looks' = "idle"
  BY InACall
<1>3. Stages' /\ AtRest' /\ LooksOn' /\ HasItsTime' /\ LastPress'
  BY DEF ScreenIInv, Stages, AtRest, LooksOn, HasItsTime, LastPress
<1>4. SeenSoFar' /\ Pressing'
  BY <1>2 DEF SeenSoFar, Pressing
<1> QED BY <1>1, <1>2, <1>3, <1>4, NoAnswerYet DEF ScreenIInv

LEMMA ReturnStep == ASSUME ScreenIInv, Screens!Return PROVE ScreenIInv'
<1> USE DEF Screens!Return
<1>1. ScreenTypes'
  <2>1. boxesSeen' = <<>> /\ presses' = <<>> /\ pressed' = <<>>
    OBVIOUS
  <2>2. boxesSeen' \in Seq(SUBSET Spots)
        /\ \A i \in 1 .. Len(boxesSeen') : IsFiniteSet(boxesSeen'[i])
    BY <2>1
  <2>3. presses' \in Seq(Spots) /\ pressed' \in Seq(Spots)
    BY <2>1
  <2>4. looks' = "idle" /\ answer' = "none" /\ call' = Screens!None /\ ~again' /\ ~first' /\ ~retry'
        /\ limit' = 0 /\ since' = 0 /\ since0' = 0 /\ ticks' = 0 /\ overdue' = 0 /\ ~unsure'
    OBVIOUS
  <2>5. again' \in BOOLEAN /\ first' \in BOOLEAN /\ retry' \in BOOLEAN /\ unsure' \in BOOLEAN
    OBVIOUS
  <2>6. stop' \in BOOLEAN /\ after' \in Nat
    BY DEF ScreenIInv, ScreenTypes
  <2> HIDE DEF Screens!Return
  <2> QED BY <2>2, <2>3, <2>4, <2>5, <2>6 DEF ScreenTypes, ScreenLabels, ScreenAnswers
<1>2. answer' = "none" /\ looks' = "idle"
  OBVIOUS
<1>3. Stages' /\ AtRest' /\ LooksOn' /\ HasItsTime' /\ LastPress'
  BY DEF ScreenIInv, Stages, AtRest, LooksOn, HasItsTime, LastPress, Screens!None
<1>4. SeenSoFar' /\ Pressing'
  BY <1>2 DEF SeenSoFar, Pressing
<1> QED BY <1>1, <1>2, <1>3, <1>4, NoAnswerYet DEF ScreenIInv

\* A call that is cancelled has nothing to be judged by.
LEMMA StoppedStep == ASSUME ScreenIInv, Screens!Stopped PROVE ScreenIInv'
<1> USE DEF Screens!Stopped, Screens!seekVars, Screens!Answer
<1>1. ScreenTypes'
  BY DEF ScreenIInv, ScreenTypes, ScreenLabels, ScreenAnswers
<1>2. Told' /\ InTheEnd'
  BY DEF Told, InTheEnd
<1>3. looks # "idle" /\ looks' = "over" /\ answer' # "none"
  OBVIOUS
<1> QED BY <1>1, <1>2, <1>3, CallEnds

LEMMA AppearedStep == ASSUME ScreenIInv, Screens!Appeared PROVE ScreenIInv'
<1> USE DEF Screens!Appeared, Screens!seekVars, Screens!Answer
<1>1. ScreenTypes'
  BY DEF ScreenIInv, ScreenTypes, ScreenLabels, ScreenAnswers
<1>2. Hit' = Hit /\ Something' = Something /\ Screens!Sought' = Screens!Sought
  BY SameSight DEF Screens!Sought
<1>3. Hit
  BY DEF ScreenIInv, SeenSoFar
<1>4. Screens!Sought.all \/ Something
  BY <1>3 DEF Hit, Something, Screens!Wanted
<1>5. Told' /\ InTheEnd'
  BY <1>2, <1>3, <1>4 DEF Told, InTheEnd, Clicks
<1> QED BY <1>1, <1>5, CallEnds

LEMMA BeginStep == ASSUME ScreenIInv, NEW c \in Screens!Calls, Screens!Begin(c) PROVE ScreenIInv'
<1> USE DEF Screens!Begin, Screens!seekVars, Screens!Answer, Screens!Seek
<1>1. AtRest /\ looks = "idle" /\ answer = "none" /\ ScreenTypes /\ LastPress
  BY InACall DEF ScreenIInv
<1>2. presses = <<>> /\ pressed = <<>> /\ boxesSeen = <<>> /\ ~again /\ since0 = 0 /\ since = 0
      /\ overdue = 0 /\ ~first
  BY <1>1 DEF AtRest
<1>a. c.timeout \in Nat /\ c.times \in Nat /\ Screens!Patience(c) \in Nat
  BY CallFacts, ScreenAssumption DEF Screens!Patience
<1>3. ScreenTypes'
  <2>1. call' \in Screens!Calls /\ looks' \in ScreenLabels /\ answer' \in ScreenAnswers
    BY <1>1 DEF ScreenTypes, ScreenLabels, ScreenAnswers
  <2>2. limit' \in Nat /\ since' \in Nat /\ ticks' = 0 /\ overdue' \in Nat
        /\ first' \in BOOLEAN /\ retry' \in BOOLEAN
    <3>1. Grace \in Nat /\ Retries \in Nat /\ limit \in Nat /\ since \in Nat /\ overdue \in Nat
      BY <1>1, ScreenAssumption DEF ScreenTypes
    <3>2. ticks' = 0 /\ since' \in {since, 0} /\ overdue' \in {overdue, 0}
          /\ first' \in {first, TRUE} /\ retry' \in {retry, FALSE}
      OBVIOUS
    <3>3. limit' \in {limit, Grace, Screens!Patience(c), c.timeout, Retries, c.times}
      OBVIOUS
    <3>4. first \in BOOLEAN /\ retry \in BOOLEAN
      BY <1>1 DEF ScreenTypes
    <3> HIDE DEF Screens!Begin
    <3>5. limit' \in Nat /\ since' \in Nat /\ overdue' \in Nat
      BY <1>a, <3>1, <3>2, <3>3
    <3>6. first' \in BOOLEAN /\ retry' \in BOOLEAN
      BY Zenon, <3>2, <3>4
    <3> QED BY <3>2, <3>5, <3>6
  <2> QED BY <1>1, <2>1, <2>2 DEF ScreenTypes
<1>c. call' = c /\ call \in Screens!Calls \cup {Screens!None}
  BY <1>1 DEF ScreenTypes
<1>4. CASE stop
  <2>1. looks' = "over" /\ answer' = "cancelled" /\ ~again'
    BY <1>2, <1>4
  <2>2. Stages' /\ AtRest' /\ SeenSoFar' /\ Pressing' /\ HasItsTime' /\ LooksOn'
    BY <1>2, <1>c, <2>1 DEF Stages, AtRest, SeenSoFar, Pressing, HasItsTime, LooksOn
  <2>3. LastPress'
    BY <1>1, <2>1 DEF LastPress
  <2>4. Told' /\ InTheEnd'
    BY <2>1 DEF Told, InTheEnd
  <2> QED BY <1>3, <2>2, <2>3, <2>4 DEF ScreenIInv
<1>5. CASE ~stop
  <2>1. looks' = (IF c.what \in Polls THEN "poll" ELSE "look") /\ answer' = "none" /\ ~again'
    BY <1>1, <1>2, <1>5 DEF Polls, Screens!Polls
  <2>2. after' = 0
    BY <1>1, <1>5 DEF LastPress
  <2>3. Stages' /\ AtRest'
    BY <1>c, <2>1 DEF Stages, AtRest
  <2>4. SeenSoFar' /\ Pressing'
    BY <1>1, <1>2, <2>1, <1>5 DEF SeenSoFar, Pressing, Polls, Screens!Polls
  <2>5. CASE c.what \in Polls
    <3>1. since' = 0 /\ ticks' = 0 /\ since0' = 0 /\ overdue' = 0 /\ limit' \in Nat
          /\ (c.what = "extract" => limit' = Retries)
      BY <1>2, <1>3, <1>5, <2>5 DEF Polls, Screens!Polls, ScreenTypes
    <3>2. LooksOn' /\ HasItsTime'
      BY <1>c, <2>1, <2>5, <3>1, ScreenAssumption DEF LooksOn, HasItsTime
    <3> QED BY <1>3, <2>1, <2>2, <2>3, <2>4, <3>2, NoAnswerYet DEF ScreenIInv, LastPress
  <2>6. CASE c.what \notin Polls
    <3>1. /\ since' = 0 /\ ticks' = 0 /\ overdue' = 0 /\ limit' \in Nat /\ first'
          /\ limit' = IF c.what \in {"disappear", "swipe"} THEN Grace
                      ELSE IF c.what \in Screens!Clicks THEN Screens!Patience(c) ELSE c.timeout
      BY <1>3, <1>5, <2>6 DEF Polls, Screens!Polls, ScreenTypes
    <3>2. LooksOn'
      BY <1>c, <2>1, <2>6, <3>1 DEF LooksOn
    <3>3. Screens!Patience(call)' = Screens!Patience(c)
      BY <1>c DEF Screens!Patience
    <3>4. HasItsTime'
      BY <1>c, <3>1, <3>3 DEF HasItsTime, Clicks, Screens!Clicks
    <3> QED BY <1>3, <2>1, <2>2, <2>3, <2>4, <3>2, <3>4, NoAnswerYet DEF ScreenIInv, LastPress
  <2> QED BY <2>5, <2>6
<1> QED BY <1>4, <1>5

\* What the loop of locate() begins with, and what a step leaves alone of it.
SeekTypes == limit \in Nat /\ since \in Nat /\ overdue \in Nat /\ first \in BOOLEAN /\ retry \in BOOLEAN

LEMMA SeekFacts ==
    ASSUME NEW n \in Nat, ticks' \in Nat, Screens!Seek(n)
    PROVE  SeekTypes'
BY DEF Screens!Seek, SeekTypes

LEMMA SeekStays ==
    ASSUME ScreenTypes, UNCHANGED <<Screens!seekVars, overdue>>
    PROVE  SeekTypes'
BY DEF ScreenTypes, SeekTypes, Screens!seekVars

LEMMA JustBegun ==
    ASSUME NEW t \in Nat, NEW l \in Nat, NEW o \in Nat
    PROVE  t <= t /\ t <= t + l + 1 + o
OBVIOUS

LEMMA StillThereStep == ASSUME ScreenIInv, Screens!StillThere PROVE ScreenIInv'
<1>1. ScreenTypes'
  <2>1. ticks' = ticks /\ ticks \in Nat /\ ScreenTypes
    BY DEF ScreenIInv, ScreenTypes, Screens!StillThere
  <2>2. SeekTypes'
    BY <2>1, SeekFacts, SeekStays DEF Screens!StillThere
  <2> QED BY <2>1, <2>2
          DEF Screens!StillThere, Screens!Seek, SeekTypes, ScreenTypes, ScreenLabels
<1> USE DEF Screens!StillThere, Screens!seekVars, Screens!Seek
<1>2. answer' = "none" /\ looks' \in {"gone", "look"} /\ call' = call /\ call.what = "disappear"
  BY InACall
<1>3. Stages' /\ AtRest'
  BY <1>2 DEF ScreenIInv, Stages, AtRest, Polls, Clicks
<1>4. SeenSoFar' /\ Pressing' /\ HasItsTime'
  BY <1>2 DEF SeenSoFar, Pressing, HasItsTime, Clicks
<1>5. LooksOn'
  BY <1>2 DEF ScreenIInv, ScreenTypes, LooksOn
<1>6. LastPress'
  BY DEF ScreenIInv, LastPress
<1> QED BY <1>1, <1>2, <1>3, <1>4, <1>5, <1>6, NoAnswerYet DEF ScreenIInv

LEMMA WaitStep == ASSUME ScreenIInv, Screens!Wait PROVE ScreenIInv'
<1>1. ScreenTypes'
  <2>1. ticks' \in Nat /\ ScreenTypes
    BY DEF ScreenIInv, ScreenTypes, Screens!Wait
  <2>2. SeekTypes'
    BY <2>1, SeekFacts, SeekStays DEF Screens!Wait
  <2> QED BY <2>1, <2>2
          DEF Screens!Wait, Screens!Seek, Screens!Answer, SeekTypes, ScreenTypes, ScreenLabels,
              ScreenAnswers
<1> USE DEF Screens!Wait, Screens!seekVars, Screens!Seek, Screens!Answer
<1>2. call' = call /\ call.what = "disappear" /\ again' = again
  BY DEF ScreenIInv, Stages
<1>3. CASE looks' = "over"
  <2>1. answer' = "timeout" /\ ticks - since0 > call.timeout /\ ticks' = ticks /\ overdue' = overdue
    BY <1>3
  <2>2. Told' /\ InTheEnd'
    <3>1. ~call.until
      BY <1>2, InACall, CallFacts
    <3> QED BY <1>2, <2>1, <3>1 DEF Told, InTheEnd, Clicks
  <2> QED BY <1>1, <1>2, <1>3, <2>1, <2>2, CallEnds
<1>4. CASE looks' = "look"
  <2>1. answer' = "none"
    BY <1>4, InACall
  <2>2. Stages' /\ AtRest'
    BY <1>2, <1>4, <2>1 DEF ScreenIInv, Stages, AtRest, Polls, Clicks
  <2>3. SeenSoFar' /\ Pressing' /\ HasItsTime'
    BY <1>2, <1>4 DEF SeenSoFar, Pressing, HasItsTime, Clicks
  <2>4. LooksOn'
    BY <1>4 DEF ScreenIInv, ScreenTypes, LooksOn
  <2>5. LastPress'
    BY DEF ScreenIInv, LastPress
  <2> QED BY <1>1, <2>1, <2>2, <2>3, <2>4, <2>5, NoAnswerYet DEF ScreenIInv
<1> QED BY <1>3, <1>4

LEMMA AimedStep == ASSUME ScreenIInv, Screens!Aimed PROVE ScreenIInv'
<1> USE DEF Screens!Aimed, Screens!seekVars
<1>1. ScreenTypes'
  BY DEF ScreenIInv, ScreenTypes, ScreenLabels
<1>2. answer' = "none"
  BY InACall
<1>3. Stages' /\ AtRest' /\ LooksOn' /\ HasItsTime' /\ LastPress'
  BY <1>2 DEF ScreenIInv, Stages, AtRest, LooksOn, HasItsTime, LastPress
<1>4. SeenSoFar' /\ Pressing'
  BY SameSight, SameAim DEF ScreenIInv, SeenSoFar, Pressing
<1> QED BY <1>1, <1>2, <1>3, <1>4, NoAnswerYet DEF ScreenIInv

LEMMA DoneStep == ASSUME ScreenIInv, Screens!Done PROVE ScreenIInv'
<1> USE DEF Screens!Done, Screens!seekVars, Screens!Answer
<1>1. ScreenTypes'
  BY DEF ScreenIInv, ScreenTypes, ScreenLabels, ScreenAnswers
<1>2. call' = call /\ call.what \in Clicks /\ call.until
  BY DEF ScreenIInv, Stages
<1>3. CASE looks' = "over"
  <2>1. answer' = "timeout" /\ ticks' = ticks /\ ticks > call.timeout
    BY <1>3
  <2>2. Told' /\ InTheEnd'
    BY <1>2, <2>1 DEF Told, InTheEnd, Clicks
  <2> QED BY <1>1, <1>3, <2>1, <2>2, CallEnds
<1>4. CASE looks' = "until"
  <2>1. answer' = "none"
    BY <1>4, InACall
  <2>2. Stages' /\ AtRest' /\ LooksOn' /\ HasItsTime' /\ LastPress'
    BY <1>2, <1>4, <2>1 DEF ScreenIInv, Stages, AtRest, LooksOn, HasItsTime, LastPress
  <2>3. SeenSoFar' /\ Pressing'
    BY <1>2, <1>4 DEF ScreenIInv, SeenSoFar, Pressing
  <2> QED BY <1>1, <2>1, <2>2, <2>3, NoAnswerYet DEF ScreenIInv
<1> QED BY <1>3, <1>4

LEMMA UntilStep == ASSUME ScreenIInv, NEW holds, Screens!Until(holds) PROVE ScreenIInv'
<1>1. ScreenTypes'
  <2>1. pressed' \in Seq(Spots) /\ ticks' \in Nat /\ ticks' = ticks /\ ScreenTypes
    <3>1. pressed' = <<>>
      BY DEF Screens!Until
    <3> QED BY <3>1 DEF ScreenIInv, ScreenTypes, Screens!Until
  <2>2. SeekTypes'
    BY <2>1, SeekFacts, SeekStays DEF Screens!Until
  <2>3. looks' \in ScreenLabels /\ answer' \in ScreenAnswers /\ again' \in BOOLEAN
    BY <2>1 DEF Screens!Until, Screens!Answer, Screens!Seek, ScreenTypes, ScreenLabels, ScreenAnswers
  <2>4. UNCHANGED <<call, since0, presses, stop, boxesSeen, unsure, after>>
    BY DEF Screens!Until
  <2> QED BY <2>1, <2>2, <2>3, <2>4 DEF SeekTypes, ScreenTypes
<1> USE DEF Screens!Until, Screens!seekVars, Screens!Answer, Screens!Seek
<1>2. call' = call /\ call.what \in Clicks /\ call.until /\ call.what # "clickAll"
  BY InACall, CallFacts DEF ScreenIInv, Stages
<1>3. CASE looks' = "over"
  <2>1. answer' = "clicked" /\ overdue' = overdue /\ again' = again
    BY <1>3
  <2>2. Told' /\ InTheEnd'
    BY <1>2, <2>1 DEF Told, InTheEnd, Clicks
  <2> QED BY <1>1, <1>3, <2>1, <2>2, CallEnds
<1>4. CASE looks' = "look"
  <2>1. answer' = "none" /\ again'
    BY <1>4, InACall
  <2>2. Stages' /\ AtRest'
    BY <1>2, <1>4, <2>1 DEF ScreenIInv, Stages, AtRest, Polls, Clicks
  <2>3. SeenSoFar' /\ Pressing' /\ HasItsTime'
    BY <1>2, <1>4, <2>1 DEF ScreenIInv, SeenSoFar, Pressing, HasItsTime
  <2>4. LooksOn'
    BY <1>4 DEF ScreenIInv, ScreenTypes, LooksOn
  <2>5. LastPress'
    BY DEF ScreenIInv, LastPress
  <2> QED BY <1>1, <2>1, <2>2, <2>3, <2>4, <2>5, NoAnswerYet DEF ScreenIInv
<1> QED BY <1>3, <1>4

LEMMA ColourStep == ASSUME ScreenIInv, NEW is, Screens!Colour(is) PROVE ScreenIInv'
<1> USE DEF Screens!Colour, Screens!seekVars, Screens!Answer
<1>1. ScreenTypes'
  BY DEF ScreenIInv, ScreenTypes, ScreenLabels, ScreenAnswers
<1>2. call' = call /\ call.what = "colour"
  OBVIOUS
<1>3. CASE looks' = "over"
  <2>1. answer' \in {"found", "absent"} /\ (answer' = "absent" => ticks' >= limit)
    BY <1>3 DEF ScreenIInv, ScreenTypes
  <2>2. Told' /\ InTheEnd'
    BY <1>2, <2>1 DEF Told, InTheEnd, Clicks
  <2> QED BY <1>1, <1>3, <2>1, <2>2, CallEnds
<1>4. CASE looks' = "poll"
  <2>1. answer' = "none"
    BY <1>4, InACall
  <2>2. Stages' /\ AtRest' /\ SeenSoFar' /\ Pressing' /\ HasItsTime' /\ LastPress'
    BY <1>2, <1>4, <2>1
       DEF ScreenIInv, Stages, AtRest, SeenSoFar, Pressing, HasItsTime, LastPress
  <2>3. LooksOn'
    BY <1>2, <1>4 DEF ScreenIInv, ScreenTypes, LooksOn
  <2> QED BY <1>1, <2>1, <2>2, <2>3, NoAnswerYet DEF ScreenIInv
<1> QED BY <1>3, <1>4

LEMMA SignalStep == ASSUME ScreenIInv, NEW is, Screens!Signal(is) PROVE ScreenIInv'
<1> USE DEF Screens!Signal, Screens!seekVars, Screens!Answer
<1>1. ScreenTypes'
  BY DEF ScreenIInv, ScreenTypes, ScreenLabels, ScreenAnswers
<1>2. call' = call /\ call.what = "signal" /\ ~call.until
  BY InACall, CallFacts
<1>3. CASE looks' = "over"
  <2>1. /\ answer' \in {"found", "absent", "timeout"} /\ ticks' = ticks
        /\ answer' = "absent" => ticks >= limit
        /\ answer' = "timeout" => ticks > call.timeout
    BY <1>3
  <2>2. Told' /\ InTheEnd'
    BY <1>2, <2>1 DEF Told, InTheEnd, Clicks
  <2> QED BY <1>1, <1>3, <2>1, <2>2, CallEnds
<1>4. CASE looks' = "poll"
  <2>1. answer' = "none"
    BY <1>4, InACall
  <2>2. Stages' /\ AtRest' /\ SeenSoFar' /\ Pressing' /\ HasItsTime' /\ LastPress'
    BY <1>2, <1>4, <2>1
       DEF ScreenIInv, Stages, AtRest, SeenSoFar, Pressing, HasItsTime, LastPress
  <2>3. LooksOn'
    BY <1>2, <1>4 DEF ScreenIInv, ScreenTypes, LooksOn
  <2> QED BY <1>1, <2>1, <2>2, <2>3, NoAnswerYet DEF ScreenIInv
<1> QED BY <1>3, <1>4

LEMMA ExtractStep == ASSUME ScreenIInv, NEW read, Screens!Extract(read) PROVE ScreenIInv'
<1> USE DEF Screens!Extract, Screens!seekVars, Screens!Answer
<1>1. ScreenTypes'
  BY DEF ScreenIInv, ScreenTypes, ScreenLabels, ScreenAnswers
<1>2. call' = call /\ call.what = "extract" /\ ~call.until /\ limit = Retries
      /\ since0' <= limit /\ ticks' = since0'
  BY InACall, CallFacts DEF ScreenIInv, ScreenTypes, LooksOn
<1>3. CASE looks' = "over"
  <2>1. /\ answer' \in {"found", "absent"}
        /\ answer' = "absent" => call.ifExist \/ ~(since0' < limit)
    BY <1>3
  <2>2. answer' = "absent" => call.ifExist \/ since0' = Retries
    BY <1>1, <1>2, <2>1 DEF ScreenTypes
  <2>3. Told' /\ InTheEnd'
    BY <1>2, <2>1, <2>2 DEF Told, InTheEnd, Clicks, Polls
  <2> QED BY <1>1, <1>3, <2>1, <2>3, CallEnds
<1>4. CASE looks' = "poll"
  <2>1. answer' = "none" /\ since0' < limit
    BY <1>4, InACall
  <2>2. Stages' /\ AtRest' /\ SeenSoFar' /\ Pressing' /\ HasItsTime' /\ LastPress'
    BY <1>2, <1>4, <2>1
       DEF ScreenIInv, Stages, AtRest, SeenSoFar, Pressing, HasItsTime, LastPress
  <2>3. LooksOn'
    BY <1>2, <1>4, <2>1 DEF ScreenIInv, ScreenTypes, LooksOn
  <2> QED BY <1>1, <2>1, <2>2, <2>3, NoAnswerYet DEF ScreenIInv
<1> QED BY <1>3, <1>4

\* A locate() that gives up has not seen what it wants, or not twice, in the whole of its time.
LEMMA GivenUp ==
    ASSUME ScreenIInv, looks = "look", ~Screens!Goes
    PROVE  /\ ~Hit \/ (unsure /\ Screens!Careful)
           /\ call.what \in Clicks \cup {"appear", "match"} /\ ~again =>
                 /\ pressed = <<>>
                 /\ ticks >= IF call.what \in Clicks THEN Screens!Patience(call) ELSE call.timeout
<1>1. ~first /\ ~(ticks - since < limit)
  BY DEF Screens!Goes
<1>2. ~Hit \/ (unsure /\ Screens!Careful)
  BY <1>1 DEF ScreenIInv, SeenSoFar
<1>3. ASSUME call.what \in Clicks \cup {"appear", "match"}, ~again
      PROVE  /\ pressed = <<>>
             /\ ticks >= IF call.what \in Clicks THEN Screens!Patience(call) ELSE call.timeout
  <2>1. pressed = <<>>
    BY <1>3 DEF ScreenIInv, Pressing
  <2>2. since = 0 /\ limit = IF call.what \in Clicks THEN Screens!Patience(call) ELSE call.timeout
    BY <1>3 DEF ScreenIInv, HasItsTime
  <2>3. ticks >= limit
    BY <1>1, <2>2 DEF ScreenIInv, ScreenTypes
  <2> QED BY <2>1, <2>2, <2>3
<1> QED BY <1>2, <1>3

LEMMA MissedStep == ASSUME ScreenIInv, Screens!Missed PROVE ScreenIInv'
<1>1. ScreenTypes'
  <2>1. ticks' \in Nat /\ ticks' = ticks /\ ScreenTypes
    BY DEF ScreenIInv, ScreenTypes, Screens!Missed
  <2>2. SeekTypes'
    BY <2>1, SeekFacts, SeekStays DEF Screens!Missed
  <2>3. looks' \in ScreenLabels /\ answer' \in ScreenAnswers /\ again' \in BOOLEAN /\ since0' \in Nat
    BY <2>1
       DEF Screens!Missed, Screens!Answer, Screens!Seek, ScreenTypes, ScreenLabels, ScreenAnswers
  <2>4. UNCHANGED <<call, pressed, presses, stop, boxesSeen, unsure, after>>
    BY DEF Screens!Missed
  <2> QED BY <2>1, <2>2, <2>3, <2>4 DEF SeekTypes, ScreenTypes
<1>2. /\ looks = "look" /\ ~Screens!Goes /\ call \in Screens!Calls /\ answer = "none"
      /\ UNCHANGED <<call, presses, ticks, stop, boxesSeen, unsure, pressed, after>>
  BY InACall DEF Screens!Missed
<1>3. Hit' = Hit /\ Something' = Something /\ Screens!Sought' = Screens!Sought
      /\ Screens!Patience(call)' = Screens!Patience(call)
  BY <1>2, SameSight DEF Screens!Sought, Screens!Patience
<1>4. LastPress'
  BY <1>2 DEF ScreenIInv, LastPress
<1> USE DEF Screens!Missed, Screens!seekVars, Screens!Seek, Screens!Answer
<1>5. CASE looks' = "over"
  <2>1. UNCHANGED <<again, overdue>>
    BY <1>5
  <2>2. CASE call.what = "appear"
    <3>1. ~call.until /\ ~again
      BY <1>2, <2>2, CallFacts DEF ScreenIInv, Stages
    <3>2. answer' = IF Screens!Sought.all THEN "found" ELSE "timeout"
      BY <2>2, <1>5 DEF Screens!Clicks
    <3>3. Screens!Sought.all => ~(answer' = "timeout")
      BY <3>2
    <3>4. pressed = <<>> /\ ticks >= call.timeout /\ (unsure \/ ~Hit)
      BY <1>2, <2>2, <3>1, GivenUp DEF Clicks
    <3>5. Told' /\ InTheEnd'
      BY <1>2, <1>3, <2>2, <3>1, <3>2, <3>4 DEF Told, InTheEnd, Clicks
    <3> QED BY <1>1, <1>2, <1>5, <2>1, <3>2, <3>5, CallEnds
  <2>3. CASE call.what = "disappear"
    <3>1. answer' = "gone" /\ ~Screens!Sought.all
      BY <2>3, <1>5 DEF Screens!Clicks
    <3>2. ~Screens!Careful
      BY <1>2, <2>3, CallFacts DEF Screens!Careful, Clicks
    <3>3. ~Hit
      BY <1>2, <3>2, GivenUp
    <3>4. ~Something
      BY <3>1, <3>3 DEF Hit, Something, Screens!Wanted
    <3>5. Told' /\ InTheEnd'
      BY <1>2, <1>3, <3>1, <3>4 DEF Told, InTheEnd
    <3> QED BY <1>1, <1>2, <1>5, <2>1, <3>1, <3>5, CallEnds
  <2>4. CASE call.what = "match"
    <3>1. answer' = "absent" /\ ~again
      BY <1>5, <2>4 DEF Screens!Clicks, ScreenIInv, Stages
    <3>2. pressed = <<>> /\ ticks >= call.timeout /\ (unsure \/ ~Hit)
      BY <1>2, <2>4, <3>1, GivenUp DEF Clicks
    <3>3. Told' /\ InTheEnd'
      BY <1>2, <1>3, <2>4, <3>1, <3>2 DEF Told, InTheEnd, Clicks, Polls
    <3> QED BY <1>1, <1>2, <1>5, <2>1, <3>1, <3>3, CallEnds
  <2>5. CASE call.what \in Clicks
    <3>1. answer' \in {"absent", "timeout"} /\ ~again
      BY <1>5, <2>5 DEF Screens!Clicks, Clicks
    <3>2. pressed = <<>> /\ ticks >= Screens!Patience(call) /\ (unsure \/ ~Hit)
      BY <1>2, <2>5, <3>1, GivenUp
    <3>3. Told' /\ InTheEnd'
      BY <1>2, <1>3, <2>1, <2>5, <3>1, <3>2 DEF Told, InTheEnd, Clicks, Polls
    <3> QED BY <1>1, <1>2, <1>5, <2>1, <3>1, <3>3, CallEnds
  <2> QED BY <2>2, <2>3, <2>4, <2>5 DEF Screens!Clicks, Clicks
<1>6. CASE looks' # "over"
  <2>1. answer' = "none"
    BY <1>2, <1>6
  <2>2. /\ looks' \in {"look", "gone", "done"}
        /\ looks' \in {"look", "gone"} => call.what = "disappear" /\ again'
        /\ looks' = "done" => call.what \in Clicks /\ call.until /\ again
    BY <1>6 DEF ScreenIInv, Stages, Screens!Clicks, Clicks
  <2>3. again' = again \/ (again' /\ call.what = "disappear")
    BY <1>6
  <2>4. Stages' /\ AtRest'
    BY <1>2, <2>1, <2>2, <2>3 DEF ScreenIInv, Stages, AtRest, Polls, Clicks
  <2>5. looks' = "look" => first' /\ since' = ticks' /\ overdue' = 0 /\ limit' = 0
    BY <1>2, <1>6
  <2>6. SeenSoFar' /\ HasItsTime'
    BY <1>2, <2>2, <2>5 DEF SeenSoFar, HasItsTime, Clicks
  <2>7. Pressing'
    BY <1>2, <2>2 DEF ScreenIInv, Pressing, Clicks
  <2>8. LooksOn'
    <3>1. overdue' <= 1
      BY DEF ScreenIInv, LooksOn
    <3>2. ticks' \in Nat /\ overdue' \in Nat /\ since' \in Nat /\ limit' \in Nat
      BY <1>1 DEF ScreenTypes
    <3> HIDE DEF Screens!Missed, Screens!Seek
    <3>3. looks' = "look" => ticks' = since' /\ overdue' = 0 /\ overdue' # 1
      BY <2>2, <2>5
    <3>4. looks' = "look" => since' <= ticks' /\ ticks' <= since' + limit' + 1 + overdue'
      BY <3>2, <3>3, JustBegun
    <3>5. looks' # "found" /\ looks' # "poll"
      BY <2>2, <2>5
    <3> QED BY <3>1, <3>3, <3>4, <3>5 DEF LooksOn
  <2> QED BY <1>1, <1>4, <2>1, <2>4, <2>6, <2>7, <2>8, NoAnswerYet DEF ScreenIInv
<1> QED BY <1>5, <1>6

LEMMA SwipeEndStep == ASSUME ScreenIInv, Screens!SwipeEnd PROVE ScreenIInv'
<1>1. /\ UNCHANGED <<call, since0, stop, boxesSeen, unsure, pressed, after, ticks>>
      /\ call \in Screens!Calls /\ call.what = "swipe" /\ ScreenTypes /\ answer = "none"
      /\ looks \in {"found", "look"}
  BY InACall DEF Screens!SwipeEnd, ScreenIInv
<1>2. presses' \in Seq(Spots)
  <2>1. CASE looks = "found"
    <3>1. Hit
      BY <2>1 DEF ScreenIInv, SeenSoFar
    <3>2. ~Screens!Sought.all
      BY <1>1, CallFacts DEF Screens!Sought
    <3>3. Something
      BY <3>1, <3>2 DEF Hit, Something, Screens!Wanted
    <3>4. Target \in Spots
      BY <1>1, <3>3, PickIsSeen DEF ScreenTypes
    <3>5. presses' = Append(presses, Target) /\ presses \in Seq(Spots)
      BY <1>1, <2>1 DEF Screens!SwipeEnd, Target, ScreenTypes
    <3> QED BY <3>4, <3>5
  <2>2. CASE looks # "found"
    BY <1>1, <2>2 DEF Screens!SwipeEnd, ScreenTypes
  <2> QED BY <2>1, <2>2
<1>3. ScreenTypes'
  <2>1. ticks' \in Nat /\ Grace \in Nat
    BY <1>1, ScreenAssumption DEF ScreenTypes
  <2>2. SeekTypes'
    BY <1>1, <2>1, SeekFacts, SeekStays DEF Screens!SwipeEnd
  <2>3. looks' \in ScreenLabels /\ answer' \in ScreenAnswers /\ again' \in BOOLEAN
    BY <1>1
       DEF Screens!SwipeEnd, Screens!Answer, Screens!Seek, ScreenTypes, ScreenLabels, ScreenAnswers
  <2> QED BY <1>1, <1>2, <2>1, <2>2, <2>3 DEF SeekTypes, ScreenTypes
<1> USE DEF Screens!SwipeEnd, Screens!seekVars, Screens!Seek, Screens!Answer
<1>4. CASE looks' = "over"
  <2>1. answer' = "timeout" /\ UNCHANGED <<again, overdue>>
    BY <1>4
  <2>2. ~call.until
    BY <1>1, CallFacts
  <2>3. Told' /\ InTheEnd'
    BY <1>1, <2>1, <2>2 DEF Told, InTheEnd, Clicks
  <2> QED BY <1>1, <1>3, <1>4, <2>1, <2>3, CallEnds
<1>5. CASE looks' # "over"
  <2>1. answer' = "none" /\ looks' \in {"look", "aim"} /\ again'
    BY <1>1, <1>5
  <2>2. Stages' /\ AtRest'
    BY <1>1, <2>1 DEF ScreenIInv, Stages, AtRest, Polls, Clicks
  <2>3. looks' = "look" => first' /\ since' = ticks' /\ overdue' = 0
    BY <1>1, <1>5
  <2>4. SeenSoFar' /\ HasItsTime' /\ Pressing'
    BY <1>1, <2>1, <2>3 DEF SeenSoFar, HasItsTime, Pressing, Clicks
  <2>5. LooksOn'
    <3>1. overdue' <= 1
      BY DEF ScreenIInv, LooksOn
    <3>2. ticks' \in Nat /\ overdue' \in Nat /\ since' \in Nat /\ limit' \in Nat
      BY <1>3 DEF ScreenTypes
    <3> HIDE DEF Screens!SwipeEnd, Screens!Seek
    <3>3. looks' = "look" => ticks' = since' /\ overdue' = 0 /\ overdue' # 1
      BY <2>1, <2>3
    <3>4. looks' = "look" => since' <= ticks' /\ ticks' <= since' + limit' + 1 + overdue'
      BY <3>2, <3>3, JustBegun
    <3>5. looks' # "found" /\ looks' # "poll"
      BY <2>1, <2>3
    <3> QED BY <3>1, <3>3, <3>4, <3>5 DEF LooksOn
  <2>6. LastPress'
    BY <1>1 DEF ScreenIInv, LastPress
  <2> QED BY <1>3, <2>1, <2>2, <2>4, <2>5, <2>6, NoAnswerYet DEF ScreenIInv
<1> QED BY <1>4, <1>5

\* What a look finds: the boxes of every target of the wish.
LEMMA LocateFacts ==
    ASSUME call \in Screens!Calls, NEW pic \in Frames
    PROVE  LET one == Screens!LocateAll(Screens!Sought, pic) IN
           /\ one \in Seq(SUBSET Spots) /\ Len(one) = Len(call.wish.of)
           /\ \A k \in 1 .. Len(one) : IsFiniteSet(one[k])
<1> DEFINE of == call.wish.of
           boxesOf == [k \in DOMAIN of |-> pic[of[k]]]
           imagesOf == [k \in DOMAIN of |-> IF of[k] \in Images THEN boxesOf[k] ELSE {}]
<1>1. of \in Seq(Targets) /\ Screens!Sought.of = of
  BY CallFacts DEF Screens!Sought
<1>2. \A k \in 1 .. Len(of) : pic[of[k]] \in SUBSET Spots /\ IsFiniteSet(pic[of[k]])
  <2> SUFFICES ASSUME NEW k \in 1 .. Len(of)
               PROVE  pic[of[k]] \in SUBSET Spots /\ IsFiniteSet(pic[of[k]])
    OBVIOUS
  <2>1. of[k] \in Targets /\ pic \in [Targets -> SUBSET Spots]
    BY <1>1, ScreenAssumption
  <2>2. \A t \in Targets : IsFiniteSet(pic[t])
    BY ScreenAssumption
  <2> QED BY <2>1, <2>2
<1>3. DOMAIN of = 1 .. Len(of) /\ Len(of) \in Nat
  BY <1>1
<1>4. /\ boxesOf \in Seq(SUBSET Spots) /\ Len(boxesOf) = Len(of)
      /\ \A k \in 1 .. Len(of) : IsFiniteSet(boxesOf[k])
  BY <1>2, <1>3
<1>5. IsFiniteSet({})
  BY FS_EmptySet
<1>6. /\ imagesOf \in Seq(SUBSET Spots) /\ Len(imagesOf) = Len(of)
      /\ \A k \in 1 .. Len(of) : IsFiniteSet(imagesOf[k])
  BY <1>2, <1>3, <1>5
<1>7. Screens!LocateAll(Screens!Sought, pic) \in {boxesOf, imagesOf}
  BY <1>1 DEF Screens!LocateAll
<1> HIDE DEF boxesOf, imagesOf
<1> QED BY <1>4, <1>6, <1>7

LEMMA LookStep ==
    ASSUME ScreenIInv, NEW pic \in Frames, NEW second \in Frames, NEW n \in 0 .. 1,
           Screens!Look(pic, second, n)
    PROVE  ScreenIInv'
<1> DEFINE one == Screens!LocateAll(Screens!Sought, pic)
           two == IF Screens!Careful THEN Screens!LocateAll(Screens!Sought, second) ELSE one
           agree == Screens!Stable(one, two)
<1>1. /\ looks = "look" /\ Screens!Goes /\ ticks' = ticks + n /\ first' = FALSE
      /\ retry' = (~agree /\ Screens!Wanted(one) /\ ~retry)
      /\ boxesSeen' = one /\ unsure' = ~agree
      /\ overdue' = IF first \/ ticks - since < limit THEN overdue ELSE overdue + 1
      /\ looks' = IF agree /\ Screens!Wanted(one) THEN "found" ELSE "look"
      /\ UNCHANGED <<call, again, since0, limit, since, presses, stop, pressed, after, answer>>
  BY DEF Screens!Look
<1>2. call \in Screens!Calls /\ answer = "none" /\ ScreenTypes
  BY <1>1, InACall DEF ScreenIInv
<1>3. /\ one \in Seq(SUBSET Spots) /\ Len(one) = Len(call.wish.of)
      /\ \A k \in 1 .. Len(one) : IsFiniteSet(one[k])
  BY <1>2, LocateFacts
<1>4. Hit' = Screens!Wanted(one)
  BY <1>1 DEF Hit, Screens!Wanted, Screens!First, Screens!Full, Screens!Sought
<1>5. ~agree => Screens!Careful
  BY DEF Screens!Stable
<1>6. Screens!Careful' = Screens!Careful
  BY <1>1 DEF Screens!Careful
<1> HIDE DEF one, agree
<1>7. ScreenTypes'
  <2>1. ticks' \in Nat /\ overdue' \in Nat
    BY <1>1, <1>2 DEF ScreenTypes
  <2>2. first' \in BOOLEAN /\ retry' \in BOOLEAN /\ unsure' \in BOOLEAN /\ looks' \in ScreenLabels
    BY <1>1 DEF ScreenLabels
  <2>3. /\ boxesSeen' \in Seq(SUBSET Spots)
        /\ \A k \in 1 .. Len(boxesSeen') : IsFiniteSet(boxesSeen'[k])
    BY <1>1, <1>3
  <2> QED BY <1>1, <1>2, <2>1, <2>2, <2>3 DEF ScreenTypes
<1>8. looks' \in {"look", "found"} /\ ~first'
  BY <1>1
<1>9. Stages' /\ AtRest'
  BY <1>1, <1>2, <1>8 DEF ScreenIInv, Stages, AtRest
<1>10. SeenSoFar'
  <2>1. looks' = "look" => ~Hit' \/ (unsure' /\ Screens!Careful')
    BY <1>1, <1>4, <1>5, <1>6
  <2>2. looks' = "found" => Hit' /\ ~unsure' /\ Len(boxesSeen') = Len(call'.wish.of)
    BY <1>1, <1>3, <1>4
  <2> QED BY <1>8, <2>1, <2>2 DEF SeenSoFar
<1>11. Pressing'
  BY <1>1, <1>8 DEF ScreenIInv, Pressing
<1>12. LooksOn'
  <2>1. /\ ticks \in Nat /\ since \in Nat /\ limit \in Nat /\ overdue \in Nat /\ n \in {0, 1}
    BY <1>2 DEF ScreenTypes
  <2>2. /\ overdue <= 1 /\ since <= ticks /\ ticks <= since + limit + 1 + overdue
        /\ first => ticks = since /\ overdue = 0
        /\ overdue = 1 => ~first /\ ~retry /\ ticks >= since + limit
    BY <1>1 DEF ScreenIInv, LooksOn
  <2>3. CASE first \/ ticks - since < limit
    <3>1. overdue' = 0
      BY <1>1, <2>1, <2>2, <2>3
    <3>2. since' <= ticks' /\ ticks' <= since' + limit' + 1
      BY <1>1, <2>1, <2>2, <2>3
    <3> QED BY <1>1, <1>7, <1>8, <3>1, <3>2 DEF LooksOn, ScreenTypes
  <2>4. CASE ~(first \/ ticks - since < limit)
    <3>1. retry
      BY <1>1, <2>4 DEF Screens!Goes
    <3>2. overdue = 0 /\ overdue' = 1 /\ retry' = FALSE
      <4>1. overdue = 0
        BY <2>1, <2>2, <3>1
      <4>2. overdue' = overdue + 1
        BY <1>1, <2>4
      <4>3. retry' = FALSE
        BY Zenon, <1>1, <3>1
      <4> QED BY <4>1, <4>2, <4>3
    <3>3. /\ since' <= ticks' /\ ticks' <= since' + limit' + 2 /\ ticks' >= since' + limit'
      BY <1>1, <2>1, <2>2, <2>4, <3>2
    <3> QED BY <1>1, <1>7, <1>8, <3>2, <3>3 DEF LooksOn, ScreenTypes
  <2> QED BY <2>3, <2>4
<1>13. HasItsTime'
  <2>1. Screens!Patience(call)' = Screens!Patience(call)
    BY <1>1 DEF Screens!Patience
  <2> QED BY <1>1, <2>1 DEF ScreenIInv, HasItsTime
<1>14. LastPress'
  BY <1>1, <1>8 DEF ScreenIInv, LastPress
<1> QED BY <1>1, <1>2, <1>7, <1>9, <1>10, <1>11, <1>12, <1>13, <1>14, NoAnswerYet DEF ScreenIInv

\* Two sequences, the head of the second moved to the end of the first.
LEMMA Passing ==
    ASSUME NEW S, NEW s \in Seq(S), NEW t \in Seq(S), t # <<>>
    PROVE  Append(s, Head(t)) \o Tail(t) = s \o t
BY SMTT(60)

LEMMA AimStep == ASSUME ScreenIInv, Screens!Aim PROVE ScreenIInv'
<1>1. /\ looks = "found" /\ looks' = "aim" /\ call.what \in Clicks
      /\ presses' \in IF call.what = "click" THEN {[k \in 1 .. call.times |-> Target]} ELSE Column
      /\ UNCHANGED <<call, again, since0, limit, since, first, retry, ticks, stop, boxesSeen, unsure,
                     pressed, after, overdue, answer>>
  BY DEF Screens!Aim, Screens!seekVars, Screens!Clicks, Clicks, Target, Column
<1>2. call \in Screens!Calls /\ answer = "none" /\ ScreenTypes
  BY <1>1, InACall DEF ScreenIInv
<1>3. Hit /\ ~unsure /\ Len(boxesSeen) = Len(call.wish.of) /\ pressed = <<>>
  BY <1>1 DEF ScreenIInv, SeenSoFar, Pressing
<1>4. call.what = "clickAll" => Len(boxesSeen) = 1
  BY <1>2, <1>3, CallFacts
<1>5. Something
  <2>1. CASE ~Screens!Sought.all
    BY <1>3, <2>1 DEF Hit, Something, Screens!Wanted
  <2>2. CASE Screens!Sought.all
    <3>1. call.what = "clickAll"
      BY <1>1, <1>2, <2>2, CallFacts DEF Screens!Sought, Clicks
    <3>2. Len(boxesSeen) = 1 /\ DOMAIN boxesSeen = 1 .. 1
      BY <1>2, <1>4, <3>1 DEF ScreenTypes
    <3> QED BY <1>3, <2>2, <3>2 DEF Hit, Something, Screens!Wanted, Screens!Full, Screens!First
  <2> QED BY <2>1, <2>2
<1>6. Hit' = Hit /\ Something' = Something /\ Target' = Target /\ Column' = Column
  BY <1>1, SameSight
<1>7. ASSUME call.what = "click"
      PROVE  presses' \in Seq(Spots) /\ presses' # <<>> /\ AimedAt'
  <2>1. Target \in Spots
    BY <1>2, <1>5, PickIsSeen DEF ScreenTypes
  <2>2. PICK t : t = Target
    OBVIOUS
  <2>3. call.times \in 1 .. 2
    BY <1>2, CallFacts
  <2>4. presses' = [k \in 1 .. call.times |-> t]
    BY <1>1, <1>7, <2>2
  <2>5. /\ presses' \in Seq(Spots) /\ Len(presses') = call.times /\ presses' # <<>>
        /\ \A k \in 1 .. Len(presses') : presses'[k] = t
    BY <2>1, <2>2, <2>3, <2>4
  <2>6. AimedAt'
    <3>1. pressed' = <<>> /\ call' = call
      BY <1>1, <1>3
    <3>2. Len(pressed') = 0 /\ Len(pressed') + Len(presses') = call'.times
      BY <2>3, <2>5, <3>1
    <3>3. \A k \in 1 .. Len(presses') : presses'[k] = Target'
      BY Zenon, <1>6, <2>2, <2>5
    <3>4. \A k \in 1 .. Len(pressed') : pressed'[k] = Target'
      BY <3>1
    <3>5. call'.what = "click"
      BY <1>7, <3>1
    <3> QED BY Zenon, <3>2, <3>3, <3>4, <3>5 DEF AimedAt
  <2> QED BY <2>5, <2>6
<1>8. ASSUME call.what = "clickAll"
      PROVE  presses' \in Seq(Spots) /\ presses' # <<>> /\ AimedAt'
  <2>1. /\ boxesSeen[1] \subseteq Spots /\ IsFiniteSet(boxesSeen[1]) /\ boxesSeen[1] # {}
    <3>1. boxesSeen \in Seq(SUBSET Spots) /\ Len(boxesSeen) = 1
      BY <1>2, <1>4, <1>8 DEF ScreenTypes
    <3>2. DOMAIN boxesSeen = {1} /\ 1 \in 1 .. Len(boxesSeen) /\ boxesSeen[1] \in SUBSET Spots
      BY <3>1
    <3>3. boxesSeen[1] # {}
      BY <1>5, <3>2 DEF Something, Screens!First
    <3>4. IsFiniteSet(boxesSeen[1])
      BY <1>2, <3>2 DEF ScreenTypes
    <3> QED BY <3>2, <3>3, <3>4
  <2>2. presses' \in Column
    BY <1>1, <1>8
  <2>3. presses' \in Seq(Spots) /\ presses' # <<>>
    <3>1. PICK s : s = presses'
      OBVIOUS
    <3>2. s \in Screens!Sorted(boxesSeen[1])
      BY <2>2, <3>1 DEF Column
    <3> QED BY <2>1, <3>1, <3>2, SortedIsAll
  <2>4. AimedAt'
    <3>1. pressed' \o presses' = presses'
      BY <1>1, <1>3, <2>3, SMTT(30)
    <3>2. call'.what # "click" /\ presses' \in Column'
      BY <1>1, <1>6, <1>8, <2>2
    <3> QED BY Zenon, <3>1, <3>2 DEF AimedAt
  <2> QED BY <2>3, <2>4
<1>a. call.what = "click" \/ call.what = "clickAll"
  BY <1>1 DEF Clicks
<1>9. presses' \in Seq(Spots) /\ presses' # <<>> /\ AimedAt'
  BY Zenon, <1>7, <1>8, <1>a
<1>10. ScreenTypes'
  BY <1>1, <1>2, <1>9 DEF ScreenTypes, ScreenLabels
<1>11. Stages' /\ AtRest' /\ LooksOn' /\ HasItsTime' /\ LastPress'
  BY <1>1, <1>2 DEF ScreenIInv, Stages, AtRest, LooksOn, HasItsTime, LastPress
<1>12. SeenSoFar' /\ Pressing'
  BY <1>1, <1>3, <1>4, <1>5, <1>6, <1>9 DEF SeenSoFar, Pressing
<1> QED BY <1>1, <1>2, <1>10, <1>11, <1>12, NoAnswerYet DEF ScreenIInv

\* One press more: at what was aimed at, and once only if a stop has been asked for.
LEMMA PressStep == ASSUME ScreenIInv, Screens!Press PROVE ScreenIInv'
<1>1. /\ looks = "press" /\ looks' = "rest" /\ after' = IF stop THEN after + 1 ELSE after
      /\ \/ call.what # "swipe" /\ pressed' = Append(pressed, Head(presses))
            /\ presses' = Tail(presses)
         \/ call.what = "swipe" /\ pressed' = presses /\ presses' = <<>>
      /\ UNCHANGED <<call, again, since0, limit, since, first, retry, ticks, stop, boxesSeen, unsure,
                     overdue, answer>>
  BY DEF Screens!Press, Screens!seekVars
<1>2. /\ call \in Screens!Calls /\ answer = "none" /\ call.what \in Clicks \cup {"swipe"}
      /\ ScreenTypes /\ presses \in Seq(Spots) /\ pressed \in Seq(Spots)
  BY <1>1, InACall DEF ScreenIInv, Stages, ScreenTypes
<1>3. call.what \in Clicks => presses # <<>> /\ AimedAt /\ ~unsure /\ Something
                              /\ (call.what = "clickAll" => Len(boxesSeen) = 1)
  BY <1>1 DEF ScreenIInv, Pressing, SeenSoFar
<1>4. Hit' = Hit /\ Something' = Something /\ Target' = Target /\ Column' = Column
  BY <1>1, SameSight
<1>5. after = 0 /\ after' \in {0, 1} /\ (after' = 1 => stop')
  BY <1>1 DEF ScreenIInv, LastPress
<1>6. presses' \in Seq(Spots) /\ pressed' \in Seq(Spots)
  <2>1. CASE call.what = "swipe"
    BY <1>1, <1>2, <2>1
  <2>2. CASE call.what # "swipe"
    <3>1. presses # <<>> /\ pressed' = Append(pressed, Head(presses)) /\ presses' = Tail(presses)
      BY <1>1, <1>2, <1>3, <2>2
    <3>2. Head(presses) \in Spots /\ Tail(presses) \in Seq(Spots)
      BY <1>2, <3>1
    <3> QED BY <1>2, <3>1, <3>2
  <2> QED BY <2>1, <2>2
<1>7. ASSUME call.what = "click"
      PROVE  AimedAt'
  <2>1. /\ presses # <<>> /\ Len(pressed) + Len(presses) = call.times
        /\ \A k \in 1 .. Len(pressed) : pressed[k] = Target
        /\ \A k \in 1 .. Len(presses) : presses[k] = Target
    BY <1>3, <1>7 DEF AimedAt, Clicks
  <2>2. pressed' = Append(pressed, Head(presses)) /\ presses' = Tail(presses)
    BY <1>1, <1>7
  <2>3. PICK t : t = Target
    OBVIOUS
  <2>4. Len(pressed') + Len(presses') = call.times
    BY <1>2, <2>1, <2>2
  <2>5. \A k \in 1 .. Len(pressed') : pressed'[k] = t
    <3>1. Head(presses) = t
      BY <1>2, <2>1, <2>3
    <3> QED BY <1>2, <2>1, <2>2, <2>3, <3>1
  <2>6. \A k \in 1 .. Len(presses') : presses'[k] = t
    BY <1>2, <2>1, <2>2, <2>3
  <2>7. call' = call /\ Target' = t
    BY <1>1, <1>4, <2>3
  <2> QED BY Zenon, <1>7, <2>4, <2>5, <2>6, <2>7 DEF AimedAt
<1>8. ASSUME call.what = "clickAll"
      PROVE  AimedAt'
  <2>1. presses # <<>> /\ pressed \o presses \in Column
    BY <1>3, <1>8 DEF AimedAt, Clicks
  <2>2. pressed' \o presses' = pressed \o presses
    BY <1>1, <1>2, <1>8, <2>1, Passing
  <2>3. call'.what # "click" /\ Column' = Column
    BY <1>1, <1>4, <1>8
  <2> QED BY Zenon, <2>1, <2>2, <2>3 DEF AimedAt
<1>9. ScreenTypes'
  <2>1. after' \in Nat
    BY <1>5
  <2> QED BY <1>1, <1>2, <1>6, <2>1 DEF ScreenTypes, ScreenLabels
<1>10. Stages' /\ AtRest' /\ LooksOn' /\ HasItsTime'
  BY <1>1, <1>2 DEF ScreenIInv, Stages, AtRest, LooksOn, HasItsTime
<1>11. LastPress'
  BY <1>1, <1>5 DEF LastPress
<1>12. SeenSoFar' /\ Pressing'
  <2>1. call.what \in Clicks => AimedAt'
    BY <1>7, <1>8 DEF Clicks
  <2> QED BY <1>1, <1>3, <1>4, <2>1 DEF SeenSoFar, Pressing
<1> QED BY <1>1, <1>2, <1>9, <1>10, <1>11, <1>12, NoAnswerYet DEF ScreenIInv

\* The last press made, what was pressed is all that was aimed at.
LEMMA AllPressed ==
    ASSUME ScreenIInv, looks = "rest", presses = <<>>
    PROVE  /\ call.what = "click" => pressed = [k \in 1 .. call.times |-> Target]
           /\ call.what = "clickAll" =>
                 /\ {pressed[k] : k \in 1 .. Len(pressed)} = boxesSeen[1]
                 /\ \A j, k \in 1 .. Len(pressed) : j < k => pressed[j] < pressed[k]
<1>1. call \in Screens!Calls /\ ScreenTypes /\ pressed \in Seq(Spots)
  BY InACall DEF ScreenIInv, ScreenTypes
<1>2. ASSUME call.what = "click"
      PROVE  pressed = [k \in 1 .. call.times |-> Target]
  <2>1. Len(pressed) = call.times /\ \A k \in 1 .. Len(pressed) : pressed[k] = Target
    <3>1. Len(pressed) + Len(presses) = call.times /\ \A k \in 1 .. Len(pressed) : pressed[k] = Target
      BY <1>2 DEF ScreenIInv, Pressing, AimedAt, Clicks
    <3> QED BY <1>1, <3>1
  <2> QED BY <1>1, <2>1
<1>3. ASSUME call.what = "clickAll"
      PROVE  /\ {pressed[k] : k \in 1 .. Len(pressed)} = boxesSeen[1]
             /\ \A j, k \in 1 .. Len(pressed) : j < k => pressed[j] < pressed[k]
  <2>1. pressed \o presses \in Column /\ Len(boxesSeen) = 1
    BY <1>3 DEF ScreenIInv, Pressing, AimedAt, SeenSoFar, Clicks
  <2>2. pressed \o presses = pressed
    BY <1>1
  <2>3. boxesSeen[1] \subseteq Spots /\ IsFiniteSet(boxesSeen[1])
    <3>1. boxesSeen \in Seq(SUBSET Spots) /\ 1 \in 1 .. Len(boxesSeen)
      BY <1>1, <2>1 DEF ScreenTypes
    <3>2. boxesSeen[1] \in SUBSET Spots
      BY <3>1
    <3>3. IsFiniteSet(boxesSeen[1])
      BY <1>1, <3>1 DEF ScreenTypes
    <3> QED BY <3>2, <3>3
  <2>4. PICK s : s = pressed
    OBVIOUS
  <2>5. s \in Screens!Sorted(boxesSeen[1])
    BY <2>1, <2>2, <2>4 DEF Column
  <2>6. /\ {s[k] : k \in 1 .. Len(s)} = boxesSeen[1]
        /\ \A j, k \in 1 .. Len(s) : j < k => s[j] < s[k]
    BY <2>3, <2>5, SortedIsAll
  <2> QED BY <2>4, <2>6
<1> QED BY <1>2, <1>3

LEMMA RestStep == ASSUME ScreenIInv, Screens!Rest PROVE ScreenIInv'
<1>1. /\ looks = "rest" /\ ~stop
      /\ ticks' = IF call.until THEN ticks + 1 ELSE ticks
      /\ \/ presses # <<>> /\ looks' = "press" /\ answer' = answer
         \/ presses = <<>> /\ call.until /\ looks' = "done" /\ answer' = answer
         \/ presses = <<>> /\ ~call.until /\ looks' = "over" /\ answer' = "clicked"
      /\ UNCHANGED <<call, again, since0, limit, since, first, retry, presses, stop, boxesSeen, unsure,
                     pressed, after, overdue>>
  BY DEF Screens!Rest, Screens!Answer, Screens!seekVars
<1>2. /\ call \in Screens!Calls /\ answer = "none" /\ call.what \in Clicks \cup {"swipe"} /\ ScreenTypes
      /\ call.until => call.what = "click"
  BY <1>1, InACall, CallFacts DEF ScreenIInv, Stages
<1>3. ScreenTypes'
  <2>1. ticks' \in Nat
    BY <1>1, <1>2 DEF ScreenTypes
  <2>2. looks' \in ScreenLabels /\ answer' \in ScreenAnswers
    BY <1>1, <1>2 DEF ScreenLabels, ScreenAnswers
  <2> QED BY <1>1, <1>2, <2>1, <2>2 DEF ScreenTypes
<1>4. Hit' = Hit /\ Something' = Something /\ Target' = Target /\ Column' = Column /\ AimedAt' = AimedAt
  BY <1>1, SameSight, SameAim
<1>5. CASE looks' = "over"
  <2>1. presses = <<>> /\ ~call.until /\ answer' = "clicked"
    BY <1>1, <1>5
  <2>2. /\ call.what = "click" => pressed = [k \in 1 .. call.times |-> Target]
        /\ call.what = "clickAll" =>
              /\ {pressed[k] : k \in 1 .. Len(pressed)} = boxesSeen[1]
              /\ \A j, k \in 1 .. Len(pressed) : j < k => pressed[j] < pressed[k]
    BY <1>1, <2>1, AllPressed
  <2>3. DOMAIN pressed = 1 .. Len(pressed)
    BY <1>2 DEF ScreenTypes
  <2>4. call.what = "clickAll" =>
           /\ Screens!ToSet(pressed) = boxesSeen[1]
           /\ \A j, k \in DOMAIN pressed : j < k => pressed[j] < pressed[k]
    BY <2>2, <2>3 DEF Screens!ToSet
  <2>5. call'.what = "click" => pressed' = [k \in 1 .. call'.times |-> Target']
    BY <1>1, <1>4, <2>2
  <2>6. Screens!ToSet(pressed)' = Screens!ToSet(pressed)
    BY <1>1 DEF Screens!ToSet
  <2>7. call'.what = "clickAll" =>
           /\ Screens!ToSet(pressed)' = boxesSeen'[1]
           /\ \A j, k \in DOMAIN pressed' : j < k => pressed'[j] < pressed'[k]
    BY <1>1, <2>4, <2>6
  <2>8. Told'
    BY <2>1, <2>5, <2>7 DEF Told
  <2>9. InTheEnd'
    BY <2>1 DEF InTheEnd
  <2> QED BY <1>1, <1>3, <1>5, <2>1, <2>8, <2>9, CallEnds
<1>6. CASE looks' # "over"
  <2>1. answer' = "none" /\ looks' \in {"press", "done"}
    BY <1>1, <1>2, <1>6
  <2>2. LastPress'
    BY <1>1 DEF ScreenIInv, LastPress
  <2>3. Stages' /\ AtRest' /\ LooksOn' /\ HasItsTime'
    BY <1>1, <1>2, <2>1 DEF ScreenIInv, Stages, AtRest, LooksOn, HasItsTime, Clicks
  <2>4. SeenSoFar' /\ Pressing'
    BY <1>1, <1>4, <2>1 DEF ScreenIInv, SeenSoFar, Pressing
  <2> QED BY <1>3, <2>1, <2>2, <2>3, <2>4, NoAnswerYet DEF ScreenIInv
<1> QED BY <1>5, <1>6

LEMMA StutterScreen == ASSUME ScreenIInv, UNCHANGED Screens!vars PROVE ScreenIInv'
<1> USE DEF Screens!vars
<1>1. ScreenTypes'
  BY DEF ScreenIInv, ScreenTypes
<1>2. Hit' = Hit /\ Something' = Something /\ Target' = Target /\ Column' = Column /\ AimedAt' = AimedAt
  BY SameSight, SameAim
<1>3. UNCHANGED <<Screens!Careful, Screens!Sought, Screens!Patience(call)>>
  BY DEF Screens!Careful, Screens!Sought, Screens!Patience
<1>4. Stages' /\ AtRest' /\ LooksOn' /\ HasItsTime' /\ LastPress' /\ InTheEnd'
  BY <1>3 DEF ScreenIInv, Stages, AtRest, LooksOn, HasItsTime, LastPress, InTheEnd
<1>5. SeenSoFar' /\ Pressing'
  BY <1>2, <1>3 DEF ScreenIInv, SeenSoFar, Pressing
<1>6. Told'
  BY <1>2, <1>3 DEF ScreenIInv, Told, Screens!ToSet
<1> QED BY <1>1, <1>4, <1>5, <1>6 DEF ScreenIInv

LEMMA NextScreenIInv == ScreenIInv /\ [Screens!Next]_(Screens!vars) => ScreenIInv'
<1> SUFFICES ASSUME ScreenIInv, [Screens!Next]_(Screens!vars) PROVE ScreenIInv'
  OBVIOUS
<1>1. CASE UNCHANGED Screens!vars
  BY <1>1, StutterScreen
<1>2. CASE Screens!Next
  <2>1. CASE \E c \in Screens!Calls : Screens!Begin(c)
    BY <2>1, BeginStep
  <2>2. CASE \E pic, second \in Frames, n \in 0 .. 1 : Screens!Look(pic, second, n)
    BY <2>2, LookStep
  <2>3. CASE \E is \in BOOLEAN : Screens!Colour(is) \/ Screens!Signal(is)
    BY <2>3, ColourStep, SignalStep
  <2>4. CASE \E read \in {"info", "empty", "error"} : Screens!Extract(read)
    BY <2>4, ExtractStep
  <2>5. CASE \E holds \in BOOLEAN : Screens!Until(holds)
    BY <2>5, UntilStep
  <2>6. CASE Screens!SwipeEnd \/ Screens!Stopped \/ Screens!Appeared \/ Screens!StillThere
             \/ Screens!Wait \/ Screens!Missed \/ Screens!Aim \/ Screens!Aimed
    BY <2>6, SwipeEndStep, StoppedStep, AppearedStep, StillThereStep, WaitStep, MissedStep, AimStep,
       AimedStep
  <2>7. CASE Screens!Press \/ Screens!Rest \/ Screens!Done \/ Screens!Stop \/ Screens!NewTask
             \/ Screens!Return
    BY <2>7, PressStep, RestStep, DoneStep, StopStep, NewTaskStep, ReturnStep
  <2> QED BY <1>2, <2>1, <2>2, <2>3, <2>4, <2>5, <2>6, <2>7 DEF Screens!Next
<1> QED BY <1>1, <1>2

\* The inductive invariant of the calls that look and press: what a locate() that goes on has not
\* seen and one that is over has, what is aimed at, and how long each has gone on (locate, click,
\* click_all, wait_for_* of AutoScriptor/core/api.py).
THEOREM ScreenInvariant == Screens!Spec => []ScreenIInv
<1>1. Screens!Init => ScreenIInv
  BY InitScreenIInv
<1>2. ScreenIInv /\ [Screens!Next]_(Screens!vars) => ScreenIInv'
  BY NextScreenIInv
<1> QED BY <1>1, <1>2, PTL DEF Screens!Spec

\* What is pressed was on the last frame, and what was seen twice the same.
LEMMA PressedIsSeen ==
    ASSUME ScreenIInv, looks = "press", call.what # "swipe"
    PROVE  ~unsure /\ \E k \in DOMAIN boxesSeen : Head(presses) \in boxesSeen[k]
<1>1. call \in Screens!Calls /\ ScreenTypes /\ call.what \in Clicks
  BY InACall DEF ScreenIInv, Stages
<1>2. ~unsure /\ Something /\ presses # <<>> /\ AimedAt /\ (call.what = "clickAll" => Len(boxesSeen) = 1)
  BY <1>1 DEF ScreenIInv, SeenSoFar, Pressing
<1>3. boxesSeen \in Seq(SUBSET Spots) /\ DOMAIN boxesSeen = 1 .. Len(boxesSeen)
      /\ presses \in Seq(Spots) /\ pressed \in Seq(Spots)
  BY <1>1 DEF ScreenTypes
<1>4. CASE call.what = "click"
  <2>1. \A k \in 1 .. Len(presses) : presses[k] = Target
    BY <1>2, <1>4 DEF AimedAt
  <2>2. Head(presses) = presses[1] /\ 1 \in 1 .. Len(presses)
    BY <1>2, <1>3
  <2>3. Head(presses) = Target
    BY <2>1, <2>2
  <2> QED BY <1>2, <1>3, <2>3, PickIsSeen
<1>5. CASE call.what = "clickAll"
  <2>1. pressed \o presses \in Column /\ Len(boxesSeen) = 1
    BY <1>2, <1>5 DEF AimedAt
  <2>2. PICK s : s = pressed \o presses
    OBVIOUS
  <2>3. boxesSeen[1] \subseteq Spots /\ IsFiniteSet(boxesSeen[1]) /\ 1 \in 1 .. Len(boxesSeen)
    <3>1. 1 \in 1 .. Len(boxesSeen)
      BY <2>1
    <3>2. boxesSeen[1] \in SUBSET Spots
      BY <1>3, <3>1
    <3>3. IsFiniteSet(boxesSeen[1])
      BY <1>1, <3>1 DEF ScreenTypes
    <3> QED BY <3>1, <3>2, <3>3
  <2>4. {s[k] : k \in 1 .. Len(s)} = boxesSeen[1]
    <3>1. s \in Screens!Sorted(boxesSeen[1])
      BY <2>1, <2>2 DEF Column
    <3> QED BY <2>3, <3>1, SortedIsAll
  <2>5. Head(presses) = s[Len(pressed) + 1] /\ Len(pressed) + 1 \in 1 .. Len(s)
    BY <1>2, <1>3, <2>2
  <2>6. Head(presses) \in boxesSeen[1]
    BY <2>4, <2>5
  <2> QED BY <1>2, <1>3, <2>3, <2>6
<1> QED BY <1>1, <1>4, <1>5 DEF Clicks

\* After a stop a task presses once more at most; no call looks beyond its time but to settle two
\* looks that disagreed; what a call answers is so, a click pressed what it picked as often as
\* asked and click_all every match once from the top; and nothing is pressed that the last frame did
\* not show: for any targets, frames, wishes and timeouts.
THEOREM ScreenSound == Screens!Spec => []Screens!ScreenIsSound
<1>1. ASSUME ScreenIInv PROVE Screens!TypeOK
  BY <1>1 DEF ScreenIInv, ScreenTypes, ScreenLabels, ScreenAnswers, Screens!TypeOK
<1>2. ASSUME ScreenIInv PROVE Screens!StopIsHeard
  BY <1>2, SMTT(60) DEF ScreenIInv, LastPress, Screens!StopIsHeard
<1>3. ASSUME ScreenIInv PROVE Screens!LooksInTime
  BY <1>3 DEF ScreenIInv, ScreenTypes, LooksOn, Screens!LooksInTime
<1>4. ASSUME ScreenIInv PROVE Screens!AnswersAreTrue
  BY <1>4 DEF ScreenIInv, Told, Screens!AnswersAreTrue, Hit, Something, Target, Clicks, Polls,
              Screens!Clicks, Screens!Polls
<1>5. ASSUME ScreenIInv PROVE Screens!PressesAreFresh
  <2>1. InTheEnd
    BY <1>5 DEF ScreenIInv
  <2>2. looks = "press" /\ call.what # "swipe" =>
           ~unsure /\ \E k \in DOMAIN boxesSeen : Head(presses) \in boxesSeen[k]
    BY <1>5, PressedIsSeen
  <2> QED BY <2>1, <2>2 DEF InTheEnd, Screens!PressesAreFresh
<1>6. ScreenIInv => Screens!ScreenIsSound
  BY <1>1, <1>2, <1>3, <1>4, <1>5 DEF Screens!ScreenIsSound
<1> QED BY <1>6, ScreenInvariant, PTL

=============================================================================
