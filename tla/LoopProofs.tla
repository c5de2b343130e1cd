----------------------------- MODULE LoopProofs -----------------------------
(***************************************************************************)
(* The two halves of the scheduler's loop.  It does not sleep on what it   *)
(* was told: for every limit of errors, every interleaving of the handlers *)
(* with the loop and with the pause of a pipeline that clears the same     *)
(* event.  And no edit of a watched file is lost, however the loop, a      *)
(* direct run, the WebUI and the editor of a file interleave, and however  *)
(* long they run.  Then the pool of threads of the device's calls.  At the *)
(* end, the last who is told of an edit: a browser tab, by the version.    *)
(***************************************************************************)
EXTENDS MCLoop, Sequences, FiniteSetTheorems, TLAPS

\* Before the loop waits, what it was told since it computed its interval is in the flag, or
\* about to be, or was taken away by a pause.
ToldBeforeWait == at["loop"] = "enter" /\ asked => wake \/ http = "wake" \/ stolen

\* The inductive invariant.
IInv == TypeOK /\ ToldBeforeWait /\ WakeUpIsKept

LoopLabels == {"top", "plan", "enter", "sleep", "woken", "error", "dispatch", "acquire", "gone"}

\* Goto changes the place of one thread, and no other's.
LEMMA Moved ==
    ASSUME at \in Labels, NEW t \in Threads, NEW label, Goto(t, label),
           label \in PipelineLabels \/ (t = "loop" /\ label \in LoopLabels)
               \/ (t = "direct" /\ label = "off")
    PROVE  /\ at' \in Labels
           /\ at'[t] = label
           /\ \A u \in Threads \ {t} : at'[u] = at[u]
BY DEF Labels, Threads, Goto, PipelineLabels, LoopLabels

\* Who sets the event lets go whoever waits, and moves nobody else.
LEMMA LetGo ==
    ASSUME at \in Labels, SetWake
    PROVE  /\ at' \in Labels
           /\ wake' = TRUE
           /\ at'["loop"] \notin {"enter", "sleep"}
               \/ (at'["loop"] = "enter" /\ at["loop"] = "enter")
<1>1. \A label : Awake(label) = IF label = "sleep" THEN "woken"
                               ELSE IF label = "pause" THEN "resume" ELSE label
  BY DEF Awake
<1> QED BY <1>1 DEF SetWake, Labels, Threads, PipelineLabels

\* A failure that is recorded leaves the count within its limit, and ERROR with its moment.
LEMMA FailureCounted ==
    ASSUME TypeOK, RecordFailure
    PROVE  /\ state' \in {"PENDING", "RUNNING", "ERROR"}
           /\ errors' \in 0..MaxErrors /\ errorAt' \in {"none", "hot", "cool"}
           /\ state' = "ERROR" => errorAt' # "none"
BY MaxErrorsAssumption DEF TypeOK, RecordFailure

\* In the beginning there is no thread, and nothing was told.
LEMMA InitIInv == Init => IInv
<1> SUFFICES ASSUME Init PROVE IInv
  OBVIOUS
<1> USE DEF Init
<1>1. at \in Labels /\ at["loop"] = "gone"
  BY DEF Labels, PipelineLabels
<1>2. errors \in 0..MaxErrors
  BY MaxErrorsAssumption
<1>3. TypeOK
  BY <1>1, <1>2 DEF TypeOK, Threads
<1> QED BY <1>1, <1>3 DEF IInv, ToldBeforeWait, WakeUpIsKept

\* Every step keeps it.
LEMMA NextIInv == IInv /\ [Next]_vars => IInv'
<1> SUFFICES ASSUME IInv, [Next]_vars PROVE IInv'
  OBVIOUS
<1> USE DEF IInv, TypeOK, ToldBeforeWait, WakeUpIsKept, Threads, PipelineLabels, LoopLabels,
            sched, asks
<1>1. CASE ClearWake
  <2>1. at' \in Labels /\ at'["loop"] = "plan"
    BY <1>1, Moved DEF ClearWake
  <2>2. wake' \in BOOLEAN
    BY <1>1 DEF ClearWake
  <2> QED BY <1>1, <2>1, <2>2 DEF ClearWake
<1>2. CASE Plan
  <2>1. Interval \in {"hour", "next", "minute", "now"}
    BY DEF Interval
  <2>2. at' \in Labels /\ at'["loop"] = "enter"
    BY <1>2, Moved DEF Plan
  <2>3. /\ sleep' \in {"hour", "next", "minute", "now"}
        /\ asked' = FALSE /\ stolen' = FALSE
        /\ UNCHANGED <<sched, wake, entry, holder, http>>
    BY <1>2, <2>1 DEF Plan
  <2> QED BY <1>2, <2>2, <2>3, Moved DEF Plan
<1>3. CASE EnterWait
  BY <1>3, Moved DEF EnterWait
<1>4. CASE TimeOut
  BY <1>4, Moved DEF TimeOut
<1>5. CASE Woken
  BY <1>5, Moved DEF Woken
<1>6. CASE Recover
  <2>1. at' \in Labels /\ at'["loop"] = "dispatch"
    BY <1>6, Moved DEF Recover
  <2>2. wake' \in BOOLEAN
    BY <1>6 DEF Recover
  <2>3. errors' \in 0..MaxErrors
    BY <1>6, MaxErrorsAssumption DEF Recover
  <2> QED BY <1>6, <2>1, <2>2, <2>3 DEF Recover
<1>7. CASE Dispatch
  BY <1>7, Moved DEF Dispatch
<1>8. CASE Acquire
  BY <1>8, Moved DEF Acquire
<1>9. ASSUME NEW t \in Threads, Turn(t) PROVE IInv'
  <2>1. CASE TakeTask(t)
    BY <2>1, Moved DEF TakeTask
  <2>2. CASE LeaveTurns(t)
    BY <2>2, Moved DEF LeaveTurns
  <2>3. CASE EndTask(t)
    <3>1. /\ state' \in {"PENDING", "RUNNING", "ERROR"}
          /\ errors' \in 0..MaxErrors /\ errorAt' \in {"none", "hot", "cool"}
          /\ state' = "ERROR" => errorAt' # "none"
      BY <2>3, FailureCounted, MaxErrorsAssumption DEF EndTask
    <3>2. entry' \in {"none", "later", "due"}
      BY <2>3 DEF EndTask
    <3> QED BY <2>3, <3>1, <3>2, Moved DEF EndTask
  <2>4. CASE DeviceFails(t)
    BY <2>4, Moved, FailureCounted DEF DeviceFails
  <2>5. CASE ClearForPause(t)
    <3>1. /\ at' \in Labels
          /\ at'["loop"] = "pause" \/ (at'["loop"] = at["loop"] /\ t = "direct")
      BY <2>5, Moved DEF ClearForPause
    <3>2. wake' \in BOOLEAN /\ stolen' \in BOOLEAN
      BY <2>5 DEF ClearForPause
    <3>3. TypeOK'
      BY <2>5, <3>1, <3>2 DEF ClearForPause
    <3>4. (ToldBeforeWait /\ WakeUpIsKept)'
      BY <2>5, <3>1 DEF ClearForPause
    <3> QED BY <3>3, <3>4
  <2>6. CASE EndPause(t)
    BY <2>6, Moved DEF EndPause
  <2>7. CASE Resume(t)
    BY <2>7, Moved DEF Resume
  <2>8. CASE Release(t)
    BY <2>8, Moved DEF Release
  <2> QED BY <1>9, <2>1, <2>2, <2>3, <2>4, <2>5, <2>6, <2>7, <2>8 DEF Turn
<1>10. CASE SaveTask
  BY <1>10 DEF SaveTask, ToWake
<1>11. CASE Activate
  <2>1. /\ at' \in Labels
        /\ at'["loop"] = at["loop"] \/ at'["loop"] = "top"
    BY <1>11, Moved DEF Activate
  <2>2. stopEv' \in BOOLEAN /\ asked' \in BOOLEAN
    BY <1>11 DEF Activate, ToWake
  <2>3. errors' \in 0..MaxErrors
    BY <1>11, MaxErrorsAssumption DEF Activate
  <2>4. TypeOK'
    BY <1>11, <2>1, <2>2, <2>3 DEF Activate, ToWake
  <2>5. (ToldBeforeWait /\ WakeUpIsKept)'
    BY <1>11 DEF Activate, ToWake
  <2> QED BY <2>4, <2>5
<1>12. CASE RequestStop
  BY <1>12, MaxErrorsAssumption DEF RequestStop, ToWake
<1>13. CASE Shutdown
  BY <1>13 DEF Shutdown, ToWake
<1>14. CASE Wake
  BY <1>14, LetGo DEF Wake
<1>15. CASE ResetError
  BY <1>15, MaxErrorsAssumption DEF ResetError
<1>16. CASE StartDirect
  BY <1>16, Moved DEF StartDirect
<1>17. CASE Arrives
  BY <1>17 DEF Arrives
<1>18. CASE CoolDown
  BY <1>18 DEF CoolDown
<1>19. CASE UNCHANGED vars
  BY <1>19 DEF vars
<1> QED BY <1>1, <1>2, <1>3, <1>4, <1>5, <1>6, <1>7, <1>8, <1>9, <1>10, <1>11, <1>12, <1>13,
           <1>14, <1>15, <1>16, <1>17, <1>18, <1>19 DEF Next, LoopStep

\* The inductive invariant holds of every behaviour.
THEOREM WakeUpInvariant == Spec => []IInv
BY InitIInv, NextIInv, PTL DEF Spec

\* Types hold, ERROR has the moment it recovers from, and the loop does not sleep on what a
\* handler has told it, unless the handler is about to wake it, or a pause has stolen the event.
THEOREM LoopSoundness == Spec => []LoopIsSound
<1>1. IInv => LoopIsSound
  BY DEF IInv, LoopIsSound
<1> QED BY WakeUpInvariant, <1>1, PTL

-----------------------------------------------------------------------------
(* The other half: the reload of edited files, on variables of its own.      *)

\* What excuses a file whose edit is not in memory, place by place: while a reload is under
\* way, or its end, nothing is left but what came after its beginning (or its failure);
\* from then on, until the watcher is asked again, config.json is not taken for seen
\* unless it is, or its reload is still to come.
Excused ==
    /\ thread["loop"] = "seen" => unloaded \subseteq late \/ deferred
    /\ thread["loop"] = "reloading" \/ (\E t \in Reload!Threads : thread[t] = "reloads")
        => unloaded \subseteq late
    /\ thread["loop"] \in Reload!PipelineLabels \cup {"dispatch", "settle"} /\ "config" \in unloaded
         => "config" \in late \/ deferred

\* The inductive invariant.
ReloadIInv == Reload!TypeOK /\ Reload!EditsAreAccounted /\ Excused

ReloadLoopLabels == {"wait", "watch", "reload", "reloading", "seen", "dispatch", "settle"}
DirectLabels == {"off", "begin"}

\* Goto changes the place of one thread, and no other's.
LEMMA ReloadMoved ==
    ASSUME thread \in Reload!Labels, NEW t \in Reload!Threads, NEW label, Reload!Goto(t, label),
           label \in Reload!PipelineLabels \/ (t = "loop" /\ label \in ReloadLoopLabels)
               \/ (t = "direct" /\ label \in DirectLabels)
    PROVE  /\ thread' \in Reload!Labels
           /\ thread'[t] = label
           /\ \A u \in Reload!Threads \ {t} : thread'[u] = thread[u]
BY DEF Reload!Labels, Reload!Threads, Reload!Goto, Reload!PipelineLabels, ReloadLoopLabels,
    DirectLabels

\* In the beginning all threads are at rest and all files are loaded.
LEMMA ReloadInitIInv == Reload!Init => ReloadIInv
<1> SUFFICES ASSUME Reload!Init PROVE ReloadIInv
  OBVIOUS
<1> USE DEF Reload!Init
<1>1. thread["loop"] = "wait" /\ thread["direct"] = "off"
  OBVIOUS
<1>2. thread \in Reload!Labels
  BY DEF Reload!Labels, Reload!PipelineLabels
<1>3. \A t \in Reload!Threads : thread[t] \notin Reload!PipelineLabels \cup {"begin"}
  BY <1>1 DEF Reload!Threads, Reload!PipelineLabels
<1>4. Reload!TypeOK
  BY <1>2, <1>3 DEF Reload!TypeOK, Reload!Threads, Reload!Kinds
<1> QED BY <1>1, <1>3, <1>4 DEF ReloadIInv, Reload!EditsAreAccounted, Excused, Reload!PipelineLabels

\* Who is in the pipeline, and whether it is active, follows the one thread that moves.
LEMMA TypesKept == ReloadIInv /\ [Reload!Next]_(Reload!vars) => Reload!TypeOK'
<1> SUFFICES ASSUME ReloadIInv, [Reload!Next]_(Reload!vars) PROVE Reload!TypeOK'
  OBVIOUS
<1> USE DEF ReloadIInv, Reload!TypeOK, Reload!Threads, Reload!PipelineLabels, ReloadLoopLabels,
            DirectLabels, Reload!Kinds, Reload!files
<1>1. CASE Reload!Woken
  BY <1>1, ReloadMoved DEF Reload!Woken
<1>2. CASE Reload!Watch
  BY <1>2, ReloadMoved DEF Reload!Watch
<1>3. CASE Reload!PutOff
  BY <1>3, ReloadMoved DEF Reload!PutOff
<1>4. CASE Reload!BeginReload
  BY <1>4, ReloadMoved DEF Reload!BeginReload, Reload!Read
<1>5. CASE Reload!FailReload
  BY <1>5, ReloadMoved DEF Reload!FailReload
<1>6. CASE Reload!EndReload
  <2>1. /\ thread' \in Reload!Labels /\ thread'["loop"] = "seen"
        /\ \A u \in Reload!Threads \ {"loop"} : thread'[u] = thread[u]
    BY <1>6, ReloadMoved DEF Reload!EndReload, Reload!Loaded
  <2>2. /\ thread["loop"] = "reloading" /\ deferred' = FALSE
        /\ UNCHANGED <<gate, active, unseen, unloaded, late>>
    BY <1>6 DEF Reload!EndReload, Reload!Loaded
  <2> QED BY <2>1, <2>2
<1>7. CASE Reload!MarkSeen
  BY <1>7, ReloadMoved DEF Reload!MarkSeen, Reload!Seen
<1>8. CASE Reload!Dispatch
  BY <1>8, ReloadMoved DEF Reload!Dispatch
<1>9. CASE Reload!Settle
  BY <1>9, ReloadMoved DEF Reload!Settle, Reload!Seen
<1>10. CASE Reload!StartDirect
  BY <1>10, ReloadMoved DEF Reload!StartDirect
<1>11. CASE Reload!BeginDirect
  BY <1>11, ReloadMoved DEF Reload!BeginDirect
<1>12. ASSUME NEW t \in Reload!Threads, Reload!Turn(t) PROVE Reload!TypeOK'
  <2>1. CASE Reload!Head(t)
    BY <2>1, ReloadMoved DEF Reload!Head
  <2>2. CASE Reload!EndTask(t)
    <3>1. /\ unseen' \subseteq Reload!Kinds /\ unloaded' \subseteq Reload!Kinds
          /\ late' \subseteq Reload!Kinds
          /\ UNCHANGED <<gate, active, deferred>>
      BY <2>2 DEF Reload!EndTask, Reload!WriteConfig
    <3> QED BY <2>2, <3>1, ReloadMoved DEF Reload!EndTask
  <2>3. CASE Reload!SaveTurn(t)
    BY <2>3, ReloadMoved DEF Reload!SaveTurn, Reload!WriteConfig
  <2>4. CASE Reload!ReadDeferred(t)
    BY <2>4, ReloadMoved DEF Reload!ReadDeferred, Reload!Read
  <2>5. CASE Reload!FailDeferred(t)
    BY <2>5, ReloadMoved DEF Reload!FailDeferred
  <2>6. CASE Reload!EndDeferred(t)
    <3>1. /\ thread' \in Reload!Labels /\ thread'[t] = "head"
          /\ \A u \in Reload!Threads \ {t} : thread'[u] = thread[u]
      BY <2>6, ReloadMoved DEF Reload!EndDeferred, Reload!Loaded
    <3>2. /\ thread[t] = "reloads" /\ deferred' = FALSE
          /\ UNCHANGED <<gate, active, unseen, unloaded, late>>
      BY <2>6 DEF Reload!EndDeferred, Reload!Loaded
    <3> QED BY <3>1, <3>2
  <2>7. CASE Reload!EndPipeline(t)
    BY <2>7, ReloadMoved DEF Reload!EndPipeline
  <2>8. CASE Reload!Release(t)
    BY <2>8, ReloadMoved DEF Reload!Release
  <2> QED BY <1>12, <2>1, <2>2, <2>3, <2>4, <2>5, <2>6, <2>7, <2>8 DEF Reload!Turn
<1>13. CASE Reload!SaveTask
  BY <1>13 DEF Reload!SaveTask, Reload!WriteConfig
<1>14. ASSUME NEW k \in Reload!Kinds, Reload!Edit(k) PROVE Reload!TypeOK'
  BY <1>14 DEF Reload!Edit
<1>15. CASE UNCHANGED Reload!vars
  BY <1>15 DEF Reload!vars
<1> QED BY <1>1, <1>2, <1>3, <1>4, <1>5, <1>6, <1>7, <1>8, <1>9, <1>10, <1>11, <1>12, <1>13,
           <1>14, <1>15 DEF Reload!Next

\* An edit that is not loaded stays accounted for.
LEMMA EditsKept == ReloadIInv /\ [Reload!Next]_(Reload!vars)
    => (Reload!EditsAreAccounted /\ Excused)'
<1> SUFFICES ASSUME ReloadIInv, [Reload!Next]_(Reload!vars)
            PROVE (Reload!EditsAreAccounted /\ Excused)'
  OBVIOUS
<1> USE DEF ReloadIInv, Reload!TypeOK, Reload!EditsAreAccounted, Excused, Reload!Threads,
            Reload!PipelineLabels, ReloadLoopLabels,
            DirectLabels, Reload!Kinds, Reload!files
<1>1. CASE Reload!Woken
  BY <1>1, ReloadMoved DEF Reload!Woken
<1>2. CASE Reload!Watch
  BY <1>2, ReloadMoved DEF Reload!Watch
<1>3. CASE Reload!PutOff
  BY <1>3, ReloadMoved DEF Reload!PutOff
<1>4. CASE Reload!BeginReload
  BY <1>4, ReloadMoved DEF Reload!BeginReload, Reload!Read
<1>5. CASE Reload!FailReload
  BY <1>5, ReloadMoved DEF Reload!FailReload
<1>6. CASE Reload!EndReload
  BY <1>6, ReloadMoved DEF Reload!EndReload, Reload!Loaded
<1>7. CASE Reload!MarkSeen
  BY <1>7, ReloadMoved DEF Reload!MarkSeen, Reload!Seen
<1>8. CASE Reload!Dispatch
  BY <1>8, ReloadMoved DEF Reload!Dispatch
<1>9. CASE Reload!Settle
  BY <1>9, ReloadMoved DEF Reload!Settle, Reload!Seen
<1>10. CASE Reload!StartDirect
  BY <1>10, ReloadMoved DEF Reload!StartDirect
<1>11. CASE Reload!BeginDirect
  BY <1>11, ReloadMoved DEF Reload!BeginDirect
<1>12. ASSUME NEW t \in Reload!Threads, Reload!Turn(t) PROVE (Reload!EditsAreAccounted /\ Excused)'
  <2>1. CASE Reload!Head(t)
    BY <2>1, ReloadMoved DEF Reload!Head
  <2>2. CASE Reload!EndTask(t)
    <3>1. /\ thread' \in Reload!Labels /\ thread'[t] = "turn"
          /\ \A u \in Reload!Threads \ {t} : thread'[u] = thread[u]
      BY <2>2, ReloadMoved DEF Reload!EndTask
    <3>2. /\ thread[t] = "task" /\ UNCHANGED <<gate, active, deferred, late>>
          /\ \/ unseen' = unseen \cup {"config"} /\ unloaded' = unloaded \ {"config"}
             \/ UNCHANGED <<unseen, unloaded>>
      BY <2>2 DEF Reload!EndTask, Reload!WriteConfig
    <3> QED BY <3>1, <3>2
  <2>3. CASE Reload!SaveTurn(t)
    BY <2>3, ReloadMoved DEF Reload!SaveTurn, Reload!WriteConfig
  <2>4. CASE Reload!ReadDeferred(t)
    BY <2>4, ReloadMoved DEF Reload!ReadDeferred, Reload!Read
  <2>5. CASE Reload!FailDeferred(t)
    BY <2>5, ReloadMoved DEF Reload!FailDeferred
  <2>6. CASE Reload!EndDeferred(t)
    BY <2>6, ReloadMoved DEF Reload!EndDeferred, Reload!Loaded
  <2>7. CASE Reload!EndPipeline(t)
    BY <2>7, ReloadMoved DEF Reload!EndPipeline
  <2>8. CASE Reload!Release(t)
    BY <2>8, ReloadMoved DEF Reload!Release
  <2> QED BY <1>12, <2>1, <2>2, <2>3, <2>4, <2>5, <2>6, <2>7, <2>8 DEF Reload!Turn
<1>13. CASE Reload!SaveTask
  BY <1>13 DEF Reload!SaveTask, Reload!WriteConfig
<1>14. ASSUME NEW k \in Reload!Kinds, Reload!Edit(k) PROVE (Reload!EditsAreAccounted /\ Excused)'
  BY <1>14 DEF Reload!Edit, Reload!Handling
<1>15. CASE UNCHANGED Reload!vars
  BY <1>15 DEF Reload!vars
<1> QED BY <1>1, <1>2, <1>3, <1>4, <1>5, <1>6, <1>7, <1>8, <1>9, <1>10, <1>11, <1>12, <1>13,
           <1>14, <1>15 DEF Reload!Next

\* The inductive invariant holds of every behaviour.
THEOREM ReloadInvariant == Reload!Spec => []ReloadIInv
<1>1. ReloadIInv /\ [Reload!Next]_(Reload!vars) => ReloadIInv'
  BY TypesKept, EditsKept DEF ReloadIInv
<1> QED BY ReloadInitIInv, <1>1, PTL DEF Reload!Spec

\* Types hold, the gate and the flag go with the pipeline, and no edit is one that nobody will
\* load, unless it was made while another was handled, or its reload has failed.
THEOREM ReloadSoundness == Reload!Spec => []ReloadIsSound
<1>1. ReloadIInv => ReloadIsSound
  BY DEF ReloadIInv, ReloadIsSound, Reload!ReloadIsSound
<1> QED BY ReloadInvariant, <1>1, PTL

-----------------------------------------------------------------------------
(* The pool of threads, for any number of clients, places and calls: it is *)
(* bounded, loses no place, runs no job twice, and hands out no worker     *)
(* that is not there, unless a kill has met one between two jobs.          *)

Sizes == PoolSize \in Nat /\ MaxJobs \in Nat /\ Pool!Nobody \notin Clients

\* A client that does not rest has one call, of its own.
Calls ==
    /\ \A c \in Clients : pc[c] = "rest" <=> call[c] = Pool!NoJob
    /\ \A c \in Clients : call[c] <= last
    /\ \A c, d \in Clients : call[c] = call[d] /\ call[c] # Pool!NoJob => c = d

\* A job that is not yet made is nowhere.
Unmade(j) == j > last \/ \E c \in Clients : call[c] = j /\ pc[c] \in Pool!Waits

Nowhere ==
    \A j \in Pool!Jobs : Unmade(j) =>
        /\ ran[j] = 0 /\ result[j] = "none" /\ carrier[j] = Pool!Nobody /\ worker[j] = "none"
        /\ \A w \in Pool!Workers : given[w] # j

\* Who is about to add to the pool has its lock, and has seen the place since he has it.
Places ==
    /\ \A c \in Clients : pc[c] \in {"fullLocked", "create"} <=> creator = c
    /\ \A c \in Clients : pc[c] = "create" => Cardinality(all) < PoolSize
    /\ Cardinality(all) <= PoolSize

\* A job waits at one worker at most, and has been run when it is in hand or answered.
Once ==
    /\ \A w \in Pool!Workers : given[w] # Pool!NoJob => ran[given[w]] = 0
    /\ \A v, w \in Pool!Workers : given[v] = given[w] /\ given[v] # Pool!NoJob => v = w
    /\ \A w \in Pool!Workers : hand[w] # Pool!NoJob => ran[hand[w]] = 1
    /\ \A j \in Pool!Jobs : ran[j] <= 1 /\ (result[j] # "none" => ran[j] = 1)

\* Where a worker is says what it has: only one that waits, or is about to or is gone, is
\* idle or has been given a job.
Posts ==
    /\ \A w \in Pool!Workers : worker[w] \in {"run", "mark", "put"} <=> hand[w] # Pool!NoJob
    /\ \A w \in Pool!Workers : worker[w] \in {"none", "run", "mark", "leave"}
        => w \notin idle /\ given[w] = Pool!NoJob
    /\ \A w \in idle : given[w] = Pool!NoJob
    /\ \A w \in all : w \notin shot /\ Pool!Alive(w)
    /\ \A w \in all : worker[w] \in {"wait", "put"} => w \in idle \/ given[w] # Pool!NoJob
    /\ \A w \in shot : worker[w] # "none"
    /\ \A j \in Pool!Jobs : carrier[j] # Pool!Nobody => worker[carrier[j]] # "none"

\* As long as every kill meets the worker at the job it is meant for, a worker that is to be
\* struck is at that job, one that idles or works is in the pool, and a client that waits for
\* an answer has the worker who will give it.
StruckAtWork == \A w \in shot : worker[w] = "run" /\ \A c \in Clients : call[c] # hand[w]

Counted(w) ==
    w \in idle \/ given[w] # Pool!NoJob \/ (worker[w] \in {"run", "mark", "put"} /\ w \notin shot)
        => w \in all

Served(c) ==
    pc[c] = "get" /\ result[call[c]] = "none" =>
        LET w == carrier[call[c]] IN w # Pool!Nobody /\ (given[w] = call[c] \/ hand[w] = call[c])

Uncrossed ==
    ~crossed => StruckAtWork /\ (\A w \in Pool!Workers : Counted(w))
        /\ (\A c \in Clients : Served(c))

\* The inductive invariant.
PoolIInv == Pool!TypeOK /\ Calls /\ Nowhere /\ Places /\ Once /\ Posts /\ Uncrossed

-----------------------------------------------------------------------------
(* The steps of a client, sorted by what they do.                            *)

\* It gets an idle worker, ...
Picks(c, w) ==
    /\ pc[c] \in {"pop", "full", "lock", "fullLocked"}
    /\ w \in idle /\ idle' = idle \ {w} /\ UNCHANGED <<worker, all>>
    /\ creator' = IF pc[c] = "fullLocked" THEN Pool!Nobody ELSE creator
    /\ Pool!Assign(c, w)

\* ... or goes on waiting for one, ...
Waits1(c) ==
    /\ pc[c] \in {"pop", "full"} /\ creator' = creator
    /\ \E label \in {"full", "lock"} : Pool!GoTo(c, label)

\* ... or waits with the lock, ...
Locks(c) == pc[c] = "lock" /\ creator = Pool!Nobody /\ creator' = c /\ Pool!GoTo(c, "fullLocked")

\* ... or sees that there is a place.
SeesPlace(c) ==
    /\ \/ pc[c] = "lock" /\ creator = Pool!Nobody
       \/ pc[c] = "fullLocked" /\ creator = c
    /\ creator' = c /\ ~Pool!Full
    /\ Pool!GoTo(c, "create")

\* The pool counts with the operator of its own module.
LEMMA Counting == \A S : Pool!Cardinality(S) = Cardinality(S)
BY DEF Pool!Cardinality, Cardinality

LEMMA Steps ==
    ASSUME Places, [Pool!Next]_(Pool!vars)
    PROVE  \/ \E c \in Clients :
                \/ Pool!Ask(c) \/ (\E w \in idle : Picks(c,
                    w)) \/ Waits1(c) \/ Locks(c) \/ SeesPlace(c)
                \/ Pool!Create(c) \/ Pool!Get(c) \/ Pool!Kill(c)
           \/ \E w \in Pool!Workers : Pool!Worker(w)
           \/ UNCHANGED Pool!vars
<1>1. ASSUME NEW c \in Clients, Pool!PopFirst(c) PROVE (\E w \in idle : Picks(c, w)) \/ Waits1(c)
  BY <1>1 DEF Pool!PopFirst, Pool!Pop, Picks, Waits1, Pool!GoTo
<1>2. ASSUME NEW c \in Clients, Pool!WaitFull(c) PROVE (\E w \in idle : Picks(c, w)) \/ Waits1(c)
  BY <1>2 DEF Pool!WaitFull, Pool!Pop, Picks, Waits1, Pool!GoTo
<1>3. ASSUME NEW c \in Clients, Pool!Lock(c)
      PROVE  (\E w \in idle : Picks(c, w)) \/ Locks(c) \/ SeesPlace(c)
  BY <1>3 DEF Pool!Lock, Pool!Pop, Picks, Locks, SeesPlace
<1>4. ASSUME NEW c \in Clients, Pool!WaitFullLocked(c)
      PROVE  (\E w \in idle : Picks(c, w)) \/ SeesPlace(c)
  BY <1>4 DEF Pool!WaitFullLocked, Pool!Pop, Picks, SeesPlace, Places
<1> QED BY <1>1, <1>2, <1>3, <1>4 DEF Pool!Next, Pool!Client

\* The types are kept.
LEMMA PoolTypesKept == Sizes /\ Places /\ Calls /\ Pool!TypeOK /\ [Pool!Next]_(Pool!vars)
    => Pool!TypeOK'
<1> SUFFICES ASSUME Sizes, Places, Calls, Pool!TypeOK, [Pool!Next]_(Pool!vars) PROVE Pool!TypeOK'
  OBVIOUS
<1> USE DEF Pool!TypeOK, Sizes, Pool!Jobs, Pool!Workers, Pool!Waits, Pool!workerVars,
            Pool!poolVars, Pool!clientVars
<1>1. ASSUME NEW c \in Clients, Pool!Ask(c) PROVE Pool!TypeOK'
  <2>1. last' \in 0..MaxJobs /\ last + 1 \in Pool!Jobs
    BY <1>1 DEF Pool!Ask
  <2>2. call' \in [Clients -> Pool!Jobs \cup {Pool!NoJob}]
        /\ pc' \in [Clients -> Pool!Waits \cup {"rest", "get"}]
    BY <1>1, <2>1 DEF Pool!Ask
  <2> QED BY <1>1, <2>1, <2>2 DEF Pool!Ask
<1>2. ASSUME NEW c \in Clients, NEW w \in idle, Picks(c, w) PROVE Pool!TypeOK'
  BY <1>2 DEF Picks, Pool!Assign
<1>3. ASSUME NEW c \in Clients, Waits1(c) PROVE Pool!TypeOK'
  BY <1>3, SMTT(60) DEF Waits1, Pool!GoTo
<1>4. ASSUME NEW c \in Clients, Locks(c) PROVE Pool!TypeOK'
  BY <1>4 DEF Locks, Pool!GoTo
<1>5. ASSUME NEW c \in Clients, SeesPlace(c) PROVE Pool!TypeOK'
  BY <1>5 DEF SeesPlace, Pool!GoTo
<1>6. ASSUME NEW c \in Clients, Pool!Create(c) PROVE Pool!TypeOK'
  <2>1. call[c] \in Pool!Workers
    BY <1>6 DEF Pool!Create, Calls
  <2> QED BY <1>6, <2>1 DEF Pool!Create, Pool!Assign
<1>7. ASSUME NEW c \in Clients, Pool!Get(c) PROVE Pool!TypeOK'
  BY <1>7 DEF Pool!Get, Pool!Return
<1>8. ASSUME NEW c \in Clients, Pool!Kill(c) PROVE Pool!TypeOK'
  <2>0. call[c] \in Pool!Jobs /\ carrier[call[c]] \in Pool!Workers \cup {Pool!Nobody}
    BY <1>8 DEF Pool!Kill, Calls
  <2>1. shot' \subseteq Pool!Workers /\ all' \subseteq Pool!Workers
    BY <1>8, <2>0 DEF Pool!Kill
  <2>2. carrier' \in [Pool!Jobs -> Pool!Workers \cup {Pool!Nobody}]
    BY <1>8 DEF Pool!Kill
  <2>3. pc' \in [Clients -> Pool!Waits \cup {"rest",
        "get"}] /\ call' \in [Clients -> Pool!Jobs \cup {Pool!NoJob}]
    BY <1>8 DEF Pool!Kill, Pool!Return
  <2>4. crossed' \in BOOLEAN
    BY <1>8 DEF Pool!Kill
  <2> QED BY <1>8, <2>1, <2>2, <2>3, <2>4 DEF Pool!Kill
<1>9. ASSUME NEW w \in Pool!Workers, Pool!TakeJob(w) PROVE Pool!TypeOK'
  <2>1. given[w] \in Pool!Jobs /\ given[w] # Pool!NoJob
    BY <1>9 DEF Pool!TakeJob
  <2>2. ran' \in [Pool!Jobs -> Nat]
    BY <1>9, <2>1 DEF Pool!TakeJob
  <2>3. hand' \in [Pool!Workers -> Pool!Jobs \cup {Pool!NoJob}]
        /\ given' \in [Pool!Workers -> Pool!Jobs \cup {Pool!NoJob}]
    BY <1>9 DEF Pool!TakeJob, Pool!NoJob
  <2> QED BY <1>9, <2>2, <2>3 DEF Pool!TakeJob, Pool!Move
<1>10. ASSUME NEW w \in Pool!Workers, Pool!Finish(w) PROVE Pool!TypeOK'
  BY <1>10 DEF Pool!Finish, Pool!Move
<1>11. ASSUME NEW w \in Pool!Workers, Pool!MarkIdle(w) PROVE Pool!TypeOK'
  BY <1>11 DEF Pool!MarkIdle, Pool!Move
<1>12. ASSUME NEW w \in Pool!Workers, Pool!Deliver(w) PROVE Pool!TypeOK'
  BY <1>12 DEF Pool!Deliver, Pool!Move
<1>13. ASSUME NEW w \in Pool!Workers, Pool!TimeOut(w) PROVE Pool!TypeOK'
  BY <1>13 DEF Pool!TimeOut, Pool!Move
<1>14. ASSUME NEW w \in Pool!Workers, Pool!Leave(w) PROVE Pool!TypeOK'
  BY <1>14 DEF Pool!Leave, Pool!Move
<1>15. ASSUME NEW w \in Pool!Workers, Pool!Struck(w) PROVE Pool!TypeOK'
  BY <1>15 DEF Pool!Struck, Pool!Move
<1>16. CASE UNCHANGED Pool!vars
  BY <1>16 DEF Pool!vars
<1> QED
  BY Steps, <1>1, <1>2, <1>3, <1>4, <1>5, <1>6, <1>7, <1>8, <1>9,
     <1>10, <1>11, <1>12, <1>13, <1>14, <1>15, <1>16 DEF Pool!Worker

\* What a step does to the size of the pool.
LEMMA PoolFinite ==
    ASSUME Sizes, Pool!TypeOK
    PROVE  /\ Cardinality(all) \in Nat
           /\ \A w \in Pool!Workers :
                /\ Cardinality(all \ {w}) <= Cardinality(all) /\ Cardinality(all \ {w}) \in Nat
                /\ Cardinality(all \cup {w}) <= Cardinality(all) + 1
                    /\ Cardinality(all \cup {w}) \in Nat
<1>1. IsFiniteSet(Pool!Workers)
  BY FS_Interval DEF Pool!Workers, Pool!Jobs, Sizes
<1>2. IsFiniteSet(all)
  BY <1>1, FS_Subset DEF Pool!TypeOK
<1>3. Cardinality(all) \in Nat
  BY <1>2, FS_CardinalityType
<1>4. ASSUME NEW w \in Pool!Workers
      PROVE  /\ Cardinality(all \ {w}) <= Cardinality(all) /\ Cardinality(all \ {w}) \in Nat
             /\ Cardinality(all \cup {w}) <= Cardinality(all) + 1
                 /\ Cardinality(all \cup {w}) \in Nat
  <2>1. Cardinality(all \ {w}) = IF w \in all THEN Cardinality(all) - 1 ELSE Cardinality(all)
    BY <1>2, FS_RemoveElement
  <2>2. Cardinality(all \ {w}) \in Nat
    BY <1>2, FS_RemoveElement, FS_CardinalityType
  <2>3. Cardinality(all \cup {w}) = IF w \in all THEN Cardinality(all) ELSE Cardinality(all) + 1
    BY <1>2, FS_AddElement
  <2> QED BY <1>3, <2>1, <2>2, <2>3
<1> QED BY <1>3, <1>4

\* A client has one call.
LEMMA CallsKept == Sizes /\ Pool!TypeOK /\ Calls /\ Places /\ [Pool!Next]_(Pool!vars) => Calls'
<1> SUFFICES ASSUME Sizes, Pool!TypeOK, Calls, Places, [Pool!Next]_(Pool!vars) PROVE Calls'
  OBVIOUS
<1> USE DEF Calls, Pool!TypeOK, Sizes, Pool!Jobs, Pool!Workers, Pool!Waits, Pool!NoJob,
            Pool!Nobody, Pool!workerVars, Pool!poolVars,
            Pool!clientVars
<1>1. ASSUME NEW c \in Clients, Pool!Ask(c) PROVE Calls'
  BY <1>1 DEF Pool!Ask
<1>2. ASSUME NEW c \in Clients, NEW w \in idle, Picks(c, w) PROVE Calls'
  BY <1>2 DEF Picks, Pool!Assign
<1>3. ASSUME NEW c \in Clients, Waits1(c) PROVE Calls'
  BY <1>3 DEF Waits1, Pool!GoTo
<1>4. ASSUME NEW c \in Clients, Locks(c) PROVE Calls'
  BY <1>4 DEF Locks, Pool!GoTo
<1>5. ASSUME NEW c \in Clients, SeesPlace(c) PROVE Calls'
  BY <1>5 DEF SeesPlace, Pool!GoTo
<1>6. ASSUME NEW c \in Clients, Pool!Create(c) PROVE Calls'
  BY <1>6 DEF Pool!Create, Pool!Assign
<1>7. ASSUME NEW c \in Clients, Pool!Get(c) PROVE Calls'
  BY <1>7 DEF Pool!Get, Pool!Return
<1>8. ASSUME NEW c \in Clients, Pool!Kill(c) PROVE Calls'
  BY <1>8 DEF Pool!Kill, Pool!Return
<1>9. ASSUME NEW w \in Pool!Workers, Pool!TakeJob(w) PROVE Calls'
  BY <1>9 DEF Pool!TakeJob, Pool!Move
<1>10. ASSUME NEW w \in Pool!Workers, Pool!Finish(w) PROVE Calls'
  BY <1>10 DEF Pool!Finish, Pool!Move
<1>11. ASSUME NEW w \in Pool!Workers, Pool!MarkIdle(w) PROVE Calls'
  BY <1>11 DEF Pool!MarkIdle, Pool!Move
<1>12. ASSUME NEW w \in Pool!Workers, Pool!Deliver(w) PROVE Calls'
  BY <1>12 DEF Pool!Deliver, Pool!Move
<1>13. ASSUME NEW w \in Pool!Workers, Pool!TimeOut(w) PROVE Calls'
  BY <1>13 DEF Pool!TimeOut, Pool!Move
<1>14. ASSUME NEW w \in Pool!Workers, Pool!Leave(w) PROVE Calls'
  BY <1>14 DEF Pool!Leave, Pool!Move
<1>15. ASSUME NEW w \in Pool!Workers, Pool!Struck(w) PROVE Calls'
  BY <1>15 DEF Pool!Struck, Pool!Move
<1>16. CASE UNCHANGED Pool!vars
  BY <1>16 DEF Pool!vars
<1> QED
  BY Steps, <1>1, <1>2, <1>3, <1>4, <1>5, <1>6, <1>7, <1>8, <1>9,
     <1>10, <1>11, <1>12, <1>13, <1>14, <1>15, <1>16 DEF Pool!Worker

\* What is not made is nowhere.
LEMMA NowhereKept == Sizes /\ Pool!TypeOK /\ Calls /\ Places /\ Nowhere /\ Posts /\ Once
    /\ [Pool!Next]_(Pool!vars) => Nowhere'
<1> SUFFICES ASSUME Sizes, Pool!TypeOK, Calls, Places, Nowhere, Posts, Once,
            [Pool!Next]_(Pool!vars) PROVE Nowhere'
  OBVIOUS
<1> USE DEF Nowhere, Unmade, Pool!TypeOK, Sizes, Pool!Jobs, Pool!Workers, Pool!Waits, Pool!NoJob,
            Pool!Nobody, Pool!workerVars,
            Pool!poolVars, Pool!clientVars
<1>1. ASSUME NEW c \in Clients, Pool!Ask(c) PROVE Nowhere'
  BY <1>1 DEF Pool!Ask
<1>2. ASSUME NEW c \in Clients, NEW w \in idle, Picks(c, w) PROVE Nowhere'
  <2>1. call[c] \in Pool!Jobs /\ call[c] # Pool!NoJob /\ pc[c] \in Pool!Waits /\ Unmade(call[c])
    BY <1>2 DEF Picks, Calls, Unmade
  <2>2. /\ ran[call[c]] = 0 /\ result[call[c]] = "none" /\ worker[call[c]] = "none"
        /\ \A v \in Pool!Workers : given[v] # call[c]
    BY <2>1 DEF Nowhere
  <2>3. ASSUME NEW j \in Pool!Jobs, Unmade(j)' PROVE Unmade(j) /\ j # call[c]
    BY <1>2, <2>1, <2>3 DEF Picks, Pool!Assign, Calls, Unmade
  <2>4. ASSUME NEW j \in Pool!Jobs, Unmade(j)'
        PROVE  /\ ran'[j] = 0 /\ result'[j] = "none" /\ carrier'[j] = Pool!Nobody
            /\ worker'[j] = "none"
               /\ \A v \in Pool!Workers : given'[v] # j
    <3>1. /\ ran[j] = 0 /\ result[j] = "none" /\ carrier[j] = Pool!Nobody /\ worker[j] = "none"
          /\ \A v \in Pool!Workers : given[v] # j
      BY <2>3, <2>4
    <3> QED BY <1>2, <2>1, <2>3, <2>4, <3>1 DEF Picks, Pool!Assign
  <2> QED BY <2>4
<1>3. ASSUME NEW c \in Clients, Waits1(c) PROVE Nowhere'
  BY <1>3 DEF Waits1, Pool!GoTo
<1>4. ASSUME NEW c \in Clients, Locks(c) PROVE Nowhere'
  BY <1>4 DEF Locks, Pool!GoTo
<1>5. ASSUME NEW c \in Clients, SeesPlace(c) PROVE Nowhere'
  BY <1>5 DEF SeesPlace, Pool!GoTo
<1>6. ASSUME NEW c \in Clients, Pool!Create(c) PROVE Nowhere'
  <2>1. call[c] \in Pool!Jobs /\ call[c] # Pool!NoJob /\ pc[c] \in Pool!Waits /\ Unmade(call[c])
    BY <1>6 DEF Pool!Create, Calls, Unmade
  <2>2. /\ ran[call[c]] = 0 /\ result[call[c]] = "none" /\ worker[call[c]] = "none"
        /\ \A v \in Pool!Workers : given[v] # call[c]
    BY <2>1 DEF Nowhere
  <2>3. ASSUME NEW j \in Pool!Jobs, Unmade(j)' PROVE Unmade(j) /\ j # call[c]
    BY <1>6, <2>1, <2>3 DEF Pool!Create, Pool!Assign, Calls, Unmade
  <2>4. ASSUME NEW j \in Pool!Jobs, Unmade(j)'
        PROVE  /\ ran'[j] = 0 /\ result'[j] = "none" /\ carrier'[j] = Pool!Nobody
            /\ worker'[j] = "none"
               /\ \A v \in Pool!Workers : given'[v] # j
    <3>1. /\ ran[j] = 0 /\ result[j] = "none" /\ carrier[j] = Pool!Nobody /\ worker[j] = "none"
          /\ \A v \in Pool!Workers : given[v] # j
      BY <2>3, <2>4
    <3> QED BY <1>6, <2>1, <2>3, <2>4, <3>1 DEF Pool!Create, Pool!Assign
  <2> QED BY <2>4
<1>7. ASSUME NEW c \in Clients, Pool!Get(c) PROVE Nowhere'
  BY <1>7 DEF Pool!Get, Pool!Return
<1>8. ASSUME NEW c \in Clients, Pool!Kill(c) PROVE Nowhere'
  BY <1>8, SMTT(60) DEF Pool!Kill, Pool!Return
<1>9. ASSUME NEW w \in Pool!Workers, Pool!TakeJob(w) PROVE Nowhere'
  BY <1>9 DEF Pool!TakeJob, Pool!Move
<1>10. ASSUME NEW w \in Pool!Workers, Pool!Finish(w) PROVE Nowhere'
  BY <1>10 DEF Pool!Finish, Pool!Move
<1>11. ASSUME NEW w \in Pool!Workers, Pool!MarkIdle(w) PROVE Nowhere'
  BY <1>11 DEF Pool!MarkIdle, Pool!Move
<1>12. ASSUME NEW w \in Pool!Workers, Pool!Deliver(w) PROVE Nowhere'
  <2>1. hand[w] \in Pool!Jobs /\ ran[hand[w]] = 1
    BY <1>12 DEF Pool!Deliver, Posts, Once
  <2>2. ASSUME NEW j \in Pool!Jobs, Unmade(j)'
        PROVE  /\ ran'[j] = 0 /\ result'[j] = "none" /\ carrier'[j] = Pool!Nobody
            /\ worker'[j] = "none"
               /\ \A v \in Pool!Workers : given'[v] # j
    <3>1. Unmade(j)
      BY <1>12, <2>2 DEF Pool!Deliver
    <3>2. ran[j] = 0 /\ j # hand[w] /\ worker[j] = "none" /\ result[j] = "none"
          /\ carrier[j] = Pool!Nobody
          /\ \A v \in Pool!Workers : given[v] # j
      BY <2>1, <3>1
    <3> QED BY <1>12, <2>1, <2>2, <3>2 DEF Pool!Deliver, Pool!Move
  <2> QED BY <2>2
<1>13. ASSUME NEW w \in Pool!Workers, Pool!TimeOut(w) PROVE Nowhere'
  BY <1>13 DEF Pool!TimeOut, Pool!Move
<1>14. ASSUME NEW w \in Pool!Workers, Pool!Leave(w) PROVE Nowhere'
  BY <1>14 DEF Pool!Leave, Pool!Move
<1>15. ASSUME NEW w \in Pool!Workers, Pool!Struck(w) PROVE Nowhere'
  <2>1. worker[w] # "none"
    BY <1>15 DEF Pool!Struck, Posts
  <2> QED BY <1>15, <2>1 DEF Pool!Struck, Pool!Move
<1>16. CASE UNCHANGED Pool!vars
  BY <1>16 DEF Pool!vars
<1> QED
  BY Steps, <1>1, <1>2, <1>3, <1>4, <1>5, <1>6, <1>7, <1>8, <1>9,
     <1>10, <1>11, <1>12, <1>13, <1>14, <1>15, <1>16 DEF Pool!Worker

\* Only who has the lock adds to the pool, and after a look.
LEMMA PlacesKept == Sizes /\ Pool!TypeOK /\ Calls /\ Places /\ Nowhere
    /\ [Pool!Next]_(Pool!vars) => Places'
<1> SUFFICES ASSUME Sizes, Pool!TypeOK, Calls, Places, Nowhere, [Pool!Next]_(Pool!vars)
            PROVE Places'
  OBVIOUS
<1> USE DEF Places, Pool!TypeOK, Sizes, Pool!Jobs, Pool!Workers, Pool!Waits, Pool!NoJob,
            Pool!Nobody, Pool!workerVars, Pool!poolVars,
            Pool!clientVars
<1>0. /\ Cardinality(all) \in Nat
      /\ \A w \in Pool!Workers : /\ Cardinality(all \ {w}) <= Cardinality(all)
                             /\ Cardinality(all \cup {w}) <= Cardinality(all) + 1
  BY PoolFinite
<1>1. ASSUME NEW c \in Clients, Pool!Ask(c) PROVE Places'
  BY <1>1 DEF Pool!Ask
<1>2. ASSUME NEW c \in Clients, NEW w \in idle, Picks(c, w) PROVE Places'
  BY <1>2 DEF Picks, Pool!Assign
<1>3. ASSUME NEW c \in Clients, Waits1(c) PROVE Places'
  BY <1>3 DEF Waits1, Pool!GoTo
<1>4. ASSUME NEW c \in Clients, Locks(c) PROVE Places'
  BY <1>4 DEF Locks, Pool!GoTo
<1>5. ASSUME NEW c \in Clients, SeesPlace(c) PROVE Places'
  <2>1. Cardinality(all) < PoolSize
    BY <1>0, <1>5, Counting DEF SeesPlace, Pool!Full
  <2> QED BY <1>5, <2>1 DEF SeesPlace, Pool!GoTo
<1>6. ASSUME NEW c \in Clients, Pool!Create(c) PROVE Places'
  <2>1. call[c] \in Pool!Workers /\ creator = c /\ Cardinality(all) < PoolSize
    BY <1>6 DEF Pool!Create, Calls
  <2>2. all' = all \cup {call[c]}
    BY <1>6 DEF Pool!Create
  <2>3. Cardinality(all') <= Cardinality(all) + 1 /\ Cardinality(all') \in Nat
    BY <2>1, <2>2, PoolFinite
  <2>4. Cardinality(all') <= PoolSize
    BY <1>0, <2>1, <2>3
  <2>5. \A d \in Clients : pc'[d] \notin {"fullLocked", "create"}
    BY <1>6, <2>1 DEF Pool!Create, Pool!Assign
  <2> QED BY <1>6, <2>4, <2>5 DEF Pool!Create
<1>7. ASSUME NEW c \in Clients, Pool!Get(c) PROVE Places'
  BY <1>7 DEF Pool!Get, Pool!Return
<1>8. ASSUME NEW c \in Clients, Pool!Kill(c) PROVE Places'
  <2>1. call[c] \in Pool!Jobs /\ carrier[call[c]] \in Pool!Workers \cup {Pool!Nobody}
    BY <1>8 DEF Pool!Kill, Calls
  <2>0. all' = all \/ \E w \in Pool!Workers : all' = all \ {w}
    BY <1>8, <2>1 DEF Pool!Kill
  <2>2. Cardinality(all') <= Cardinality(all) /\ Cardinality(all') \in Nat
    <3>1. CASE all' = all
      BY <1>0, <3>1
    <3>2. ASSUME NEW w \in Pool!Workers, all' = all \ {w}
          PROVE  Cardinality(all') <= Cardinality(all) /\ Cardinality(all') \in Nat
      BY <3>2, PoolFinite
    <3> QED BY <2>0, <3>1, <3>2
  <2>3. /\ creator' = creator
        /\ \A d \in Clients : pc'[d] = pc[d] \/ (d = c /\ pc[d] = "get" /\ pc'[d] = "rest")
    BY <1>8 DEF Pool!Kill, Pool!Return
  <2> QED BY <1>0, <2>2, <2>3
<1>9. ASSUME NEW w \in Pool!Workers, Pool!TakeJob(w) PROVE Places'
  BY <1>9 DEF Pool!TakeJob, Pool!Move
<1>10. ASSUME NEW w \in Pool!Workers, Pool!Finish(w) PROVE Places'
  BY <1>10 DEF Pool!Finish, Pool!Move
<1>11. ASSUME NEW w \in Pool!Workers, Pool!MarkIdle(w) PROVE Places'
  BY <1>11 DEF Pool!MarkIdle, Pool!Move
<1>12. ASSUME NEW w \in Pool!Workers, Pool!Deliver(w) PROVE Places'
  BY <1>12 DEF Pool!Deliver, Pool!Move
<1>13. ASSUME NEW w \in Pool!Workers, Pool!TimeOut(w) PROVE Places'
  BY <1>13 DEF Pool!TimeOut, Pool!Move
<1>14. ASSUME NEW w \in Pool!Workers, Pool!Leave(w) PROVE Places'
  <2>1. Cardinality(all') <= Cardinality(all) /\ Cardinality(all') \in Nat
    BY <1>0, <1>14, PoolFinite DEF Pool!Leave
  <2>2. creator' = creator /\ pc' = pc
    BY <1>14 DEF Pool!Leave
  <2> QED BY <1>0, <2>1, <2>2
<1>15. ASSUME NEW w \in Pool!Workers, Pool!Struck(w) PROVE Places'
  BY <1>15 DEF Pool!Struck, Pool!Move
<1>16. CASE UNCHANGED Pool!vars
  BY <1>16 DEF Pool!vars
<1> QED
  BY Steps, <1>1, <1>2, <1>3, <1>4, <1>5, <1>6, <1>7, <1>8, <1>9,
     <1>10, <1>11, <1>12, <1>13, <1>14, <1>15, <1>16 DEF Pool!Worker

\* No job is run twice.
LEMMA OnceKept == Sizes /\ Pool!TypeOK /\ Calls /\ Places /\ Nowhere /\ Posts /\ Once
    /\ [Pool!Next]_(Pool!vars) => Once'
<1> SUFFICES ASSUME Sizes, Pool!TypeOK, Calls, Places, Nowhere, Posts, Once,
            [Pool!Next]_(Pool!vars) PROVE Once'
  OBVIOUS
<1> USE DEF Once, Pool!TypeOK, Sizes, Pool!Jobs, Pool!Workers, Pool!Waits, Pool!NoJob,
            Pool!Nobody, Pool!workerVars, Pool!poolVars,
            Pool!clientVars
<1>1. ASSUME NEW c \in Clients, Pool!Ask(c) PROVE Once'
  BY <1>1 DEF Pool!Ask
<1>2. ASSUME NEW c \in Clients, NEW w \in idle, Picks(c, w) PROVE Once'
  <2>1. call[c] \in Pool!Jobs /\ call[c] # Pool!NoJob /\ pc[c] \in Pool!Waits /\ Unmade(call[c])
    BY <1>2 DEF Picks, Calls, Unmade
  <2>2. /\ ran[call[c]] = 0 /\ result[call[c]] = "none" /\ worker[call[c]] = "none"
        /\ \A v \in Pool!Workers : given[v] # call[c]
    BY <2>1 DEF Nowhere
  <2>3. w \in Pool!Workers /\ given'[w] = call[c]
        /\ \A v \in Pool!Workers \ {w} : given'[v] = given[v]
    BY <1>2 DEF Picks, Pool!Assign
  <2>4. UNCHANGED <<ran, hand, result>>
    BY <1>2 DEF Picks, Pool!Assign
  <2>5. ASSUME NEW v \in Pool!Workers, given'[v] # Pool!NoJob PROVE ran'[given'[v]] = 0
    <3>1. CASE v = w
      BY <2>2, <2>3, <2>4, <3>1
    <3>2. CASE v # w
      <4>1. given'[v] = given[v]
        BY <2>3, <3>2
      <4> QED BY <2>4, <2>5, <4>1
    <3> QED BY <3>1, <3>2
  <2>6. \A u, v \in Pool!Workers : given'[u] = given'[v] /\ given'[u] # Pool!NoJob => u = v
    BY <2>1, <2>2, <2>3, <2>4, SMTT(60)
  <2> QED BY <2>4, <2>5, <2>6
<1>3. ASSUME NEW c \in Clients, Waits1(c) PROVE Once'
  BY <1>3 DEF Waits1, Pool!GoTo
<1>4. ASSUME NEW c \in Clients, Locks(c) PROVE Once'
  BY <1>4 DEF Locks, Pool!GoTo
<1>5. ASSUME NEW c \in Clients, SeesPlace(c) PROVE Once'
  BY <1>5 DEF SeesPlace, Pool!GoTo
<1>6. ASSUME NEW c \in Clients, Pool!Create(c) PROVE Once'
  <2>1. call[c] \in Pool!Jobs /\ call[c] # Pool!NoJob /\ pc[c] \in Pool!Waits /\ Unmade(call[c])
    BY <1>6 DEF Pool!Create, Calls, Unmade
  <2>2. /\ ran[call[c]] = 0 /\ result[call[c]] = "none" /\ worker[call[c]] = "none"
        /\ \A v \in Pool!Workers : given[v] # call[c]
    BY <2>1 DEF Nowhere
  <2>3. /\ given'[call[c]] = call[c]
        /\ \A v \in Pool!Workers \ {call[c]} : given'[v] = given[v]
    BY <1>6, <2>1 DEF Pool!Create, Pool!Assign
  <2>4. UNCHANGED <<ran, hand, result>>
    BY <1>6 DEF Pool!Create, Pool!Assign
  <2>5. ASSUME NEW v \in Pool!Workers, given'[v] # Pool!NoJob PROVE ran'[given'[v]] = 0
    <3>1. CASE v = call[c]
      BY <2>2, <2>3, <2>4, <3>1
    <3>2. CASE v # call[c]
      <4>1. given'[v] = given[v]
        BY <2>3, <3>2
      <4> QED BY <2>4, <2>5, <4>1
    <3> QED BY <3>1, <3>2
  <2>6. \A u, v \in Pool!Workers : given'[u] = given'[v] /\ given'[u] # Pool!NoJob => u = v
    BY <2>1, <2>2, <2>3, <2>4
  <2> QED BY <2>4, <2>5, <2>6
<1>7. ASSUME NEW c \in Clients, Pool!Get(c) PROVE Once'
  BY <1>7 DEF Pool!Get, Pool!Return
<1>8. ASSUME NEW c \in Clients, Pool!Kill(c) PROVE Once'
  BY <1>8 DEF Pool!Kill, Pool!Return
<1>9. ASSUME NEW w \in Pool!Workers, Pool!TakeJob(w) PROVE Once'
  BY <1>9 DEF Pool!TakeJob, Pool!Move
<1>10. ASSUME NEW w \in Pool!Workers, Pool!Finish(w) PROVE Once'
  BY <1>10 DEF Pool!Finish, Pool!Move
<1>11. ASSUME NEW w \in Pool!Workers, Pool!MarkIdle(w) PROVE Once'
  BY <1>11 DEF Pool!MarkIdle, Pool!Move
<1>12. ASSUME NEW w \in Pool!Workers, Pool!Deliver(w) PROVE Once'
  BY <1>12 DEF Pool!Deliver, Pool!Move
<1>13. ASSUME NEW w \in Pool!Workers, Pool!TimeOut(w) PROVE Once'
  BY <1>13 DEF Pool!TimeOut, Pool!Move
<1>14. ASSUME NEW w \in Pool!Workers, Pool!Leave(w) PROVE Once'
  BY <1>14 DEF Pool!Leave, Pool!Move
<1>15. ASSUME NEW w \in Pool!Workers, Pool!Struck(w) PROVE Once'
  BY <1>15 DEF Pool!Struck, Pool!Move
<1>16. CASE UNCHANGED Pool!vars
  BY <1>16 DEF Pool!vars
<1> QED
  BY Steps, <1>1, <1>2, <1>3, <1>4, <1>5, <1>6, <1>7, <1>8, <1>9,
     <1>10, <1>11, <1>12, <1>13, <1>14, <1>15, <1>16 DEF Pool!Worker

\* Workers have what their place says.
LEMMA PostsKept == Sizes /\ Pool!TypeOK /\ Calls /\ Places /\ Nowhere /\ Once /\ Posts
    /\ [Pool!Next]_(Pool!vars) => Posts'
<1> SUFFICES ASSUME Sizes, Pool!TypeOK, Calls, Places, Nowhere, Once, Posts,
            [Pool!Next]_(Pool!vars) PROVE Posts'
  OBVIOUS
<1> USE DEF Posts, Pool!Alive, Pool!TypeOK, Sizes, Pool!Jobs, Pool!Workers, Pool!Waits,
            Pool!NoJob, Pool!Nobody, Pool!workerVars,
            Pool!poolVars, Pool!clientVars
<1>1. ASSUME NEW c \in Clients, Pool!Ask(c) PROVE Posts'
  BY <1>1 DEF Pool!Ask
<1>2. ASSUME NEW c \in Clients, NEW w \in idle, Picks(c, w) PROVE Posts'
  <2>1. call[c] \in Pool!Jobs /\ call[c] # Pool!NoJob /\ pc[c] \in Pool!Waits /\ Unmade(call[c])
    BY <1>2 DEF Picks, Calls, Unmade
  <2>2. /\ ran[call[c]] = 0 /\ result[call[c]] = "none" /\ worker[call[c]] = "none"
        /\ \A v \in Pool!Workers : given[v] # call[c]
    BY <2>1 DEF Nowhere
  <2>3. /\ w \in Pool!Workers /\ given'[w] = call[c]
        /\ \A v \in Pool!Workers \ {w} : given'[v] = given[v]
        /\ carrier' = [carrier EXCEPT ![call[c]] = w] /\ idle' = idle \ {w}
        /\ UNCHANGED <<worker, all, hand, shot>>
    BY <1>2 DEF Picks, Pool!Assign
  <2>4. worker[w] \notin {"none", "run", "mark", "leave"}
    BY <1>2
  <2> QED BY <2>1, <2>3, <2>4, SMTT(60)
<1>3. ASSUME NEW c \in Clients, Waits1(c) PROVE Posts'
  BY <1>3 DEF Waits1, Pool!GoTo
<1>4. ASSUME NEW c \in Clients, Locks(c) PROVE Posts'
  BY <1>4 DEF Locks, Pool!GoTo
<1>5. ASSUME NEW c \in Clients, SeesPlace(c) PROVE Posts'
  BY <1>5 DEF SeesPlace, Pool!GoTo
<1>6. ASSUME NEW c \in Clients, Pool!Create(c) PROVE Posts'
  <2>1. call[c] \in Pool!Jobs /\ call[c] # Pool!NoJob /\ pc[c] \in Pool!Waits /\ Unmade(call[c])
    BY <1>6 DEF Pool!Create, Calls, Unmade
  <2>2. /\ ran[call[c]] = 0 /\ result[call[c]] = "none" /\ worker[call[c]] = "none"
        /\ \A v \in Pool!Workers : given[v] # call[c]
    BY <2>1 DEF Nowhere
  <2>3. /\ given'[call[c]] = call[c] /\ \A v \in Pool!Workers \ {call[c]} : given'[v] = given[v]
        /\ worker'[call[c]] = "wait" /\ \A v \in Pool!Workers \ {call[c]} : worker'[v] = worker[v]
        /\ carrier' = [carrier EXCEPT ![call[c]] = call[c]] /\ all' = all \cup {call[c]}
        /\ UNCHANGED <<idle, hand, shot>>
    BY <1>6, <2>1 DEF Pool!Create, Pool!Assign
  <2>4. call[c] \notin idle /\ call[c] \notin shot /\ hand[call[c]] = Pool!NoJob
    BY <2>1, <2>2
  <2>5. \A v \in Pool!Workers : worker'[v] \in {"run", "mark", "put"} <=> hand'[v] # Pool!NoJob
    BY <2>3, <2>4
  <2>6. \A v \in Pool!Workers : worker'[v] \in {"none", "run", "mark", "leave"}
        => v \notin idle' /\ given'[v] = Pool!NoJob
    <3> SUFFICES ASSUME NEW v \in Pool!Workers, worker'[v] \in {"none", "run", "mark", "leave"}
                 PROVE  v \notin idle' /\ given'[v] = Pool!NoJob
      OBVIOUS
    <3>1. v # call[c]
      BY <2>3
    <3>2. worker'[v] = worker[v] /\ given'[v] = given[v] /\ idle' = idle
      BY <2>3, <3>1
    <3> QED BY <3>2
  <2>7. /\ \A v \in idle' : given'[v] = Pool!NoJob
        /\ \A v \in shot' : worker'[v] # "none"
    BY <2>3, <2>4
  <2>8. /\ \A v \in all' : v \notin shot' /\ worker'[v] \notin {"none", "dead"}
        /\ \A v \in all' : worker'[v] \in {"wait", "put"} => v \in idle' \/ given'[v] # Pool!NoJob
    BY <2>1, <2>3, <2>4, SMTT(60)
  <2>9. \A j \in Pool!Jobs : carrier'[j] # Pool!Nobody => worker'[carrier'[j]] # "none"
    BY <2>1, <2>3
  <2> QED BY <2>5, <2>6, <2>7, <2>8, <2>9
<1>7. ASSUME NEW c \in Clients, Pool!Get(c) PROVE Posts'
  BY <1>7 DEF Pool!Get, Pool!Return
<1>8. ASSUME NEW c \in Clients, Pool!Kill(c) PROVE Posts'
  <2>1. call[c] \in Pool!Jobs /\ carrier[call[c]] \in Pool!Workers \cup {Pool!Nobody}
    BY <1>8 DEF Pool!Kill, Calls
  <2>2. UNCHANGED <<worker, given, hand, idle>> /\ all' \subseteq all
    BY <1>8 DEF Pool!Kill
  <2>3. \A v \in shot' : worker[v] # "none" /\ v \notin all'
    <3>1. \/ UNCHANGED <<shot, all>>
          \/ /\ all' = all \ {carrier[call[c]]} /\ carrier[call[c]] # Pool!Nobody
             /\ shot' \subseteq shot \cup {carrier[call[c]]}
      BY <1>8 DEF Pool!Kill
    <3>2. carrier[call[c]] # Pool!Nobody => worker[carrier[call[c]]] # "none"
      BY <2>1
    <3> QED BY <3>1, <3>2, ZenonT(60)
  <2>4. \A j \in Pool!Jobs : carrier'[j] = carrier[j] \/ carrier'[j] = Pool!Nobody
    BY <1>8, <2>1 DEF Pool!Kill
  <2> QED BY <2>2, <2>3, <2>4
<1>9. ASSUME NEW w \in Pool!Workers, Pool!TakeJob(w) PROVE Posts'
  BY <1>9, SMTT(60) DEF Pool!TakeJob, Pool!Move
<1>10. ASSUME NEW w \in Pool!Workers, Pool!Finish(w) PROVE Posts'
  BY <1>10, SMTT(60) DEF Pool!Finish, Pool!Move
<1>11. ASSUME NEW w \in Pool!Workers, Pool!MarkIdle(w) PROVE Posts'
  BY <1>11 DEF Pool!MarkIdle, Pool!Move
<1>12. ASSUME NEW w \in Pool!Workers, Pool!Deliver(w) PROVE Posts'
  BY <1>12 DEF Pool!Deliver, Pool!Move
<1>13. ASSUME NEW w \in Pool!Workers, Pool!TimeOut(w) PROVE Posts'
  BY <1>13, SMTT(60) DEF Pool!TimeOut, Pool!Move
<1>14. ASSUME NEW w \in Pool!Workers, Pool!Leave(w) PROVE Posts'
  <2>1. /\ worker[w] = "leave" /\ worker'[w] = "dead"
        /\ \A v \in Pool!Workers \ {w} : worker'[v] = worker[v]
        /\ all' = all \ {w} /\ UNCHANGED <<given, hand, shot, idle, carrier>>
    BY <1>14 DEF Pool!Leave, Pool!Move
  <2> QED BY <2>1, SMTT(60)
<1>15. ASSUME NEW w \in Pool!Workers, Pool!Struck(w) PROVE Posts'
  BY <1>15, SMTT(60) DEF Pool!Struck, Pool!Move
<1>16. CASE UNCHANGED Pool!vars
  BY <1>16 DEF Pool!vars
<1> QED
  BY Steps, <1>1, <1>2, <1>3, <1>4, <1>5, <1>6, <1>7, <1>8, <1>9,
     <1>10, <1>11, <1>12, <1>13, <1>14, <1>15, <1>16 DEF Pool!Worker

\* An uncrossed pool stays so unless a kill crosses it.
LEMMA UncrossedKept == Sizes /\ Pool!TypeOK /\ Calls /\ Places /\ Nowhere /\ Once /\ Posts
    /\ Uncrossed /\ [Pool!Next]_(Pool!vars) => Uncrossed'
<1> SUFFICES ASSUME Sizes, Pool!TypeOK, Calls, Places, Nowhere, Once, Posts, Uncrossed,
            [Pool!Next]_(Pool!vars) PROVE Uncrossed'
  OBVIOUS
<1> USE DEF Uncrossed, Pool!TypeOK, Sizes, Pool!Jobs, Pool!Workers, Pool!Waits, Pool!NoJob,
            Pool!Nobody, Pool!workerVars, Pool!poolVars,
            Pool!clientVars
<1>1. ASSUME NEW c \in Clients, Pool!Ask(c) PROVE Uncrossed'
  <2>1. last + 1 \in Pool!Jobs /\ call'[c] = last + 1 /\ pc'[c] = "pop"
    BY <1>1 DEF Pool!Ask
  <2>2. /\ \A d \in Clients \ {c} : call'[d] = call[d] /\ pc'[d] = pc[d]
        /\ UNCHANGED <<worker, given, hand, shot, idle, all, carrier, result, crossed>>
    BY <1>1 DEF Pool!Ask
  <2>3. ASSUME NEW v \in Pool!Workers, hand[v] = call'[c] PROVE FALSE
    <3>1. ran[last + 1] = 0
      BY <2>1 DEF Nowhere, Unmade
    <3>2. hand[v] # Pool!NoJob
      BY <2>1, <2>3
    <3>3. ran[hand[v]] = 1
      BY <3>2 DEF Once
    <3> QED BY <2>1, <2>3, <3>1, <3>3
  <2>4. ~crossed => StruckAtWork'
    BY <2>2, <2>3 DEF StruckAtWork
  <2>5. ~crossed => \A v \in Pool!Workers : Counted(v)'
    BY <2>2 DEF Counted
  <2>6. pc'[c] # "get"
    BY <2>1
  <2>7. ~crossed => \A d \in Clients : Served(d)'
    BY <2>2, <2>6, ZenonT(120) DEF Served
  <2> QED BY <2>2, <2>4, <2>5, <2>7
<1>2. ASSUME NEW c \in Clients, NEW w \in idle, Picks(c, w) PROVE Uncrossed'
  <2>1. call[c] \in Pool!Jobs /\ call[c] # Pool!NoJob /\ pc[c] \in Pool!Waits /\ Unmade(call[c])
    BY <1>2 DEF Picks, Calls, Unmade
  <2>2. /\ ran[call[c]] = 0 /\ result[call[c]] = "none" /\ worker[call[c]] = "none"
        /\ \A v \in Pool!Workers : given[v] # call[c]
    BY <2>1 DEF Nowhere
  <2>3. /\ w \in Pool!Workers /\ given'[w] = call[c]
        /\ \A v \in Pool!Workers \ {w} : given'[v] = given[v]
        /\ carrier'[call[c]] = w /\ \A j \in Pool!Jobs \ {call[c]} : carrier'[j] = carrier[j]
        /\ idle' = idle \ {w} /\ UNCHANGED <<worker, all, hand, shot, result, call, crossed>>
        /\ pc'[c] = "get" /\ \A d \in Clients \ {c} : pc'[d] = pc[d]
    BY <1>2, <2>1 DEF Picks, Pool!Assign
  <2>4. given[w] = Pool!NoJob
    BY <1>2 DEF Posts
  <2>5. \A d \in Clients \ {c} : call[d] # call[c]
    BY <2>1 DEF Calls
  <2>6. ~crossed => StruckAtWork' /\ \A v \in Pool!Workers : Counted(v)'
    BY <2>3 DEF Counted, StruckAtWork
  <2>7. ASSUME ~crossed, NEW d \in Clients PROVE Served(d)'
    <3>1. CASE d = c
      BY <2>1, <2>3, <3>1 DEF Served
    <3>2. CASE d # c /\ pc[d] = "get" /\ result[call[d]] = "none"
      <4>1. call[d] \in Pool!Jobs \ {call[c]}
        BY <2>5, <3>2 DEF Calls
      <4>2. carrier[call[d]] # Pool!Nobody
            /\ (given[carrier[call[d]]] = call[d] \/ hand[carrier[call[d]]] = call[d])
        BY <2>7, <3>2 DEF Served
      <4>3. carrier[call[d]] \in Pool!Workers /\ carrier'[call[d]] = carrier[call[d]]
        BY <2>3, <4>1, <4>2
      <4> QED BY <2>3, <2>4, <4>1, <4>2, <4>3 DEF Served
    <3> QED BY <2>3, <3>1, <3>2 DEF Served
  <2> QED BY <2>3, <2>6, <2>7
<1>3. ASSUME NEW c \in Clients, Waits1(c) PROVE Uncrossed'
  BY <1>3 DEF Waits1, Pool!GoTo, StruckAtWork, Counted, Served
<1>4. ASSUME NEW c \in Clients, Locks(c) PROVE Uncrossed'
  BY <1>4 DEF Locks, Pool!GoTo, StruckAtWork, Counted, Served
<1>5. ASSUME NEW c \in Clients, SeesPlace(c) PROVE Uncrossed'
  BY <1>5 DEF SeesPlace, Pool!GoTo, StruckAtWork, Counted, Served
<1>6. ASSUME NEW c \in Clients, Pool!Create(c) PROVE Uncrossed'
  <2>1. call[c] \in Pool!Jobs /\ call[c] # Pool!NoJob /\ pc[c] \in Pool!Waits /\ Unmade(call[c])
    BY <1>6 DEF Pool!Create, Calls, Unmade
  <2>2. /\ ran[call[c]] = 0 /\ result[call[c]] = "none" /\ worker[call[c]] = "none"
        /\ \A v \in Pool!Workers : given[v] # call[c]
    BY <2>1 DEF Nowhere
  <2>3. /\ given'[call[c]] = call[c] /\ \A v \in Pool!Workers \ {call[c]} : given'[v] = given[v]
        /\ worker'[call[c]] = "wait" /\ \A v \in Pool!Workers \ {call[c]} : worker'[v] = worker[v]
        /\ carrier'[call[c]] = call[c] /\ \A j \in Pool!Jobs \ {call[c]} : carrier'[j] = carrier[j]
        /\ all' = all \cup {call[c]} /\ UNCHANGED <<idle, hand, shot, result, call, crossed>>
        /\ pc'[c] = "get" /\ \A d \in Clients \ {c} : pc'[d] = pc[d]
    BY <1>6, <2>1 DEF Pool!Create, Pool!Assign
  <2>4. given[call[c]] = Pool!NoJob /\ call[c] \notin shot /\ hand[call[c]] = Pool!NoJob
    BY <2>1, <2>2 DEF Posts
  <2>5. \A d \in Clients \ {c} : call[d] # call[c]
    BY <2>1 DEF Calls
  <2>6. ~crossed => StruckAtWork' /\ \A v \in Pool!Workers : Counted(v)'
    BY <2>1, <2>3, <2>4 DEF Counted, StruckAtWork
  <2>7. ASSUME ~crossed, NEW d \in Clients PROVE Served(d)'
    <3>1. CASE d = c
      BY <2>1, <2>3, <3>1 DEF Served
    <3>2. CASE d # c /\ pc[d] = "get" /\ result[call[d]] = "none"
      <4>1. call[d] \in Pool!Jobs \ {call[c]}
        BY <2>5, <3>2 DEF Calls
      <4>2. carrier[call[d]] # Pool!Nobody
            /\ (given[carrier[call[d]]] = call[d] \/ hand[carrier[call[d]]] = call[d])
        BY <2>7, <3>2 DEF Served
      <4>3. carrier[call[d]] \in Pool!Workers /\ carrier'[call[d]] = carrier[call[d]]
        BY <2>3, <4>1, <4>2
      <4> QED BY <2>3, <2>4, <4>1, <4>2, <4>3 DEF Served
    <3> QED BY <2>3, <3>1, <3>2 DEF Served
  <2> QED BY <2>3, <2>6, <2>7
<1>7. ASSUME NEW c \in Clients, Pool!Get(c) PROVE Uncrossed'
  <2>1. /\ call'[c] = Pool!NoJob /\ pc'[c] = "rest"
        /\ \A d \in Clients \ {c} : call'[d] = call[d] /\ pc'[d] = pc[d]
        /\ UNCHANGED <<worker, given, hand, shot, idle, all, carrier, result, crossed>>
    BY <1>7 DEF Pool!Get, Pool!Return
  <2>2. ASSUME NEW v \in Pool!Workers, worker[v] = "run" PROVE hand[v] # Pool!NoJob
    BY <2>2 DEF Posts
  <2>3. ~crossed => StruckAtWork'
    BY <2>1, <2>2 DEF StruckAtWork
  <2>4. ~crossed => \A v \in Pool!Workers : Counted(v)'
    BY <2>1 DEF Counted
  <2>5. ~crossed => \A d \in Clients : Served(d)'
    BY <2>1, ZenonT(120) DEF Served
  <2> QED BY <2>1, <2>3, <2>4, <2>5
<1>8. ASSUME NEW c \in Clients, Pool!Kill(c) PROVE Uncrossed'
  <2> DEFINE w == carrier[call[c]]
  <2>1. call[c] \in Pool!Jobs /\ call[c] # Pool!NoJob /\ w \in Pool!Workers \cup {Pool!Nobody}
    BY <1>8 DEF Pool!Kill, Calls
  <2>2. /\ call'[c] = Pool!NoJob /\ pc'[c] = "rest"
        /\ \A d \in Clients \ {c} : call'[d] = call[d] /\ pc'[d] = pc[d]
        /\ UNCHANGED <<worker, given, hand, idle, result>>
    BY <1>8 DEF Pool!Kill, Pool!Return
  <2>3. \A d \in Clients \ {c} : call[d] # call[c]
    BY <2>1 DEF Calls
  <2>4. ASSUME NEW v \in Pool!Workers, worker[v] = "run"
              PROVE hand[v] # Pool!NoJob /\ v \notin idle /\ given[v] = Pool!NoJob
    BY <2>4 DEF Posts
  <2>5. CASE ~crossed'
    <3>1. /\ ~crossed
          /\ \A j \in Pool!Jobs \ {call[c]} : carrier'[j] = carrier[j]
          /\ \/ UNCHANGED <<shot, all>>
             \/ /\ w \in Pool!Workers /\ shot' = shot \cup {w} /\ all' = all \ {w}
                /\ worker[w] = "run" /\ hand[w] = call[c]
      <4>1. CASE w = Pool!Nobody /\ UNCHANGED <<shot, all, carrier, crossed>>
        BY <2>5, <4>1
      <4>2. CASE /\ w # Pool!Nobody
                 /\ shot' = IF worker[w] = "dead" THEN shot ELSE shot \cup {w}
                 /\ all' = all \ {w}
                 /\ carrier' = IF w \in all THEN [carrier EXCEPT ![call[c]] = Pool!Nobody] ELSE carrier
                 /\ crossed' = (crossed \/ worker[w] # "run" \/ hand[w] # call[c])
        <5>1. worker[w] = "run" /\ hand[w] = call[c] /\ ~crossed
          BY <2>5, <4>2
        <5>2. shot' = shot \cup {w} /\ all' = all \ {w}
          BY <4>2, <5>1
        <5>3. \A j \in Pool!Jobs \ {call[c]} : carrier'[j] = carrier[j]
          BY <2>1, <4>2
        <5> QED BY <2>1, <4>2, <5>1, <5>2, <5>3
      <4> QED BY <1>8, <4>1, <4>2 DEF Pool!Kill
    <3>2. StruckAtWork /\ (\A v \in Pool!Workers : Counted(v)) /\ \A d \in Clients : Served(d)
      BY <3>1
    <3>3. StruckAtWork'
      <4>1. ASSUME NEW v \in shot', NEW d \in Clients
                  PROVE worker'[v] = "run" /\ call'[d] # hand'[v]
        <5>1. CASE v \in shot
          <6>1. worker[v] = "run" /\ call[d] # hand[v] /\ hand[v] # Pool!NoJob
            BY <2>4, <3>2, <5>1 DEF StruckAtWork
          <6> QED BY <2>2, <6>1
        <5>2. CASE v = w /\ worker[w] = "run" /\ hand[w] = call[c]
          BY <2>1, <2>2, <2>3, <5>2, SMTT(60)
        <5> QED BY <3>1, <4>1, <5>1, <5>2
      <4> QED BY <4>1 DEF StruckAtWork
    <3>4. \A v \in Pool!Workers : Counted(v)'
      BY <2>2, <2>4, <3>1, <3>2 DEF Counted
    <3>5. ASSUME NEW d \in Clients PROVE Served(d)'
      <4>1. CASE d # c /\ pc[d] = "get"
        <5>1. call[d] \in Pool!Jobs \ {call[c]}
          BY <2>3, <4>1 DEF Calls
        <5> QED BY <2>2, <3>1, <3>2, <4>1, <5>1 DEF Served
      <4> QED BY <2>2, <4>1 DEF Served
    <3> QED BY <3>3, <3>4, <3>5
  <2> QED BY <2>5
<1>9. ASSUME NEW w \in Pool!Workers, Pool!TakeJob(w) PROVE Uncrossed'
  <2>1. /\ worker[w] = "wait" /\ given[w] # Pool!NoJob /\ given[w] \in Pool!Jobs /\ w \notin shot
        /\ hand'[w] = given[w] /\ given'[w] = Pool!NoJob /\ worker'[w] = "run"
        /\ \A v \in Pool!Workers \ {w} : hand'[v] = hand[v] /\ given'[v] = given[v]
            /\ worker'[v] = worker[v]
        /\ UNCHANGED <<shot, idle, all, pc, call, carrier, result, crossed>>
    BY <1>9 DEF Pool!TakeJob, Pool!Move
  <2>2. hand[w] = Pool!NoJob
    BY <2>1 DEF Posts
  <2>3. ~crossed => StruckAtWork' /\ \A v \in Pool!Workers : Counted(v)'
    BY <2>1 DEF Counted, StruckAtWork
  <2>4. ASSUME ~crossed, NEW d \in Clients PROVE Served(d)'
    <3>1. CASE pc[d] = "get" /\ result[call[d]] = "none"
      <4>1. call[d] \in Pool!Jobs /\ call[d] # Pool!NoJob
        BY <3>1 DEF Calls
      <4>2. carrier[call[d]] \in Pool!Workers
            /\ (given[carrier[call[d]]] = call[d] \/ hand[carrier[call[d]]] = call[d])
        BY <2>4, <3>1, <4>1 DEF Served
      <4> QED BY <2>1, <2>2, <4>1, <4>2 DEF Served
    <3> QED BY <2>1, <3>1 DEF Served
  <2> QED BY <2>1, <2>3, <2>4
<1>10. ASSUME NEW w \in Pool!Workers, Pool!Finish(w) PROVE Uncrossed'
  BY <1>10 DEF Pool!Finish, Pool!Move, StruckAtWork, Counted, Served
<1>11. ASSUME NEW w \in Pool!Workers, Pool!MarkIdle(w) PROVE Uncrossed'
  BY <1>11 DEF Pool!MarkIdle, Pool!Move, StruckAtWork, Counted, Served
<1>12. ASSUME NEW w \in Pool!Workers, Pool!Deliver(w) PROVE Uncrossed'
  <2>1. /\ worker[w] = "put" /\ worker'[w] = "wait" /\ hand'[w] = Pool!NoJob
        /\ \A v \in Pool!Workers \ {w} : hand'[v] = hand[v] /\ worker'[v] = worker[v]
        /\ result' = [result EXCEPT ![hand[w]] = "done"]
        /\ carrier' = [carrier EXCEPT ![hand[w]] = Pool!Nobody]
        /\ UNCHANGED <<given, shot, idle, all, pc, call, crossed>>
    BY <1>12 DEF Pool!Deliver, Pool!Move
  <2>2. hand[w] \in Pool!Jobs
    BY <2>1 DEF Posts
  <2>3. ~crossed => StruckAtWork' /\ \A v \in Pool!Workers : Counted(v)'
    BY <2>1 DEF Counted, StruckAtWork
  <2>4. ASSUME ~crossed, NEW d \in Clients PROVE Served(d)'
    <3>1. CASE pc[d] = "get" /\ result'[call[d]] = "none"
      <4>1. call[d] \in Pool!Jobs /\ call[d] # Pool!NoJob
        BY <3>1 DEF Calls
      <4>2. call[d] # hand[w] /\ result[call[d]] = "none"
        BY <2>1, <2>2, <3>1, <4>1
      <4>3. carrier[call[d]] \in Pool!Workers
            /\ (given[carrier[call[d]]] = call[d] \/ hand[carrier[call[d]]] = call[d])
        BY <2>4, <3>1, <4>1, <4>2 DEF Served
      <4> QED BY <2>1, <4>1, <4>2, <4>3 DEF Served
    <3> QED BY <2>1, <3>1 DEF Served
  <2> QED BY <2>1, <2>3, <2>4
<1>13. ASSUME NEW w \in Pool!Workers, Pool!TimeOut(w) PROVE Uncrossed'
  BY <1>13 DEF Pool!TimeOut, Pool!Move, StruckAtWork, Counted, Served
<1>14. ASSUME NEW w \in Pool!Workers, Pool!Leave(w) PROVE Uncrossed'
  <2>1. /\ worker[w] = "leave" /\ worker'[w] = "dead" /\ all' = all \ {w}
        /\ \A v \in Pool!Workers \ {w} : worker'[v] = worker[v]
        /\ UNCHANGED <<given, hand, shot, idle, pc, call, carrier, result, crossed>>
    BY <1>14 DEF Pool!Leave, Pool!Move
  <2>2. w \notin idle /\ given[w] = Pool!NoJob
    BY <2>1 DEF Posts
  <2>3. ~crossed => StruckAtWork' /\ \A v \in Pool!Workers : Counted(v)'
    BY <2>1, <2>2 DEF Counted, StruckAtWork
  <2>4. ~crossed => \A d \in Clients : Served(d)'
    BY <2>1 DEF Served
  <2> QED BY <2>1, <2>3, <2>4
<1>15. ASSUME NEW w \in Pool!Workers, Pool!Struck(w) PROVE Uncrossed'
  BY <1>15 DEF Pool!Struck, Pool!Move, StruckAtWork, Counted, Served
<1>16. CASE UNCHANGED Pool!vars
  BY <1>16 DEF Pool!vars, StruckAtWork, Counted, Served
<1> QED
  BY Steps, <1>1, <1>2, <1>3, <1>4, <1>5, <1>6, <1>7, <1>8, <1>9,
     <1>10, <1>11, <1>12, <1>13, <1>14, <1>15, <1>16 DEF Pool!Worker

\* In the beginning there is nothing.
LEMMA PoolInitIInv == Sizes /\ Pool!Init => PoolIInv
<1> SUFFICES ASSUME Sizes, Pool!Init PROVE PoolIInv
  OBVIOUS
<1> USE DEF Pool!Init, Sizes, Pool!Jobs, Pool!Workers, Pool!Waits, Pool!NoJob, Pool!Nobody
<1>1. Pool!TypeOK
  <2>1. last \in 0..MaxJobs /\ ran \in [Pool!Jobs -> Nat]
    OBVIOUS
  <2>2. crossed \in BOOLEAN
    OBVIOUS
  <2> QED BY <2>1, <2>2 DEF Pool!TypeOK
<1>2. Calls
  BY DEF Calls
<1>3. Nowhere /\ Once
  BY DEF Nowhere, Once
<1>4. Places
  BY FS_EmptySet DEF Places
<1>5. Posts
  BY DEF Posts
<1>6. Uncrossed
  BY DEF Uncrossed, StruckAtWork, Counted, Served
<1> QED BY <1>1, <1>2, <1>3, <1>4, <1>5, <1>6 DEF PoolIInv

\* The inductive invariant holds of every behaviour.
THEOREM PoolInvariant == Sizes => (Pool!Spec => []PoolIInv)
<1> SUFFICES ASSUME Sizes PROVE Pool!Spec => []PoolIInv
  OBVIOUS
<1>1. Pool!Init => PoolIInv
  BY PoolInitIInv
<1>2. PoolIInv /\ [Pool!Next]_(Pool!vars) => PoolIInv'
  BY PoolTypesKept, CallsKept, NowhereKept, PlacesKept, OnceKept, PostsKept, UncrossedKept DEF PoolIInv
<1> QED BY <1>1, <1>2, PTL DEF Pool!Spec

\* Types; no more workers than the pool has places, all of them alive, none lost; no job twice,
\* and an answer from its own worker; and idle workers that are ready, unless a kill crossed.
THEOREM PoolSound == Sizes => (Pool!Spec => []PoolIsSound)
<1> SUFFICES ASSUME Sizes PROVE Pool!Spec => []PoolIsSound
  OBVIOUS
<1>1. PoolIInv => PoolIsSound
  <2> SUFFICES ASSUME PoolIInv PROVE PoolIsSound
    OBVIOUS
  <2> USE DEF PoolIInv
  <2>1. Pool!PoolBound
    BY Counting DEF Places, Posts, Pool!PoolBound
  <2>2. Pool!JobsApart
    <3>1. \A w \in idle : given[w] = Pool!NoJob
      BY DEF Posts
    <3>2. \A c \in Clients : pc[c] = "get" /\ result[call[c]] = "none" =>
            LET w == carrier[call[c]] IN
                \/ w # Pool!Nobody /\ (given[w] = call[c] \/ hand[w] = call[c])
                \/ crossed
      BY DEF Uncrossed, Served
    <3> QED BY <3>1, <3>2 DEF Pool!JobsApart, Once
  <2>3. Pool!IdleIsReady
    <3>1. ASSUME ~crossed, NEW w \in idle
          PROVE w \in all /\ worker[w] \in {"put", "wait"} /\ w \notin shot
      <4>1. w \in Pool!Workers /\ w \in all
        BY <3>1 DEF Uncrossed, Counted, Pool!TypeOK
      <4>2. worker[w] \notin {"none", "run", "mark", "leave", "dead"} /\ w \notin shot
        BY <4>1, <3>1 DEF Posts, Pool!Alive
      <4> QED BY <4>1, <4>2 DEF Pool!TypeOK
    <3> QED BY <3>1 DEF Pool!IdleIsReady
  <2>4. Pool!NoPlaceLost
    BY DEF Posts, Pool!NoPlaceLost
  <2> QED BY <2>1, <2>2, <2>3, <2>4 DEF PoolIsSound, Pool!PoolIsSound
<1>2. Pool!Spec => []PoolIInv
  BY PoolInvariant
<1> QED BY <1>1, <1>2, PTL

-----------------------------------------------------------------------------
(* The tab with the list of the tasks, for any tasks and any number of        *)
(* writes: the part of PagesAreSound of MCControl that is TaskPages's.        *)
CONSTANTS Leaves, Writes
VARIABLES table, version, updated, running, owed, written, shown, known, toggled, queue, post,
          reply, get, got, snap, seen, refreshes, wronged

Page == INSTANCE TaskPages

\* The queue is one of operations, and what is under way is its first.
QueueTyped == queue \in Seq(Page!Operations) /\ (post # "idle" => queue # <<>>)

\* No answer is ahead of the server either, and an answer to a save is announced again, so that
\* it is behind as soon as the announcement is taken.
AnswersBehind ==
    /\ version >= 1 /\ Page!NoneAhead /\ got.at <= version /\ reply.at <= version
    /\ reply.at = version => updated = TRUE

\* An answer to a read that is as new as the server, with nothing to announce, is its list.
ReadIsTable == got.at = version /\ ~updated /\ ~owed => got.list = table

\* What was drafted in a tab that was up to date, and not outdated since, is the server's list but
\* for what was changed in it.
DraftAgrees(op) ==
    op.fresh /\ op.kind = "tasks" => \A t \in Leaves \ op.mine : op.list[t] = table[t]
DraftsAgree == \A i \in DOMAIN queue : DraftAgrees(queue[i])

\* The inductive invariant.
PagesIInv ==
    /\ Page!TypeOK /\ QueueTyped /\ AnswersBehind /\ ReadIsTable
    /\ Page!CurrentShowsAll /\ DraftsAgree
    /\ wronged = FALSE

\* A list with one entry written is a list.
LEMMA SnapshotChange ==
    ASSUME NEW f \in Page!Snapshot, NEW i \in Page!Items, NEW n \in 0 .. Writes
    PROVE  [f EXCEPT ![i] = n] \in Page!Snapshot
BY DEF Page!Snapshot

\* The list that a tab begins with, and the answer there is while there is none.
LEMMA NothingIsSnapshot == ASSUME Page!PagesAssumption PROVE Page!Nothing \in Page!Snapshot
BY DEF Page!PagesAssumption, Page!Nothing, Page!Snapshot

LEMMA NoneIsAnswer == ASSUME Page!PagesAssumption PROVE Page!None \in Page!Answers
BY NothingIsSnapshot DEF Page!None, Page!Answers

\* What is outdated is still a queue, and none of it is fresh.
LEMMA OutdatedQueue ==
    ASSUME queue \in Seq(Page!Operations)
    PROVE  /\ Page!Outdated \in Seq(Page!Operations)
           /\ Len(Page!Outdated) = Len(queue) /\ DOMAIN Page!Outdated = DOMAIN queue
           /\ \A i \in DOMAIN Page!Outdated :
                  Page!Outdated[i] \in Page!Operations /\ Page!Outdated[i].fresh = FALSE
           /\ queue # <<>> => Page!Outdated # <<>>
<1>1. \A i \in DOMAIN queue : queue[i] \in Page!Operations
  OBVIOUS
<1>2. \A i \in DOMAIN queue : /\ [queue[i] EXCEPT !.fresh = FALSE, !.mine = {}] \in Page!Operations
                              /\ [queue[i] EXCEPT !.fresh = FALSE, !.mine = {}].fresh = FALSE
  BY <1>1 DEF Page!Operations
<1>3. DOMAIN queue = 1 .. Len(queue) /\ Len(queue) \in Nat
  OBVIOUS
<1>4. Page!Outdated \in [1 .. Len(queue) -> Page!Operations]
  BY <1>2, <1>3 DEF Page!Outdated
<1>5. /\ Page!Outdated \in Seq(Page!Operations)
      /\ Len(Page!Outdated) = Len(queue) /\ DOMAIN Page!Outdated = DOMAIN queue
  BY <1>3, <1>4
<1>6. \A i \in DOMAIN Page!Outdated :
          Page!Outdated[i] \in Page!Operations /\ Page!Outdated[i].fresh = FALSE
  BY <1>2, <1>5 DEF Page!Outdated
<1>7. queue # <<>> => Page!Outdated # <<>>
  BY <1>5
<1> QED BY <1>5, <1>6, <1>7

\* It holds once init() has read the list.
LEMMA PagesInit == Page!PagesAssumption /\ Page!Init => PagesIInv
<1> SUFFICES ASSUME Page!PagesAssumption, Page!Init PROVE PagesIInv
  OBVIOUS
<1>1. Page!TypeOK
  <2>1. /\ table \in Page!Snapshot /\ shown \in Page!Snapshot
        /\ reply \in Page!Answers /\ got \in Page!Answers
    BY NothingIsSnapshot, NoneIsAnswer DEF Page!Init
  <2>2. /\ version \in Nat /\ written \in 0 .. Writes /\ known \in Nat /\ seen \in Nat
        /\ toggled \in SUBSET Leaves /\ \A i \in DOMAIN queue : queue[i] \in Page!Operations
    BY DEF Page!Init, Page!PagesAssumption
  <2>3. /\ post \in {"idle", "asked", "refused", "answered"}
        /\ get \in {"idle", "asked", "answered"} /\ snap \in {"idle", "asked", "answered"}
    BY DEF Page!Init
  <2>4. {updated, running, owed, wronged} \subseteq BOOLEAN /\ refreshes \in BOOLEAN
    BY Zenon DEF Page!Init
  <2> QED BY <2>1, <2>2, <2>3, <2>4 DEF Page!TypeOK
<1>2. QueueTyped
  BY DEF Page!Init, QueueTyped
<1>3. AnswersBehind /\ ReadIsTable
  BY DEF Page!Init, AnswersBehind, ReadIsTable, Page!NoneAhead, Page!None
<1>4. Page!CurrentShowsAll /\ DraftsAgree
  BY DEF Page!Init, Page!CurrentShowsAll, DraftsAgree
<1> QED BY <1>1, <1>2, <1>3, <1>4 DEF PagesIInv, Page!Init

\* What the invariant says of the numbers that versions are.
LEMMA VersionsAreNumbers ==
    ASSUME PagesIInv
    PROVE  /\ version \in Nat /\ known \in Nat /\ got.at \in Nat /\ reply.at \in Nat
           /\ version >= 1 /\ known <= version /\ got.at <= version /\ reply.at <= version
           /\ table \in Page!Snapshot /\ got.list \in Page!Snapshot /\ reply.list \in Page!Snapshot
           /\ updated \in BOOLEAN
<1>1. /\ version \in Nat /\ known \in Nat /\ got \in Page!Answers /\ reply \in Page!Answers
      /\ table \in Page!Snapshot /\ updated \in BOOLEAN
  BY DEF PagesIInv, Page!TypeOK
<1>2. version >= 1 /\ known <= version /\ got.at <= version /\ reply.at <= version
  BY DEF PagesIInv, AnswersBehind, Page!NoneAhead
<1> QED BY <1>1, <1>2 DEF Page!Answers

\* Taking the announcement raises the version if there is one, and leaves none.
LEMMA ConsumeRaises ==
    ASSUME PagesIInv, Page!Consume
    PROVE  /\ version' \in Nat /\ version' >= version /\ updated' = FALSE /\ reply.at < version'
           /\ version' = version => updated = FALSE
           /\ version' # version => version' = version + 1
<1> USE VersionsAreNumbers
<1>1. CASE updated = TRUE
  <2>1. version' = version + 1 /\ updated' = FALSE
    BY <1>1 DEF Page!Consume
  <2> QED BY <1>1, <2>1
<1>2. CASE updated = FALSE
  <2>1. version' = version /\ updated' = FALSE
    BY <1>2 DEF Page!Consume
  <2>2. reply.at # version
    BY <1>2 DEF PagesIInv, AnswersBehind
  <2> QED BY <1>2, <2>1, <2>2
<1> QED BY <1>1, <1>2

\* What the server answers is an answer.
LEMMA AnswerTyped ==
    ASSUME table' \in Page!Snapshot, version' \in Nat
    PROVE  /\ Page!PublicConfig \in Page!Answers
           /\ Page!PublicConfig.list = table' /\ Page!PublicConfig.at = version'
BY DEF Page!PublicConfig, Page!Answers

\* A step that leaves the server, what the tab shows, its queue and the answers alone.
LEMMA QuietKeeps ==
    ASSUME Page!PagesAssumption, PagesIInv,
           \/ Page!RunStarts \/ Page!RunEnds \/ Page!Reread \/ Page!Poll \/ Page!TakeSnapshot
           \/ Page!Send \/ UNCHANGED Page!vars
    PROVE  PagesIInv'
<1>1. UNCHANGED <<table, version, updated, owed, written, wronged, Page!page, got, reply, queue>>
  BY DEF Page!RunStarts, Page!RunEnds, Page!Reread, Page!Poll, Page!TakeSnapshot, Page!Send,
         Page!vars, Page!server, Page!page, Page!reading, Page!saving, Page!polling, Page!Ask,
         Page!Fetch
<1>2. /\ running' \in BOOLEAN /\ refreshes' \in BOOLEAN /\ seen' \in Nat
      /\ get' \in {"idle", "asked", "answered"} /\ snap' \in {"idle", "asked", "answered"}
      /\ post' \in {"idle", "asked", "refused", "answered"} /\ (post' # "idle" => queue # <<>>)
  <2>1. running' \in BOOLEAN /\ refreshes' \in BOOLEAN
    <3>1. running \in BOOLEAN /\ refreshes \in BOOLEAN
      BY DEF PagesIInv, Page!TypeOK
    <3>2. running' \in {running, TRUE, FALSE} /\ refreshes' \in {refreshes, TRUE, FALSE}
      BY DEF Page!RunStarts, Page!RunEnds, Page!Reread, Page!Poll, Page!TakeSnapshot, Page!Send,
             Page!vars, Page!server, Page!page, Page!reading, Page!saving, Page!polling, Page!Ask,
             Page!Fetch
    <3> QED BY <3>1, <3>2
  <2>2. /\ seen' \in Nat
        /\ get' \in {"idle", "asked", "answered"} /\ snap' \in {"idle", "asked", "answered"}
    BY DEF PagesIInv, Page!TypeOK, Page!RunStarts, Page!RunEnds, Page!Reread, Page!Poll,
           Page!TakeSnapshot, Page!Send, Page!vars, Page!server, Page!page, Page!reading,
           Page!saving, Page!polling, Page!Ask, Page!Fetch
  <2>3. post' = post \/ (post' = "asked" /\ queue # <<>>)
    BY DEF Page!RunStarts, Page!RunEnds, Page!Reread, Page!Poll, Page!TakeSnapshot, Page!Send,
           Page!vars, Page!saving
  <2> QED BY <2>1, <2>2, <2>3 DEF PagesIInv, Page!TypeOK, QueueTyped
<1>3. Page!TypeOK' /\ QueueTyped'
  BY <1>1, <1>2 DEF PagesIInv, Page!TypeOK, QueueTyped, Page!page
<1>4. AnswersBehind' /\ ReadIsTable' /\ Page!CurrentShowsAll' /\ DraftsAgree' /\ wronged' = FALSE
  BY <1>1
     DEF PagesIInv, AnswersBehind, Page!NoneAhead, ReadIsTable, Page!CurrentShowsAll,
         Page!UpToDate, DraftsAgree, DraftAgrees, Page!page
<1> QED BY <1>3, <1>4 DEF PagesIInv

\* A task's run writes an entry and owes the announcement of it.
LEMMA RunWritesKeeps ==
    ASSUME Page!PagesAssumption, PagesIInv, NEW t \in Leaves, Page!RunWrites(t) PROVE PagesIInv'
<1>1. /\ written' = written + 1 /\ table' = [table EXCEPT ![t] = written'] /\ owed' = TRUE
      /\ queue' = Page!Outdated /\ written < Writes
      /\ UNCHANGED <<version, updated, running, wronged, Page!page, Page!reading,
                     post, reply, Page!polling>>
  BY DEF Page!RunWrites, Page!Write
<1>2. written' \in 0 .. Writes
  BY <1>1 DEF PagesIInv, Page!TypeOK, Page!PagesAssumption
<1>3. table' \in Page!Snapshot
  BY <1>1, <1>2, SnapshotChange DEF PagesIInv, Page!TypeOK, Page!Items
<1>4. /\ QueueTyped'
      /\ \A i \in DOMAIN queue' : queue'[i] \in Page!Operations /\ queue'[i].fresh = FALSE
  BY <1>1, OutdatedQueue DEF PagesIInv, QueueTyped
<1>5. Page!TypeOK'
  BY <1>1, <1>2, <1>3, <1>4 DEF PagesIInv, Page!TypeOK, Page!page, Page!reading, Page!polling
<1>6. AnswersBehind' /\ ReadIsTable' /\ Page!CurrentShowsAll' /\ wronged' = FALSE
  BY <1>1
     DEF PagesIInv, AnswersBehind, Page!NoneAhead, ReadIsTable, Page!CurrentShowsAll,
         Page!UpToDate, Page!page, Page!reading
<1>7. DraftsAgree'
  BY <1>4 DEF DraftsAgree, DraftAgrees
<1> QED BY <1>4, <1>5, <1>6, <1>7 DEF PagesIInv

\* The announcement of a run leaves everything else alone.
LEMMA RunAnnouncesKeeps ==
    ASSUME Page!PagesAssumption, PagesIInv, Page!RunAnnounces PROVE PagesIInv'
<1>1. /\ owed' = FALSE /\ updated' = TRUE
      /\ UNCHANGED <<table, version, running, written, wronged, Page!page, Page!reading,
                     Page!saving, Page!polling>>
  BY DEF Page!RunAnnounces
<1>2. Page!TypeOK' /\ QueueTyped'
  BY <1>1
     DEF PagesIInv, Page!TypeOK, QueueTyped, Page!page, Page!reading, Page!saving, Page!polling
<1>3. AnswersBehind' /\ ReadIsTable' /\ Page!CurrentShowsAll' /\ DraftsAgree' /\ wronged' = FALSE
  BY <1>1
     DEF PagesIInv, AnswersBehind, Page!NoneAhead, ReadIsTable, Page!CurrentShowsAll,
         Page!UpToDate, DraftsAgree, DraftAgrees, Page!page, Page!reading, Page!saving
<1> QED BY <1>2, <1>3 DEF PagesIInv

\* Replacing the list, or the order, raises the version and announces it.
LEMMA ReplaceKeeps ==
    ASSUME Page!PagesAssumption, PagesIInv, NEW kind \in {"tasks", "order"},
           NEW list \in Page!Snapshot,
           Page!Replace(kind, list)
    PROVE  /\ table' \in Page!Snapshot /\ version' = version + 1 /\ updated' = TRUE
           /\ queue' \in Seq(Page!Operations) /\ (queue # <<>> => queue' # <<>>)
           /\ DraftsAgree'
           /\ \A t \in Leaves : table'[t] = IF kind = "tasks" THEN list[t] ELSE table[t]
<1>1. /\ table' = [i \in Page!Items |->
                      IF (i = "order") = (kind = "order") THEN list[i] ELSE table[i]]
      /\ updated' = TRUE /\ version' = version + 1 /\ queue' = Page!Outdated
  BY DEF Page!Replace, Page!RefreshProjection
<1>2. table' \in Page!Snapshot
  BY <1>1, VersionsAreNumbers DEF Page!Snapshot
<1>3. /\ queue' \in Seq(Page!Operations) /\ (queue # <<>> => queue' # <<>>)
      /\ \A i \in DOMAIN queue' : queue'[i].fresh = FALSE
  BY <1>1, OutdatedQueue DEF PagesIInv, QueueTyped
<1>4. DraftsAgree'
  BY <1>3 DEF DraftsAgree, DraftAgrees
<1>5. ASSUME NEW t \in Leaves
      PROVE  table'[t] = IF kind = "tasks" THEN list[t] ELSE table[t]
  <2>1. t \in Page!Items /\ t # "order"
    BY DEF Page!Items, Page!PagesAssumption
  <2> QED BY <1>1, <2>1
<1> QED BY <1>1, <1>2, <1>3, <1>4, <1>5

\* Another tab saves.
LEMMA OthersSaveKeeps ==
    ASSUME Page!PagesAssumption, PagesIInv, NEW kind \in {"tasks", "order"}, Page!OthersSave(kind)
    PROVE  PagesIInv'
<1>1. /\ written < Writes /\ written' = written + 1
      /\ \E i \in Page!Items, n \in 0 .. written' : Page!Replace(kind, [table EXCEPT ![i] = n])
      /\ UNCHANGED <<running, owed, wronged, Page!page, Page!reading,
                     post, reply, Page!polling>>
  BY DEF Page!OthersSave, Page!Write
<1>2. written' \in 0 .. Writes /\ 0 .. written' \subseteq 0 .. Writes
  BY <1>1 DEF PagesIInv, Page!TypeOK, Page!PagesAssumption
<1>3. PICK i \in Page!Items, n \in 0 .. written' : Page!Replace(kind, [table EXCEPT ![i] = n])
  BY <1>1
<1>4. PICK list \in Page!Snapshot : Page!Replace(kind, list)
  <2>1. [table EXCEPT ![i] = n] \in Page!Snapshot
    BY <1>2, SnapshotChange, VersionsAreNumbers
  <2> QED BY <1>3, <2>1
<1>5. /\ table' \in Page!Snapshot /\ version' = version + 1 /\ updated' = TRUE /\ DraftsAgree'
      /\ queue' \in Seq(Page!Operations) /\ (queue # <<>> => queue' # <<>>)
  BY <1>4, ReplaceKeeps
<1>6. Page!TypeOK' /\ QueueTyped'
  BY <1>1, <1>2, <1>5
     DEF PagesIInv, Page!TypeOK, QueueTyped, Page!page, Page!reading, Page!polling
<1>7. AnswersBehind'
  BY <1>1, <1>5, VersionsAreNumbers DEF AnswersBehind, Page!NoneAhead, Page!page, Page!reading
<1>8. ReadIsTable' /\ Page!CurrentShowsAll' /\ wronged' = FALSE
  BY <1>1, <1>5 DEF PagesIInv, ReadIsTable, Page!CurrentShowsAll, Page!UpToDate
<1> QED BY <1>5, <1>6, <1>7, <1>8 DEF PagesIInv

\* A save of this tab's is refused, or replaces the list: one that was drafted in a tab that was up
\* to date, and not outdated since, changes no task but its own.
LEMMA ServePostKeeps ==
    ASSUME Page!PagesAssumption, PagesIInv, Page!ServePost PROVE PagesIInv'
<1>1. /\ post = "asked" /\ queue # <<>> /\ queue \in Seq(Page!Operations)
      /\ UNCHANGED <<running, owed, written, Page!page, Page!reading, Page!polling>>
  BY DEF Page!ServePost, PagesIInv, QueueTyped
<1>2. CASE /\ running /\ post' = "refused"
           /\ UNCHANGED <<table, version, updated, wronged, queue, reply>>
  <2>1. Page!TypeOK' /\ QueueTyped'
    BY <1>1, <1>2 DEF PagesIInv, Page!TypeOK, QueueTyped, Page!page, Page!reading, Page!polling
  <2>2. AnswersBehind' /\ ReadIsTable' /\ Page!CurrentShowsAll' /\ DraftsAgree' /\ wronged' = FALSE
    BY <1>1, <1>2
       DEF PagesIInv, AnswersBehind, Page!NoneAhead, ReadIsTable, Page!CurrentShowsAll,
           Page!UpToDate, DraftsAgree, DraftAgrees, Page!page, Page!reading
  <2> QED BY <2>1, <2>2 DEF PagesIInv
<1>3. CASE /\ Page!Replace(Head(queue).kind, Head(queue).list)
           /\ wronged' = (wronged \/ (Head(queue).fresh /\
                  \E t \in Leaves \ Head(queue).mine : table'[t] # table[t]))
           /\ post' = "answered" /\ reply' = Page!PublicConfig
  <2>1. PICK op \in Page!Operations : op = Head(queue) /\ DraftAgrees(op)
    <3>1. Head(queue) = queue[1] /\ 1 \in DOMAIN queue /\ Head(queue) \in Page!Operations
      BY <1>1
    <3>2. DraftAgrees(Head(queue))
      BY <3>1 DEF PagesIInv, DraftsAgree
    <3> QED BY <3>1, <3>2
  <2>2. op.kind \in {"tasks", "order"} /\ op.list \in Page!Snapshot
    BY DEF Page!Operations
  <2>3. /\ table' \in Page!Snapshot /\ version' = version + 1 /\ updated' = TRUE /\ DraftsAgree'
        /\ queue' \in Seq(Page!Operations) /\ queue' # <<>>
        /\ \A t \in Leaves : table'[t] = IF op.kind = "tasks" THEN op.list[t] ELSE table[t]
    BY <1>1, <1>3, <2>1, <2>2, ReplaceKeeps
  <2>4. wronged' = FALSE
    <3>1. ~(op.fresh /\ \E t \in Leaves \ op.mine : table'[t] # table[t])
      BY <2>1, <2>3 DEF DraftAgrees
    <3>2. wronged = FALSE
      BY DEF PagesIInv
    <3> QED BY <1>3, <2>1, <3>1, <3>2, Zenon
  <2>5. reply' \in Page!Answers /\ reply'.at = version'
    BY <1>3, <2>3, AnswerTyped, VersionsAreNumbers
  <2>6. Page!TypeOK' /\ QueueTyped'
    BY <1>1, <1>3, <2>3, <2>4, <2>5
       DEF PagesIInv, Page!TypeOK, QueueTyped, Page!page, Page!reading, Page!polling
  <2>7. AnswersBehind'
    BY <1>1, <2>3, <2>5, VersionsAreNumbers
       DEF AnswersBehind, Page!NoneAhead, Page!page, Page!reading
  <2>8. ReadIsTable' /\ Page!CurrentShowsAll'
    BY <2>3 DEF ReadIsTable, Page!CurrentShowsAll, Page!UpToDate
  <2> QED BY <2>3, <2>4, <2>6, <2>7, <2>8 DEF PagesIInv
<1> QED BY <1>2, <1>3 DEF Page!ServePost

\* Whoever takes the announcement: if the version is not raised, there was none.
LEMMA ConsumeKeeps ==
    ASSUME PagesIInv, Page!Consume, UNCHANGED <<table, owed, Page!page, reply, queue, wronged>>
    PROVE  /\ Page!CurrentShowsAll' /\ DraftsAgree' /\ version' \in Nat /\ updated' = FALSE
           /\ got' = got => AnswersBehind' /\ ReadIsTable'
           /\ got'.at = version' /\ got'.list = table' => AnswersBehind' /\ ReadIsTable'
<1>1. /\ version' \in Nat /\ version' >= version /\ updated' = FALSE /\ reply.at < version'
      /\ version' = version => updated = FALSE
      /\ version' # version => version' = version + 1
  BY ConsumeRaises
<1>2. Page!CurrentShowsAll' /\ DraftsAgree'
  <2>1. known = version' => version' = version
    BY <1>1, VersionsAreNumbers
  <2>2. Page!UpToDate' => Page!UpToDate
    BY <1>1, <2>1 DEF Page!UpToDate, Page!page
  <2> QED BY <2>2 DEF PagesIInv, Page!CurrentShowsAll, DraftsAgree, DraftAgrees, Page!page
<1>3. ASSUME got' = got PROVE AnswersBehind' /\ ReadIsTable'
  <2>1. got.at = version' => version' = version
    BY <1>1, VersionsAreNumbers
  <2>2. ReadIsTable'
    BY <1>1, <1>3, <2>1 DEF PagesIInv, ReadIsTable
  <2>3. AnswersBehind'
    BY <1>1, <1>3, VersionsAreNumbers DEF AnswersBehind, Page!NoneAhead, Page!page
  <2> QED BY <2>2, <2>3
<1>4. ASSUME got'.at = version', got'.list = table' PROVE AnswersBehind' /\ ReadIsTable'
  BY <1>1, <1>4, VersionsAreNumbers DEF AnswersBehind, Page!NoneAhead, ReadIsTable, Page!page
<1> QED BY <1>1, <1>2, <1>3, <1>4

\* A read of another tab, a read of this one, and a poll.
LEMMA ReadsKeep ==
    ASSUME Page!PagesAssumption, PagesIInv,
           Page!OthersRead \/ Page!ServeRefresh \/ Page!ServeSnapshot
    PROVE  PagesIInv'
<1>1. /\ Page!Consume
      /\ UNCHANGED <<table, running, owed, written, wronged, Page!page, Page!saving, refreshes>>
      /\ \/ UNCHANGED <<get, got>>
         \/ get' = "answered" /\ got' = Page!PublicConfig
      /\ \/ UNCHANGED <<snap, seen>>
         \/ snap' = "answered" /\ seen' = version'
  BY DEF Page!OthersRead, Page!ServeRefresh, Page!ServeSnapshot, Page!reading, Page!polling
<1>2. /\ Page!CurrentShowsAll' /\ DraftsAgree' /\ version' \in Nat /\ updated' = FALSE
      /\ got' = got => AnswersBehind' /\ ReadIsTable'
      /\ got'.at = version' /\ got'.list = table' => AnswersBehind' /\ ReadIsTable'
  BY <1>1, ConsumeKeeps DEF Page!saving
<1>3. table' \in Page!Snapshot /\ Page!PublicConfig \in Page!Answers
      /\ Page!PublicConfig.list = table' /\ Page!PublicConfig.at = version'
  BY <1>1, <1>2, AnswerTyped, VersionsAreNumbers
<1>4. AnswersBehind' /\ ReadIsTable' /\ wronged' = FALSE
  BY <1>1, <1>2, <1>3 DEF PagesIInv
<1>5. Page!TypeOK' /\ QueueTyped'
  BY <1>1, <1>2, <1>3 DEF PagesIInv, Page!TypeOK, QueueTyped, Page!page, Page!saving
<1> QED BY <1>2, <1>4, <1>5 DEF PagesIInv

\* An answer to a read, if it is not older than what the tab has, is as new as the server with
\* nothing to announce only if it is the server's list.
LEMMA TakeAnswerKeeps ==
    ASSUME Page!PagesAssumption, PagesIInv, Page!TakeAnswer PROVE PagesIInv'
<1>1. /\ get' = "idle" /\ got' = Page!None /\ Page!Apply(got)
      /\ UNCHANGED <<Page!server, Page!saving, Page!polling>>
  BY DEF Page!TakeAnswer
<1>2. Page!None.at = 0 /\ Page!None \in Page!Answers
  BY NoneIsAnswer DEF Page!None
<1>3. \/ UNCHANGED Page!page
      \/ shown' = got.list /\ known' = got.at /\ toggled' = {}
  BY <1>1 DEF Page!Apply
<1>4. shown' \in Page!Snapshot /\ known' \in Nat /\ toggled' \in SUBSET Leaves /\ known' <= version
  BY <1>3, VersionsAreNumbers DEF PagesIInv, Page!TypeOK, Page!page
<1>5. Page!TypeOK' /\ QueueTyped'
  BY <1>1, <1>2, <1>4
     DEF PagesIInv, Page!TypeOK, QueueTyped, Page!server, Page!saving, Page!polling
<1>6. AnswersBehind' /\ ReadIsTable'
  <2>1. /\ got'.at = 0 /\ known' <= version /\ version \in Nat /\ version >= 1
        /\ UNCHANGED <<version, reply, updated>>
    BY <1>1, <1>2, <1>4, VersionsAreNumbers DEF Page!server, Page!saving
  <2>2. ReadIsTable'
    BY <2>1 DEF ReadIsTable
  <2>3. AnswersBehind'
    BY <2>1 DEF PagesIInv, AnswersBehind, Page!NoneAhead
  <2> QED BY <2>2, <2>3
<1>7. Page!CurrentShowsAll'
  BY <1>1, <1>3
     DEF PagesIInv, Page!CurrentShowsAll, Page!UpToDate, ReadIsTable, Page!server, Page!page
<1>8. DraftsAgree' /\ wronged' = FALSE
  BY <1>1 DEF PagesIInv, DraftsAgree, DraftAgrees, Page!server, Page!saving
<1> QED BY <1>5, <1>6, <1>7, <1>8 DEF PagesIInv

\* A switch in the list is one of what was switched.
LEMMA ToggleKeeps ==
    ASSUME Page!PagesAssumption, PagesIInv, NEW t \in Leaves, Page!Toggle(t) PROVE PagesIInv'
<1>1. /\ written < Writes /\ written' = written + 1
      /\ shown' = [shown EXCEPT ![t] = written'] /\ toggled' = toggled \cup {t}
      /\ UNCHANGED <<table, version, updated, running, owed, wronged, known, Page!reading,
                     Page!saving, Page!polling>>
  BY DEF Page!Toggle, Page!Write
<1>2. written' \in 0 .. Writes
  BY <1>1 DEF PagesIInv, Page!TypeOK, Page!PagesAssumption
<1>3. shown' \in Page!Snapshot /\ toggled' \in SUBSET Leaves
  BY <1>1, <1>2, SnapshotChange DEF PagesIInv, Page!TypeOK, Page!Items
<1>4. Page!TypeOK' /\ QueueTyped'
  BY <1>1, <1>2, <1>3
     DEF PagesIInv, Page!TypeOK, QueueTyped, Page!reading, Page!saving, Page!polling
<1>5. Page!CurrentShowsAll'
  BY <1>1 DEF PagesIInv, Page!TypeOK, Page!Snapshot, Page!CurrentShowsAll, Page!UpToDate
<1>6. AnswersBehind' /\ ReadIsTable' /\ DraftsAgree' /\ wronged' = FALSE
  BY <1>1
     DEF PagesIInv, AnswersBehind, Page!NoneAhead, ReadIsTable, DraftsAgree, DraftAgrees,
         Page!reading, Page!saving
<1> QED BY <1>4, <1>5, <1>6 DEF PagesIInv

\* An operation is queued that, in a tab that is up to date, agrees with the server but for what
\* was changed in it.
LEMMA EnqueueKeeps ==
    ASSUME Page!PagesAssumption, PagesIInv, NEW kind \in {"tasks", "order"},
           NEW list \in Page!Snapshot,
           NEW mine \in SUBSET Leaves, Page!Enqueue(kind, list, mine), written' \in 0 .. Writes,
           Page!UpToDate /\ kind = "tasks" => \A t \in Leaves \ mine : list[t] = table[t]
    PROVE  PagesIInv'
<1> DEFINE op == [kind |-> kind, list |-> list, fresh |-> Page!UpToDate,
                  mine |-> IF Page!UpToDate THEN mine ELSE {}]
<1>1. /\ queue' = Append(queue, op)
      /\ UNCHANGED <<table, version, updated, running, owed, wronged, Page!page, Page!reading,
                     post, reply, Page!polling>>
  BY DEF Page!Enqueue
<1>2. op \in Page!Operations
  <2>1. Page!UpToDate \in BOOLEAN
    BY DEF Page!UpToDate
  <2>2. (IF Page!UpToDate THEN mine ELSE {}) \in SUBSET Leaves
    OBVIOUS
  <2> QED BY <2>1, <2>2 DEF Page!Operations
<1>3. DraftAgrees(op)
  BY DEF DraftAgrees
<1>4. queue \in Seq(Page!Operations)
  BY DEF PagesIInv, QueueTyped
<1> HIDE DEF op
<1>5. queue' \in Seq(Page!Operations) /\ queue' # <<>>
  BY <1>1, <1>2, <1>4
<1>6. Page!TypeOK' /\ QueueTyped'
  BY <1>1, <1>5 DEF PagesIInv, Page!TypeOK, QueueTyped, Page!page, Page!reading, Page!polling
<1>7. AnswersBehind' /\ ReadIsTable' /\ Page!CurrentShowsAll' /\ wronged' = FALSE
  BY <1>1
     DEF PagesIInv, AnswersBehind, Page!NoneAhead, ReadIsTable, Page!CurrentShowsAll,
         Page!UpToDate, Page!page, Page!reading
<1>8. DraftsAgree'
  <2>1. ASSUME NEW i \in DOMAIN queue'
        PROVE  queue'[i] = op \/ \E j \in DOMAIN queue : queue'[i] = queue[j]
    BY <1>1, <1>4
  <2>2. table' = table
    BY <1>1
  <2>3. \A i \in DOMAIN queue' : DraftAgrees(queue'[i])
    BY <1>3, <2>1 DEF PagesIInv, DraftsAgree
  <2> QED BY <2>2, <2>3 DEF DraftsAgree, DraftAgrees
<1> QED BY <1>6, <1>7, <1>8 DEF PagesIInv

\* The list as it stands, the list with a form's task in it, and an order.
LEMMA SavesKeep ==
    ASSUME Page!PagesAssumption, PagesIInv,
           Page!SaveList \/ Page!SaveOrder \/ \E t \in Leaves : Page!SaveForm(t)
    PROVE  PagesIInv'
<1>1. /\ written \in 0 .. Writes /\ (written < Writes => written + 1 \in 0 .. Writes)
      /\ shown \in Page!Snapshot /\ toggled \in SUBSET Leaves
  BY DEF PagesIInv, Page!TypeOK, Page!PagesAssumption
<1>2. Page!UpToDate => \A t \in Leaves \ toggled : shown[t] = table[t]
  BY DEF PagesIInv, Page!CurrentShowsAll, Page!Items
<1>3. CASE Page!SaveList
  <2>1. Page!Enqueue("tasks", shown, toggled) /\ written' \in 0 .. Writes
    BY <1>1, <1>3 DEF Page!SaveList
  <2> QED BY <1>1, <1>2, <2>1, EnqueueKeeps
<1>4. CASE Page!SaveOrder
  <2>1. /\ Page!Enqueue("order", [Page!Nothing EXCEPT !["order"] = written'], {})
        /\ written' \in 0 .. Writes
    BY <1>1, <1>4 DEF Page!SaveOrder, Page!Write
  <2>2. [Page!Nothing EXCEPT !["order"] = written'] \in Page!Snapshot
    BY <2>1, NothingIsSnapshot, SnapshotChange DEF Page!Items
  <2> QED BY <2>1, <2>2, EnqueueKeeps
<1>5. ASSUME NEW t \in Leaves, Page!SaveForm(t) PROVE PagesIInv'
  <2>1. /\ Page!Enqueue("tasks", [shown EXCEPT ![t] = written'], toggled \cup {t})
        /\ written' \in 0 .. Writes
    BY <1>1, <1>5 DEF Page!SaveForm, Page!Write
  <2>2. [shown EXCEPT ![t] = written'] \in Page!Snapshot /\ toggled \cup {t} \in SUBSET Leaves
    BY <1>1, <2>1, SnapshotChange DEF Page!Items
  <2>3. Page!UpToDate => \A u \in Leaves \ (toggled \cup {t}) :
            [shown EXCEPT ![t] = written'][u] = table[u]
    BY <1>1, <1>2 DEF Page!Snapshot, Page!Items
  <2> QED BY <2>1, <2>2, <2>3, EnqueueKeeps
<1> QED BY <1>3, <1>4, <1>5

\* The answer to a save may bring the tab to the server's version, but then something is announced.
LEMMA SavedKeeps ==
    ASSUME Page!PagesAssumption, PagesIInv, Page!Saved PROVE PagesIInv'
<1>1. /\ queue' = Tail(queue) /\ post' = "idle" /\ reply' = Page!None
      /\ UNCHANGED <<Page!server, Page!reading>> /\ post # "idle"
  BY DEF Page!Saved
<1>2. /\ \/ UNCHANGED Page!page
         \/ known' = reply.at /\ shown' = reply.list /\ toggled' = {}
         \/ /\ known' = reply.at /\ shown' = [shown EXCEPT !["order"] = reply.list["order"]]
            /\ UNCHANGED toggled
      /\ UNCHANGED Page!polling \/ (snap' = "asked" /\ refreshes' = FALSE /\ UNCHANGED seen)
  BY DEF Page!Saved, Page!Apply, Page!ApplyOrdering, Page!Fetch
<1>3. Page!None.at = 0 /\ Page!None \in Page!Answers
  BY NoneIsAnswer DEF Page!None
<1>4. queue \in Seq(Page!Operations) /\ queue # <<>>
  BY <1>1 DEF PagesIInv, QueueTyped
<1>5. /\ queue' \in Seq(Page!Operations)
      /\ \A i \in DOMAIN queue' : \E j \in DOMAIN queue : queue'[i] = queue[j]
  BY <1>1, <1>4
<1>6. /\ shown' \in Page!Snapshot /\ known' \in Nat /\ toggled' \in SUBSET Leaves
      /\ known' <= version /\ (UNCHANGED Page!page \/ known' = reply.at)
  <2>1. shown \in Page!Snapshot /\ toggled \in SUBSET Leaves
    BY DEF PagesIInv, Page!TypeOK
  <2>2. [shown EXCEPT !["order"] = reply.list["order"]] \in Page!Snapshot
    BY <2>1, SnapshotChange, VersionsAreNumbers DEF Page!Snapshot, Page!Items
  <2> QED BY <1>2, <2>1, <2>2, VersionsAreNumbers DEF Page!page
<1>7. Page!TypeOK' /\ QueueTyped'
  BY <1>1, <1>2, <1>3, <1>5, <1>6
     DEF PagesIInv, Page!TypeOK, QueueTyped, Page!server, Page!reading, Page!polling
<1>8. AnswersBehind' /\ ReadIsTable'
  <2>1. /\ reply'.at = 0 /\ known' <= version /\ version \in Nat /\ version >= 1
        /\ UNCHANGED <<table, version, got, updated, owed>>
    BY <1>1, <1>3, <1>6, VersionsAreNumbers DEF Page!server, Page!reading
  <2>2. ReadIsTable'
    BY <2>1 DEF PagesIInv, ReadIsTable
  <2>3. AnswersBehind'
    BY <2>1 DEF PagesIInv, AnswersBehind, Page!NoneAhead
  <2> QED BY <2>2, <2>3
<1>9. Page!CurrentShowsAll' /\ wronged' = FALSE
  BY <1>1, <1>6
     DEF PagesIInv, Page!CurrentShowsAll, Page!UpToDate, AnswersBehind, Page!server, Page!page
<1>10. DraftsAgree'
  BY <1>1, <1>5 DEF PagesIInv, DraftsAgree, DraftAgrees, Page!server
<1> QED BY <1>7, <1>8, <1>9, <1>10 DEF PagesIInv

\* Every step keeps the invariant.
LEMMA PagesStep == ASSUME Page!PagesAssumption, PagesIInv, [Page!Next]_(Page!vars) PROVE PagesIInv'
<1>1. CASE \/ Page!RunStarts \/ Page!RunEnds \/ Page!Reread \/ Page!Poll \/ Page!TakeSnapshot
           \/ Page!Send \/ UNCHANGED Page!vars
  BY <1>1, QuietKeeps
<1>2. CASE Page!RunAnnounces
  BY <1>2, RunAnnouncesKeeps
<1>3. CASE \E t \in Leaves : Page!RunWrites(t) \/ Page!Toggle(t) \/ Page!SaveForm(t)
  BY <1>3, RunWritesKeeps, ToggleKeeps, SavesKeep
<1>4. CASE \E kind \in {"tasks", "order"} : Page!OthersSave(kind)
  BY <1>4, OthersSaveKeeps
<1>5. CASE Page!OthersRead \/ Page!ServeRefresh \/ Page!ServeSnapshot
  BY <1>5, ReadsKeep
<1>6. CASE Page!ServePost
  BY <1>6, ServePostKeeps
<1>7. CASE Page!TakeAnswer
  BY <1>7, TakeAnswerKeeps
<1>8. CASE Page!Saved
  BY <1>8, SavedKeeps
<1>9. CASE Page!SaveList \/ Page!SaveOrder
  BY <1>9, SavesKeep
<1> QED BY <1>1, <1>2, <1>3, <1>4, <1>5, <1>6, <1>7, <1>8, <1>9 DEF Page!Next

\* However the answers to reads, saves and polls arrive, and whatever other tabs and runs write
\* meanwhile: a tab that carries the server's version shows the server's list but for what was
\* switched in it, a save drafted in such a tab changes nothing else, and no tab is ahead.
THEOREM PagesSound == ASSUME Page!PagesAssumption PROVE Page!Spec => []Page!PagesAreSound
<1>1. Page!Init => PagesIInv
  BY PagesInit
<1>2. PagesIInv /\ [Page!Next]_(Page!vars) => PagesIInv'
  BY PagesStep
<1>3. PagesIInv => Page!PagesAreSound
  BY Zenon DEF PagesIInv, AnswersBehind, Page!PagesAreSound, Page!SavesArePrecise
<1> QED BY <1>1, <1>2, <1>3, PTL DEF Page!Spec
=============================================================================
