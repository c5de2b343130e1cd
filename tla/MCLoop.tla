------------------------------- MODULE MCLoop -------------------------------
(* Threads that wait and are woken, in one run of TLC: the scheduler's     *)
(* loop (LoopWakeup); and, on variables of their own, its other half       *)
(* (HotReload), and the pool that carries the calls to the emulator        *)
(* (WorkerPool).  One of them, chosen at the start, moves; the others stay *)
(* where they begin.                                                       *)
EXTENDS LoopWakeup

CONSTANTS Clients, PoolSize, MaxJobs    \* of the pool

VARIABLES
    moves,      \* the specification that takes the steps
    thread, gate, active, deferred, unseen, unloaded, late,
    worker, given, hand, shot, idle, all, creator, pc, call, carrier, result, last, ran, crossed

reloadVars == <<thread, gate, active, deferred, unseen, unloaded, late>>
poolVars == <<worker, given, hand, shot, idle, all, creator, pc, call, carrier, result, last, ran,
              crossed>>

Reload == INSTANCE HotReload WITH at <- thread, holder <- gate

Pool == INSTANCE WorkerPool WITH at <- worker, holder <- carrier

Pooling == moves = "pool"

MCInit == Init /\ Reload!Init /\ Pool!Init /\ moves \in {"wakeup", "reload", "pool"}

\* The fairness of the loop; and of the pool, when it moves.

MCSpec ==
    /\ MCInit
    /\ [][ /\ moves' = moves
           /\ \/ moves = "wakeup" /\ Next /\ UNCHANGED <<reloadVars, poolVars>>
              \/ moves = "reload" /\ Reload!Next /\ UNCHANGED <<vars, poolVars>>
              \/ Pooling /\ Pool!Next /\ UNCHANGED <<vars, reloadVars>>
         ]_<<vars, moves, reloadVars, poolVars>>
    /\ Fairness
    /\ \A c \in Clients : WF_poolVars(Pooling /\ Pool!Client(c))
    /\ \A w \in Pool!Workers : WF_poolVars(Pooling /\ Pool!Obliged(w))

\* Edits are not lost, see ReloadIsSound of HotReload.
ReloadIsSound == Reload!ReloadIsSound

\* The pool is bounded and its calls return, see the properties of these names in WorkerPool.
PoolIsSound == Pool!PoolIsSound
CallsReturn == Pool!CallsReturn
=============================================================================
