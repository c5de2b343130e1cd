----------------------------- MODULE WorkerPool -----------------------------
(* The threads that carry the calls into the emulator's library: WorkerPool  *)
(* of AutoScriptor/control/NemuIpc/device/method/pool.py, as run_func of     *)
(* nemu_ipc.py uses it.  A client takes an idle worker or starts one, gives  *)
(* it a job, and waits for the answer or kills the job.  The call itself may *)
(* hang.  The two notify locks only shorten the waits of a full pool, which  *)
(* looks again every 10 ms, and are left out; of two idle workers popitem    *)
(* takes either.                                                             *)
EXTENDS Naturals, FiniteSets

CONSTANTS
    Clients,    \* threads that call the library, positive numbers: tasks, the monitor, the recorder
    PoolSize,   \* pool_size
    MaxJobs     \* bounds the number of calls

Jobs == 1..MaxJobs
Workers == Jobs         \* a job starts at most one thread, which has its number
NoJob == 0
Nobody == 0

VARIABLES
    at,         \* of a worker: "none", "wait", "run", "mark", "put", "leave", "dead"
    given,      \* of a worker: its attribute job, while worker_lock is released
    hand,       \* of a worker: the job it handles
    shot,       \* workers with a _JobKill on its way
    idle,       \* idle_workers
    all,        \* all_workers
    creator,    \* the client that has create_lock, if any
    pc,         \* of a client
    call,       \* of a client: its job
    holder,     \* of a job: its attribute worker
    result,     \* of a job: what notify_get announces
    last,       \* the number of calls so far
    ran,        \* history, of a job: how many times its function has been started
    crossed     \* history: a kill has met a worker that had finished, or not begun, its job

workerVars == <<at, given, hand, shot>>
poolVars == <<idle, all, creator>>
clientVars == <<pc, call, holder, result, last>>
vars == <<workerVars, poolVars, clientVars, ran, crossed>>

Full == Cardinality(all) >= PoolSize

Init ==
    /\ at = [w \in Workers |-> "none"]
    /\ given = [w \in Workers |-> NoJob] /\ hand = [w \in Workers |-> NoJob]
    /\ shot = {} /\ idle = {} /\ all = {} /\ creator = Nobody
    /\ pc = [c \in Clients |-> "rest"] /\ call = [c \in Clients |-> NoJob]
    /\ holder = [j \in Jobs |-> Nobody] /\ result = [j \in Jobs |-> "none"]
    /\ last = 0 /\ ran = [j \in Jobs |-> 0] /\ crossed = FALSE

-----------------------------------------------------------------------------
(* start_thread_soon *)

\* The job is made with its worker, and the worker's lock released.
Assign(c, w) ==
    /\ given' = [given EXCEPT ![w] = call[c]]
    /\ holder' = [holder EXCEPT ![call[c]] = w]
    /\ pc' = [pc EXCEPT ![c] = "get"]
    /\ UNCHANGED <<hand, shot, result, last, call, ran, crossed>>

\* popitem
Pop(c) ==
    \E w \in idle : idle' = idle \ {w} /\ Assign(c, w) /\ UNCHANGED <<at, all>>

GoTo(c, label) ==
    /\ pc' = [pc EXCEPT ![c] = label]
    /\ UNCHANGED <<workerVars, idle, all, call, holder, result, last, ran, crossed>>

\* An idle worker, at once; else wait while the pool is full; else make one.
Ask(c) ==
    /\ pc[c] = "rest" /\ last < MaxJobs
    /\ last' = last + 1 /\ call' = [call EXCEPT ![c] = last + 1]
    /\ pc' = [pc EXCEPT ![c] = "pop"]
    /\ UNCHANGED <<workerVars, poolVars, holder, result, ran, crossed>>

PopFirst(c) ==
    /\ pc[c] = "pop" /\ UNCHANGED creator
    /\ \/ Pop(c)
       \/ idle = {} /\ GoTo(c, IF Full THEN "full" ELSE "lock")

WaitFull(c) ==
    /\ pc[c] = "full" /\ UNCHANGED creator
    /\ \/ Pop(c)
       \/ idle = {} /\ ~Full /\ GoTo(c, "lock")

\* Mutant: the pool is not looked at again under create_lock
LockWithoutLook(c) ==
    /\ pc[c] = "lock" /\ creator = Nobody
    /\ creator' = c /\ GoTo(c, "create")

\* Under create_lock: the pool may have become full, or a worker idle, meanwhile.
Lock(c) ==
    /\ pc[c] = "lock" /\ creator = Nobody
    /\ \/ Full /\ creator' = c /\ GoTo(c, "fullLocked")
       \/ ~Full /\ creator' = creator /\ Pop(c)
       \/ ~Full /\ idle = {} /\ creator' = c /\ GoTo(c, "create")

WaitFullLocked(c) ==
    /\ pc[c] = "fullLocked"
    /\ \/ creator' = Nobody /\ Pop(c)
       \/ idle = {} /\ ~Full /\ creator' = creator /\ GoTo(c, "create")

Create(c) ==
    /\ pc[c] = "create" /\ creator' = Nobody
    /\ LET w == call[c] IN
        /\ at' = [at EXCEPT ![w] = "wait"]
        /\ all' = all \cup {w}
        /\ Assign(c, w)
    /\ UNCHANGED idle

-----------------------------------------------------------------------------
(* get_or_kill *)

Return(c) == pc' = [pc EXCEPT ![c] = "rest"] /\ call' = [call EXCEPT ![c] = NoJob]

Get(c) ==
    /\ pc[c] = "get" /\ result[call[c]] # "none"
    /\ Return(c)
    /\ UNCHANGED <<workerVars, poolVars, holder, result, last, ran, crossed>>

\* The time is up.  A finished job is left alone.  Else the exception is sent, and the
\* worker struck from the pool, which raises KeyError, in place of JobTimeout, when the
\* worker is not in it; then the job keeps its worker.
Kill(c) ==
    /\ pc[c] = "get" /\ Return(c)
    /\ LET w == holder[call[c]] IN
        \/ w = Nobody /\ UNCHANGED <<shot, all, holder, crossed>>
        \/ /\ w # Nobody
           /\ shot' = IF at[w] = "dead" THEN shot ELSE shot \cup {w}
           /\ all' = all \ {w}
           /\ holder' = IF w \in all THEN [holder EXCEPT ![call[c]] = Nobody] ELSE holder
           /\ crossed' = (crossed \/ at[w] # "run" \/ hand[w] # call[c])
    /\ UNCHANGED <<at, given, hand, idle, creator, result, last, ran>>

-----------------------------------------------------------------------------
(* WorkerThread *)

Move(w, label) == at' = [at EXCEPT ![w] = label]

TakeJob(w) ==
    /\ at[w] = "wait" /\ given[w] # NoJob /\ w \notin shot
    /\ Move(w, "run")
    /\ hand' = [hand EXCEPT ![w] = given[w]] /\ given' = [given EXCEPT ![w] = NoJob]
    /\ ran' = [ran EXCEPT ![given[w]] = @ + 1]
    /\ UNCHANGED <<shot, poolVars, clientVars, crossed>>

\* The function returns, or raises an error of its own.
Finish(w) ==
    /\ at[w] = "run" /\ w \notin shot /\ Move(w, "mark")
    /\ UNCHANGED <<given, hand, shot, poolVars, clientVars, ran, crossed>>

\* Mutant: the worker is not put back
MarkNotIdle(w) ==
    /\ at[w] = "mark" /\ Move(w, "put")
    /\ UNCHANGED <<given, hand, shot, poolVars, clientVars, ran, crossed>>

\* Before the result is delivered, so that its receiver finds this worker idle.
MarkIdle(w) ==
    /\ at[w] = "mark" /\ Move(w, "put")
    /\ idle' = idle \cup {w}
    /\ UNCHANGED <<given, hand, shot, all, creator, clientVars, ran, crossed>>

Deliver(w) ==
    /\ at[w] = "put" /\ Move(w, "wait")
    /\ result' = [result EXCEPT ![hand[w]] = "done"]
    /\ holder' = [holder EXCEPT ![hand[w]] = Nobody]
    /\ hand' = [hand EXCEPT ![w] = NoJob]
    /\ UNCHANGED <<given, shot, poolVars, pc, call, last, ran, crossed>>

\* Nothing to do for IDLE_TIMEOUT.  A worker that is not idle is about to get a job
\* (or has been killed): it waits on.
TimeOut(w) ==
    /\ at[w] = "wait" /\ given[w] = NoJob /\ w \in idle \ shot
    /\ Move(w, "leave")
    /\ idle' = idle \ {w}
    /\ UNCHANGED <<given, hand, shot, all, creator, clientVars, ran, crossed>>

Leave(w) ==
    /\ at[w] = "leave" /\ Move(w, "dead")
    /\ all' = all \ {w}
    /\ UNCHANGED <<given, hand, shot, idle, creator, clientVars, ran, crossed>>

\* _JobKill is raised when the call under way comes back: inside the function, where it
\* is caught and the worker waits on, or outside, where it ends the thread, which may be
\* idle or have its next job.
Struck(w) ==
    /\ w \in shot /\ shot' = shot \ {w}
    /\ Move(w, IF at[w] = "run" THEN "wait" ELSE "dead")
    /\ hand' = [hand EXCEPT ![w] = NoJob]
    /\ UNCHANGED <<given, poolVars, clientVars, ran, crossed>>

-----------------------------------------------------------------------------
Client(c) ==
    \/ Ask(c) \/ PopFirst(c) \/ WaitFull(c) \/ Lock(c) \/ WaitFullLocked(c) \/ Create(c)
    \/ Get(c) \/ Kill(c)

Worker(w) ==
    \/ TakeJob(w) \/ Finish(w) \/ MarkIdle(w) \/ Deliver(w) \/ TimeOut(w) \/ Leave(w)
    \/ Struck(w)

Next == (\E c \in Clients : Client(c)) \/ (\E w \in Workers : Worker(w))

\* What a worker is sure to do; a call may hang for ever.
Obliged(w) == TakeJob(w) \/ MarkIdle(w) \/ Deliver(w) \/ Leave(w)

\* The threads run, and waits end with their time.
Fairness ==
    /\ \A c \in Clients : WF_vars(Client(c))
    /\ \A w \in Workers : WF_vars(Obliged(w))

Spec == Init /\ [][Next]_vars /\ Fairness

-----------------------------------------------------------------------------
Alive(w) == at[w] \notin {"none", "dead"}

Waits == {"pop", "full", "lock", "fullLocked", "create"}    \* where a client waits for a worker

TypeOK ==
    /\ at \in [Workers -> {"none", "wait", "run", "mark", "put", "leave", "dead"}]
    /\ given \in [Workers -> Jobs \cup {NoJob}] /\ hand \in [Workers -> Jobs \cup {NoJob}]
    /\ shot \subseteq Workers /\ idle \subseteq Workers /\ all \subseteq Workers
    /\ creator \in Clients \cup {Nobody}
    /\ pc \in [Clients -> Waits \cup {"rest", "get"}]
    /\ call \in [Clients -> Jobs \cup {NoJob}]
    /\ holder \in [Jobs -> Workers \cup {Nobody}] /\ result \in [Jobs -> {"none", "done"}]
    /\ last \in 0..MaxJobs /\ ran \in [Jobs -> Nat] /\ crossed \in BOOLEAN

\* "Pool has 8 threads at max": the pool counts no more than pool_size workers, and none
\* that has ended, which would take up a place for ever.
PoolBound ==
    /\ Cardinality(all) <= PoolSize
    /\ \A w \in all : Alive(w)

\* A job is run at most once, by the worker it was given to, and answered only after it
\* has been run; a worker that gets a job has no other one waiting.
JobsApart ==
    /\ \A j \in Jobs : ran[j] <= 1 /\ (result[j] # "none" => ran[j] = 1)
    /\ \A c \in Clients : pc[c] = "get" /\ result[call[c]] = "none" =>
        LET w == holder[call[c]] IN
            \/ w # Nobody /\ (given[w] = call[c] \/ hand[w] = call[c])
            \/ crossed
    /\ \A w \in idle : given[w] = NoJob

\* An idle worker is there to take a job, unless a kill has come when its job was over.
IdleIsReady ==
    \A w \in idle : crossed \/ (w \in all /\ at[w] \in {"put", "wait"} /\ w \notin shot)

\* Every worker the pool counts is at work, idle, leaving, or about to be: no place is lost.
NoPlaceLost ==
    \A w \in all : at[w] = "wait" => w \in idle \/ given[w] # NoJob

\* Types; the pool is bounded, keeps jobs apart, and its idle workers are ready.
PoolIsSound == TypeOK /\ PoolBound /\ JobsApart /\ IdleIsReady /\ NoPlaceLost

\* Every call comes back, with an answer or an error, though the library may hang.
CallsReturn == \A c \in Clients : pc[c] # "rest" ~> pc[c] = "rest"

\* pool.py:288, of the threads themselves: outside the library no more than pool_size wait.
ThreadsBounded == Cardinality({w \in Workers : Alive(w) /\ at[w] # "run"}) <= PoolSize
=============================================================================
