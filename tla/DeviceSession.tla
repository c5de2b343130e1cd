--------------------------- MODULE DeviceSession ---------------------------
(* Who has the device: RuntimeContext of AutoScriptor/core/runtime_context.py, *)
(* ensure_app_running of core/api.py, the one IPC connection that each        *)
(* MixControl opens when it is first used (NemuIpc of nemu_ipc.py), and those  *)
(* that share them.  A task, which has the execution gate, makes a session of  *)
(* its own and drops it; the WebUI's event loop makes one when a page asks for *)
(* a screenshot and there is none; the background monitor uses whatever it     *)
(* finds in core_api.mixctrl.  Making a session takes the refresh lock,        *)
(* dropping one does not.  What goes through a connection is NemuChannel's.    *)
EXTENDS Naturals

CONSTANTS
    Testers,        \* daemon threads of the click tests
    Tests,          \* the number of click tests, len(intervals)
    MaxControls,    \* bounds the number of MixControl made
    MaxConnections  \* bounds the number of connections opened

Makers == {"task", "web"}
Users == {"web", "monitor"}
Threads == Makers \cup Users \cup Testers

Controls == 1..MaxControls
Connections == 1..MaxConnections
None == 0
Nobody == "nobody"

VARIABLES
    mixctrl, mumu,  \* of RuntimeContext; of mumu, whether there is one
    core,           \* core_api.mixctrl, the global
    lock,           \* the holder of _refresh_lock
    impl,           \* of a control: the cached nemu_ipc
    open,           \* connections that are connected
    made, opened,   \* the numbers of controls and connections so far
    cancel,         \* the cancel event, while the task makes its session
    pc,             \* of a thread: what it does next
    ctrl,           \* of a thread: the control it makes, drops or uses
    conn,           \* of a thread: the connection it uses
    own,            \* the control that the task's refresh has returned
    tests,          \* the click tests that the maker has begun
    tester,         \* the thread of the last one, which the maker waits for
    dropping        \* of a maker: it drops a session for good

contextVars == <<mixctrl, mumu, core, lock>>
connectionVars == <<impl, open, opened>>
makingVars == <<own, tests, tester, dropping>>
vars == <<contextVars, connectionVars, made, cancel, pc, ctrl, conn, makingVars>>

Init ==
    /\ mixctrl = None /\ mumu = FALSE /\ core = None /\ lock = Nobody
    /\ impl = [c \in Controls |-> None] /\ open = {} /\ opened = 0 /\ made = 0
    /\ cancel = FALSE /\ pc = [t \in Threads |-> "rest"]
    /\ ctrl = [t \in Threads |-> None] /\ conn = [t \in Threads |-> None]
    /\ own = None /\ tests = 0 /\ tester = Nobody /\ dropping = [m \in Makers |-> FALSE]

Goto(t, label) == pc' = [pc EXCEPT ![t] = label]
Moves(t, from, to) == pc[t] = from /\ Goto(t, to)

-----------------------------------------------------------------------------
(* ensure_device_session, refresh                                              *)

\* The task's refresh, at the start of each run.
TaskBegins ==
    /\ Moves("task", "rest", "wait")
    /\ UNCHANGED <<contextVars, connectionVars, made, cancel, ctrl, conn, makingVars>>

\* A page asks for a screenshot: the request is handled in the event loop.
WebBegins ==
    /\ Moves("web", "rest", "wait")
    /\ UNCHANGED <<contextVars, connectionVars, made, cancel, ctrl, conn, makingVars>>

HasSession == mixctrl # None /\ mumu

\* Mutant: without the lock
TakeNoLock(m) ==
    /\ lock' = m
    /\ Moves(m, "wait", IF m = "web" /\ HasSession THEN "sync" ELSE "drop")
    /\ UNCHANGED <<mixctrl, mumu, core, connectionVars, made, cancel, ctrl, conn, makingVars>>

\* The lock waits without a time limit.  ensure_device_session makes do with what there is.
TakeLock(m) ==
    /\ lock = Nobody /\ lock' = m
    /\ Moves(m, "wait", IF m = "web" /\ HasSession THEN "sync" ELSE "drop")
    /\ UNCHANGED <<mixctrl, mumu, core, connectionVars, made, cancel, ctrl, conn, makingVars>>

Unlock(m) == lock' = IF lock = m THEN Nobody ELSE lock

\* An exception leaves the lock; what has been dropped or made is left as it is.
Raise(m) ==
    /\ Unlock(m) /\ Goto(m, "rest") /\ ctrl' = [ctrl EXCEPT ![m] = None]
    /\ tests' = 0 /\ tester' = Nobody
    /\ cancel' = IF m = "task" THEN FALSE ELSE cancel
    /\ UNCHANGED <<mixctrl, mumu, core, connectionVars, made, conn, own, dropping>>

-----------------------------------------------------------------------------
(* _release_nemu_ipc, nemu_ipc_release                                         *)

\* _ipc_lock keeps gestures out while m closes the connection of control c; captures do
\* without that lock.
Closing(m, c) == pc[m] = "forget" /\ ctrl[m] = c

\* The connection of the current control, if it has one, is closed ...
Drop(m) ==
    /\ Moves(m, "drop", "forget")
    /\ ctrl' = [ctrl EXCEPT ![m] = mixctrl]
    /\ open' = IF mixctrl = None THEN open ELSE open \ {impl[mixctrl]}
    /\ UNCHANGED <<contextVars, impl, opened, made, cancel, conn, makingVars>>

\* ... and then taken out of the cache.
Forget(m) ==
    /\ Moves(m, "forget", IF dropping[m] THEN "clear" ELSE "start")
    /\ impl' = IF ctrl[m] = None THEN impl ELSE [impl EXCEPT ![ctrl[m]] = None]
    /\ ctrl' = [ctrl EXCEPT ![m] = None]
    /\ UNCHANGED <<contextVars, open, opened, made, cancel, conn, makingVars>>

-----------------------------------------------------------------------------
(* ensure_app_running                                                          *)

\* The emulator is started and waited for; then there is a control.
Start(m) ==
    /\ made < MaxControls /\ made' = made + 1
    /\ Moves(m, "start", "test") /\ ctrl' = [ctrl EXCEPT ![m] = made + 1]
    /\ UNCHANGED <<contextVars, connectionVars, cancel, conn, makingVars>>

\* The emulator does not start, or a stop is noticed: the WebUI ignores that.
StartFails(m) ==
    /\ pc[m] = "start" /\ Raise(m)

\* A test clicks on a thread of its own.
BeginTest(m) ==
    /\ tests < Tests /\ tests' = tests + 1
    /\ \E u \in Testers : pc[u] = "rest"
    /\ LET t == CHOOSE u \in Testers : pc[u] = "rest" IN
        /\ pc[m] = "test" /\ pc' = [pc EXCEPT ![m] = "join", ![t] = "fetch"]
        /\ ctrl' = [ctrl EXCEPT ![t] = ctrl[m]] /\ tester' = t
    /\ UNCHANGED <<contextVars, connectionVars, made, cancel, conn, own, dropping>>

\* The thread has come back within three seconds, without an error.
Passed(m) ==
    /\ pc[m] = "join" /\ pc[tester] = "passed"
    /\ pc' = [pc EXCEPT ![tester] = "rest", ![m] = "publish"]
    /\ ctrl' = [ctrl EXCEPT ![tester] = None]
    /\ tests' = 0 /\ tester' = Nobody
    /\ cancel' = IF m = "task" THEN FALSE ELSE cancel
    /\ UNCHANGED <<contextVars, connectionVars, made, conn, own, dropping>>

\* It has not, or with one: another test, which may overlap with this one's.
NotPassed(m) ==
    /\ Moves(m, "join", "test") /\ tests < Tests
    /\ UNCHANGED <<contextVars, connectionVars, made, cancel, ctrl, conn, makingVars>>

NonePassed(m) ==
    /\ pc[m] = "join" /\ tests = Tests /\ Raise(m)

\* The click, under _ipc_lock, may take its time, and opens the control's connection if
\* there is none; if that fails it goes to ADB, which may do it or not.
Click(t) ==
    /\ pc[t] = "fetch" /\ ~ \E m \in Makers : Closing(m, ctrl[t])
    /\ \/ /\ impl[ctrl[t]] # None /\ open' = open \cup {impl[ctrl[t]]}
          /\ UNCHANGED <<impl, opened>>
       \/ /\ impl[ctrl[t]] = None /\ opened < MaxConnections
          /\ opened' = opened + 1 /\ open' = open \cup {opened + 1}
          /\ impl' = [impl EXCEPT ![ctrl[t]] = opened + 1]
       \/ UNCHANGED connectionVars
    /\ Goto(t, "passed")
    /\ UNCHANGED <<contextVars, made, cancel, ctrl, conn, makingVars>>

ClickFails(t) ==
    /\ Moves(t, "fetch", "rest") /\ ctrl' = [ctrl EXCEPT ![t] = None]
    /\ UNCHANGED <<contextVars, connectionVars, made, cancel, conn, makingVars>>

\* A test that is over, and for which nobody waits any more.
Forgotten(t) ==
    /\ pc[t] = "passed"
    /\ t # tester \/ \A m \in Makers : pc[m] # "join"
    /\ Goto(t, "rest") /\ ctrl' = [ctrl EXCEPT ![t] = None]
    /\ UNCHANGED <<contextVars, connectionVars, made, cancel, conn, makingVars>>

\* cancel_check, in every wait of a refresh but the one for the lock.
Cancelled ==
    /\ cancel /\ pc["task"] \in {"start", "test", "join"}
    /\ Raise("task")

-----------------------------------------------------------------------------
(* The fields and the globals                                                  *)

\* _refresh_device_session_locked sets mixctrl, then mumu.
Publish(m) ==
    /\ Moves(m, "publish", "complete") /\ mixctrl' = ctrl[m]
    /\ UNCHANGED <<mumu, core, lock, connectionVars, made, cancel, ctrl, conn, makingVars>>

Complete(m) ==
    /\ Moves(m, "complete", "sync") /\ mumu' = TRUE
    /\ UNCHANGED <<mixctrl, core, lock, connectionVars, made, cancel, ctrl, conn, makingVars>>

\* shutdown and release_session set them to None, without the lock.
Clear(m) ==
    /\ Moves(m, "clear", "cleared") /\ mixctrl' = None
    /\ UNCHANGED <<mumu, core, lock, connectionVars, made, cancel, ctrl, conn, makingVars>>

Cleared(m) ==
    /\ Moves(m, "cleared", "sync") /\ mumu' = FALSE
    /\ UNCHANGED <<mixctrl, core, lock, connectionVars, made, cancel, ctrl, conn, makingVars>>

\* _sync_globals reads the field and sets the global.
Sync(m) ==
    /\ Moves(m, "sync", "synced") /\ ctrl' = [ctrl EXCEPT ![m] = mixctrl]
    /\ UNCHANGED <<contextVars, connectionVars, made, cancel, conn, makingVars>>

Synced(m) ==
    /\ pc[m] = "synced" /\ core' = ctrl[m]
    /\ Goto(m, IF dropping[m] THEN "rest" ELSE IF m = "task" THEN "run" ELSE "got")
    /\ Unlock(m)
    /\ own' = IF m = "task" /\ ~dropping[m] THEN ctrl[m] ELSE own
    /\ dropping' = [dropping EXCEPT ![m] = FALSE]
    /\ ctrl' = [ctrl EXCEPT ![m] = None]
    /\ UNCHANGED <<mixctrl, mumu, connectionVars, made, cancel, conn, tests, tester>>

-----------------------------------------------------------------------------
(* The task runs                                                               *)

\* What it does with the device is like what the monitor does.  It ends, and the session
\* stays; or it closes the emulator, with its session.
TaskEnds ==
    /\ Moves("task", "run", "rest") /\ own' = None
    /\ UNCHANGED <<contextVars, connectionVars, made, cancel, ctrl, conn, tests, tester, dropping>>

TaskDrops ==
    /\ Moves("task", "run", "drop") /\ own' = None
    /\ dropping' = [dropping EXCEPT !["task"] = TRUE]
    /\ UNCHANGED <<contextVars, connectionVars, made, cancel, ctrl, conn, tests, tester>>

-----------------------------------------------------------------------------
(* Uses                                                                        *)

\* The editor has what ensure_device_session returned, the fields as they are now.
WebGot ==
    /\ Moves("web", "got", IF mixctrl = None THEN "rest" ELSE "fetch")
    /\ ctrl' = [ctrl EXCEPT !["web"] = mixctrl]
    /\ UNCHANGED <<contextVars, connectionVars, made, cancel, conn, makingVars>>

MonitorLooks ==
    /\ core # None /\ Moves("monitor", "rest", "fetch")
    /\ ctrl' = [ctrl EXCEPT !["monitor"] = core]
    /\ UNCHANGED <<contextVars, connectionVars, made, cancel, conn, makingVars>>

\* cached_property has no lock: whoever finds the cache empty opens a connection ...
Fetch(t) ==
    /\ Moves(t, "fetch", IF impl[ctrl[t]] = None THEN "open" ELSE "call")
    /\ conn' = [conn EXCEPT ![t] = impl[ctrl[t]]]
    /\ UNCHANGED <<contextVars, connectionVars, made, cancel, ctrl, makingVars>>

Open(t) ==
    /\ Moves(t, "open", "store") /\ opened < MaxConnections
    /\ opened' = opened + 1 /\ open' = open \cup {opened + 1}
    /\ conn' = [conn EXCEPT ![t] = opened + 1]
    /\ UNCHANGED <<contextVars, impl, made, cancel, ctrl, makingVars>>

\* ... and then puts it there.
Store(t) ==
    /\ Moves(t, "store", "call") /\ impl' = [impl EXCEPT ![ctrl[t]] = conn[t]]
    /\ UNCHANGED <<contextVars, open, opened, made, cancel, ctrl, conn, makingVars>>

Leaves(t) ==
    /\ Goto(t, "rest")
    /\ ctrl' = [ctrl EXCEPT ![t] = None] /\ conn' = [conn EXCEPT ![t] = None]

\* A connection that has been closed is opened again: its connect_id is 0.
Call(t) ==
    /\ pc[t] = "call" /\ open' = open \cup {conn[t]} /\ Leaves(t)
    /\ UNCHANGED <<contextVars, impl, opened, made, cancel, makingVars>>

CallFails(t) ==
    /\ pc[t] \in {"open", "call"} /\ Leaves(t)
    /\ UNCHANGED <<contextVars, connectionVars, made, cancel, makingVars>>

\* The stop is handled in the event loop too.  One that comes when the device is ready ends
\* the task by other checks.
Stop ==
    /\ pc["web"] = "rest" /\ pc["task"] \in {"wait", "drop", "forget", "start", "test", "join"}
    /\ ~dropping["task"] /\ ~cancel /\ cancel' = TRUE
    /\ UNCHANGED <<contextVars, connectionVars, made, pc, ctrl, conn, makingVars>>

-----------------------------------------------------------------------------
Make(m) ==
    \/ TakeLock(m) \/ Drop(m) \/ Forget(m) \/ Start(m) \/ StartFails(m) \/ BeginTest(m)
    \/ Passed(m) \/ NotPassed(m) \/ NonePassed(m) \/ Publish(m) \/ Complete(m)
    \/ Clear(m) \/ Cleared(m) \/ Sync(m) \/ Synced(m)

Use(t) == Fetch(t) \/ Open(t) \/ Store(t) \/ Call(t) \/ CallFails(t)

Next ==
    \/ TaskBegins \/ WebBegins \/ TaskEnds \/ TaskDrops \/ Cancelled \/ Stop
    \/ WebGot \/ MonitorLooks
    \/ \E m \in Makers : Make(m)
    \/ \E t \in Users : Use(t)
    \/ \E t \in Testers : Click(t) \/ ClickFails(t) \/ Forgotten(t)

Spec == Init /\ [][Next]_vars

-----------------------------------------------------------------------------
Running == own # None

\* A task runs with the session that its own refresh has made, in the fields and in the
\* globals alike, whatever the pages have asked for and however earlier sessions went.
TaskHasItsSession == Running => mixctrl = own /\ mumu /\ core = own

\* However a refresh is left, it leaves the lock; and whoever makes or publishes a session
\* has it.  A session is dropped without it, by the task alone.
LockKept ==
    \A m \in Makers :
        /\ pc[m] \in {"rest", "wait", "run"} => lock # m
        /\ pc[m] \in {"start", "test", "join", "publish", "complete"} => lock = m
        /\ dropping[m] => m = "task" /\ lock # m

SessionIsSound == TaskHasItsSession /\ LockKept

\* runtime_context.py:108 and scheduler.py:1081: old connections are released.  While a
\* task runs, what is open is its session's, or in use.
ConnectionsReleased ==
    Running => open \subseteq {impl[own]} \cup {conn[t] : t \in Threads}

\* api.py:82: the stop button interrupts the start of the device; so the page that takes
\* it does not wait for that same start.
StopCanInterrupt ==
    pc["task"] \in {"start", "test", "join"} => pc["web"] # "wait"
=============================================================================
