---------------------------- MODULE NemuChannel ----------------------------
(* Captures and inputs through the emulator's renderer IPC: NemuIpcImpl and *)
(* NemuIpc of AutoScriptor/control/NemuIpc/device/method/nemu_ipc.py, with  *)
(* MixControl's way back to ADB (AutoScriptor/core/control.py).  A call     *)
(* into the library runs on a thread of the pool (WorkerPool); here it      *)
(* succeeds, fails, or takes too long, and then may take effect later.      *)
(* Several threads capture and touch at once: captures share one buffer     *)
(* under io_lock, gestures exclude each other by _ipc_lock.                 *)
EXTENDS Naturals

CONSTANTS
    Threads,    \* a task, the background monitor
    Typists,    \* those of them that type texts: tasks
    Tries,      \* RETRY_TRIES
    MaxFaults   \* bounds the failures, delays and changes of the display

Nobody == "nobody"
Sizes == {"landscape", "portrait"}

VARIABLES
    display,    \* the emulator's: the size of its screen
    session,    \* the emulator's: it knows the connection we have
    contact,    \* the emulator's: whose touch is down, or Nobody
    faults,     \* the number of faults so far
    late,       \* calls that were given up and may still take effect
    connected,  \* connect_id # 0
    size,       \* width and height, "none" when dropped
    torn,       \* the buffer was written after the capture whose frame it holds
    ioLock,     \* the holder of io_lock
    gestureLock,\* the holder of _ipc_lock
    adbOnly,    \* _nemu_input_failed
    pc,         \* of a thread: what it does next
    op,         \* of a thread: "capture", "tap", "text" or "none"
    touched,    \* of a thread: its press has succeeded, it is to release
    tries,      \* of a thread: the attempts begun by retry
    renew,      \* of a thread: the next attempt reconnects first
    seen,       \* of a thread: the size of the display that its last call saw
    typed,      \* of a thread: how often its text has been typed
    remeasured, \* history: a thread without io_lock has set the size
    strayed     \* history: a press or release has failed, was given up, or was not reached

emulatorVars == <<display, session, contact, faults, late>>
bufferVars == <<connected, size, torn, remeasured>>
lockVars == <<ioLock, gestureLock, adbOnly>>
threadVars == <<pc, op, touched, tries, renew, seen, typed>>
vars == <<emulatorVars, bufferVars, lockVars, threadVars, strayed>>

Init ==
    /\ display = "landscape" /\ session = FALSE /\ contact = Nobody
    /\ faults = 0 /\ late = {}
    /\ connected = FALSE /\ size = "none" /\ torn = FALSE /\ remeasured = FALSE
    /\ ioLock = Nobody /\ gestureLock = Nobody /\ adbOnly = FALSE
    /\ pc = [t \in Threads |-> "rest"] /\ op = [t \in Threads |-> "none"]
    /\ touched = [t \in Threads |-> FALSE] /\ tries = [t \in Threads |-> 0]
    /\ renew = [t \in Threads |-> FALSE] /\ seen = [t \in Threads |-> "none"]
    /\ typed = [t \in Threads |-> 0] /\ strayed = FALSE

Goto(t, label) == pc' = [pc EXCEPT ![t] = label]

\* The locals of a retry.
Locals(t, operation, label) ==
    /\ op' = [op EXCEPT ![t] = operation] /\ touched' = [touched EXCEPT ![t] = FALSE]
    /\ tries' = [tries EXCEPT ![t] = 0] /\ renew' = [renew EXCEPT ![t] = FALSE]
    /\ seen' = [seen EXCEPT ![t] = "none"]
    /\ Goto(t, label)

Begins(t, operation, label) == pc[t] = "rest" /\ Locals(t, operation, label) /\ UNCHANGED typed
Ends(t) == Locals(t, "none", "rest") /\ typed' = [typed EXCEPT ![t] = 0]

Capturing(t) == op[t] = "capture"

-----------------------------------------------------------------------------
(* How a call ends.  One to a session that is gone fails at once; any other    *)
(* may fail or be late at the cost of a fault.                                 *)

Succeeds == session /\ UNCHANGED <<session, faults, late>>

Fails ==
    /\ session => faults < MaxFaults
    /\ faults' = IF session THEN faults + 1 ELSE faults
    /\ UNCHANGED <<session, late>>

TakesTooLong(effect) ==
    /\ faults < MaxFaults /\ faults' = faults + 1
    /\ late' = late \cup {effect} /\ UNCHANGED session

\* A touch takes io_lock to connect only; a capture keeps it.
LeaveConnecting(t) == ioLock' = IF Capturing(t) THEN ioLock ELSE Nobody

\* NemuIpcError: retry reconnects before the next attempt; a text, which has no retry,
\* goes to ADB.
ErrorAnswered(t) ==
    /\ renew' = [renew EXCEPT ![t] = TRUE]
    /\ adbOnly' = (adbOnly \/ op[t] = "text")
    /\ Goto(t, IF op[t] = "text" THEN "adb" ELSE "try")

\* JobTimeout: retry goes on without reconnecting; out of a text it is raised.
GaveUp(t) ==
    /\ renew' = [renew EXCEPT ![t] = FALSE]
    /\ Goto(t, IF op[t] = "text" THEN "raised" ELSE "try")
    /\ UNCHANGED adbOnly

-----------------------------------------------------------------------------
(* retry, connect, disconnect, get_resolution                                  *)

BeginTry(t) ==
    /\ pc[t] = "try"
    /\ \/ /\ tries[t] < Tries
          /\ tries' = [tries EXCEPT ![t] = @ + 1]
          /\ Goto(t, IF renew[t] THEN "reconnect" ELSE "begin")
       \/ /\ tries[t] = Tries /\ UNCHANGED tries
          /\ Goto(t, "exhausted")
    /\ UNCHANGED <<emulatorVars, bufferVars, lockVars, op, touched, renew, seen, typed, strayed>>

\* An error of nemu_disconnect is looked into by a second call, whose message may be
\* raised; else the connection counts as closed.  One that is late may have closed it.
Disconnect(t) ==
    /\ pc[t] = "reconnect" /\ ioLock \in {t, Nobody}
    /\ \/ /\ connected' = FALSE /\ session' = FALSE
          /\ ioLock' = t /\ Goto(t, "connect")
          /\ UNCHANGED <<faults, renew, adbOnly>>
       \/ /\ connected /\ Fails /\ ErrorAnswered(t) /\ LeaveConnecting(t)
          /\ UNCHANGED connected
       \/ /\ connected /\ faults < MaxFaults /\ faults' = faults + 1
          /\ session' \in {session, FALSE}
          /\ GaveUp(t) /\ LeaveConnecting(t) /\ UNCHANGED connected
    /\ UNCHANGED <<display, contact, late, size, torn, remeasured, gestureLock, op, touched, tries,
                   seen, typed, strayed>>

Connect(t) ==
    /\ pc[t] = "connect" /\ ioLock \in {t, Nobody}
    /\ LeaveConnecting(t)
    /\ \/ /\ connected /\ Goto(t, "begin")
          /\ UNCHANGED <<connected, session, faults, renew, adbOnly>>
       \/ /\ ~connected /\ connected' = TRUE /\ session' = TRUE /\ Goto(t, "begin")
          /\ UNCHANGED <<faults, renew, adbOnly>>
       \/ /\ ~connected /\ faults < MaxFaults /\ faults' = faults + 1
          /\ ErrorAnswered(t) \/ GaveUp(t)
          /\ UNCHANGED <<connected, session>>
    /\ UNCHANGED <<display, contact, late, size, torn, remeasured, gestureLock, op, touched, tries,
                   seen, typed, strayed>>

\* What each method begins with: a connection, and for a capture or a press the size.
Begin(t) ==
    /\ pc[t] = "begin"
    /\ Goto(t, IF ~connected THEN "connect"
               ELSE IF op[t] = "text" THEN "type"
               ELSE IF touched[t] THEN "release"
               ELSE IF size = "none" THEN "measure"
               ELSE IF Capturing(t) THEN "shoot" ELSE "press")
    /\ UNCHANGED <<emulatorVars, bufferVars, lockVars, op, touched, tries, renew, seen, typed, strayed>>

\* get_resolution asks the emulator, and then sets width and height: a capture under
\* io_lock, a press without it.
Measure(t) ==
    /\ pc[t] = "measure"
    /\ \/ Succeeds /\ seen' = [seen EXCEPT ![t] = display] /\ Goto(t, "resize")
          /\ UNCHANGED <<renew, adbOnly>>
       \/ Fails /\ ErrorAnswered(t) /\ UNCHANGED seen
       \/ /\ faults < MaxFaults /\ faults' = faults + 1
          /\ GaveUp(t) /\ UNCHANGED <<session, late, seen>>
    /\ UNCHANGED <<display, contact, bufferVars, ioLock, gestureLock, op, touched, tries, typed, strayed>>

Resize(t) ==
    /\ pc[t] = "resize"
    /\ size' = seen[t]
    /\ remeasured' = (remeasured \/ ~Capturing(t))
    /\ Goto(t, IF Capturing(t) THEN "shoot" ELSE "press")
    /\ UNCHANGED <<emulatorVars, connected, torn, lockVars, op, touched, tries, renew, seen, typed, strayed>>

-----------------------------------------------------------------------------
(* screenshot_nemu_ipc, screenshot_region_nemu_ipc                             *)

StartCapture(t) ==
    /\ ioLock = Nobody /\ ioLock' = t /\ Begins(t, "capture", "try")
    /\ UNCHANGED <<emulatorVars, bufferVars, gestureLock, adbOnly, strayed>>

\* _drop_capture_buffer: a late capture writes to a buffer that nobody reads any more.
Dropped(calls) == {l \in calls : l[1] # "frame"}

\* _screenshot.  A frame of another size than expected is captured again, a failure drops
\* the buffer as well, and a late capture has the buffer to write to.
Shoot(t) ==
    /\ pc[t] = "shoot"
    /\ \/ /\ Succeeds /\ display = size
          /\ seen' = [seen EXCEPT ![t] = display] /\ torn' = FALSE
          /\ Goto(t, "copy") /\ UNCHANGED <<size, renew, adbOnly>>
       \/ /\ session /\ display # size
          /\ size' = "none" /\ late' = Dropped(late) /\ Goto(t, "try")
          /\ UNCHANGED <<session, faults, seen, torn, renew, adbOnly>>
       \/ /\ session => faults < MaxFaults
          /\ faults' = IF session THEN faults + 1 ELSE faults
          /\ size' = "none" /\ late' = Dropped(late) /\ ErrorAnswered(t)
          /\ UNCHANGED <<session, seen, torn>>
       \/ /\ TakesTooLong(<<"frame">>) /\ GaveUp(t)
          /\ UNCHANGED <<size, seen, torn>>
    /\ UNCHANGED <<display, contact, connected, remeasured, ioLock, gestureLock, op, touched, tries,
                   typed, strayed>>

\* The frame is taken from the buffer at the size that is set now, and io_lock released.
Copy(t) ==
    /\ pc[t] = "copy" /\ Ends(t) /\ ioLock' = Nobody
    /\ UNCHANGED <<emulatorVars, bufferVars, gestureLock, adbOnly, strayed>>

-----------------------------------------------------------------------------
(* MixControl.click and click_nemu_ipc, as swipe, with more presses            *)

StartTap(t) ==
    /\ Begins(t, "tap", IF adbOnly THEN "adb" ELSE "lock")
    /\ UNCHANGED <<emulatorVars, bufferVars, lockVars, strayed>>

LockGesture(t) ==
    /\ pc[t] = "lock" /\ gestureLock = Nobody /\ gestureLock' = t
    /\ Goto(t, "try")
    /\ UNCHANGED <<emulatorVars, bufferVars, ioLock, adbOnly, op, touched, tries, renew, seen, typed, strayed>>

\* One that fails is called a second time, for its message, and that may succeed.
Press(t) ==
    /\ pc[t] = "press"
    /\ \/ /\ Succeeds /\ contact' = t /\ touched' = [touched EXCEPT ![t] = TRUE]
          /\ tries' = [tries EXCEPT ![t] = 0] /\ renew' = [renew EXCEPT ![t] = FALSE]
          /\ Goto(t, "try") /\ UNCHANGED <<adbOnly, strayed>>
       \/ /\ Fails /\ ErrorAnswered(t) /\ strayed' = TRUE
          /\ contact' \in IF session THEN {contact, t} ELSE {contact}
          /\ UNCHANGED <<touched, tries>>
       \/ /\ TakesTooLong(<<"press", t>>) /\ GaveUp(t) /\ strayed' = TRUE
          /\ UNCHANGED <<contact, touched, tries>>
    /\ UNCHANGED <<display, bufferVars, ioLock, gestureLock, op, seen, typed>>

Release(t) ==
    /\ pc[t] = "release"
    /\ \/ /\ Succeeds /\ contact' = Nobody /\ gestureLock' = Nobody /\ Goto(t, "done")
          /\ UNCHANGED <<renew, adbOnly, strayed>>
       \/ /\ Fails /\ ErrorAnswered(t) /\ strayed' = TRUE
          /\ contact' \in IF session THEN {contact, Nobody} ELSE {contact}
          /\ UNCHANGED gestureLock
       \/ /\ TakesTooLong(<<"release">>) /\ GaveUp(t) /\ strayed' = TRUE
          /\ UNCHANGED <<contact, gestureLock>>
    /\ UNCHANGED <<display, bufferVars, ioLock, op, touched, tries, seen, typed>>

\* Mutant: a capture that raises keeps io_lock
ExhaustedInLock(t) ==
    /\ pc[t] = "exhausted"
    /\ Goto(t, IF Capturing(t) THEN "raised" ELSE "adb")
    /\ gestureLock' = IF Capturing(t) THEN gestureLock ELSE Nobody
    /\ strayed' = (strayed \/ touched[t])
    /\ adbOnly' = (adbOnly \/ ~Capturing(t))
    /\ UNCHANGED <<emulatorVars, bufferVars, ioLock, op, touched, tries, renew, seen, typed>>

\* RequestHumanTakeover: a capture raises it, a click goes to ADB.
Exhausted(t) ==
    /\ pc[t] = "exhausted"
    /\ Goto(t, IF Capturing(t) THEN "raised" ELSE "adb")
    /\ ioLock' = IF Capturing(t) THEN Nobody ELSE ioLock
    /\ gestureLock' = IF Capturing(t) THEN gestureLock ELSE Nobody
    /\ strayed' = (strayed \/ touched[t])
    /\ adbOnly' = (adbOnly \/ ~Capturing(t))
    /\ UNCHANGED <<emulatorVars, bufferVars, op, touched, tries, renew, seen, typed>>

\* MixControl.input_text and NemuIpcImpl.input_text
StartText(t) ==
    /\ t \in Typists /\ Begins(t, "text", IF adbOnly THEN "adb" ELSE "begin")
    /\ UNCHANGED <<emulatorVars, bufferVars, lockVars, strayed>>

Type(t) ==
    /\ pc[t] = "type"
    /\ \/ /\ Succeeds /\ typed' = [typed EXCEPT ![t] = @ + 1] /\ Goto(t, "done")
          /\ UNCHANGED <<renew, adbOnly>>
       \/ /\ Fails /\ ErrorAnswered(t)
          /\ \/ UNCHANGED typed
             \/ session /\ typed' = [typed EXCEPT ![t] = @ + 1]
       \/ TakesTooLong(<<"text", t>>) /\ GaveUp(t) /\ UNCHANGED typed
    /\ UNCHANGED <<display, contact, bufferVars, ioLock, gestureLock, op, touched, tries, seen, strayed>>

Adb(t) ==
    /\ pc[t] = "adb" /\ Goto(t, "done")
    /\ typed' = IF op[t] = "text" THEN [typed EXCEPT ![t] = @ + 1] ELSE typed
    /\ UNCHANGED <<emulatorVars, bufferVars, lockVars, op, touched, tries, renew, seen, strayed>>

\* The operation comes back to its caller, or raises.
Return(t) ==
    /\ pc[t] \in {"done", "raised"} /\ Ends(t)
    /\ UNCHANGED <<emulatorVars, bufferVars, lockVars, strayed>>

-----------------------------------------------------------------------------
(* From outside                                                                *)

\* switch_to_nemu
Rearm ==
    /\ adbOnly /\ adbOnly' = FALSE
    /\ UNCHANGED <<emulatorVars, bufferVars, ioLock, gestureLock, threadVars, strayed>>

\* A call that was given up takes effect, or never will.
Land(l) ==
    /\ late' = late \ {l}
    /\ torn' = (torn \/ l[1] = "frame")
    /\ contact' = CASE l[1] = "press" -> l[2] [] l[1] = "release" -> Nobody [] OTHER -> contact
    /\ typed' = IF l[1] = "text" /\ op[l[2]] = "text" THEN [typed EXCEPT ![l[2]] = @ + 1] ELSE typed
    /\ UNCHANGED <<display, session, faults, connected, size, remeasured, lockVars, pc, op, touched,
                   tries, renew, seen, strayed>>

Vanish(l) ==
    /\ late' = late \ {l}
    /\ UNCHANGED <<display, session, contact, faults, bufferVars, lockVars, threadVars, strayed>>

\* The emulator is restarted, or turns its display.
Disturb ==
    /\ faults < MaxFaults /\ faults' = faults + 1
    /\ \/ session /\ session' = FALSE /\ contact' = Nobody /\ UNCHANGED display
       \/ display' \in Sizes \ {display} /\ UNCHANGED <<session, contact>>
    /\ UNCHANGED <<late, bufferVars, lockVars, threadVars, strayed>>

-----------------------------------------------------------------------------
Start(t) == StartCapture(t) \/ StartTap(t) \/ StartText(t)

Operate(t) ==
    \/ BeginTry(t) \/ Disconnect(t) \/ Connect(t) \/ Begin(t) \/ Measure(t) \/ Resize(t)
    \/ Shoot(t) \/ Copy(t) \/ LockGesture(t) \/ Press(t) \/ Release(t) \/ Exhausted(t)
    \/ Type(t) \/ Adb(t) \/ Return(t)

Next ==
    \/ \E t \in Threads : Start(t) \/ Operate(t)
    \/ Rearm \/ Disturb
    \/ \E l \in late : Land(l) \/ Vanish(l)

Spec == Init /\ [][Next]_vars

-----------------------------------------------------------------------------
\* "Protects ... the reused capture buffer": a frame is copied as its capture wrote it, and
\* at the size at which it was captured.
FramesWhole == \A t \in Threads : pc[t] = "copy" => size = seen[t] /\ ~torn

\* What can spoil a frame is a late capture, or a press that sets the size without io_lock:
\* neither another capture, nor a reconnection, nor a turn of the display.
FramesSpoiledFromOutside ==
    \A t \in Threads : pc[t] = "copy" =>
        /\ size = seen[t] \/ remeasured
        /\ ioLock = t /\ connected

\* Between the press and the release of a gesture there is no other's, and afterwards
\* nothing is pressed, as long as no press or release goes wrong.
GesturesApart ==
    strayed \/ contact = Nobody \/ (gestureLock = contact /\ touched[contact])

\* However an operation is left, and whatever has failed in it, it leaves no lock behind,
\* and nobody waits for _ipc_lock with io_lock in hand, for whose holder waits for the other.
LocksReturned ==
    \A t \in Threads :
        /\ pc[t] \in {"rest", "adb"} => t \notin {ioLock, gestureLock}
        /\ pc[t] = "lock" => ioLock # t
        /\ gestureLock = t => op[t] = "tap"

\* Captures and gestures keep apart as far as their locks can keep them.
ChannelIsSound == FramesSpoiledFromOutside /\ GesturesApart /\ LocksReturned

\* nemu_ipc.py:605: a text is not typed twice.
TextOnce == \A t \in Threads : typed[t] <= 1
=============================================================================
