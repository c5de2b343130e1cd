---------------------------- MODULE EditorSnippet ----------------------------
(* A snippet of code that the editor runs, of backend/webui/routes/editor.py: *)
(* on the device, or virtually, when its clicks and swipes are only collected *)
(* for the canvas.  A virtual run replaces the global that the primitives of  *)
(* core/api.py go through, or the methods of the control behind it, and puts  *)
(* them back.  It runs on a thread of its own; meanwhile the event loop goes  *)
(* on to serve the page: a fresh screenshot, an imported image, a click by    *)
(* remote control.  Tasks, snippets and remote clicks exclude one another by  *)
(* the gate (ExecutionControl); a session of the device is made as a whole    *)
(* (see DeviceSession for its steps).                                         *)
EXTENDS Naturals

CONSTANTS Sessions   \* bound on the sessions made

Controls == 1..Sessions
None == 0
Virtual == Sessions + 1   \* an _EditorVirtualMixControl

VARIABLES
    session,   \* runtime_ctx.mixctrl
    made,      \* sessions made so far
    core,      \* core_api.mixctrl
    patched,   \* controls whose methods are the virtual ones
    frame,     \* _last_screenshot: "none", "live" or "imported"
    gate,      \* who has the execution gate
    at,        \* where its holder is
    virtual,   \* the snippet is to be run virtually
    canvas,    \* it runs on the frame of the canvas
    original,  \* what it found in the global
    strayed,   \* the last click of a virtual run that reached the device: "no", "asked", "unasked"
    meddled    \* the page has asked for the device since the run began

deviceVars == <<session, made, core>>
runVars == <<gate, at, virtual, canvas, original, meddled>>
vars == <<deviceVars, patched, frame, runVars, strayed>>

Init ==
    /\ session = None /\ made = 0 /\ core = None /\ patched = {}
    /\ frame = "none"
    /\ gate = "free" /\ at = "out" /\ virtual = FALSE /\ canvas = FALSE /\ original = None
    /\ strayed = "no" /\ meddled = FALSE

\* A control made anew; the former connection is closed.
Make ==
    /\ made < Sessions
    /\ made' = made + 1 /\ session' = made + 1 /\ core' = made + 1

\* Mutant: a session that is there already is not published again.
EnsureOnly ==
    IF session # None THEN UNCHANGED deviceVars ELSE Make

\* ensure_device_session: what there is is published again, over whatever is there now.
Ensure ==
    IF session # None
    THEN core' = session /\ UNCHANGED <<session, made>>
    ELSE Make

-----------------------------------------------------------------------------
(* The page, in the event loop.                                             *)

\* GET /screenshot asks for no gate.  The method that a virtual run has put in the place
\* of a control's own answers with the last frame there is, and raises without one (it
\* passes itself to what is bound already).
Screenshot ==
    /\ Ensure
    /\ frame' = IF session \in patched THEN frame ELSE "live"
    /\ meddled' = (meddled \/ at = "running")
    /\ UNCHANGED <<patched, gate, at, virtual, canvas, original, strayed>>

\* POST /ingest-image.
Ingest ==
    /\ frame' = "imported"
    /\ UNCHANGED <<deviceVars, patched, runVars, strayed>>

\* POST /locate uses the last frame, and takes one only for want of it.
Locate == frame = "none" /\ Screenshot

-----------------------------------------------------------------------------
(* POST /execute-code.                                                      *)

Goto(label) == at' = label

\* The gate is asked for before the body of the request is awaited.
Begin ==
    /\ gate = "free"
    /\ gate' = "snippet" /\ Goto("asked")
    /\ virtual' \in BOOLEAN
    /\ canvas' = FALSE /\ meddled' = FALSE
    /\ UNCHANGED <<deviceVars, patched, frame, original, strayed>>

\* _execute_editor_code_sync: with a frame on the canvas a virtual run needs no device.
Prepare ==
    /\ gate = "snippet" /\ at = "asked"
    /\ Goto("prepared")
    /\ canvas' = (virtual /\ frame # "none")
    /\ IF canvas' THEN UNCHANGED deviceVars ELSE Ensure
    /\ UNCHANGED <<patched, frame, gate, virtual, original, strayed, meddled>>

\* Without the credentials, a device or valid code, nothing is replaced.
Refuse ==
    /\ gate = "snippet" /\ at \in {"asked", "prepared"}
    /\ gate' = "free" /\ Goto("out")
    /\ UNCHANGED <<deviceVars, patched, frame, virtual, canvas, original, strayed, meddled>>

\* _run_editor_snippet replaces the global, or the methods of what the global holds.
Replace ==
    /\ gate = "snippet" /\ at = "prepared"
    /\ canvas \/ ~virtual \/ core # None
    /\ Goto("running")
    /\ original' = core
    /\ core' = IF canvas THEN Virtual ELSE core
    /\ patched' = IF virtual /\ ~canvas THEN {core} ELSE {}
    /\ UNCHANGED <<session, made, frame, gate, virtual, canvas, strayed, meddled>>

OnDevice(c) == c \in Controls /\ c \notin patched

\* A click of the snippet goes to what the global holds at that moment.
Click ==
    /\ gate = "snippet" /\ at = "running" /\ core # None
    /\ strayed' = IF virtual /\ OnDevice(core)
                  THEN IF meddled THEN "asked" ELSE "unasked"
                  ELSE strayed
    /\ UNCHANGED <<deviceVars, patched, frame, runVars>>

\* However the snippet ends, its finally puts back what it has replaced: the methods of
\* the same control, the global as it was at the start.
End ==
    /\ gate = "snippet" /\ at = "running"
    /\ patched' = {}
    /\ core' = IF canvas THEN original ELSE core
    /\ gate' = "free" /\ Goto("out")
    /\ UNCHANGED <<session, made, frame, virtual, canvas, original, strayed, meddled>>

-----------------------------------------------------------------------------
(* Who else has the gate.                                                   *)

\* A task makes a session at its start, and may drop it at its end.
TaskBegins ==
    /\ gate = "free"
    /\ gate' = "task" /\ Goto("running")
    /\ Make
    /\ UNCHANGED <<patched, frame, virtual, canvas, original, strayed, meddled>>

TaskEnds ==
    /\ gate = "task"
    /\ gate' = "free" /\ Goto("out")
    /\ \/ UNCHANGED deviceVars
       \/ session' = None /\ core' = None /\ UNCHANGED made
    /\ UNCHANGED <<patched, frame, virtual, canvas, original, strayed, meddled>>

\* POST /remote/click and /remote/swipe: the gate, the body, the device.
RemoteBegins ==
    /\ gate = "free"
    /\ gate' = "remote" /\ Goto("asked")
    /\ UNCHANGED <<deviceVars, patched, frame, virtual, canvas, original, strayed, meddled>>

RemoteClicks ==
    /\ gate = "remote" /\ at = "asked"
    /\ Ensure
    /\ Goto("running")
    /\ UNCHANGED <<patched, frame, gate, virtual, canvas, original, strayed, meddled>>

RemoteEnds ==
    /\ gate = "remote"
    /\ gate' = "free" /\ Goto("out")
    /\ UNCHANGED <<deviceVars, patched, frame, virtual, canvas, original, strayed, meddled>>

Next ==
    \/ Screenshot \/ Ingest \/ Locate
    \/ Begin \/ Prepare \/ Refuse \/ Replace \/ Click \/ End
    \/ TaskBegins \/ TaskEnds \/ RemoteBegins \/ RemoteClicks \/ RemoteEnds

Spec == Init /\ [][Next]_vars

-----------------------------------------------------------------------------
\* Whatever snippets have replaced and put back before, and whatever the page asks for
\* meanwhile, a task, a remote click or a snippet that is meant for the device has it:
\* the global holds the session's control, with methods of its own.
DeviceIsReached ==
    at = "running" /\ (gate = "snippet" => ~virtual) =>
        OnDevice(session) /\ core = session

\* Nothing virtual outlives its run.
NothingLeftVirtual == gate # "snippet" => patched = {} /\ core # Virtual

\* A click of a virtual run reaches the device only if the page has asked for the device
\* since the global was replaced, which publishes the real control over it.
StraysOnlyIfAsked == strayed # "unasked"

\* The three as one statement.
EditorIsSound == DeviceIsReached /\ NothingLeftVirtual /\ StraysOnlyIfAsked

\* editor.py:1300: a virtual run sends nothing to the emulator.
VirtualStaysVirtual == strayed = "no"
=============================================================================
