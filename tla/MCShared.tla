------------------------------ MODULE MCShared ------------------------------
(* What several threads share, in one run of TLC: the callbacks of a round *)
(* of 昆仑山 (BattleWatch), cut down to the hall's, which registers the sign *)
(* of its end, and the battle's own for bursts; and, on variables of their *)
(* own, the connection to the emulator that a task and the monitor share   *)
(* (NemuChannel), the session that holds the connections (DeviceSession),  *)
(* the global that a virtual run of the editor replaces (EditorSnippet);   *)
(* and what the processes around them share: the checkout and the restart  *)
(* of its update (SourceUpdate), and the backend of the desktop shell      *)
(* (ElectronShell).  And what a task does with the screen they share: the  *)
(* calls that look at it and press (Screen), the boxes such a look comes   *)
(* to (Matches), and a recording that is played back (TouchReplay); and    *)
(* the directory of the pictures, with what is kept of a failure           *)
(* (ErrorArchives).  One of them, chosen at the start, moves; the others   *)
(* stay where they begin.                                                  *)
EXTENDS BattleWatch

Round == {"hall", "end", "burst"}
RoundOrder == <<"hall", "end", "burst">>
RoundScript == <<"hall">>
EndOnly == {"end"}
BurstOnly == {"burst"}
OfBattle == <<"burst">>

\* What a scope or a thread may still hold while the name is registered again.
RoundGens == [hall |-> 2, end |-> 2, burst |-> 1]

\* kls_yxd_callback registers the hall's own end, or fails and asks for the exit, or
\* is cancelled; the end asks for the exit, a burst is clicked.
RoundBodies == [hall |-> {<<"end">>, <<"exit">>, <<>>}, end |-> {<<"exit">>}, burst |-> {<<>>}]

\* A text, an image, either and both; a frame may show a target twice.
Looked == {[of |-> <<"text">>, all |-> FALSE], [of |-> <<"text", "image">>, all |-> FALSE],
           [of |-> <<"text", "image">>, all |-> TRUE]}
Shots == {[text |-> t, image |-> i] : t \in {{}, {1}, {1, 2}}, i \in {{}, {2}}}

\* Two fingers down at once and up again; a recording that touches a finger the task holds, and
\* then one the device has not.
Gesture(t, o, f) == [at |-> t, op |-> o, finger |-> f]
Gestures == {<<Gesture(0, "down", 1), Gesture(0, "down", 2), Gesture(3, "up", 2), Gesture(3, "up", 1)>>,
             <<Gesture(0, "command", 0), Gesture(1, "up", 2), Gesture(2, "move", 1),
               Gesture(2, "down", 9)>>}
Holds == {{}, {2, 3}}

\* What bounds and what takes part in the other specifications, see there.
CONSTANTS
    ChannelUsers, Typists, Attempts, MaxFaults,   \* NemuChannel
    Testers, Tests, MaxControls, MaxConnections,  \* DeviceSession
    Sessions,                                     \* EditorSnippet
    Pushes, Timers,                               \* SourceUpdate
    Repeats, Chains,                              \* ElectronShell
    Targets, Spots, Images, Wishes, Frames, Timeouts, Default, Short, Grace, Retries, \* Screen
    Fingers, Recordings, Holdings, Lag, Slow, Faults, Horizon   \* TouchReplay

ASSUME SharedAssumption ==
    /\ "nobody" \notin ChannelUsers
    /\ {"task", "web", "monitor", "nobody"} \cap Testers = {}
    /\ {Tests, MaxControls, MaxConnections, Sessions, Pushes, Timers, Repeats, Chains} \subseteq Nat

\* A frame shows a target at a few spots; extract_info reads once at least.
ASSUME ScreenAssumption ==
    /\ Wishes \subseteq [of : Seq(Targets), all : BOOLEAN]
    /\ Frames \subseteq [Targets -> SUBSET Spots]
    /\ \A frame \in Frames : \A t \in Targets : IsFiniteSet(frame[t])
    /\ Spots \subseteq Nat /\ Timeouts \subseteq Nat
    /\ {Default, Short, Grace} \subseteq Nat /\ Retries \in Nat \ {0}

\* A recording has its events in the order of their times; a task holds fingers of the device.
ASSUME ReplayAssumption ==
    /\ Recordings \subseteq Seq([at : Nat, op : {"command", "down", "move", "up"}, finger : Nat])
    /\ \A e \in Recordings : \A j, k \in DOMAIN e : j < k => e[j].at <= e[k].at
    /\ Holdings \subseteq SUBSET Fingers
    /\ {Lag, Slow, Faults, Horizon} \subseteq Nat

VARIABLES
    moves,      \* the specification that takes the steps
    \* NemuChannel
    display, session, contact, faults, delayed, connected, size, torn, ioLock, gestureLock, adbOnly,
    does, op, touched, tries, renew, seen, typed, remeasured, strayed,
    \* DeviceSession
    mixctrl, mumu, core, lock, impl, open, made, opened, cancel, goes, ctrl, conn, own, tests,
    tester, dropping,
    \* EditorSnippet
    shown, controls, global, patched, frame, gate, stage, virtual, canvas, original, leaked, meddled,
    \* SourceUpdate
    remote, tracking, head, mine, dirty, code, alive, closing, supported, state, request, timers,
    event, sup, should_exit, handler, half, asked,
    \* ElectronShell
    timer, backend, told, pyPid, serverReady, later, polls, gaveUp, window, isQuitting, quit, early,
    \* Screen
    call, looks, again, since0, limit, since, first, retry, presses, ticks, stop, boxesSeen, unsure,
    pressed, after, overdue, answer,
    \* Matches
    raw, boxes,
    \* TouchReplay
    events, from, held, next, plays, anchor, mineDown, clock, halt, down, failed, lost, begun, stuck,
    sent, tooLate,
    \* ErrorArchives
    dir, on, due, writer, fails, toMove, archive, run, shots, begins, cut, disturbed, missed, deleted

channelVars == <<display, session, contact, faults, delayed, connected, size, torn, ioLock,
                 gestureLock, adbOnly, does, op, touched, tries, renew, seen, typed, remeasured,
                 strayed>>
sessionVars == <<mixctrl, mumu, core, lock, impl, open, made, opened, cancel, goes, ctrl, conn,
                 own, tests, tester, dropping>>
editorVars == <<shown, controls, global, patched, frame, gate, stage, virtual, canvas, original,
                leaked, meddled>>
updateVars == <<remote, tracking, head, mine, dirty, code, alive, closing, supported, state,
                request, timers, event, sup, should_exit, handler, half, asked>>
shellVars == <<timer, backend, told, pyPid, serverReady, later, polls, gaveUp, window, isQuitting,
               quit, early>>
screenVars == <<call, looks, again, since0, limit, since, first, retry, presses, ticks, stop,
                boxesSeen, unsure, pressed, after, overdue, answer>>
matchVars == <<raw, boxes>>
replayVars == <<events, from, held, next, plays, anchor, mineDown, clock, halt, down, failed, lost,
                begun, stuck, sent, tooLate>>
errorVars == <<dir, on, due, writer, fails, toMove, archive, run, shots, begins, cut, disturbed,
               missed, deleted>>

Channel == INSTANCE NemuChannel WITH
    pc <- does, late <- delayed,
    Threads <- ChannelUsers, Tries <- Attempts
Session == INSTANCE DeviceSession WITH pc <- goes
Editor == INSTANCE EditorSnippet WITH
    session <- shown, made <- controls, core <- global, at <- stage, strayed <- leaked
Updater == INSTANCE SourceUpdate WITH
    at <- request
Shell == INSTANCE ElectronShell WITH
    Tries <- Repeats

Screens == INSTANCE Screen WITH
    pc <- looks, asked <- since0, todo <- presses, now <- ticks, cancel <- stop,
    seen <- boxesSeen, late <- after

\* Boxes that overlap, touch, lie within each other, stick out of the region or are one pixel.
Boxes == INSTANCE Matches WITH
    Raw <- {<<0, 0, 4, 4>>, <<1, 0, 4, 4>>, <<3, 0, 4, 4>>, <<6, 1, 4, 4>>, <<6, 6, 4, 4>>, <<1, 2, 4, 4>>,
            <<0, 5, 2, 3>>, <<8, 8, 1, 1>>, <<2, 2, 6, 6>>, <<0, 0, 13, 1>>},
    Region <- <<2, 2, 12, 12>>, Frame <- <<16, 16>>,
    Deltas <- {[offset |-> <<x, 0>>, resize |-> <<w, -1>>] : x \in {-3, 3}, w \in {-1, 0, 1, 3, 8}},
    Painted <- {<<x, y, w, h>> : x \in 0..12, y \in 0..12, w \in {2, 4, 6, 13}, h \in {1, 3, 4, 6}},
    MaxMatches <- 3

Replay == INSTANCE TouchReplay WITH
    i <- next, pc <- plays, pressed <- mineDown, now <- clock, cancel <- halt, faults <- failed,
    late <- tooLate

\* Logs of up to three lines, with times that may go back; pictures with and without a time.
Errors == INSTANCE ErrorArchives WITH
    at <- fails, todo <- toMove, written <- shots, since <- begins,
    Keep <- [c |-> 1, r |-> 2], Logs <- UNION {[1..n -> 0..3] : n \in 0..3},
    Images <- SUBSET {[name |-> 1, at |-> 2], [name |-> 2, at |-> 0], [name |-> 3, at |-> 1],
                      [name |-> 4, at |-> 2]},
    MaxFrames <- 3, MaxRuns <- 2

MCInit ==
    /\ Init /\ Channel!Init /\ Session!Init /\ Editor!Init /\ Shell!Init
    /\ Screens!Init /\ Boxes!Init /\ Errors!Init
    /\ moves \in {"round", "channel", "session", "editor", "update", "shell", "screen", "matches",
                  "replay", "errors"}
    /\ Updater!Init /\ (moves # "update" => supported)
    /\ Replay!Init
    /\ moves # "replay" => Len(events) = 4 /\ from = 0 /\ held = {} /\ events[1].op = "down"

MCSpec ==
    /\ MCInit
    /\ [][ /\ moves' = moves
           /\ \/ moves = "round" /\ Next
              \/ moves # "round" /\ UNCHANGED vars
           /\ \/ moves = "channel" /\ Channel!Next
              \/ moves # "channel" /\ UNCHANGED channelVars
           /\ \/ moves = "session" /\ Session!Next
              \/ moves # "session" /\ UNCHANGED sessionVars
           /\ \/ moves = "editor" /\ Editor!Next
              \/ moves # "editor" /\ UNCHANGED editorVars
           /\ \/ moves = "update" /\ Updater!Next
              \/ moves # "update" /\ UNCHANGED updateVars
           /\ \/ moves = "shell" /\ Shell!Next
              \/ moves # "shell" /\ UNCHANGED shellVars
           /\ \/ moves = "screen" /\ Screens!Next
              \/ moves # "screen" /\ UNCHANGED screenVars
           /\ \/ moves = "matches" /\ Boxes!Next
              \/ moves # "matches" /\ UNCHANGED matchVars
           /\ \/ moves = "replay" /\ Replay!Next
              \/ moves # "replay" /\ UNCHANGED replayVars
           /\ \/ moves = "errors" /\ Errors!Next
              \/ moves # "errors" /\ UNCHANGED errorVars
         ]_<<vars, moves, channelVars, sessionVars, editorVars, updateVars, shellVars, screenVars,
             matchVars, replayVars, errorVars>>

\* A callback that is to run once does, and only its owner takes a callback away.
OnceIsHonoured == OnlyOwnersRemove /\ OnceFiresOnce

\* A specification that does not move stays in its initial state, so each is looked at where it
\* moves.  See ChannelIsSound of NemuChannel.
ChannelIsSound == moves = "channel" => Channel!ChannelIsSound

\* See SessionIsSound of DeviceSession.
SessionIsSound == moves = "session" => Session!SessionIsSound

\* See EditorIsSound of EditorSnippet.
EditorIsSound == moves = "editor" => Editor!EditorIsSound

\* See UpdateIsSound of SourceUpdate.
UpdateIsSound == moves = "update" => Updater!UpdateIsSound

\* See ShellIsSound of ElectronShell.
ShellIsSound == moves = "shell" => Shell!ShellIsSound

\* A task sees what is on the screen and touches what it saw, a stop is heard, and the pictures of
\* a failure are kept: see ScreenIsSound of Screen, MatchesAreSound of Matches, ReplayIsSound of
\* TouchReplay and ArchivesAreSound of ErrorArchives.
TouchIsSound ==
    /\ moves = "screen" => Screens!ScreenIsSound
    /\ moves = "matches" => Boxes!MatchesAreSound
    /\ moves = "replay" => Replay!ReplayIsSound
    /\ moves = "errors" => Errors!ArchivesAreSound
=============================================================================
