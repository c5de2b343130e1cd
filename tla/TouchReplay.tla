----------------------------- MODULE TouchReplay -----------------------------
(* replay() of AutoScriptor/core/api.py: a recording of several fingers is   *)
(* played back, each event at its time after the first, a stop heard before  *)
(* every event and in the waits between them.  Whatever ends it, its fingers *)
(* come up.  The task may hold other fingers, and a call to the device may   *)
(* fail, or fail to answer when it has done its work.                        *)
EXTENDS Integers, Sequences, FiniteSets

CONSTANTS
    Fingers,        \* the fingers of the device
    Recordings,     \* sequences of [at: a time, op, finger], in order of their times
    Holdings,       \* what the task may hold down already: sets of fingers
    Lag,            \* ticks behind its time at which the replay takes a new anchor
    Slow,           \* the longest a step may be held up, in ticks
    Faults,         \* bound: calls to the device that fail
    Horizon         \* bound: ticks

VARIABLES
    events, from,   \* the recording, and the time in it at which the replay is to start
    held,           \* the fingers the task held before
    i,              \* the next event
    pc,             \* "check", "wait", "send", "clean", "over"
    anchor,         \* when, by the clock, the time `from` of the recording was
    pressed,        \* the fingers this replay has to bring up
    now, cancel,
    down,           \* the fingers that are down, for the device
    faults,
    lost,           \* fingers not known to be down when a call on them failed
    begun,          \* when the first touch was due, NotYet before
    stuck,          \* fingers that would not come up
    sent,           \* the events that were sent: [event, time]
    late            \* events sent since the stop was asked for

vars == <<events, from, held, i, pc, anchor, pressed, now, cancel, down, faults, lost, stuck,
          begun, sent, late>>

NotYet == -1
Event == events[i]

\* The time of an event: without rounding, and at the recording's own speed.
Due == anchor + (Event.at - from)

Init ==
    /\ events \in Recordings /\ from \in {0, 1} /\ held \in Holdings
    /\ i = 1 /\ pc = "check" /\ anchor = 0 /\ pressed = {} /\ now = 0 /\ cancel = FALSE
    /\ down = held /\ faults = 0 /\ lost = {} /\ stuck = {} /\ begun = NotYet
    /\ sent = <<>> /\ late = 0

-----------------------------------------------------------------------------
\* The head of the loop: events before the start are passed over, a command embedded in the
\* recording is skipped, and a finger the device has not is an error; before the first touch
\* the anchor is set, and one that lags far behind is set anew.
Skip ==
    /\ pc = "check" /\ i <= Len(events)
    /\ Event.at < from \/ (~cancel /\ Event.op = "command")
    /\ i' = i + 1
    /\ UNCHANGED <<events, from, held, pc, anchor, pressed, now, cancel, down, faults, lost, stuck,
                   begun, sent, late>>
Check ==
    /\ pc = "check" /\ i <= Len(events) /\ ~cancel
    /\ Event.at >= from /\ Event.op \in {"down", "move", "up"} /\ Event.finger \in Fingers
    /\ pc' = "wait"
    /\ anchor' = IF begun = NotYet \/ now - Due > Lag THEN now - (Event.at - from) ELSE anchor
    /\ begun' = IF begun = NotYet THEN now ELSE begun
    /\ UNCHANGED <<events, from, held, i, pressed, now, cancel, down, faults, lost, stuck, sent,
                   late>>
Reject ==
    /\ pc = "check" /\ i <= Len(events) /\ ~cancel
    /\ Event.at >= from /\ Event.op # "command" /\ Event.finger \notin Fingers
    /\ pc' = "clean"
    /\ UNCHANGED <<events, from, held, i, anchor, pressed, now, cancel, down, faults, lost, stuck,
                   begun, sent, late>>

\* Mutant: a stop ends it at once.
LeaveAtOnce ==
    /\ \/ pc = "check" /\ i <= Len(events) /\ cancel /\ Event.at >= from
       \/ pc = "wait" /\ cancel /\ now < Due
       \/ pc = "check" /\ i > Len(events)
    /\ pc' = IF cancel THEN "over" ELSE "clean"
    /\ UNCHANGED <<events, from, held, i, anchor, pressed, now, cancel, down, faults, lost, stuck,
                   begun, sent, late>>

\* A stop that is heard before an event or in a wait, and the end of the recording.
Leave ==
    /\ \/ pc = "check" /\ i <= Len(events) /\ cancel /\ Event.at >= from
       \/ pc = "wait" /\ cancel /\ now < Due
       \/ pc = "check" /\ i > Len(events)
    /\ pc' = "clean"
    /\ UNCHANGED <<events, from, held, i, anchor, pressed, now, cancel, down, faults, lost, stuck,
                   begun, sent, late>>

Waited ==
    /\ pc = "wait" /\ now >= Due
    /\ pc' = "send"
    /\ UNCHANGED <<events, from, held, i, anchor, pressed, now, cancel, down, faults, lost, stuck,
                   begun, sent, late>>

After(op, finger) == IF op = "up" THEN down \ {finger} ELSE down \cup {finger}

\* The device does what it is told, or does not; a failure is the end of the replay.  A finger is
\* written down as pressed only after the call has come back.
Send ==
    /\ pc = "send"
    /\ sent' = Append(sent, [event |-> Event, time |-> now])
    /\ late' = IF cancel THEN late + 1 ELSE late
    /\ \/ /\ down' = After(Event.op, Event.finger)
          /\ pressed' = IF Event.op = "up" THEN pressed \ {Event.finger} ELSE pressed \cup {Event.finger}
          /\ i' = i + 1 /\ pc' = "check"
          /\ UNCHANGED <<faults, lost>>
       \/ /\ faults < Faults /\ faults' = faults + 1 /\ pc' = "clean"
          /\ down' \in {down, After(Event.op, Event.finger)}
          /\ lost' = lost \cup ({Event.finger} \ pressed)
          /\ UNCHANGED <<pressed, i>>
    /\ UNCHANGED <<events, from, held, anchor, now, cancel, stuck, begun>>

\* The `finally`: its own fingers come up one by one, and one that will not does not keep the
\* others down.
Release(finger) ==
    /\ pc = "clean" /\ finger \in pressed
    /\ \A f \in pressed : finger <= f
    /\ pressed' = pressed \ {finger}
    /\ \/ down' = down \ {finger} /\ UNCHANGED <<faults, stuck>>
       \/ /\ faults < Faults /\ faults' = faults + 1
          /\ stuck' = stuck \cup {finger} /\ UNCHANGED down
    /\ UNCHANGED <<events, from, held, i, pc, anchor, now, cancel, lost, begun, sent, late>>
Clean ==
    /\ pc = "clean" /\ pressed = {} /\ pc' = "over"
    /\ UNCHANGED <<events, from, held, i, anchor, pressed, now, cancel, down, faults, lost, stuck,
                   begun, sent, late>>

-----------------------------------------------------------------------------
Pass(ticks) ==
    /\ pc \in {"check", "wait", "send"} /\ now + ticks <= Horizon
    /\ now' = now + ticks
    /\ UNCHANGED <<events, from, held, i, pc, anchor, pressed, cancel, down, faults, lost, stuck,
                   begun, sent, late>>
Stop ==
    /\ ~cancel /\ pc # "over" /\ cancel' = TRUE
    /\ UNCHANGED <<events, from, held, i, pc, anchor, pressed, now, down, faults, lost, stuck,
                   begun, sent, late>>

Next ==
    \/ Skip \/ Check \/ Reject \/ Leave \/ Waited \/ Send \/ Clean
    \/ \E finger \in Fingers : Release(finger)
    \/ \E ticks \in 1..Slow : Pass(ticks)
    \/ Stop

Spec == Init /\ [][Next]_vars

-----------------------------------------------------------------------------
\* The recording is followed event by event, and only the device's fingers are touched.
TypeOK ==
    /\ pc \in {"check", "wait", "send", "clean", "over"} /\ i \in 1..Len(events) + 1
    /\ pressed \subseteq Fingers /\ down \subseteq Fingers /\ now \in 0..Horizon

Played == {sent[k].event.finger : k \in DOMAIN sent}

\* When a replay is over, however it ended, no finger it put down is left down, unless the
\* device would not take it up, or failed when it was to go down; and a finger the task held,
\* which the recording does not touch, still is.
FingersComeUp ==
    pc = "over" => /\ down \cap Played \subseteq stuck \cup lost
                   /\ held \ Played \subseteq down

\* The events go out in their order, and however often the replay falls behind and takes a new
\* anchor, none goes out before its time.
TimesAreKept ==
    \A k \in DOMAIN sent :
        /\ sent[k].time - begun >= sent[k].event.at - sent[1].event.at
        /\ k > 1 => sent[k - 1].event.at <= sent[k].event.at /\ sent[k - 1].time <= sent[k].time

\* After a stop one more event goes out at most.
StopIsHeard == late <= 1

\* All of the above.
ReplayIsSound == TypeOK /\ FingersComeUp /\ TimesAreKept /\ StopIsHeard
=============================================================================
