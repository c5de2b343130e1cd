---------------------------- MODULE TaskRecorder ----------------------------
(***************************************************************************)
(* The video of a debug run (AutoScriptor/logging/task_video_recorder.py:  *)
(* TaskVideoRecorder).                                                     *)
(*                                                                         *)
(* One recorder per attempt, one attempt at a time; the segments of all    *)
(* are numbered together.  The thread of the attempt starts and stops the  *)
(* recording, a thread of its own rotates the segments, and the device     *)
(* ends a segment when its time is up, or some time after it was asked to. *)
(* Every call of adb may fail.  join() waits longer than a rotation lasts. *)
(***************************************************************************)
EXTENDS Integers, Sequences, SequencesExt, FiniteSets

CONSTANTS
    Keep,           \* keep_segments
    MaxSegments     \* bound: segments started in a behaviour

VARIABLES
    main,       \* the attempt: "idle", "launch", "on", "join", "finish", "await", "pull", "clean"
    rotor,      \* _rotate_loop: "off", "wait", "finish", "await", "check", "launch", "register"
    stopped,    \* _stopped
    keep,       \* the argument of stop()
    index,      \* the number of the last segment
    proc,       \* _proc: the segment whose adb process is held, or 0
    segments,   \* self.segments, old to new
    writing,    \* segments the device is recording
    files,      \* segments on the device; 0 is a leftover of an earlier run of the program
    pulled,     \* segments in the local directory
    begun,      \* history: the segments this recording got going
    fault       \* history: in this recording adb failed, or the device was given up on

vars == <<main, rotor, stopped, keep, index, proc, segments, writing, files, pulled, begun, fault>>
device == <<index, writing, files>>

Newest(s) == IF Len(s) <= Keep THEN s ELSE SubSeq(s, Len(s) - Keep + 1, Len(s))

Init ==
    /\ main = "idle" /\ rotor = "off" /\ stopped = FALSE /\ keep = FALSE
    /\ index = 0 /\ proc = 0 /\ segments = <<>>
    /\ writing = {} /\ files \in {{}, {0}}
    /\ pulled = {} /\ begun = {} /\ fault = FALSE

\* A new recorder clears the device's directory; each of its two calls of adb may fail.
Start ==
    /\ main = "idle" /\ index < MaxSegments
    /\ main' = "launch"
    /\ stopped' = FALSE /\ segments' = <<>> /\ pulled' = {} /\ begun' = {}
    /\ \/ files' = {} /\ fault' = (writing # {})
       \/ UNCHANGED files /\ fault' = TRUE
    /\ UNCHANGED <<rotor, keep, index, proc, writing>>

\* screenrecord is started, and shows within the probe's time that it runs ...
Launch ==
    /\ index < MaxSegments
    /\ index' = index + 1
    /\ writing' = writing \cup {index'} /\ files' = files \cup {index'}

\* ... or it does not.
Refuse == index < MaxSegments /\ index' = index + 1 /\ UNCHANGED <<writing, files>>

\* The process and its file are registered, and what is older than the newest few is
\* deleted, unless adb fails.
Register ==
    LET all == Append(segments, index) IN
    /\ proc' = index
    /\ begun' = begun \cup {index}
    /\ segments' = Newest(all)
    /\ \/ files' = files \ (ToSet(all) \ ToSet(Newest(all))) /\ UNCHANGED fault
       \/ Len(all) > Keep /\ UNCHANGED files /\ fault' = TRUE

StartFirst ==
    /\ main = "launch"
    /\ \/ Launch /\ main' = "register"
       \/ Refuse /\ main' = "on"
    /\ UNCHANGED <<rotor, stopped, keep, proc, segments, pulled, begun, fault>>

Registered ==
    /\ main = "register"
    /\ Register
    /\ main' = "on" /\ rotor' = "wait"
    /\ UNCHANGED <<stopped, keep, index, writing, pulled>>

-----------------------------------------------------------------------------
(* The rotation.                                                           *)

\* Mutant: stop() is not looked at between the segments.
RotateOn ==
    /\ rotor = "wait" /\ index < MaxSegments
    /\ rotor' = "finish"
    /\ UNCHANGED <<main, stopped, keep, device, proc, segments, pulled, begun, fault>>

\* A segment's time is over, or the recording is stopped.
Rotate ==
    /\ rotor = "wait" /\ (stopped \/ index < MaxSegments)
    /\ rotor' = IF stopped THEN "off" ELSE "finish"
    /\ UNCHANGED <<main, stopped, keep, device, proc, segments, pulled, begun, fault>>

RotorFinishes ==
    /\ rotor = "finish"
    /\ proc' = 0
    /\ rotor' = IF proc = 0 THEN "check" ELSE "await"
    /\ UNCHANGED <<main, stopped, keep, device, segments, pulled, begun, fault>>

\* _wait_for_device_idle: screenrecord is gone, or the wait is given up.
Idle == (writing = {} /\ UNCHANGED fault) \/ fault' = TRUE

\* Mutant: the device is not waited for.
RotorHurries ==
    /\ rotor = "await"
    /\ rotor' = "check"
    /\ UNCHANGED <<main, stopped, keep, device, proc, segments, pulled, begun, fault>>

RotorAwaits ==
    /\ rotor = "await"
    /\ Idle
    /\ rotor' = "check"
    /\ UNCHANGED <<main, stopped, keep, device, proc, segments, pulled, begun>>

RotorChecks ==
    /\ rotor = "check"
    /\ rotor' = IF stopped THEN "off" ELSE "launch"
    /\ UNCHANGED <<main, stopped, keep, device, proc, segments, pulled, begun, fault>>

RotorStarts ==
    /\ rotor = "launch"
    /\ \/ Launch /\ rotor' = "register"
       \/ Refuse /\ rotor' = "off"
    /\ UNCHANGED <<main, stopped, keep, proc, segments, pulled, begun, fault>>

RotorRegisters ==
    /\ rotor = "register"
    /\ Register
    /\ rotor' = "wait"
    /\ UNCHANGED <<main, stopped, keep, index, writing, pulled>>

\* The device ends a segment.
SegmentEnds ==
    /\ \E s \in writing : writing' = writing \ {s}
    /\ UNCHANGED <<main, rotor, stopped, keep, index, proc, segments, files, pulled, begun, fault>>

-----------------------------------------------------------------------------
(* stop(): every part of it runs, whatever the one before came to.         *)

Stop ==
    /\ main = "on"
    /\ stopped' = TRUE /\ keep' \in BOOLEAN
    /\ main' = "join"
    /\ UNCHANGED <<rotor, device, proc, segments, pulled, begun, fault>>

Join ==
    /\ main = "join" /\ rotor = "off"
    /\ main' = "finish"
    /\ UNCHANGED <<rotor, stopped, keep, device, proc, segments, pulled, begun, fault>>

FinishLast ==
    /\ main = "finish"
    /\ proc' = 0
    /\ main' = IF proc # 0 THEN "await" ELSE IF keep THEN "pull" ELSE "clean"
    /\ UNCHANGED <<rotor, stopped, keep, device, segments, pulled, begun, fault>>

AwaitLast ==
    /\ main = "await"
    /\ Idle
    /\ main' = IF keep THEN "pull" ELSE "clean"
    /\ UNCHANGED <<rotor, stopped, keep, device, proc, segments, pulled, begun>>

\* _pull_segments: one by one, those that can be had.
Pull ==
    /\ main = "pull"
    /\ pulled' \in SUBSET (ToSet(segments) \cap files)
    /\ fault' = (fault \/ pulled' # ToSet(segments))
    /\ main' = "clean"
    /\ UNCHANGED <<rotor, stopped, keep, device, proc, segments, begun>>

\* cleanup_device, in the finally of stop().
Clean ==
    /\ main = "clean"
    /\ \/ files' = {} /\ UNCHANGED fault
       \/ UNCHANGED files /\ fault' = TRUE
    /\ main' = "idle"
    /\ UNCHANGED <<rotor, stopped, keep, index, proc, segments, writing, pulled, begun>>

Rotor == Rotate \/ RotorFinishes \/ RotorAwaits \/ RotorChecks \/ RotorStarts \/ RotorRegisters
Stopping == Join \/ FinishLast \/ AwaitLast \/ Pull \/ Clean

Next == Start \/ StartFirst \/ Registered \/ Rotor \/ SegmentEnds \/ Stop \/ Stopping

Spec == Init /\ [][Next]_vars

\* Both threads run on.
Fairness == WF_vars(Rotor) /\ WF_vars(Stopping)

FairSpec == Spec /\ Fairness

-----------------------------------------------------------------------------
(* What is to hold.                                                        *)

TypeOK ==
    /\ main \in {"idle", "launch", "register", "on", "join", "finish", "await", "pull", "clean"}
    /\ rotor \in {"off", "wait", "finish", "await", "check", "launch", "register"}
    /\ (rotor # "off" => main \in {"on", "join"})
    /\ stopped \in BOOLEAN /\ keep \in BOOLEAN /\ fault \in BOOLEAN
    /\ index \in 0..MaxSegments /\ proc \in 0..MaxSegments
    /\ segments \in Seq(1..MaxSegments) /\ Len(segments) <= Keep
    /\ writing \subseteq 1..MaxSegments /\ files \subseteq 0..MaxSegments
    /\ pulled \subseteq 1..MaxSegments /\ begun \subseteq 1..MaxSegments

\* When stop() has returned nothing is recording any more and nobody starts a recording;
\* the device has nothing left of it, unless it did not answer.
NothingLeftRecording ==
    main = "idle" =>
        /\ rotor = "off" /\ proc = 0
        /\ fault \/ index = 0 \/ (writing = {} /\ files = {})

\* The device does not record two segments at a time, and does not fill up: the newest
\* ones and the one that is being added.
OneAtATime == ~fault => Cardinality(writing) <= 1 /\ Cardinality(files \ {0}) <= Keep + 1

\* What is kept of a failed run are its last minutes, all of them finished files.
LastMinutesKept ==
    main = "clean" /\ keep /\ ~fault =>
        /\ pulled = {s \in begun : Cardinality({n \in begun : n > s}) < Keep}
        /\ writing \cap pulled = {}

\* stop() comes to its end.
StopReturns == main = "join" ~> main = "idle"

\* The recorder's invariant: types; nothing left recording, one segment at a time, and the
\* last minutes kept.
RecorderIsSound == TypeOK /\ NothingLeftRecording /\ OneAtATime /\ LastMinutesKept
=============================================================================
