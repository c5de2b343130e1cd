----------------------------- MODULE MCDelivery -----------------------------
(* What accompanies a pipeline, in one run of TLC: its reports             *)
(* (RunReports) with two characters; and, on variables of their own, the   *)
(* queue of QQ messages (QQNotifier), the recorder of a debug run          *)
(* (TaskRecorder), and the monitor that watches a duel (BattleWatch: the   *)
(* sign of the end alone, with the bursts).  One of them, chosen at the    *)
(* start, moves; the others stay where they begin, and begin in one way.   *)
EXTENDS RunReports

TwoChars == <<"c1", "c2">>

CONSTANTS
    Messages, Capacity,     \* of the queue
    Keep, MaxSegments       \* of the recorder

VARIABLES
    moves,      \* the specification that takes the steps
    fresh, pending, worker, hand, verdict, turned, received, log, test,
    main, rotor, stopped, keep, index, proc, segments, writing, files, pulled, begun, fault,
    table, tryExit, protect, inCallback, snapshot, thread, batch, todo, fired, items, late

duelVars == <<table, tryExit, protect, inCallback, snapshot, thread, batch, todo, fired, items, late>>
notifierVars == <<fresh, pending, worker, hand, verdict, turned, received, log, test>>
recorderVars == <<main, rotor, stopped, keep, index, proc, segments, writing, files, pulled,
                  begun, fault>>

Notifier == INSTANCE QQNotifier
Recorder == INSTANCE TaskRecorder
Duel == INSTANCE BattleWatch WITH
    Names <- {"end", "burst"}, Precedence <- <<"end", "burst">>, Script <- <<"end">>,
    Once <- {"end"}, Concurrent <- {"burst"}, Checkers <- {"c1", "c2"},
    Builtins <- <<"burst">>, Signs <- {"end"},
    Gens <- [end |-> 2, burst |-> 1], Bodies <- [end |-> {<<"exit">>}, burst |-> {<<>>}],
    at <- thread

ReportsMove == moves = "reports"
NotifierMoves == moves = "notifier"
RecorderMoves == moves = "recorder"
DuelMoves == moves = "duel"

MCInit ==
    /\ Init /\ Notifier!Init /\ Recorder!Init /\ Duel!Init
    /\ moves \in {"reports", "notifier", "recorder", "duel"}
    /\ ~ReportsMove => due = {} /\ active = "c1"
    /\ ~RecorderMoves => files = {}

\* The fairness of the queue, of the recorder and of the duel, for the one that moves.
MCSpec ==
    /\ MCInit
    /\ [][ /\ moves' = moves
           /\ \/ ReportsMove /\ Next /\ UNCHANGED <<notifierVars, recorderVars, duelVars>>
              \/ NotifierMoves /\ Notifier!Next /\ UNCHANGED <<vars, recorderVars, duelVars>>
              \/ RecorderMoves /\ Recorder!Next /\ UNCHANGED <<vars, notifierVars, duelVars>>
              \/ DuelMoves /\ Duel!Next /\ UNCHANGED <<vars, notifierVars, recorderVars>>
         ]_<<vars, moves, notifierVars, recorderVars, duelVars>>
    /\ WF_notifierVars(NotifierMoves /\ Notifier!RecordRefusal)
    /\ WF_notifierVars(NotifierMoves /\ Notifier!Take)
    /\ WF_notifierVars(NotifierMoves /\ Notifier!Send)
    /\ WF_notifierVars(NotifierMoves /\ Notifier!Record)
    /\ WF_recorderVars(RecorderMoves /\ Recorder!Rotor)
    /\ WF_recorderVars(RecorderMoves /\ Recorder!Stopping)
    /\ \A t \in Duel!Threads : WF_duelVars(DuelMoves /\ Duel!Thread(t))
    /\ WF_duelVars(DuelMoves /\ Duel!Progress)
    /\ SF_duelVars(DuelMoves /\ Duel!Sees("end"))

\* See the properties of these names in QQNotifier.
OutboxIsServed == Notifier!OutboxIsServed
ImplementsOutbox == Notifier!ImplementsOutbox

\* See the properties of these names in TaskRecorder.
RecorderIsSound == Recorder!RecorderIsSound
StopReturns == Recorder!StopReturns

\* In the duel, see SignEndsBattle and CheckersEnd of BattleWatch.
DuelEnds == Duel!SignEndsBattle /\ Duel!CheckersEnd
=============================================================================
