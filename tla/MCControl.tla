------------------------------ MODULE MCControl ------------------------------
(* ExecutionControl, and, in the same run of TLC on variables of their own,  *)
(* a browser tab with the list of the tasks (TaskPages), the order of three  *)
(* tasks that a user arranges in it (TaskOrdering), and the files that the   *)
(* editor writes (EditorFiles), with two keys that are spelled alike, on     *)
(* frames of four points by three.  One of them, chosen at the start, moves; *)
(* the others stay where they begin.                                         *)
EXTENDS ExecutionControl

VARIABLES
    moves,      \* the specification that takes the steps
    table, version, updated, running, owed, written, shown, known, toggled, queue, post, reply,
    get, got, snap, seen, refreshes, wronged,
    shot, rows, pics, scripts, answered, cut, saves,
    registry, changed, overlay, page, wish, placed

pageVars == <<table, version, updated, running, owed, written, shown, known, toggled, queue, post,
              reply, get, got, snap, seen, refreshes, wronged>>
fileVars == <<shot, rows, pics, scripts, answered, cut, saves>>
orderVars == <<registry, changed, overlay, page, wish, placed>>

Page == INSTANCE TaskPages WITH Leaves <- {"t"}, Writes <- 2
ASSUME TabAssumption == Page!PagesAssumption

\* The second task is in a directory of its own; one of the files changes.
Ordering == INSTANCE TaskOrdering WITH
    Tasks <- 1..3, Dirs <- 1..2, Registries <- {<<1, 2, 1>>}, Changes <- 1

\* Selections of all of the frame, of parts of it, and beyond it; parameters that are good, one
\* of them without a name and dropped, twice the same, and without a choice.
Rect(l, t, r, b) == [left |-> l, top |-> t, right |-> r, bottom |-> b]
Param(name, type, options) == [name |-> name, type |-> type, options |-> options]
SameStem(key) == "name"
Files == INSTANCE EditorFiles WITH
    Keys <- {"key", "Key"}, Stem <- SameStem, FrameWidth <- 4, FrameHeight <- 3, Slack <- 1,
    Inks <- {{}, {<<1, 1>>, <<2, 1>>, <<2, 2>>}},
    Rects <- {Rect(0, 0, 4, 3), Rect(1, 0, 3, 2), Rect(2, 1, 5, 3)},
    Names <- {<<"custom", "d", "a">>, <<"blank", "a">>},
    ParamLists <- {<<Param("x", "int", <<>>), Param("blank", "str", <<>>),
                     Param("y", "enum", <<"o", "p", "o">>)>>,
                   <<Param("x", "int", <<>>), Param("x", "int", <<>>)>>,
                   <<Param("z", "enum", <<>>)>>},
    MaxSaves <- 2

ControlMoves == moves = "control"
PageMoves == moves = "page"
FilesMove == moves = "files"
OrderMoves == moves = "order"

MCInit ==
    /\ Init /\ Page!Init /\ Files!Init /\ Ordering!Init
    /\ \/ (ControlMoves \/ PageMoves \/ FilesMove) /\ overlay = <<>>
       \/ OrderMoves

\* The fairness of ExecutionControl and of TaskPages, for the one that moves.
MCSpec ==
    /\ MCInit
    /\ [][ /\ moves' = moves
           /\ \/ ControlMoves /\ Next /\ UNCHANGED <<pageVars, fileVars, orderVars>>
              \/ PageMoves /\ Page!Next /\ UNCHANGED <<vars, fileVars, orderVars>>
              \/ FilesMove /\ Files!Next /\ UNCHANGED <<vars, pageVars, orderVars>>
              \/ OrderMoves /\ Ordering!Next /\ UNCHANGED <<vars, pageVars, fileVars>>
         ]_<<vars, moves, pageVars, fileVars, orderVars>>
    /\ WF_vars(ControlMoves /\ (HttpEnable \/ HttpRefill \/ StopCancel \/ StopState \/ StopBudget
                                 \/ EditorEnd \/ EditorRelease \/ EditorUncancel))
    /\ WF_vars(ControlMoves /\ LoopNext)
    /\ \A w \in Workers : WF_vars(ControlMoves /\ PipelineNext(w))
    /\ WF_vars(ControlMoves /\ Unref) /\ WF_vars(ControlMoves /\ CoolDown)
    /\ WF_pageVars(PageMoves /\ Page!ServePost) /\ WF_pageVars(PageMoves /\ Page!ServeRefresh)
    /\ WF_pageVars(PageMoves /\ Page!ServeSnapshot) /\ WF_pageVars(PageMoves /\ Page!TakeAnswer)
    /\ WF_pageVars(PageMoves /\ Page!TakeSnapshot) /\ WF_pageVars(PageMoves /\ Page!Send)
    /\ WF_pageVars(PageMoves /\ Page!Saved) /\ WF_pageVars(PageMoves /\ Page!Poll)
    /\ WF_pageVars(PageMoves /\ Page!RunAnnounces)

\* What the pages write and show is right: see PagesAreSound of TaskPages, FilesAreSound of
\* EditorFiles and OrderingIsSound of TaskOrdering.
PagesAreSound ==
    /\ Page!PagesAreSound
    /\ FilesMove => Files!FilesAreSound
    /\ OrderMoves => Ordering!OrderingIsSound

\* A tab that stops saving comes to show the server's list, see CatchesUp of TaskPages.
TabCatchesUp == PageMoves => Page!CatchesUp
=============================================================================
