--------------------------- MODULE MCAccountStore ---------------------------
(* AccountStore with two accounts, one of them with two characters; and, in  *)
(* the same run of TLC on variables of their own, the attempts at one task   *)
(* (TaskAttempt), the settings of two tasks whose files come and go          *)
(* (TaskCatalog), and the robot's scripts, or those of the standalone one    *)
(* (QQBot).  One of them, chosen at the start, moves; the others stay where  *)
(* they begin, and begin in one way.                                         *)
EXTENDS AccountStore, TLC

MCHome == "a1" :> "A" @@ "a2" :> "A" @@ "b1" :> "B"

CONSTANT MaxAttempts    \* of the attempts

CONSTANTS   \* of the catalog: First is SourceFiles
    Tasks, Dirs, Custom, SourceFiles, Changes, Writes

CONSTANTS   \* of the robot
    Tools, Pids, HttpPorts, WebPorts, MaxScripts, MaxStrangers, MaxFaults, Hands, Addresses

VARIABLES
    moves,      \* the specification that takes the steps
    kind, total, planned, round, pc, why, result, cancel, progress, entry, video, current,
    changed, asked, runs,
    files, broken, changes, registry, loaded, table, order, diskTable, diskOrder, tab, written,
    mine, dropped, wish, unplaced,
    place, settings, pidFile, runLock, chosen, process, starting, listener, logged, noted, op,
    script, pid, scripts, strangers, faults, first, served, used, disturbed, cut, wronged, missed,
    hand, lock, runtime, rule, staged, robots, harm, unfenced

attemptVars == <<kind, total, planned, round, pc, why, result, cancel, progress, entry, video,
                 current, changed, asked, runs>>
catalogVars == <<files, broken, changes, registry, loaded, table, order, diskTable, diskOrder, tab,
                 written, mine, dropped, wish, unplaced>>
localVars == <<place, settings, pidFile, runLock, chosen, process, starting, listener, logged,
               noted, op, script, pid, scripts, strangers, faults, first, served, used, disturbed,
               cut, wronged, missed>>
robotVars == <<hand, lock, runtime, rule, staged, robots, harm, unfenced>>
botVars == <<localVars, robotVars>>

Attempt == INSTANCE TaskAttempt

Catalog == INSTANCE TaskCatalog WITH changed <- changes, page <- tab, First <- SourceFiles

\* The directories are numbered from 1, since 0 is that of the names.
ASSUME CatalogAssumption ==
    /\ IsFiniteSet(Tasks) /\ Tasks \subseteq Nat
    /\ IsFiniteSet(Dirs) /\ Dirs \subseteq Nat \ {0}
    /\ SourceFiles \subseteq Dirs \X Tasks
    /\ Writes \in Nat \ {0}

\* One of the tasks is built in, the other a custom one.
OneOfEach == {<<1, 1>>, <<3, 2>>}

Bot == INSTANCE QQBot WITH pc <- script

\* A pid or a port is a number above 0, which stands for none.
ASSUME BotAssumption ==
    /\ Pids \subseteq Nat \ {0}
    /\ HttpPorts \subseteq Nat \ {0} /\ HttpPorts # {}
    /\ WebPorts \subseteq Nat \ {0} /\ WebPorts # {}
    /\ Bot!Nobody \notin Tools \cup Hands /\ Bot!NoAddress \notin Addresses

AttemptRests ==
    /\ kind = [debug |-> FALSE, once |-> FALSE, restart |-> FALSE]
    /\ total = 1 /\ progress = "none"
CatalogRests == DOMAIN diskTable = {}

BotRests == place.http = 1

\* The scripts stop at their bounds, with the pids and scripts used up: that is no deadlock.
BotIsDone == scripts > 0 /\ UNCHANGED localVars

MCInit ==
    /\ Init /\ Attempt!Init /\ Catalog!Init /\ Bot!Init
    /\ moves \in {"store", "attempt", "catalog", "bot", "robot"}
    /\ moves # "attempt" => AttemptRests
    /\ moves # "catalog" => CatalogRests
    /\ moves # "bot" => BotRests

MCSpec ==
    /\ MCInit
    /\ [][ /\ moves' = moves
           /\ \/ moves = "store" /\ Next /\ UNCHANGED <<attemptVars, catalogVars, botVars>>
              \/ moves = "attempt" /\ Attempt!Next /\ UNCHANGED <<vars, catalogVars, botVars>>
              \/ moves = "catalog" /\ Catalog!Next /\ UNCHANGED <<vars, attemptVars, botVars>>
              \/ /\ moves = "bot" /\ (Bot!LocalNext \/ BotIsDone)
                 /\ UNCHANGED <<vars, attemptVars, catalogVars, robotVars>>
              \/ /\ moves = "robot" /\ Bot!RobotNext
                 /\ UNCHANGED <<vars, attemptVars, catalogVars, localVars>>
         ]_<<vars, moves, attemptVars, catalogVars, botVars>>

\* See AttemptIsRight of TaskAttempt.
AttemptIsRight == Attempt!AttemptIsRight

\* See CatalogIsSound of TaskCatalog and BotIsSound of QQBot.
CatalogAndBotAreSound ==
    /\ moves = "catalog" => Catalog!CatalogIsSound
    /\ moves \in {"bot", "robot"} => Bot!BotIsSound
=============================================================================
