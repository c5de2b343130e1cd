---------------------------- MODULE MCPipelines ----------------------------
(* Two instances of TaskPipeline in one run of TLC, for what must happen in *)
(* the end: two characters, one task, and direct runs that repeat it; and,  *)
(* on variables of its own, one character alone with a plain and a one-time *)
(* task.  One of them, chosen at the start, moves; the other stays where it *)
(* begins, and begins in one way.                                           *)
EXTENDS TaskPipeline

One == <<"c1">>
Two == <<"c1", "c2">>
A == <<"a">>
AB == <<"a", "b">>
ABC == <<"a", "b", "c">>
Lists == {<<"a", "a">>}
DebugList == {<<"c", "a">>}
None == {}
OnlyB == {"b"}
OnlyC == {"c"}

VARIABLES
    moves,      \* the instance that takes the steps
    aOn, aNext, aFrozen, aExhausted, aRenewed, aActive, aState, aCancel, aConsecutive,
    aLastFailed, aPc, aMode, aExplicit, aRound, aAttempted, aRetryQueue, aFailedNext, aRun,
    aCounted, aOnlyDebug, aTries, aCulprits, aSpent, aOwed

aloneVars == <<aOn, aNext, aFrozen, aExhausted, aRenewed, aActive, aState, aCancel,
    aConsecutive, aLastFailed, aPc, aMode, aExplicit, aRound, aAttempted, aRetryQueue,
    aFailedNext, aRun, aCounted, aOnlyDebug, aTries, aCulprits, aSpent, aOwed>>

Alone == INSTANCE TaskPipeline WITH
    Queue <- One, Order <- AB, Once <- OnlyB, Explicit <- None,
    on <- aOn, next <- aNext, frozen <- aFrozen, exhausted <- aExhausted, renewed <- aRenewed,
    active <- aActive, state <- aState, cancel <- aCancel, consecutive <- aConsecutive,
    lastFailed <- aLastFailed, pc <- aPc, mode <- aMode, explicit <- aExplicit,
    round <- aRound, attempted <- aAttempted, retryQueue <- aRetryQueue,
    failedNext <- aFailedNext, run <- aRun, counted <- aCounted, onlyDebug <- aOnlyDebug,
    tries <- aTries, culprits <- aCulprits, spent <- aSpent, owed <- aOwed

TwoMove == moves = "two"
AloneMoves == moves = "alone"

MCInit ==
    /\ Init /\ Alone!Init
    /\ \/ TwoMove /\ aOn = {} /\ \A e \in DOMAIN aNext : aNext[e] = "past"
       \/ AloneMoves /\ on = {} /\ active = "c1" /\ \A e \in Entries : next[e] = "past"

\* The fairness of TaskPipeline, for the instance that moves.
MCSpec ==
    /\ MCInit
    /\ [][ /\ moves' = moves
           /\ \/ TwoMove /\ Next /\ UNCHANGED aloneVars
              \/ AloneMoves /\ Alone!Next /\ UNCHANGED vars ]_<<vars, moves, aloneVars>>
    /\ WF_vars(TwoMove /\ Pipeline) /\ WF_vars(TwoMove /\ BeginCycle) /\ WF_vars(TwoMove /\ Recover)
    /\ \A entry \in Entries : WF_vars(TwoMove /\ Arrives(entry))
    /\ \A t \in Tasks : SF_vars(TwoMove /\ LoggedIn /\ Task = t)
    /\ WF_aloneVars(AloneMoves /\ Alone!Pipeline) /\ WF_aloneVars(AloneMoves /\ Alone!BeginCycle)
    /\ WF_aloneVars(AloneMoves /\ Alone!Recover)
    /\ \A entry \in Alone!Entries : WF_aloneVars(AloneMoves /\ Alone!Arrives(entry))
    /\ \A t \in Alone!Tasks : SF_aloneVars(AloneMoves /\ Alone!LoggedIn /\ Alone!Task = t)

\* With one character a due task is attempted, see DueIsAttempted of TaskPipeline.
AloneDueIsAttempted == AloneMoves => Alone!DueIsAttempted
=============================================================================
