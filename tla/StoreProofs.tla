---------------------------- MODULE StoreProofs -----------------------------
(***************************************************************************)
(* The attempts at a task, for every max_attempts: what is given up is     *)
(* marked, a task that asked for a human is left alone, and no way out of  *)
(* an attempt leaves its recording or the current task behind.  And the    *)
(* accounts, for operations one at a time: the page, the document in       *)
(* memory and the files agree once nobody works, and a saved edit lasts.   *)
(* And the scripts of the robot, which leave each other, strangers and the *)
(* robot alone; and the settings and the order of a user's tasks, which    *)
(* stay his while the task files come, go, move and break.                 *)
(***************************************************************************)
EXTENDS MCAccountStore, SequenceTheorems, FiniteSetTheorems, WellFoundedInduction, TLAPS

\* The attempt is set up from Begin to its finally, and records from Start to the end of
\* its answer.
Tidy ==
    /\ pc \in {"idle", "begin", "returned", "over"} => ~current
    /\ pc \notin {"run", "ran", "answer", "finally"} => video = "off"

\* A round calls the function at most once; max_attempts is what it was unless it was changed.
Rounds ==
    /\ runs <= (IF pc \in {"idle", "begin", "prepare"} THEN round ELSE round + 1)
    /\ ~changed => total = planned

\* The last attempt that failed with the work half done has left a mark.
LastIsMarked ==
    /\ pc \in {"finally", "returned", "over"} /\ result = "failed" /\ Attempt!Incomplete
    /\ runs = planned /\ ~cancel /\ ~changed /\ ~kind.debug
    => entry.takeover

\* Once a task that comes back has asked for a human, the pipeline is past its last attempt.
AskedIsLast ==
    asked /\ ~kind.once =>
        pc \in {"finally", "returned", "over"} /\ result = "failed" /\ Attempt!Blocked

\* The types in three parts: what is one of a few values, what is set or not, what is counted.
Kinds ==
    /\ kind \in [debug : BOOLEAN, once : BOOLEAN, restart : BOOLEAN]
    /\ pc \in Attempt!Labels /\ why \in {"", "retry", "takeover", "error"}
    /\ result \in {"none", "success", "failed", "raised"}
    /\ progress \in {"none", "part", "full"}
    /\ entry \in [on : BOOLEAN, planned : BOOLEAN, takeover : BOOLEAN]
    /\ video \in {"off", "on"}

Flags == cancel \in BOOLEAN /\ current \in BOOLEAN /\ changed \in BOOLEAN /\ asked \in BOOLEAN

Counts ==
    /\ total \in 1..MaxAttempts /\ planned \in 1..MaxAttempts
    /\ round \in 0..(planned - 1) /\ runs \in 0..planned

LEMMA Types == Attempt!TypeOK <=> Kinds /\ Flags /\ Counts
BY DEF Attempt!TypeOK, Kinds, Flags, Counts

\* The inductive invariant.
AttemptIInv == Attempt!TypeOK /\ Tidy /\ Rounds /\ LastIsMarked /\ AskedIsLast

\* What marking a task for a human does.
LEMMA Marks ==
    ASSUME Kinds, Attempt!Mark
    PROVE  /\ entry' \in [on : BOOLEAN, planned : BOOLEAN, takeover : BOOLEAN]
           /\ entry'.takeover /\ (kind.once \/ entry'.planned)
           /\ pc' = "finally" /\ result' \in {"failed", "raised"}
BY DEF Kinds, Attempt!Mark, Attempt!Rescheduled, Attempt!Return

\* A task whose work is half done is marked, another is left as it is.
LEMMA MarksIncomplete ==
    ASSUME Kinds, Attempt!MarkIfIncomplete
    PROVE  /\ entry' \in [on : BOOLEAN, planned : BOOLEAN, takeover : BOOLEAN]
           /\ pc' = "finally" /\ result' \in {"failed", "raised"}
           /\ Attempt!Incomplete => entry'.takeover
           /\ entry'.takeover => entry.takeover \/ Attempt!Incomplete
BY Marks DEF Kinds, Attempt!MarkIfIncomplete, Attempt!Return

\* The pipeline begins with nothing on.
LEMMA InitIInv == Attempt!Init => AttemptIInv
<1> SUFFICES ASSUME Attempt!Init PROVE AttemptIInv
  OBVIOUS
<1>1. Kinds
  BY DEF Attempt!Init, Kinds, Attempt!Labels
<1>2. Flags
  BY DEF Attempt!Init, Flags
<1>3. /\ total \in 1..MaxAttempts /\ planned = total /\ round = 0 /\ runs = 0
      /\ pc = "idle" /\ ~current /\ video = "off"
  BY DEF Attempt!Init
<1>4. Counts /\ Tidy /\ Rounds
  BY <1>3 DEF Counts, Tidy, Rounds
<1>5. LastIsMarked /\ AskedIsLast
  BY DEF Attempt!Init, LastIsMarked, AskedIsLast
<1> QED BY <1>1, <1>2, <1>4, <1>5, Types DEF AttemptIInv

\* The kinds are kept, ...
LEMMA KindsKept == Kinds /\ [Attempt!Next]_(Attempt!vars) => Kinds'
<1> SUFFICES ASSUME Kinds, [Attempt!Next]_(Attempt!vars) PROVE Kinds'
  OBVIOUS
<1> USE DEF Kinds, Attempt!world, Attempt!hist, Attempt!Return
<1>1. CASE Attempt!Call
  BY <1>1, ZenonT(120) DEF Attempt!Call, Attempt!Labels
<1>2. CASE Attempt!NoAttempt
  BY <1>2, ZenonT(120) DEF Attempt!NoAttempt, Attempt!Labels
<1>3. CASE Attempt!Begin
  BY <1>3, ZenonT(120) DEF Attempt!Begin, Attempt!Labels
<1>4. CASE Attempt!Unprepared
  BY <1>4, ZenonT(120) DEF Attempt!Unprepared, Attempt!Labels
<1>5. CASE Attempt!NoDevice
  BY <1>5, ZenonT(120) DEF Attempt!NoDevice, Attempt!Labels
<1>6. CASE Attempt!Start
  BY <1>6, ZenonT(120) DEF Attempt!Start, Attempt!Labels
<1>7. CASE Attempt!Note
  BY <1>7, ZenonT(120) DEF Attempt!Note, Attempt!Labels
<1>8. CASE Attempt!Ended
  <2>1. UNCHANGED <<kind, progress, entry, video>>
    BY <1>8 DEF Attempt!Ended
  <2>2. pc' \in Attempt!Labels
    BY <1>8 DEF Attempt!Ended, Attempt!Labels
  <2>3. why' \in {why, "retry", "takeover", "error"} /\ result' \in {result, "failed"}
    BY <1>8 DEF Attempt!Ended
  <2>4. why' \in {"", "retry", "takeover", "error"}
        /\ result' \in {"none", "success", "failed", "raised"}
    BY <2>3
  <2> QED BY <2>1, <2>2, <2>4, Zenon
<1>9. CASE Attempt!Unfinished
  BY <1>9, ZenonT(120) DEF Attempt!Unfinished, Attempt!Labels
<1>10. CASE Attempt!Succeed
  BY <1>10 DEF Attempt!Succeed, Attempt!Rescheduled, Attempt!Labels
<1>11. CASE Attempt!AnswerTakeover
  BY <1>11, Marks DEF Attempt!AnswerTakeover, Attempt!Labels
<1>12. CASE Attempt!AnswerRetry
  BY <1>12, MarksIncomplete DEF Attempt!AnswerRetry, Attempt!Labels
<1>13. CASE Attempt!AnswerError
  BY <1>13 DEF Attempt!AnswerError, Attempt!Labels
<1>14. CASE Attempt!Recovered
  BY <1>14, ZenonT(120) DEF Attempt!Recovered, Attempt!Labels
<1>15. CASE Attempt!NotRecovered
  BY <1>15, MarksIncomplete, ZenonT(60) DEF Attempt!NotRecovered, Attempt!Labels
<1>16. CASE Attempt!Spent
  BY <1>16, MarksIncomplete, ZenonT(60) DEF Attempt!Spent, Attempt!Labels
<1>17. CASE Attempt!Finally
  BY <1>17, ZenonT(120) DEF Attempt!Finally, Attempt!Labels
<1>18. CASE Attempt!NextRound
  BY <1>18 DEF Attempt!NextRound, Attempt!MayRetry, Attempt!Labels
<1>19. CASE Attempt!Over
  BY <1>19, ZenonT(120) DEF Attempt!Over, Attempt!Labels
<1>20. CASE Attempt!Stop
  <2>1. UNCHANGED <<kind, pc, why, result, progress, entry, video>>
    BY <1>20 DEF Attempt!Stop
  <2> QED BY <2>1, ZenonT(120)
<1>21. CASE Attempt!SaveTotal
  <2>1. UNCHANGED <<kind, pc, why, result, progress, entry, video>>
    BY <1>21 DEF Attempt!SaveTotal
  <2> QED BY <2>1, ZenonT(120)
<1>22. CASE UNCHANGED Attempt!vars
  <2>1. UNCHANGED <<kind, pc, why, result, progress, entry, video>>
    BY <1>22 DEF Attempt!vars
  <2> QED BY <2>1, ZenonT(120)
<1> QED
  BY <1>1, <1>2, <1>3, <1>4, <1>5, <1>6, <1>7, <1>8, <1>9, <1>10, <1>11, <1>12, <1>13, <1>14,
     <1>15, <1>16, <1>17, <1>18, <1>19, <1>20, <1>21, <1>22 DEF Attempt!Next, Attempt!Attempt,
            Attempt!Done

\* ... the flags, ...
LEMMA FlagsKept == Flags /\ [Attempt!Next]_(Attempt!vars) => Flags'
<1> SUFFICES ASSUME Flags, [Attempt!Next]_(Attempt!vars) PROVE Flags'
  OBVIOUS
<1> USE DEF Flags, Attempt!world, Attempt!hist
<1>1. CASE Attempt!Call
  BY <1>1 DEF Attempt!Call
<1>2. CASE Attempt!NoAttempt
  BY <1>2 DEF Attempt!NoAttempt
<1>3. CASE Attempt!Begin
  BY <1>3 DEF Attempt!Begin
<1>4. CASE Attempt!Unprepared
  BY <1>4 DEF Attempt!Unprepared
<1>5. CASE Attempt!NoDevice
  BY <1>5 DEF Attempt!NoDevice
<1>6. CASE Attempt!Start
  BY <1>6 DEF Attempt!Start
<1>7. CASE Attempt!Note
  BY <1>7 DEF Attempt!Note
<1>8. CASE Attempt!Ended
  BY <1>8 DEF Attempt!Ended
<1>9. CASE Attempt!Unfinished
  BY <1>9 DEF Attempt!Unfinished
<1>10. CASE Attempt!Succeed
  BY <1>10 DEF Attempt!Succeed
<1>11. CASE Attempt!AnswerTakeover
  BY <1>11 DEF Attempt!AnswerTakeover
<1>12. CASE Attempt!AnswerRetry
  BY <1>12 DEF Attempt!AnswerRetry
<1>13. CASE Attempt!AnswerError
  BY <1>13 DEF Attempt!AnswerError
<1>14. CASE Attempt!Recovered
  BY <1>14 DEF Attempt!Recovered
<1>15. CASE Attempt!NotRecovered
  BY <1>15 DEF Attempt!NotRecovered
<1>16. CASE Attempt!Spent
  BY <1>16 DEF Attempt!Spent
<1>17. CASE Attempt!Finally
  BY <1>17 DEF Attempt!Finally
<1>18. CASE Attempt!NextRound
  BY <1>18 DEF Attempt!NextRound
<1>19. CASE Attempt!Over
  BY <1>19 DEF Attempt!Over
<1>20. CASE Attempt!Stop
  BY <1>20 DEF Attempt!Stop
<1>21. CASE Attempt!SaveTotal
  BY <1>21 DEF Attempt!SaveTotal
<1>22. CASE UNCHANGED Attempt!vars
  BY <1>22 DEF Attempt!vars
<1> QED
  BY <1>1, <1>2, <1>3, <1>4, <1>5, <1>6, <1>7, <1>8, <1>9, <1>10, <1>11, <1>12, <1>13, <1>14,
     <1>15, <1>16, <1>17, <1>18, <1>19, <1>20, <1>21, <1>22 DEF Attempt!Next, Attempt!Attempt,
            Attempt!Done

\* ... and the counts: in particular no round is begun beyond the planned ones.
LEMMA CountsKept == Kinds /\ Counts /\ Rounds /\ [Attempt!Next]_(Attempt!vars) => Counts' /\ Rounds'
<1> SUFFICES ASSUME Kinds, Counts, Rounds, [Attempt!Next]_(Attempt!vars) PROVE Counts' /\ Rounds'
  OBVIOUS
<1> USE DEF Counts, Rounds, Attempt!world, Attempt!hist, Attempt!Return
<1>1. CASE Attempt!Call
  BY <1>1 DEF Attempt!Call
<1>2. CASE Attempt!NoAttempt
  BY <1>2 DEF Attempt!NoAttempt
<1>3. CASE Attempt!Begin
  BY <1>3 DEF Attempt!Begin
<1>4. CASE Attempt!Unprepared
  BY <1>4 DEF Attempt!Unprepared
<1>5. CASE Attempt!NoDevice
  BY <1>5 DEF Attempt!NoDevice
<1>6. CASE Attempt!Start
  BY <1>6 DEF Attempt!Start
<1>7. CASE Attempt!Note
  BY <1>7 DEF Attempt!Note
<1>8. CASE Attempt!Ended
  BY <1>8 DEF Attempt!Ended
<1>9. CASE Attempt!Unfinished
  BY <1>9 DEF Attempt!Unfinished
<1>10. CASE Attempt!Succeed
  BY <1>10 DEF Attempt!Succeed
<1>11. CASE Attempt!AnswerTakeover
  BY <1>11, Marks DEF Attempt!AnswerTakeover
<1>12. CASE Attempt!AnswerRetry
  BY <1>12, MarksIncomplete DEF Attempt!AnswerRetry
<1>13. CASE Attempt!AnswerError
  BY <1>13 DEF Attempt!AnswerError
<1>14. CASE Attempt!Recovered
  BY <1>14 DEF Attempt!Recovered
<1>15. CASE Attempt!NotRecovered
  BY <1>15, MarksIncomplete DEF Attempt!NotRecovered
<1>16. CASE Attempt!Spent
  BY <1>16, MarksIncomplete DEF Attempt!Spent
<1>17. CASE Attempt!Finally
  BY <1>17 DEF Attempt!Finally
<1>18. CASE Attempt!NextRound
  <2>1. /\ round' = round + 1 /\ round + 1 < planned /\ pc = "returned" /\ pc' = "idle"
        /\ UNCHANGED <<total, planned, runs, changed>>
    BY <1>18 DEF Attempt!NextRound, Attempt!MayRetry
  <2> QED BY <2>1
<1>19. CASE Attempt!Over
  BY <1>19 DEF Attempt!Over
<1>20. CASE Attempt!Stop
  BY <1>20 DEF Attempt!Stop
<1>21. CASE Attempt!SaveTotal
  BY <1>21 DEF Attempt!SaveTotal
<1>22. CASE UNCHANGED Attempt!vars
  BY <1>22 DEF Attempt!vars
<1> QED
  BY <1>1, <1>2, <1>3, <1>4, <1>5, <1>6, <1>7, <1>8, <1>9, <1>10, <1>11, <1>12, <1>13, <1>14,
     <1>15, <1>16, <1>17, <1>18, <1>19, <1>20, <1>21, <1>22 DEF Attempt!Next, Attempt!Attempt,
            Attempt!Done

\* Every way out of an attempt leads through its finally, if it was set up.
LEMMA TidyKept == Kinds /\ Tidy /\ [Attempt!Next]_(Attempt!vars) => Tidy'
<1> SUFFICES ASSUME Kinds, Tidy, [Attempt!Next]_(Attempt!vars) PROVE Tidy'
  OBVIOUS
<1> USE DEF Tidy, Attempt!Return
<1>1. CASE Attempt!Call
  BY <1>1 DEF Attempt!Call
<1>2. CASE Attempt!NoAttempt
  BY <1>2 DEF Attempt!NoAttempt
<1>3. CASE Attempt!Begin
  BY <1>3 DEF Attempt!Begin
<1>4. CASE Attempt!Unprepared
  BY <1>4 DEF Attempt!Unprepared
<1>5. CASE Attempt!NoDevice
  BY <1>5 DEF Attempt!NoDevice
<1>6. CASE Attempt!Start
  BY <1>6 DEF Attempt!Start
<1>7. CASE Attempt!Note
  BY <1>7 DEF Attempt!Note
<1>8. CASE Attempt!Ended
  BY <1>8 DEF Attempt!Ended
<1>9. CASE Attempt!Unfinished
  BY <1>9 DEF Attempt!Unfinished
<1>10. CASE Attempt!Succeed
  BY <1>10 DEF Attempt!Succeed
<1>11. CASE Attempt!AnswerTakeover
  BY <1>11, Marks DEF Attempt!AnswerTakeover
<1>12. CASE Attempt!AnswerRetry
  BY <1>12, MarksIncomplete DEF Attempt!AnswerRetry
<1>13. CASE Attempt!AnswerError
  BY <1>13 DEF Attempt!AnswerError
<1>14. CASE Attempt!Recovered
  BY <1>14 DEF Attempt!Recovered
<1>15. CASE Attempt!NotRecovered
  BY <1>15, MarksIncomplete DEF Attempt!NotRecovered
<1>16. CASE Attempt!Spent
  BY <1>16, MarksIncomplete DEF Attempt!Spent
<1>17. CASE Attempt!Finally
  BY <1>17 DEF Attempt!Finally
<1>18. CASE Attempt!NextRound
  BY <1>18 DEF Attempt!NextRound, Attempt!MayRetry
<1>19. CASE Attempt!Over
  BY <1>19 DEF Attempt!Over
<1>20. CASE Attempt!Stop
  BY <1>20 DEF Attempt!Stop
<1>21. CASE Attempt!SaveTotal
  BY <1>21 DEF Attempt!SaveTotal
<1>22. CASE UNCHANGED Attempt!vars
  BY <1>22 DEF Attempt!vars
<1> QED
  BY <1>1, <1>2, <1>3, <1>4, <1>5, <1>6, <1>7, <1>8, <1>9, <1>10, <1>11, <1>12, <1>13, <1>14,
     <1>15, <1>16, <1>17, <1>18, <1>19, <1>20, <1>21, <1>22 DEF Attempt!Next, Attempt!Attempt,
            Attempt!Done

\* No failure of the last attempt goes past the mark.
LEMMA MarkKept == Kinds /\ Counts /\ Rounds /\ LastIsMarked /\ [Attempt!Next]_(Attempt!vars)
    => LastIsMarked'
<1> SUFFICES ASSUME Kinds, Counts, Rounds, LastIsMarked, [Attempt!Next]_(Attempt!vars)
            PROVE LastIsMarked'
  OBVIOUS
<1> USE DEF LastIsMarked, Attempt!Incomplete, Attempt!Return, Rounds, Counts, Attempt!world,
            Attempt!hist
<1>1. CASE Attempt!Call
  BY <1>1 DEF Attempt!Call
<1>2. CASE Attempt!NoAttempt
  BY <1>2 DEF Attempt!NoAttempt
<1>3. CASE Attempt!Begin
  BY <1>3 DEF Attempt!Begin
<1>4. CASE Attempt!Unprepared
  BY <1>4 DEF Attempt!Unprepared
<1>5. CASE Attempt!NoDevice
  BY <1>5 DEF Attempt!NoDevice
<1>6. CASE Attempt!Start
  BY <1>6 DEF Attempt!Start
<1>7. CASE Attempt!Note
  BY <1>7 DEF Attempt!Note
<1>8. CASE Attempt!Ended
  BY <1>8 DEF Attempt!Ended
<1>9. CASE Attempt!Unfinished
  BY <1>9 DEF Attempt!Unfinished
<1>10. CASE Attempt!Succeed
  BY <1>10 DEF Attempt!Succeed
<1>11. CASE Attempt!AnswerTakeover
  BY <1>11, Marks DEF Attempt!AnswerTakeover
<1>12. CASE Attempt!AnswerRetry
  BY <1>12, MarksIncomplete DEF Attempt!AnswerRetry
<1>13. CASE Attempt!AnswerError
  BY <1>13 DEF Attempt!AnswerError
<1>14. CASE Attempt!Recovered
  BY <1>14 DEF Attempt!Recovered
<1>15. CASE Attempt!NotRecovered
  BY <1>15, MarksIncomplete DEF Attempt!NotRecovered
<1>16. CASE Attempt!Spent
  BY <1>16, MarksIncomplete DEF Attempt!Spent
<1>17. CASE Attempt!Finally
  BY <1>17 DEF Attempt!Finally
<1>18. CASE Attempt!NextRound
  BY <1>18 DEF Attempt!NextRound, Attempt!MayRetry
<1>19. CASE Attempt!Over
  BY <1>19 DEF Attempt!Over
<1>20. CASE Attempt!Stop
  BY <1>20 DEF Attempt!Stop
<1>21. CASE Attempt!SaveTotal
  BY <1>21 DEF Attempt!SaveTotal
<1>22. CASE UNCHANGED Attempt!vars
  BY <1>22 DEF Attempt!vars
<1> QED
  BY <1>1, <1>2, <1>3, <1>4, <1>5, <1>6, <1>7, <1>8, <1>9, <1>10, <1>11, <1>12, <1>13, <1>14,
     <1>15, <1>16, <1>17, <1>18, <1>19, <1>20, <1>21, <1>22 DEF Attempt!Next, Attempt!Attempt,
            Attempt!Done

\* Nor is there another attempt once a human was asked for.
LEMMA AskedKept == Kinds /\ Flags /\ AskedIsLast /\ [Attempt!Next]_(Attempt!vars) => AskedIsLast'
<1> SUFFICES ASSUME Kinds, Flags, AskedIsLast, [Attempt!Next]_(Attempt!vars) PROVE AskedIsLast'
  OBVIOUS
<1> USE DEF AskedIsLast, Attempt!Blocked, Attempt!Return, Attempt!world, Attempt!hist
<1>1. CASE Attempt!Call
  BY <1>1 DEF Attempt!Call
<1>2. CASE Attempt!NoAttempt
  BY <1>2 DEF Attempt!NoAttempt
<1>3. CASE Attempt!Begin
  BY <1>3 DEF Attempt!Begin
<1>4. CASE Attempt!Unprepared
  BY <1>4 DEF Attempt!Unprepared
<1>5. CASE Attempt!NoDevice
  BY <1>5 DEF Attempt!NoDevice
<1>6. CASE Attempt!Start
  BY <1>6 DEF Attempt!Start
<1>7. CASE Attempt!Note
  BY <1>7 DEF Attempt!Note
<1>8. CASE Attempt!Ended
  BY <1>8 DEF Attempt!Ended
<1>9. CASE Attempt!Unfinished
  BY <1>9 DEF Attempt!Unfinished
<1>10. CASE Attempt!Succeed
  BY <1>10 DEF Attempt!Succeed
<1>11. CASE Attempt!AnswerTakeover
  BY <1>11, Marks DEF Attempt!AnswerTakeover
<1>12. CASE Attempt!AnswerRetry
  BY <1>12, MarksIncomplete DEF Attempt!AnswerRetry
<1>13. CASE Attempt!AnswerError
  BY <1>13 DEF Attempt!AnswerError
<1>14. CASE Attempt!Recovered
  BY <1>14 DEF Attempt!Recovered
<1>15. CASE Attempt!NotRecovered
  BY <1>15, MarksIncomplete DEF Attempt!NotRecovered
<1>16. CASE Attempt!Spent
  BY <1>16, MarksIncomplete DEF Attempt!Spent
<1>17. CASE Attempt!Finally
  BY <1>17 DEF Attempt!Finally
<1>18. CASE Attempt!NextRound
  BY <1>18 DEF Attempt!NextRound, Attempt!MayRetry
<1>19. CASE Attempt!Over
  BY <1>19 DEF Attempt!Over
<1>20. CASE Attempt!Stop
  BY <1>20 DEF Attempt!Stop
<1>21. CASE Attempt!SaveTotal
  BY <1>21 DEF Attempt!SaveTotal
<1>22. CASE UNCHANGED Attempt!vars
  BY <1>22 DEF Attempt!vars
<1> QED
  BY <1>1, <1>2, <1>3, <1>4, <1>5, <1>6, <1>7, <1>8, <1>9, <1>10, <1>11, <1>12, <1>13, <1>14,
     <1>15, <1>16, <1>17, <1>18, <1>19, <1>20, <1>21, <1>22 DEF Attempt!Next, Attempt!Attempt,
            Attempt!Done

\* The inductive invariant holds of every behaviour.
THEOREM AttemptInvariant == Attempt!Spec => []AttemptIInv
<1>1. Attempt!Init => AttemptIInv
  BY InitIInv
<1>2. AttemptIInv /\ [Attempt!Next]_(Attempt!vars) => AttemptIInv'
  <2> SUFFICES ASSUME AttemptIInv, [Attempt!Next]_(Attempt!vars) PROVE AttemptIInv'
    OBVIOUS
  <2>1. Kinds /\ Flags /\ Counts /\ Tidy /\ Rounds /\ LastIsMarked /\ AskedIsLast
    BY Types DEF AttemptIInv
  <2>2. Kinds' /\ Flags' /\ Counts'
    BY <2>1, KindsKept, FlagsKept, CountsKept
  <2>3. Attempt!TypeOK'
    BY <2>2 DEF Attempt!TypeOK, Kinds, Flags, Counts
  <2> QED BY <2>1, <2>3, CountsKept, TidyKept, MarkKept, AskedKept DEF AttemptIInv
<1> QED BY <1>1, <1>2, PTL DEF Attempt!Spec

-----------------------------------------------------------------------------
(* What a step may not do.                                                    *)

\* Success comes only from Succeed.
SuccessStep ==
    result' = "success" /\ result # "success" =>
        /\ ~Attempt!Incomplete
        /\ ~entry'.takeover /\ (entry'.planned \/ ~entry'.on)

LEMMA StepSucceeds == AttemptIInv /\ [Attempt!Next]_(Attempt!vars) => SuccessStep
<1> SUFFICES ASSUME AttemptIInv, [Attempt!Next]_(Attempt!vars) PROVE SuccessStep
  OBVIOUS
<1>0. Kinds
  BY Types DEF AttemptIInv
<1> USE DEF SuccessStep, Attempt!Return
<1>1. CASE Attempt!Call
  BY <1>1 DEF Attempt!Call
<1>2. CASE Attempt!NoAttempt
  BY <1>2 DEF Attempt!NoAttempt
<1>3. CASE Attempt!Begin
  BY <1>3 DEF Attempt!Begin
<1>4. CASE Attempt!Unprepared
  BY <1>4 DEF Attempt!Unprepared
<1>5. CASE Attempt!NoDevice
  BY <1>5 DEF Attempt!NoDevice
<1>6. CASE Attempt!Start
  BY <1>6 DEF Attempt!Start
<1>7. CASE Attempt!Note
  BY <1>7 DEF Attempt!Note
<1>8. CASE Attempt!Ended
  BY <1>8 DEF Attempt!Ended
<1>9. CASE Attempt!Unfinished
  BY <1>9 DEF Attempt!Unfinished
<1>10. CASE Attempt!Succeed
  BY <1>10, <1>0 DEF Attempt!Succeed, Attempt!Rescheduled, Kinds
<1>11. CASE Attempt!AnswerTakeover
  BY <1>11, <1>0, Marks DEF Attempt!AnswerTakeover
<1>12. CASE Attempt!AnswerRetry
  BY <1>12, <1>0, MarksIncomplete DEF Attempt!AnswerRetry
<1>13. CASE Attempt!AnswerError
  BY <1>13 DEF Attempt!AnswerError
<1>14. CASE Attempt!Recovered
  BY <1>14 DEF Attempt!Recovered
<1>15. CASE Attempt!NotRecovered
  BY <1>15, <1>0, MarksIncomplete DEF Attempt!NotRecovered
<1>16. CASE Attempt!Spent
  BY <1>16, <1>0, MarksIncomplete DEF Attempt!Spent
<1>17. CASE Attempt!Finally
  BY <1>17 DEF Attempt!Finally
<1>18. CASE Attempt!NextRound
  BY <1>18 DEF Attempt!NextRound
<1>19. CASE Attempt!Over
  BY <1>19 DEF Attempt!Over
<1>20. CASE Attempt!Stop
  BY <1>20 DEF Attempt!Stop
<1>21. CASE Attempt!SaveTotal
  BY <1>21 DEF Attempt!SaveTotal
<1>22. CASE UNCHANGED Attempt!vars
  BY <1>22 DEF Attempt!vars
<1> QED
  BY <1>1, <1>2, <1>3, <1>4, <1>5, <1>6, <1>7, <1>8, <1>9, <1>10, <1>11, <1>12, <1>13, <1>14,
     <1>15, <1>16, <1>17, <1>18, <1>19, <1>20, <1>21, <1>22 DEF Attempt!Next, Attempt!Attempt,
            Attempt!Done

\* A mark comes only from an answer to a request for a human, or to the last failure.
MarkStep ==
    entry'.takeover /\ ~entry.takeover =>
        why = "takeover" \/ (Attempt!Incomplete /\ (round + 1 >= total \/ pc = "recover"))

LEMMA StepMarks == AttemptIInv /\ [Attempt!Next]_(Attempt!vars) => MarkStep
<1> SUFFICES ASSUME AttemptIInv, [Attempt!Next]_(Attempt!vars) PROVE MarkStep
  OBVIOUS
<1>0. Kinds /\ round \in Nat /\ total \in Nat
  BY Types DEF AttemptIInv, Counts
<1> USE DEF MarkStep, Attempt!Return
<1>1. CASE Attempt!Call
  BY <1>1 DEF Attempt!Call
<1>2. CASE Attempt!NoAttempt
  BY <1>2 DEF Attempt!NoAttempt
<1>3. CASE Attempt!Begin
  BY <1>3 DEF Attempt!Begin
<1>4. CASE Attempt!Unprepared
  BY <1>4 DEF Attempt!Unprepared
<1>5. CASE Attempt!NoDevice
  BY <1>5 DEF Attempt!NoDevice
<1>6. CASE Attempt!Start
  BY <1>6 DEF Attempt!Start
<1>7. CASE Attempt!Note
  BY <1>7 DEF Attempt!Note
<1>8. CASE Attempt!Ended
  BY <1>8 DEF Attempt!Ended
<1>9. CASE Attempt!Unfinished
  BY <1>9 DEF Attempt!Unfinished
<1>10. CASE Attempt!Succeed
  BY <1>10, <1>0 DEF Attempt!Succeed, Attempt!Rescheduled, Kinds
<1>11. CASE Attempt!AnswerTakeover
  BY <1>11, <1>0, Marks DEF Attempt!AnswerTakeover
<1>12. CASE Attempt!AnswerRetry
  BY <1>12, <1>0, MarksIncomplete DEF Attempt!AnswerRetry
<1>13. CASE Attempt!AnswerError
  BY <1>13 DEF Attempt!AnswerError
<1>14. CASE Attempt!Recovered
  BY <1>14 DEF Attempt!Recovered
<1>15. CASE Attempt!NotRecovered
  BY <1>15, <1>0, MarksIncomplete DEF Attempt!NotRecovered
<1>16. CASE Attempt!Spent
  BY <1>16, <1>0, MarksIncomplete DEF Attempt!Spent
<1>17. CASE Attempt!Finally
  BY <1>17 DEF Attempt!Finally
<1>18. CASE Attempt!NextRound
  BY <1>18 DEF Attempt!NextRound
<1>19. CASE Attempt!Over
  BY <1>19 DEF Attempt!Over
<1>20. CASE Attempt!Stop
  BY <1>20 DEF Attempt!Stop
<1>21. CASE Attempt!SaveTotal
  BY <1>21 DEF Attempt!SaveTotal
<1>22. CASE UNCHANGED Attempt!vars
  BY <1>22 DEF Attempt!vars
<1> QED
  BY <1>1, <1>2, <1>3, <1>4, <1>5, <1>6, <1>7, <1>8, <1>9, <1>10, <1>11, <1>12, <1>13, <1>14,
     <1>15, <1>16, <1>17, <1>18, <1>19, <1>20, <1>21, <1>22 DEF Attempt!Next, Attempt!Attempt,
            Attempt!Done

\* The function is called only by Start, to which a request for a human does not lead back.
CallStep == runs' > runs /\ asked => kind.once

LEMMA StepCalls == AttemptIInv /\ [Attempt!Next]_(Attempt!vars) => CallStep
<1> SUFFICES ASSUME AttemptIInv, [Attempt!Next]_(Attempt!vars) PROVE CallStep
  OBVIOUS
<1>0. runs \in Nat
  BY Types DEF AttemptIInv, Counts
<1>1. CASE Attempt!Start
  BY <1>1 DEF Attempt!Start, CallStep, AttemptIInv, AskedIsLast
<1>2. CASE runs' = runs
  BY <1>0, <1>2 DEF CallStep
<1>3. Attempt!Start \/ runs' = runs
  BY DEF Attempt!Next, Attempt!Attempt, Attempt!Done, Attempt!vars, Attempt!hist, Attempt!Call,
      Attempt!NoAttempt, Attempt!Begin, Attempt!Unprepared, Attempt!NoDevice, Attempt!Note,
          Attempt!Ended,
         Attempt!Unfinished, Attempt!Succeed, Attempt!AnswerTakeover, Attempt!AnswerRetry,
             Attempt!AnswerError, Attempt!Recovered, Attempt!NotRecovered,
         Attempt!Spent, Attempt!Finally, Attempt!NextRound, Attempt!Over, Attempt!Stop,
             Attempt!SaveTotal
<1> QED BY <1>1, <1>2, <1>3

\* Types; nothing left on; a mark on what was given up: and what success, a mark and another
\* attempt say of the task is so at every step.
THEOREM AttemptRight == Attempt!Spec => AttemptIsRight
<1>1. AttemptIInv => Attempt!AttemptIsSound
  BY DEF AttemptIInv, Attempt!AttemptIsSound, Tidy, Attempt!NothingLeftOn, LastIsMarked,
      Attempt!GivenUpIsMarked
<1>2. AttemptIInv /\ [Attempt!Next]_(Attempt!vars) =>
        /\ [SuccessStep]_(Attempt!vars)
        /\ [MarkStep]_(Attempt!vars)
        /\ [CallStep]_(Attempt!vars)
  BY StepSucceeds, StepMarks, StepCalls
<1>3. Attempt!Spec => []Attempt!AttemptIsSound
  BY <1>1, AttemptInvariant, PTL
<1>4. Attempt!Spec => Attempt!SuccessIsComplete /\ Attempt!MarkHasReason /\ Attempt!HumanIsWaitedFor
  <2>1. Attempt!Spec => [][SuccessStep]_(Attempt!vars) /\ [][MarkStep]_(Attempt!vars)
        /\ [][CallStep]_(Attempt!vars)
    BY <1>2, AttemptInvariant, PTL DEF Attempt!Spec
  <2> QED BY <2>1 DEF Attempt!SuccessIsComplete, Attempt!MarkHasReason, Attempt!HumanIsWaitedFor,
             SuccessStep, MarkStep,
             CallStep
<1> QED BY <1>3, <1>4 DEF AttemptIsRight, Attempt!AttemptIsRight

-----------------------------------------------------------------------------
(* The accounts, while no two operations overlap.  A thread that works is   *)
(* told apart by the step it takes next: what an edit still misses, and     *)
(* whether the page shows the document, depend on that step alone.          *)

Rest == [do |-> "nothing", on |-> ""]

StepNames == {"save account", "save config", "save root", "set active", "load", "reload",
    "refresh", "edit other", "edit active", "edit flat", "register", "look up", "write entry",
    "ensure", "add character", "delete character", "new account"}

Steps == {x \in [do : StepNames, on : Chars \cup Accounts \cup {""}] :
             x.do = "load" => x.on \in Accounts}

\* The steps that change which character the document is for, that edit the active table, and
\* that are only ever the first of an operation.
Changers == {"set active", "load", "reload"}
Editors == {"edit active", "edit flat", "write entry"}
Firsts == {"edit active", "edit flat", "edit other", "look up", "add character",
           "delete character", "new account"}

\* Step b may follow a.
Fits(a, b) ==
    /\ a.do \in Changers <=> b.do = "refresh"
    /\ a.do \in Editors => b.do = "save account"
    /\ a.do = "edit other" => b.do = "save root"
    /\ a.do = "look up" <=> b.do = "write entry"
    /\ b.do = "set active" => a.do = "save root"
    /\ b.do \notin Firsts

\* A list of steps from a to z, each of which fits the one before it.
Runs(s, a, z) ==
    /\ s \in Seq(Steps) /\ Len(s) > 0
    /\ s[1] = a /\ s[Len(s)] = z
    /\ \A i \in 1..(Len(s) - 1) : Fits(s[i], s[i + 1])

InOrder(s) == s = <<>> \/ \E a, z \in Steps : Runs(s, a, z) /\ Fits(z, Rest)

Saves(s) == \E i \in 1..Len(s) : s[i].do = "save account"
Now(s) == IF s = <<>> THEN Rest ELSE s[1]

LEMMA Single == ASSUME NEW a \in Steps PROVE Runs(<<a>>, a, a)
BY DEF Runs

LEMMA Pair == ASSUME NEW a \in Steps, NEW b \in Steps, Fits(a, b) PROVE Runs(<<a, b>>, a, b)
<1> DEFINE s == <<a, b>>
<1>1. s \in Seq(Steps) /\ Len(s) = 2 /\ s[1] = a /\ s[2] = b
  OBVIOUS
<1>2. \A i \in 1..(Len(s) - 1) : i = 1
  BY <1>1
<1> HIDE DEF s
<1>3. Runs(s, a, b)
  BY <1>1, <1>2 DEF Runs
<1> QED BY <1>3 DEF s

\* Two such lists make one if the second's first step fits the first's last.
LEMMA Joined ==
    ASSUME NEW s, NEW u, NEW a, NEW b, NEW y, NEW z, Runs(s, a, y), Runs(u, b, z), Fits(y, b)
    PROVE  Runs(s \o u, a, z)
<1> DEFINE w == s \o u
<1>1. /\ s \in Seq(Steps) /\ u \in Seq(Steps) /\ Len(s) \in Nat \ {0} /\ Len(u) \in Nat \ {0}
      /\ s[1] = a /\ s[Len(s)] = y /\ u[1] = b /\ u[Len(u)] = z
  BY DEF Runs
<1>2. /\ w \in Seq(Steps) /\ Len(w) = Len(s) + Len(u)
      /\ \A i \in 1..Len(s) : w[i] = s[i]
      /\ \A i \in (Len(s) + 1)..(Len(s) + Len(u)) : w[i] = u[i - Len(s)]
  BY <1>1, ConcatProperties
<1> HIDE DEF w
<1>3. w[1] = a /\ w[Len(w)] = z
  BY <1>1, <1>2, SMTT(60)
<1>4. ASSUME NEW i \in 1..(Len(w) - 1) PROVE Fits(w[i], w[i + 1])
  <2>1. CASE i < Len(s)
    <3>1. w[i] = s[i] /\ w[i + 1] = s[i + 1] /\ i \in 1..(Len(s) - 1)
      BY <1>1, <1>2, <2>1
    <3> QED BY <3>1 DEF Runs
  <2>2. CASE i = Len(s)
    BY <1>1, <1>2, <2>2, SMTT(60)
  <2>3. CASE i > Len(s)
    <3>1. /\ w[i] = u[i - Len(s)] /\ w[i + 1] = u[(i - Len(s)) + 1]
          /\ (i - Len(s)) \in 1..(Len(u) - 1)
      BY <1>1, <1>2, <2>3
    <3> QED BY <3>1 DEF Runs
  <2> QED BY <1>1, <2>1, <2>2, <2>3
<1>5. Runs(w, a, z)
  BY <1>1, <1>2, <1>3, <1>4 DEF Runs
<1> QED BY <1>5 DEF w

\* What is left of a list of steps when the first is taken.
LEMMA Taken ==
    ASSUME NEW s, InOrder(s), s # <<>>
    PROVE  /\ InOrder(Tail(s)) /\ s \in Seq(Steps) /\ Head(s) = s[1] /\ s[1] \in Steps
           /\ Fits(s[1], Now(Tail(s))) /\ Now(Tail(s)) \in Steps \cup {Rest}
           /\ s[1].do # "save account" => (Saves(s) <=> Saves(Tail(s)))
<1>1. PICK z \in Steps : Runs(s, s[1], z) /\ Fits(z, Rest) /\ s[1] \in Steps
  BY DEF InOrder, Runs
<1> DEFINE w == Tail(s)
<1>2. /\ s \in Seq(Steps) /\ Len(s) \in Nat \ {0} /\ w \in Seq(Steps)
      /\ Len(w) = Len(s) - 1 /\ Head(s) = s[1] /\ s[Len(s)] = z
  BY <1>1 DEF Runs
<1>3. \A i \in 1..Len(w) : w[i] = s[i + 1]
  BY <1>2
<1>4. \A i \in 1..(Len(s) - 1) : Fits(s[i], s[i + 1])
  BY <1>1 DEF Runs
<1> HIDE DEF w
<1>5. Saves(s) <=> s[1].do = "save account" \/ Saves(w)
  <2>1. ASSUME NEW i \in 1..Len(s), s[i].do = "save account", i # 1 PROVE Saves(w)
    <3> DEFINE n == Len(s)
    <3>0. i \in 1..n /\ i # 1 /\ n \in Nat /\ Len(w) = n - 1
      BY <1>2, <2>1
    <3> HIDE DEF n
    <3>1. i - 1 \in 1..Len(w) /\ (i - 1) + 1 = i
      BY ONLY <3>0
    <3>2. w[i - 1] = s[i]
      BY <1>3, <3>1
    <3> QED BY <2>1, <3>1, <3>2 DEF Saves
  <2>2. ASSUME NEW i \in 1..Len(w), w[i].do = "save account" PROVE Saves(s)
    <3>1. i + 1 \in 1..Len(s) /\ w[i] = s[i + 1]
      BY <1>2, <1>3
    <3> QED BY <2>2, <3>1 DEF Saves
  <2>3. 1 \in 1..Len(s)
    BY <1>2
  <2> QED BY <2>1, <2>2, <2>3 DEF Saves
<1>6. InOrder(w) /\ Fits(s[1], Now(w)) /\ Now(w) \in Steps \cup {Rest}
  <2>1. CASE Len(s) = 1
    <3>1. w = <<>> /\ Now(w) = Rest /\ z = s[1]
      BY <1>2, <2>1 DEF Now
    <3> QED BY <1>1, <3>1 DEF InOrder
  <2>2. CASE Len(s) > 1
    <3>1. 1 \in 1..(Len(s) - 1) /\ 1 \in 1..Len(w) /\ 1 + 1 = 2
      BY <1>2, <2>2
    <3>2. w # <<>> /\ Now(w) = s[2] /\ Fits(s[1], s[2]) /\ s[2] \in Steps
      BY <1>2, <1>3, <1>4, <3>1 DEF Now
    <3>3. ASSUME NEW i \in 1..(Len(w) - 1) PROVE Fits(w[i], w[i + 1])
      <4>1. i \in 1..Len(w) /\ i + 1 \in 1..Len(w) /\ i + 1 \in 1..(Len(s) - 1)
        BY <1>2
      <4> QED BY <1>3, <1>4, <4>1
    <3>4. w[1] = s[2] /\ w[Len(w)] = z
      <4>1. Len(w) \in 1..Len(w) /\ Len(w) + 1 = Len(s)
        BY <1>2, <2>2
      <4> QED BY <1>2, <1>3, <3>1, <4>1
    <3>5. Runs(w, s[2], z)
      <4>1. Len(w) > 0
        BY <1>2, <2>2
      <4> QED BY <1>2, <3>3, <3>4, <4>1 DEF Runs
    <3> QED BY ONLY <1>1, <3>2, <3>5 DEF InOrder
  <2> QED BY <1>2, <2>1, <2>2
<1> QED BY <1>1, <1>2, <1>5, <1>6 DEF w

\* Types, in parts: the files, the document, the page's copy, the rest.
FileOK ==
    /\ DOMAIN file = Accounts
    /\ \A a \in Accounts : Exists(a) =>
          /\ file[a].active \in DOMAIN file[a].tables /\ DOMAIN file[a].tables \subseteq Of(a)
          /\ Tabled(file[a].tables)

RootOK ==
    /\ DOMAIN root = {"acc", "active", "tables"} /\ root.acc \in Accounts
    /\ root.active \in DOMAIN root.tables /\ DOMAIN root.tables \subseteq Of(root.acc)
    /\ Tabled(root.tables)

FlatOK ==
    /\ DOMAIN flat = {"acc", "who", "table"} /\ flat.acc \in Accounts /\ flat.who \in Chars
    /\ flat.table \subseteq Edits \cup {Entries}

OwnerOK == owner \in [Edits -> Chars \cup {"none", "gone"}]
FlagsOK == config \in Accounts /\ shared \in BOOLEAN /\ held \in BOOLEAN

\* The three parts of TablesStayHome.
RootHome == \A c \in DOMAIN root.tables : root.tables[c] \cap Edits \subseteq OwnOf(c)
FlatHome == flat.table \cap Edits \subseteq OwnOf(flat.who)
FileHome == \A a \in Accounts : \A c \in DOMAIN file[a].tables :
                file[a].tables[c] \cap Edits \subseteq OwnOf(c)

Good ==
    /\ FileOK /\ RootOK /\ FlatOK /\ OwnerOK /\ FlagsOK
    /\ RootHome /\ FlatHome /\ FileHome /\ CredentialsBelong

InTable(e) ==
    /\ Exists(Home[owner[e]])
    /\ owner[e] \in DOMAIN file[Home[owner[e]]].tables
    /\ e \in file[Home[owner[e]]].tables[owner[e]]

\* When step x is next: the page shows the document's active character unless it is about to
\* be made anew, ...
PageShows(x) == x.do # "refresh" => flat.who = root.active /\ flat.acc = root.acc

\* ... with the same table, unless that is about to be saved, ...
PageAgrees(x) ==
    x.do \notin {"save account", "refresh"} =>
        root.tables[root.active] \ {Entries} = flat.table \ {Entries}

\* ... an edit is in the document, or in the page's table that is about to be saved, ...
DocHolds(x) ==
    \A e \in Edits : owner[e] \in Chars /\ Home[owner[e]] = root.acc =>
        /\ owner[e] \in DOMAIN root.tables
        /\ IF x.do = "save account" /\ owner[e] = root.active
           THEN e \in flat.table ELSE e \in root.tables[owner[e]]

\* ... and in its file, unless the document is about to be saved.
FileHolds(x) ==
    \A e \in Edits :
        /\ owner[e] \in Chars
        /\ x.do \in {"save account", "save root"} => Home[owner[e]] # root.acc
        => InTable(e)

\* What the first step of an operation takes for granted holds when it is next.
MayStart(x) ==
    /\ x.do \in {"edit active", "edit flat", "edit other", "look up", "write entry"} =>
          \E e \in Edits : owner[e] = "none"
    /\ x.do = "write entry" => held
    /\ x.do \in {"edit other", "delete character"} =>
          x.on \in DOMAIN root.tables /\ x.on # root.active
    /\ x.do = "add character" => x.on \in Of(root.acc) /\ x.on \notin DOMAIN root.tables
    /\ x.do = "new account" => x.on \in Chars /\ ~Exists(Home[x.on])

Data(x) == PageShows(x) /\ PageAgrees(x) /\ DocHolds(x) /\ FileHolds(x) /\ MayStart(x)

\* The file shows the document's active character, with the document's table.
Synced ==
    /\ file[root.acc].active = root.active
    /\ file[root.acc].tables[root.active] \ {Entries} = root.tables[root.active] \ {Entries}

SavedHere == saved \subseteq Edits /\ \A e \in saved : owner[e] \in Chars /\ InTable(e)

\* What a step leaves for the one that follows it.
Leaves(y) ==
    /\ Good' /\ Data(y)'
    /\ \A e \in saved : owner'[e] \in Chars => InTable(e)'

LEMMA EntriesAside == Entries \notin Edits
BY EditsAssumption DEF Entries, Edits

LEMMA NamesAside == "none" \notin Chars /\ "gone" \notin Chars
BY HomeAssumption

LEMMA MissingIsEmpty == ASSUME NEW a, ~Exists(a) PROVE DOMAIN file[a].tables = {}
BY DEF Exists, Missing

\* The edit that is made next is one, and in no table yet.
LEMMA FreshIsNew ==
    ASSUME Good, \E e \in Edits : owner[e] = "none"
    PROVE  /\ Fresh \in Edits /\ owner[Fresh] = "none" /\ Fresh \notin flat.table
           /\ \A c \in DOMAIN root.tables : Fresh \notin root.tables[c]
           /\ \A a \in Accounts : \A c \in DOMAIN file[a].tables : Fresh \notin file[a].tables[c]
<1>1. Fresh \in Edits /\ owner[Fresh] = "none"
  BY DEF Fresh
<1>2. ASSUME NEW c \in Chars PROVE Fresh \notin OwnOf(c)
  BY <1>1, NamesAside DEF OwnOf
<1>3. Fresh \notin flat.table
  BY <1>1, <1>2 DEF Good, FlatOK, FlatHome
<1>4. ASSUME NEW c \in DOMAIN root.tables PROVE Fresh \notin root.tables[c]
  BY <1>1, <1>2 DEF Good, RootOK, RootHome, Of
<1>5. ASSUME NEW a \in Accounts, NEW c \in DOMAIN file[a].tables
      PROVE  Fresh \notin file[a].tables[c]
  <2>1. CASE Exists(a)
    BY <1>1, <1>2, <2>1 DEF Good, FileOK, FileHome, Of
  <2>2. CASE ~Exists(a)
    BY <2>2, MissingIsEmpty
  <2> QED BY <2>1, <2>2
<1> QED BY <1>1, <1>3, <1>4, <1>5

\* What is in memory of an account when it has been read.
LEMMA ReadIsSound ==
    ASSUME Good, NEW a \in Accounts
    PROVE  /\ Read(a).active \in DOMAIN Read(a).tables /\ DOMAIN Read(a).tables \subseteq Of(a)
           /\ Tabled(Read(a).tables) /\ Read(a) # Missing
           /\ \A c \in DOMAIN Read(a).tables : Read(a).tables[c] \cap Edits \subseteq OwnOf(c)
<1>1. CASE Exists(a)
  BY <1>1 DEF Read, Good, FileOK, FileHome, Exists
<1>2. CASE ~Exists(a)
  <2>1. PICK c \in Of(a) : Read(a) = NewFile(c)
    <3>1. \E c \in Of(a) : TRUE
      BY DEF Of, Accounts
    <3> QED BY <1>2, <3>1 DEF Read
  <2>2. Read(a).active = c /\ DOMAIN Read(a).tables = {c} /\ Read(a).tables[c] = {}
    BY <2>1 DEF NewFile
  <2>3. Read(a) # Missing
    BY <2>1, <2>2, NamesAside DEF Missing, Of
  <2> QED BY <2>2, <2>3 DEF Tabled
<1> QED BY <1>1, <1>2

LEMMA PreparedIs ==
    ASSUME RootOK
    PROVE  /\ Prepared = [root.tables EXCEPT ![root.active] = flat.table]
           /\ DOMAIN Prepared = DOMAIN root.tables
           /\ Prepared[root.active] = flat.table
           /\ \A c \in DOMAIN root.tables \ {root.active} : Prepared[c] = root.tables[c]
BY DEF RootOK, Prepared

-----------------------------------------------------------------------------
(* One lemma for each step.                                                *)

\* The document, as it is then, goes to its file.
LEMMA RootIsWritten ==
    ASSUME Good, RootOK', RootHome', owner' = owner,
           file' = [file EXCEPT ![root'.acc] = [active |-> root'.active, tables |-> root'.tables]],
           \A e \in Edits : owner[e] \in Chars =>
               IF Home[owner[e]] = root'.acc
               THEN owner[e] \in DOMAIN root'.tables /\ e \in root'.tables[owner[e]]
               ELSE InTable(e)
    PROVE  /\ FileOK' /\ FileHome' /\ Synced'
           /\ \A e \in Edits : owner[e] \in Chars => InTable(e)'
<1>1. /\ DOMAIN file' = Accounts /\ root'.acc \in Accounts
      /\ file'[root'.acc].active = root'.active /\ file'[root'.acc].tables = root'.tables
      /\ file'[root'.acc] # Missing
      /\ \A a \in Accounts \ {root'.acc} : file'[a] = file[a]
  BY NamesAside DEF Good, FileOK, RootOK, Missing, Of
<1>2. FileOK'
  <2> SUFFICES ASSUME NEW a \in Accounts, Exists(a)'
               PROVE  /\ file'[a].active \in DOMAIN file'[a].tables
                      /\ DOMAIN file'[a].tables \subseteq Of(a) /\ Tabled(file'[a].tables)
    BY <1>1 DEF FileOK
  <2>1. CASE a = root'.acc
    BY <1>1, <2>1 DEF RootOK
  <2>2. CASE a # root'.acc
    BY <1>1, <2>2 DEF Good, FileOK, Exists
  <2> QED BY <2>1, <2>2
<1>3. \A c : OwnOf(c)' = OwnOf(c)
  BY DEF OwnOf
<1>4. FileHome'
  <2> SUFFICES ASSUME NEW a \in Accounts, NEW c \in DOMAIN file'[a].tables
               PROVE  file'[a].tables[c] \cap Edits \subseteq OwnOf(c)
    BY <1>3 DEF FileHome
  <2>1. CASE a = root'.acc
    BY <1>1, <1>3, <2>1 DEF RootHome
  <2>2. CASE a # root'.acc
    BY <1>1, <2>2 DEF Good, FileHome
  <2> QED BY <2>1, <2>2
<1>5. ASSUME NEW e \in Edits, owner[e] \in Chars PROVE InTable(e)'
  <2>1. CASE Home[owner[e]] = root'.acc
    <3>1. owner[e] \in DOMAIN root'.tables /\ e \in root'.tables[owner[e]]
      BY <1>5, <2>1
    <3>2. /\ file'[Home[owner[e]]] # Missing
          /\ file'[Home[owner[e]]].tables = root'.tables
      BY <1>1, <2>1
    <3> QED BY <3>1, <3>2 DEF InTable, Exists
  <2>2. CASE Home[owner[e]] # root'.acc
    <3>1. InTable(e) /\ Home[owner[e]] \in Accounts
      BY <1>5, <2>2 DEF Accounts
    <3> QED BY <1>1, <2>2, <3>1 DEF InTable, Exists
  <2> QED BY <2>1, <2>2
<1>6. Synced'
  BY <1>1 DEF Synced
<1> QED BY <1>2, <1>4, <1>5, <1>6

LEMMA SaveAccountLeaves ==
    ASSUME Good, NEW x \in Steps, NEW y \in Steps \cup {Rest}, Data(x), SavedHere, Fits(x, y),
           x.do = "save account", SaveAccount
    PROVE  Leaves(y) /\ Synced'
<1> USE DEF Good
<1>1. /\ root' = [root EXCEPT !.tables = Prepared]
      /\ file' = [file EXCEPT ![root.acc] = [active |-> root.active, tables |-> Prepared]]
      /\ shared' = FALSE /\ UNCHANGED <<config, flat, creds, held, owner>>
  BY DEF SaveAccount
<1>2. /\ DOMAIN root' = {"acc", "active", "tables"} /\ root'.acc = root.acc
      /\ root'.active = root.active /\ root'.tables = Prepared
  BY <1>1 DEF RootOK
<1>4. /\ DOMAIN Prepared = DOMAIN root.tables /\ Prepared[root.active] = flat.table
      /\ \A c \in DOMAIN root.tables \ {root.active} : Prepared[c] = root.tables[c]
  BY PreparedIs
<1>5. flat.who = root.active /\ flat.acc = root.acc
  BY DEF Data, PageShows
<1> HIDE DEF Prepared
<1>6. Tabled(Prepared)
  BY <1>4 DEF Tabled, RootOK, FlatOK
<1>7. \A c \in DOMAIN Prepared : Prepared[c] \cap Edits \subseteq OwnOf(c)
  BY <1>4, <1>5 DEF RootHome, FlatHome, RootOK
<1>8. \A c : OwnOf(c)' = OwnOf(c)
  BY <1>1 DEF OwnOf
<1>10. RootOK'
  BY <1>2, <1>4, <1>6 DEF RootOK
<1>11. FlatOK' /\ OwnerOK' /\ FlagsOK' /\ CredentialsBelong' /\ FlatHome'
  BY <1>1, <1>2, <1>8 DEF FlatOK, OwnerOK, FlagsOK, CredentialsBelong, FlatHome
<1>12. RootHome'
  BY <1>2, <1>7, <1>8 DEF RootHome
<1>14. DocHolds(y)'
  <2> SUFFICES ASSUME NEW e \in Edits, owner[e] \in Chars, Home[owner[e]] = root.acc
               PROVE  owner[e] \in DOMAIN Prepared /\ e \in Prepared[owner[e]]
                      /\ (owner[e] = root.active => e \in flat.table)
    BY <1>1, <1>2 DEF DocHolds
  <2> QED BY <1>4 DEF Data, DocHolds
<1>15. /\ FileOK' /\ FileHome' /\ Synced'
       /\ \A e \in Edits : owner[e] \in Chars => InTable(e)'
  <2>1. ASSUME NEW e \in Edits, owner[e] \in Chars
        PROVE  IF Home[owner[e]] = root.acc
               THEN owner[e] \in DOMAIN Prepared /\ e \in Prepared[owner[e]]
               ELSE InTable(e)
    BY <1>4, <2>1 DEF Data, DocHolds, FileHolds
  <2> QED BY <1>1, <1>2, <1>10, <1>12, <2>1, RootIsWritten
<1>16. FileHolds(y)'
  BY <1>1, <1>15 DEF FileHolds
<1>17. PageShows(y)' /\ PageAgrees(y)'
  BY <1>1, <1>2, <1>4, <1>5 DEF PageShows, PageAgrees
<1>18. MayStart(y)'
  BY DEF Fits, MayStart, Firsts
<1> QED BY <1>1, <1>10, <1>11, <1>12, <1>14, <1>15, <1>16, <1>17, <1>18
        DEF Leaves, Data, SavedHere

LEMMA SaveConfigLeaves ==
    ASSUME Good, NEW x \in Steps, NEW y \in Steps \cup {Rest}, Data(x), SavedHere, Fits(x, y),
           x.do = "save config", SaveConfig
    PROVE  Leaves(y) /\ (Synced => Synced')
<1>1. config' = flat.acc /\ UNCHANGED <<file, root, flat, shared, creds, held, owner>>
  BY DEF SaveConfig, memory
<1>2. Good'
  BY <1>1 DEF Good, FileOK, RootOK, FlatOK, OwnerOK, FlagsOK, RootHome, FlatHome, FileHome,
       CredentialsBelong, OwnOf, Exists
<1>3. \A e : InTable(e)' <=> InTable(e)
  BY <1>1 DEF InTable, Exists
<1>4. PageShows(y)' /\ PageAgrees(y)' /\ DocHolds(y)' /\ FileHolds(y)'
  <2>1. PageShows(y)' /\ PageAgrees(y)'
    BY <1>1 DEF Data, PageShows, PageAgrees
  <2>2. DocHolds(y)'
    <3>1. ASSUME NEW e \in Edits, owner[e] \in Chars, Home[owner[e]] = root.acc
          PROVE  /\ owner[e] \in DOMAIN root.tables /\ e \in root.tables[owner[e]]
                 /\ owner[e] = root.active => e \in flat.table
      BY <3>1, EntriesAside DEF Data, DocHolds, PageAgrees
    <3> QED BY <1>1, <3>1 DEF DocHolds
  <2>3. FileHolds(y)'
    BY <1>1, <1>3 DEF Data, FileHolds
  <2> QED BY <2>1, <2>2, <2>3
<1>5. MayStart(y)'
  BY DEF Fits, MayStart, Firsts
<1>6. Synced => Synced'
  BY <1>1 DEF Synced
<1> QED BY <1>1, <1>2, <1>3, <1>4, <1>5, <1>6 DEF Leaves, Data, SavedHere

LEMMA SaveRootLeaves ==
    ASSUME Good, NEW x \in Steps, NEW y \in Steps \cup {Rest}, Data(x), SavedHere, Fits(x, y),
           x.do = "save root", SaveRoot
    PROVE  Leaves(y) /\ Synced'
<1>1. /\ file' = [file EXCEPT ![root.acc] = [active |-> root.active, tables |-> root.tables]]
      /\ UNCHANGED <<config, root, flat, shared, creds, held, owner>>
  BY DEF SaveRoot, memory
<1>2. /\ FileOK' /\ FileHome' /\ Synced'
      /\ \A e \in Edits : owner[e] \in Chars => InTable(e)'
  <2>1. RootOK' /\ RootHome'
    BY <1>1 DEF Good, RootOK, RootHome, OwnOf
  <2>2. ASSUME NEW e \in Edits, owner[e] \in Chars
        PROVE  IF Home[owner[e]] = root.acc
               THEN owner[e] \in DOMAIN root.tables /\ e \in root.tables[owner[e]]
               ELSE InTable(e)
    BY <2>2 DEF Data, DocHolds, FileHolds
  <2> QED BY <1>1, <2>1, <2>2, RootIsWritten
<1>3. RootOK' /\ FlatOK' /\ OwnerOK' /\ FlagsOK' /\ RootHome' /\ FlatHome' /\ CredentialsBelong'
  BY <1>1 DEF Good, RootOK, FlatOK, OwnerOK, FlagsOK, RootHome, FlatHome, CredentialsBelong, OwnOf
<1>4. PageShows(y)' /\ PageAgrees(y)'
  BY <1>1 DEF Data, PageShows, PageAgrees
<1>5. DocHolds(y)'
  <2>1. ASSUME NEW e \in Edits, owner[e] \in Chars, Home[owner[e]] = root.acc
        PROVE  /\ owner[e] \in DOMAIN root.tables /\ e \in root.tables[owner[e]]
               /\ owner[e] = root.active => e \in flat.table
    BY <2>1, EntriesAside DEF Data, DocHolds, PageAgrees
  <2> QED BY <1>1, <2>1 DEF DocHolds
<1>6. FileHolds(y)'
  BY <1>1, <1>2 DEF FileHolds
<1>7. MayStart(y)'
  BY DEF Fits, MayStart, Firsts
<1> QED BY <1>1, <1>2, <1>3, <1>4, <1>5, <1>6, <1>7 DEF Good, Leaves, Data, SavedHere

LEMMA SetActiveLeaves ==
    ASSUME Good, NEW x \in Steps, NEW y \in Steps \cup {Rest}, Data(x), SavedHere, Fits(x, y),
           x.do = "set active", Known(x), SetActive(x.on)
    PROVE  Leaves(y)
<1>1. /\ root' = [root EXCEPT !.active = x.on] /\ x.on \in DOMAIN root.tables
      /\ shared' = (shared /\ x.on = root.active)
      /\ UNCHANGED <<config, file, flat, creds, held, owner>>
  BY DEF SetActive, Known, disk
<1>2. /\ DOMAIN root' = {"acc", "active", "tables"} /\ root'.acc = root.acc
      /\ root'.active = x.on /\ root'.tables = root.tables
  BY <1>1 DEF Good, RootOK
<1>3. RootOK' /\ RootHome' /\ CredentialsBelong'
  BY <1>1, <1>2 DEF Good, RootOK, RootHome, OwnOf, CredentialsBelong
<1>4. FileOK' /\ FileHome' /\ FlatOK' /\ FlatHome' /\ OwnerOK' /\ FlagsOK'
  BY <1>1 DEF Good, FileOK, FileHome, FlatOK, FlatHome, OwnerOK, FlagsOK, OwnOf, Exists
<1>5. \A e : InTable(e)' <=> InTable(e)
  BY <1>1 DEF InTable, Exists
<1>6. y.do = "refresh"
  BY DEF Fits, Changers
<1>7. PageShows(y)' /\ PageAgrees(y)' /\ MayStart(y)'
  BY <1>6 DEF PageShows, PageAgrees, MayStart
<1>8. DocHolds(y)'
  BY <1>1, <1>2, <1>6 DEF Data, DocHolds
<1>9. FileHolds(y)'
  BY <1>1, <1>5 DEF Data, FileHolds
<1> QED BY <1>1, <1>3, <1>4, <1>5, <1>7, <1>8, <1>9 DEF Good, Leaves, Data, SavedHere

LEMMA LookUpLeaves ==
    ASSUME Good, NEW x \in Steps, NEW y \in Steps \cup {Rest}, Data(x), SavedHere, Fits(x, y),
           x.do = "look up", LookUp
    PROVE  Leaves(y) /\ (Synced => Synced')
<1>1. held' = TRUE /\ UNCHANGED <<config, file, root, flat, shared, creds, owner>>
  BY DEF LookUp, disk, memory
<1>2. Good'
  BY <1>1 DEF Good, FileOK, RootOK, FlatOK, OwnerOK, FlagsOK, RootHome, FlatHome, FileHome,
       CredentialsBelong, OwnOf, Exists
<1>3. \A e : InTable(e)' <=> InTable(e)
  BY <1>1 DEF InTable, Exists
<1>4. y.do = "write entry"
  BY DEF Fits
<1>5. PageShows(y)' /\ PageAgrees(y)' /\ DocHolds(y)' /\ FileHolds(y)' /\ MayStart(y)'
  BY <1>1, <1>3, <1>4 DEF Data, PageShows, PageAgrees, DocHolds, FileHolds, MayStart
<1>6. Synced => Synced'
  BY <1>1 DEF Synced
<1> QED BY <1>1, <1>2, <1>3, <1>5, <1>6 DEF Leaves, Data, SavedHere

\* An account is read from its file.  Nothing was to be saved; edits may be given up with it.
LEMMA ReadIn ==
    ASSUME Good, NEW a \in Accounts, root' = Loaded(a), Written(a), OwnerOK',
           \A e \in Edits : owner'[e] = owner[e] \/ owner'[e] = "gone",
           \A e \in Edits : owner'[e] \in Chars => InTable(e)
    PROVE  /\ FileOK' /\ RootOK' /\ RootHome' /\ FileHome' /\ Synced'
           /\ root'.acc = a /\ root'.active \in Chars
           /\ \A e \in Edits : owner'[e] \in Chars =>
                 /\ InTable(e)'
                 /\ Home[owner[e]] = a => owner[e] \in DOMAIN root'.tables
                                          /\ e \in root'.tables[owner[e]]
<1> USE DEF Good
<1> DEFINE read == Read(a)
<1>1. /\ read.active \in DOMAIN read.tables /\ DOMAIN read.tables \subseteq Of(a)
      /\ Tabled(read.tables) /\ read # Missing
      /\ \A c \in DOMAIN read.tables : read.tables[c] \cap Edits \subseteq OwnOf(c)
  BY ReadIsSound
<1>2. /\ DOMAIN file' = Accounts /\ file'[a] = read
      /\ \A b \in Accounts \ {a} : file'[b] = file[b]
  BY DEF Written, FileOK
<1>3. /\ DOMAIN root' = {"acc", "active", "tables"} /\ root'.acc = a
      /\ root'.active = read.active /\ root'.tables = read.tables
  BY DEF Loaded
<1>4. Exists(a) => read = file[a]
  BY DEF Read
<1> HIDE DEF read
<1>5. \A c \in Chars : OwnOf(c) \subseteq OwnOf(c)'
  BY DEF OwnOf
<1>6. FileOK'
  <2> SUFFICES ASSUME NEW b \in Accounts, Exists(b)'
               PROVE  /\ file'[b].active \in DOMAIN file'[b].tables
                      /\ DOMAIN file'[b].tables \subseteq Of(b) /\ Tabled(file'[b].tables)
    BY <1>2 DEF FileOK
  <2>1. CASE b = a
    BY <1>1, <1>2, <2>1
  <2>2. CASE b # a
    BY <1>2, <2>2 DEF FileOK, Exists
  <2> QED BY <2>1, <2>2
<1>7. RootOK'
  BY <1>1, <1>3 DEF RootOK
<1>8. RootHome' /\ root'.active \in Chars
  BY <1>1, <1>3, <1>5 DEF RootHome, Of
<1>9. FileHome'
  <2> SUFFICES ASSUME NEW b \in Accounts, NEW c \in DOMAIN file'[b].tables
               PROVE  file'[b].tables[c] \cap Edits \subseteq OwnOf(c)'
    BY DEF FileHome
  <2>1. CASE b = a
    BY <1>1, <1>2, <1>5, <2>1 DEF Of
  <2>2. CASE b # a /\ Exists(b)
    BY <1>2, <1>5, <2>2 DEF FileHome, FileOK, Of
  <2>3. CASE b # a /\ ~Exists(b)
    BY <1>2, <2>3, MissingIsEmpty
  <2> QED BY <2>1, <2>2, <2>3
<1>10. Synced'
  BY <1>2, <1>3 DEF Synced
<1>11. ASSUME NEW e \in Edits, owner'[e] \in Chars
       PROVE  /\ InTable(e)'
              /\ Home[owner[e]] = a => owner[e] \in DOMAIN root'.tables
                                       /\ e \in root'.tables[owner[e]]
  <2>1. InTable(e) /\ owner'[e] = owner[e] /\ Home[owner[e]] \in Accounts
    BY <1>11, NamesAside DEF Accounts
  <2>2. CASE Home[owner[e]] = a
    <3>1. Exists(a) /\ owner[e] \in DOMAIN file[a].tables /\ e \in file[a].tables[owner[e]]
      BY <2>1, <2>2 DEF InTable
    <3>2. read = file[a]
      BY <1>4, <3>1
    <3>3. file'[Home[owner[e]]] = file[Home[owner[e]]]
      BY <1>2, <2>2, <3>2
    <3> QED BY <1>3, <2>1, <3>1, <3>2, <3>3 DEF InTable, Exists
  <2>3. CASE Home[owner[e]] # a
    BY <1>2, <2>1, <2>3 DEF InTable, Exists
  <2> QED BY <2>2, <2>3
<1> QED BY <1>3, <1>6, <1>7, <1>8, <1>9, <1>10, <1>11

LEMMA ReadLeaves ==
    ASSUME Good, NEW x \in Steps, NEW y \in Steps \cup {Rest}, Data(x), SavedHere, Fits(x, y),
           (x.do = "load" /\ Load(x.on)) \/ (x.do = "reload" /\ Reload)
    PROVE  Leaves(y) /\ Synced'
<1>1. PICK a \in Accounts : /\ root' = Loaded(a) /\ Written(a) /\ creds' \in {"none", a}
                            /\ shared' = FALSE /\ UNCHANGED <<config, flat, held, owner>>
  <2>1. CASE x.do = "load" /\ Load(x.on)
    <3>1. x.on \in Accounts
      BY <2>1 DEF Steps
    <3> QED BY <2>1, <3>1 DEF Load
  <2>2. CASE x.do = "reload" /\ Reload
    <3>1. creds \in {"none", flat.acc}
      BY <2>2 DEF Good, CredentialsBelong, Data, PageShows
    <3>2. config \in Accounts /\ creds' \in {"none", config}
      BY <2>2, <3>1 DEF Reload, Good, FlagsOK
    <3> QED BY <2>2, <3>2 DEF Reload
  <2> QED BY <2>1, <2>2
<1>2. OwnerOK'
  BY <1>1 DEF Good, OwnerOK
<1>3. \A e \in Edits : owner'[e] \in Chars => InTable(e)
  BY <1>1 DEF Data, FileHolds
<1>4. /\ FileOK' /\ RootOK' /\ RootHome' /\ FileHome' /\ Synced' /\ root'.acc = a
      /\ \A e \in Edits : owner[e] \in Chars =>
            /\ InTable(e)'
            /\ Home[owner[e]] = a => owner[e] \in DOMAIN root'.tables
                                     /\ e \in root'.tables[owner[e]]
  BY <1>1, <1>2, <1>3, ReadIn
<1>5. FlatOK' /\ FlagsOK' /\ FlatHome' /\ CredentialsBelong'
  BY <1>1, <1>4 DEF Good, FlatOK, FlagsOK, FlatHome, CredentialsBelong, OwnOf
<1>6. y.do = "refresh"
  BY DEF Fits, Changers
<1>7. PageShows(y)' /\ PageAgrees(y)' /\ MayStart(y)'
  BY <1>6 DEF PageShows, PageAgrees, MayStart
<1>8. DocHolds(y)' /\ FileHolds(y)'
  BY <1>1, <1>4, <1>6 DEF DocHolds, FileHolds
<1> QED BY <1>1, <1>2, <1>4, <1>5, <1>7, <1>8 DEF Good, Leaves, Data, SavedHere

LEMMA RefreshLeaves ==
    ASSUME Good, NEW x \in Steps, NEW y \in Steps \cup {Rest}, Data(x), SavedHere, Fits(x, y),
           x.do = "refresh", Refresh
    PROVE  Leaves(y) /\ (Synced => Synced')
<1>1. /\ flat' = [acc |-> root.acc, who |-> root.active, table |-> root.tables[root.active]]
      /\ shared' = TRUE /\ held' = FALSE /\ UNCHANGED <<config, file, root, creds, owner>>
  BY DEF Refresh, disk, Shown
<1>2. /\ DOMAIN flat' = {"acc", "who", "table"} /\ flat'.acc = root.acc
      /\ flat'.who = root.active /\ flat'.table = root.tables[root.active]
  BY <1>1
<1>3. FlatOK' /\ FlatHome'
  BY <1>1, <1>2 DEF Good, RootOK, RootHome, Of, Tabled, FlatOK, FlatHome, OwnOf
<1>4. /\ FileOK' /\ FileHome' /\ RootOK' /\ RootHome' /\ OwnerOK' /\ FlagsOK'
      /\ CredentialsBelong'
  BY <1>1 DEF Good, FileOK, FileHome, RootOK, RootHome, OwnerOK, FlagsOK, OwnOf, Exists,
       CredentialsBelong
<1>5. \A e : InTable(e)' <=> InTable(e)
  BY <1>1 DEF InTable, Exists
<1>6. PageShows(y)' /\ PageAgrees(y)'
  BY <1>1, <1>2 DEF PageShows, PageAgrees
<1>7. DocHolds(y)' /\ FileHolds(y)'
  BY <1>1, <1>2, <1>5 DEF Data, DocHolds, FileHolds
<1>8. MayStart(y)'
  BY DEF Fits, MayStart, Firsts
<1>9. Synced => Synced'
  BY <1>1 DEF Synced
<1> QED BY <1>1, <1>3, <1>4, <1>5, <1>6, <1>7, <1>8, <1>9 DEF Good, Leaves, Data, SavedHere

\* An edit that is made is its character's; the others stay whose they are, and the files
\* have it not.
LEMMA MineIs ==
    ASSUME Good, \E e \in Edits : owner[e] = "none", NEW c \in Chars, Mine(c), file' = file
    PROVE  /\ OwnerOK' /\ FileOK' /\ FileHome'
           /\ Fresh \in Edits /\ owner'[Fresh] = c
           /\ \A e \in Edits \ {Fresh} : owner'[e] = owner[e]
           /\ \A d \in Chars : OwnOf(d) \subseteq OwnOf(d)'
           /\ Fresh \in OwnOf(c)'
           /\ \A e \in Edits : owner[e] \in Chars => owner'[e] = owner[e] /\ e # Fresh
           /\ \A e \in Edits : owner'[e] = owner[e] => (InTable(e)' <=> InTable(e))
<1>1. Fresh \in Edits /\ owner[Fresh] = "none"
  BY FreshIsNew
<1>2. /\ owner'[Fresh] = c /\ owner' \in [Edits -> Chars \cup {"none", "gone"}]
      /\ \A e \in Edits \ {Fresh} : owner'[e] = owner[e]
  BY <1>1 DEF Mine, Good, OwnerOK
<1>3. \A d \in Chars : OwnOf(d) \subseteq OwnOf(d)'
  BY <1>1, <1>2, NamesAside DEF OwnOf
<1>4. Fresh \in OwnOf(c)'
  BY <1>1, <1>2 DEF OwnOf
<1>5. \A e \in Edits : owner[e] \in Chars => owner'[e] = owner[e] /\ e # Fresh
  BY <1>1, <1>2, NamesAside
<1>6. FileOK'
  BY DEF Good, FileOK, Exists
<1>7. FileHome'
  <2> SUFFICES ASSUME NEW b \in Accounts, NEW d \in DOMAIN file[b].tables
               PROVE  file[b].tables[d] \cap Edits \subseteq OwnOf(d)'
    BY DEF FileHome
  <2>1. CASE Exists(b)
    BY <1>3, <2>1 DEF Good, FileHome, FileOK, Of
  <2>2. CASE ~Exists(b)
    BY <2>2, MissingIsEmpty
  <2> QED BY <2>1, <2>2
<1>8. \A e \in Edits : owner'[e] = owner[e] => (InTable(e)' <=> InTable(e))
  BY DEF InTable, Exists
<1> QED BY <1>1, <1>2, <1>3, <1>4, <1>5, <1>6, <1>7, <1>8 DEF OwnerOK

LEMMA EditOtherLeaves ==
    ASSUME Good, NEW x \in Steps, NEW y \in Steps \cup {Rest}, Data(x), SavedHere, Fits(x, y),
           x.do = "edit other", EditOther(x.on)
    PROVE  Leaves(y) /\ (Synced => Synced')
<1> DEFINE c == x.on
<1>1. /\ c \in DOMAIN root.tables /\ c # root.active /\ c \in Chars
      /\ \E e \in Edits : owner[e] = "none"
  BY DEF Data, MayStart, Good, RootOK, Of
<1>2. /\ Mine(c) /\ root' = [root EXCEPT !.tables[c] = @ \cup {Fresh}]
      /\ UNCHANGED <<config, file, flat, shared, creds, held>>
  BY DEF EditOther, disk
<1> HIDE DEF c
<1>3. /\ OwnerOK' /\ FileOK' /\ FileHome' /\ Fresh \in Edits /\ owner'[Fresh] = c
      /\ \A e \in Edits \ {Fresh} : owner'[e] = owner[e]
      /\ \A d \in Chars : OwnOf(d) \subseteq OwnOf(d)'
      /\ Fresh \in OwnOf(c)'
      /\ \A e \in Edits : owner[e] \in Chars => owner'[e] = owner[e] /\ e # Fresh
      /\ \A e \in Edits : owner'[e] = owner[e] => (InTable(e)' <=> InTable(e))
  BY <1>1, <1>2, MineIs
<1>4. /\ DOMAIN root' = {"acc", "active", "tables"} /\ root'.acc = root.acc
      /\ root'.active = root.active
      /\ root'.tables = [root.tables EXCEPT ![c] = root.tables[c] \cup {Fresh}]
  BY <1>1, <1>2 DEF Good, RootOK
<1>5. /\ DOMAIN root'.tables = DOMAIN root.tables /\ root'.tables[c] = root.tables[c] \cup {Fresh}
      /\ \A d \in DOMAIN root.tables \ {c} : root'.tables[d] = root.tables[d]
  BY <1>1, <1>4
<1>6. RootOK'
  <2>1. Tabled(root'.tables)
    BY <1>1, <1>3, <1>5, ZenonT(120) DEF Good, RootOK, Tabled
  <2> QED BY <1>1, <1>4, <1>5, <2>1 DEF Good, RootOK
<1>7. RootHome'
  <2> SUFFICES ASSUME NEW d \in DOMAIN root.tables
               PROVE  root'.tables[d] \cap Edits \subseteq OwnOf(d)'
    BY <1>5 DEF RootHome
  <2>1. d \in Chars /\ root.tables[d] \cap Edits \subseteq OwnOf(d)
    BY DEF Good, RootOK, RootHome, Of
  <2> QED BY <1>3, <1>5, <2>1
<1>8. FlatOK' /\ FlatHome' /\ FlagsOK' /\ CredentialsBelong'
  BY <1>2, <1>3, <1>4 DEF Good, FlatOK, FlatHome, FlagsOK, CredentialsBelong
<1>9. y.do = "save root"
  BY DEF Fits
<1>10. PageShows(y)' /\ PageAgrees(y)'
  BY <1>1, <1>2, <1>4, <1>5 DEF Data, PageShows, PageAgrees, Good, RootOK
<1>11. DocHolds(y)'
  <2> SUFFICES ASSUME NEW e \in Edits, owner'[e] \in Chars, Home[owner'[e]] = root.acc
               PROVE  owner'[e] \in DOMAIN root.tables /\ e \in root'.tables[owner'[e]]
    BY <1>4, <1>5, <1>9 DEF DocHolds
  <2>1. CASE e = Fresh
    BY <1>1, <1>3, <1>5, <2>1
  <2>2. CASE e # Fresh
    <3>1. owner'[e] = owner[e]
      BY <1>3, <2>2
    <3>2. owner[e] \in DOMAIN root.tables /\ e \in root.tables[owner[e]]
      BY <3>1 DEF Data, DocHolds
    <3>3. root.tables[owner[e]] \subseteq root'.tables[owner[e]]
      BY <1>5, <3>2
    <3> QED BY <3>1, <3>2, <3>3
  <2> QED BY <2>1, <2>2
<1>12. FileHolds(y)'
  <2> SUFFICES ASSUME NEW e \in Edits, owner'[e] \in Chars, Home[owner'[e]] # root.acc
               PROVE  InTable(e)'
    BY <1>4, <1>9 DEF FileHolds
  <2>1. e # Fresh
    BY <1>1, <1>3 DEF Good, RootOK, Of
  <2> QED BY <1>3, <2>1 DEF Data, FileHolds
<1>13. MayStart(y)'
  BY <1>9 DEF MayStart
<1>14. \A e \in saved : owner'[e] \in Chars => InTable(e)'
  BY <1>3 DEF SavedHere
<1>15. Synced => Synced'
  BY <1>1, <1>2, <1>4, <1>5 DEF Synced, Good, RootOK
<1> QED BY <1>3, <1>6, <1>7, <1>8, <1>10, <1>11, <1>12, <1>13, <1>14, <1>15 DEF Good, Leaves, Data

\* The steps that edit the active character's table: in the page's, perhaps in the document's.
LEMMA ActiveIsEdited ==
    ASSUME Good, NEW x \in Steps, NEW y \in Steps \cup {Rest}, Data(x), SavedHere, Fits(x, y),
           x.do \in Editors, Mine(root.active), NEW new,
           new \ {Fresh} = flat.table \/ new \ {Fresh} = root.tables[root.active],
           new \subseteq Edits \cup {Entries}, Fresh \in new,
           flat' = [flat EXCEPT !.table = new],
           \/ root' = root
           \/ root' = [root EXCEPT !.tables[root.active] = @ \cup {Fresh}],
           shared' \in BOOLEAN, held' \in BOOLEAN, UNCHANGED <<config, file, creds>>
    PROVE  Leaves(y)
<1>0. PICK c : c = root.active
  OBVIOUS
<1>1. /\ c \in DOMAIN root.tables /\ c \in Chars /\ flat.who = c /\ flat.acc = root.acc
      /\ \E e \in Edits : owner[e] = "none"
      /\ root.tables[c] \ {Entries} = flat.table \ {Entries}
  BY <1>0 DEF Data, MayStart, PageShows, PageAgrees, Good, RootOK, Of, Editors
<1>2. /\ OwnerOK' /\ FileOK' /\ FileHome' /\ Fresh \in Edits /\ owner'[Fresh] = c
      /\ \A e \in Edits \ {Fresh} : owner'[e] = owner[e]
      /\ \A d \in Chars : OwnOf(d) \subseteq OwnOf(d)'
      /\ Fresh \in OwnOf(c)'
      /\ \A e \in Edits : owner[e] \in Chars => owner'[e] = owner[e] /\ e # Fresh
      /\ \A e \in Edits : owner'[e] = owner[e] => (InTable(e)' <=> InTable(e))
  <2>1. Mine(c) /\ file' = file
    BY <1>0
  <2> QED BY <1>1, <2>1, MineIs
<1>3. /\ DOMAIN root' = {"acc", "active", "tables"} /\ root'.acc = root.acc
      /\ root'.active = c
      /\ root'.tables = root.tables
         \/ root'.tables = [root.tables EXCEPT ![c] = root.tables[c] \cup {Fresh}]
  BY <1>0, <1>1 DEF Good, RootOK
<1>4. /\ DOMAIN root'.tables = DOMAIN root.tables
      /\ root'.tables[c] = root.tables[c] \/ root'.tables[c] = root.tables[c] \cup {Fresh}
      /\ \A d \in DOMAIN root.tables \ {c} : root'.tables[d] = root.tables[d]
  BY <1>1, <1>3
<1>5. RootOK'
  BY <1>1, <1>2, <1>3, <1>4 DEF Good, RootOK, Tabled
<1>6. RootHome'
  <2> SUFFICES ASSUME NEW d \in DOMAIN root.tables
               PROVE  root'.tables[d] \cap Edits \subseteq OwnOf(d)'
    BY <1>4 DEF RootHome
  <2>1. d \in Chars /\ root.tables[d] \cap Edits \subseteq OwnOf(d)
    BY DEF Good, RootOK, RootHome, Of
  <2>2. CASE d = c
    BY <1>2, <1>4, <2>1, <2>2
  <2>3. CASE d # c
    BY <1>2, <1>4, <2>1, <2>3
  <2> QED BY <2>2, <2>3
<1>7. /\ DOMAIN flat' = {"acc", "who", "table"}
      /\ flat'.acc = flat.acc /\ flat'.who = c /\ flat'.table = new
  BY <1>1 DEF Good, FlatOK
<1>8. FlatOK' /\ FlagsOK' /\ CredentialsBelong'
  BY <1>3, <1>7, <1>1 DEF Good, FlatOK, FlagsOK, CredentialsBelong
<1>9. \A e \in Edits : owner[e] = c => (e \in new <=> e \in flat.table)
  BY <1>0, <1>1, <1>2, EntriesAside
<1>10. FlatHome'
  <2>1. root.tables[c] \cap Edits \subseteq OwnOf(c) /\ flat.table \cap Edits \subseteq OwnOf(c)
    BY <1>1 DEF Good, RootHome, FlatHome
  <2>2. \A e \in new : e = Fresh \/ e \in flat.table \/ e \in root.tables[c]
    BY <1>0
  <2>3. new \cap Edits \subseteq OwnOf(c)'
    BY <1>1, <1>2, <2>1, <2>2
  <2> QED BY ONLY <1>7, <2>3 DEF FlatHome
<1>11. y.do = "save account"
  BY DEF Fits
<1>12. PageShows(y)' /\ PageAgrees(y)' /\ MayStart(y)'
  BY <1>1, <1>3, <1>7, <1>11 DEF PageShows, PageAgrees, MayStart
<1>13. DocHolds(y)'
  <2> SUFFICES ASSUME NEW e \in Edits, owner'[e] \in Chars, Home[owner'[e]] = root.acc
               PROVE  /\ owner'[e] \in DOMAIN root.tables
                      /\ IF owner'[e] = c THEN e \in new ELSE e \in root'.tables[owner'[e]]
    BY <1>3, <1>4, <1>7, <1>11, ZenonT(120) DEF DocHolds
  <2>1. CASE e = Fresh
    BY <1>1, <1>2, <2>1
  <2>2. CASE e # Fresh
    <3>1. owner'[e] = owner[e] /\ owner[e] \in DOMAIN root.tables /\ e \in root.tables[owner[e]]
      BY <1>2, <2>2 DEF Data, DocHolds, Editors
    <3>2. owner[e] = c => e \in flat.table
      BY <1>1, <3>1, EntriesAside
    <3> QED BY <1>4, <1>9, <3>1, <3>2
  <2> QED BY <2>1, <2>2
<1>14. FileHolds(y)'
  <2> SUFFICES ASSUME NEW e \in Edits, owner'[e] \in Chars, Home[owner'[e]] # root.acc
               PROVE  InTable(e)'
    BY <1>3, <1>11 DEF FileHolds
  <2>1. e # Fresh
    BY <1>1, <1>2 DEF Good, RootOK, Of
  <2> QED BY <1>2, <2>1 DEF Data, FileHolds, Editors
<1>15. \A e \in saved : owner'[e] \in Chars => InTable(e)'
  BY <1>2 DEF SavedHere
<1> QED BY <1>2, <1>5, <1>6, <1>8, <1>10, <1>12, <1>13, <1>14, <1>15 DEF Good, Leaves, Data

LEMMA EditLeaves ==
    ASSUME Good, NEW x \in Steps, NEW y \in Steps \cup {Rest}, Data(x), SavedHere, Fits(x, y),
           \/ x.do = "edit active" /\ EditActive
           \/ x.do = "edit flat" /\ EditFlat
           \/ x.do = "write entry" /\ WriteEntry
    PROVE  Leaves(y)
<1>1. x.do \in Editors /\ flat.who = root.active /\ root.active \in DOMAIN root.tables
  BY DEF Editors, Data, PageShows, Good, RootOK
<1>2. /\ Fresh \in Edits /\ Fresh \notin flat.table /\ Fresh \notin root.tables[root.active]
      /\ flat.table \subseteq Edits \cup {Entries}
      /\ root.tables[root.active] \subseteq Edits \cup {Entries}
  <2>1. \E e \in Edits : owner[e] = "none"
    BY <1>1 DEF Data, MayStart, Editors
  <2> QED BY <1>1, <2>1, FreshIsNew DEF Good, FlatOK, RootOK, Tabled
<1>3. CASE x.do = "edit active" /\ EditActive
  <2>1. PICK new : new = root.tables[root.active] \cup {Fresh}
    OBVIOUS
  <2>2. /\ new \ {Fresh} = root.tables[root.active] /\ new \subseteq Edits \cup {Entries}
        /\ Fresh \in new
    BY <1>2, <2>1
  <2>3. /\ Mine(root.active)
        /\ root' = [root EXCEPT !.tables[root.active] = @ \cup {Fresh}]
        /\ flat' = [flat EXCEPT !.table = new] /\ shared' = TRUE /\ held' = FALSE
        /\ UNCHANGED <<config, file, creds>>
    BY <1>1, <1>3, <2>1 DEF EditActive, disk, Good, RootOK
  <2> QED BY <1>1, <2>2, <2>3, ActiveIsEdited
<1>4. CASE (x.do = "edit flat" /\ EditFlat) \/ (x.do = "write entry" /\ WriteEntry)
  <2>1. PICK new : new = flat.table \cup {Fresh}
    OBVIOUS
  <2>2. new \ {Fresh} = flat.table /\ new \subseteq Edits \cup {Entries} /\ Fresh \in new
    BY <1>2, <2>1
  <2>3. x.do = "write entry" => held
    BY DEF Data, MayStart
  <2>4. /\ Mine(root.active) /\ flat' = [flat EXCEPT !.table = new]
        /\ root' = root \/ root' = [root EXCEPT !.tables[root.active] = @ \cup {Fresh}]
        /\ shared' \in BOOLEAN /\ held' = FALSE /\ UNCHANGED <<config, file, creds>>
    <3>1. CASE x.do = "edit flat" /\ EditFlat
      BY <1>1, <2>1, <3>1 DEF EditFlat, disk, Good, FlatOK, Mine
    <3>2. CASE x.do = "write entry" /\ WriteEntry
      BY <1>1, <2>1, <2>3, <3>2 DEF WriteEntry, disk, Good, FlatOK, FlagsOK, Mine
    <3> QED BY <1>4, <3>1, <3>2
  <2> QED BY <1>1, <2>2, <2>4, ActiveIsEdited
<1> QED BY <1>3, <1>4

\* The tables filled with the entries of the tasks that are registered.
LEMMA FilledIs ==
    ASSUME Good, flat.who = root.active, Filled, owner' = owner
    PROVE  /\ RootOK' /\ RootHome' /\ FlatOK' /\ FlatHome'
           /\ root'.acc = root.acc /\ root'.active = root.active
           /\ flat'.acc = flat.acc /\ flat'.who = flat.who
           /\ DOMAIN root'.tables = DOMAIN root.tables
           /\ flat'.table = flat.table \cup {Entries}
           /\ \A c \in DOMAIN root.tables :
                 root'.tables[c] = root.tables[c] \/ root'.tables[c] = root.tables[c] \cup {Entries}
<1>1. /\ flat' = [flat EXCEPT !.table = @ \cup {Entries}]
      /\ root' = root \/ root' = [root EXCEPT !.tables[root.active] = @ \cup {Entries}]
  BY DEF Filled
<1>2. /\ DOMAIN flat' = {"acc", "who", "table"} /\ flat'.acc = flat.acc /\ flat'.who = flat.who
      /\ flat'.table = flat.table \cup {Entries}
  BY <1>1 DEF Good, FlatOK
<1>3. /\ DOMAIN root' = {"acc", "active", "tables"} /\ root'.acc = root.acc
      /\ root'.active = root.active
      /\ \/ root'.tables = root.tables
         \/ root'.tables = [root.tables EXCEPT ![root.active] = @ \cup {Entries}]
  BY <1>1 DEF Good, RootOK
<1>4. /\ DOMAIN root'.tables = DOMAIN root.tables
      /\ \A c \in DOMAIN root.tables :
            root'.tables[c] = root.tables[c] \/ root'.tables[c] = root.tables[c] \cup {Entries}
  BY <1>3 DEF Good, RootOK
<1>5. \A c : OwnOf(c)' = OwnOf(c)
  BY DEF OwnOf
<1>6. RootOK'
  BY <1>3, <1>4 DEF Good, RootOK, Tabled
<1>7. RootHome'
  BY <1>4, <1>5, EntriesAside DEF Good, RootHome
<1>8. FlatOK' /\ FlatHome'
  BY <1>2, <1>5, EntriesAside DEF Good, FlatOK, FlatHome
<1> QED BY <1>2, <1>3, <1>4, <1>6, <1>7, <1>8

LEMMA FillLeaves ==
    ASSUME Good, NEW x \in Steps, NEW y \in Steps \cup {Rest}, Data(x), SavedHere, Fits(x, y),
           (x.do = "register" /\ Register) \/ (x.do = "ensure" /\ Ensure)
    PROVE  Leaves(y) /\ (Synced => Synced')
<1>1. /\ Filled /\ UNCHANGED <<config, shared, creds, held, owner>>
      /\ \/ file' = file
         \/ file' = [file EXCEPT ![root.acc] = [active |-> root.active, tables |-> root'.tables]]
  BY DEF Register, Ensure, disk
<1>2. /\ flat.who = root.active /\ flat.acc = root.acc /\ root.active \in DOMAIN root.tables
      /\ root.tables[root.active] \ {Entries} = flat.table \ {Entries}
  BY DEF Data, PageShows, PageAgrees, Good, RootOK
<1>3. /\ RootOK' /\ RootHome' /\ FlatOK' /\ FlatHome'
      /\ root'.acc = root.acc /\ root'.active = root.active
      /\ flat'.acc = flat.acc /\ flat'.who = flat.who
      /\ DOMAIN root'.tables = DOMAIN root.tables
      /\ flat'.table = flat.table \cup {Entries}
      /\ \A c \in DOMAIN root.tables :
            root'.tables[c] = root.tables[c] \/ root'.tables[c] = root.tables[c] \cup {Entries}
  BY <1>1, <1>2, FilledIs
<1>4. OwnerOK' /\ FlagsOK' /\ CredentialsBelong'
  BY <1>1, <1>3 DEF Good, OwnerOK, FlagsOK, CredentialsBelong
<1>5. ASSUME NEW e \in Edits, owner[e] \in Chars
      PROVE  IF Home[owner[e]] = root.acc
             THEN /\ owner[e] \in DOMAIN root'.tables /\ e \in root'.tables[owner[e]]
                  /\ owner[e] = root.active => e \in flat'.table
             ELSE InTable(e)
  <2>1. CASE Home[owner[e]] = root.acc
    <3>1. owner[e] \in DOMAIN root.tables /\ e \in root.tables[owner[e]]
      BY <1>5, <2>1 DEF Data, DocHolds
    <3>2. owner[e] = root.active => e \in flat.table
      BY <1>2, <3>1, EntriesAside
    <3> QED BY <1>3, <2>1, <3>1, <3>2
  <2>2. CASE Home[owner[e]] # root.acc
    BY <1>5, <2>2 DEF Data, FileHolds
  <2> QED BY <2>1, <2>2
<1>6. FileOK' /\ FileHome' /\ (Synced => Synced')
      /\ \A e \in Edits : owner[e] \in Chars => InTable(e)'
  <2>1. CASE file' = file
    <3>1. FileOK' /\ FileHome'
      BY <1>1, <2>1 DEF Good, FileOK, FileHome, Exists, OwnOf
    <3>2. Synced => Synced'
      BY <1>2, <1>3, <2>1 DEF Synced
    <3>3. \A e \in Edits : owner[e] \in Chars => InTable(e)
      BY DEF Data, FileHolds
    <3> QED BY <1>1, <2>1, <3>1, <3>2, <3>3 DEF InTable, Exists
  <2>2. CASE file' = [file EXCEPT ![root.acc] = [active |-> root.active, tables |-> root'.tables]]
    BY <1>1, <1>3, <1>5, <2>2, RootIsWritten
  <2> QED BY <1>1, <2>1, <2>2
<1>7. PageShows(y)' /\ PageAgrees(y)'
  BY <1>2, <1>3 DEF PageShows, PageAgrees
<1>8. DocHolds(y)'
  BY <1>1, <1>3, <1>5 DEF DocHolds
<1>9. FileHolds(y)'
  BY <1>1, <1>6 DEF FileHolds
<1>10. MayStart(y)'
  BY DEF Fits, MayStart, Firsts
<1> QED BY <1>1, <1>3, <1>4, <1>6, <1>7, <1>8, <1>9, <1>10 DEF Good, Leaves, Data, SavedHere

LEMMA AddCharacterLeaves ==
    ASSUME Good, NEW x \in Steps, NEW y \in Steps \cup {Rest}, Data(x), SavedHere, Fits(x, y),
           x.do = "add character", AddCharacter(x.on)
    PROVE  Leaves(y) /\ (Synced => Synced')
<1>1. PICK c : c = x.on /\ c \in Of(root.acc) /\ c \notin DOMAIN root.tables
  BY DEF Data, MayStart
<1>2. /\ root' = [root EXCEPT !.tables =
                     [d \in DOMAIN root.tables \cup {c} |-> IF d = c THEN {} ELSE root.tables[d]]]
      /\ UNCHANGED <<config, file, flat, shared, creds, held, owner>>
  BY <1>1 DEF AddCharacter, disk, Good, RootOK
<1>3. /\ DOMAIN root' = {"acc", "active", "tables"} /\ root'.acc = root.acc
      /\ root'.active = root.active /\ DOMAIN root'.tables = DOMAIN root.tables \cup {c}
      /\ root'.tables[c] = {} /\ \A d \in DOMAIN root.tables : root'.tables[d] = root.tables[d]
  BY <1>1, <1>2 DEF Good, RootOK
<1>4. RootOK' /\ RootHome' /\ CredentialsBelong'
  BY <1>1, <1>2, <1>3 DEF Good, RootOK, RootHome, CredentialsBelong, Tabled, OwnOf
<1>5. FileOK' /\ FileHome' /\ FlatOK' /\ FlatHome' /\ OwnerOK' /\ FlagsOK'
  BY <1>2 DEF Good, FileOK, FileHome, FlatOK, FlatHome, OwnerOK, FlagsOK, OwnOf, Exists
<1>6. \A e : InTable(e)' <=> InTable(e)
  BY <1>2 DEF InTable, Exists
<1>7. root.active \in DOMAIN root.tables
  BY DEF Good, RootOK
<1>8. PageShows(y)' /\ PageAgrees(y)'
  BY <1>2, <1>3, <1>7 DEF Data, PageShows, PageAgrees
<1>9. DocHolds(y)'
  <2>1. ASSUME NEW e \in Edits, owner[e] \in Chars, Home[owner[e]] = root.acc
        PROVE  /\ owner[e] \in DOMAIN root.tables /\ e \in root.tables[owner[e]]
               /\ owner[e] = root.active => e \in flat.table
    BY <2>1, EntriesAside DEF Data, DocHolds, PageAgrees
  <2> QED BY <1>2, <1>3, <2>1 DEF DocHolds
<1>10. FileHolds(y)'
  BY <1>2, <1>6 DEF Data, FileHolds
<1>11. MayStart(y)'
  BY DEF Fits, MayStart, Firsts
<1>12. Synced => Synced'
  BY <1>2, <1>3, <1>7 DEF Synced
<1> QED BY <1>2, <1>4, <1>5, <1>6, <1>8, <1>9, <1>10, <1>11, <1>12
        DEF Good, Leaves, Data, SavedHere

LEMMA DeleteCharacterLeaves ==
    ASSUME Good, NEW x \in Steps, NEW y \in Steps \cup {Rest}, Data(x), SavedHere, Fits(x, y),
           x.do = "delete character", DeleteCharacter(x.on)
    PROVE  Leaves(y) /\ (Synced => Synced')
<1>1. PICK c : c = x.on /\ c \in DOMAIN root.tables /\ c # root.active
  BY DEF Data, MayStart
<1>2. /\ root' = [root EXCEPT !.tables = [d \in DOMAIN root.tables \ {c} |-> root.tables[d]]]
      /\ owner' = [e \in Edits |-> IF owner[e] = c THEN "gone" ELSE owner[e]]
      /\ UNCHANGED <<config, file, flat, shared, creds, held>>
  BY <1>1 DEF DeleteCharacter, Forget, disk, Good, RootOK
<1>3. /\ DOMAIN root' = {"acc", "active", "tables"} /\ root'.acc = root.acc
      /\ root'.active = root.active /\ DOMAIN root'.tables = DOMAIN root.tables \ {c}
      /\ \A d \in DOMAIN root.tables \ {c} : root'.tables[d] = root.tables[d]
  BY <1>1, <1>2 DEF Good, RootOK
<1>4. \A d \in Chars : OwnOf(d) \subseteq OwnOf(d)'
  BY <1>2 DEF OwnOf
<1>5. \A e \in Edits : owner'[e] \in Chars => owner'[e] = owner[e] /\ owner[e] # c
  BY <1>2, NamesAside
<1>6. OwnerOK'
  BY <1>2 DEF Good, OwnerOK
<1>7. RootOK' /\ RootHome' /\ CredentialsBelong'
  BY <1>1, <1>2, <1>3, <1>4 DEF Good, RootOK, RootHome, CredentialsBelong, Tabled, Of
<1>8. FileOK' /\ FlatOK' /\ FlatHome' /\ FlagsOK'
  BY <1>2, <1>4 DEF Good, FileOK, FlatOK, FlatHome, FlagsOK, Exists
<1>9. FileHome'
  <2> SUFFICES ASSUME NEW a \in Accounts, NEW d \in DOMAIN file[a].tables
               PROVE  file[a].tables[d] \cap Edits \subseteq OwnOf(d)'
    BY <1>2 DEF FileHome
  <2>1. CASE Exists(a)
    BY <1>4, <2>1 DEF Good, FileHome, FileOK, Of
  <2>2. CASE ~Exists(a)
    BY <2>2, MissingIsEmpty
  <2> QED BY <2>1, <2>2
<1>10. \A e \in Edits : owner'[e] \in Chars => (InTable(e)' <=> InTable(e))
  BY <1>2, <1>5 DEF InTable, Exists
<1>11. root.active \in DOMAIN root.tables
  BY DEF Good, RootOK
<1>12. PageShows(y)' /\ PageAgrees(y)'
  BY <1>1, <1>2, <1>3, <1>11 DEF Data, PageShows, PageAgrees
<1>13. DocHolds(y)'
  <2> SUFFICES ASSUME NEW e \in Edits, owner'[e] \in Chars, Home[owner'[e]] = root.acc
               PROVE  /\ owner'[e] \in DOMAIN root'.tables /\ e \in root'.tables[owner'[e]]
                      /\ owner'[e] = root.active => e \in flat.table
    BY <1>2, <1>3 DEF DocHolds
  <2>1. owner'[e] = owner[e] /\ owner[e] # c
    BY <1>5
  <2>2. owner[e] \in DOMAIN root.tables /\ e \in root.tables[owner[e]]
    BY <2>1 DEF Data, DocHolds
  <2>3. owner[e] = root.active => e \in flat.table
    BY <2>2, EntriesAside DEF Data, PageAgrees
  <2>4. root'.tables[owner[e]] = root.tables[owner[e]] /\ owner[e] \in DOMAIN root'.tables
    BY <1>3, <2>1, <2>2
  <2> QED BY <2>1, <2>2, <2>3, <2>4
<1>14. FileHolds(y)'
  BY <1>3, <1>5, <1>10 DEF Data, FileHolds
<1>15. MayStart(y)'
  BY DEF Fits, MayStart, Firsts
<1>16. Synced => Synced'
  BY <1>1, <1>2, <1>3, <1>11 DEF Synced
<1>17. \A e \in saved : owner'[e] \in Chars => InTable(e)'
  BY <1>10 DEF SavedHere
<1> QED BY <1>2, <1>6, <1>7, <1>8, <1>9, <1>12, <1>13, <1>14, <1>15, <1>16, <1>17
        DEF Good, Leaves, Data

LEMMA NewAccountLeaves ==
    ASSUME Good, NEW x \in Steps, NEW y \in Steps \cup {Rest}, Data(x), SavedHere, Fits(x, y),
           x.do = "new account", NewAccount(x.on)
    PROVE  Leaves(y)
<1>1. PICK c \in Chars : c = x.on /\ ~Exists(Home[c]) /\ Home[c] \in Accounts
  BY DEF Data, MayStart, Accounts
<1>2. /\ file' = [file EXCEPT ![Home[c]] = NewFile(c)]
      /\ UNCHANGED <<config, root, flat, shared, creds, held, owner>>
  BY <1>1 DEF NewAccount, memory
<1>3. /\ DOMAIN file' = Accounts /\ \A a \in Accounts \ {Home[c]} : file'[a] = file[a]
      /\ file'[Home[c]].active = c /\ DOMAIN file'[Home[c]].tables = {c}
      /\ file'[Home[c]].tables[c] = {}
  BY <1>1, <1>2 DEF Good, FileOK, NewFile
<1>4. FileOK'
  <2> SUFFICES ASSUME NEW a \in Accounts, Exists(a)'
               PROVE  /\ file'[a].active \in DOMAIN file'[a].tables
                      /\ DOMAIN file'[a].tables \subseteq Of(a) /\ Tabled(file'[a].tables)
    BY <1>3 DEF FileOK
  <2>1. CASE a = Home[c]
    BY <1>3, <2>1 DEF Of, Tabled
  <2>2. CASE a # Home[c]
    BY <1>3, <2>2 DEF Good, FileOK, Exists
  <2> QED BY <2>1, <2>2
<1>5. FileHome'
  <2> SUFFICES ASSUME NEW a \in Accounts, NEW d \in DOMAIN file'[a].tables
               PROVE  file'[a].tables[d] \cap Edits \subseteq OwnOf(d)
    BY <1>2 DEF FileHome, OwnOf
  <2>1. CASE a = Home[c]
    BY <1>3, <2>1
  <2>2. CASE a # Home[c]
    BY <1>3, <2>2 DEF Good, FileHome
  <2> QED BY <2>1, <2>2
<1>6. /\ RootOK' /\ RootHome' /\ FlatOK' /\ FlatHome' /\ OwnerOK' /\ FlagsOK'
      /\ CredentialsBelong'
  BY <1>2 DEF Good, RootOK, RootHome, FlatOK, FlatHome, OwnerOK, FlagsOK, CredentialsBelong, OwnOf
<1>7. \A e \in Edits : owner[e] \in Chars /\ InTable(e) => InTable(e)'
  <2> SUFFICES ASSUME NEW e \in Edits, owner[e] \in Chars, InTable(e) PROVE InTable(e)'
    OBVIOUS
  <2>1. Home[owner[e]] # Home[c] /\ Home[owner[e]] \in Accounts
    BY <1>1 DEF InTable, Accounts
  <2> QED BY <1>2, <1>3, <2>1 DEF InTable, Exists
<1>8. PageShows(y)' /\ PageAgrees(y)'
  BY <1>2 DEF Data, PageShows, PageAgrees
<1>9. DocHolds(y)'
  <2>1. ASSUME NEW e \in Edits, owner[e] \in Chars, Home[owner[e]] = root.acc
        PROVE  /\ owner[e] \in DOMAIN root.tables /\ e \in root.tables[owner[e]]
               /\ owner[e] = root.active => e \in flat.table
    BY <2>1, EntriesAside DEF Data, DocHolds, PageAgrees
  <2> QED BY <1>2, <2>1 DEF DocHolds
<1>10. FileHolds(y)'
  BY <1>2, <1>7 DEF Data, FileHolds
<1>11. MayStart(y)'
  BY DEF Fits, MayStart, Firsts
<1> QED BY <1>2, <1>4, <1>5, <1>6, <1>7, <1>8, <1>9, <1>10, <1>11
        DEF Good, Leaves, Data, SavedHere

-----------------------------------------------------------------------------
(* The invariant, and the operations.                                      *)

\* A switch, and a new account, are followed by a save.
SwitchesSave(s) ==
    \A i \in 1..Len(s) : s[i].do \in {"set active", "new account"} =>
        \E j \in (i + 1)..Len(s) : s[j].do = "save account"

Turn(t) == \A u \in Threads \ {t} : todo[u] = <<>>

AtStep ==
    \A t \in Threads : \A x \in Steps \cup {Rest} : Turn(t) /\ Now(todo[t]) = x => Data(x)

\* Unless a save has failed or is to come, the file is what the document is.
Settled ==
    \A t \in Threads :
        Turn(t) /\ ~failed /\ (~Saves(todo[t]) \/ Now(todo[t]).do = "set active") => Synced

\* One thread works at a time, through steps in order.
Lists ==
    /\ DOMAIN todo = Threads
    /\ \A t \in Threads : InOrder(todo[t]) /\ SwitchesSave(todo[t])
    /\ \A t, u \in Threads : todo[t] # <<>> /\ todo[u] # <<>> => t = u

PhaseOK == running \in {"no", "scheduled", "direct"} /\ failed \in BOOLEAN

\* The inductive invariant.
StoreIInv == Good /\ SavedHere /\ Lists /\ AtStep /\ Settled /\ PhaseOK

LEMMA EmptyIsInOrder == InOrder(<<>>) /\ SwitchesSave(<<>>) /\ ~Saves(<<>>) /\ Now(<<>>) = Rest
BY DEF InOrder, SwitchesSave, Saves, Now

LEMMA SwitchesTaken ==
    ASSUME NEW s \in Seq(Steps), s # <<>>, SwitchesSave(s)
    PROVE  /\ SwitchesSave(Tail(s))
           /\ s[1].do \in {"set active", "new account"} => Saves(Tail(s))
           /\ s[1].do = "set active" => Saves(s)
<1> DEFINE w == Tail(s)
           n == Len(s)
<1>0. n \in Nat \ {0} /\ Len(w) = n - 1
  OBVIOUS
<1>1. \A i \in 1..Len(w) : w[i] = s[i + 1]
  OBVIOUS
<1>2. \A i \in 1..n : s[i].do \in {"set active", "new account"} =>
          \E j \in (i + 1)..n : s[j].do = "save account"
  BY DEF SwitchesSave
<1> HIDE DEF w, n
<1>3. ASSUME NEW i \in 1..Len(w), w[i].do \in {"set active", "new account"}
      PROVE  \E j \in (i + 1)..Len(w) : w[j].do = "save account"
  <2>0. i + 1 \in 1..n
    BY <1>0
  <2>1. i + 1 \in 1..n /\ s[i + 1].do \in {"set active", "new account"}
    BY <1>1, <1>3, <2>0
  <2>2. PICK j \in (i + 2)..n : s[j].do = "save account"
    <3>1. \E j \in ((i + 1) + 1)..n : s[j].do = "save account"
      BY <1>2, <2>1
    <3>2. (i + 1) + 1 = i + 2
      OBVIOUS
    <3> QED BY <3>1, <3>2
  <2>3. j - 1 \in (i + 1)..Len(w) /\ j - 1 \in 1..Len(w) /\ (j - 1) + 1 = j
    <3>1. j \in (i + 2)..n /\ i \in 1..Len(w)
      BY <2>2
    <3> QED BY ONLY <1>0, <3>1
  <2>4. w[j - 1] = s[j]
    BY <1>1, <2>3
  <2> QED BY <2>2, <2>3, <2>4
<1>4. ASSUME NEW j \in 2..n, s[j].do = "save account" PROVE Saves(w) /\ Saves(s)
  <2>1. j - 1 \in 1..Len(w) /\ (j - 1) + 1 = j /\ j \in 1..n
    BY <1>0
  <2>2. w[j - 1] = s[j]
    BY <1>1, <2>1
  <2> QED BY <1>4, <2>1, <2>2 DEF Saves, n
<1>5. s[1].do \in {"set active", "new account"} => \E j \in 2..n : s[j].do = "save account"
  <2>1. 1 \in 1..n /\ 1 + 1 = 2
    BY <1>0
  <2> QED BY <1>2, <2>1
<1> QED BY <1>3, <1>4, <1>5 DEF SwitchesSave, w

LEMMA JoinedSave ==
    ASSUME NEW s \in Seq(Steps), NEW u \in Seq(Steps), SwitchesSave(u), SwitchesSave(s) \/ Saves(u)
    PROVE  SwitchesSave(s \o u) /\ (Saves(s) \/ Saves(u) => Saves(s \o u))
<1> DEFINE w == s \o u
           m == Len(s)
           n == Len(u)
<1>0. m \in Nat /\ n \in Nat /\ Len(w) = m + n
  BY ConcatProperties
<1>1. /\ \A i \in 1..m : w[i] = s[i]
      /\ \A i \in (m + 1)..(m + n) : w[i] = u[i - m]
  BY ConcatProperties
<1>2. \A j \in 1..n : j + m \in 1..Len(w) /\ w[j + m] = u[j]
  <2> SUFFICES ASSUME NEW j \in 1..n PROVE j + m \in 1..Len(w) /\ w[j + m] = u[j]
    OBVIOUS
  <2>1. j + m \in (m + 1)..(m + n) /\ (j + m) - m = j /\ j + m \in 1..(m + n)
    BY <1>0
  <2> HIDE DEF w, m, n
  <2> QED BY <1>0, <1>1, <2>1
<1>3. /\ \A i \in 1..n : u[i].do \in {"set active", "new account"} =>
            \E j \in (i + 1)..n : u[j].do = "save account"
      /\ Saves(u) <=> \E i \in 1..n : u[i].do = "save account"
      /\ Saves(s) <=> \E i \in 1..m : s[i].do = "save account"
      /\ Saves(w) <=> \E i \in 1..Len(w) : w[i].do = "save account"
      /\ SwitchesSave(s) <=>
            \A i \in 1..m : s[i].do \in {"set active", "new account"} =>
               \E j \in (i + 1)..m : s[j].do = "save account"
  BY DEF SwitchesSave, Saves
<1> HIDE DEF w, m, n
<1>4. ASSUME NEW i \in 1..Len(w), w[i].do \in {"set active", "new account"}
      PROVE  \E j \in (i + 1)..Len(w) : w[j].do = "save account"
  <2>1. CASE i > m
    <3>1. i - m \in 1..n /\ i \in (m + 1)..(m + n)
      BY <1>0, <2>1
    <3>2. u[i - m].do \in {"set active", "new account"}
      BY <1>1, <1>4, <3>1
    <3>3. PICK j \in ((i - m) + 1)..n : u[j].do = "save account"
      BY <1>3, <3>1, <3>2
    <3>4. j \in 1..n /\ j + m \in (i + 1)..Len(w)
      <4>1. j \in ((i - m) + 1)..n /\ i \in 1..Len(w)
        BY <3>3
      <4> QED BY ONLY <1>0, <2>1, <3>1, <4>1
    <3> QED BY <1>2, <3>3, <3>4
  <2>2. CASE i <= m /\ Saves(u)
    <3>1. PICK j \in 1..n : u[j].do = "save account"
      BY <1>3, <2>2
    <3>2. j + m \in (i + 1)..Len(w)
      <4>1. j \in 1..n /\ i \in 1..Len(w) /\ i <= m
        BY <2>2, <3>1
      <4> QED BY ONLY <1>0, <4>1
    <3> QED BY <1>2, <3>1, <3>2
  <2>3. CASE i <= m /\ SwitchesSave(s)
    <3>1. i \in 1..m
      BY <1>0, <2>3
    <3>2. s[i].do \in {"set active", "new account"}
      BY <1>1, <1>4, <3>1
    <3>3. PICK j \in (i + 1)..m : s[j].do = "save account"
      BY <1>3, <2>3, <3>1, <3>2
    <3>4. j \in 1..m /\ j \in (i + 1)..Len(w)
      <4>1. j \in (i + 1)..m
        BY <3>3
      <4> QED BY ONLY <1>0, <3>1, <4>1
    <3> QED BY <1>1, <3>3, <3>4
  <2>4. i <= m \/ i > m
    BY <1>0
  <2> QED BY <2>1, <2>2, <2>3, <2>4
<1>5. Saves(s) \/ Saves(u) => Saves(w)
  <2>1. \A i \in 1..m : i \in 1..Len(w)
    BY <1>0
  <2> QED BY <1>1, <1>2, <1>3, <2>1
<1> QED BY <1>4, <1>5 DEF SwitchesSave, w

\* What does not depend on the configuration file, on the pipeline and on the lists.
LEMMA Unmoved ==
    ASSUME Good, config' \in Accounts, UNCHANGED <<file, root, flat, shared, creds, held, owner>>
    PROVE  /\ Good' /\ (Synced' <=> Synced)
           /\ \A x \in Steps \cup {Rest} : Data(x) => Data(x)'
           /\ \A e : InTable(e)' <=> InTable(e)
<1>1. Good'
  BY DEF Good, FileOK, RootOK, FlatOK, OwnerOK, FlagsOK, RootHome, FlatHome, FileHome,
     CredentialsBelong, OwnOf, Exists
<1>2. \A e : InTable(e)' <=> InTable(e)
  BY DEF InTable, Exists
<1>3. ASSUME NEW x \in Steps \cup {Rest}, Data(x) PROVE Data(x)'
  <2>1. PageShows(x)' /\ PageAgrees(x)'
    BY <1>3 DEF Data, PageShows, PageAgrees
  <2>2. DocHolds(x)' /\ FileHolds(x)'
    BY <1>2, <1>3 DEF Data, DocHolds, FileHolds
  <2>3. MayStart(x)'
    BY <1>3 DEF Data, MayStart, Exists
  <2> QED BY <2>1, <2>2, <2>3 DEF Data
<1>4. Synced' <=> Synced
  BY DEF Synced
<1> QED BY <1>1, <1>2, <1>3, <1>4

\* At rest, everything is as it is before any operation that may start.
LEMMA RestIsReady ==
    ASSUME Good, Data(Rest), NEW a \in Steps, MayStart(a) PROVE Data(a)
<1>1. /\ flat.who = root.active /\ flat.acc = root.acc
      /\ root.tables[root.active] \ {Entries} = flat.table \ {Entries}
      /\ \A e \in Edits : owner[e] \in Chars => InTable(e)
  BY DEF Data, Rest, PageShows, PageAgrees, FileHolds
<1>2. ASSUME NEW e \in Edits, owner[e] \in Chars, Home[owner[e]] = root.acc
      PROVE  /\ owner[e] \in DOMAIN root.tables /\ e \in root.tables[owner[e]]
             /\ owner[e] = root.active => e \in flat.table
  <2>1. owner[e] \in DOMAIN root.tables /\ e \in root.tables[owner[e]]
    BY <1>2 DEF Data, DocHolds, Rest
  <2> QED BY <1>1, <2>1, EntriesAside
<1>3. DocHolds(a)
  BY <1>2 DEF DocHolds
<1> QED BY <1>1, <1>3 DEF Data, PageShows, PageAgrees, FileHolds

\* While nobody works.
LEMMA IdleIs ==
    ASSUME StoreIInv, \A t \in Threads : todo[t] = <<>>
    PROVE  /\ Data(Rest) /\ (~failed => Synced) /\ flat.who = root.active /\ flat.acc = root.acc
           /\ \A e \in Edits : owner[e] \in Chars => InTable(e)
<1>1. "web" \in Threads /\ Turn("web") /\ todo["web"] = <<>>
  BY DEF Threads, Turn
<1>2. Data(Rest)
  BY <1>1, EmptyIsInOrder DEF StoreIInv, AtStep
<1>3. ~failed => Synced
  BY <1>1, EmptyIsInOrder DEF StoreIInv, Settled
<1> QED BY <1>2, <1>3 DEF Data, Rest, PageShows, FileHolds

LEMMA SaveIsNext ==
    ASSUME NEW s, InOrder(s), Now(s).do = "save account" PROVE Saves(s)
<1>1. s # <<>> /\ s[1].do = "save account"
  BY DEF Now, Rest
<1>2. PICK a, z \in Steps : Runs(s, a, z)
  BY <1>1 DEF InOrder
<1>3. s \in Seq(Steps) /\ Len(s) > 0
  BY <1>2 DEF Runs
<1>4. Len(s) \in Nat
  BY <1>3, LenProperties
<1>5. 1 \in 1..Len(s)
  BY ONLY <1>3, <1>4
<1> QED BY <1>1, <1>5 DEF Saves

LEMMA BeginKeeps ==
    ASSUME StoreIInv, ~Overlap, NEW t \in Threads, NEW steps, NEW a \in Steps,
           InOrder(steps), SwitchesSave(steps), steps # <<>>, steps[1] = a, MayStart(a),
           Free(t), todo' = [todo EXCEPT ![t] = steps],
           running' \in {"no", "scheduled", "direct"},
           UNCHANGED <<config, file, root, flat, shared, creds, held, owner, saved, failed>>
    PROVE  StoreIInv'
<1>1. \A u \in Threads : todo[u] = <<>>
  BY DEF Free, Busy
<1>2. Data(Rest) /\ (~failed => Synced)
  BY <1>1, IdleIs
<1>3. Data(a)
  BY <1>2, RestIsReady DEF StoreIInv
<1>4. /\ Good' /\ (Synced' <=> Synced) /\ Data(a)' /\ \A e : InTable(e)' <=> InTable(e)
  BY <1>3, Unmoved DEF StoreIInv, Good, FlagsOK
<1>5. todo'[t] = steps /\ \A u \in Threads \ {t} : todo'[u] = <<>>
  BY <1>1 DEF StoreIInv, Lists
<1>6. Now(steps) = a
  BY DEF Now
<1>7. SavedHere'
  BY <1>4 DEF StoreIInv, SavedHere
<1>8. Lists'
  BY <1>5, EmptyIsInOrder DEF StoreIInv, Lists
<1>9. AtStep'
  <2> SUFFICES ASSUME NEW u \in Threads, NEW x \in Steps \cup {Rest}, Turn(u)', Now(todo'[u]) = x
               PROVE  Data(x)'
    BY DEF AtStep
  <2>1. u = t
    BY <1>5 DEF Turn
  <2> QED BY <1>4, <1>5, <1>6, <2>1
<1>10. Settled'
  BY <1>2, <1>4 DEF Settled
<1>11. PhaseOK'
  BY DEF StoreIInv, PhaseOK
<1> QED BY <1>4, <1>7, <1>8, <1>9, <1>10, <1>11 DEF StoreIInv

\* The thread t has taken its step, and y is what it does next.
LEMMA StepKeeps ==
    ASSUME StoreIInv, NEW t \in Threads, todo[t] # <<>>, NEW rest, NEW y \in Steps \cup {Rest},
           InOrder(rest), SwitchesSave(rest), y = Now(rest), todo' = [todo EXCEPT ![t] = rest],
           Leaves(y), ~failed /\ (~Saves(rest) \/ y.do = "set active") => Synced',
           saved' = IF \A u \in Threads : todo'[u] = <<>>
                    THEN {e \in Edits : owner'[e] \in Chars}
                    ELSE {e \in saved : owner'[e] \in Chars},
           UNCHANGED <<running, failed>>
    PROVE  StoreIInv'
<1>1. \A u \in Threads \ {t} : todo[u] = <<>>
  BY DEF StoreIInv, Lists
<1>2. todo'[t] = rest /\ \A u \in Threads \ {t} : todo'[u] = <<>>
  BY <1>1 DEF StoreIInv, Lists
<1>3. Good' /\ Data(y)' /\ \A e \in saved : owner'[e] \in Chars => InTable(e)'
  BY DEF Leaves
<1>4. SavedHere'
  <2>1. CASE rest = <<>>
    <3>1. saved' = {e \in Edits : owner'[e] \in Chars} /\ y = Rest
      BY <1>2, <2>1, EmptyIsInOrder
    <3>2. y.do = "nothing"
      BY ONLY <3>1 DEF Rest
    <3>3. FileHolds(y)'
      BY <1>3 DEF Data
    <3>4. \A e \in Edits : owner'[e] \in Chars => InTable(e)'
      BY <3>2, <3>3 DEF FileHolds
    <3> QED BY <3>1, <3>4 DEF SavedHere
  <2>2. CASE rest # <<>>
    BY <1>2, <1>3, <2>2 DEF SavedHere, StoreIInv
  <2> QED BY <2>1, <2>2
<1>5. Lists'
  BY <1>2, EmptyIsInOrder DEF StoreIInv, Lists
<1>6. AtStep'
  <2> SUFFICES ASSUME NEW u \in Threads, NEW x \in Steps \cup {Rest}, Turn(u)', Now(todo'[u]) = x
               PROVE  Data(x)'
    BY DEF AtStep
  <2>1. CASE u = t
    BY <1>2, <1>3, <2>1
  <2>2. CASE u # t
    <3>1. rest = <<>> /\ x = y
      BY <1>2, <2>2, EmptyIsInOrder DEF Turn
    <3> QED BY <1>3, <3>1
  <2> QED BY <2>1, <2>2
<1>7. Settled'
  <2> SUFFICES ASSUME NEW u \in Threads, Turn(u)', ~failed,
                      ~Saves(todo'[u]) \/ Now(todo'[u]).do = "set active"
               PROVE  Synced'
    BY DEF Settled
  <2>1. todo'[u] = rest
    BY <1>2 DEF Turn
  <2> QED BY <2>1
<1>8. PhaseOK'
  BY DEF StoreIInv, PhaseOK
<1> QED BY <1>3, <1>4, <1>5, <1>6, <1>7, <1>8 DEF StoreIInv

LEMMA AdvanceKeeps ==
    ASSUME StoreIInv, NEW t \in Threads, Advance(t)
    PROVE  StoreIInv'
<1>1. PICK s : s = todo[t] /\ s # <<>> /\ InOrder(s) /\ SwitchesSave(s)
  BY DEF Advance, Busy, StoreIInv, Lists
<1>2. PICK x \in Steps : x = s[1] /\ x = Head(s) /\ s \in Seq(Steps)
  BY <1>1, Taken
<1>3. Data(x) /\ Turn(t)
  <2>1. Turn(t)
    BY <1>1 DEF StoreIInv, Lists, Turn
  <2>2. Now(todo[t]) = x
    BY <1>1, <1>2 DEF Now
  <2> QED BY <2>1, <2>2 DEF StoreIInv, AtStep
<1>4. ~failed /\ (~Saves(s) \/ x.do = "set active") => Synced
  BY <1>1, <1>2, <1>3 DEF StoreIInv, Settled, Now
<1>5. /\ Good /\ SavedHere /\ UNCHANGED <<running, failed>>
      /\ saved' = IF \A u \in Threads : todo'[u] = <<>>
                  THEN {e \in Edits : owner'[e] \in Chars}
                  ELSE {e \in saved : owner'[e] \in Chars}
  BY DEF StoreIInv, Advance
<1>6. CASE ~Known(x)
  <2>1. /\ UNCHANGED <<config, file, root, flat, shared, creds, held, owner>>
        /\ todo' = [todo EXCEPT ![t] = <<>>] /\ x.do = "set active"
    BY <1>1, <1>2, <1>6 DEF Advance, Known, disk, memory
  <2>2. Data(Rest)
    <3>1. PageShows(Rest) /\ PageAgrees(Rest) /\ FileHolds(Rest) /\ MayStart(Rest)
      BY <1>3, <2>1 DEF Data, PageShows, PageAgrees, FileHolds, MayStart, Rest
    <3>2. DocHolds(Rest)
      BY <1>3, <2>1 DEF Data, DocHolds, Rest
    <3> QED BY <3>1, <3>2 DEF Data
  <2>3. Good' /\ (Synced' <=> Synced) /\ Data(Rest)' /\ \A e : InTable(e)' <=> InTable(e)
    BY <1>5, <2>1, <2>2, Unmoved DEF Good, FlagsOK
  <2>4. Leaves(Rest)
    BY <1>5, <2>1, <2>3 DEF Leaves, SavedHere
  <2>5. ~failed => Synced'
    BY <1>4, <2>1, <2>3
  <2> QED BY <1>1, <1>5, <2>1, <2>4, <2>5, EmptyIsInOrder, StepKeeps
<1>7. CASE Known(x)
  <2>1. Do(x) /\ todo' = [todo EXCEPT ![t] = Tail(s)]
    BY <1>1, <1>2, <1>7 DEF Advance, StoreIInv, Lists
  <2>2. PICK y \in Steps \cup {Rest} : y = Now(Tail(s)) /\ Fits(x, y)
    BY <1>1, <1>2, Taken
  <2>3. /\ InOrder(Tail(s)) /\ SwitchesSave(Tail(s))
        /\ x.do # "save account" => (Saves(s) <=> Saves(Tail(s)))
        /\ x.do \in {"set active", "new account"} => Saves(Tail(s))
    BY <1>1, <1>2, Taken, SwitchesTaken
  <2>4. /\ y.do = "save account" => Saves(Tail(s)) /\ y.do # "set active"
        /\ y.do = "set active" => x.do = "save root"
    <3>1. y.do = "save account" => Saves(Tail(s))
      BY <2>2, <2>3, SaveIsNext
    <3> QED BY <2>2, <3>1 DEF Fits
  <2>5. Leaves(y) /\ (~failed /\ (~Saves(Tail(s)) \/ y.do = "set active") => Synced')
    <3> USE <1>2, <1>3, <1>5, <2>2
    <3>1. CASE x.do = "save account"
      BY <2>1, <3>1, SaveAccountLeaves DEF Do
    <3>2. CASE x.do = "save config"
      BY <1>4, <2>1, <2>3, <2>4, <3>2, SaveConfigLeaves DEF Do
    <3>3. CASE x.do = "save root"
      BY <2>1, <3>3, SaveRootLeaves DEF Do
    <3>4. CASE x.do = "set active"
      BY <1>7, <2>1, <2>3, <2>4, <3>4, SetActiveLeaves DEF Do
    <3>5. CASE x.do = "load" \/ x.do = "reload"
      BY <2>1, <3>5, ReadLeaves DEF Do
    <3>6. CASE x.do = "refresh"
      BY <1>4, <2>1, <2>3, <2>4, <3>6, RefreshLeaves DEF Do
    <3>7. CASE x.do = "edit other"
      BY <1>4, <2>1, <2>3, <2>4, <3>7, EditOtherLeaves DEF Do
    <3>8. CASE x.do \in Editors
      <4>1. Leaves(y)
        BY <2>1, <3>8, EditLeaves DEF Do, Editors
      <4>2. y.do = "save account"
        BY <3>8 DEF Fits
      <4> QED BY <2>4, <4>1, <4>2
    <3>9. CASE x.do \in {"register", "ensure"}
      BY <1>4, <2>1, <2>3, <2>4, <3>9, FillLeaves DEF Do
    <3>10. CASE x.do = "look up"
      BY <1>4, <2>1, <2>3, <2>4, <3>10, LookUpLeaves DEF Do
    <3>11. CASE x.do = "add character"
      BY <1>4, <2>1, <2>3, <2>4, <3>11, AddCharacterLeaves DEF Do
    <3>12. CASE x.do = "delete character"
      BY <1>4, <2>1, <2>3, <2>4, <3>12, DeleteCharacterLeaves DEF Do
    <3>13. CASE x.do = "new account"
      BY <2>1, <2>3, <2>4, <3>13, NewAccountLeaves DEF Do
    <3> QED BY <3>1, <3>2, <3>3, <3>4, <3>5, <3>6, <3>7, <3>8, <3>9, <3>10, <3>11, <3>12, <3>13
            DEF Steps, StepNames, Editors
  <2> QED BY <1>1, <1>5, <2>1, <2>2, <2>3, <2>5, StepKeeps
<1> QED BY <1>6, <1>7

LEMMA StepIs ==
    ASSUME NEW d \in StepNames, NEW c \in Chars \cup Accounts \cup {""},
           d = "load" => c \in Accounts
    PROVE  Step(d, c) \in Steps /\ Step(d, c).do = d /\ Step(d, c).on = c
BY DEF Step, Steps

LEMMA BareStep ==
    ASSUME NEW d \in StepNames \ {"load"}
    PROVE  Step(d, "") \in Steps /\ Step(d, "").do = d
BY StepIs

\* A list of one or two steps that is no switch, and two lists in a row.
LEMMA ShortSave ==
    ASSUME NEW a \in Steps, NEW b \in Steps, a.do \notin {"set active", "new account"},
           b.do \notin {"set active", "new account"}
    PROVE  /\ SwitchesSave(<<a>>) /\ SwitchesSave(<<a, b>>)
           /\ a.do = "save account" => Saves(<<a, b>>)
<1>1. PICK u : u = <<a>>
  OBVIOUS
<1>2. PICK w : w = <<a, b>>
  OBVIOUS
<1>3. Len(u) = 1 /\ u[1] = a /\ Len(w) = 2 /\ w[1] = a /\ w[2] = b
  BY <1>1, <1>2
<1>4. /\ \A i \in 1..Len(u) : i = 1
      /\ \A i \in 1..Len(w) : i = 1 \/ i = 2
      /\ 1 \in 1..Len(w)
  BY ONLY <1>3
<1>5. SwitchesSave(u) /\ SwitchesSave(w) /\ (a.do = "save account" => Saves(w))
  BY <1>3, <1>4 DEF SwitchesSave, Saves
<1> QED BY <1>1, <1>2, <1>5

LEMMA InARow ==
    ASSUME NEW s, NEW u, NEW a, NEW b, NEW y, NEW z, Runs(s, a, y), Runs(u, b, z), Fits(y, b),
           SwitchesSave(u), SwitchesSave(s) \/ Saves(u)
    PROVE  /\ Runs(s \o u, a, z) /\ SwitchesSave(s \o u)
           /\ Saves(s) \/ Saves(u) => Saves(s \o u)
<1>1. s \in Seq(Steps) /\ u \in Seq(Steps)
  BY DEF Runs
<1> QED BY <1>1, Joined, JoinedSave

SA == Step("save account", "")
SC == Step("save config", "")
SR == Step("save root", "")

LEMMA SaveRuns ==
    /\ SA \in Steps /\ SC \in Steps /\ SA.do = "save account" /\ SC.do = "save config"
    /\ Runs(Save, SA, SC) /\ SwitchesSave(Save) /\ Saves(Save)
<1>1. SA \in Steps /\ SC \in Steps /\ SA.do = "save account" /\ SC.do = "save config"
  BY BareStep DEF SA, SC, StepNames
<1>2. Fits(SA, SC)
  BY <1>1 DEF Fits, Changers, Editors, Firsts
<1>3. Save = <<SA, SC>>
  BY DEF Save, SA, SC
<1> QED BY <1>1, <1>2, <1>3, Pair, ShortSave

LEMMA SaveFileRuns ==
    /\ SR \in Steps /\ SR.do = "save root" /\ Runs(SaveFile, SR, SR) /\ SwitchesSave(SaveFile)
<1>1. SR \in Steps /\ SR.do = "save root"
  BY BareStep DEF SR, StepNames
<1>2. SaveFile = <<SR>>
  BY DEF SaveFile, SR
<1> QED BY <1>1, <1>2, Single, ShortSave

LEMMA SwitchRuns ==
    ASSUME NEW c \in Chars
    PROVE  /\ Step("set active", c) \in Steps /\ Step("set active", c).do = "set active"
           /\ Runs(SwitchCharacter(c), Step("set active", c), SC)
           /\ SwitchesSave(SwitchCharacter(c)) /\ Saves(SwitchCharacter(c))
<1> DEFINE a == Step("set active", c)
           b == Step("refresh", "")
<1>1. a \in Steps /\ a.do = "set active" /\ b \in Steps /\ b.do = "refresh"
  <2>1. a \in Steps /\ a.do = "set active"
    <3>1. "set active" \in StepNames /\ c \in Chars \cup Accounts \cup {""}
      BY DEF StepNames
    <3> QED BY ONLY <3>1, c \in Chars, StepIs
  <2> QED BY <2>1, BareStep DEF StepNames
<1>2. SwitchCharacter(c) = <<a, b>> \o Save
  BY DEF SwitchCharacter
<1> HIDE DEF a, b
<1>3. Fits(a, b) /\ Fits(b, SA)
  BY <1>1, SaveRuns DEF Fits, Changers, Editors, Firsts
<1>4. Runs(<<a, b>>, a, b)
  BY <1>1, <1>3, Pair
<1>5. /\ Runs(SwitchCharacter(c), a, SC)
      /\ SwitchesSave(SwitchCharacter(c)) /\ Saves(SwitchCharacter(c))
  BY <1>2, <1>3, <1>4, SaveRuns, InARow
<1> QED BY <1>1, <1>5 DEF a

LEMMA ReloadRuns ==
    /\ Step("reload", "") \in Steps /\ Step("reload", "").do = "reload"
    /\ Step("refresh", "") \in Steps /\ Step("refresh", "").do = "refresh"
    /\ Runs(Synchronise, Step("reload", ""), Step("refresh", "")) /\ SwitchesSave(Synchronise)
    /\ Runs(ReloadAll, Step("reload", ""), SC) /\ SwitchesSave(ReloadAll)
<1> DEFINE a == Step("reload", "")
           b == Step("refresh", "")
           c == Step("register", "")
<1>1. /\ a \in Steps /\ a.do = "reload" /\ b \in Steps /\ b.do = "refresh"
      /\ c \in Steps /\ c.do = "register"
  BY BareStep DEF StepNames
<1>2. Synchronise = <<a, b>> /\ ReloadAll = (Synchronise \o <<c>>) \o Save
  BY DEF Synchronise, ReloadAll
<1> HIDE DEF a, b, c
<1>3. Fits(a, b) /\ Fits(b, c) /\ Fits(c, SA)
  BY <1>1, SaveRuns DEF Fits, Changers, Editors, Firsts
<1>4. Runs(Synchronise, a, b) /\ SwitchesSave(Synchronise)
  BY <1>1, <1>2, <1>3, Pair, ShortSave
<1>5. Runs(<<c>>, c, c) /\ SwitchesSave(<<c>>)
  BY <1>1, Single, ShortSave
<1>6. Runs(Synchronise \o <<c>>, a, c) /\ SwitchesSave(Synchronise \o <<c>>)
  BY <1>3, <1>4, <1>5, InARow
<1>7. Runs(ReloadAll, a, SC) /\ SwitchesSave(ReloadAll)
  BY <1>2, <1>3, <1>6, SaveRuns, InARow
<1> QED BY <1>1, <1>4, <1>7 DEF a, b

LEMMA SwitchAccountRuns ==
    ASSUME NEW x \in Accounts
    PROVE  /\ Runs(SwitchAccount(x), SA, SC) /\ SwitchesSave(SwitchAccount(x))
           /\ Saves(SwitchAccount(x))
<1> DEFINE a == Step("load", x)
           b == Step("refresh", "")
<1>1. a \in Steps /\ a.do = "load" /\ b \in Steps /\ b.do = "refresh"
  <2>1. a \in Steps /\ a.do = "load"
    <3>1. "load" \in StepNames /\ x \in Chars \cup Accounts \cup {""}
      BY DEF StepNames
    <3> QED BY ONLY <3>1, x \in Accounts, StepIs
  <2> QED BY <2>1, BareStep DEF StepNames
<1>2. SwitchAccount(x) = (Save \o <<a, b>>) \o Save
  BY DEF SwitchAccount
<1> HIDE DEF a, b
<1>3. Fits(a, b) /\ Fits(b, SA) /\ Fits(SC, a)
  BY <1>1, SaveRuns DEF Fits, Changers, Editors, Firsts
<1>4. Runs(<<a, b>>, a, b) /\ SwitchesSave(<<a, b>>)
  BY <1>1, <1>3, Pair, ShortSave
<1>5. Runs(Save \o <<a, b>>, SA, b) /\ SwitchesSave(Save \o <<a, b>>)
  BY <1>3, <1>4, SaveRuns, InARow
<1> QED BY <1>2, <1>3, <1>5, SaveRuns, InARow

\* An operation that ends in a save makes sure of the entries at last.
LEMMA EnsuredRuns ==
    ASSUME NEW s, NEW a, Runs(s, a, SC), SwitchesSave(s)
    PROVE  /\ Step("ensure", "") \in Steps /\ Fits(Step("ensure", ""), Rest)
           /\ Runs(s \o <<Step("ensure", "")>>, a, Step("ensure", ""))
           /\ SwitchesSave(s \o <<Step("ensure", "")>>)
<1> DEFINE b == Step("ensure", "")
<1>1. b \in Steps /\ b.do = "ensure"
  BY BareStep DEF StepNames
<1> HIDE DEF b
<1>2. Fits(SC, b) /\ Fits(b, Rest)
  BY <1>1, SaveRuns DEF Fits, Changers, Editors, Firsts, Rest
<1>3. Runs(<<b>>, b, b) /\ SwitchesSave(<<b>>)
  BY <1>1, Single, ShortSave
<1>4. Runs(s \o <<b>>, a, b) /\ SwitchesSave(s \o <<b>>)
  BY <1>2, <1>3, InARow
<1> QED BY <1>1, <1>2, <1>4 DEF b

LEMMA OperationKeeps ==
    ASSUME StoreIInv, ~Overlap, NEW t \in Threads, NEW s, NEW a \in Steps, NEW z \in Steps,
           Runs(s, a, z), Fits(z, Rest), SwitchesSave(s), MayStart(a), Begin(t, s)
    PROVE  StoreIInv'
<1>1. InOrder(s) /\ s # <<>> /\ s[1] = a
  BY DEF InOrder, Runs
<1>2. /\ Free(t) /\ todo' = [todo EXCEPT ![t] = s]
      /\ UNCHANGED <<config, file, root, flat, shared, creds, running, held, owner, saved, failed>>
  BY DEF Begin, disk, memory
<1>3. running' \in {"no", "scheduled", "direct"}
  BY <1>2 DEF StoreIInv, PhaseOK
<1> QED BY <1>1, <1>2, <1>3, BeginKeeps

-----------------------------------------------------------------------------
(* One lemma for each action.                                              *)

LEMMA SaveTaskKeeps == ASSUME StoreIInv, ~Overlap, SaveTask PROVE StoreIInv'
<1>1. "web" \in Threads
  BY DEF Threads
<1>2. CanEdit
  BY DEF SaveTask
<1>3. ASSUME NEW d \in {"edit active", "edit flat"}, Web(<<Step(d, "")>> \o Save)
      PROVE  StoreIInv'
  <2>1. Step(d, "") \in Steps /\ Step(d, "").do = d
    BY BareStep DEF StepNames
  <2>2. Fits(Step(d, ""), SA) /\ Fits(SC, Rest)
    BY <2>1, SaveRuns DEF Fits, Changers, Editors, Firsts, Rest
  <2>3. Runs(<<Step(d, "")>> \o Save, Step(d, ""), SC) /\ SwitchesSave(<<Step(d, "")>> \o Save)
    BY <2>1, <2>2, Single, SaveRuns, InARow
  <2>4. MayStart(Step(d, ""))
    BY <1>2, <2>1 DEF MayStart, CanEdit
  <2> QED BY <1>1, <1>3, <2>1, <2>2, <2>3, <2>4, SaveRuns, OperationKeeps DEF Web
<1>4. ASSUME NEW c \in Others, Web(<<Step("edit other", c)>> \o SaveFile) PROVE StoreIInv'
  <2> DEFINE a == Step("edit other", c)
  <2>1. c \in DOMAIN root.tables /\ c # root.active /\ c \in Chars
    BY DEF Others, StoreIInv, Good, RootOK, Of
  <2>2. a \in Steps /\ a.do = "edit other" /\ a.on = c
    BY <2>1, StepIs DEF StepNames
  <2> HIDE DEF a
  <2>3. Fits(a, SR) /\ Fits(SR, Rest)
    BY <2>2, SaveFileRuns DEF Fits, Changers, Editors, Firsts, Rest
  <2>4. Runs(<<a>>, a, a) /\ SwitchesSave(<<a>>)
    BY <2>2, Single, ShortSave
  <2>5. Runs(<<a>> \o SaveFile, a, SR) /\ SwitchesSave(<<a>> \o SaveFile)
    BY <2>3, <2>4, SaveFileRuns, InARow
  <2>6. MayStart(a)
    BY <1>2, <2>1, <2>2 DEF MayStart, CanEdit
  <2> QED BY <1>1, <1>4, <2>2, <2>3, <2>5, <2>6, SaveFileRuns, OperationKeeps DEF Web, a
<1> QED BY <1>3, <1>4 DEF SaveTask

LEMMA SaveSettingsKeeps == ASSUME StoreIInv, ~Overlap, SaveSettings PROVE StoreIInv'
<1>1. "web" \in Threads
  BY DEF Threads
<1>2. /\ Fits(SR, Rest) /\ Fits(SC, Rest) /\ MayStart(SR) /\ MayStart(SC)
  BY SaveRuns, SaveFileRuns DEF Fits, Changers, Editors, Firsts, Rest, MayStart
<1>3. CASE Web(SaveFile)
  BY <1>1, <1>2, <1>3, SaveFileRuns, OperationKeeps DEF Web
<1>4. CASE Web(<<Step("save config", "")>>)
  <2>1. Runs(<<SC>>, SC, SC) /\ SwitchesSave(<<SC>>)
    BY SaveRuns, Single, ShortSave
  <2> QED BY <1>1, <1>2, <1>4, <2>1, SaveRuns, OperationKeeps DEF Web, SC
<1> QED BY <1>3, <1>4 DEF SaveSettings

LEMMA SwitchKeeps == ASSUME StoreIInv, ~Overlap, Switch PROVE StoreIInv'
<1>1. PICK c \in DOMAIN root.tables : Web(SwitchCharacter(c) \o <<Step("ensure", "")>>)
  BY DEF Switch
<1>2. "web" \in Threads /\ c \in Chars
  BY DEF Threads, StoreIInv, Good, RootOK, Of
<1>3. MayStart(Step("set active", c))
  BY <1>2, SwitchRuns DEF MayStart
<1> QED BY <1>1, <1>2, <1>3, SwitchRuns, EnsuredRuns, OperationKeeps DEF Web

LEMMA ChangeAccountKeeps == ASSUME StoreIInv, ~Overlap, ChangeAccount PROVE StoreIInv'
<1>1. PICK a \in Accounts : Web(SwitchAccount(a) \o <<Step("ensure", "")>>)
  BY DEF ChangeAccount
<1>2. "web" \in Threads /\ MayStart(SA)
  BY SaveRuns DEF Threads, MayStart
<1> QED BY <1>1, <1>2, SaveRuns, SwitchAccountRuns, EnsuredRuns, OperationKeeps DEF Web

LEMMA NewCharacterKeeps == ASSUME StoreIInv, ~Overlap, NewCharacter PROVE StoreIInv'
<1>1. PICK c \in Of(root.acc) \ DOMAIN root.tables :
         Web(((<<Step("add character", c)>> \o SaveFile) \o SwitchCharacter(c))
             \o <<Step("ensure", "")>>)
  BY DEF NewCharacter
<1> DEFINE a == Step("add character", c)
           b == Step("set active", c)
<1>2. "web" \in Threads /\ c \in Chars
  BY DEF Threads, Of
<1>3. a \in Steps /\ a.do = "add character" /\ a.on = c /\ b \in Steps /\ b.do = "set active"
  <2>1. a \in Steps /\ a.do = "add character" /\ a.on = c
    BY <1>2, StepIs DEF StepNames
  <2> QED BY <1>2, <2>1, SwitchRuns
<1>4. Fits(a, SR) /\ Fits(SR, b)
  BY <1>3, SaveFileRuns DEF Fits, Changers, Editors, Firsts
<1> HIDE DEF a
<1>5. Runs(<<a>>, a, a) /\ SwitchesSave(<<a>>)
  BY <1>3, Single, ShortSave
<1>6. Runs(<<a>> \o SaveFile, a, SR) /\ SwitchesSave(<<a>> \o SaveFile)
  BY <1>4, <1>5, SaveFileRuns, InARow
<1>7. /\ Runs((<<a>> \o SaveFile) \o SwitchCharacter(c), a, SC)
      /\ SwitchesSave((<<a>> \o SaveFile) \o SwitchCharacter(c))
  BY <1>2, <1>4, <1>6, SwitchRuns, InARow
<1>8. MayStart(a)
  BY <1>1, <1>3 DEF MayStart
<1> QED BY <1>1, <1>2, <1>3, <1>7, <1>8, EnsuredRuns, OperationKeeps DEF Web, a

LEMMA RemoveCharacterKeeps == ASSUME StoreIInv, ~Overlap, RemoveCharacter PROVE StoreIInv'
<1>1. PICK c \in Others : Web((<<Step("delete character", c)>> \o SaveFile) \o SaveFile)
  BY DEF RemoveCharacter
<1> DEFINE a == Step("delete character", c)
<1>2. /\ "web" \in Threads /\ c \in Chars /\ c \in DOMAIN root.tables /\ c # root.active
  BY DEF Threads, Others, StoreIInv, Good, RootOK, Of
<1>3. a \in Steps /\ a.do = "delete character" /\ a.on = c
  BY <1>2, StepIs DEF StepNames
<1> HIDE DEF a
<1>4. Fits(a, SR) /\ Fits(SR, SR) /\ Fits(SR, Rest)
  BY <1>3, SaveFileRuns DEF Fits, Changers, Editors, Firsts, Rest
<1>5. Runs(<<a>>, a, a) /\ SwitchesSave(<<a>>)
  BY <1>3, Single, ShortSave
<1>6. Runs(<<a>> \o SaveFile, a, SR) /\ SwitchesSave(<<a>> \o SaveFile)
  BY <1>4, <1>5, SaveFileRuns, InARow
<1>7. /\ Runs((<<a>> \o SaveFile) \o SaveFile, a, SR)
      /\ SwitchesSave((<<a>> \o SaveFile) \o SaveFile)
  BY <1>4, <1>6, SaveFileRuns, InARow
<1>8. MayStart(a)
  BY <1>2, <1>3 DEF MayStart
<1> QED BY <1>1, <1>2, <1>3, <1>4, <1>7, <1>8, SaveFileRuns, OperationKeeps DEF Web, a

LEMMA NewFirstKeeps == ASSUME StoreIInv, ~Overlap, NewFirst PROVE StoreIInv'
<1>1. PICK c \in Chars : /\ ~Exists(Home[c])
                         /\ Web((<<Step("new account", c)>> \o SwitchAccount(Home[c]))
                                \o <<Step("ensure", "")>>)
  BY DEF NewFirst
<1> DEFINE a == Step("new account", c)
<1>2. "web" \in Threads /\ Home[c] \in Accounts
  BY DEF Threads, Accounts
<1>3. a \in Steps /\ a.do = "new account" /\ a.on = c
  BY StepIs DEF StepNames
<1> HIDE DEF a
<1>4. Fits(a, SA)
  BY <1>3, SaveRuns DEF Fits, Changers, Editors, Firsts
<1>5. Runs(<<a>>, a, a)
  BY <1>3, Single
<1>6. /\ Runs(<<a>> \o SwitchAccount(Home[c]), a, SC)
      /\ SwitchesSave(<<a>> \o SwitchAccount(Home[c]))
  BY <1>2, <1>4, <1>5, SwitchAccountRuns, InARow
<1>7. MayStart(a)
  BY <1>1, <1>3 DEF MayStart
<1> QED BY <1>1, <1>2, <1>3, <1>6, <1>7, EnsuredRuns, OperationKeeps DEF Web, a

LEMMA OutcomeKeeps == ASSUME StoreIInv, ~Overlap, Outcome PROVE StoreIInv'
<1> DEFINE a == Step("look up", "")
           b == Step("write entry", "")
<1>1. CanEdit /\ Begin("run", <<a, b>> \o Save) /\ "run" \in Threads
  BY DEF Outcome, Threads
<1>2. a \in Steps /\ a.do = "look up" /\ b \in Steps /\ b.do = "write entry"
  BY BareStep DEF StepNames
<1> HIDE DEF a, b
<1>3. Fits(a, b) /\ Fits(b, SA) /\ Fits(SC, Rest)
  BY <1>2, SaveRuns DEF Fits, Changers, Editors, Firsts, Rest
<1>4. Runs(<<a, b>>, a, b)
  BY <1>2, <1>3, Pair
<1>5. Runs(<<a, b>> \o Save, a, SC) /\ SwitchesSave(<<a, b>> \o Save)
  BY <1>3, <1>4, SaveRuns, InARow
<1>6. MayStart(a)
  BY <1>1, <1>2 DEF MayStart, CanEdit
<1> QED BY <1>1, <1>2, <1>3, <1>5, <1>6, SaveRuns, OperationKeeps

LEMMA ReloadsKeep ==
    ASSUME StoreIInv, ~Overlap, NEW t \in Threads,
           Begin(t, Save) \/ Begin(t, ReloadAll) \/ Begin(t, Synchronise)
    PROVE  StoreIInv'
<1> DEFINE a == Step("reload", "")
           b == Step("refresh", "")
<1>1. a \in Steps /\ a.do = "reload" /\ b \in Steps /\ b.do = "refresh"
  BY ReloadRuns
<1>2. MayStart(SA) /\ MayStart(a)
  BY <1>1, SaveRuns DEF MayStart
<1>3. Fits(SC, Rest) /\ Fits(b, Rest)
  BY <1>1, SaveRuns DEF Fits, Changers, Editors, Firsts, Rest
<1>4. CASE Begin(t, Save)
  BY <1>2, <1>3, <1>4, SaveRuns, OperationKeeps
<1>5. CASE Begin(t, ReloadAll)
  BY <1>1, <1>2, <1>3, <1>5, SaveRuns, ReloadRuns, OperationKeeps
<1>6. CASE Begin(t, Synchronise)
  BY <1>1, <1>2, <1>3, <1>6, ReloadRuns, OperationKeeps
<1> QED BY <1>4, <1>5, <1>6

LEMMA EndTurnKeeps == ASSUME StoreIInv, ~Overlap, EndTurn PROVE StoreIInv'
BY ReloadsKeep DEF EndTurn, Threads

LEMMA SyncKeeps == ASSUME StoreIInv, ~Overlap, Sync PROVE StoreIInv'
BY ReloadsKeep DEF Sync, Threads

LEMMA NextCharacterKeeps == ASSUME StoreIInv, ~Overlap, NextCharacter PROVE StoreIInv'
<1>1. PICK c \in DOMAIN root.tables : Begin("run", SwitchCharacter(c))
  BY DEF NextCharacter, Others
<1>2. "run" \in Threads /\ c \in Chars
  BY DEF Threads, StoreIInv, Good, RootOK, Of
<1>3. MayStart(Step("set active", c)) /\ Fits(SC, Rest)
  BY <1>2, SwitchRuns, SaveRuns DEF MayStart, Fits, Changers, Editors, Firsts, Rest
<1> QED BY <1>1, <1>2, <1>3, SwitchRuns, SaveRuns, OperationKeeps

\* The actions that move neither a table nor a list.
LEMMA AsideKeeps == ASSUME StoreIInv, StartRun \/ EndRun \/ EditConfig PROVE StoreIInv'
<1>1. /\ config' \in Accounts /\ running' \in {"no", "scheduled", "direct"}
      /\ UNCHANGED <<file, root, flat, shared, creds, todo, held, owner, saved, failed>>
  BY DEF StartRun, EndRun, EditConfig, disk, memory, StoreIInv, Good, FlagsOK, PhaseOK
<1>2. /\ Good' /\ (Synced' <=> Synced) /\ \A e : InTable(e)' <=> InTable(e)
      /\ \A x \in Steps \cup {Rest} : Data(x) => Data(x)'
  BY <1>1, Unmoved DEF StoreIInv
<1>3. SavedHere' /\ Lists' /\ PhaseOK'
  BY <1>1, <1>2 DEF StoreIInv, SavedHere, Lists, PhaseOK
<1>4. AtStep'
  <2> SUFFICES ASSUME NEW u \in Threads, NEW x \in Steps \cup {Rest}, Turn(u)', Now(todo'[u]) = x
               PROVE  Data(x)'
    BY DEF AtStep
  <2>1. Turn(u) /\ Now(todo[u]) = x
    BY <1>1 DEF Turn
  <2> QED BY <1>2, <2>1 DEF StoreIInv, AtStep
<1>5. Settled'
  <2> SUFFICES ASSUME NEW u \in Threads, Turn(u)', ~failed',
                      ~Saves(todo'[u]) \/ Now(todo'[u]).do = "set active"
               PROVE  Synced'
    BY DEF Settled
  <2>1. Turn(u) /\ todo'[u] = todo[u] /\ ~failed
    BY <1>1 DEF Turn
  <2> QED BY <1>2, <2>1 DEF StoreIInv, Settled
<1> QED BY <1>2, <1>3, <1>4, <1>5 DEF StoreIInv

\* The configuration is opened: an account is read, and shown.
LEMMA Opened ==
    ASSUME Good, NEW a \in Accounts, root' = Loaded(a), Written(a), flat' = Shown(root'),
           shared' = TRUE, held' = FALSE, creds' \in {"none", a}, config' = config, OwnerOK',
           \A e \in Edits : owner'[e] = owner[e] \/ owner'[e] = "gone",
           \A e \in Edits : owner'[e] \in Chars => InTable(e)
    PROVE  /\ Good' /\ Synced' /\ \A e \in Edits : owner'[e] \in Chars => InTable(e)'
           /\ \A x \in Steps \cup {Rest} : MayStart(x)' => Data(x)'
<1>1. /\ FileOK' /\ RootOK' /\ RootHome' /\ FileHome' /\ Synced'
      /\ root'.acc = a /\ root'.active \in Chars
      /\ \A e \in Edits : owner'[e] \in Chars =>
            /\ InTable(e)'
            /\ Home[owner[e]] = a => owner[e] \in DOMAIN root'.tables
                                     /\ e \in root'.tables[owner[e]]
  BY ReadIn
<1>2. /\ DOMAIN flat' = {"acc", "who", "table"} /\ flat'.acc = root'.acc
      /\ flat'.who = root'.active /\ flat'.table = root'.tables[root'.active]
  BY DEF Shown
<1>3. FlatOK' /\ FlatHome'
  BY <1>1, <1>2 DEF FlatOK, FlatHome, RootOK, RootHome, Tabled
<1>4. FlagsOK' /\ CredentialsBelong'
  BY <1>1 DEF Good, FlagsOK, CredentialsBelong
<1>5. \A e \in Edits : owner'[e] \in Chars => owner'[e] = owner[e]
  BY NamesAside
<1>6. ASSUME NEW x \in Steps \cup {Rest}, MayStart(x)' PROVE Data(x)'
  <2>1. PageShows(x)' /\ PageAgrees(x)'
    BY <1>2 DEF PageShows, PageAgrees
  <2>2. DocHolds(x)'
    <3> SUFFICES ASSUME NEW e \in Edits, owner'[e] \in Chars, Home[owner'[e]] = a
                 PROVE  /\ owner'[e] \in DOMAIN root'.tables /\ e \in root'.tables[owner'[e]]
                        /\ owner'[e] = root'.active => e \in flat'.table
      BY <1>1 DEF DocHolds
    <3>1. owner'[e] \in DOMAIN root'.tables /\ e \in root'.tables[owner'[e]]
      BY <1>1, <1>5
    <3> QED BY <1>2, <3>1
  <2>3. FileHolds(x)'
    BY <1>1 DEF FileHolds
  <2> QED BY <1>6, <2>1, <2>2, <2>3 DEF Data
<1> QED BY <1>1, <1>3, <1>4, <1>6 DEF Good

LEMMA VerifyKeeps == ASSUME StoreIInv, ~Overlap, Verify PROVE StoreIInv'
<1>1. /\ \A t \in Threads : todo[t] = <<>>
      /\ root' = Loaded(config) /\ Written(config) /\ flat' = Shown(root') /\ shared' = TRUE
      /\ creds' = config /\ held' = FALSE
      /\ UNCHANGED <<config, todo, running, owner, saved, failed>>
  BY DEF Verify, Free, Busy
<1>2. \A e \in Edits : owner[e] \in Chars => InTable(e)
  BY <1>1, IdleIs
<1>3. config \in Accounts /\ OwnerOK'
  BY <1>1 DEF StoreIInv, Good, FlagsOK, OwnerOK
<1>4. /\ Good' /\ Synced' /\ \A e \in Edits : owner'[e] \in Chars => InTable(e)'
      /\ \A x \in Steps \cup {Rest} : MayStart(x)' => Data(x)'
  BY <1>1, <1>2, <1>3, Opened DEF StoreIInv
<1>5. SavedHere' /\ Lists' /\ PhaseOK'
  BY <1>1, <1>4 DEF StoreIInv, SavedHere, Lists, PhaseOK
<1>6. Data(Rest)'
  BY <1>4 DEF MayStart, Rest
<1>7. AtStep'
  <2> SUFFICES ASSUME NEW u \in Threads, NEW x \in Steps \cup {Rest}, Now(todo'[u]) = x
               PROVE  Data(x)'
    BY DEF AtStep
  <2>1. x = Rest
    BY <1>1, EmptyIsInOrder
  <2> QED BY <1>6, <2>1
<1>8. Settled'
  BY <1>4 DEF Settled
<1> QED BY <1>4, <1>5, <1>7, <1>8 DEF StoreIInv

LEMMA RemoveAccountKeeps == ASSUME StoreIInv, ~Overlap, RemoveAccount PROVE StoreIInv'
<1>1. PICK a \in Accounts \ {flat.acc} :
         /\ \A t \in Threads : todo[t] = <<>>
         /\ file' = [file EXCEPT ![a] = Missing]
         /\ Forget(Of(a)) /\ saved' = {e \in saved : owner[e] \notin Of(a)}
         /\ UNCHANGED <<config, root, flat, shared, creds, todo, running, held, failed>>
  BY DEF RemoveAccount, Free, Busy, memory
<1>2. /\ Data(Rest) /\ (~failed => Synced) /\ flat.acc = root.acc
      /\ \A e \in Edits : owner[e] \in Chars => InTable(e)
  BY <1>1, IdleIs
<1>3. /\ owner' = [e \in Edits |-> IF owner[e] \in Of(a) THEN "gone" ELSE owner[e]]
      /\ DOMAIN file' = Accounts /\ file'[a] = Missing /\ root.acc \in Accounts /\ root.acc # a
      /\ \A b \in Accounts \ {a} : file'[b] = file[b]
  BY <1>1, <1>2 DEF Forget, StoreIInv, Good, FileOK, RootOK
<1>4. /\ \A e \in Edits : owner'[e] \in Chars => owner'[e] = owner[e] /\ Home[owner[e]] # a
      /\ \A d \in Chars : OwnOf(d) \subseteq OwnOf(d)'
      /\ OwnerOK'
  BY <1>3, NamesAside DEF OwnOf, Of, OwnerOK, StoreIInv, Good
<1>5. FileOK'
  BY <1>3 DEF StoreIInv, Good, FileOK, Exists
<1>6. FileHome'
  <2> SUFFICES ASSUME NEW b \in Accounts, NEW d \in DOMAIN file'[b].tables
               PROVE  file'[b].tables[d] \cap Edits \subseteq OwnOf(d)'
    BY DEF FileHome
  <2>1. CASE b # a /\ Exists(b)
    BY <1>3, <1>4, <2>1 DEF StoreIInv, Good, FileHome, FileOK, Of
  <2>2. CASE b # a /\ ~Exists(b)
    BY <1>3, <2>2, MissingIsEmpty
  <2>3. CASE b = a
    BY <1>3, <2>3 DEF Missing
  <2> QED BY <2>1, <2>2, <2>3
<1>7. RootOK' /\ FlatOK' /\ FlagsOK' /\ CredentialsBelong'
  BY <1>1 DEF StoreIInv, Good, RootOK, FlatOK, FlagsOK, CredentialsBelong
<1>8. RootHome' /\ FlatHome'
  BY <1>1, <1>4 DEF StoreIInv, Good, RootHome, FlatHome, RootOK, FlatOK, Of
<1>9. Good'
  BY <1>4, <1>5, <1>6, <1>7, <1>8 DEF Good
<1>10. \A e \in Edits : owner'[e] \in Chars => InTable(e)'
  <2> SUFFICES ASSUME NEW e \in Edits, owner'[e] \in Chars PROVE InTable(e)'
    OBVIOUS
  <2>1. owner'[e] = owner[e] /\ Home[owner[e]] \in Accounts \ {a} /\ InTable(e)
    BY <1>2, <1>4 DEF Accounts
  <2> QED BY <1>3, <2>1 DEF InTable, Exists
<1>11. SavedHere'
  <2>1. \A e \in saved' : e \in Edits /\ owner'[e] \in Chars
    BY <1>1, <1>3 DEF StoreIInv, SavedHere
  <2> QED BY <1>10, <2>1 DEF SavedHere
<1>12. Data(Rest)'
  <2>1. PageShows(Rest)' /\ PageAgrees(Rest)'
    BY <1>1, <1>2 DEF Data, PageShows, PageAgrees
  <2>2. DocHolds(Rest)'
    <3>1. \A e \in Edits : owner[e] \in Chars /\ Home[owner[e]] = root.acc =>
             owner[e] \in DOMAIN root.tables /\ e \in root.tables[owner[e]]
      BY <1>2 DEF Data, DocHolds, Rest
    <3> QED BY <1>1, <1>4, <3>1 DEF DocHolds, Rest
  <2>3. FileHolds(Rest)' /\ MayStart(Rest)'
    BY <1>10 DEF FileHolds, MayStart, Rest
  <2> QED BY <2>1, <2>2, <2>3 DEF Data
<1>13. AtStep'
  <2> SUFFICES ASSUME NEW u \in Threads, NEW x \in Steps \cup {Rest}, Now(todo'[u]) = x
               PROVE  Data(x)'
    BY DEF AtStep
  <2>1. x = Rest
    BY <1>1, EmptyIsInOrder
  <2> QED BY <1>12, <2>1
<1>14. Settled'
  BY <1>1, <1>2, <1>3 DEF Settled, Synced
<1>15. Lists' /\ PhaseOK'
  BY <1>1 DEF StoreIInv, Lists, PhaseOK
<1> QED BY <1>9, <1>11, <1>13, <1>14, <1>15 DEF StoreIInv

\* What is given up when a behaviour is broken off: the edits whose file has them not.
LEMMA DroppedIs ==
    ASSUME StoreIInv, DropUnsaved
    PROVE  /\ OwnerOK' /\ \A e \in Edits : owner'[e] = owner[e] \/ owner'[e] = "gone"
           /\ \A e \in Edits : owner'[e] \in Chars => InTable(e) /\ owner'[e] = owner[e]
           /\ \A e \in saved : owner'[e] = owner[e]
           /\ \A d \in Chars : OwnOf(d) \subseteq OwnOf(d)'
<1>1. owner' = [e \in Edits |-> IF owner[e] \in Chars /\ e \notin saved /\ ~InFile(e)
                                THEN "gone" ELSE owner[e]]
  BY DEF DropUnsaved
<1>2. ASSUME NEW e \in Edits, owner[e] \in Chars, InFile(e) PROVE InTable(e)
  <2>1. PICK c \in DOMAIN file[Home[owner[e]]].tables : e \in file[Home[owner[e]]].tables[c]
    BY <1>2 DEF InFile
  <2>2. Exists(Home[owner[e]]) /\ Home[owner[e]] \in Accounts
    BY <1>2 DEF InFile, Accounts
  <2>3. e \in OwnOf(c) /\ c \in Chars
    BY <2>1, <2>2 DEF StoreIInv, Good, FileHome, FileOK, Of
  <2>4. owner[e] = c
    BY <1>2, <2>3, NamesAside DEF OwnOf
  <2> QED BY <2>1, <2>2, <2>4 DEF InTable
<1>3. \A e \in Edits : owner'[e] \in Chars => InTable(e) /\ owner'[e] = owner[e]
  BY <1>1, <1>2, NamesAside DEF StoreIInv, SavedHere
<1>4. OwnerOK' /\ \A e \in Edits : owner'[e] = owner[e] \/ owner'[e] = "gone"
  BY <1>1 DEF StoreIInv, Good, OwnerOK
<1>5. \A e \in saved : owner'[e] = owner[e]
  BY <1>1 DEF StoreIInv, SavedHere
<1>6. \A d \in Chars : OwnOf(d) \subseteq OwnOf(d)'
  BY <1>4 DEF OwnOf
<1> QED BY <1>3, <1>4, <1>5, <1>6

LEMMA RestartKeeps == ASSUME StoreIInv, ~Overlap, Restart PROVE StoreIInv'
<1> DEFINE a == Step("register", "")
           s == <<a>> \o Save
<1>1. /\ root' = Loaded(config) /\ Written(config) /\ flat' = Shown(root') /\ shared' = TRUE
      /\ creds' = "none" /\ held' = FALSE /\ running' = "no" /\ DropUnsaved
      /\ todo' = [t \in Threads |-> IF t = "web" THEN s ELSE <<>>]
      /\ UNCHANGED <<config, saved, failed>>
  BY DEF Restart
<1>2. a \in Steps /\ a.do = "register"
  BY BareStep DEF StepNames
<1> HIDE DEF a
<1>3. Fits(a, SA) /\ Fits(SC, Rest)
  BY <1>2, SaveRuns DEF Fits, Changers, Editors, Firsts, Rest
<1>4. Runs(s, a, SC) /\ SwitchesSave(s) /\ Saves(s)
  BY <1>2, <1>3, Single, SaveRuns, InARow
<1> HIDE DEF s
<1>5. InOrder(s) /\ s # <<>> /\ Now(s) = a
  <2>1. InOrder(s)
    BY <1>2, <1>3, <1>4, SaveRuns DEF InOrder
  <2>2. s # <<>> /\ s[1] = a
    BY <1>4 DEF Runs
  <2> QED BY <2>1, <2>2 DEF Now
<1>6. /\ OwnerOK' /\ \A e \in Edits : owner'[e] = owner[e] \/ owner'[e] = "gone"
      /\ \A e \in Edits : owner'[e] \in Chars => InTable(e)
      /\ \A e \in saved : owner'[e] = owner[e]
  BY <1>1, DroppedIs
<1>7. /\ Good' /\ Synced' /\ \A e \in Edits : owner'[e] \in Chars => InTable(e)'
      /\ \A x \in Steps \cup {Rest} : MayStart(x)' => Data(x)'
  <2>1. config \in Accounts
    BY DEF StoreIInv, Good, FlagsOK
  <2> QED BY <1>1, <1>6, <2>1, Opened DEF StoreIInv
<1>8. Data(a)'
  BY <1>2, <1>7 DEF MayStart
<1>9. /\ DOMAIN todo' = Threads /\ todo'["web"] = s /\ "web" \in Threads
      /\ \A t \in Threads \ {"web"} : todo'[t] = <<>>
  BY <1>1 DEF Threads
<1>10. Lists' /\ PhaseOK'
  BY <1>1, <1>4, <1>5, <1>9, EmptyIsInOrder DEF StoreIInv, Lists, PhaseOK
<1>11. SavedHere'
  BY <1>1, <1>6, <1>7 DEF StoreIInv, SavedHere
<1>12. AtStep'
  <2> SUFFICES ASSUME NEW u \in Threads, NEW x \in Steps \cup {Rest}, Turn(u)', Now(todo'[u]) = x
               PROVE  Data(x)'
    BY DEF AtStep
  <2>1. u = "web"
    BY <1>5, <1>9 DEF Turn
  <2> QED BY <1>5, <1>8, <1>9, <2>1
<1>13. Settled'
  BY <1>7, ZenonT(60) DEF Settled
<1> QED BY <1>7, <1>10, <1>11, <1>12, <1>13 DEF StoreIInv

LEMMA SaveFailsKeeps == ASSUME StoreIInv, ~Overlap, NEW t \in Threads, SaveFails(t) PROVE StoreIInv'
<1> USE DEF StoreIInv
<1>1. PICK s : s = todo[t] /\ s # <<>> /\ InOrder(s)
  BY DEF SaveFails, Busy, Lists
<1>2. PICK x \in Steps : x = s[1] /\ x = Head(s)
  BY <1>1, Taken
<1>3. /\ x.do \in {"save account", "save config", "save root"} /\ todo' = [todo EXCEPT ![t] = <<>>]
      /\ IF x.do = "save account"
         THEN root' = [root EXCEPT !.tables = Prepared] /\ shared' = FALSE
         ELSE UNCHANGED <<root, shared>>
      /\ DropUnsaved /\ failed' = TRUE
      /\ UNCHANGED <<config, file, flat, creds, running, held, saved>>
  BY <1>1, <1>2 DEF SaveFails, disk
<1>4. Data(x)
  <2>1. Turn(t) /\ Now(todo[t]) = x
    BY <1>1, <1>2 DEF Lists, Turn, Now
  <2> QED BY <2>1 DEF AtStep
<1>5. /\ OwnerOK' /\ \A e \in Edits : owner'[e] = owner[e] \/ owner'[e] = "gone"
      /\ \A e \in Edits : owner'[e] \in Chars => InTable(e) /\ owner'[e] = owner[e]
      /\ \A e \in saved : owner'[e] = owner[e]
      /\ \A d \in Chars : OwnOf(d) \subseteq OwnOf(d)'
  BY <1>3, DroppedIs
<1>6. /\ flat.who = root.active /\ flat.acc = root.acc /\ root.active \in DOMAIN root.tables
      /\ \A c \in DOMAIN root.tables : c \in Chars
  BY <1>3, <1>4 DEF Data, PageShows, Good, RootOK, Of
<1>7. /\ DOMAIN root' = {"acc", "active", "tables"} /\ root'.acc = root.acc
      /\ root'.active = root.active /\ DOMAIN root'.tables = DOMAIN root.tables
      /\ x.do = "save account" => root'.tables[root.active] = flat.table
      /\ x.do # "save account" => root'.tables[root.active] = root.tables[root.active]
      /\ \A c \in DOMAIN root.tables \ {root.active} : root'.tables[c] = root.tables[c]
  BY <1>3, PreparedIs DEF Good, RootOK
<1>8. RootOK'
  <2>1. Tabled(root'.tables)
    BY <1>7 DEF Good, RootOK, FlatOK, Tabled
  <2> QED BY <1>7, <2>1 DEF Good, RootOK
<1>9. RootHome'
  <2> SUFFICES ASSUME NEW c \in DOMAIN root.tables
               PROVE  root'.tables[c] \cap Edits \subseteq OwnOf(c)'
    BY <1>7 DEF RootHome
  <2>1. /\ root.tables[c] \cap Edits \subseteq OwnOf(c) /\ OwnOf(c) \subseteq OwnOf(c)'
        /\ flat.table \cap Edits \subseteq OwnOf(root.active)
    BY <1>5, <1>6 DEF Good, RootHome, FlatHome
  <2> QED BY <1>7, <2>1
<1>10. FlatOK' /\ FlatHome' /\ FlagsOK' /\ CredentialsBelong' /\ FileOK'
  BY <1>3, <1>5, <1>7 DEF Good, FlatOK, FlatHome, FlagsOK, CredentialsBelong, FileOK, Exists
<1>11. FileHome'
  <2> SUFFICES ASSUME NEW b \in Accounts, NEW d \in DOMAIN file[b].tables
               PROVE  file[b].tables[d] \cap Edits \subseteq OwnOf(d)'
    BY <1>3 DEF FileHome
  <2>1. CASE Exists(b)
    BY <1>5, <2>1 DEF Good, FileHome, FileOK, Of
  <2>2. CASE ~Exists(b)
    BY <2>2, MissingIsEmpty
  <2> QED BY <2>1, <2>2
<1>12. \A e \in Edits : owner'[e] \in Chars => InTable(e)'
  BY <1>3, <1>5 DEF InTable, Exists
<1>13. SavedHere'
  BY <1>3, <1>5, <1>12 DEF SavedHere
<1>14. DocHolds(Rest)'
  <2> SUFFICES ASSUME NEW e \in Edits, owner'[e] \in Chars, Home[owner'[e]] = root.acc
               PROVE  owner'[e] \in DOMAIN root.tables /\ e \in root'.tables[owner'[e]]
    BY <1>7 DEF DocHolds, Rest
  <2>1. owner'[e] = owner[e] /\ owner[e] \in DOMAIN root.tables
        /\ IF x.do = "save account" /\ owner[e] = root.active
           THEN e \in flat.table ELSE e \in root.tables[owner[e]]
    BY <1>4, <1>5 DEF Data, DocHolds
  <2> QED BY <1>7, <2>1
<1>15. Data(Rest)'
  <2>1. PageShows(Rest)' /\ PageAgrees(Rest)'
    BY <1>3, <1>4, <1>6, <1>7 DEF Data, PageShows, PageAgrees
  <2>2. FileHolds(Rest)' /\ MayStart(Rest)'
    BY <1>12 DEF FileHolds, MayStart, Rest
  <2> QED BY <1>14, <2>1, <2>2 DEF Data
<1>16. \A u \in Threads : todo'[u] = <<>>
  BY <1>1, <1>3 DEF Lists
<1>17. AtStep'
  <2> SUFFICES ASSUME NEW u \in Threads, NEW y \in Steps \cup {Rest}, Now(todo'[u]) = y
               PROVE  Data(y)'
    BY DEF AtStep
  <2>1. y = Rest
    BY <1>16, EmptyIsInOrder
  <2> QED BY <1>15, <2>1
<1>18. Lists' /\ Settled' /\ PhaseOK'
  BY <1>3, <1>16, EmptyIsInOrder DEF Lists, Settled, PhaseOK
<1> QED BY <1>5, <1>8, <1>9, <1>10, <1>11, <1>13, <1>17, <1>18 DEF Good

-----------------------------------------------------------------------------

LEMMA StoreInitIInv == Init => StoreIInv
<1> SUFFICES ASSUME Init PROVE StoreIInv
  OBVIOUS
<1>1. /\ config = First
      /\ file = [a \in Accounts |->
                   IF a = First THEN NewFile(CHOOSE c \in Of(a) : TRUE) ELSE Missing]
      /\ root = Loaded(First) /\ flat = Shown(root) /\ shared = TRUE /\ creds = "none"
      /\ todo = [t \in Threads |-> <<>>] /\ running = "no" /\ held = FALSE
      /\ owner = [e \in Edits |-> "none"] /\ saved = {} /\ failed = FALSE
  BY DEF Init
<1>2. PICK c \in Chars : Home[c] = First /\ file[First] = NewFile(c)
  <2>1. First \in Accounts /\ \E c \in Of(First) : TRUE
    BY HomeAssumption DEF Accounts, Of
  <2> QED BY <1>1, <2>1 DEF Of
<1>3. /\ DOMAIN file = Accounts /\ First \in Accounts /\ Exists(First)
      /\ file[First].active = c /\ DOMAIN file[First].tables = {c} /\ file[First].tables[c] = {}
      /\ \A a \in Accounts \ {First} : file[a] = Missing
  BY <1>1, <1>2, HomeAssumption DEF NewFile, Exists, Missing
<1>4. /\ DOMAIN root = {"acc", "active", "tables"} /\ root.acc = First /\ root.active = c
      /\ root.tables = file[First].tables
  BY <1>1, <1>3 DEF Loaded, Read
<1>5. /\ DOMAIN flat = {"acc", "who", "table"} /\ flat.acc = First /\ flat.who = c
      /\ flat.table = {}
  BY <1>1, <1>3, <1>4 DEF Shown
<1>6. FileOK /\ RootOK /\ FlatOK
  BY <1>2, <1>3, <1>4, <1>5 DEF FileOK, RootOK, FlatOK, Exists, Tabled, Of
<1>7. OwnerOK /\ FlagsOK /\ CredentialsBelong
  BY <1>1, <1>3 DEF OwnerOK, FlagsOK, CredentialsBelong
<1>8. RootHome /\ FlatHome
  BY <1>3, <1>4, <1>5 DEF RootHome, FlatHome
<1>9. FileHome
  <2> SUFFICES ASSUME NEW a \in Accounts, NEW d \in DOMAIN file[a].tables
               PROVE  file[a].tables[d] \cap Edits \subseteq OwnOf(d)
    BY DEF FileHome
  <2>1. CASE a = First
    BY <1>3, <2>1
  <2>2. CASE a # First
    BY <1>3, <2>2, MissingIsEmpty DEF Exists
  <2> QED BY <2>1, <2>2
<1>10. \A e \in Edits : owner[e] \notin Chars
  BY <1>1, NamesAside
<1>11. Data(Rest) /\ Synced
  BY <1>3, <1>4, <1>5, <1>10
     DEF Data, Rest, PageShows, PageAgrees, DocHolds, FileHolds, MayStart, Synced
<1>12. AtStep /\ Settled
  BY <1>1, <1>11, EmptyIsInOrder DEF AtStep, Settled
<1>13. SavedHere /\ Lists /\ PhaseOK
  BY <1>1, EmptyIsInOrder DEF SavedHere, Lists, PhaseOK
<1> QED BY <1>6, <1>7, <1>8, <1>9, <1>12, <1>13 DEF StoreIInv, Good

\* The accounts' inductive invariant, while no two operations overlap: which edits the
\* document, the page and the file hold is told by the step that is next.
THEOREM StoreInvariant == ~Overlap => (Spec => []StoreIInv)
<1>1. ~Overlap /\ StoreIInv /\ [Next]_vars => StoreIInv'
  <2> SUFFICES ASSUME ~Overlap, StoreIInv, [Next]_vars PROVE StoreIInv'
    OBVIOUS
  <2>1. CASE UNCHANGED vars
    <3>1. /\ config' \in Accounts /\ running' = running /\ todo' = todo
          /\ UNCHANGED <<file, root, flat, shared, creds, held, owner, saved, failed>>
      BY <2>1 DEF vars, StoreIInv, Good, FlagsOK
    <3>2. /\ Good' /\ (Synced' <=> Synced) /\ \A e : InTable(e)' <=> InTable(e)
          /\ \A x \in Steps \cup {Rest} : Data(x) => Data(x)'
      BY <3>1, Unmoved DEF StoreIInv
    <3>3. SavedHere' /\ Lists' /\ PhaseOK'
      BY <3>1, <3>2 DEF StoreIInv, SavedHere, Lists, PhaseOK
    <3>4. AtStep' /\ Settled'
      BY <3>1, <3>2 DEF StoreIInv, AtStep, Settled, Turn
    <3> QED BY <3>2, <3>3, <3>4 DEF StoreIInv
  <2>2. CASE Next
    BY <2>2, SaveTaskKeeps, SaveSettingsKeeps, SwitchKeeps, ChangeAccountKeeps,
       NewCharacterKeeps, RemoveCharacterKeeps, NewFirstKeeps, RemoveAccountKeeps, VerifyKeeps,
       OutcomeKeeps, EndTurnKeeps, NextCharacterKeeps, SyncKeeps, AsideKeeps, RestartKeeps,
       AdvanceKeeps, SaveFailsKeeps DEF Next
  <2> QED BY <2>1, <2>2
<1> SUFFICES ASSUME ~Overlap PROVE Spec => []StoreIInv
  OBVIOUS
<1>2. StoreIInv /\ [Next]_vars => StoreIInv'
  BY <1>1
<1> QED BY StoreInitIInv, <1>2, PTL DEF Spec

LEMMA StoreIInvIsSound == StoreIInv => StoreIsSound /\ SavedIsKept
<1> SUFFICES ASSUME StoreIInv PROVE StoreIsSound /\ SavedIsKept
  OBVIOUS
<1>1. TypeOK
  <2>1. (\A t \in Threads : ~Busy(t)) => flat.who = root.active /\ flat.acc = root.acc
    BY IdleIs DEF Busy
  <2> QED BY <2>1 DEF TypeOK, StoreIInv, Good, FileOK, RootOK, FlatOK, OwnerOK, FlagsOK,
                      SavedHere, PhaseOK
<1>2. TablesStayHome
  BY DEF TablesStayHome, StoreIInv, Good, RootHome, FlatHome, FileHome
<1>3. ShownIsSaved
  <2> SUFFICES ASSUME ~failed, \A t \in Threads : todo[t] = <<>>
               PROVE  /\ file[flat.acc].active = flat.who
                      /\ flat.table \ {Entries} = file[flat.acc].tables[flat.who] \ {Entries}
    BY DEF ShownIsSaved, Busy
  <2>1. Data(Rest) /\ Synced /\ flat.who = root.active /\ flat.acc = root.acc
    BY IdleIs
  <2>2. root.tables[root.active] \ {Entries} = flat.table \ {Entries}
    BY <2>1 DEF Data, PageAgrees, Rest
  <2> QED BY <2>1, <2>2 DEF Synced
<1>4. CredentialsBelong
  BY DEF StoreIInv, Good
<1>5. SavedIsKept
  BY DEF SavedIsKept, StoreIInv, SavedHere, InTable
<1> QED BY <1>1, <1>2, <1>3, <1>4, <1>5 DEF StoreIsSound

\* An edit is in its own character's tables only, in memory and on disk, at every step of a
\* switch, a save or a reload; between operations the page shows what a restart would load; the
\* credentials are those of the account that is loaded.
THEOREM StoreSound == ~Overlap => (Spec => []StoreIsSound)
<1> SUFFICES ASSUME ~Overlap PROVE Spec => []StoreIsSound
  OBVIOUS
<1> QED BY StoreInvariant, StoreIInvIsSound, PTL

\* What an operation has saved stays in its file through switches, reloads and kills.
THEOREM SavedKept == ~Overlap => (Spec => []SavedIsKept)
<1> SUFFICES ASSUME ~Overlap PROVE Spec => []SavedIsKept
  OBVIOUS
<1> QED BY StoreInvariant, StoreIInvIsSound, PTL

-----------------------------------------------------------------------------
(* The robot that sends the messages and its scripts (QQBot), for any      *)
(* number of scripts, pids and ports: what the scripts do to one another   *)
(* and to the robot; and the robot on a computer of its own.               *)

\* The places a script can be in, and what it is asked to do.
Setups == {"remember", "write", "recipients", "notify", "deliver"}
Launches == {"login", "probe", "poll"}
Labels == {"idle", "stage", "publish", "read", "stale", "listener", "node", "kill", "forget",
           "spawn", "record", "wait"} \cup Launches \cup Setups
Errands == {"none", "install", "setup", "console", "start", "stop", "status"}
Homes == [http : HttpPorts, web : WebPorts, by : Tools \cup {Bot!Nobody}]

\* The types in three parts: of the scripts, of what runs, of the disk.
ToolTypes ==
    /\ script \in [Tools -> Labels] /\ op \in [Tools -> Errands]
    /\ pid \in [Tools -> Pids \cup {0}] /\ served \in [Tools -> SUBSET Pids]
    /\ chosen \in [Tools -> Homes \cup {Bot!Missing}]

WorldTypes ==
    /\ process \in [Pids -> {"none", "bot", "node", "other"}]
    /\ listener \in [Bot!Ports -> Pids \cup {0}]
    /\ starting \subseteq Bot!Robots /\ logged \subseteq Bot!Robots /\ used \subseteq Pids
    /\ \A n \in Bot!Ports : listener[n] # 0 => process[listener[n]] # "none"

DiskTypes ==
    /\ place \in Homes \cup {Bot!Missing} /\ settings \in {"new", "account", "torn"}
    /\ pidFile \in Pids \cup {0}

\* A console holds its lock.
ConsoleLocks == \A t \in Tools : op[t] = "console" /\ script[t] # "idle" => runLock = t

\* What a script is asked to do says where it can be.
Doing(t) ==
    /\ script[t] \in {"stage", "publish"} => op[t] \in {"install", "setup"}
    /\ script[t] \in Setups => op[t] = "setup"
    /\ script[t] \in Launches => op[t] \in {"start", "setup"}
    /\ script[t] \in {"spawn", "record"} => op[t] \in {"start", "setup", "console"}
    /\ script[t] = "wait" => op[t] = "console"
    /\ script[t] \in {"read", "stale"} => op[t] \in {"start", "setup", "stop", "status"}
    /\ script[t] \in {"listener", "node"} => op[t] \in {"stop", "status"}
    /\ script[t] = "kill" => op[t] = "stop"
    /\ script[t] = "forget" => op[t] \in {"stop", "console"}
    /\ script[t] = "publish" => chosen[t] \in Homes
    /\ script[t] \in {"record", "wait", "node", "kill"} => pid[t] \in Pids
Errand == \A t \in Tools : Doing(t)

BotTypes == ToolTypes /\ WorldTypes /\ DiskTypes /\ ConsoleLocks /\ Errand

\* Whoever wants to start a robot has an installation, and so has every robot.
Housed ==
    /\ \A t \in Tools :
          script[t] \notin {"idle", "stage", "publish"} /\ op[t] \notin {"stop", "status"}
          => Bot!Installed
    /\ Bot!Robots # {} => Bot!Installed

\* The installation is the first one, and its settings are what the setups have made of them.
Furnished ==
    /\ place = first
    /\ \A t \in Tools :
          script[t] \in Setups \ {"remember"} => Bot!Installed /\ settings # "new"
    /\ noted => Bot!Installed /\ settings # "new"

\* A pid that is recorded, or about to be, or to be killed, is that of a node program, or its
\* process has ended before.
Familiar(p) == process[p] \in {"bot", "node"} \/ p \in used
Acquainted ==
    /\ pidFile # 0 => Familiar(pidFile)
    /\ \A t \in Tools : script[t] \in {"record", "kill"} => Familiar(pid[t])

\* Who has served all the while still does, ...
Attended ==
    \A t \in Tools : \A p \in served[t] :
        Bot!Installed /\ process[p] = "bot" /\ listener[place.http] = p

\* ... and is whom a script has found on the port.
Noticed == \A t \in Tools : script[t] = "node" => served[t] \subseteq {pid[t]}

\* While nothing is disturbed, one script is at work; ...
Idle(t) == script[t] \in {"idle", "wait"}
OneAtWork == \A t, u \in Tools : ~Idle(t) /\ ~Idle(u) => t = u

\* ... the console has recorded its robot, and there is no other but the one just made; ...
ConsoleHolds ==
    \A u \in Tools : script[u] = "wait" =>
        /\ process[pid[u]] \in {"bot", "none"}
        /\ process[pid[u]] = "bot" => pidFile = pid[u]
        /\ \A p \in Bot!Robots :
              p = pid[u] \/ \E t \in Tools : script[t] = "record" /\ pid[t] = p

\* ... a robot is launched where there is none, and what is forgotten names none.
Careful(t) ==
    /\ script[t] \in {"probe", "listener", "node"} => pidFile = 0
    /\ script[t] = "spawn" => Bot!Robots = {}
    /\ script[t] = "record" => Bot!Robots \subseteq {pid[t]} /\ process[pid[t]] \in {"bot", "none"}
    /\ script[t] = "kill" => pidFile \notin Bot!Robots \ {pid[t]}
    /\ script[t] \in {"stale", "forget"} => pidFile \notin Bot!Robots
    /\ script[t] = "forget" /\ op[t] = "console" => Bot!Robots = {}
Care == \A t \in Tools : Careful(t)

AllFound == \A p \in Bot!Robots : Bot!Found(p)

Undisturbed == OneAtWork /\ ConsoleHolds /\ Care /\ AllFound

\* The inductive invariant of the scripts.
BotIInv ==
    /\ BotTypes /\ Housed /\ Furnished /\ Bot!SettingsAreWhole
    /\ Acquainted /\ Bot!StrangersLive /\ Attended /\ Noticed /\ Bot!StopFindsTheRobot
    /\ disturbed \/ Undisturbed

\* A set of ports that is not empty has a lowest one.
LEMMA LowestPort ==
    ASSUME NEW S \in SUBSET Nat, S # {}
    PROVE  Bot!Lowest(S) \in S
<1>1. PICK i \in S : \A j \in S : <<j, i>> \notin OpToRel(<, Nat)
  BY NatLessThanWellFounded, WFMin
<1>2. \A j \in S : i <= j
  <2> SUFFICES ASSUME NEW j \in S PROVE i <= j
    OBVIOUS
  <2>1. ~(j < i)
    BY <1>1 DEF OpToRel
  <2> QED BY <2>1
<1> QED BY <1>2 DEF Bot!Lowest

\* Where there is an installation there are its ports.
LEMMA HomePorts ==
    ASSUME place \in Homes \cup {Bot!Missing}, Bot!Installed
    PROVE  place.http \in Bot!Ports /\ place.web \in Bot!Ports /\ place.http # 0 /\ place \in Homes
BY BotAssumption DEF Homes, Bot!Installed, Bot!Ports

\* The ports a script chooses are among those near the preferred ones.
LEMMA ChosenIsHome ==
    ASSUME NEW t \in Tools, Bot!FreePorts(HttpPorts) # {}, Bot!FreePorts(WebPorts) # {}
    PROVE  Bot!Chosen(t) \in Homes
<1>1. /\ Bot!FreePorts(HttpPorts) \subseteq HttpPorts /\ Bot!FreePorts(HttpPorts) \in SUBSET Nat
      /\ Bot!FreePorts(WebPorts) \subseteq WebPorts /\ Bot!FreePorts(WebPorts) \in SUBSET Nat
  BY BotAssumption DEF Bot!FreePorts
<1>2. /\ Bot!Lowest(Bot!FreePorts(HttpPorts)) \in HttpPorts
      /\ Bot!Lowest(Bot!FreePorts(WebPorts)) \in WebPorts
  BY <1>1, LowestPort
<1> QED BY <1>2 DEF Bot!Chosen, Homes

\* A pid that is free has no process, and no script holds it.
LEMMA FreePid ==
    ASSUME NEW p \in Bot!FreePids
    PROVE  /\ p \in Pids /\ process[p] = "none"
           /\ \A t \in Tools : script[t] \in {"record", "wait"} => pid[t] # p
BY DEF Bot!FreePids, Bot!Held

\* Who looks for the listener has found nobody, or the one who listens.
LEMMA ListenerSteps ==
    ASSUME BotTypes, NEW t \in Tools, Bot!Listener(t)
    PROVE  \/ Bot!Steps(t, "idle")
           \/ \E p \in Pids : p = listener[place.http] /\ Bot!StepsWith(t, "node", p)
<1>1. CASE Bot!NotRunning(t) \/ Bot!Steps(t, "idle")
  BY <1>1 DEF Bot!NotRunning
<1>2. CASE Bot!Loads /\ listener[place.http] # 0 /\ Bot!StepsWith(t, "node", listener[place.http])
  <2>1. place \in Homes \cup {Bot!Missing} /\ Bot!Installed
    BY <1>2 DEF BotTypes, DiskTypes, Bot!Loads
  <2>2. listener[place.http] \in Pids
    BY <1>2, <2>1, HomePorts DEF BotTypes, WorldTypes
  <2> QED BY <1>2, <2>2
<1> QED BY <1>1, <1>2, Zenon DEF Bot!Listener, Bot!None

\* What runs, and who listens, once some processes are gone.
LEMMA GoneTypes ==
    ASSUME WorldTypes, NEW ps \in SUBSET Pids, Bot!Gone(ps)
    PROVE  WorldTypes'
<1>1. process' = [p \in Pids |-> IF p \in ps THEN "none" ELSE process[p]]
  BY DEF Bot!Gone
<1>2. listener' = [n \in Bot!Ports |-> IF listener[n] \in ps THEN 0 ELSE listener[n]]
  BY DEF Bot!Gone, Bot!None
<1>3. process' \in [Pids -> {"none", "bot", "node", "other"}]
  BY <1>1 DEF WorldTypes
<1>4. listener' \in [Bot!Ports -> Pids \cup {0}]
  BY <1>2 DEF WorldTypes
<1>5. starting' \subseteq Bot!Robots' /\ logged' \subseteq Bot!Robots' /\ used' \subseteq Pids
  <2>1. starting' = starting \ ps /\ logged' = logged \ ps
    BY DEF Bot!Gone
  <2>2. Bot!Robots' = Bot!Robots \ ps
    BY <1>1 DEF Bot!Robots
  <2>3. used' = used \cup {p \in ps : process[p] # "none"}
    BY DEF Bot!Gone
  <2>4. DOMAIN process = Pids
    BY DEF WorldTypes
  <2>5. used' \subseteq Pids
    BY <2>3 DEF WorldTypes
  <2> QED BY <2>1, <2>2, <2>5 DEF WorldTypes
<1>6. ASSUME NEW n \in Bot!Ports, listener'[n] # 0 PROVE process'[listener'[n]] # "none"
  <2>1. listener[n] \notin ps /\ listener'[n] = listener[n]
    BY <1>2, <1>6
  <2>2. listener[n] \in Pids /\ process[listener[n]] # "none"
    BY <1>6, <2>1 DEF WorldTypes
  <2> QED BY <1>1, <2>1, <2>2
<1> QED BY <1>3, <1>4, <1>5, <1>6 DEF WorldTypes

\* A process that is gone has been used.
LEMMA GoneAreUsed ==
    ASSUME WorldTypes, NEW ps, Bot!Gone(ps)
    PROVE  /\ used \subseteq used'
           /\ \A p \in Pids : process'[p] = process[p] \/ p \in used'
           /\ Bot!Robots' = Bot!Robots \ ps
BY DEF WorldTypes, Bot!Gone, Bot!Robots

\* Whoever kills or is closed ends some of the processes that have a pid, or none.
LEMMA Killed ==
    ASSUME Errand, NEW t \in Tools, Bot!Kill(t) \/ Bot!Closed(t)
    PROVE  \E ps \in SUBSET Pids : Bot!Gone(ps) /\ Bot!StillServed(ps) /\ ps \subseteq {pid[t]}
<1>1. script[t] \in {"record", "wait", "kill"} => pid[t] \in Pids
  BY DEF Errand, Doing
<1>2. CASE Bot!Kill(t)
  BY <1>1, <1>2 DEF Bot!Kill
<1>3. CASE Bot!Closed(t)
  <2> DEFINE child == IF op[t] = "console" /\ script[t] \in {"record", "wait"} THEN {pid[t]} ELSE {}
  <2>1. Bot!Gone(child) /\ Bot!StillServed(child)
    BY <1>3 DEF Bot!Closed
  <2>2. child \in SUBSET Pids /\ child \subseteq {pid[t]}
    BY <1>1
  <2> QED BY <2>1, <2>2
<1> QED BY <1>2, <1>3

\* The steps of a script that leave what runs, and who listens, as it is.
LEMMA WorldStays ==
    ASSUME NEW t \in Tools,
           \/ Bot!Install(t) \/ Bot!Stage(t) \/ Bot!Publish(t) \/ Bot!Console(t) \/ Bot!Begin(t)
           \/ Bot!Login(t) \/ Bot!Probe(t) \/ Bot!Record(t) \/ Bot!ChildEnds(t) \/ Bot!Poll(t)
           \/ Bot!Remember(t) \/ Bot!Write(t) \/ Bot!Recipients(t) \/ Bot!WriteNotify(t)
           \/ Bot!Deliver(t) \/ Bot!Ask(t) \/ Bot!Read(t) \/ Bot!Stale(t) \/ Bot!Listener(t)
           \/ Bot!NetstatFails(t) \/ Bot!Node(t) \/ Bot!KillFails(t) \/ Bot!Forget(t)
    PROVE  UNCHANGED <<process, starting, listener, logged, used>>
BY DEF Bot!Install, Bot!Stage, Bot!Publish, Bot!Console, Bot!Begin, Bot!Login, Bot!Probe, Bot!Record,
   Bot!ChildEnds, Bot!Poll, Bot!Remember, Bot!Write, Bot!Recipients, Bot!WriteNotify, Bot!Deliver,
   Bot!Ask, Bot!Read, Bot!Stale, Bot!Listener, Bot!NetstatFails, Bot!Node, Bot!KillFails, Bot!Forget,
   Bot!worldVars

\* Every step keeps the types of what the scripts hold, ...
LEMMA ToolTypesKept == BotTypes /\ Bot!LocalNext => ToolTypes'
<1> SUFFICES ASSUME BotTypes, Bot!LocalNext PROVE ToolTypes'
  OBVIOUS
<1>a. ASSUME NEW t \in Tools, Bot!Listener(t)
      PROVE  \/ Bot!Steps(t, "idle")
             \/ \E p \in Pids : p = listener[place.http] /\ Bot!StepsWith(t, "node", p)
  BY <1>a, ListenerSteps
<1> USE BotAssumption DEF BotTypes, ToolTypes, WorldTypes, DiskTypes, Labels, Setups, Launches,
   Errands, Homes, Bot!Missing, Bot!None, Bot!toolVars, Bot!worldVars, Bot!diskVars, Bot!Robots,
   Bot!Ports, Bot!Serving
<1>1. ASSUME NEW t \in Tools, Bot!Install(t) \/ Bot!Console(t) \/ Bot!Begin(t) \/ Bot!Ask(t)
   PROVE ToolTypes'
  BY <1>1 DEF Bot!Install, Bot!Console, Bot!Begin, Bot!Ask, Bot!Starts, Bot!Overlaps, Bot!Go,
     Bot!Installed, Bot!Loads
<1>2. ASSUME NEW t \in Tools, Bot!Stage(t) PROVE ToolTypes'
  BY <1>2, ChosenIsHome, SMTT(60) DEF Bot!Stage, Bot!Steps, Bot!StepsWith, Bot!Go
<1>3. ASSUME NEW t \in Tools, Bot!Publish(t) PROVE ToolTypes'
  BY <1>3 DEF Bot!Publish, Bot!Steps, Bot!StepsWith, Bot!Go, Bot!Published, Bot!Installed
<1>4. ASSUME NEW t \in Tools, Bot!Login(t) \/ Bot!Probe(t) \/ Bot!Poll(t) \/ Bot!Recipients(t) \/
   Bot!Deliver(t) PROVE ToolTypes'
  BY <1>4 DEF Bot!Login, Bot!Probe, Bot!Poll, Bot!Recipients, Bot!Deliver, Bot!Steps,
     Bot!StepsWith, Bot!Go, Bot!Loads, Bot!Installed
<1>5. ASSUME NEW t \in Tools, Bot!Remember(t) \/ Bot!Write(t) \/ Bot!WriteNotify(t) PROVE
   ToolTypes'
  BY <1>5 DEF Bot!Remember, Bot!Write, Bot!WriteNotify, Bot!Steps, Bot!StepsWith, Bot!Go,
     Bot!Loads, Bot!Installed
<1>6. ASSUME NEW t \in Tools, Bot!Spawn(t) PROVE ToolTypes'
  BY <1>6, FreePid DEF Bot!Spawn, Bot!StepsWith, Bot!Go
<1>7. ASSUME NEW t \in Tools, Bot!Record(t) \/ Bot!ChildEnds(t) \/ Bot!Forget(t) PROVE ToolTypes'
  BY <1>7 DEF Bot!Record, Bot!ChildEnds, Bot!Forget, Bot!Overlaps, Bot!Steps, Bot!StepsWith,
     Bot!Go
<1>8. ASSUME NEW t \in Tools, Bot!Read(t) \/ Bot!Stale(t) PROVE ToolTypes'
  BY <1>8 DEF Bot!Read, Bot!Stale, Bot!Steps, Bot!StepsWith, Bot!Go, Bot!Unrecorded
<1>9. ASSUME NEW t \in Tools, Bot!Listener(t) PROVE ToolTypes'
  BY <1>9, <1>a, SMTT(60) DEF Bot!Listener, Bot!Steps, Bot!StepsWith, Bot!Go
<1>10. ASSUME NEW t \in Tools, Bot!Node(t) PROVE ToolTypes'
  BY <1>10, SMTT(60) DEF Bot!Node, Bot!Steps, Bot!StepsWith, Bot!Go, Bot!NotRunning
<1>11. ASSUME NEW t \in Tools, Bot!NetstatFails(t) \/ Bot!KillFails(t) PROVE ToolTypes'
  BY <1>11 DEF Bot!NetstatFails, Bot!KillFails, Bot!Over, Bot!Go
<1>12. ASSUME NEW t \in Tools, Bot!Kill(t) PROVE ToolTypes'
  BY <1>12 DEF Bot!Kill, Bot!Go, Bot!Gone, Bot!StillServed
<1>13. ASSUME NEW t \in Tools, Bot!Closed(t) PROVE ToolTypes'
  BY <1>13 DEF Bot!Closed, Bot!Over, Bot!Gone, Bot!StillServed
<1>14. ASSUME NEW p \in Pids, Bot!Bind(p) PROVE ToolTypes'
  BY <1>14 DEF Bot!Bind, Bot!Gone, Bot!StillServed
<1>15. ASSUME NEW p \in Pids, Bot!LogsIn(p) PROVE ToolTypes'
  BY <1>15 DEF Bot!LogsIn
<1>16. ASSUME NEW p \in Pids, Bot!Ends(p) PROVE ToolTypes'
  BY <1>16 DEF Bot!Ends, Bot!Gone, Bot!StillServed
<1>17. CASE Bot!Comes
  BY <1>17 DEF Bot!Comes
<1>18. CASE Bot!Reboot
  BY <1>18 DEF Bot!Reboot, Bot!Over, Bot!Gone, Bot!StillServed
<1> QED BY <1>1, <1>2, <1>3, <1>4, <1>5, <1>6, <1>7, <1>8, <1>9, <1>10, <1>11, <1>12, <1>13,
   <1>14, <1>15, <1>16, <1>17, <1>18 DEF Bot!LocalNext

\* ... of what runs and who listens, ...
LEMMA WorldTypesKept == BotTypes /\ Bot!LocalNext => WorldTypes'
<1> SUFFICES ASSUME BotTypes, Bot!LocalNext PROVE WorldTypes'
  OBVIOUS
<1>0. WorldTypes /\ Errand
  BY DEF BotTypes
<1>1. ASSUME NEW t \in Tools,
             \/ Bot!Install(t) \/ Bot!Stage(t) \/ Bot!Publish(t) \/ Bot!Console(t) \/ Bot!Begin(t)
             \/ Bot!Login(t) \/ Bot!Probe(t) \/ Bot!Record(t) \/ Bot!ChildEnds(t) \/ Bot!Poll(t)
             \/ Bot!Remember(t) \/ Bot!Write(t) \/ Bot!Recipients(t) \/ Bot!WriteNotify(t)
             \/ Bot!Deliver(t) \/ Bot!Ask(t) \/ Bot!Read(t) \/ Bot!Stale(t) \/ Bot!Listener(t)
             \/ Bot!NetstatFails(t) \/ Bot!Node(t) \/ Bot!KillFails(t) \/ Bot!Forget(t)
      PROVE WorldTypes'
  <2>1. UNCHANGED <<process, starting, listener, logged, used>>
    BY <1>1, WorldStays
  <2> QED BY <1>0, <2>1 DEF WorldTypes, Bot!Robots
<1>2. ASSUME NEW t \in Tools, Bot!Kill(t) \/ Bot!Closed(t) PROVE WorldTypes'
  BY <1>0, <1>2, Killed, GoneTypes
<1>3. ASSUME NEW t \in Tools, Bot!Spawn(t) PROVE WorldTypes'
  <2>1. PICK p \in Bot!FreePids :
           process' = [process EXCEPT ![p] = "bot"] /\ starting' = starting \cup {p}
    BY <1>3 DEF Bot!Spawn
  <2>2. UNCHANGED <<listener, logged, used>>
    BY <1>3 DEF Bot!Spawn
  <2>3. p \in Pids /\ process[p] = "none"
    BY <2>1, FreePid
  <2>4. Bot!Robots' = Bot!Robots \cup {p}
    BY <1>0, <2>1, <2>3 DEF WorldTypes, Bot!Robots
  <2>5. process' \in [Pids -> {"none", "bot", "node", "other"}]
    BY <1>0, <2>1, <2>3 DEF WorldTypes
  <2>6. \A n \in Bot!Ports : listener'[n] # 0 => process'[listener'[n]] # "none"
    BY <1>0, <2>1, <2>2, <2>3 DEF WorldTypes
  <2> QED BY <1>0, <2>1, <2>2, <2>4, <2>5, <2>6 DEF WorldTypes
<1>4. ASSUME NEW p \in Pids, Bot!Bind(p) PROVE WorldTypes'
  <2>1. CASE Bot!Gone({p})
    BY <1>0, <2>1, GoneTypes
  <2>2. CASE /\ starting' = starting \ {p}
             /\ listener' = [n \in Bot!Ports |-> IF n \in {place.http, place.web} /\ listener[n] = 0
                                               THEN p ELSE listener[n]]
             /\ UNCHANGED <<process, logged, used>>
    <3>1. process[p] = "bot"
      BY <1>0, <1>4 DEF WorldTypes, Bot!Bind, Bot!Robots
    <3> QED BY <1>0, <2>2, <3>1 DEF WorldTypes, Bot!Robots
  <2> QED BY <1>4, <2>1, <2>2 DEF Bot!Bind, Bot!None
<1>5. ASSUME NEW p \in Pids, Bot!LogsIn(p) PROVE WorldTypes'
  BY <1>0, <1>5 DEF WorldTypes, Bot!LogsIn, Bot!Serving, Bot!Robots
<1>6. ASSUME NEW p \in Pids, Bot!Ends(p) PROVE WorldTypes'
  BY <1>0, <1>6, GoneTypes DEF Bot!Ends
<1>7. CASE Bot!Comes
  BY <1>0, <1>7, FreePid DEF WorldTypes, Bot!Comes, Bot!Robots
<1>8. CASE Bot!Reboot
  BY <1>0, <1>8, GoneTypes DEF Bot!Reboot
<1> QED BY <1>1, <1>2, <1>3, <1>4, <1>5, <1>6, <1>7, <1>8 DEF Bot!LocalNext

\* ... and of what is on the disk.
LEMMA DiskTypesKept == BotTypes /\ Bot!LocalNext => DiskTypes'
<1> SUFFICES ASSUME BotTypes, Bot!LocalNext PROVE DiskTypes'
  OBVIOUS
<1> USE BotAssumption DEF BotTypes, ToolTypes, WorldTypes, DiskTypes, Labels, Setups, Launches,
   Errands, Homes, Bot!Missing, Bot!None, Bot!toolVars, Bot!worldVars, Bot!diskVars, Bot!Robots,
   Bot!Ports, Bot!Serving, Errand, Doing
<1>1. ASSUME NEW t \in Tools, Bot!Install(t) \/ Bot!Console(t) \/ Bot!Begin(t) \/ Bot!Ask(t)
   PROVE DiskTypes'
  BY <1>1 DEF Bot!Install, Bot!Console, Bot!Begin, Bot!Ask, Bot!Starts, Bot!Overlaps, Bot!Go,
     Bot!Installed, Bot!Loads
<1>2. ASSUME NEW t \in Tools, Bot!Stage(t) PROVE DiskTypes'
  BY <1>2 DEF Bot!Stage, Bot!Steps, Bot!StepsWith, Bot!Go
<1>3. ASSUME NEW t \in Tools, Bot!Publish(t) PROVE DiskTypes'
  BY <1>3 DEF Bot!Publish, Bot!Steps, Bot!StepsWith, Bot!Go, Bot!Published, Bot!Installed
<1>4. ASSUME NEW t \in Tools, Bot!Login(t) \/ Bot!Probe(t) \/ Bot!Poll(t) \/ Bot!Recipients(t) \/
   Bot!Deliver(t) PROVE DiskTypes'
  BY <1>4 DEF Bot!Login, Bot!Probe, Bot!Poll, Bot!Recipients, Bot!Deliver, Bot!Steps,
     Bot!StepsWith, Bot!Go, Bot!Loads, Bot!Installed
<1>5. ASSUME NEW t \in Tools, Bot!Remember(t) \/ Bot!Write(t) \/ Bot!WriteNotify(t) PROVE
   DiskTypes'
  BY <1>5 DEF Bot!Remember, Bot!Write, Bot!WriteNotify, Bot!Steps, Bot!StepsWith, Bot!Go,
     Bot!Loads, Bot!Installed
<1>6. ASSUME NEW t \in Tools, Bot!Spawn(t) PROVE DiskTypes'
  BY <1>6 DEF Bot!Spawn, Bot!StepsWith, Bot!Go
<1>7. ASSUME NEW t \in Tools, Bot!Record(t) \/ Bot!ChildEnds(t) \/ Bot!Forget(t) PROVE DiskTypes'
  BY <1>7 DEF Bot!Record, Bot!ChildEnds, Bot!Forget, Bot!Overlaps, Bot!Steps, Bot!StepsWith,
     Bot!Go
<1>8. ASSUME NEW t \in Tools, Bot!Read(t) \/ Bot!Stale(t) PROVE DiskTypes'
  BY <1>8 DEF Bot!Read, Bot!Stale, Bot!Steps, Bot!StepsWith, Bot!Go, Bot!Unrecorded
<1>9. ASSUME NEW t \in Tools, Bot!Listener(t) PROVE DiskTypes'
  BY <1>9 DEF Bot!Listener, Bot!Steps, Bot!StepsWith, Bot!Go, Bot!NotRunning, Bot!Loads,
     Bot!Installed
<1>10. ASSUME NEW t \in Tools, Bot!Node(t) PROVE DiskTypes'
  BY <1>10 DEF Bot!Node, Bot!Steps, Bot!StepsWith, Bot!Go, Bot!NotRunning
<1>11. ASSUME NEW t \in Tools, Bot!NetstatFails(t) \/ Bot!KillFails(t) PROVE DiskTypes'
  BY <1>11 DEF Bot!NetstatFails, Bot!KillFails, Bot!Over, Bot!Go
<1>12. ASSUME NEW t \in Tools, Bot!Kill(t) PROVE DiskTypes'
  BY <1>12 DEF Bot!Kill, Bot!Go, Bot!Gone, Bot!StillServed
<1>13. ASSUME NEW t \in Tools, Bot!Closed(t) PROVE DiskTypes'
  BY <1>13 DEF Bot!Closed, Bot!Over, Bot!Gone, Bot!StillServed
<1>14. ASSUME NEW p \in Pids, Bot!Bind(p) PROVE DiskTypes'
  BY <1>14 DEF Bot!Bind, Bot!Gone, Bot!StillServed
<1>15. ASSUME NEW p \in Pids, Bot!LogsIn(p) PROVE DiskTypes'
  BY <1>15 DEF Bot!LogsIn
<1>16. ASSUME NEW p \in Pids, Bot!Ends(p) PROVE DiskTypes'
  BY <1>16 DEF Bot!Ends, Bot!Gone, Bot!StillServed
<1>17. CASE Bot!Comes
  BY <1>17 DEF Bot!Comes
<1>18. CASE Bot!Reboot
  BY <1>18 DEF Bot!Reboot, Bot!Over, Bot!Gone, Bot!StillServed
<1> QED BY <1>1, <1>2, <1>3, <1>4, <1>5, <1>6, <1>7, <1>8, <1>9, <1>10, <1>11, <1>12, <1>13,
   <1>14, <1>15, <1>16, <1>17, <1>18 DEF Bot!LocalNext

\* A console holds its lock until it ends: nobody else releases it or takes it.
LEMMA ConsoleLocksKept == BotTypes /\ Bot!LocalNext => ConsoleLocks'
<1> SUFFICES ASSUME BotTypes, Bot!LocalNext PROVE ConsoleLocks'
  OBVIOUS
<1> USE BotAssumption DEF BotTypes, ToolTypes, Errand, Doing, ConsoleLocks, Labels, Setups,
   Launches, Bot!toolVars, Bot!Nobody
<1>1. ASSUME NEW t \in Tools, Bot!Install(t) \/ Bot!Begin(t) \/ Bot!Ask(t) PROVE ConsoleLocks'
  BY <1>1 DEF Bot!Install, Bot!Begin, Bot!Ask, Bot!Starts, Bot!Overlaps, Bot!Go, Bot!Installed,
     Bot!Loads
<1>2. ASSUME NEW t \in Tools, Bot!Stage(t) PROVE ConsoleLocks'
  BY <1>2 DEF Bot!Stage, Bot!Steps, Bot!StepsWith, Bot!Go
<1>3. ASSUME NEW t \in Tools, Bot!Publish(t) PROVE ConsoleLocks'
  BY <1>3 DEF Bot!Publish, Bot!Steps, Bot!StepsWith, Bot!Go, Bot!Published, Bot!Installed
<1>4. ASSUME NEW t \in Tools, Bot!Login(t) \/ Bot!Probe(t) \/ Bot!Poll(t) \/ Bot!Recipients(t) \/
   Bot!Deliver(t) PROVE ConsoleLocks'
  BY <1>4 DEF Bot!Login, Bot!Probe, Bot!Poll, Bot!Recipients, Bot!Deliver, Bot!Steps,
     Bot!StepsWith, Bot!Go, Bot!Loads, Bot!Installed
<1>5. ASSUME NEW t \in Tools, Bot!Remember(t) \/ Bot!Write(t) \/ Bot!WriteNotify(t) PROVE
   ConsoleLocks'
  BY <1>5 DEF Bot!Remember, Bot!Write, Bot!WriteNotify, Bot!Steps, Bot!StepsWith, Bot!Go,
     Bot!Loads, Bot!Installed
<1>6. ASSUME NEW t \in Tools, Bot!Spawn(t) PROVE ConsoleLocks'
  BY <1>6 DEF Bot!Spawn, Bot!StepsWith, Bot!Go
<1>7. ASSUME NEW t \in Tools, Bot!Record(t) \/ Bot!ChildEnds(t) \/ Bot!Forget(t) PROVE
   ConsoleLocks'
  BY <1>7 DEF Bot!Record, Bot!ChildEnds, Bot!Forget, Bot!Overlaps, Bot!Steps, Bot!StepsWith,
     Bot!Go
<1>8. ASSUME NEW t \in Tools, Bot!Read(t) \/ Bot!Stale(t) PROVE ConsoleLocks'
  BY <1>8 DEF Bot!Read, Bot!Stale, Bot!Steps, Bot!StepsWith, Bot!Go, Bot!Unrecorded
<1>9. ASSUME NEW t \in Tools, Bot!Listener(t) PROVE ConsoleLocks'
  BY <1>9 DEF Bot!Listener, Bot!Steps, Bot!StepsWith, Bot!Go, Bot!NotRunning, Bot!Loads,
     Bot!Installed
<1>10. ASSUME NEW t \in Tools, Bot!Node(t) PROVE ConsoleLocks'
  BY <1>10 DEF Bot!Node, Bot!Steps, Bot!StepsWith, Bot!Go, Bot!NotRunning
<1>11. ASSUME NEW t \in Tools, Bot!NetstatFails(t) \/ Bot!KillFails(t) PROVE ConsoleLocks'
  BY <1>11 DEF Bot!NetstatFails, Bot!KillFails, Bot!Over, Bot!Go
<1>12. ASSUME NEW t \in Tools, Bot!Kill(t) PROVE ConsoleLocks'
  BY <1>12 DEF Bot!Kill, Bot!Go, Bot!Gone, Bot!StillServed
<1>13. ASSUME NEW t \in Tools, Bot!Closed(t) PROVE ConsoleLocks'
  BY <1>13 DEF Bot!Closed, Bot!Over, Bot!Gone, Bot!StillServed
<1>14. ASSUME NEW p \in Pids, Bot!Bind(p) PROVE ConsoleLocks'
  BY <1>14 DEF Bot!Bind, Bot!Gone, Bot!StillServed
<1>15. ASSUME NEW p \in Pids, Bot!LogsIn(p) PROVE ConsoleLocks'
  BY <1>15 DEF Bot!LogsIn
<1>16. ASSUME NEW p \in Pids, Bot!Ends(p) PROVE ConsoleLocks'
  BY <1>16 DEF Bot!Ends, Bot!Gone, Bot!StillServed
<1>17. CASE Bot!Comes
  BY <1>17 DEF Bot!Comes
<1>18. CASE Bot!Reboot
  BY <1>18 DEF Bot!Reboot, Bot!Over, Bot!Gone, Bot!StillServed
<1>19. ASSUME NEW t \in Tools, Bot!Console(t) PROVE ConsoleLocks'
  BY <1>19, SMTT(60) DEF Bot!Console, Bot!Starts, Bot!Go, Bot!Loads, Bot!Installed
<1> QED BY <1>1, <1>2, <1>3, <1>4, <1>5, <1>6, <1>7, <1>8, <1>9, <1>10, <1>11, <1>12, <1>13,
   <1>14, <1>15, <1>16, <1>17, <1>18, <1>19 DEF Bot!LocalNext

\* A script is only ever at a place that belongs to what it is asked to do, with a pid where
\* it needs one.
LEMMA ErrandKept == BotTypes /\ Bot!LocalNext => Errand'
<1> SUFFICES ASSUME BotTypes, Bot!LocalNext PROVE Errand'
  OBVIOUS
<1>a. ASSUME NEW t \in Tools, Bot!Listener(t)
      PROVE  \/ Bot!Steps(t, "idle")
             \/ \E p \in Pids : p = listener[place.http] /\ Bot!StepsWith(t, "node", p)
  BY <1>a, ListenerSteps
<1> USE BotAssumption DEF BotTypes, ToolTypes, WorldTypes, DiskTypes, Labels, Setups, Launches,
   Errands, Homes, Bot!Missing, Bot!None, Bot!toolVars, Bot!worldVars, Bot!diskVars, Bot!Robots,
   Bot!Ports, Bot!Serving, Errand, Doing
<1>1. ASSUME NEW t \in Tools, Bot!Install(t) \/ Bot!Console(t) \/ Bot!Begin(t) \/ Bot!Ask(t)
   PROVE Errand'
  BY <1>1 DEF Bot!Install, Bot!Console, Bot!Begin, Bot!Ask, Bot!Starts, Bot!Overlaps, Bot!Go,
     Bot!Installed, Bot!Loads
<1>2. ASSUME NEW t \in Tools, Bot!Stage(t) PROVE Errand'
  BY <1>2, ChosenIsHome DEF Bot!Stage, Bot!Steps, Bot!StepsWith, Bot!Go
<1>3. ASSUME NEW t \in Tools, Bot!Publish(t) PROVE Errand'
  BY <1>3 DEF Bot!Publish, Bot!Steps, Bot!StepsWith, Bot!Go, Bot!Published, Bot!Installed
<1>4. ASSUME NEW t \in Tools, Bot!Login(t) \/ Bot!Probe(t) \/ Bot!Poll(t) \/ Bot!Recipients(t) \/
   Bot!Deliver(t) PROVE Errand'
  BY <1>4 DEF Bot!Login, Bot!Probe, Bot!Poll, Bot!Recipients, Bot!Deliver, Bot!Steps,
     Bot!StepsWith, Bot!Go, Bot!Loads, Bot!Installed
<1>5. ASSUME NEW t \in Tools, Bot!Remember(t) \/ Bot!Write(t) \/ Bot!WriteNotify(t) PROVE Errand'
  BY <1>5 DEF Bot!Remember, Bot!Write, Bot!WriteNotify, Bot!Steps, Bot!StepsWith, Bot!Go,
     Bot!Loads, Bot!Installed
<1>6. ASSUME NEW t \in Tools, Bot!Spawn(t) PROVE Errand'
  BY <1>6, FreePid DEF Bot!Spawn, Bot!StepsWith, Bot!Go
<1>7. ASSUME NEW t \in Tools, Bot!Record(t) \/ Bot!ChildEnds(t) \/ Bot!Forget(t) PROVE Errand'
  BY <1>7 DEF Bot!Record, Bot!ChildEnds, Bot!Forget, Bot!Overlaps, Bot!Steps, Bot!StepsWith,
     Bot!Go
<1>8. ASSUME NEW t \in Tools, Bot!Read(t) \/ Bot!Stale(t) PROVE Errand'
  BY <1>8 DEF Bot!Read, Bot!Stale, Bot!Steps, Bot!StepsWith, Bot!Go, Bot!Unrecorded
<1>9. ASSUME NEW t \in Tools, Bot!Listener(t) PROVE Errand'
  BY <1>9, <1>a DEF Bot!Listener, Bot!Steps, Bot!StepsWith, Bot!Go
<1>10. ASSUME NEW t \in Tools, Bot!Node(t) PROVE Errand'
  BY <1>10 DEF Bot!Node, Bot!Steps, Bot!StepsWith, Bot!Go, Bot!NotRunning
<1>11. ASSUME NEW t \in Tools, Bot!NetstatFails(t) \/ Bot!KillFails(t) PROVE Errand'
  BY <1>11 DEF Bot!NetstatFails, Bot!KillFails, Bot!Over, Bot!Go
<1>12. ASSUME NEW t \in Tools, Bot!Kill(t) PROVE Errand'
  BY <1>12 DEF Bot!Kill, Bot!Go, Bot!Gone, Bot!StillServed
<1>13. ASSUME NEW t \in Tools, Bot!Closed(t) PROVE Errand'
  BY <1>13 DEF Bot!Closed, Bot!Over, Bot!Gone, Bot!StillServed
<1>14. ASSUME NEW p \in Pids, Bot!Bind(p) PROVE Errand'
  BY <1>14 DEF Bot!Bind, Bot!Gone, Bot!StillServed
<1>15. ASSUME NEW p \in Pids, Bot!LogsIn(p) PROVE Errand'
  BY <1>15 DEF Bot!LogsIn
<1>16. ASSUME NEW p \in Pids, Bot!Ends(p) PROVE Errand'
  BY <1>16 DEF Bot!Ends, Bot!Gone, Bot!StillServed
<1>17. CASE Bot!Comes
  BY <1>17 DEF Bot!Comes
<1>18. CASE Bot!Reboot
  BY <1>18 DEF Bot!Reboot, Bot!Over, Bot!Gone, Bot!StillServed
<1> QED BY <1>1, <1>2, <1>3, <1>4, <1>5, <1>6, <1>7, <1>8, <1>9, <1>10, <1>11, <1>12, <1>13,
   <1>14, <1>15, <1>16, <1>17, <1>18 DEF Bot!LocalNext

\* Nobody starts a robot where there is no installation.
LEMMA HousedKept == BotTypes /\ Housed /\ Bot!LocalNext => Housed'
<1> SUFFICES ASSUME BotTypes, Housed, Bot!LocalNext PROVE Housed'
  OBVIOUS
<1>b. ASSUME NEW t \in Tools, Bot!Kill(t) \/ Bot!Closed(t)
      PROVE  \E ps \in SUBSET Pids : Bot!Robots' = Bot!Robots \ ps
  BY <1>b, Killed, GoneAreUsed DEF BotTypes
<1> USE BotAssumption DEF BotTypes, ToolTypes, WorldTypes, DiskTypes, Labels, Setups, Launches,
   Errands, Homes, Bot!Missing, Bot!None, Bot!toolVars, Bot!worldVars, Bot!diskVars, Bot!Robots,
   Bot!Ports, Bot!Serving, Errand, Doing, Housed, Bot!Installed
<1>1. ASSUME NEW t \in Tools, Bot!Install(t) \/ Bot!Console(t) \/ Bot!Begin(t) \/ Bot!Ask(t)
   PROVE Housed'
  BY <1>1 DEF Bot!Install, Bot!Console, Bot!Begin, Bot!Ask, Bot!Starts, Bot!Overlaps, Bot!Go,
     Bot!Installed, Bot!Loads
<1>2. ASSUME NEW t \in Tools, Bot!Stage(t) PROVE Housed'
  BY <1>2 DEF Bot!Stage, Bot!Steps, Bot!StepsWith, Bot!Go
<1>3. ASSUME NEW t \in Tools, Bot!Publish(t) PROVE Housed'
  BY <1>3 DEF Bot!Publish, Bot!Steps, Bot!StepsWith, Bot!Go, Bot!Published, Bot!Installed
<1>4. ASSUME NEW t \in Tools, Bot!Login(t) \/ Bot!Probe(t) \/ Bot!Poll(t) \/ Bot!Recipients(t) \/
   Bot!Deliver(t) PROVE Housed'
  BY <1>4 DEF Bot!Login, Bot!Probe, Bot!Poll, Bot!Recipients, Bot!Deliver, Bot!Steps,
     Bot!StepsWith, Bot!Go, Bot!Loads, Bot!Installed
<1>5. ASSUME NEW t \in Tools, Bot!Remember(t) \/ Bot!Write(t) \/ Bot!WriteNotify(t) PROVE Housed'
  BY <1>5 DEF Bot!Remember, Bot!Write, Bot!WriteNotify, Bot!Steps, Bot!StepsWith, Bot!Go,
     Bot!Loads, Bot!Installed
<1>6. ASSUME NEW t \in Tools, Bot!Spawn(t) PROVE Housed'
  BY <1>6 DEF Bot!Spawn, Bot!StepsWith, Bot!Go
<1>7. ASSUME NEW t \in Tools, Bot!Record(t) \/ Bot!ChildEnds(t) \/ Bot!Forget(t) PROVE Housed'
  BY <1>7 DEF Bot!Record, Bot!ChildEnds, Bot!Forget, Bot!Overlaps, Bot!Steps, Bot!StepsWith,
     Bot!Go
<1>8. ASSUME NEW t \in Tools, Bot!Read(t) \/ Bot!Stale(t) PROVE Housed'
  BY <1>8 DEF Bot!Read, Bot!Stale, Bot!Steps, Bot!StepsWith, Bot!Go, Bot!Unrecorded
<1>9. ASSUME NEW t \in Tools, Bot!Listener(t) PROVE Housed'
  BY <1>9 DEF Bot!Listener, Bot!Steps, Bot!StepsWith, Bot!Go, Bot!NotRunning, Bot!Loads,
     Bot!Installed
<1>10. ASSUME NEW t \in Tools, Bot!Node(t) PROVE Housed'
  BY <1>10 DEF Bot!Node, Bot!Steps, Bot!StepsWith, Bot!Go, Bot!NotRunning
<1>11. ASSUME NEW t \in Tools, Bot!NetstatFails(t) \/ Bot!KillFails(t) PROVE Housed'
  BY <1>11 DEF Bot!NetstatFails, Bot!KillFails, Bot!Over, Bot!Go
<1>12. ASSUME NEW t \in Tools, Bot!Kill(t) PROVE Housed'
  BY <1>12, <1>b, ZenonT(120) DEF Bot!Kill, Bot!Go, Bot!StillServed
<1>13. ASSUME NEW t \in Tools, Bot!Closed(t) PROVE Housed'
  BY <1>13, <1>b DEF Bot!Closed, Bot!Over, Bot!StillServed
<1>14. ASSUME NEW p \in Pids, Bot!Bind(p) PROVE Housed'
  BY <1>14 DEF Bot!Bind, Bot!Gone, Bot!StillServed
<1>15. ASSUME NEW p \in Pids, Bot!LogsIn(p) PROVE Housed'
  BY <1>15 DEF Bot!LogsIn
<1>16. ASSUME NEW p \in Pids, Bot!Ends(p) PROVE Housed'
  BY <1>16 DEF Bot!Ends, Bot!Gone, Bot!StillServed
<1>17. CASE Bot!Comes
  BY <1>17 DEF Bot!Comes
<1>18. CASE Bot!Reboot
  BY <1>18 DEF Bot!Reboot, Bot!Over, Bot!Gone, Bot!StillServed
<1> QED BY <1>1, <1>2, <1>3, <1>4, <1>5, <1>6, <1>7, <1>8, <1>9, <1>10, <1>11, <1>12, <1>13,
   <1>14, <1>15, <1>16, <1>17, <1>18 DEF Bot!LocalNext

\* The installation stays, and a setup notes the account first.
LEMMA FurnishedKept == BotTypes /\ Housed /\ Furnished /\ Bot!LocalNext => Furnished'
<1> SUFFICES ASSUME BotTypes, Housed, Furnished, Bot!LocalNext PROVE Furnished'
  OBVIOUS
<1> USE BotAssumption DEF BotTypes, ToolTypes, WorldTypes, DiskTypes, Labels, Setups, Launches,
   Errands, Homes, Bot!Missing, Bot!None, Bot!toolVars, Bot!worldVars, Bot!diskVars, Bot!Robots,
   Bot!Ports, Bot!Serving, Errand, Doing, Housed, Furnished, Bot!Installed
<1>1. ASSUME NEW t \in Tools, Bot!Install(t) \/ Bot!Console(t) \/ Bot!Begin(t) \/ Bot!Ask(t)
   PROVE Furnished'
  BY <1>1 DEF Bot!Install, Bot!Console, Bot!Begin, Bot!Ask, Bot!Starts, Bot!Overlaps, Bot!Go,
     Bot!Installed, Bot!Loads
<1>2. ASSUME NEW t \in Tools, Bot!Stage(t) PROVE Furnished'
  BY <1>2 DEF Bot!Stage, Bot!Steps, Bot!StepsWith, Bot!Go
<1>3. ASSUME NEW t \in Tools, Bot!Publish(t) PROVE Furnished'
  BY <1>3 DEF Bot!Publish, Bot!Steps, Bot!StepsWith, Bot!Go, Bot!Published, Bot!Installed
<1>4. ASSUME NEW t \in Tools, Bot!Login(t) \/ Bot!Probe(t) \/ Bot!Poll(t) \/ Bot!Recipients(t) \/
   Bot!Deliver(t) PROVE Furnished'
  BY <1>4 DEF Bot!Login, Bot!Probe, Bot!Poll, Bot!Recipients, Bot!Deliver, Bot!Steps,
     Bot!StepsWith, Bot!Go, Bot!Loads, Bot!Installed
<1>5. ASSUME NEW t \in Tools, Bot!Remember(t) \/ Bot!Write(t) \/ Bot!WriteNotify(t) PROVE
   Furnished'
  BY <1>5 DEF Bot!Remember, Bot!Write, Bot!WriteNotify, Bot!Steps, Bot!StepsWith, Bot!Go,
     Bot!Loads, Bot!Installed
<1>6. ASSUME NEW t \in Tools, Bot!Spawn(t) PROVE Furnished'
  BY <1>6 DEF Bot!Spawn, Bot!StepsWith, Bot!Go
<1>7. ASSUME NEW t \in Tools, Bot!Record(t) \/ Bot!ChildEnds(t) \/ Bot!Forget(t) PROVE Furnished'
  BY <1>7 DEF Bot!Record, Bot!ChildEnds, Bot!Forget, Bot!Overlaps, Bot!Steps, Bot!StepsWith,
     Bot!Go
<1>8. ASSUME NEW t \in Tools, Bot!Read(t) \/ Bot!Stale(t) PROVE Furnished'
  BY <1>8 DEF Bot!Read, Bot!Stale, Bot!Steps, Bot!StepsWith, Bot!Go, Bot!Unrecorded
<1>9. ASSUME NEW t \in Tools, Bot!Listener(t) PROVE Furnished'
  BY <1>9 DEF Bot!Listener, Bot!Steps, Bot!StepsWith, Bot!Go, Bot!NotRunning, Bot!Loads,
     Bot!Installed
<1>10. ASSUME NEW t \in Tools, Bot!Node(t) PROVE Furnished'
  BY <1>10 DEF Bot!Node, Bot!Steps, Bot!StepsWith, Bot!Go, Bot!NotRunning
<1>11. ASSUME NEW t \in Tools, Bot!NetstatFails(t) \/ Bot!KillFails(t) PROVE Furnished'
  BY <1>11 DEF Bot!NetstatFails, Bot!KillFails, Bot!Over, Bot!Go
<1>12. ASSUME NEW t \in Tools, Bot!Kill(t) PROVE Furnished'
  BY <1>12 DEF Bot!Kill, Bot!Go, Bot!Gone, Bot!StillServed
<1>13. ASSUME NEW t \in Tools, Bot!Closed(t) PROVE Furnished'
  BY <1>13 DEF Bot!Closed, Bot!Over, Bot!Gone, Bot!StillServed
<1>14. ASSUME NEW p \in Pids, Bot!Bind(p) PROVE Furnished'
  BY <1>14 DEF Bot!Bind, Bot!Gone, Bot!StillServed
<1>15. ASSUME NEW p \in Pids, Bot!LogsIn(p) PROVE Furnished'
  BY <1>15 DEF Bot!LogsIn
<1>16. ASSUME NEW p \in Pids, Bot!Ends(p) PROVE Furnished'
  BY <1>16 DEF Bot!Ends, Bot!Gone, Bot!StillServed
<1>17. CASE Bot!Comes
  BY <1>17 DEF Bot!Comes
<1>18. CASE Bot!Reboot
  BY <1>18 DEF Bot!Reboot, Bot!Over, Bot!Gone, Bot!StillServed
<1> QED BY <1>1, <1>2, <1>3, <1>4, <1>5, <1>6, <1>7, <1>8, <1>9, <1>10, <1>11, <1>12, <1>13,
   <1>14, <1>15, <1>16, <1>17, <1>18 DEF Bot!LocalNext

\* The settings are torn only while a setup writes them, or after it was cut off there.
LEMMA WholeKept == BotTypes /\ Bot!SettingsAreWhole /\ Bot!LocalNext => Bot!SettingsAreWhole'
<1> SUFFICES ASSUME BotTypes, Bot!SettingsAreWhole, Bot!LocalNext PROVE Bot!SettingsAreWhole'
  OBVIOUS
<1> USE DEF BotTypes, ToolTypes, Bot!SettingsAreWhole, Labels, Setups, Launches, Bot!toolVars,
   Bot!diskVars
<1>1. ASSUME NEW t \in Tools, Bot!Install(t) \/ Bot!Console(t) \/ Bot!Begin(t) \/ Bot!Ask(t)
   PROVE Bot!SettingsAreWhole'
  BY <1>1 DEF Bot!Install, Bot!Console, Bot!Begin, Bot!Ask, Bot!Starts, Bot!Overlaps, Bot!Go,
     Bot!Installed, Bot!Loads
<1>2. ASSUME NEW t \in Tools, Bot!Stage(t) PROVE Bot!SettingsAreWhole'
  BY <1>2 DEF Bot!Stage, Bot!Steps, Bot!StepsWith, Bot!Go
<1>3. ASSUME NEW t \in Tools, Bot!Publish(t) PROVE Bot!SettingsAreWhole'
  BY <1>3 DEF Bot!Publish, Bot!Steps, Bot!StepsWith, Bot!Go, Bot!Published, Bot!Installed
<1>4. ASSUME NEW t \in Tools, Bot!Login(t) \/ Bot!Probe(t) \/ Bot!Poll(t) \/ Bot!Recipients(t) \/
   Bot!Deliver(t) PROVE Bot!SettingsAreWhole'
  BY <1>4 DEF Bot!Login, Bot!Probe, Bot!Poll, Bot!Recipients, Bot!Deliver, Bot!Steps,
     Bot!StepsWith, Bot!Go, Bot!Loads, Bot!Installed
<1>5. ASSUME NEW t \in Tools, Bot!Remember(t) \/ Bot!Write(t) \/ Bot!WriteNotify(t) PROVE
   Bot!SettingsAreWhole'
  BY <1>5 DEF Bot!Remember, Bot!Write, Bot!WriteNotify, Bot!Steps, Bot!StepsWith, Bot!Go,
     Bot!Loads, Bot!Installed
<1>6. ASSUME NEW t \in Tools, Bot!Spawn(t) PROVE Bot!SettingsAreWhole'
  BY <1>6 DEF Bot!Spawn, Bot!StepsWith, Bot!Go
<1>7. ASSUME NEW t \in Tools, Bot!Record(t) \/ Bot!ChildEnds(t) \/ Bot!Forget(t) PROVE
   Bot!SettingsAreWhole'
  BY <1>7 DEF Bot!Record, Bot!ChildEnds, Bot!Forget, Bot!Overlaps, Bot!Steps, Bot!StepsWith,
     Bot!Go
<1>8. ASSUME NEW t \in Tools, Bot!Read(t) \/ Bot!Stale(t) PROVE Bot!SettingsAreWhole'
  BY <1>8 DEF Bot!Read, Bot!Stale, Bot!Steps, Bot!StepsWith, Bot!Go, Bot!Unrecorded
<1>9. ASSUME NEW t \in Tools, Bot!Listener(t) PROVE Bot!SettingsAreWhole'
  BY <1>9 DEF Bot!Listener, Bot!Steps, Bot!StepsWith, Bot!Go, Bot!NotRunning, Bot!Loads,
     Bot!Installed
<1>10. ASSUME NEW t \in Tools, Bot!Node(t) PROVE Bot!SettingsAreWhole'
  BY <1>10 DEF Bot!Node, Bot!Steps, Bot!StepsWith, Bot!Go, Bot!NotRunning
<1>11. ASSUME NEW t \in Tools, Bot!NetstatFails(t) \/ Bot!KillFails(t) PROVE
   Bot!SettingsAreWhole'
  BY <1>11 DEF Bot!NetstatFails, Bot!KillFails, Bot!Over, Bot!Go
<1>12. ASSUME NEW t \in Tools, Bot!Kill(t) PROVE Bot!SettingsAreWhole'
  BY <1>12 DEF Bot!Kill, Bot!Go, Bot!Gone, Bot!StillServed
<1>13. ASSUME NEW t \in Tools, Bot!Closed(t) PROVE Bot!SettingsAreWhole'
  BY <1>13 DEF Bot!Closed, Bot!Over, Bot!Gone, Bot!StillServed
<1>14. ASSUME NEW p \in Pids, Bot!Bind(p) PROVE Bot!SettingsAreWhole'
  BY <1>14 DEF Bot!Bind, Bot!Gone, Bot!StillServed
<1>15. ASSUME NEW p \in Pids, Bot!LogsIn(p) PROVE Bot!SettingsAreWhole'
  BY <1>15 DEF Bot!LogsIn
<1>16. ASSUME NEW p \in Pids, Bot!Ends(p) PROVE Bot!SettingsAreWhole'
  BY <1>16 DEF Bot!Ends, Bot!Gone, Bot!StillServed
<1>17. CASE Bot!Comes
  BY <1>17 DEF Bot!Comes
<1>18. CASE Bot!Reboot
  BY <1>18 DEF Bot!Reboot, Bot!Over, Bot!Gone, Bot!StillServed
<1> QED BY <1>1, <1>2, <1>3, <1>4, <1>5, <1>6, <1>7, <1>8, <1>9, <1>10, <1>11, <1>12, <1>13,
   <1>14, <1>15, <1>16, <1>17, <1>18 DEF Bot!LocalNext

\* Whoever is known to be a node program is one, or has ended.
LEMMA StaysFamiliar ==
    BotTypes /\ Bot!LocalNext => \A p \in Pids : Familiar(p) => Familiar(p)'
<1> SUFFICES ASSUME BotTypes, Bot!LocalNext, NEW p \in Pids, Familiar(p) PROVE Familiar(p)'
  OBVIOUS
<1>0. WorldTypes /\ Errand
  BY DEF BotTypes
<1>1. ASSUME UNCHANGED <<process, used>> PROVE Familiar(p)'
  BY <1>1 DEF Familiar
<1>2. ASSUME NEW ps \in SUBSET Pids, Bot!Gone(ps) PROVE Familiar(p)'
  BY <1>0, <1>2, GoneAreUsed DEF Familiar
<1>3. ASSUME NEW t \in Tools,
             \/ Bot!Install(t) \/ Bot!Stage(t) \/ Bot!Publish(t) \/ Bot!Console(t) \/ Bot!Begin(t)
             \/ Bot!Login(t) \/ Bot!Probe(t) \/ Bot!Record(t) \/ Bot!ChildEnds(t) \/ Bot!Poll(t)
             \/ Bot!Remember(t) \/ Bot!Write(t) \/ Bot!Recipients(t) \/ Bot!WriteNotify(t)
             \/ Bot!Deliver(t) \/ Bot!Ask(t) \/ Bot!Read(t) \/ Bot!Stale(t) \/ Bot!Listener(t)
             \/ Bot!NetstatFails(t) \/ Bot!Node(t) \/ Bot!KillFails(t) \/ Bot!Forget(t)
      PROVE Familiar(p)'
  BY <1>1, <1>3, WorldStays
<1>4. ASSUME NEW t \in Tools, Bot!Kill(t) \/ Bot!Closed(t) PROVE Familiar(p)'
  BY <1>0, <1>2, <1>4, Killed
<1>5. ASSUME NEW t \in Tools, Bot!Spawn(t) PROVE Familiar(p)'
  BY <1>0, <1>5, FreePid DEF Bot!Spawn, Familiar, WorldTypes
<1>6. ASSUME NEW q \in Pids, Bot!Bind(q) \/ Bot!LogsIn(q) \/ Bot!Ends(q) PROVE Familiar(p)'
  BY <1>1, <1>2, <1>6 DEF Bot!Bind, Bot!LogsIn, Bot!Ends
<1>7. CASE Bot!Comes
  BY <1>0, <1>7, FreePid DEF Bot!Comes, Familiar, WorldTypes
<1>8. CASE Bot!Reboot
  BY <1>2, <1>8 DEF Bot!Reboot
<1> QED BY <1>3, <1>4, <1>5, <1>6, <1>7, <1>8 DEF Bot!LocalNext

\* The pids that are recorded or to be killed are those of node programs.
LEMMA AcquaintedKept == BotTypes /\ Acquainted /\ Bot!LocalNext => Acquainted'
<1> SUFFICES ASSUME BotTypes, Acquainted, Bot!LocalNext PROVE Acquainted'
  OBVIOUS
<1>b. \A p \in Pids : Familiar(p) => Familiar(p)'
  BY StaysFamiliar
<1>c. ASSUME NEW t \in Tools, Bot!Kill(t) PROVE Acquainted'
  <2>1. pidFile' = pidFile /\ script' = [script EXCEPT ![t] = "forget"] /\ pid' = pid
    BY <1>c DEF Bot!Kill, Bot!Go, Bot!diskVars
  <2> QED BY <1>b, <2>1 DEF BotTypes, ToolTypes, DiskTypes, Errand, Doing, Acquainted
<1> USE BotAssumption DEF BotTypes, ToolTypes, WorldTypes, DiskTypes, Labels, Setups, Launches,
   Errands, Homes, Bot!Missing, Bot!None, Bot!toolVars, Bot!worldVars, Bot!diskVars, Bot!Robots,
   Bot!Ports, Bot!Serving, Errand, Doing, Acquainted, Familiar
<1>1. ASSUME NEW t \in Tools, Bot!Install(t) \/ Bot!Console(t) \/ Bot!Begin(t) \/ Bot!Ask(t)
   PROVE Acquainted'
  BY <1>1 DEF Bot!Install, Bot!Console, Bot!Begin, Bot!Ask, Bot!Starts, Bot!Overlaps, Bot!Go,
     Bot!Installed, Bot!Loads
<1>2. ASSUME NEW t \in Tools, Bot!Stage(t) PROVE Acquainted'
  BY <1>2 DEF Bot!Stage, Bot!Steps, Bot!StepsWith, Bot!Go
<1>3. ASSUME NEW t \in Tools, Bot!Publish(t) PROVE Acquainted'
  BY <1>3 DEF Bot!Publish, Bot!Steps, Bot!StepsWith, Bot!Go, Bot!Published, Bot!Installed
<1>4. ASSUME NEW t \in Tools, Bot!Login(t) \/ Bot!Probe(t) \/ Bot!Poll(t) \/ Bot!Recipients(t) \/
   Bot!Deliver(t) PROVE Acquainted'
  BY <1>4 DEF Bot!Login, Bot!Probe, Bot!Poll, Bot!Recipients, Bot!Deliver, Bot!Steps,
     Bot!StepsWith, Bot!Go, Bot!Loads, Bot!Installed
<1>5. ASSUME NEW t \in Tools, Bot!Remember(t) \/ Bot!Write(t) \/ Bot!WriteNotify(t) PROVE
   Acquainted'
  BY <1>5 DEF Bot!Remember, Bot!Write, Bot!WriteNotify, Bot!Steps, Bot!StepsWith, Bot!Go,
     Bot!Loads, Bot!Installed
<1>6. ASSUME NEW t \in Tools, Bot!Spawn(t) PROVE Acquainted'
  BY <1>6, FreePid DEF Bot!Spawn, Bot!StepsWith, Bot!Go
<1>7. ASSUME NEW t \in Tools, Bot!Record(t) \/ Bot!ChildEnds(t) \/ Bot!Forget(t) PROVE
   Acquainted'
  BY <1>7 DEF Bot!Record, Bot!ChildEnds, Bot!Forget, Bot!Overlaps, Bot!Steps, Bot!StepsWith,
     Bot!Go
<1>8. ASSUME NEW t \in Tools, Bot!Read(t) \/ Bot!Stale(t) PROVE Acquainted'
  BY <1>8 DEF Bot!Read, Bot!Stale, Bot!Steps, Bot!StepsWith, Bot!Go, Bot!Unrecorded
<1>9. ASSUME NEW t \in Tools, Bot!Listener(t) PROVE Acquainted'
  BY <1>9 DEF Bot!Listener, Bot!Steps, Bot!StepsWith, Bot!Go, Bot!NotRunning, Bot!Loads,
     Bot!Installed
<1>10. ASSUME NEW t \in Tools, Bot!Node(t) PROVE Acquainted'
  BY <1>10 DEF Bot!Node, Bot!Steps, Bot!StepsWith, Bot!Go, Bot!NotRunning, Bot!IsNode
<1>11. ASSUME NEW t \in Tools, Bot!NetstatFails(t) \/ Bot!KillFails(t) PROVE Acquainted'
  BY <1>11 DEF Bot!NetstatFails, Bot!KillFails, Bot!Over, Bot!Go
<1>12. ASSUME NEW t \in Tools, Bot!Closed(t) PROVE Acquainted'
  BY <1>12, <1>b DEF Bot!Closed, Bot!Over, Bot!StillServed
<1>13. ASSUME NEW p \in Pids, Bot!Bind(p) PROVE Acquainted'
  BY <1>13, <1>b DEF Bot!Bind, Bot!StillServed
<1>14. ASSUME NEW p \in Pids, Bot!LogsIn(p) PROVE Acquainted'
  BY <1>14 DEF Bot!LogsIn
<1>15. ASSUME NEW p \in Pids, Bot!Ends(p) PROVE Acquainted'
  BY <1>15, <1>b DEF Bot!Ends, Bot!StillServed
<1>16. CASE Bot!Comes
  BY <1>16, <1>b DEF Bot!Comes
<1>17. CASE Bot!Reboot
  BY <1>17 DEF Bot!Reboot, Bot!Over, Bot!Gone, Bot!StillServed
<1> QED BY <1>c, <1>1, <1>2, <1>3, <1>4, <1>5, <1>6, <1>7, <1>8, <1>9, <1>10, <1>11, <1>12,
   <1>13, <1>14, <1>15, <1>16, <1>17 DEF Bot!LocalNext

\* So a stop ends no stranger's program.
LEMMA StrangersKept ==
    BotTypes /\ Acquainted /\ Bot!StrangersLive /\ Bot!LocalNext => Bot!StrangersLive'
<1> SUFFICES ASSUME BotTypes, Acquainted, Bot!StrangersLive, Bot!LocalNext PROVE Bot!StrangersLive'
  OBVIOUS
<1> USE DEF BotTypes, WorldTypes, Errand, Doing, Acquainted, Familiar, Bot!StrangersLive
<1>1. ASSUME NEW t \in Tools, Bot!Install(t) \/ Bot!Console(t) \/ Bot!Begin(t) \/ Bot!Ask(t)
   PROVE Bot!StrangersLive'
  BY <1>1 DEF Bot!Install, Bot!Console, Bot!Begin, Bot!Ask, Bot!Starts, Bot!Overlaps, Bot!Go,
     Bot!Installed, Bot!Loads
<1>2. ASSUME NEW t \in Tools, Bot!Stage(t) PROVE Bot!StrangersLive'
  BY <1>2 DEF Bot!Stage, Bot!Steps, Bot!StepsWith, Bot!Go
<1>3. ASSUME NEW t \in Tools, Bot!Publish(t) PROVE Bot!StrangersLive'
  BY <1>3 DEF Bot!Publish, Bot!Steps, Bot!StepsWith, Bot!Go, Bot!Published, Bot!Installed
<1>4. ASSUME NEW t \in Tools, Bot!Login(t) \/ Bot!Probe(t) \/ Bot!Poll(t) \/ Bot!Recipients(t) \/
   Bot!Deliver(t) PROVE Bot!StrangersLive'
  BY <1>4 DEF Bot!Login, Bot!Probe, Bot!Poll, Bot!Recipients, Bot!Deliver, Bot!Steps,
     Bot!StepsWith, Bot!Go, Bot!Loads, Bot!Installed
<1>5. ASSUME NEW t \in Tools, Bot!Remember(t) \/ Bot!Write(t) \/ Bot!WriteNotify(t) PROVE
   Bot!StrangersLive'
  BY <1>5 DEF Bot!Remember, Bot!Write, Bot!WriteNotify, Bot!Steps, Bot!StepsWith, Bot!Go,
     Bot!Loads, Bot!Installed
<1>6. ASSUME NEW t \in Tools, Bot!Spawn(t) PROVE Bot!StrangersLive'
  BY <1>6 DEF Bot!Spawn, Bot!StepsWith, Bot!Go
<1>7. ASSUME NEW t \in Tools, Bot!Record(t) \/ Bot!ChildEnds(t) \/ Bot!Forget(t) PROVE
   Bot!StrangersLive'
  BY <1>7 DEF Bot!Record, Bot!ChildEnds, Bot!Forget, Bot!Overlaps, Bot!Steps, Bot!StepsWith,
     Bot!Go
<1>8. ASSUME NEW t \in Tools, Bot!Read(t) \/ Bot!Stale(t) PROVE Bot!StrangersLive'
  BY <1>8 DEF Bot!Read, Bot!Stale, Bot!Steps, Bot!StepsWith, Bot!Go, Bot!Unrecorded
<1>9. ASSUME NEW t \in Tools, Bot!Listener(t) PROVE Bot!StrangersLive'
  BY <1>9 DEF Bot!Listener, Bot!Steps, Bot!StepsWith, Bot!Go, Bot!NotRunning, Bot!Loads,
     Bot!Installed
<1>10. ASSUME NEW t \in Tools, Bot!Node(t) PROVE Bot!StrangersLive'
  BY <1>10 DEF Bot!Node, Bot!Steps, Bot!StepsWith, Bot!Go, Bot!NotRunning
<1>11. ASSUME NEW t \in Tools, Bot!NetstatFails(t) \/ Bot!KillFails(t) PROVE Bot!StrangersLive'
  BY <1>11 DEF Bot!NetstatFails, Bot!KillFails, Bot!Over, Bot!Go
<1>12. ASSUME NEW t \in Tools, Bot!Kill(t) PROVE Bot!StrangersLive'
  BY <1>12 DEF Bot!Kill, Bot!Go, Bot!Gone, Bot!StillServed
<1>13. ASSUME NEW t \in Tools, Bot!Closed(t) PROVE Bot!StrangersLive'
  BY <1>13 DEF Bot!Closed, Bot!Over, Bot!Gone, Bot!StillServed
<1>14. ASSUME NEW p \in Pids, Bot!Bind(p) PROVE Bot!StrangersLive'
  BY <1>14 DEF Bot!Bind, Bot!Gone, Bot!StillServed
<1>15. ASSUME NEW p \in Pids, Bot!LogsIn(p) PROVE Bot!StrangersLive'
  BY <1>15 DEF Bot!LogsIn
<1>16. ASSUME NEW p \in Pids, Bot!Ends(p) PROVE Bot!StrangersLive'
  BY <1>16 DEF Bot!Ends, Bot!Gone, Bot!StillServed
<1>17. CASE Bot!Comes
  BY <1>17 DEF Bot!Comes
<1>18. CASE Bot!Reboot
  BY <1>18 DEF Bot!Reboot, Bot!Over, Bot!Gone, Bot!StillServed
<1> QED BY <1>1, <1>2, <1>3, <1>4, <1>5, <1>6, <1>7, <1>8, <1>9, <1>10, <1>11, <1>12, <1>13,
   <1>14, <1>15, <1>16, <1>17, <1>18 DEF Bot!LocalNext

\* A step of a script forgets at most whom it has seen serving.
LEMMA StepsForget ==
    ASSUME ToolTypes, NEW t \in Tools, NEW label, NEW p, Bot!StepsWith(t, label, p)
    PROVE  \A u \in Tools : served'[u] \subseteq served[u]
BY DEF ToolTypes, Bot!StepsWith

\* While the robots, the ports and the installation stay, whoever serves serves on.
LEMMA ServeOn ==
    ASSUME Attended, UNCHANGED <<place, process, listener>>,
           \A u \in Tools : served'[u] \subseteq served[u]
    PROVE  Attended'
BY DEF Attended, Bot!Installed, Bot!Missing, Bot!None

\* Whom a script has seen serving all the while still serves.
LEMMA AttendedKept == BotTypes /\ Attended /\ Bot!LocalNext => Attended'
<1> SUFFICES ASSUME BotTypes, Attended, Bot!LocalNext PROVE Attended'
  OBVIOUS
<1>0. ToolTypes /\ WorldTypes /\ place \in Homes \cup {Bot!Missing}
  BY DEF BotTypes, DiskTypes
<1> USE DEF Bot!worldVars, Bot!diskVars
<1>1. ASSUME NEW t \in Tools, Bot!Install(t) \/ Bot!Console(t) \/ Bot!Begin(t) \/ Bot!KillFails(t)
      PROVE Attended'
  BY <1>1, ServeOn DEF Bot!Install, Bot!Console, Bot!Begin, Bot!KillFails
<1>2. ASSUME NEW t \in Tools,
             \/ Bot!Stage(t) \/ Bot!Login(t) \/ Bot!Probe(t) \/ Bot!Poll(t) \/ Bot!Remember(t)
             \/ Bot!Write(t) \/ Bot!Recipients(t) \/ Bot!WriteNotify(t) \/ Bot!Deliver(t)
             \/ Bot!Record(t) \/ Bot!ChildEnds(t) \/ Bot!Forget(t)
      PROVE Attended'
  <2>1. UNCHANGED <<place, process, listener>>
    BY <1>2 DEF Bot!Stage, Bot!Login, Bot!Probe, Bot!Poll, Bot!Remember, Bot!Write, Bot!Recipients,
          Bot!WriteNotify, Bot!Deliver, Bot!Record, Bot!ChildEnds, Bot!Forget
  <2>2. \E label, p : Bot!StepsWith(t, label, p)
    BY <1>2, Zenon DEF Bot!Stage, Bot!Login, Bot!Probe, Bot!Poll, Bot!Remember, Bot!Write, Bot!Recipients,
          Bot!WriteNotify, Bot!Deliver, Bot!Record, Bot!ChildEnds, Bot!Forget, Bot!Steps
  <2> QED BY <1>0, <2>1, <2>2, StepsForget, ServeOn
<1>3. ASSUME NEW t \in Tools, Bot!Read(t) \/ Bot!Stale(t) \/ Bot!Listener(t) \/ Bot!Node(t)
      PROVE Attended'
  <2>1. UNCHANGED <<place, process, listener>>
    BY <1>3 DEF Bot!Read, Bot!Stale, Bot!Listener, Bot!Node
  <2>2. \E label, p : Bot!StepsWith(t, label, p)
    BY <1>3, Zenon DEF Bot!Read, Bot!Stale, Bot!Listener, Bot!Node, Bot!Unrecorded, Bot!NotRunning, Bot!Steps
  <2> QED BY <1>0, <2>1, <2>2, StepsForget, ServeOn
<1>4. ASSUME NEW t \in Tools, Bot!Publish(t) PROVE Attended'
  <2>1. UNCHANGED <<process, listener>> /\ (place' = place \/ ~Bot!Installed)
    BY <1>4 DEF Bot!Publish
  <2>2. \E label, p : Bot!StepsWith(t, label, p)
    BY <1>4, Zenon DEF Bot!Publish, Bot!Published, Bot!Steps
  <2>3. \A u \in Tools : served'[u] \subseteq served[u]
    BY <1>0, <2>2, StepsForget
  <2>4. CASE place' = place
    BY <2>1, <2>3, <2>4, ServeOn
  <2>5. CASE ~Bot!Installed
    BY <2>3, <2>5 DEF Attended
  <2> QED BY <2>1, <2>4, <2>5
<1>5. ASSUME NEW t \in Tools, Bot!Ask(t) PROVE Attended'
  BY <1>5, <1>0 DEF Bot!Ask, Bot!Installed, Bot!Missing, Bot!None, Bot!Serving, Bot!Robots, Attended, ToolTypes
<1>6. ASSUME NEW t \in Tools, Bot!Spawn(t) PROVE Attended'
  <2>1. PICK p \in Bot!FreePids :
           process' = [process EXCEPT ![p] = "bot"] /\ Bot!StepsWith(t, "record", p)
    BY <1>6 DEF Bot!Spawn
  <2>2. UNCHANGED <<place, listener>>
    BY <1>6 DEF Bot!Spawn
  <2>3. \A u \in Tools : served'[u] \subseteq served[u]
    BY <1>0, <2>1, StepsForget
  <2>4. \A q : process[q] = "bot" => process'[q] = "bot"
    BY <1>0, <2>1, FreePid DEF WorldTypes
  <2> QED BY <2>2, <2>3, <2>4 DEF Attended, Bot!Installed, Bot!Missing, Bot!None
<1>7. ASSUME NEW t \in Tools, Bot!NetstatFails(t) PROVE Attended'
  BY <1>0, <1>7, ServeOn DEF Bot!NetstatFails, ToolTypes
<1>8. ASSUME NEW ps, Bot!Gone(ps), Bot!StillServed(ps), place' = place PROVE Attended'
  <2>1. \A u \in Tools : served'[u] = served[u] \ ps
    BY <1>8 DEF Bot!StillServed
  <2> SUFFICES ASSUME NEW u \in Tools, NEW p \in served'[u]
               PROVE  Bot!Installed' /\ process'[p] = "bot" /\ listener'[place'.http] = p
    BY DEF Attended
  <2>2. /\ p \in served[u] /\ p \notin ps /\ p \in Pids /\ p # 0
        /\ Bot!Installed /\ process[p] = "bot" /\ listener[place.http] = p
    <3>1. p \in served[u] /\ p \notin ps
      BY <2>1
    <3>2. p \in Pids
      BY <1>0, <3>1 DEF ToolTypes
    <3>3. p # 0
      BY <3>2, BotAssumption
    <3>4. Bot!Installed /\ process[p] = "bot" /\ listener[place.http] = p
      BY <3>1 DEF Attended
    <3> QED BY <3>1, <3>2, <3>3, <3>4
  <2>3. place.http \in Bot!Ports
    BY <1>0, <2>2, HomePorts
  <2> QED BY <1>8, <2>2, <2>3 DEF Bot!Gone, Bot!Installed, Bot!Missing, Bot!None
<1>9. ASSUME NEW t \in Tools, Bot!Kill(t) \/ Bot!Closed(t) PROVE Attended'
  BY <1>8, <1>9 DEF Bot!Kill, Bot!Closed
<1>10. ASSUME NEW p \in Pids, Bot!Bind(p) PROVE Attended'
  <2>1. CASE Bot!Gone({p}) /\ Bot!StillServed({p})
    BY <1>8, <1>10, <2>1 DEF Bot!Bind
  <2>2. CASE UNCHANGED <<process, served>>
             /\ listener' = [n \in Bot!Ports |-> IF n \in {place.http, place.web} /\ listener[n] = Bot!None
                                         THEN p ELSE listener[n]]
    <3>1. place' = place
      BY <1>10 DEF Bot!Bind
    <3> SUFFICES ASSUME NEW u \in Tools, NEW q \in served[u]
                 PROVE  Bot!Installed' /\ process'[q] = "bot" /\ listener'[place'.http] = q
      BY <2>2 DEF Attended
    <3>2. q \in Pids /\ q # 0 /\ Bot!Installed /\ process[q] = "bot" /\ listener[place.http] = q
      BY <1>0, BotAssumption DEF Attended, ToolTypes
    <3>3. place.http \in Bot!Ports
      BY <1>0, <3>2, HomePorts
    <3> QED BY <2>2, <3>1, <3>2, <3>3 DEF Bot!Installed, Bot!Missing, Bot!None
  <2> QED BY <1>10, <2>1, <2>2 DEF Bot!Bind
<1>11. ASSUME NEW p \in Pids, Bot!LogsIn(p) PROVE Attended'
  BY <1>11, ServeOn DEF Bot!LogsIn
<1>12. ASSUME NEW p \in Pids, Bot!Ends(p) PROVE Attended'
  BY <1>8, <1>12 DEF Bot!Ends
<1>13. CASE Bot!Comes
  <2>1. PICK p \in Bot!FreePids, what \in {"node", "other"}, n \in Bot!FreePorts(HttpPorts) \cup {0} :
          /\ process' = [process EXCEPT ![p] = what]
          /\ listener' = [k \in Bot!Ports |-> IF k = n THEN p ELSE listener[k]]
    BY <1>13 DEF Bot!Comes, Bot!None
  <2>2. UNCHANGED <<place, served>>
    BY <1>13 DEF Bot!Comes
  <2> SUFFICES ASSUME NEW u \in Tools, NEW q \in served[u]
               PROVE  Bot!Installed' /\ process'[q] = "bot" /\ listener'[place'.http] = q
    BY <2>2 DEF Attended
  <2>3. q \in Pids /\ q # 0 /\ Bot!Installed /\ process[q] = "bot" /\ listener[place.http] = q
    BY <1>0, BotAssumption DEF Attended, ToolTypes
  <2>4. place.http \in Bot!Ports /\ place.http # 0
    BY <1>0, <2>3, HomePorts
  <2>5. q # p /\ place.http # n
    BY <2>1, <2>3, <2>4, FreePid DEF Bot!FreePorts, Bot!None
  <2> QED BY <1>0, <2>1, <2>2, <2>3, <2>4, <2>5 DEF Bot!Installed, Bot!Missing, Bot!None, WorldTypes
<1>14. CASE Bot!Reboot
  BY <1>8, <1>14 DEF Bot!Reboot
<1> QED BY <1>1, <1>2, <1>3, <1>4, <1>5, <1>6, <1>7, <1>9, <1>10, <1>11, <1>12, <1>13, <1>14
        DEF Bot!LocalNext

\* A script that looks at the one it has found on the port looks at the robot that has served
\* all the while, if there is one.
LEMMA NoticedKept == BotTypes /\ Attended /\ Noticed /\ Bot!LocalNext => Noticed'
<1> SUFFICES ASSUME BotTypes, Attended, Noticed, Bot!LocalNext PROVE Noticed'
  OBVIOUS
<1>a. ASSUME NEW t \in Tools, Bot!Listener(t)
      PROVE  \/ Bot!Steps(t, "idle")
             \/ \E p \in Pids : p = listener[place.http] /\ Bot!StepsWith(t, "node", p)
  BY <1>a, ListenerSteps
<1> USE DEF BotTypes, ToolTypes, Attended, Noticed, Labels, Setups, Launches, Bot!None,
   Bot!toolVars
<1>1. ASSUME NEW t \in Tools, Bot!Install(t) \/ Bot!Console(t) \/ Bot!Begin(t) \/ Bot!Ask(t)
   PROVE Noticed'
  BY <1>1 DEF Bot!Install, Bot!Console, Bot!Begin, Bot!Ask, Bot!Starts, Bot!Overlaps, Bot!Go,
     Bot!Installed, Bot!Loads
<1>2. ASSUME NEW t \in Tools, Bot!Stage(t) PROVE Noticed'
  BY <1>2 DEF Bot!Stage, Bot!Steps, Bot!StepsWith, Bot!Go
<1>3. ASSUME NEW t \in Tools, Bot!Publish(t) PROVE Noticed'
  BY <1>3 DEF Bot!Publish, Bot!Steps, Bot!StepsWith, Bot!Go, Bot!Published, Bot!Installed
<1>4. ASSUME NEW t \in Tools, Bot!Login(t) \/ Bot!Probe(t) \/ Bot!Poll(t) \/ Bot!Recipients(t) \/
   Bot!Deliver(t) PROVE Noticed'
  BY <1>4 DEF Bot!Login, Bot!Probe, Bot!Poll, Bot!Recipients, Bot!Deliver, Bot!Steps,
     Bot!StepsWith, Bot!Go, Bot!Loads, Bot!Installed
<1>5. ASSUME NEW t \in Tools, Bot!Remember(t) \/ Bot!Write(t) \/ Bot!WriteNotify(t) PROVE
   Noticed'
  BY <1>5 DEF Bot!Remember, Bot!Write, Bot!WriteNotify, Bot!Steps, Bot!StepsWith, Bot!Go,
     Bot!Loads, Bot!Installed
<1>6. ASSUME NEW t \in Tools, Bot!Spawn(t) PROVE Noticed'
  BY <1>6 DEF Bot!Spawn, Bot!StepsWith, Bot!Go
<1>7. ASSUME NEW t \in Tools, Bot!Record(t) \/ Bot!ChildEnds(t) \/ Bot!Forget(t) PROVE Noticed'
  BY <1>7 DEF Bot!Record, Bot!ChildEnds, Bot!Forget, Bot!Overlaps, Bot!Steps, Bot!StepsWith,
     Bot!Go
<1>8. ASSUME NEW t \in Tools, Bot!Read(t) \/ Bot!Stale(t) PROVE Noticed'
  BY <1>8 DEF Bot!Read, Bot!Stale, Bot!Steps, Bot!StepsWith, Bot!Go, Bot!Unrecorded
<1>9. ASSUME NEW t \in Tools, Bot!Listener(t) PROVE Noticed'
  BY <1>9, <1>a DEF Bot!Listener, Bot!Steps, Bot!StepsWith, Bot!Go
<1>10. ASSUME NEW t \in Tools, Bot!Node(t) PROVE Noticed'
  BY <1>10 DEF Bot!Node, Bot!Steps, Bot!StepsWith, Bot!Go, Bot!NotRunning
<1>11. ASSUME NEW t \in Tools, Bot!NetstatFails(t) \/ Bot!KillFails(t) PROVE Noticed'
  BY <1>11 DEF Bot!NetstatFails, Bot!KillFails, Bot!Over, Bot!Go
<1>12. ASSUME NEW t \in Tools, Bot!Kill(t) PROVE Noticed'
  BY <1>12 DEF Bot!Kill, Bot!Go, Bot!Gone, Bot!StillServed
<1>13. ASSUME NEW t \in Tools, Bot!Closed(t) PROVE Noticed'
  BY <1>13 DEF Bot!Closed, Bot!Over, Bot!Gone, Bot!StillServed
<1>14. ASSUME NEW p \in Pids, Bot!Bind(p) PROVE Noticed'
  BY <1>14 DEF Bot!Bind, Bot!Gone, Bot!StillServed
<1>15. ASSUME NEW p \in Pids, Bot!LogsIn(p) PROVE Noticed'
  BY <1>15 DEF Bot!LogsIn
<1>16. ASSUME NEW p \in Pids, Bot!Ends(p) PROVE Noticed'
  BY <1>16 DEF Bot!Ends, Bot!Gone, Bot!StillServed
<1>17. CASE Bot!Comes
  BY <1>17 DEF Bot!Comes
<1>18. CASE Bot!Reboot
  BY <1>18 DEF Bot!Reboot, Bot!Over, Bot!Gone, Bot!StillServed
<1> QED BY <1>1, <1>2, <1>3, <1>4, <1>5, <1>6, <1>7, <1>8, <1>9, <1>10, <1>11, <1>12, <1>13,
   <1>14, <1>15, <1>16, <1>17, <1>18 DEF Bot!LocalNext

\* The answer "not running" misses nobody who has served all the while.
LEMMA MissedKept ==
    BotTypes /\ Attended /\ Noticed /\ Bot!StopFindsTheRobot /\ Bot!LocalNext
        => Bot!StopFindsTheRobot'
<1> SUFFICES ASSUME BotTypes, Attended, Noticed, Bot!StopFindsTheRobot, Bot!LocalNext
             PROVE  Bot!StopFindsTheRobot'
  OBVIOUS
<1>0. ~missed /\ served \in [Tools -> SUBSET Pids] /\ process \in [Pids -> {"none", "bot", "node", "other"}]
  BY DEF BotTypes, ToolTypes, WorldTypes, Bot!StopFindsTheRobot
<1>1. ASSUME UNCHANGED missed PROVE Bot!StopFindsTheRobot'
  BY <1>0, <1>1 DEF Bot!StopFindsTheRobot
<1>2. ASSUME NEW t \in Tools, Bot!NotRunning(t), served[t] = {} PROVE Bot!StopFindsTheRobot'
  <2>1. missed' = (missed \/ served[t] # {})
    BY <1>2 DEF Bot!NotRunning
  <2> QED BY <1>0, <1>2, <2>1 DEF Bot!StopFindsTheRobot
<1>3. ASSUME NEW t \in Tools, Bot!Listener(t) PROVE Bot!StopFindsTheRobot'
  <2>1. CASE Bot!NotRunning(t) /\ (~Bot!Installed \/ listener[place.http] = 0)
    <3>1. served[t] = {}
      BY <1>0, <2>1, BotAssumption, ZenonT(120) DEF Attended
    <3> QED BY <1>2, <2>1, <3>1
  <2>2. CASE UNCHANGED missed
    BY <1>1, <2>2
  <2> QED BY <1>3, <2>1, <2>2 DEF Bot!Listener, Bot!None
<1>4. ASSUME NEW t \in Tools, Bot!Node(t) PROVE Bot!StopFindsTheRobot'
  <2>1. CASE Bot!NotRunning(t) /\ ~Bot!IsNode(pid[t])
    <3>1. script[t] = "node"
      BY <1>4 DEF Bot!Node
    <3>2. ASSUME NEW p \in served[t] PROVE FALSE
      <4>1. p = pid[t]
        BY <3>1, <3>2 DEF Noticed
      <4>2. process[p] = "bot"
        BY <3>2 DEF Attended
      <4> QED BY <2>1, <4>1, <4>2 DEF Bot!IsNode
    <3>3. served[t] = {}
      BY <3>2
    <3> QED BY <1>2, <2>1, <3>3
  <2>2. CASE UNCHANGED missed
    BY <1>1, <2>2
  <2> QED BY <1>4, <2>1, <2>2 DEF Bot!Node
<1>5. ASSUME NEW t \in Tools,
             \/ Bot!Install(t) \/ Bot!Stage(t) \/ Bot!Publish(t) \/ Bot!Console(t) \/ Bot!Begin(t)
             \/ Bot!Login(t) \/ Bot!Probe(t) \/ Bot!Spawn(t) \/ Bot!Record(t) \/ Bot!ChildEnds(t)
             \/ Bot!Poll(t) \/ Bot!Remember(t) \/ Bot!Write(t) \/ Bot!Recipients(t)
             \/ Bot!WriteNotify(t) \/ Bot!Deliver(t) \/ Bot!Ask(t) \/ Bot!Read(t) \/ Bot!Stale(t)
             \/ Bot!NetstatFails(t) \/ Bot!Kill(t) \/ Bot!KillFails(t) \/ Bot!Forget(t)
             \/ Bot!Closed(t)
      PROVE Bot!StopFindsTheRobot'
  <2>1. UNCHANGED missed
    BY <1>5 DEF Bot!Install, Bot!Stage, Bot!Publish, Bot!Console, Bot!Begin, Bot!Login, Bot!Probe,
       Bot!Spawn, Bot!Record, Bot!ChildEnds, Bot!Poll, Bot!Remember, Bot!Write, Bot!Recipients,
       Bot!WriteNotify, Bot!Deliver, Bot!Ask, Bot!Read, Bot!Stale, Bot!NetstatFails, Bot!Kill,
       Bot!KillFails, Bot!Forget, Bot!Closed, Bot!Unrecorded
  <2> QED BY <1>1, <2>1
<1>6. ASSUME NEW p \in Pids, Bot!Bind(p) \/ Bot!LogsIn(p) \/ Bot!Ends(p)
      PROVE  Bot!StopFindsTheRobot'
  BY <1>1, <1>6 DEF Bot!Bind, Bot!LogsIn, Bot!Ends
<1>7. CASE Bot!Comes \/ Bot!Reboot
  BY <1>1, <1>7 DEF Bot!Comes, Bot!Reboot
<1> QED BY <1>3, <1>4, <1>5, <1>6, <1>7 DEF Bot!LocalNext

\* A step of a script.
ScriptStep(t) ==
    \/ Bot!Install(t) \/ Bot!Stage(t) \/ Bot!Publish(t) \/ Bot!Console(t) \/ Bot!Begin(t)
    \/ Bot!Login(t) \/ Bot!Probe(t) \/ Bot!Spawn(t) \/ Bot!Record(t) \/ Bot!ChildEnds(t)
    \/ Bot!Poll(t) \/ Bot!Remember(t) \/ Bot!Write(t) \/ Bot!Recipients(t) \/ Bot!WriteNotify(t)
    \/ Bot!Deliver(t) \/ Bot!Ask(t) \/ Bot!Read(t) \/ Bot!Stale(t) \/ Bot!Listener(t)
    \/ Bot!NetstatFails(t) \/ Bot!Node(t) \/ Bot!Kill(t) \/ Bot!KillFails(t) \/ Bot!Forget(t)
    \/ Bot!Closed(t)

\* A step of a script leaves the others where they are.
LEMMA OneMoves ==
    ASSUME BotTypes, NEW t \in Tools, ScriptStep(t)
    PROVE  \A u \in Tools \ {t} : script'[u] = script[u] /\ op'[u] = op[u] /\ pid'[u] = pid[u]
<1>1. script \in [Tools -> Labels] /\ op \in [Tools -> Errands] /\ pid \in [Tools -> Pids \cup {0}]
  BY DEF BotTypes, ToolTypes
<1>2. ASSUME NEW label, NEW p, Bot!StepsWith(t, label, p)
      PROVE  \A u \in Tools \ {t} : script'[u] = script[u] /\ op'[u] = op[u] /\ pid'[u] = pid[u]
  BY <1>1, <1>2 DEF Bot!StepsWith, Bot!Go
<1>3. ASSUME \/ Bot!Stage(t) \/ Bot!Publish(t) \/ Bot!Login(t) \/ Bot!Probe(t) \/ Bot!Spawn(t)
             \/ Bot!Record(t) \/ Bot!ChildEnds(t) \/ Bot!Poll(t) \/ Bot!Remember(t) \/ Bot!Write(t)
             \/ Bot!Recipients(t) \/ Bot!WriteNotify(t) \/ Bot!Deliver(t) \/ Bot!Read(t)
             \/ Bot!Stale(t) \/ Bot!Listener(t) \/ Bot!Node(t) \/ Bot!Forget(t)
      PROVE  \E label, p : Bot!StepsWith(t, label, p)
  BY <1>3, Zenon DEF Bot!Stage, Bot!Publish, Bot!Login, Bot!Probe, Bot!Spawn, Bot!Record, Bot!ChildEnds, Bot!Poll,
     Bot!Remember, Bot!Write, Bot!Recipients, Bot!WriteNotify, Bot!Deliver, Bot!Read, Bot!Stale,
     Bot!Listener, Bot!Node, Bot!Forget, Bot!Published, Bot!Unrecorded, Bot!NotRunning, Bot!Steps
<1>4. CASE \/ Bot!Install(t) \/ Bot!Console(t) \/ Bot!Begin(t) \/ Bot!Ask(t)
           \/ Bot!NetstatFails(t) \/ Bot!Kill(t) \/ Bot!KillFails(t) \/ Bot!Closed(t)
  BY <1>1, <1>4 DEF Bot!Install, Bot!Console, Bot!Begin, Bot!Ask, Bot!NetstatFails, Bot!Kill, Bot!KillFails,
     Bot!Closed, Bot!Go, Bot!Over
<1> QED BY <1>2, <1>3, <1>4 DEF ScriptStep

\* While nothing is disturbed, the script that moves is the one at work.
LEMMA Alone ==
    ASSUME BotTypes, OneAtWork, NEW t \in Tools, ScriptStep(t), ~disturbed'
    PROVE  \A u \in Tools \ {t} : Idle(u)
<1>1. CASE script[t] \notin {"idle", "wait"}
  BY <1>1 DEF OneAtWork, Idle
<1>2. CASE script[t] \in {"idle", "wait"}
  <2>1. \/ Bot!Install(t) \/ Bot!Console(t) \/ Bot!Begin(t) \/ Bot!Ask(t) \/ Bot!ChildEnds(t) \/ Bot!Closed(t)
    BY <1>2 DEF ScriptStep, Bot!Stage, Bot!Publish, Bot!Login, Bot!Probe, Bot!Spawn, Bot!Record, Bot!Poll,
       Bot!Remember, Bot!Write, Bot!Recipients, Bot!WriteNotify, Bot!Deliver, Bot!Read, Bot!Stale,
       Bot!Listener, Bot!NetstatFails, Bot!Node, Bot!Kill, Bot!KillFails, Bot!Forget
  <2>2. ~Bot!Closed(t)
    BY DEF Bot!Closed
  <2>3. \A u \in Tools \ {t} : ~Bot!Working(u)
    BY <2>1, <2>2 DEF Bot!Install, Bot!Console, Bot!Begin, Bot!Ask, Bot!ChildEnds, Bot!Overlaps
  <2> QED BY <2>3 DEF Bot!Working, Idle
<1> QED BY <1>1, <1>2

\* The robots after a step that launches none: they are fewer or as many, found where they
\* were, and nobody takes the pid of a robot that a script waits for.
Fewer ==
    /\ Bot!Robots' \subseteq Bot!Robots
    /\ \A t \in Tools : script[t] \in {"record", "wait"} => process'[pid[t]] \in {process[pid[t]], "none"}
    /\ \A p \in Bot!Robots' : listener[place.http] = p => listener'[place.http] = p

\* Where some processes end there is nothing new.
LEMMA FewerIfGone ==
    ASSUME BotTypes, Housed, NEW ps \in SUBSET Pids, Bot!Gone(ps)
    PROVE  Fewer
<1>0. WorldTypes /\ place \in Homes \cup {Bot!Missing} /\ Errand
  BY DEF BotTypes, DiskTypes
<1>1. Bot!Robots' = Bot!Robots \ ps
  BY <1>0, GoneAreUsed
<1>2. \A p \in Pids : process'[p] \in {process[p], "none"}
  BY DEF Bot!Gone
<1>3. ASSUME NEW p \in Bot!Robots', listener[place.http] = p PROVE listener'[place.http] = p
  <2>1. p \in Bot!Robots /\ p \notin ps
    BY <1>1, <1>3
  <2>2. place.http \in Bot!Ports
    BY <1>0, <2>1, HomePorts DEF Housed
  <2> QED BY <1>3, <2>1, <2>2 DEF Bot!Gone
<1> QED BY <1>0, <1>1, <1>2, <1>3 DEF Fewer, Errand, Doing

\* Nor in the steps of the robots themselves, of strangers and of a kill.
LEMMA FewerElse ==
    ASSUME BotTypes, Housed,
           \/ \E p \in Pids : Bot!Bind(p) \/ Bot!LogsIn(p) \/ Bot!Ends(p)
           \/ Bot!Comes \/ \E t \in Tools : Bot!Kill(t)
    PROVE  Fewer
<1>0. WorldTypes /\ place \in Homes \cup {Bot!Missing} /\ Errand
  BY DEF BotTypes, DiskTypes
<1>1. \A p \in Bot!Robots : p \in Pids /\ p # 0 /\ place.http \in Bot!Ports /\ place.http # 0
  BY <1>0, HomePorts, BotAssumption DEF Housed, Bot!Robots
<1>2. ASSUME NEW p \in Pids, Bot!Bind(p) PROVE Fewer
  <2>1. CASE Bot!Gone({p})
    BY <2>1, FewerIfGone
  <2>2. CASE /\ process' = process
             /\ listener' = [n \in Bot!Ports |-> IF n \in {place.http, place.web} /\ listener[n] = 0
                                               THEN p ELSE listener[n]]
    BY <1>1, <2>2 DEF Fewer, Bot!Robots
  <2> QED BY <1>2, <2>1, <2>2 DEF Bot!Bind, Bot!None
<1>3. ASSUME NEW p \in Pids, Bot!LogsIn(p) PROVE Fewer
  BY <1>3 DEF Bot!LogsIn, Fewer, Bot!Robots
<1>4. ASSUME NEW p \in Pids, Bot!Ends(p) PROVE Fewer
  BY <1>4, FewerIfGone DEF Bot!Ends
<1>5. CASE Bot!Comes
  <2>1. PICK p \in Bot!FreePids, what \in {"node", "other"}, n \in Bot!FreePorts(HttpPorts) \cup {0} :
          /\ process' = [process EXCEPT ![p] = what]
          /\ listener' = [k \in Bot!Ports |-> IF k = n THEN p ELSE listener[k]]
    BY <1>5 DEF Bot!Comes, Bot!None
  <2>2. /\ p \in Pids /\ process[p] = "none"
        /\ \A t \in Tools : script[t] \in {"record", "wait"} => pid[t] # p
    BY <2>1, FreePid
  <2>3. \A q \in Pids : q # p => process'[q] = process[q]
    BY <1>0, <2>1, <2>2 DEF WorldTypes
  <2>4. process'[p] # "bot"
    BY <1>0, <2>1, <2>2 DEF WorldTypes
  <2>5. Bot!Robots' \subseteq Bot!Robots
    BY <2>3, <2>4 DEF Bot!Robots
  <2>6. \A t \in Tools : script[t] \in {"record", "wait"} => process'[pid[t]] = process[pid[t]]
    BY <1>0, <2>2, <2>3 DEF Errand, Doing
  <2>7. ASSUME NEW q \in Bot!Robots, listener[place.http] = q PROVE listener'[place.http] = q
    BY <1>1, <2>1, <2>7 DEF Bot!FreePorts, Bot!None
  <2> QED BY <2>5, <2>6, <2>7 DEF Fewer
<1>6. ASSUME NEW t \in Tools, Bot!Kill(t) PROVE Fewer
  BY <1>0, <1>6, Killed, FewerIfGone
<1> QED BY <1>2, <1>3, <1>4, <1>5, <1>6

\* The console's robot is found, and every other, while the scripts and the record stay.
LEMMA UndisturbedOn ==
    ASSUME BotTypes, Undisturbed, Fewer, UNCHANGED <<script, op, pid, pidFile, place>>
    PROVE  Undisturbed'
<1>1. OneAtWork'
  BY DEF Undisturbed, OneAtWork, Idle
<1>2. ConsoleHolds'
  BY DEF Undisturbed, ConsoleHolds, Fewer
<1>3. Care'
  BY DEF Undisturbed, Care, Careful, Fewer
<1>4. AllFound'
  BY DEF Undisturbed, AllFound, Fewer, Bot!Found
<1> QED BY <1>1, <1>2, <1>3, <1>4 DEF Undisturbed

\* A step that disturbs nothing leaves no robot unfound, and one script at work.
LEMMA UndisturbedKept ==
    BotTypes /\ Housed /\ Undisturbed /\ Bot!LocalNext /\ ~disturbed' => Undisturbed'
<1> SUFFICES ASSUME BotTypes, Housed, Undisturbed, Bot!LocalNext, ~disturbed' PROVE Undisturbed'
  OBVIOUS
<1>0. /\ OneAtWork /\ ConsoleHolds /\ Care /\ AllFound /\ Errand /\ WorldTypes
      /\ script \in [Tools -> Labels] /\ pid \in [Tools -> Pids \cup {0}] /\ 0 \notin Pids
      /\ pidFile \in Pids \cup {0} /\ Bot!Robots \subseteq Pids
  BY BotAssumption DEF Undisturbed, BotTypes, ToolTypes, DiskTypes, Bot!Robots
<1>1. ASSUME \/ \E p \in Pids : Bot!Bind(p) \/ Bot!LogsIn(p) \/ Bot!Ends(p)
             \/ Bot!Comes
      PROVE  Undisturbed'
  <2>1. UNCHANGED <<script, op, pid, pidFile, place>>
    BY <1>1 DEF Bot!Bind, Bot!LogsIn, Bot!Ends, Bot!Comes, Bot!toolVars, Bot!diskVars
  <2> QED BY <1>1, <2>1, FewerElse, UndisturbedOn
<1>2. CASE Bot!Reboot
  <2>1. Bot!Robots' = {}
    BY <1>0, <1>2, GoneAreUsed DEF Bot!Reboot
  <2>2. \A t \in Tools : script'[t] = "idle"
    BY <1>2 DEF Bot!Reboot, Bot!Over
  <2> QED BY <2>1, <2>2 DEF Undisturbed, OneAtWork, Idle, ConsoleHolds, Care, Careful, AllFound
<1>3. ASSUME NEW t \in Tools, ScriptStep(t) PROVE Undisturbed'
  <2>0. /\ Careful(t) /\ Doing(t)
        /\ \A u \in Tools \ {t} :
              /\ Idle(u)
              /\ script'[u] = script[u] /\ op'[u] = op[u] /\ pid'[u] = pid[u]
    BY <1>0, <1>3, OneMoves, Alone DEF Care, Errand
  <2>1. OneAtWork'
    BY <2>0 DEF OneAtWork, Idle
  <2>2. ASSUME Careful(t)' PROVE Care'
    BY <2>0, <2>2 DEF Care, Careful, Idle
  <2>3. ~Bot!KillFails(t) /\ ~Bot!Closed(t)
    BY DEF Bot!KillFails, Bot!Closed
  \* Steps that leave the robots and the record as they are.
  <2>4. ASSUME UNCHANGED <<process, listener, pidFile>>, place' = place \/ Bot!Robots = {},
               script[t] # "record", script[t] = "wait" => process[pid[t]] = "none",
               script'[t] \notin {"record", "wait"}, Careful(t)'
        PROVE  Undisturbed'
    <3>1. Bot!Robots' = Bot!Robots
      BY <2>4 DEF Bot!Robots
    <3>2. ConsoleHolds'
      BY <1>0, <2>0, <2>4, <3>1 DEF ConsoleHolds
    <3>3. ASSUME NEW p \in Bot!Robots PROVE Bot!Found(p)'
      <4>1. CASE pidFile = p \/ listener[place.http] = p
        BY <2>4, <3>3, <4>1 DEF Bot!Found
      <4>2. CASE \E u \in Tools : pid[u] = p /\ script[u] \in {"record", "wait"}
        <5>1. PICK u \in Tools : pid[u] = p /\ script[u] \in {"record", "wait"}
          BY <4>2
        <5>2. u # t
          BY <2>4, <3>3, <5>1 DEF Bot!Robots
        <5> QED BY <2>0, <5>1, <5>2 DEF Bot!Found
      <4> QED BY <1>0, <3>3, <4>1, <4>2 DEF AllFound, Bot!Found
    <3> QED BY <2>1, <2>2, <2>4, <3>1, <3>2, <3>3 DEF Undisturbed, AllFound
  <2>5. CASE \/ Bot!Install(t) \/ Bot!Stage(t) \/ Bot!Publish(t) \/ Bot!Begin(t) \/ Bot!Login(t)
             \/ Bot!Poll(t) \/ Bot!Remember(t) \/ Bot!Write(t) \/ Bot!Recipients(t)
             \/ Bot!WriteNotify(t) \/ Bot!Deliver(t) \/ Bot!Ask(t) \/ Bot!NetstatFails(t)
    <3>1. UNCHANGED <<process, listener>>
      BY <1>3, <2>5, WorldStays
    <3>2. pidFile' = pidFile /\ (place' = place \/ ~Bot!Installed) /\ script[t] \notin {"record", "wait"}
      BY <2>5 DEF Bot!Install, Bot!Stage, Bot!Publish, Bot!Begin, Bot!Login, Bot!Poll, Bot!Remember, Bot!Write,
         Bot!Recipients, Bot!WriteNotify, Bot!Deliver, Bot!Ask, Bot!NetstatFails, Bot!Starts, Bot!diskVars
    <3>3. script'[t] \in {"idle", "stage", "publish", "login", "read"} \cup Setups
      BY <1>0, <2>5 DEF Bot!Install, Bot!Stage, Bot!Publish, Bot!Begin, Bot!Login, Bot!Poll, Bot!Remember, Bot!Write,
         Bot!Recipients, Bot!WriteNotify, Bot!Deliver, Bot!Ask, Bot!NetstatFails, Bot!Published,
         Bot!Go, Bot!Steps, Bot!StepsWith, Bot!Over, Setups
    <3>4. Careful(t)'
      BY <3>3 DEF Careful, Setups
    <3> QED BY <2>4, <3>1, <3>2, <3>3, <3>4 DEF Setups, Housed
  <2>6. CASE Bot!Console(t)
    <3>1. Bot!Robots = {} /\ UNCHANGED <<process, listener, pidFile, place>> /\ script[t] = "idle"
      BY <2>6 DEF Bot!Console, Bot!Starts, Bot!worldVars, Bot!diskVars
    <3>2. script'[t] = "spawn"
      BY <1>0, <2>6 DEF Bot!Console, Bot!Go
    <3>3. Careful(t)'
      BY <3>1, <3>2 DEF Careful, Bot!Robots
    <3> QED BY <2>4, <3>1, <3>2, <3>3
  <2>7. CASE Bot!Probe(t)
    <3>1. UNCHANGED <<process, listener, pidFile, place>> /\ script[t] = "probe" /\ pidFile = 0
      BY <2>0, <2>7 DEF Bot!Probe, Bot!worldVars, Bot!diskVars, Careful
    <3>2. \/ script'[t] = "spawn" /\ Bot!PortsAreFree
          \/ script'[t] = "idle"
      BY <1>0, <2>7 DEF Bot!Probe, Bot!Steps, Bot!StepsWith, Bot!Go
    <3>3. ASSUME Bot!PortsAreFree, NEW p \in Bot!Robots PROVE FALSE
      <4>1. p # 0 /\ listener[place.http] # p /\ pidFile # p
        BY <1>0, <3>1, <3>3 DEF Bot!PortsAreFree, Bot!None
      <4>2. PICK u \in Tools : pid[u] = p /\ script[u] \in {"record", "wait"}
        BY <1>0, <3>3, <4>1 DEF AllFound, Bot!Found
      <4>3. script[u] = "wait" /\ process[pid[u]] = "bot"
        BY <2>0, <3>1, <3>3, <4>2 DEF Idle, Bot!Robots
      <4> QED BY <1>0, <3>1, <4>1, <4>2, <4>3 DEF ConsoleHolds
    <3>4. Careful(t)'
      BY <3>1, <3>2, <3>3 DEF Careful, Bot!Robots
    <3> QED BY <2>4, <3>1, <3>2, <3>4
  <2>8. CASE Bot!ChildEnds(t)
    <3>1. /\ UNCHANGED <<process, listener, pidFile, place>>
          /\ script[t] = "wait" /\ process[pid[t]] = "none"
      BY <2>8 DEF Bot!ChildEnds, Bot!worldVars, Bot!diskVars
    <3>2. script'[t] = "forget"
      BY <1>0, <2>8 DEF Bot!ChildEnds, Bot!Steps, Bot!StepsWith, Bot!Go
    <3>3. ASSUME NEW p \in Bot!Robots PROVE FALSE
      <4>1. p # pid[t]
        BY <3>1, <3>3 DEF Bot!Robots
      <4>2. PICK u \in Tools : script[u] = "record"
        BY <1>0, <3>1, <3>3, <4>1 DEF ConsoleHolds
      <4> QED BY <2>0, <3>1, <4>2 DEF Idle
    <3>4. Careful(t)'
      BY <3>1, <3>2, <3>3 DEF Careful, Bot!Robots
    <3> QED BY <2>4, <3>1, <3>2, <3>4
  <2>9. CASE Bot!Read(t)
    <3>1. UNCHANGED <<process, listener, pidFile, place>> /\ script[t] = "read"
      BY <2>9 DEF Bot!Read, Bot!worldVars, Bot!diskVars
    <3>2. \/ script'[t] \in {"probe", "listener"} /\ pidFile = 0
          \/ script'[t] = "stale" /\ process[pidFile] = "none"
          \/ script'[t] = "kill" /\ pid'[t] = pidFile
          \/ script'[t] = "idle"
      BY <1>0, <2>9 DEF Bot!Read, Bot!Unrecorded, Bot!Steps, Bot!StepsWith, Bot!Go, Bot!None
    <3>3. Careful(t)'
      BY <3>1, <3>2 DEF Careful, Bot!Robots
    <3> QED BY <2>4, <3>1, <3>2, <3>3
  <2>10. CASE Bot!Listener(t) \/ Bot!Node(t)
    <3>1. UNCHANGED <<process, listener, pidFile, place>> /\ script[t] \in {"listener", "node"}
      BY <2>10 DEF Bot!Listener, Bot!Node, Bot!worldVars, Bot!diskVars
    <3>2. script'[t] \in {"node", "kill", "idle"}
      BY <1>0, <2>10 DEF Bot!Listener, Bot!Node, Bot!NotRunning, Bot!Steps, Bot!StepsWith, Bot!Go
    <3>3. Careful(t)'
      BY <1>0, <2>0, <3>1, <3>2 DEF Careful, Bot!Robots
    <3> QED BY <2>4, <3>1, <3>2, <3>3
  <2>11. CASE Bot!Spawn(t)
    <3>1. PICK p \in Bot!FreePids :
             process' = [process EXCEPT ![p] = "bot"] /\ Bot!StepsWith(t, "record", p)
      BY <2>11 DEF Bot!Spawn
    <3>2. /\ p \in Pids /\ Bot!Robots = {} /\ pidFile' = pidFile
          /\ \A u \in Tools : script[u] \in {"record", "wait"} => pid[u] # p
      BY <2>0, <2>11, <3>1, FreePid DEF Bot!Spawn, Bot!diskVars, Careful
    <3>3. script'[t] = "record" /\ pid'[t] = p
      BY <1>0, <3>1 DEF Bot!StepsWith, Bot!Go
    <3>4. process'[p] = "bot" /\ \A q \in Pids \ {p} : process'[q] = process[q]
      BY <1>0, <3>1, <3>2 DEF WorldTypes
    <3>5. Bot!Robots' = {p}
      BY <3>2, <3>4 DEF Bot!Robots
    <3>6. Careful(t)'
      BY <3>3, <3>4, <3>5 DEF Careful
    <3>7. ConsoleHolds'
      <4> SUFFICES ASSUME NEW u \in Tools, script'[u] = "wait"
                   PROVE  /\ process'[pid'[u]] \in {"bot", "none"}
                          /\ process'[pid'[u]] = "bot" => pidFile' = pid'[u]
                          /\ \A q \in Bot!Robots' :
                                q = pid'[u] \/ \E v \in Tools : script'[v] = "record" /\ pid'[v] = q
        BY DEF ConsoleHolds
      <4>1. u # t /\ script[u] = "wait" /\ pid'[u] = pid[u]
        BY <2>0, <3>3
      <4>2. pid[u] \in Pids \ {p}
        BY <1>0, <3>2, <4>1 DEF Errand, Doing
      <4> QED BY <1>0, <3>2, <3>3, <3>4, <3>5, <4>1, <4>2 DEF ConsoleHolds
    <3>8. AllFound'
      BY <3>3, <3>5 DEF AllFound, Bot!Found
    <3> QED BY <2>1, <2>2, <3>6, <3>7, <3>8 DEF Undisturbed
  <2>12. CASE Bot!Record(t)
    <3>1. UNCHANGED <<process, listener, place>> /\ script[t] = "record" /\ pidFile' = pid[t]
      BY <2>12 DEF Bot!Record, Bot!worldVars
    <3>2. script'[t] \in {"wait", "poll"} /\ pid'[t] = pid[t]
      BY <1>0, <2>12 DEF Bot!Record, Bot!Steps, Bot!StepsWith, Bot!Go
    <3>3. Bot!Robots' = Bot!Robots /\ Bot!Robots \subseteq {pid[t]} /\ process[pid[t]] \in {"bot", "none"}
      BY <2>0, <3>1 DEF Careful, Bot!Robots
    <3>4. Careful(t)'
      BY <3>2 DEF Careful
    <3>5. \A u \in Tools \ {t} : script[u] = "wait" => process[pid[u]] = "bot" /\ pid[u] \in Pids
      BY <1>0, <2>12 DEF Bot!Record, Bot!Overlaps, Bot!Working, Errand, Doing
    <3>6. \A u \in Tools : script'[u] = "wait" => pid'[u] = pid[u] /\ (process[pid[u]] = "bot" => pid[u] = pid[t])
      BY <2>0, <3>2, <3>3, <3>5 DEF Bot!Robots
    <3>7. ConsoleHolds'
      BY <1>0, <2>0, <3>1, <3>2, <3>3, <3>5, <3>6 DEF ConsoleHolds
    <3>8. AllFound'
      BY <3>1, <3>3 DEF AllFound, Bot!Found
    <3> QED BY <2>1, <2>2, <3>4, <3>7, <3>8 DEF Undisturbed
  <2>13. CASE Bot!Stale(t) \/ Bot!Forget(t)
    <3>1. /\ UNCHANGED <<process, listener, place>> /\ script[t] \in {"stale", "forget"}
          /\ pidFile' = 0
      BY <2>13 DEF Bot!Stale, Bot!Forget, Bot!worldVars, Bot!None
    <3>2. script'[t] \in {"probe", "listener", "idle"}
      BY <1>0, <2>13 DEF Bot!Stale, Bot!Forget, Bot!Unrecorded, Bot!Steps, Bot!StepsWith, Bot!Go
    <3>3. Bot!Robots' = Bot!Robots /\ pidFile \notin Bot!Robots
      BY <2>0, <3>1 DEF Careful, Bot!Robots
    <3>4. Careful(t)'
      BY <3>1, <3>2 DEF Careful
    <3>5. ConsoleHolds'
      <4> SUFFICES ASSUME NEW u \in Tools, script'[u] = "wait"
                   PROVE  /\ process'[pid'[u]] \in {"bot", "none"}
                          /\ process'[pid'[u]] = "bot" => pidFile' = pid'[u]
                          /\ \A q \in Bot!Robots' :
                                q = pid'[u] \/ \E v \in Tools : script'[v] = "record" /\ pid'[v] = q
        BY DEF ConsoleHolds
      <4>1. u # t /\ script[u] = "wait" /\ pid'[u] = pid[u] /\ pid[u] \in Pids
        BY <1>0, <2>0, <3>2 DEF Errand, Doing
      <4>2. process[pid[u]] # "bot"
        BY <1>0, <3>3, <4>1 DEF ConsoleHolds, Bot!Robots
      <4> QED BY <1>0, <2>0, <3>1, <3>3, <4>1, <4>2 DEF ConsoleHolds
    <3>6. AllFound'
      BY <1>0, <2>0, <3>1, <3>3 DEF AllFound, Bot!Found
    <3> QED BY <2>1, <2>2, <3>4, <3>5, <3>6 DEF Undisturbed
  <2>14. CASE Bot!Kill(t)
    <3>1. /\ Fewer /\ UNCHANGED <<pidFile, place, pid, op>>
          /\ Bot!Robots' = Bot!Robots \ {pid[t]} /\ script[t] = "kill"
      BY <1>0, <2>14, FewerElse, GoneAreUsed DEF Bot!Kill, Bot!diskVars
    <3>2. script'[t] = "forget"
      BY <1>0, <2>14 DEF Bot!Kill, Bot!Go
    <3>3. Careful(t)'
      BY <2>0, <3>1, <3>2 DEF Careful, Doing
    <3>4. ConsoleHolds'
      BY <1>0, <2>0, <3>1, <3>2 DEF ConsoleHolds, Fewer
    <3>5. AllFound'
      BY <1>0, <2>0, <3>1 DEF AllFound, Bot!Found, Fewer
    <3> QED BY <2>1, <2>2, <3>3, <3>4, <3>5 DEF Undisturbed
  <2> QED BY <1>3, <2>3, <2>5, <2>6, <2>7, <2>8, <2>9, <2>10, <2>11, <2>12, <2>13, <2>14 DEF ScriptStep
<1> QED BY <1>1, <1>2, <1>3 DEF Bot!LocalNext, ScriptStep

\* What is disturbed stays so.
LEMMA StaysDisturbed == disturbed /\ Bot!LocalNext => disturbed'
<1> SUFFICES ASSUME disturbed, Bot!LocalNext PROVE disturbed'
  OBVIOUS
<1>1. ASSUME NEW t \in Tools, ScriptStep(t) PROVE disturbed'
  <2>1. CASE \/ Bot!Install(t) \/ Bot!Begin(t) \/ Bot!Record(t) \/ Bot!ChildEnds(t) \/ Bot!Ask(t)
    <3>1. Bot!Overlaps(t)
      BY <2>1 DEF Bot!Install, Bot!Begin, Bot!Record, Bot!ChildEnds, Bot!Ask
    <3> QED BY <3>1 DEF Bot!Overlaps
  <2>2. CASE Bot!Console(t) \/ Bot!KillFails(t) \/ Bot!Closed(t)
    BY <2>2 DEF Bot!Console, Bot!KillFails, Bot!Closed
  <2>3. CASE \/ Bot!Stage(t) \/ Bot!Publish(t) \/ Bot!Login(t) \/ Bot!Probe(t) \/ Bot!Spawn(t)
             \/ Bot!Poll(t) \/ Bot!Remember(t) \/ Bot!Write(t) \/ Bot!Recipients(t)
             \/ Bot!WriteNotify(t) \/ Bot!Deliver(t) \/ Bot!Read(t) \/ Bot!Stale(t)
             \/ Bot!Listener(t) \/ Bot!NetstatFails(t) \/ Bot!Node(t) \/ Bot!Kill(t) \/ Bot!Forget(t)
    <3>1. UNCHANGED disturbed
      BY <2>3 DEF Bot!Stage, Bot!Publish, Bot!Login, Bot!Probe, Bot!Spawn, Bot!Poll, Bot!Remember, Bot!Write,
         Bot!Recipients, Bot!WriteNotify, Bot!Deliver, Bot!Read, Bot!Stale, Bot!Listener,
         Bot!NetstatFails, Bot!Node, Bot!Kill, Bot!Forget
    <3> QED BY <3>1, Zenon
  <2> QED BY <1>1, <2>1, <2>2, <2>3 DEF ScriptStep
<1>2. ASSUME \/ \E p \in Pids : Bot!Bind(p) \/ Bot!LogsIn(p) \/ Bot!Ends(p)
             \/ Bot!Comes \/ Bot!Reboot
      PROVE  disturbed'
  <2>1. UNCHANGED disturbed
    BY <1>2 DEF Bot!Bind, Bot!LogsIn, Bot!Ends, Bot!Comes, Bot!Reboot
  <2> QED BY <2>1, Zenon
<1> QED BY <1>1, <1>2 DEF Bot!LocalNext, ScriptStep

\* The robot on a computer of its own: its scripts go one at a time, and a start has checked
\* the rule and the ports.
Hand(h) ==
    /\ hand[h] # "idle" => lock = h
    /\ hand[h] = "start" => rule = runtime /\ robots = 0
    /\ hand[h] = "window" => robots = 1

Fenced ==
    /\ ~unfenced /\ robots \in {0, 1}
    /\ hand \in [Hands -> {"idle", "stage", "move", "unrule", "rule", "check", "start", "window"}]
    /\ runtime \in Addresses \cup {Bot!NoAddress} /\ staged \subseteq Hands
    /\ \A h \in Hands : Hand(h)

\* No hand leaves the robot without its rule.
LEMMA FencedKept == Fenced /\ Bot!RobotNext => Fenced'
<1> SUFFICES ASSUME Fenced, Bot!RobotNext PROVE Fenced'
  OBVIOUS
<1> USE BotAssumption DEF Fenced, Hand, Bot!Onward, Bot!Finishes, Bot!Begins
<1>1. ASSUME NEW h \in Hands, NEW a \in Addresses, Bot!InstallRobot(h, a) PROVE Fenced'
  BY <1>1 DEF Bot!InstallRobot
<1>2. ASSUME NEW h \in Hands, Bot!StageRobot(h) PROVE Fenced'
  BY <1>2 DEF Bot!StageRobot
<1>3. ASSUME NEW h \in Hands, NEW a \in Addresses, Bot!Move(h, a) PROVE Fenced'
  BY <1>3 DEF Bot!Move
<1>4. ASSUME NEW h \in Hands, Bot!Unrule(h) \/ Bot!Rule(h) \/ Bot!Check(h) PROVE Fenced'
  BY <1>4 DEF Bot!Unrule, Bot!Rule, Bot!Check
<1>5. ASSUME NEW h \in Hands, Bot!StartRobot(h) PROVE Fenced'
  BY <1>5 DEF Bot!StartRobot, Bot!RuleAdmits, Bot!AddressesAreFree
<1>6. ASSUME NEW h \in Hands, Bot!RobotRuns(h) PROVE Fenced'
  <2>1. /\ hand[h] = "start" /\ lock = h /\ rule = runtime /\ robots = 0
        /\ unfenced' = (unfenced \/ ~Bot!RuleAdmits)
        /\ robots' = robots + 1 /\ hand' = [hand EXCEPT ![h] = "window"]
        /\ UNCHANGED <<lock, runtime, rule, staged>>
    BY <1>6 DEF Bot!RobotRuns
  <2>2. ~unfenced'
    BY <2>1 DEF Bot!RuleAdmits
  <2>3. robots' = 1
    BY <2>1
  <2>4. \A g \in Hands : Hand(g)'
    BY <2>1, <2>3
  <2> QED BY <2>1, <2>2, <2>3, <2>4
<1>7. ASSUME NEW h \in Hands, Bot!RobotEnds(h) PROVE Fenced'
  BY <1>7 DEF Bot!RobotEnds
<1>8. ASSUME NEW h \in Hands, Bot!Cut(h) PROVE Fenced'
  BY <1>8 DEF Bot!Cut
<1>9. CASE Bot!RuleIsLost
  BY <1>9 DEF Bot!RuleIsLost
<1> QED BY <1>1, <1>2, <1>3, <1>4, <1>5, <1>6, <1>7, <1>8, <1>9 DEF Bot!RobotNext

\* At first nothing runs, and the invariants hold.
LEMMA BotInit == Bot!Init => BotIInv /\ Fenced
<1> SUFFICES ASSUME Bot!Init PROVE BotIInv /\ Fenced
  OBVIOUS
<1>1. [http |-> Bot!Lowest(HttpPorts), web |-> Bot!Lowest(WebPorts), by |-> Bot!Nobody] \in Homes
  <2>1. Bot!Lowest(HttpPorts) \in HttpPorts /\ Bot!Lowest(WebPorts) \in WebPorts
    BY LowestPort, BotAssumption
  <2> QED BY <2>1 DEF Homes
<1>2. place \in Homes \cup {Bot!Missing} /\ place = first /\ settings = "new" /\ pidFile = 0 /\ ~noted
  BY <1>1 DEF Bot!Init, Bot!None
<1>3. /\ script = [t \in Tools |-> "idle"] /\ op = [t \in Tools |-> "none"] /\ pid = [t \in Tools |-> 0]
      /\ served = [t \in Tools |-> {}] /\ chosen = [t \in Tools |-> Bot!Missing]
      /\ process = [p \in Pids |-> "none"] /\ listener = [n \in Bot!Ports |-> 0]
      /\ starting = {} /\ logged = {} /\ used = {}
      /\ ~wronged /\ ~missed
  BY DEF Bot!Init, Bot!None
<1>4. Bot!Robots = {}
  BY <1>3 DEF Bot!Robots
<1>5. ToolTypes
  BY <1>3 DEF ToolTypes, Labels, Errands
<1>6. WorldTypes
  BY <1>3, <1>4 DEF WorldTypes
<1>7. DiskTypes /\ ConsoleLocks /\ Errand
  BY <1>2, <1>3 DEF DiskTypes, ConsoleLocks, Errand, Doing, Setups, Launches
<1>8. Housed /\ Furnished /\ Bot!SettingsAreWhole
  BY <1>2, <1>3, <1>4 DEF Housed, Furnished, Bot!SettingsAreWhole, Setups
<1>9. /\ Acquainted /\ Bot!StrangersLive /\ Attended /\ Noticed /\ Bot!StopFindsTheRobot
  BY <1>2, <1>3 DEF Acquainted, Bot!StrangersLive, Attended, Noticed, Bot!StopFindsTheRobot
<1>10. Undisturbed
  BY <1>3, <1>4 DEF Undisturbed, OneAtWork, Idle, ConsoleHolds, Care, Careful, AllFound
<1>11. Fenced
  BY DEF Bot!Init, Fenced, Hand
<1> QED BY <1>5, <1>6, <1>7, <1>8, <1>9, <1>10, <1>11 DEF BotIInv, BotTypes

\* Every step of the scripts keeps their invariant, ...
LEMMA BotKept == BotIInv /\ Bot!LocalNext => BotIInv'
<1> SUFFICES ASSUME BotIInv, Bot!LocalNext PROVE BotIInv'
  OBVIOUS
<1>1. BotTypes'
  BY ToolTypesKept, WorldTypesKept, DiskTypesKept, ConsoleLocksKept, ErrandKept DEF BotIInv, BotTypes
<1>2. Housed' /\ Furnished' /\ Bot!SettingsAreWhole'
  BY HousedKept, FurnishedKept, WholeKept DEF BotIInv
<1>3. Acquainted' /\ Bot!StrangersLive'
  BY AcquaintedKept, StrangersKept DEF BotIInv
<1>4. Attended' /\ Noticed' /\ Bot!StopFindsTheRobot'
  BY AttendedKept, NoticedKept, MissedKept DEF BotIInv
<1>5. disturbed => disturbed'
  BY Zenon, StaysDisturbed
<1>6. disturbed' \/ Undisturbed'
  BY <1>5, UndisturbedKept DEF BotIInv
<1> QED BY <1>1, <1>2, <1>3, <1>4, <1>6 DEF BotIInv

\* ... and so does one that leaves them alone.
LEMMA BotStays == BotIInv /\ UNCHANGED localVars => BotIInv'
<1> SUFFICES ASSUME BotIInv, UNCHANGED localVars PROVE BotIInv'
  OBVIOUS
<1> USE DEF localVars
<1>1. BotTypes'
  BY DEF BotIInv, BotTypes, ToolTypes, WorldTypes, DiskTypes, ConsoleLocks, Errand, Doing, Bot!Robots
<1>2. Housed' /\ Furnished' /\ Bot!SettingsAreWhole'
  BY DEF BotIInv, Housed, Furnished, Bot!SettingsAreWhole, Bot!Robots, Bot!Installed, Bot!Missing, Bot!None
<1>3. Acquainted' /\ Bot!StrangersLive' /\ Attended' /\ Noticed' /\ Bot!StopFindsTheRobot'
  BY DEF BotIInv, Acquainted, Familiar, Bot!StrangersLive, Attended, Noticed, Bot!StopFindsTheRobot,
     Bot!Installed, Bot!Missing, Bot!None
<1>4. Undisturbed => Undisturbed'
  BY DEF Undisturbed, OneAtWork, Idle, ConsoleHolds, Care, Careful, AllFound, Bot!Robots, Bot!Found
<1> QED BY <1>1, <1>2, <1>3, <1>4 DEF BotIInv

\* The invariants promise what the robot's scripts do.
LEMMA BotIInvIsSound == BotIInv /\ Fenced => Bot!BotIsSound
<1> SUFFICES ASSUME BotIInv, Fenced PROVE Bot!BotIsSound
  OBVIOUS
<1>1. Bot!TypeOK
  <2>1. settings \in {"new", "account", "torn"} /\ pidFile \in Pids \cup {Bot!None}
    BY DEF BotIInv, BotTypes, DiskTypes, Bot!None
  <2>2. place = Bot!Missing \/ (place.http \in HttpPorts /\ place.web \in WebPorts)
    BY DEF BotIInv, BotTypes, DiskTypes, Homes
  <2>3. /\ process \in [Pids -> {"none", "bot", "node", "other"}]
        /\ starting \subseteq Bot!Robots /\ logged \subseteq Bot!Robots
        /\ \A n \in Bot!Ports : listener[n] \in {Bot!None} \cup {p \in Pids : process[p] # "none"}
    BY DEF BotIInv, BotTypes, WorldTypes, Bot!None
  <2>4. /\ \A t \in Tools : op[t] = "console" /\ script[t] \notin {"idle"} => runLock = t
        /\ runtime \in Addresses \cup {Bot!NoAddress} /\ staged \subseteq Hands
    BY DEF BotIInv, BotTypes, ConsoleLocks, Fenced
  <2> QED BY <2>1, <2>2, <2>3, <2>4 DEF Bot!TypeOK
<1>2. Bot!InstalledOnce
  BY DEF BotIInv, Furnished, Bot!InstalledOnce
<1>3. Bot!NoRobotIsLost
  BY DEF BotIInv, Undisturbed, AllFound, Bot!NoRobotIsLost
<1>4. Bot!RobotIsFenced
  BY DEF Fenced, Bot!RobotIsFenced
<1> QED BY <1>1, <1>2, <1>3, <1>4 DEF BotIInv, Bot!BotIsSound

\* The robot's scripts, and those of the one on a computer of its own, keep their promises: no
\* installation is replaced, no stranger's program ended, no robot missed or lost sight of, and
\* none runs without its rule.
THEOREM BotSound == MCSpec => []Bot!BotIsSound
<1>1. BotIInv /\ Fenced /\ [Bot!Next]_(Bot!vars) => (BotIInv /\ Fenced)'
  <2> SUFFICES ASSUME BotIInv, Fenced, [Bot!Next]_(Bot!vars) PROVE (BotIInv /\ Fenced)'
    OBVIOUS
  <2>1. UNCHANGED robotVars => Fenced'
    BY DEF robotVars, Fenced, Hand
  <2>2. CASE Bot!LocalNext /\ UNCHANGED robotVars
    BY <2>1, <2>2, BotKept
  <2>3. CASE Bot!RobotNext /\ UNCHANGED localVars
    BY <2>3, FencedKept, BotStays
  <2>4. CASE UNCHANGED <<localVars, robotVars>>
    BY <2>1, <2>4, BotStays
  <2> QED BY <2>2, <2>3, <2>4 DEF Bot!Next, Bot!vars, Bot!localVars, Bot!robotVars, Bot!diskVars, Bot!worldVars, Bot!toolVars, localVars, robotVars
<1>2. MCSpec => Bot!Spec
  <2>1. MCInit => Bot!Init
    BY DEF MCInit
  <2>2. [ /\ moves' = moves
          /\ \/ moves = "store" /\ Next /\ UNCHANGED <<attemptVars, catalogVars, botVars>>
             \/ moves = "attempt" /\ Attempt!Next /\ UNCHANGED <<vars, catalogVars, botVars>>
             \/ moves = "catalog" /\ Catalog!Next /\ UNCHANGED <<vars, attemptVars, botVars>>
             \/ /\ moves = "bot" /\ (Bot!LocalNext \/ BotIsDone)
                /\ UNCHANGED <<vars, attemptVars, catalogVars, robotVars>>
             \/ /\ moves = "robot" /\ Bot!RobotNext
                /\ UNCHANGED <<vars, attemptVars, catalogVars, localVars>>
        ]_<<vars, moves, attemptVars, catalogVars, botVars>>
        => [Bot!Next]_(Bot!vars)
    BY DEF botVars, BotIsDone, Bot!Next, Bot!vars, Bot!localVars, Bot!robotVars, Bot!diskVars, Bot!worldVars, Bot!toolVars, localVars, robotVars
  <2> QED BY <2>1, <2>2, PTL DEF MCSpec, Bot!Spec
<1> QED BY <1>1, <1>2, BotInit, BotIInvIsSound, PTL DEF Bot!Spec

-----------------------------------------------------------------------------
(* What a user has set for his tasks (TaskCatalog), for any tasks and      *)
(* directories: the settings and the order are his while the files come,   *)
(* go, move and break.                                                     *)

\* A table of settings, and an order that names each task once.
Tables == UNION {[K -> 0 .. Writes] : K \in SUBSET Catalog!Keys}
TaskOf(k) == k[2]
Named(ord) == [i \in DOMAIN ord |-> TaskOf(ord[i])]
OrderFits(ord) == ord \in Seq(Catalog!Keys) /\ Catalog!IsInjective(Named(ord))

CatalogTypes ==
    /\ files \subseteq Catalog!Paths /\ broken \subseteq files
    /\ registry \in [Tasks -> {0} \cup Dirs]
    /\ loaded \in {"never", "aborted", "guarded", "clean"}
    /\ table \in Tables /\ diskTable \in Tables
    /\ OrderFits(order) /\ OrderFits(diskOrder)
    /\ DOMAIN tab \subseteq Tasks /\ (\A t \in DOMAIN tab : tab[t] \in Dirs)
    /\ written \in 1 .. Writes /\ mine \in [Tasks -> 0 .. Writes]
    /\ wish \in Seq(Tasks) /\ dropped \subseteq Tasks /\ unplaced \subseteq Tasks

\* A setting of a task's own is not beside one under a former path.
OwnIsAlone(stored) ==
    \A t \in Tasks :
        Catalog!Id(t) \in DOMAIN stored /\ stored[Catalog!Id(t)] # 0 => Catalog!Candidates(stored, t) = {}

\* A place kept under a path is that of the task's one entry.
PlaceIsHeld(ord, stored) ==
    \A k \in Catalog!Range(ord) \cap Catalog!Paths :
        k[2] \in unplaced \/ Catalog!Candidates(stored, k[2]) = {k}

\* What is set is there, and where it was placed.
Kept(stored) == \A t \in Tasks \ dropped : Catalog!Stored(stored, t) = mine[t]
Placed(ord) == Catalog!Places(ord) = Catalog!Within(wish, Tasks \ unplaced)

\* After a load the places are under the names.
Renamed ==
    loaded \in {"guarded", "clean"} =>
        \A k \in Catalog!Range(order) :
            k[2] \in Catalog!Registered(registry) \ unplaced => k[1] = 0

\* The inductive invariant of the catalog.
CatalogIInv ==
    /\ CatalogTypes
    /\ OwnIsAlone(table) /\ OwnIsAlone(diskTable)
    /\ PlaceIsHeld(order, table) /\ PlaceIsHeld(diskOrder, diskTable)
    /\ Kept(table) /\ Kept(diskTable)
    /\ Placed(order) /\ Placed(diskOrder) /\ Renamed

\* What holds at first and goes on to hold, always holds.
LEMMA AlwaysHolds ==
    ASSUME NEW N \in Nat, NEW P, 0 \in P, \A n \in 1 .. N : n - 1 \in P => n \in P
    PROVE  0 .. N \subseteq P
<1> SUFFICES ASSUME NEW k \in 0 .. N, k \notin P PROVE FALSE
  OBVIOUS
<1> DEFINE Bad == {n \in 0 .. N : n \notin P}
<1>1. PICK m \in Bad : \A n \in Bad : ~(<<n, m>> \in OpToRel(<, Nat))
  <2>1. Bad \subseteq Nat /\ Bad # {}
    OBVIOUS
  <2> QED BY <2>1, NatLessThanWellFounded, WFMin
<1>2. m \in 1 .. N /\ m - 1 \in 0 .. N
  <2>1. m \in 0 .. N /\ m \notin P
    OBVIOUS
  <2> HIDE DEF Bad
  <2> QED BY <2>1
<1>3. m - 1 \in P
  <2>1. <<m - 1, m>> \in OpToRel(<, Nat)
    BY <1>2 DEF OpToRel
  <2> QED BY <1>1, <1>2, <2>1
<1> QED BY <1>1, <1>2, <1>3

\* What holds of the empty sequence, and of each that is one element longer than one of which
\* it holds, holds of all.
LEMMA AllSequences ==
    ASSUME NEW S, NEW P, <<>> \in P, \A s \in Seq(S), e \in S : s \in P => Append(s, e) \in P
    PROVE  Seq(S) \subseteq P
<1> SUFFICES ASSUME NEW bad \in Seq(S), bad \notin P PROVE FALSE
  OBVIOUS
<1> DEFINE Q == {n \in Nat : \A s \in Seq(S) : Len(s) = n => s \in P}
<1>1. Len(bad) \in Nat
  BY LenProperties
<1>2. 0 \in Q
  BY EmptySeq
<1>3. ASSUME NEW n \in 1 .. Len(bad), n - 1 \in Q PROVE n \in Q
  <2> SUFFICES ASSUME NEW s \in Seq(S), Len(s) = n PROVE s \in P
    OBVIOUS
  <2>1. PICK r \in Seq(S), e \in S : s = Append(r, e)
    <3>1. s # <<>>
      BY EmptySeq
    <3> QED BY <3>1, SequenceEmptyOrAppend
  <2>2. Len(r) = n - 1
    BY <2>1, AppendProperties, LenProperties
  <2> QED BY <1>3, <2>1, <2>2
<1>4. Len(bad) \in Q
  <2> HIDE DEF Q
  <2>1. 0 .. Len(bad) \subseteq Q
    BY <1>1, <1>2, <1>3, AlwaysHolds
  <2> QED BY <1>1, <2>1
<1> QED BY <1>4

\* The recursion of Within: those kept of the first n.
Keeps(kept, seq, set) ==
    kept = [n \in 0 .. Len(seq) |->
               IF n = 0 THEN <<>>
               ELSE IF seq[n] \in set THEN Append(kept[n - 1], seq[n]) ELSE kept[n - 1]]

\* There are such functions, of sequences.
LEMMA KeepsIs ==
    ASSUME NEW S, NEW seq \in Seq(S), NEW set
    PROVE  \E kept \in [0 .. Len(seq) -> Seq(S)] : Keeps(kept, seq, set)
<1> DEFINE N == Len(seq)
           SoFar(kept, m) ==
               /\ kept[0] = <<>>
               /\ \A n \in 1 .. m : kept[n] = IF seq[n] \in set THEN Append(kept[n - 1], seq[n])
                                              ELSE kept[n - 1]
           P == {m \in 0 .. N : \E kept \in [0 .. N -> Seq(S)] : SoFar(kept, m)}
<1>1. N \in Nat /\ \A n \in 1 .. N : seq[n] \in S
  BY LenProperties
<1>2. 0 \in P
  <2> DEFINE kept == [n \in 0 .. N |-> <<>>]
  <2>1. kept \in [0 .. N -> Seq(S)] /\ kept[0] = <<>>
    BY <1>1, EmptySeq
  <2>2. SoFar(kept, 0)
    BY <2>1
  <2> HIDE DEF kept, SoFar
  <2> QED BY <1>1, <2>1, <2>2
<1>3. ASSUME NEW m \in 1 .. N, m - 1 \in P PROVE m \in P
  <2>1. PICK kept \in [0 .. N -> Seq(S)] : SoFar(kept, m - 1)
    BY <1>3
  <2> DEFINE next == IF seq[m] \in set THEN Append(kept[m - 1], seq[m]) ELSE kept[m - 1]
             more == [kept EXCEPT ![m] = next]
  <2>2. m \in 0 .. N /\ m - 1 \in 0 .. N /\ kept[m - 1] \in Seq(S)
    BY <1>1
  <2>3. next \in Seq(S)
    BY <1>1, <2>2, AppendProperties
  <2>4. more \in [0 .. N -> Seq(S)] /\ more[m] = next /\ \A i \in 0 .. m - 1 : more[i] = kept[i]
    <3> HIDE DEF next
    <3> QED BY <1>1, <2>2, <2>3
  <2> HIDE DEF more
  <2>5. more[0] = <<>> /\ more[m - 1] = kept[m - 1]
    BY <1>1, <2>1, <2>4
  <2>6. ASSUME NEW n \in 1 .. m
        PROVE  more[n] = IF seq[n] \in set THEN Append(more[n - 1], seq[n]) ELSE more[n - 1]
    <3>1. CASE n = m
      BY <3>1, <2>4, <2>5
    <3>2. CASE n # m
      <4>1. n \in 1 .. m - 1 /\ more[n] = kept[n] /\ more[n - 1] = kept[n - 1]
        BY <1>1, <3>2, <2>4
      <4> QED BY <4>1, <2>1
    <3> QED BY <3>1, <3>2
  <2>7. SoFar(more, m)
    BY <2>5, <2>6
  <2> HIDE DEF SoFar
  <2> QED BY <2>2, <2>4, <2>7
<1>4. N \in P
  <2> HIDE DEF P, N
  <2>1. 0 .. N \subseteq P
    BY <1>1, <1>2, <1>3, AlwaysHolds
  <2> QED BY <1>1, <2>1
<1>5. PICK kept \in [0 .. N -> Seq(S)] : SoFar(kept, N)
  BY <1>4
<1>6. Keeps(kept, seq, set)
  <2>1. DOMAIN kept = 0 .. N
    OBVIOUS
  <2>2. \A n \in 0 .. N : n # 0 => n \in 1 .. N
    BY <1>1
  <2>3. \A n \in 0 .. N : kept[n] = IF n = 0 THEN <<>>
            ELSE IF seq[n] \in set THEN Append(kept[n - 1], seq[n]) ELSE kept[n - 1]
    BY <1>5, <2>2
  <2> QED BY <2>1, <2>3 DEF Keeps
<1> QED BY <1>6

\* The first n of two sequences that begin in the same way are kept in the same way.
Begins(s, u) ==
    /\ Len(s) \in Nat /\ Len(u) \in Nat /\ Len(s) <= Len(u)
    /\ \A i \in 1 .. Len(s) : s[i] = u[i]

LEMMA KeepsSame ==
    ASSUME NEW s, NEW u, NEW set, NEW kept, NEW more,
           Begins(s, u), Keeps(kept, s, set), Keeps(more, u, set)
    PROVE  \A n \in 0 .. Len(s) : kept[n] = more[n]
<1> DEFINE P == {n \in 0 .. Len(s) : kept[n] = more[n]}
<1>1. /\ Len(s) \in Nat /\ Len(u) \in Nat /\ Len(s) <= Len(u)
      /\ \A i \in 1 .. Len(s) : s[i] = u[i]
  BY DEF Begins
<1>2. \A n \in 0 .. Len(s) :
          kept[n] = IF n = 0 THEN <<>>
                    ELSE IF s[n] \in set THEN Append(kept[n - 1], s[n]) ELSE kept[n - 1]
  BY DEF Keeps
<1>3. \A n \in 0 .. Len(u) :
          more[n] = IF n = 0 THEN <<>>
                    ELSE IF u[n] \in set THEN Append(more[n - 1], u[n]) ELSE more[n - 1]
  BY DEF Keeps
<1>4. 0 \in P
  BY <1>1, <1>2, <1>3
<1>5. ASSUME NEW n \in 1 .. Len(s), n - 1 \in P PROVE n \in P
  <2>1. n \in 0 .. Len(s) /\ n \in 0 .. Len(u) /\ n # 0 /\ s[n] = u[n] /\ kept[n - 1] = more[n - 1]
    BY <1>1, <1>5
  <2>2. kept[n] = IF s[n] \in set THEN Append(kept[n - 1], s[n]) ELSE kept[n - 1]
    BY <1>2, <2>1
  <2>3. more[n] = IF u[n] \in set THEN Append(more[n - 1], u[n]) ELSE more[n - 1]
    BY <1>3, <2>1
  <2> QED BY <2>1, <2>2, <2>3
<1>6. 0 .. Len(s) \subseteq P
  <2> HIDE DEF P
  <2> QED BY <1>1, <1>4, <1>5, AlwaysHolds
<1> QED BY <1>6

\* Within takes the last of what is kept.
LEMMA WithinKeeps ==
    ASSUME NEW S, NEW seq \in Seq(S), NEW set
    PROVE  \E kept \in [0 .. Len(seq) -> Seq(S)] :
               Keeps(kept, seq, set) /\ Catalog!Within(seq, set) = kept[Len(seq)]
<1>1. PICK kept \in [0 .. Len(seq) -> Seq(S)] : Keeps(kept, seq, set)
  BY KeepsIs, ZenonT(120)
<1> DEFINE taken == CHOOSE k : k =
               [n \in 0 .. Len(seq) |->
                   IF n = 0 THEN <<>>
                   ELSE IF seq[n] \in set THEN Append(k[n - 1], seq[n]) ELSE k[n - 1]]
<1>2. Keeps(taken, seq, set)
  BY <1>1 DEF Keeps
<1>3. Catalog!Within(seq, set) = taken[Len(seq)]
  BY DEF Catalog!Within
<1> HIDE DEF taken
<1>4. Len(seq) \in Nat /\ \A n \in 0 .. Len(seq) : taken[n] = kept[n]
  <2>1. Begins(seq, seq)
    BY LenProperties DEF Begins
  <2> QED BY <1>1, <1>2, <2>1, KeepsSame DEF Begins
<1>5. Len(seq) \in 0 .. Len(seq)
  BY <1>4
<1> QED BY <1>1, <1>3, <1>4, <1>5

\* Nothing is kept of nothing.
LEMMA WithinEmpty ==
    ASSUME NEW set
    PROVE  Catalog!Within(<<>>, set) = <<>>
<1> DEFINE S == {}
<1>1. <<>> \in Seq(S) /\ Len(<<>>) = 0
  BY EmptySeq
<1>2. PICK kept \in [0 .. Len(<<>>) -> Seq(S)] :
          Keeps(kept, <<>>, set) /\ Catalog!Within(<<>>, set) = kept[Len(<<>>)]
  BY <1>1, WithinKeeps, ZenonT(60)
<1>3. kept[0] = <<>>
  BY <1>1, <1>2 DEF Keeps
<1> QED BY <1>1, <1>2, <1>3

\* What is kept of a sequence is one of the same elements.
LEMMA WithinType ==
    ASSUME NEW S, NEW set, NEW s \in Seq(S)
    PROVE  Catalog!Within(s, set) \in Seq(S)
<1>1. PICK kept \in [0 .. Len(s) -> Seq(S)] :
          Keeps(kept, s, set) /\ Catalog!Within(s, set) = kept[Len(s)]
  BY WithinKeeps
<1>2. Len(s) \in 0 .. Len(s)
  BY LenProperties
<1> QED BY <1>1, <1>2

\* One more element is kept if it is in the set.
LEMMA WithinAppend ==
    ASSUME NEW S, NEW set, NEW s \in Seq(S), NEW e \in S
    PROVE  Catalog!Within(Append(s, e), set) =
               IF e \in set THEN Append(Catalog!Within(s, set), e) ELSE Catalog!Within(s, set)
<1> DEFINE u == Append(s, e)
<1>1. /\ u \in Seq(S) /\ Len(u) = Len(s) + 1 /\ u[Len(s) + 1] = e
      /\ \A i \in 1 .. Len(s) : s[i] = u[i]
  BY AppendProperties
<1>2. Len(s) \in Nat
  BY LenProperties
<1> HIDE DEF u
<1>3. PICK kept \in [0 .. Len(s) -> Seq(S)] :
          Keeps(kept, s, set) /\ Catalog!Within(s, set) = kept[Len(s)]
  BY WithinKeeps
<1>4. PICK more \in [0 .. Len(u) -> Seq(S)] :
          Keeps(more, u, set) /\ Catalog!Within(u, set) = more[Len(u)]
  BY <1>1, WithinKeeps
<1>5. kept[Len(s)] = more[Len(s)]
  <2>1. Begins(s, u)
    BY <1>1, <1>2 DEF Begins
  <2>2. \A n \in 0 .. Len(s) : kept[n] = more[n]
    BY <1>3, <1>4, <2>1, KeepsSame
  <2> QED BY <1>2, <2>2
<1>6. Len(u) \in 0 .. Len(u) /\ Len(u) # 0 /\ Len(u) - 1 = Len(s) /\ u[Len(u)] = e
  BY <1>1, <1>2
<1>7. more[Len(u)] = IF e \in set THEN Append(more[Len(s)], e) ELSE more[Len(s)]
  BY <1>4, <1>6 DEF Keeps
<1> QED BY <1>3, <1>4, <1>5, <1>7 DEF u

\* What a sequence that is one element longer has.
LEMMA RangeOfAppend ==
    ASSUME NEW S, NEW s \in Seq(S), NEW e \in S
    PROVE  Catalog!Range(Append(s, e)) = Catalog!Range(s) \cup {e}
<1> DEFINE u == Append(s, e)
<1>1. /\ u \in Seq(S) /\ Len(u) = Len(s) + 1 /\ u[Len(s) + 1] = e
      /\ \A i \in 1 .. Len(s) : u[i] = s[i]
  BY AppendProperties
<1>2. Len(s) \in Nat /\ DOMAIN u = 1 .. Len(s) + 1 /\ DOMAIN s = 1 .. Len(s)
  BY <1>1, LenProperties
<1> HIDE DEF u
<1>3. Catalog!Range(u) = {u[i] : i \in 1 .. Len(s) + 1} /\ Catalog!Range(s) = {s[i] : i \in 1 .. Len(s)}
  BY <1>2 DEF Catalog!Range
<1>4. \A i \in 1 .. Len(s) + 1 : i \in 1 .. Len(s) \/ i = Len(s) + 1
  BY <1>2
<1>5. Len(s) + 1 \in 1 .. Len(s) + 1 /\ \A i \in 1 .. Len(s) : i \in 1 .. Len(s) + 1
  BY <1>2
<1> QED BY <1>1, <1>3, <1>4, <1>5 DEF u

\* It has each of them once if the shorter one had, and not the new one.
LEMMA InjectiveAppend ==
    ASSUME NEW S, NEW s \in Seq(S), NEW e \in S
    PROVE  Catalog!IsInjective(Append(s, e))
               <=> Catalog!IsInjective(s) /\ e \notin Catalog!Range(s)
<1> DEFINE u == Append(s, e)
<1>1. /\ u \in Seq(S) /\ Len(u) = Len(s) + 1 /\ u[Len(s) + 1] = e
      /\ \A i \in 1 .. Len(s) : u[i] = s[i]
  BY AppendProperties
<1>2. Len(s) \in Nat /\ DOMAIN u = 1 .. Len(s) + 1 /\ DOMAIN s = 1 .. Len(s)
  BY <1>1, LenProperties
<1> HIDE DEF u
<1>3. \A i \in DOMAIN u : i \in DOMAIN s \/ i = Len(s) + 1
  BY <1>2
<1>4. Len(s) + 1 \in DOMAIN u /\ Len(s) + 1 \notin DOMAIN s /\ DOMAIN s \subseteq DOMAIN u
  BY <1>2
<1>5. \A i \in DOMAIN s : u[i] = s[i]
  BY <1>1, <1>2
<1>6. Catalog!IsInjective(u) <=> Catalog!IsInjective(s) /\ \A i \in DOMAIN s : s[i] # e
  BY <1>1, <1>3, <1>4, <1>5 DEF Catalog!IsInjective
<1> QED BY <1>6 DEF Catalog!Range, u

\* The tasks of an order.
LEMMA NamedIs ==
    ASSUME NEW ord \in Seq(Catalog!Keys)
    PROVE  /\ Named(ord) \in Seq(Tasks) /\ Len(Named(ord)) = Len(ord)
           /\ \A i \in 1 .. Len(ord) : Named(ord)[i] = ord[i][2] /\ ord[i] \in Catalog!Keys
<1>1. Len(ord) \in Nat /\ DOMAIN ord = 1 .. Len(ord) /\ \A i \in 1 .. Len(ord) : ord[i] \in Catalog!Keys
  BY LenProperties
<1>2. \A k \in Catalog!Keys : TaskOf(k) \in Tasks /\ TaskOf(k) = k[2]
  BY DEF Catalog!Keys, TaskOf
<1>3. Named(ord) = [i \in 1 .. Len(ord) |-> TaskOf(ord[i])]
  BY <1>1 DEF Named
<1>4. Named(ord) \in [1 .. Len(ord) -> Tasks]
  BY <1>1, <1>2, <1>3
<1>5. Named(ord) \in Seq(Tasks) /\ Len(Named(ord)) = Len(ord)
  <2>1. Named(ord) \in Seq(Tasks)
    BY <1>1, <1>4 DEF Seq
  <2>2. DOMAIN Named(ord) = 1 .. Len(ord) /\ DOMAIN Named(ord) = 1 .. Len(Named(ord))
    BY <1>4, <2>1, LenProperties
  <2>3. Len(Named(ord)) \in Nat
    BY <2>1, LenProperties
  <2> QED BY <1>1, <2>1, <2>2, <2>3
<1> QED BY <1>1, <1>2, <1>3, <1>5

\* The tasks of an order that is one key longer.
LEMMA NamedAppend ==
    ASSUME NEW ord \in Seq(Catalog!Keys), NEW k \in Catalog!Keys
    PROVE  /\ Named(ord) \in Seq(Tasks) /\ k[2] \in Tasks
           /\ Named(Append(ord, k)) = Append(Named(ord), k[2])
<1> DEFINE u == Append(ord, k)
           n == Append(Named(ord), k[2])
<1>1. /\ u \in Seq(Catalog!Keys) /\ Len(u) = Len(ord) + 1 /\ u[Len(ord) + 1] = k
      /\ \A i \in 1 .. Len(ord) : u[i] = ord[i]
  BY AppendProperties
<1>2. k[2] \in Tasks
  BY DEF Catalog!Keys
<1>3. Named(ord) \in Seq(Tasks) /\ Len(Named(ord)) = Len(ord)
  BY NamedIs
<1>4. /\ n \in Seq(Tasks) /\ Len(n) = Len(ord) + 1 /\ n[Len(ord) + 1] = k[2]
      /\ \A i \in 1 .. Len(ord) : n[i] = Named(ord)[i]
  BY <1>2, <1>3, AppendProperties
<1> HIDE DEF u, n
<1>5. Len(ord) \in Nat
  BY LenProperties
<1>6. /\ Named(u) \in Seq(Tasks) /\ Len(Named(u)) = Len(ord) + 1
      /\ \A i \in 1 .. Len(u) : Named(u)[i] = u[i][2]
  BY <1>1, NamedIs
<1>7. \A i \in 1 .. Len(ord) + 1 : Named(u)[i] = n[i]
  <2> SUFFICES ASSUME NEW i \in 1 .. Len(ord) + 1 PROVE Named(u)[i] = n[i]
    OBVIOUS
  <2>1. i \in 1 .. Len(ord) \/ i = Len(ord) + 1
    BY <1>5
  <2>2. i \in 1 .. Len(ord) => Named(ord)[i] = ord[i][2]
    BY NamedIs
  <2> QED BY <1>1, <1>4, <1>6, <2>1, <2>2
<1>8. Named(u) = n
  BY <1>4, <1>6, <1>7, SeqEqual
<1> QED BY <1>2, <1>3, <1>8 DEF u, n

\* What is kept are those of the sequence that are in the set, ...
LEMMA WithinRange ==
    ASSUME NEW S, NEW set, NEW seq \in Seq(S)
    PROVE  Catalog!Range(Catalog!Within(seq, set)) = Catalog!Range(seq) \cap set
<1> DEFINE W(s) == Catalog!Within(s, set)
           P == {s \in Seq(S) : Catalog!Range(W(s)) = Catalog!Range(s) \cap set}
<1>1. <<>> \in P
  <2>1. Catalog!Range(<<>>) = {}
    BY DEF Catalog!Range
  <2> QED BY <2>1, EmptySeq, WithinEmpty
<1>2. ASSUME NEW s \in Seq(S), NEW e \in S, s \in P PROVE Append(s, e) \in P
  <2>1. \A u \in Seq(S) : Catalog!Range(Append(u, e)) = Catalog!Range(u) \cup {e}
    BY RangeOfAppend
  <2>2. W(s) \in Seq(S) /\ W(Append(s, e)) = IF e \in set THEN Append(W(s), e) ELSE W(s)
    BY WithinType, WithinAppend
  <2>3. Append(s, e) \in Seq(S)
    BY AppendProperties
  <2> HIDE DEF W
  <2> QED BY <1>2, <2>1, <2>2, <2>3, ZenonT(60)
<1>3. Seq(S) \subseteq P
  <2> HIDE DEF P
  <2> QED BY <1>1, <1>2, AllSequences
<1> QED BY <1>3

\* ... each once if each was there once.
LEMMA WithinInjective ==
    ASSUME NEW S, NEW set, NEW seq \in Seq(S), Catalog!IsInjective(seq)
    PROVE  Catalog!IsInjective(Catalog!Within(seq, set))
<1> DEFINE W(s) == Catalog!Within(s, set)
           P == {s \in Seq(S) : Catalog!IsInjective(s) => Catalog!IsInjective(W(s))}
<1>1. <<>> \in P
  BY EmptySeq, WithinEmpty
<1>2. ASSUME NEW s \in Seq(S), NEW e \in S, s \in P PROVE Append(s, e) \in P
  <2>1. W(s) \in Seq(S) /\ W(Append(s, e)) = IF e \in set THEN Append(W(s), e) ELSE W(s)
    BY WithinType, WithinAppend
  <2>2. Append(s, e) \in Seq(S)
    BY AppendProperties
  <2>3. \A u \in Seq(S) : Catalog!IsInjective(Append(u, e))
                              <=> Catalog!IsInjective(u) /\ e \notin Catalog!Range(u)
    BY InjectiveAppend
  <2>4. Catalog!Range(W(s)) = Catalog!Range(s) \cap set
    BY WithinRange
  <2> HIDE DEF W
  <2> SUFFICES ASSUME Catalog!IsInjective(Append(s, e)) PROVE Catalog!IsInjective(W(Append(s, e)))
    BY <2>2
  <2>5. Catalog!IsInjective(s) /\ e \notin Catalog!Range(s)
    BY <2>3
  <2>6. Catalog!IsInjective(W(s)) /\ e \notin Catalog!Range(W(s))
    BY <1>2, <2>4, <2>5
  <2>7. Catalog!IsInjective(Append(W(s), e))
    BY <2>1, <2>3, <2>6
  <2> QED BY <2>1, <2>6, <2>7
<1>3. Seq(S) \subseteq P
  <2> HIDE DEF P
  <2> QED BY <1>1, <1>2, AllSequences
<1> QED BY <1>3

\* What is kept of what is kept of a sequence.
LEMMA WithinTwice ==
    ASSUME NEW S, NEW A, NEW B, NEW seq \in Seq(S)
    PROVE  Catalog!Within(Catalog!Within(seq, A), B) = Catalog!Within(seq, A \cap B)
<1> DEFINE P == {s \in Seq(S) : Catalog!Within(Catalog!Within(s, A), B)
                                     = Catalog!Within(s, A \cap B)}
<1>1. <<>> \in P
  BY EmptySeq, WithinEmpty
<1>2. ASSUME NEW s \in Seq(S), NEW e \in S, s \in P PROVE Append(s, e) \in P
  <2>1. Append(s, e) \in Seq(S)
    BY AppendProperties
  <2>2. Catalog!Within(s, A) \in Seq(S)
    BY WithinType
  <2>3. Catalog!Within(Append(s, e), A) = IF e \in A THEN Append(Catalog!Within(s, A), e)
                                         ELSE Catalog!Within(s, A)
    BY WithinType, WithinAppend
  <2>4. Catalog!Within(Append(s, e), A \cap B) =
            IF e \in A \cap B THEN Append(Catalog!Within(s, A \cap B), e)
            ELSE Catalog!Within(s, A \cap B)
    BY WithinType, WithinAppend
  <2>5. Catalog!Within(Append(Catalog!Within(s, A), e), B) =
            IF e \in B THEN Append(Catalog!Within(Catalog!Within(s, A), B), e)
            ELSE Catalog!Within(Catalog!Within(s, A), B)
    BY <2>2, WithinAppend
  <2>6. Catalog!Within(Catalog!Within(s, A), B) = Catalog!Within(s, A \cap B)
    BY <1>2
  <2>7. Catalog!Within(Catalog!Within(Append(s, e), A), B) = Catalog!Within(Append(s, e), A \cap B)
    <3>1. CASE e \in A /\ e \in B
      <4>1. e \in A \cap B
        BY <3>1
      <4> QED BY <2>3, <2>4, <2>5, <2>6, <3>1, <4>1
    <3>3. CASE e \in A /\ e \notin B
      <4>1. e \notin A \cap B
        BY <3>3
      <4> QED BY <2>3, <2>4, <2>5, <2>6, <3>3, <4>1
    <3>2. CASE e \notin A
      BY <2>3, <2>4, <2>6, <3>2
    <3> QED BY <3>1, <3>2, <3>3
  <2> QED BY <2>1, <2>7
<1>3. Seq(S) \subseteq P
  <2> HIDE DEF P
  <2> QED BY <1>1, <1>2, AllSequences
<1> QED BY <1>3

\* Two sets that have the same of a sequence keep the same of it.
LEMMA WithinAgrees ==
    ASSUME NEW S, NEW A, NEW B, NEW seq \in Seq(S),
           Catalog!Range(seq) \cap A = Catalog!Range(seq) \cap B
    PROVE  Catalog!Within(seq, A) = Catalog!Within(seq, B)
<1> DEFINE P == {s \in Seq(S) : Catalog!Range(s) \cap A = Catalog!Range(s) \cap B
                                     => Catalog!Within(s, A) = Catalog!Within(s, B)}
<1>1. <<>> \in P
  BY EmptySeq, WithinEmpty
<1>2. ASSUME NEW s \in Seq(S), NEW e \in S, s \in P PROVE Append(s, e) \in P
  <2>1. Append(s, e) \in Seq(S) /\ Catalog!Range(Append(s, e)) = Catalog!Range(s) \cup {e}
    BY AppendProperties, RangeOfAppend
  <2>2. \A set \in {A, B} : Catalog!Within(Append(s, e), set) =
            IF e \in set THEN Append(Catalog!Within(s, set), e) ELSE Catalog!Within(s, set)
    BY WithinAppend
  <2> SUFFICES ASSUME Catalog!Range(Append(s, e)) \cap A = Catalog!Range(Append(s, e)) \cap B
               PROVE  Catalog!Within(Append(s, e), A) = Catalog!Within(Append(s, e), B)
    BY <2>1
  <2>3. (e \in A <=> e \in B) /\ Catalog!Range(s) \cap A = Catalog!Range(s) \cap B
    BY <2>1
  <2>4. Catalog!Within(s, A) = Catalog!Within(s, B)
    BY <1>2, <2>3
  <2> QED BY <2>2, <2>3, <2>4
<1>3. Seq(S) \subseteq P
  <2> HIDE DEF P
  <2> QED BY <1>1, <1>2, AllSequences
<1> QED BY <1>3

\* A set may be looked up by the tasks of the keys.
LEMMA WithinNamed ==
    ASSUME NEW set, NEW tasks, NEW ord \in Seq(Catalog!Keys),
           \A k \in Catalog!Range(ord) : k[2] \in tasks => k \in set
    PROVE  Catalog!Within(Named(Catalog!Within(ord, set)), tasks)
               = Catalog!Within(Named(ord), tasks)
<1> DEFINE K == Catalog!Keys
           W(s) == Catalog!Within(s, set)
           V(s) == Catalog!Within(Named(s), tasks)
           P == {s \in Seq(K) : (\A k \in Catalog!Range(s) : k[2] \in tasks => k \in set)
                                    => V(W(s)) = V(s)}
<1>1. <<>> \in P
  BY EmptySeq, WithinEmpty
<1>2. ASSUME NEW s \in Seq(K), NEW e \in K, s \in P PROVE Append(s, e) \in P
  <2>1. Append(s, e) \in Seq(K) /\ Catalog!Range(Append(s, e)) = Catalog!Range(s) \cup {e}
    BY AppendProperties, RangeOfAppend
  <2>2. W(s) \in Seq(K) /\ W(Append(s, e)) = IF e \in set THEN Append(W(s), e) ELSE W(s)
    BY WithinType, WithinAppend
  <2>3. ASSUME NEW u \in Seq(K)
        PROVE  V(Append(u, e)) = IF e[2] \in tasks THEN Append(V(u), e[2]) ELSE V(u)
    <3>1. Named(u) \in Seq(Tasks) /\ e[2] \in Tasks /\ Named(Append(u, e)) = Append(Named(u), e[2])
      BY NamedAppend
    <3> DEFINE n == Named(u)
               x == e[2]
    <3>2. n \in Seq(Tasks) /\ x \in Tasks
      BY <3>1
    <3> HIDE DEF n, x
    <3>3. Catalog!Within(Append(n, x), tasks) =
              IF x \in tasks THEN Append(Catalog!Within(n, tasks), x) ELSE Catalog!Within(n, tasks)
      BY <3>2, WithinAppend
    <3> QED BY <3>1, <3>3 DEF n, x
  <2> HIDE DEF V, W
  <2> SUFFICES ASSUME \A k \in Catalog!Range(Append(s, e)) : k[2] \in tasks => k \in set
               PROVE  V(W(Append(s, e))) = V(Append(s, e))
    BY <2>1
  <2>4. V(W(s)) = V(s) /\ (e[2] \in tasks => e \in set)
    BY <1>2, <2>1
  <2>5. CASE e \in set
    BY <2>2, <2>3, <2>4, <2>5
  <2>6. CASE e \notin set
    BY <2>2, <2>3, <2>4, <2>6
  <2> QED BY <2>5, <2>6
<1>3. Seq(K) \subseteq P
  <2> HIDE DEF P, K
  <2> QED BY <1>1, <1>2, AllSequences
<1> QED BY <1>3

\* The names and the paths are apart, and are all the keys there are.
LEMMA KeysAre ==
    /\ \A t \in Tasks : /\ Catalog!Id(t) \in Catalog!Keys \ Catalog!Paths
                        /\ Catalog!Id(t)[1] = 0 /\ Catalog!Id(t)[2] = t
    /\ \A k \in Catalog!Keys : /\ k[2] \in Tasks
                               /\ k \in Catalog!Paths \/ (k[1] = 0 /\ k = Catalog!Id(k[2]))
    /\ \A k \in Catalog!Paths : k \in Catalog!Keys /\ k[1] \in Dirs /\ k[1] # 0
    /\ \A t, u \in Tasks : Catalog!Id(t) = Catalog!Id(u) => t = u
BY CatalogAssumption DEF Catalog!Id, Catalog!Keys, Catalog!Paths

\* The catalog counts as everybody does.
LEMMA HowMany == \A S : Catalog!Cardinality(S) = Cardinality(S)
BY DEF Catalog!Cardinality, Cardinality

\* The candidates of a task are its paths, finitely many.
LEMMA CandidatesAre ==
    ASSUME NEW stored, NEW t \in Tasks
    PROVE  /\ IsFiniteSet(Catalog!Candidates(stored, t))
           /\ Cardinality(Catalog!Candidates(stored, t)) \in Nat
           /\ Cardinality(Catalog!Candidates(stored, t)) = 1
                  <=> \E k : Catalog!Candidates(stored, t) = {k}
           /\ Cardinality(Catalog!Candidates(stored, t)) = 0 <=> Catalog!Candidates(stored, t) = {}
<1>1. IsFiniteSet(Catalog!Paths)
  BY CatalogAssumption, FS_Product DEF Catalog!Paths
<1>2. Catalog!Candidates(stored, t) \in SUBSET Catalog!Paths
  BY DEF Catalog!Candidates
<1>3. IsFiniteSet(Catalog!Candidates(stored, t))
  BY <1>1, <1>2, FS_Subset
<1> QED BY <1>3, FS_CardinalityType, FS_Singleton, FS_EmptySet

\* What is stored for a task: under its only path, or its name.
LEMMA StoredIs ==
    ASSUME NEW stored, NEW t \in Tasks
    PROVE  /\ \A k : Catalog!Candidates(stored, t) = {k} => Catalog!Stored(stored, t) = stored[k]
           /\ (\A k : Catalog!Candidates(stored, t) # {k}) =>
                  Catalog!Stored(stored, t) =
                      IF Catalog!Id(t) \in DOMAIN stored THEN stored[Catalog!Id(t)] ELSE 0
<1> DEFINE one == CHOOSE c \in Catalog!Candidates(stored, t) : TRUE
           own == IF Catalog!Id(t) \in DOMAIN stored THEN stored[Catalog!Id(t)] ELSE 0
<1>0. Catalog!Stored(stored, t) =
          IF Catalog!Cardinality(Catalog!Candidates(stored, t)) = 1 THEN stored[one] ELSE own
  BY DEF Catalog!Stored
<1> HIDE DEF own
<1>1. ASSUME NEW k, Catalog!Candidates(stored, t) = {k}
      PROVE  Catalog!Stored(stored, t) = stored[k]
  <2>1. Cardinality(Catalog!Candidates(stored, t)) = 1
    BY <1>1, CandidatesAre
  <2>2. one = k
    BY <1>1
  <2> HIDE DEF one
  <2> QED BY <1>0, <2>1, <2>2, HowMany
<1>2. ASSUME \A k : Catalog!Candidates(stored, t) # {k}
      PROVE  Catalog!Stored(stored, t) = own
  <2>1. Cardinality(Catalog!Candidates(stored, t)) # 1
    BY <1>2, CandidatesAre
  <2> HIDE DEF one
  <2> QED BY <1>0, <2>1, HowMany
<1> QED BY <1>1, <1>2 DEF own

\* Two tables that have the same for a task under its name and its paths.
AlikeFor(before, after, t) ==
    /\ Catalog!Candidates(after, t) = Catalog!Candidates(before, t)
    /\ \A k \in Catalog!Candidates(before, t) : after[k] = before[k]
    /\ (IF Catalog!Id(t) \in DOMAIN after THEN after[Catalog!Id(t)] ELSE 0)
           = (IF Catalog!Id(t) \in DOMAIN before THEN before[Catalog!Id(t)] ELSE 0)

\* They have the same stored for it.
LEMMA StoredAlike ==
    ASSUME NEW before, NEW after, NEW t \in Tasks, AlikeFor(before, after, t)
    PROVE  Catalog!Stored(after, t) = Catalog!Stored(before, t)
<1>1. CASE \E k : Catalog!Candidates(before, t) = {k}
  <2>1. PICK k : Catalog!Candidates(before, t) = {k}
    BY <1>1
  <2>2. Catalog!Candidates(after, t) = {k} /\ after[k] = before[k]
    BY <2>1 DEF AlikeFor
  <2>3. Catalog!Stored(before, t) = before[k]
    BY <2>1, StoredIs
  <2>4. Catalog!Stored(after, t) = after[k]
    BY <2>2, StoredIs
  <2> QED BY <2>2, <2>3, <2>4
<1>2. CASE \A k : Catalog!Candidates(before, t) # {k}
  <2>1. \A k : Catalog!Candidates(after, t) # {k}
    BY <1>2 DEF AlikeFor
  <2>2. Catalog!Stored(before, t) = IF Catalog!Id(t) \in DOMAIN before THEN before[Catalog!Id(t)] ELSE 0
    BY <1>2, StoredIs
  <2>3. Catalog!Stored(after, t) = IF Catalog!Id(t) \in DOMAIN after THEN after[Catalog!Id(t)] ELSE 0
    BY <2>1, StoredIs
  <2> QED BY <2>2, <2>3 DEF AlikeFor
<1> QED BY <1>1, <1>2

\* A table with the settings of some tasks under their names alone.
ByName(stored, shown, setting) ==
    /\ DOMAIN stored = {Catalog!Id(t) : t \in shown}
    /\ \A t \in shown : stored[Catalog!Id(t)] = setting[t]

\* Nothing is beside them in it.
LEMMA NamesAlone ==
    ASSUME NEW shown \in SUBSET Tasks, NEW setting, NEW stored, ByName(stored, shown, setting)
    PROVE  /\ \A t \in Tasks : Catalog!Candidates(stored, t) = {}
           /\ \A t \in Tasks : Catalog!Stored(stored, t) = IF t \in shown THEN setting[t] ELSE 0
           /\ OwnIsAlone(stored)
           /\ DOMAIN stored \cap Catalog!Paths = {}
<1>1. DOMAIN stored \cap Catalog!Paths = {}
  BY KeysAre DEF ByName
<1>2. \A t \in Tasks : Catalog!Candidates(stored, t) = {}
  BY <1>1 DEF Catalog!Candidates
<1>3. \A t \in Tasks : Catalog!Id(t) \in DOMAIN stored <=> t \in shown
  BY KeysAre DEF ByName
<1>4. ASSUME NEW t \in Tasks
      PROVE  Catalog!Stored(stored, t) = IF t \in shown THEN setting[t] ELSE 0
  <2>1. \A k : Catalog!Candidates(stored, t) # {k}
    BY <1>2
  <2>2. Catalog!Stored(stored, t) = IF Catalog!Id(t) \in DOMAIN stored THEN stored[Catalog!Id(t)] ELSE 0
    BY <2>1, StoredIs
  <2> QED BY <1>3, <2>2 DEF ByName
<1> QED BY <1>1, <1>2, <1>4 DEF OwnIsAlone

\* A table is one of settings.
LEMMA TableIs ==
    ASSUME NEW stored
    PROVE  stored \in Tables <=>
               /\ stored = [k \in DOMAIN stored |-> stored[k]]
               /\ DOMAIN stored \subseteq Catalog!Keys
               /\ \A k \in DOMAIN stored : stored[k] \in 0 .. Writes
<1>1. stored \in Tables => /\ stored = [k \in DOMAIN stored |-> stored[k]]
                           /\ DOMAIN stored \subseteq Catalog!Keys
                           /\ \A k \in DOMAIN stored : stored[k] \in 0 .. Writes
  BY DEF Tables
<1>2. ASSUME stored = [k \in DOMAIN stored |-> stored[k]], DOMAIN stored \subseteq Catalog!Keys,
             \A k \in DOMAIN stored : stored[k] \in 0 .. Writes
      PROVE  stored \in Tables
  <2>1. stored \in [DOMAIN stored -> 0 .. Writes]
    BY <1>2
  <2> QED BY <1>2, <2>1 DEF Tables
<1> QED BY <1>1, <1>2

\* All but the files.
catalogRest == <<registry, loaded, table, order, diskTable, diskOrder, tab, written, mine, dropped,
                 wish, unplaced>>

\* While the store stays, so does what holds of it.
LEMMA StoreStays ==
    ASSUME CatalogIInv, UNCHANGED catalogRest, files' \subseteq Catalog!Paths, broken' \subseteq files'
    PROVE  CatalogIInv'
<1> USE DEF catalogRest
<1>1. CatalogTypes'
  BY DEF CatalogIInv, CatalogTypes, OrderFits
<1>2. OwnIsAlone(table)' /\ OwnIsAlone(diskTable)'
  BY DEF CatalogIInv, OwnIsAlone
<1>3. PlaceIsHeld(order, table)' /\ PlaceIsHeld(diskOrder, diskTable)'
  BY DEF CatalogIInv, PlaceIsHeld
<1>4. Kept(table)' /\ Kept(diskTable)'
  BY DEF CatalogIInv, Kept
<1>5. Placed(order)' /\ Placed(diskOrder)' /\ Renamed'
  BY DEF CatalogIInv, Placed, Renamed, Catalog!Places
<1> QED BY <1>1, <1>2, <1>3, <1>4, <1>5 DEF CatalogIInv

\* Files come, go, move, break and are mended.
LEMMA FilesMove ==
    ASSUME CatalogIInv, NEW f \in Catalog!Paths,
           \/ Catalog!AddFile(f) \/ Catalog!RemoveFile(f) \/ Catalog!Break(f) \/ Catalog!Mend(f)
           \/ \E d \in Dirs : Catalog!MoveFile(f, d)
    PROVE  CatalogIInv'
<1>1. UNCHANGED catalogRest
  BY DEF Catalog!AddFile, Catalog!RemoveFile, Catalog!Break, Catalog!Mend, Catalog!MoveFile,
     catalogRest, Catalog!catalog, Catalog!store, Catalog!asked
<1>2. files \subseteq Catalog!Paths /\ broken \subseteq files
  BY DEF CatalogIInv, CatalogTypes
<1>3. files' \subseteq Catalog!Paths /\ broken' \subseteq files'
  <2>1. CASE Catalog!AddFile(f) \/ Catalog!RemoveFile(f) \/ Catalog!Break(f) \/ Catalog!Mend(f)
    BY <1>2, <2>1 DEF Catalog!AddFile, Catalog!RemoveFile, Catalog!Break, Catalog!Mend
  <2>2. ASSUME NEW d \in Dirs, Catalog!MoveFile(f, d)
        PROVE  files' \subseteq Catalog!Paths /\ broken' \subseteq files'
    <3>1. <<d, f[2]>> \in Catalog!Paths
      BY DEF Catalog!Paths
    <3> QED BY <1>2, <2>2, <3>1 DEF Catalog!MoveFile
  <2> QED BY <2>1, <2>2
<1> QED BY <1>1, <1>3, StoreStays

\* The tab is shown the tree of the registered tasks that have an entry.
LEMMA RefreshKeeps ==
    ASSUME CatalogIInv, Catalog!Refresh
    PROVE  CatalogIInv'
<1>1. UNCHANGED <<files, broken, registry, loaded, table, order, diskTable, diskOrder, written, mine,
                  dropped, wish, unplaced>>
  BY DEF Catalog!Refresh, Catalog!sources, Catalog!catalog, Catalog!store, Catalog!asked
<1>2. DOMAIN tab' \subseteq Tasks /\ \A t \in DOMAIN tab' : tab'[t] \in Dirs
  <2>1. registry \in [Tasks -> {0} \cup Dirs]
    BY DEF CatalogIInv, CatalogTypes
  <2> QED BY <2>1 DEF Catalog!Refresh, Catalog!Tree, Catalog!Registered
<1>3. CatalogTypes'
  BY <1>1, <1>2 DEF CatalogIInv, CatalogTypes, OrderFits
<1>4. OwnIsAlone(table)' /\ OwnIsAlone(diskTable)'
  BY <1>1 DEF CatalogIInv, OwnIsAlone
<1>5. PlaceIsHeld(order, table)' /\ PlaceIsHeld(diskOrder, diskTable)'
  BY <1>1 DEF CatalogIInv, PlaceIsHeld
<1>6. Kept(table)' /\ Kept(diskTable)'
  BY <1>1 DEF CatalogIInv, Kept
<1>7. Placed(order)' /\ Placed(diskOrder)' /\ Renamed'
  BY <1>1 DEF CatalogIInv, Placed, Renamed, Catalog!Places
<1> QED BY <1>3, <1>4, <1>5, <1>6, <1>7 DEF CatalogIInv

\* The places are those of the tasks that have one.
LEMMA PlacesAre == \A ord : Catalog!Places(ord) = Catalog!Within(Named(ord), Tasks \ unplaced)
BY DEF Catalog!Places, Named, TaskOf

\* What agrees on some tasks agrees on fewer.
LEMMA PlacesShrink ==
    ASSUME NEW s \in Seq(Tasks), NEW u \in Seq(Tasks), NEW A, NEW B \in SUBSET A,
           Catalog!Within(s, A) = Catalog!Within(u, A)
    PROVE  Catalog!Within(s, B) = Catalog!Within(u, B)
<1>1. A \cap B = B
  OBVIOUS
<1>2. Catalog!Within(Catalog!Within(s, A), B) = Catalog!Within(s, A \cap B)
  BY WithinTwice
<1>3. Catalog!Within(Catalog!Within(u, A), B) = Catalog!Within(u, A \cap B)
  BY WithinTwice
<1> QED BY <1>1, <1>2, <1>3

\* An order that stays has the places that are left.
LEMMA StaysPlaced ==
    ASSUME NEW ord, OrderFits(ord), wish \in Seq(Tasks), Placed(ord),
           wish' = wish, unplaced \subseteq unplaced'
    PROVE  Catalog!Within(Named(ord), Tasks \ unplaced') = Catalog!Within(wish', Tasks \ unplaced')
<1>1. Named(ord) \in Seq(Tasks)
  BY NamedIs DEF OrderFits
<1>2. Catalog!Within(Named(ord), Tasks \ unplaced) = Catalog!Within(wish, Tasks \ unplaced)
  BY PlacesAre DEF Placed
<1>3. Tasks \ unplaced' \in SUBSET (Tasks \ unplaced)
  OBVIOUS
<1> QED BY <1>1, <1>2, <1>3, PlacesShrink

\* A place kept under a path that is not that of an entry is stranded.
LEMMA ElseStranded ==
    ASSUME NEW ord, NEW stored, OrderFits(ord),
           \A k \in DOMAIN stored \cap Catalog!Paths : Catalog!Candidates(stored, k[2]) = {k}
    PROVE  /\ Catalog!Stranded(ord, stored) \subseteq Tasks
           /\ \A k \in Catalog!Range(ord) \cap Catalog!Paths :
                  k[2] \in Catalog!Stranded(ord, stored) \/ Catalog!Candidates(stored, k[2]) = {k}
<1>1. \A k \in Catalog!Paths : k[2] \in Tasks
  BY DEF Catalog!Paths
<1> QED BY <1>1 DEF Catalog!Stranded

\* What holds of the order once a table is saved whose paths are those of one task each.
LEMMA OrderIsSaved ==
    ASSUME CatalogIInv, UNCHANGED <<registry, loaded, order, wish>>,
           diskTable' = table', diskOrder' = order,
           unplaced' = unplaced \cup Catalog!Stranded(order, table'),
           \A k \in DOMAIN table' \cap Catalog!Paths : Catalog!Candidates(table', k[2]) = {k}
    PROVE  /\ (OrderFits(order) /\ OrderFits(diskOrder) /\ unplaced \subseteq Tasks /\ wish \in Seq(Tasks))'
           /\ PlaceIsHeld(order, table)' /\ PlaceIsHeld(diskOrder, diskTable)'
           /\ Placed(order)' /\ Placed(diskOrder)' /\ Renamed'
<1>1. OrderFits(order) /\ wish \in Seq(Tasks) /\ unplaced \subseteq Tasks /\ Placed(order) /\ Renamed
  BY DEF CatalogIInv, CatalogTypes
<1>2. /\ Catalog!Stranded(order, table') \subseteq Tasks
      /\ \A k \in Catalog!Range(order) \cap Catalog!Paths :
             k[2] \in Catalog!Stranded(order, table') \/ Catalog!Candidates(table', k[2]) = {k}
  BY <1>1, ElseStranded
<1>3. (OrderFits(order) /\ OrderFits(diskOrder) /\ unplaced \subseteq Tasks /\ wish \in Seq(Tasks))'
  BY <1>1, <1>2 DEF OrderFits
<1>4. PlaceIsHeld(order, table)' /\ PlaceIsHeld(diskOrder, diskTable)'
  BY <1>2 DEF PlaceIsHeld
<1>5. Catalog!Within(Named(order), Tasks \ unplaced') = Catalog!Within(wish', Tasks \ unplaced')
  BY <1>1, StaysPlaced
<1>6. Placed(order)' /\ Placed(diskOrder)'
  BY <1>5 DEF Placed, Catalog!Places, Named, TaskOf
<1>7. Renamed'
  BY <1>1 DEF Renamed
<1> QED BY <1>3, <1>4, <1>6, <1>7

\* What is set is one of the settings.
LEMMA SettingIs ==
    ASSUME CatalogTypes, NEW t \in Tasks
    PROVE  Catalog!Setting(t) \in 0 .. Writes
BY CatalogAssumption, TableIs DEF CatalogTypes, Catalog!Setting

\* A save of the list leaves the settings of the page.
LEMMA SaveListKeeps ==
    ASSUME CatalogIInv, NEW t \in Tasks, Catalog!SaveTask(t)
    PROVE  CatalogIInv'
<1> DEFINE shown == DOMAIN tab
           list == [u \in shown |-> IF u = t THEN written' ELSE Catalog!Setting(u)]
<1>0. CatalogTypes /\ shown \in SUBSET Tasks
  BY DEF CatalogIInv, CatalogTypes
<1>1. /\ UNCHANGED <<files, broken, registry, loaded, order, tab, wish>>
      /\ written < Writes /\ written' = written + 1
      /\ table' = [k \in {Catalog!Id(u) : u \in shown} |-> list[k[2]]]
      /\ mine' = Catalog!Over(list, mine)
      /\ diskTable' = table' /\ diskOrder' = order /\ dropped' = Tasks \ shown
      /\ unplaced' = unplaced \cup Catalog!Stranded(order, table')
  BY DEF Catalog!SaveTask, Catalog!Write, Catalog!sources, Catalog!catalog
<1>2. written' \in 1 .. Writes
  BY <1>0, <1>1, CatalogAssumption DEF CatalogTypes
<1>3. \A u \in shown : list[u] \in 0 .. Writes
  BY <1>0, <1>2, SettingIs
<1>4. DOMAIN list = shown
  OBVIOUS
<1> HIDE DEF list, shown
<1>5. ByName(table', shown, list)
  BY <1>0, <1>1, KeysAre DEF ByName
<1>6. table' \in Tables
  <2>1. DOMAIN table' \subseteq Catalog!Keys /\ table' = [k \in DOMAIN table' |-> table'[k]]
    BY <1>0, <1>1, KeysAre
  <2>2. \A k \in DOMAIN table' : table'[k] \in 0 .. Writes
    BY <1>0, <1>3, <1>5 DEF ByName
  <2> QED BY <2>1, <2>2, TableIs
<1>7. /\ mine' \in [Tasks -> 0 .. Writes] /\ \A u \in shown : mine'[u] = list[u]
  <2>1. mine \in [Tasks -> 0 .. Writes]
    BY <1>0 DEF CatalogTypes
  <2>2. mine' = [u \in shown \cup Tasks |-> IF u \in shown THEN list[u] ELSE mine[u]]
    BY <1>1, <1>4, <2>1 DEF Catalog!Over
  <2> QED BY <1>0, <1>3, <2>1, <2>2
<1>8. /\ \A u \in Tasks : Catalog!Stored(table', u) = IF u \in shown THEN list[u] ELSE 0
      /\ OwnIsAlone(table') /\ DOMAIN table' \cap Catalog!Paths = {}
  BY <1>0, <1>5, NamesAlone
<1>9. /\ (OrderFits(order) /\ OrderFits(diskOrder) /\ unplaced \subseteq Tasks /\ wish \in Seq(Tasks))'
      /\ PlaceIsHeld(order, table)' /\ PlaceIsHeld(diskOrder, diskTable)'
      /\ Placed(order)' /\ Placed(diskOrder)' /\ Renamed'
  BY <1>1, <1>8, OrderIsSaved
<1>10. OwnIsAlone(table)' /\ OwnIsAlone(diskTable)'
  BY <1>1, <1>8 DEF OwnIsAlone
<1>11. Kept(table)' /\ Kept(diskTable)'
  BY <1>0, <1>1, <1>7, <1>8 DEF Kept
<1>12. CatalogTypes'
  BY <1>0, <1>1, <1>2, <1>6, <1>7, <1>9 DEF CatalogTypes
<1> QED BY <1>9, <1>10, <1>11, <1>12 DEF CatalogIInv

\* An import has the settings of the page under its paths.
LEMMA ImportKeeps ==
    ASSUME CatalogIInv, Catalog!Import
    PROVE  CatalogIInv'
<1> DEFINE shown == DOMAIN tab
           list == [u \in shown |-> Catalog!Setting(u)]
<1>0. CatalogTypes /\ shown \in SUBSET Tasks /\ \A u \in shown : tab[u] \in Dirs
  BY DEF CatalogIInv, CatalogTypes
<1>1. /\ UNCHANGED <<files, broken, registry, loaded, order, tab, written, wish>>
      /\ table' = [k \in {<<tab[u], u>> : u \in shown} |-> Catalog!Setting(k[2])]
      /\ mine' = Catalog!Over(list, mine)
      /\ diskTable' = table' /\ diskOrder' = order /\ dropped' = Tasks \ shown
      /\ unplaced' = unplaced \cup Catalog!Stranded(order, table')
  BY DEF Catalog!Import, Catalog!sources, Catalog!catalog
<1>3. \A u \in shown : list[u] \in 0 .. Writes /\ list[u] = Catalog!Setting(u)
  BY <1>0, SettingIs
<1>4. DOMAIN list = shown
  OBVIOUS
<1> HIDE DEF list, shown
<1>5. /\ DOMAIN table' = {<<tab[u], u>> : u \in shown} /\ DOMAIN table' \subseteq Catalog!Paths
      /\ \A u \in shown : table'[<<tab[u], u>>] = list[u]
      /\ table' = [k \in DOMAIN table' |-> table'[k]]
  BY <1>0, <1>1, <1>3 DEF Catalog!Paths
<1>6. table' \in Tables
  <2>1. \A k \in DOMAIN table' : table'[k] \in 0 .. Writes
    BY <1>3, <1>5
  <2> QED BY <1>5, <2>1, TableIs, KeysAre
<1>7. mine' \in [Tasks -> 0 .. Writes] /\ \A u \in shown : mine'[u] = list[u]
  <2>1. mine \in [Tasks -> 0 .. Writes]
    BY <1>0 DEF CatalogTypes
  <2>2. mine' = [u \in shown \cup Tasks |-> IF u \in shown THEN list[u] ELSE mine[u]]
    BY <1>1, <1>4, <2>1 DEF Catalog!Over
  <2> QED BY <1>0, <1>3, <2>1, <2>2
<1>8. \A u \in shown : Catalog!Candidates(table', u) = {<<tab[u], u>>}
  BY <1>5 DEF Catalog!Candidates
<1>9. \A u \in shown : Catalog!Stored(table', u) = list[u]
  <2> SUFFICES ASSUME NEW u \in shown PROVE Catalog!Stored(table', u) = list[u]
    OBVIOUS
  <2>1. Catalog!Stored(table', u) = table'[<<tab[u], u>>]
    BY <1>0, <1>8, StoredIs
  <2> QED BY <1>5, <2>1
<1>10. \A k \in DOMAIN table' \cap Catalog!Paths : Catalog!Candidates(table', k[2]) = {k}
  BY <1>5, <1>8
<1>11. /\ (OrderFits(order) /\ OrderFits(diskOrder) /\ unplaced \subseteq Tasks /\ wish \in Seq(Tasks))'
       /\ PlaceIsHeld(order, table)' /\ PlaceIsHeld(diskOrder, diskTable)'
       /\ Placed(order)' /\ Placed(diskOrder)' /\ Renamed'
  BY <1>1, <1>10, OrderIsSaved
<1>12. OwnIsAlone(table)' /\ OwnIsAlone(diskTable)'
  BY <1>1, <1>5, KeysAre DEF OwnIsAlone
<1>13. Kept(table)' /\ Kept(diskTable)'
  BY <1>0, <1>1, <1>7, <1>9 DEF Kept
<1>14. CatalogTypes'
  BY <1>0, <1>1, <1>6, <1>7, <1>11 DEF CatalogTypes
<1> QED BY <1>11, <1>12, <1>13, <1>14 DEF CatalogIInv

\* A run sets the task anew under its name, where no path of it is stored beside.
LEMMA RunKeeps ==
    ASSUME CatalogIInv, NEW t \in Tasks, Catalog!Run(t)
    PROVE  CatalogIInv'
<1>0. /\ CatalogTypes /\ OwnIsAlone(table) /\ PlaceIsHeld(order, table) /\ Kept(table)
      /\ Placed(order) /\ Renamed /\ table \in Tables /\ mine \in [Tasks -> 0 .. Writes]
  BY DEF CatalogIInv, CatalogTypes
<1>1. /\ UNCHANGED <<files, broken, registry, loaded, order, tab, wish, unplaced>>
      /\ written < Writes /\ written' = written + 1
      /\ Catalog!Id(t) \in DOMAIN table /\ table[Catalog!Id(t)] # 0
      /\ table' = [table EXCEPT ![Catalog!Id(t)] = written']
      /\ diskTable' = table' /\ diskOrder' = order
      /\ mine' = [mine EXCEPT ![t] = written'] /\ dropped' = dropped \ {t}
  BY DEF Catalog!Run, Catalog!Write, Catalog!sources, Catalog!catalog
<1>2. written' \in 1 .. Writes
  BY <1>0, <1>1, CatalogAssumption DEF CatalogTypes
<1>3. /\ DOMAIN table' = DOMAIN table /\ table'[Catalog!Id(t)] = written'
      /\ \A k \in DOMAIN table : k # Catalog!Id(t) => table'[k] = table[k]
      /\ table' = [k \in DOMAIN table' |-> table'[k]]
  BY <1>1
<1>4. \A u \in Tasks : Catalog!Candidates(table', u) = Catalog!Candidates(table, u)
  BY <1>3 DEF Catalog!Candidates
<1>5. Catalog!Candidates(table, t) = {}
  BY <1>0, <1>1 DEF OwnIsAlone
<1>6. Catalog!Stored(table', t) = written'
  <2>1. \A k : Catalog!Candidates(table', t) # {k}
    BY <1>4, <1>5
  <2>2. Catalog!Stored(table', t) =
            IF Catalog!Id(t) \in DOMAIN table' THEN table'[Catalog!Id(t)] ELSE 0
    BY <2>1, StoredIs
  <2> QED BY <1>1, <1>3, <2>2
<1>7. \A u \in Tasks \ {t} : Catalog!Stored(table', u) = Catalog!Stored(table, u)
  <2> SUFFICES ASSUME NEW u \in Tasks \ {t} PROVE Catalog!Stored(table', u) = Catalog!Stored(table, u)
    OBVIOUS
  <2>1. Catalog!Id(u) # Catalog!Id(t)
    BY KeysAre
  <2>2. \A k \in Catalog!Candidates(table, u) : k \in DOMAIN table /\ k # Catalog!Id(t)
    BY KeysAre DEF Catalog!Candidates
  <2>3. AlikeFor(table, table', u)
    BY <1>3, <1>4, <2>1, <2>2 DEF AlikeFor
  <2> QED BY <2>3, StoredAlike
<1>8. table' \in Tables
  BY <1>0, <1>2, <1>3, TableIs
<1>9. /\ mine' \in [Tasks -> 0 .. Writes] /\ mine'[t] = written'
      /\ \A u \in Tasks \ {t} : mine'[u] = mine[u]
  BY <1>0, <1>1, <1>2
<1>10. CatalogTypes'
  BY <1>0, <1>1, <1>2, <1>8, <1>9 DEF CatalogTypes, OrderFits
<1>11. OwnIsAlone(table)' /\ OwnIsAlone(diskTable)'
  <2>1. ASSUME NEW u \in Tasks, Catalog!Id(u) \in DOMAIN table', table'[Catalog!Id(u)] # 0
        PROVE  Catalog!Candidates(table', u) = {}
    <3>1. CASE u = t
      BY <1>4, <1>5, <3>1
    <3>2. CASE u # t
      BY <1>0, <1>3, <1>4, <2>1, <3>2, KeysAre DEF OwnIsAlone
    <3> QED BY <3>1, <3>2
  <2> QED BY <1>1, <2>1 DEF OwnIsAlone
<1>12. PlaceIsHeld(order, table)' /\ PlaceIsHeld(diskOrder, diskTable)'
  <2>1. \A k \in Catalog!Paths : k[2] \in Tasks
    BY DEF Catalog!Paths
  <2> QED BY <1>0, <1>1, <1>4, <2>1 DEF PlaceIsHeld
<1>13. Kept(table)' /\ Kept(diskTable)'
  <2>1. \A u \in Tasks \ dropped' : Catalog!Stored(table', u) = mine'[u]
    BY <1>0, <1>1, <1>6, <1>7, <1>9 DEF Kept
  <2> QED BY <1>1, <2>1 DEF Kept
<1>14. Placed(order)' /\ Placed(diskOrder)' /\ Renamed'
  BY <1>0, <1>1 DEF Placed, Renamed, Catalog!Places
<1> QED BY <1>10, <1>11, <1>12, <1>13, <1>14 DEF CatalogIInv

\* An order of names.
LEMMA NamesInOrder ==
    ASSUME NEW seq \in Seq(Tasks), Catalog!IsInjective(seq),
           NEW ord, ord = [i \in DOMAIN seq |-> Catalog!Id(seq[i])]
    PROVE  /\ OrderFits(ord) /\ Named(ord) = seq
           /\ \A k \in Catalog!Range(ord) : k[1] = 0 /\ k \notin Catalog!Paths
<1>1. Len(seq) \in Nat /\ DOMAIN seq = 1 .. Len(seq) /\ \A i \in 1 .. Len(seq) : seq[i] \in Tasks
  BY LenProperties
<1>2. ord \in [1 .. Len(seq) -> Catalog!Keys]
  BY <1>1, KeysAre
<1>3. ord \in Seq(Catalog!Keys)
  BY <1>1, <1>2 DEF Seq
<1>4. Len(ord) = Len(seq)
  <2>1. DOMAIN ord = 1 .. Len(seq) /\ DOMAIN ord = 1 .. Len(ord) /\ Len(ord) \in Nat
    BY <1>2, <1>3, LenProperties
  <2> QED BY <1>1, <2>1
<1>5. Named(ord) = seq
  <2>1. /\ Named(ord) \in Seq(Tasks) /\ Len(Named(ord)) = Len(ord)
        /\ \A i \in 1 .. Len(ord) : Named(ord)[i] = ord[i][2]
    BY <1>3, NamedIs
  <2>2. \A i \in 1 .. Len(seq) : ord[i][2] = seq[i]
    BY <1>1, KeysAre
  <2> QED BY <1>4, <2>1, <2>2, SeqEqual, ZenonT(120)
<1>6. \A k \in Catalog!Range(ord) : k[1] = 0 /\ k \notin Catalog!Paths
  BY <1>1, KeysAre DEF Catalog!Range
<1> QED BY <1>3, <1>5, <1>6 DEF OrderFits

\* What holds once the order is one of names that has the wished places.
LEMMA NewOrderKeeps ==
    ASSUME CatalogIInv, wish' \in Seq(Tasks), unplaced' \subseteq Tasks,
           UNCHANGED <<files, broken, registry, loaded, table, diskTable, tab, written, mine, dropped>>,
           diskOrder' = order', OrderFits(order'),
           \A k \in Catalog!Range(order') : k[1] = 0 /\ k \notin Catalog!Paths,
           Catalog!Within(Named(order'), Tasks \ unplaced') = Catalog!Within(wish', Tasks \ unplaced')
    PROVE  CatalogIInv'
<1>1. CatalogTypes'
  BY DEF CatalogIInv, CatalogTypes, OrderFits
<1>2. OwnIsAlone(table)' /\ OwnIsAlone(diskTable)'
  BY DEF CatalogIInv, OwnIsAlone
<1>3. PlaceIsHeld(order, table)' /\ PlaceIsHeld(diskOrder, diskTable)'
  BY DEF PlaceIsHeld
<1>4. Kept(table)' /\ Kept(diskTable)'
  BY DEF CatalogIInv, Kept
<1>5. Placed(order)' /\ Placed(diskOrder)'
  BY DEF Placed, Catalog!Places, Named, TaskOf
<1>6. Renamed'
  BY DEF Renamed
<1> QED BY <1>1, <1>2, <1>3, <1>4, <1>5, <1>6 DEF CatalogIInv

\* The page's order is kept for the tasks whose paths the page has right.
LEMMA SaveOrderKeeps ==
    ASSUME CatalogIInv, NEW tasks \in Catalog!Orders(DOMAIN tab), Catalog!SaveOrder(tasks)
    PROVE  CatalogIInv'
<1> DEFINE known == {t \in DOMAIN tab : registry[t] = tab[t]}
           kept == Catalog!Within(tasks, known)
<1>0. DOMAIN tab \in SUBSET Tasks
  BY DEF CatalogIInv, CatalogTypes
<1>1. /\ tasks \in Seq(Tasks) /\ Catalog!Range(tasks) \subseteq DOMAIN tab /\ Catalog!IsInjective(tasks)
  <2>1. /\ tasks \in [1 .. Catalog!Cardinality(DOMAIN tab) -> DOMAIN tab]
        /\ Catalog!IsInjective(tasks)
    BY DEF Catalog!Orders
  <2>2. Catalog!Cardinality(DOMAIN tab) \in Nat
    <3>1. IsFiniteSet(DOMAIN tab)
      BY <1>0, CatalogAssumption, FS_Subset
    <3> QED BY <3>1, FS_CardinalityType, HowMany
  <2>3. tasks \in Seq(DOMAIN tab)
    BY <2>1, <2>2 DEF Seq
  <2> QED BY <1>0, <2>1, <2>3, SeqMonotonic DEF Catalog!Range
<1>2. /\ UNCHANGED <<files, broken, registry, loaded, table, diskTable, tab, written, mine, dropped>>
      /\ order' = [i \in DOMAIN kept |-> Catalog!Id(kept[i])] /\ diskOrder' = order'
      /\ wish' = tasks /\ unplaced' = DOMAIN tab \ known
  BY DEF Catalog!SaveOrder, Catalog!sources, Catalog!catalog
<1>3. kept \in Seq(Tasks) /\ Catalog!IsInjective(kept)
  BY <1>1, WithinType, WithinInjective
<1>4. Catalog!Within(kept, Tasks \ unplaced') = Catalog!Within(tasks, known \cap (Tasks \ unplaced'))
  BY <1>1, WithinTwice
<1>5. Catalog!Within(tasks, known \cap (Tasks \ unplaced')) = Catalog!Within(tasks, Tasks \ unplaced')
  <2> DEFINE A == known \cap (Tasks \ unplaced')
             B == Tasks \ unplaced'
  <2>1. Catalog!Range(tasks) \cap A = Catalog!Range(tasks) \cap B
    BY <1>1, <1>2
  <2> HIDE DEF A, B
  <2>2. Catalog!Within(tasks, A) = Catalog!Within(tasks, B)
    BY <1>1, <2>1, WithinAgrees
  <2> QED BY <2>2 DEF A, B
<1> HIDE DEF kept, known
<1>6. /\ OrderFits(order') /\ Named(order') = kept
      /\ \A k \in Catalog!Range(order') : k[1] = 0 /\ k \notin Catalog!Paths
  BY <1>2, <1>3, NamesInOrder
<1>7. wish' \in Seq(Tasks) /\ unplaced' \subseteq Tasks
  BY <1>0, <1>1, <1>2
<1> QED BY <1>2, <1>4, <1>5, <1>6, <1>7, NewOrderKeeps

\* A layout leaves the names of the registered tasks in their order.
LEMMA SaveLayoutKeeps ==
    ASSUME CatalogIInv, Catalog!SaveLayout
    PROVE  CatalogIInv'
<1> DEFINE known == {Catalog!Id(t) : t \in Catalog!Registered(registry)}
           left == Tasks \ unplaced'
<1>0. /\ OrderFits(order) /\ wish \in Seq(Tasks) /\ unplaced \subseteq Tasks /\ Placed(order)
  BY DEF CatalogIInv, CatalogTypes
<1>1. /\ UNCHANGED <<files, broken, registry, loaded, table, diskTable, tab, written, mine, dropped, wish>>
      /\ order' = Catalog!Within(order, known) /\ diskOrder' = order'
      /\ unplaced' = unplaced \cup {t \in Tasks : Catalog!Id(t) \notin Catalog!Range(order')}
  BY DEF Catalog!SaveLayout, Catalog!sources, Catalog!catalog
<1>2. order' \in Seq(Catalog!Keys) /\ Catalog!Range(order') = Catalog!Range(order) \cap known
  BY <1>0, <1>1, WithinType, WithinRange DEF OrderFits
<1>3. \A k \in known : k[1] = 0 /\ k \notin Catalog!Paths /\ k = Catalog!Id(k[2]) /\ k[2] \in Tasks
  BY KeysAre DEF Catalog!Registered
<1> HIDE DEF known
<1>4. OrderFits(order')
  <2>1. Catalog!IsInjective(order)
    <3>1. order \in Seq(Catalog!Keys) /\ Catalog!IsInjective(Named(order))
      BY <1>0 DEF OrderFits
    <3>2. DOMAIN Named(order) = DOMAIN order /\ \A i \in DOMAIN order : Named(order)[i] = TaskOf(order[i])
      BY DEF Named
    <3> QED BY <3>1, <3>2 DEF Catalog!IsInjective
  <2>2. Catalog!IsInjective(order')
    BY <1>0, <1>1, <2>1, WithinInjective DEF OrderFits
  <2>3. \A i \in DOMAIN order' : order'[i] \in known
    BY <1>2 DEF Catalog!Range
  <2>4. /\ DOMAIN Named(order') = DOMAIN order'
        /\ \A i \in DOMAIN order' : Named(order')[i] = order'[i][2]
    BY DEF Named, TaskOf
  <2>5. \A i, j \in DOMAIN order' : order'[i][2] = order'[j][2] => order'[i] = order'[j]
    BY <1>3, <2>3
  <2>6. Catalog!IsInjective(Named(order'))
    BY <2>2, <2>4, <2>5 DEF Catalog!IsInjective
  <2> QED BY <1>2, <2>6 DEF OrderFits
<1>5. ASSUME NEW k \in Catalog!Range(order), k[2] \in left PROVE k \in known
  <2>1. k \in Catalog!Keys /\ k[2] \in Tasks
    BY <1>0, KeysAre, LenProperties DEF OrderFits, Catalog!Range
  <2>2. Catalog!Id(k[2]) \in Catalog!Range(order) \cap known
    BY <1>1, <1>2, <1>5, <2>1
  <2>3. PICK i \in DOMAIN order, j \in DOMAIN order : order[i] = k /\ order[j] = Catalog!Id(k[2])
    BY <2>2 DEF Catalog!Range
  <2>4. i = j
    BY <1>0, <2>1, <2>3, KeysAre DEF OrderFits, Named, TaskOf, Catalog!IsInjective
  <2> QED BY <2>2, <2>3, <2>4
<1>6. Catalog!Within(Named(order'), left) = Catalog!Within(Named(order), left)
  <2> HIDE DEF left
  <2>1. order \in Seq(Catalog!Keys)
    BY <1>0 DEF OrderFits
  <2> QED BY <1>1, <1>5, <2>1, WithinNamed
<1>7. Catalog!Within(Named(order), left) = Catalog!Within(wish', left)
  BY <1>0, <1>1, StaysPlaced
<1>8. wish' \in Seq(Tasks) /\ unplaced' \subseteq Tasks
  BY <1>0, <1>1
<1>9. \A k \in Catalog!Range(order') : k[1] = 0 /\ k \notin Catalog!Paths
  BY <1>2, <1>3
<1> QED BY <1>1, <1>4, <1>6, <1>7, <1>8, <1>9, NewOrderKeeps

\* What a load registers: the files it imports, by their tasks.
LEMMA RegisterIs ==
    ASSUME files \subseteq Catalog!Paths
    PROVE  /\ Catalog!Register \in [Tasks -> {0} \cup Dirs]
           /\ Catalog!Registered(Catalog!Register) = {t \in Tasks : \E f \in Catalog!Imported : f[2] = t}
           /\ ~Catalog!Aborts /\ ~Catalog!Errors => Catalog!Imported = files
<1>1. /\ Catalog!Imported \subseteq files
      /\ ~Catalog!Aborts /\ ~Catalog!Errors => Catalog!Imported = files
  BY DEF Catalog!Imported, Catalog!Reached, Catalog!Builtin, Catalog!Accepted, Catalog!Errors
<1>2. \A f \in Catalog!Imported : f[1] \in Dirs /\ f[1] # 0
  BY <1>1, CatalogAssumption DEF Catalog!Paths
<1>3. ASSUME NEW t \in Tasks
      PROVE  Catalog!Register[t] \in {0} \cup Dirs
             /\ (Catalog!Register[t] # 0 <=> \E f \in Catalog!Imported : f[2] = t)
  <2> DEFINE one == CHOOSE f \in Catalog!Imported : f[2] = t
  <2>1. Catalog!Register[t] = IF \E f \in Catalog!Imported : f[2] = t THEN one[1] ELSE 0
    BY DEF Catalog!Register
  <2>2. (\E f \in Catalog!Imported : f[2] = t) => one \in Catalog!Imported
    OBVIOUS
  <2> HIDE DEF one
  <2> QED BY <1>2, <2>1, <2>2, SMTT(30)
<1>4. Catalog!Register = [t \in Tasks |-> Catalog!Register[t]]
  BY DEF Catalog!Register
<1>5. Catalog!Register \in [Tasks -> {0} \cup Dirs]
  BY <1>3, <1>4
<1> QED BY <1>1, <1>3, <1>5 DEF Catalog!Registered

\* The entries of what was stored and of what is registered: defaults change nothing.
EntriesFit(entries, reg) ==
    /\ entries \in Tables /\ DOMAIN diskTable \subseteq DOMAIN entries
    /\ \A t \in Tasks : AlikeFor(diskTable, entries, t)
    /\ \A t \in Catalog!Registered(reg) : Catalog!Id(t) \in DOMAIN entries
    /\ OwnIsAlone(entries)

\* The entries of a load are so.
LEMMA EntriesAre ==
    ASSUME CatalogTypes, OwnIsAlone(diskTable), NEW reg, NEW entries,
           entries = Catalog!WithDefaults(diskTable, reg)
    PROVE  EntriesFit(entries, reg)
<1> DEFINE ids == {Catalog!Id(t) : t \in Catalog!Registered(reg)}
           zero == [k \in ids |-> 0]
<1>1. entries = [k \in DOMAIN diskTable \cup ids |-> IF k \in DOMAIN diskTable THEN diskTable[k] ELSE zero[k]]
  BY DEF Catalog!WithDefaults, Catalog!Over
<1>2. \A k \in ids : zero[k] = 0 /\ k \in Catalog!Keys \ Catalog!Paths
  BY KeysAre DEF Catalog!Registered
<1>3. \A t \in Catalog!Registered(reg) : Catalog!Id(t) \in ids
  OBVIOUS
<1> HIDE DEF ids, zero
<1>4. /\ DOMAIN entries = DOMAIN diskTable \cup ids
      /\ \A k \in DOMAIN diskTable : entries[k] = diskTable[k]
      /\ \A k \in ids : k \notin DOMAIN diskTable => entries[k] = 0
      /\ entries = [k \in DOMAIN entries |-> entries[k]]
  BY <1>1, <1>2
<1>5. entries \in Tables
  <2>1. diskTable \in Tables /\ 0 \in 0 .. Writes
    BY CatalogAssumption DEF CatalogTypes
  <2> QED BY <1>2, <1>4, <2>1, TableIs
<1>6. ASSUME NEW t \in Tasks PROVE AlikeFor(diskTable, entries, t)
  <2>1. Catalog!Candidates(entries, t) = Catalog!Candidates(diskTable, t)
    BY <1>2, <1>4 DEF Catalog!Candidates
  <2>2. \A k \in Catalog!Candidates(diskTable, t) : entries[k] = diskTable[k]
    BY <1>4 DEF Catalog!Candidates
  <2> QED BY <1>4, <2>1, <2>2 DEF AlikeFor
<1>7. OwnIsAlone(entries)
  BY <1>6 DEF OwnIsAlone, AlikeFor
<1> QED BY <1>3, <1>4, <1>5, <1>6, <1>7 DEF EntriesFit

\* A place that was held is still.
LEMMA EntriesHold ==
    ASSUME CatalogTypes, NEW reg, NEW entries, EntriesFit(entries, reg), PlaceIsHeld(diskOrder, diskTable)
    PROVE  PlaceIsHeld(diskOrder, entries)
<1>1. \A k \in Catalog!Paths : k[2] \in Tasks
  BY DEF Catalog!Paths
<1> QED BY <1>1 DEF EntriesFit, AlikeFor, PlaceIsHeld

\* Reconciled, a registered task has no single path left, and every task what it had.
IsReconciled(after, entries, reg) ==
    /\ after \in Tables /\ DOMAIN after = DOMAIN entries \ Catalog!Adopted(entries, reg)
    /\ \A t \in Tasks : Catalog!Stored(after, t) = Catalog!Stored(entries, t)
    /\ \A t \in Catalog!Registered(reg) :
           Catalog!Id(t) \in DOMAIN after /\ \A k : Catalog!Candidates(after, t) # {k}
    /\ \A t \in Tasks \ Catalog!Registered(reg) :
           Catalog!Candidates(after, t) = Catalog!Candidates(entries, t)
    /\ OwnIsAlone(after)

\* That is so for whatever the load has registered.
LEMMA Reconciled ==
    ASSUME NEW reg, NEW entries, EntriesFit(entries, reg), NEW after,
           after = Catalog!Reconcile(entries, reg)
    PROVE  IsReconciled(after, entries, reg)
<1> DEFINE moved == Catalog!Adopted(entries, reg)
           R == Catalog!Registered(reg)
<1>1. /\ moved = {k \in DOMAIN entries \cap Catalog!Paths :
                      k[2] \in R /\ Catalog!Candidates(entries, k[2]) = {k}}
      /\ R \subseteq Tasks
  BY DEF Catalog!Adopted, Catalog!Registered
<1>2. after = [k \in DOMAIN entries \ moved |->
                  IF k[1] = 0 /\ \E m \in moved : m[2] = k[2]
                  THEN entries[CHOOSE m \in moved : m[2] = k[2]] ELSE entries[k]]
  BY DEF Catalog!Reconcile
<1>3. DOMAIN entries \subseteq Catalog!Keys /\ \A k \in DOMAIN entries : entries[k] \in 0 .. Writes
  BY TableIs DEF EntriesFit
<1>4. \A t \in R : Catalog!Id(t) \in DOMAIN entries
  BY DEF EntriesFit
<1> HIDE DEF R, moved
<1>5. DOMAIN after = DOMAIN entries \ moved /\ after = [k \in DOMAIN after |-> after[k]]
  BY <1>2
<1>6. \A m, n \in moved : m[2] = n[2] => m = n
  BY <1>1
\* What a key has afterwards.
<1>7. ASSUME NEW k \in DOMAIN after
      PROVE  /\ \A m \in moved : k[1] = 0 /\ m[2] = k[2] => after[k] = entries[m]
             /\ (k[1] # 0 \/ \A m \in moved : m[2] # k[2]) => after[k] = entries[k]
             /\ after[k] \in 0 .. Writes
  <2> DEFINE one == CHOOSE m \in moved : m[2] = k[2]
  <2>1. after[k] = IF k[1] = 0 /\ \E m \in moved : m[2] = k[2] THEN entries[one] ELSE entries[k]
    BY <1>2, <1>5
  <2>2. \A m \in moved : m[2] = k[2] => one = m
    BY <1>6
  <2>3. \A m \in moved : m \in DOMAIN entries
    BY <1>1
  <2> HIDE DEF one
  <2> QED BY <1>3, <1>5, <2>1, <2>2, <2>3
<1>8. after \in Tables
  BY <1>3, <1>5, <1>7, TableIs
\* A registered task with one path: it goes to the name.
<1>9. ASSUME NEW t \in R, NEW m, Catalog!Candidates(entries, t) = {m}
      PROVE  /\ Catalog!Candidates(after, t) = {}
             /\ Catalog!Id(t) \in DOMAIN after /\ after[Catalog!Id(t)] = entries[m]
  <2>1. m \in moved /\ m[2] = t
    BY <1>1, <1>9 DEF Catalog!Candidates
  <2>2. Catalog!Candidates(after, t) = {}
    BY <1>5, <1>9, <2>1 DEF Catalog!Candidates
  <2>3. /\ Catalog!Id(t) \notin moved /\ Catalog!Id(t)[1] = 0 /\ Catalog!Id(t)[2] = t
        /\ Catalog!Id(t) \in DOMAIN after
    BY <1>1, <1>4, <1>5, KeysAre
  <2> QED BY <1>7, <2>1, <2>2, <2>3
\* Any other keeps what it has.
<1>10. ASSUME NEW t \in Tasks, t \notin R \/ \A k : Catalog!Candidates(entries, t) # {k}
       PROVE  AlikeFor(entries, after, t)
  <2>1. \A m \in moved : m[2] # t
    BY <1>1, <1>10
  <2>2. Catalog!Candidates(after, t) = Catalog!Candidates(entries, t)
    BY <1>5, <2>1 DEF Catalog!Candidates
  <2>3. \A k \in Catalog!Candidates(entries, t) : after[k] = entries[k]
    <3>1. \A k \in Catalog!Candidates(entries, t) : k \in DOMAIN after /\ k[1] # 0
      BY <2>2, KeysAre DEF Catalog!Candidates
    <3> QED BY <1>7, <3>1
  <2>4. /\ Catalog!Id(t) \in DOMAIN after <=> Catalog!Id(t) \in DOMAIN entries
        /\ Catalog!Id(t) \in DOMAIN after => after[Catalog!Id(t)] = entries[Catalog!Id(t)]
    <3>1. Catalog!Id(t)[2] = t
      BY KeysAre
    <3> QED BY <1>5, <1>7, <2>1, <3>1
  <2> QED BY <2>2, <2>3, <2>4 DEF AlikeFor
<1>11. ASSUME NEW t \in Tasks
       PROVE  /\ Catalog!Stored(after, t) = Catalog!Stored(entries, t)
              /\ t \in R => Catalog!Id(t) \in DOMAIN after /\ \A k : Catalog!Candidates(after, t) # {k}
              /\ t \notin R => Catalog!Candidates(after, t) = Catalog!Candidates(entries, t)
              /\ Catalog!Id(t) \in DOMAIN after /\ after[Catalog!Id(t)] # 0
                     => Catalog!Candidates(after, t) = {}
  <2>1. CASE t \in R /\ \E m : Catalog!Candidates(entries, t) = {m}
    <3>1. PICK m : Catalog!Candidates(entries, t) = {m}
      BY <2>1
    <3>2. /\ Catalog!Candidates(after, t) = {}
          /\ Catalog!Id(t) \in DOMAIN after /\ after[Catalog!Id(t)] = entries[m]
      BY <1>9, <2>1, <3>1
    <3>3. \A k : Catalog!Candidates(after, t) # {k}
      BY <3>2
    <3>4. Catalog!Stored(entries, t) = entries[m]
      BY <3>1, StoredIs
    <3>5. Catalog!Stored(after, t) = after[Catalog!Id(t)]
      BY <3>2, <3>3, StoredIs
    <3> QED BY <2>1, <3>2, <3>3, <3>4, <3>5
  <2>2. CASE t \notin R \/ \A k : Catalog!Candidates(entries, t) # {k}
    <3>1. AlikeFor(entries, after, t)
      BY <1>10, <2>2
    <3>2. Catalog!Stored(after, t) = Catalog!Stored(entries, t)
      BY <3>1, StoredAlike
    <3>3. t \in R => Catalog!Id(t) \in DOMAIN after
      <4>1. Catalog!Id(t) \notin moved
        BY <1>1, KeysAre
      <4> QED BY <1>4, <1>5, <4>1
    <3>4. Catalog!Id(t) \in DOMAIN after /\ after[Catalog!Id(t)] # 0 => Catalog!Candidates(after, t) = {}
      <4>1. OwnIsAlone(entries)
        BY DEF EntriesFit
      <4>2. Catalog!Id(t) \in DOMAIN after => /\ Catalog!Id(t) \in DOMAIN entries
                                               /\ after[Catalog!Id(t)] = entries[Catalog!Id(t)]
        <5>1. Catalog!Id(t)[2] = t /\ \A m \in moved : m[2] # t
          BY <1>1, <2>2, KeysAre
        <5> QED BY <1>5, <1>7, <5>1
      <4> QED BY <3>1, <4>1, <4>2 DEF OwnIsAlone, AlikeFor
    <3> QED BY <2>2, <3>1, <3>2, <3>3, <3>4 DEF AlikeFor
  <2> QED BY <2>1, <2>2
<1>12. \A t \in R : t \in Tasks
  BY <1>1
<1> QED BY <1>5, <1>8, <1>11, <1>12 DEF IsReconciled, OwnIsAlone, R, moved

\* The order of a load: what was moved goes under its name.
LEMMA Retargeted ==
    ASSUME NEW ord, OrderFits(ord), NEW moved, NEW after, after = Catalog!Retarget(ord, moved)
    PROVE  /\ OrderFits(after) /\ Named(after) = Named(ord)
           /\ \A k \in Catalog!Range(after) : k \in Catalog!Paths =>
                  k \in Catalog!Range(ord) \ moved
<1>1. /\ ord \in Seq(Catalog!Keys) /\ Len(ord) \in Nat /\ DOMAIN ord = 1 .. Len(ord)
      /\ \A i \in 1 .. Len(ord) : ord[i] \in Catalog!Keys
  BY LenProperties DEF OrderFits
<1>2. after = [i \in 1 .. Len(ord) |-> IF ord[i] \in moved THEN Catalog!Id(ord[i][2]) ELSE ord[i]]
  BY <1>1 DEF Catalog!Retarget
<1>3. \A i \in 1 .. Len(ord) : /\ after[i] \in Catalog!Keys /\ after[i][2] = ord[i][2]
                               /\ after[i] \in Catalog!Paths => after[i] = ord[i] /\ ord[i] \notin moved
  BY <1>1, <1>2, KeysAre
<1>4. after \in [1 .. Len(ord) -> Catalog!Keys]
  BY <1>2, <1>3
<1>5. after \in Seq(Catalog!Keys) /\ DOMAIN after = DOMAIN ord
  BY <1>1, <1>4 DEF Seq
<1>6. Named(after) = Named(ord)
  BY <1>1, <1>3, <1>5 DEF Named, TaskOf
<1>7. \A k \in Catalog!Range(after) : k \in Catalog!Paths => k \in Catalog!Range(ord) \ moved
  BY <1>1, <1>3, <1>5 DEF Catalog!Range
<1> QED BY <1>5, <1>6, <1>7 DEF OrderFits

\* The files are loaded again.
LEMMA ReloadKeeps ==
    ASSUME CatalogIInv, Catalog!Reload
    PROVE  CatalogIInv'
<1> DEFINE Reg == Catalog!Register
           R == Catalog!Registered(Reg)
<1>0. /\ CatalogTypes /\ OwnIsAlone(diskTable) /\ PlaceIsHeld(diskOrder, diskTable)
      /\ Kept(diskTable) /\ Placed(diskOrder)
      /\ files \subseteq Catalog!Paths /\ OrderFits(diskOrder) /\ wish \in Seq(Tasks)
      /\ dropped \subseteq Tasks /\ unplaced \subseteq Tasks /\ diskTable \in Tables
  BY DEF CatalogIInv, CatalogTypes
<1>1. PICK entries : entries = Catalog!WithDefaults(diskTable, Reg)
  OBVIOUS
<1>2. PICK moved : moved = Catalog!Adopted(entries, Reg)
  OBVIOUS
<1>3. PICK gone : gone = {k[2] : k \in DOMAIN entries \ DOMAIN table'} \ {f[2] : f \in files}
  OBVIOUS
<1>4. /\ UNCHANGED <<files, broken, tab, written, mine, wish>> /\ registry' = Reg
      /\ \/ /\ loaded' = "aborted" /\ table' = entries /\ order' = diskOrder
            /\ UNCHANGED <<diskTable, diskOrder, dropped, unplaced>>
         \/ /\ ~Catalog!Aborts /\ loaded' = (IF Catalog!Errors THEN "guarded" ELSE "clean")
            /\ table' = Catalog!Prune(Catalog!Reconcile(entries, Reg), Reg)
            /\ order' = Catalog!Retarget(diskOrder, moved)
            /\ \/ Catalog!Errors /\ UNCHANGED <<diskTable, diskOrder>>
               \/ ~Catalog!Errors /\ diskTable' = table' /\ diskOrder' = order'
            /\ dropped' = dropped \cup gone
            /\ unplaced' = unplaced \cup Catalog!Stranded(order', table')
  BY <1>1, <1>2, <1>3 DEF Catalog!Reload, Catalog!sources
<1>5. Reg \in [Tasks -> {0} \cup Dirs] /\ R \subseteq Tasks
  BY <1>0, RegisterIs DEF Catalog!Registered
<1>6. EntriesFit(entries, Reg)
  BY <1>0, <1>1, EntriesAre
<1>7. PlaceIsHeld(diskOrder, entries)
  BY <1>0, <1>6, EntriesHold
<1>8. \A t \in Tasks : Catalog!Stored(entries, t) = Catalog!Stored(diskTable, t)
  BY <1>6, StoredAlike DEF EntriesFit
<1>9. \A t \in Tasks \ dropped : Catalog!Stored(entries, t) = mine[t]
  BY <1>0, <1>8 DEF Kept
<1> HIDE DEF Reg
<1>10. CASE /\ loaded' = "aborted" /\ table' = entries /\ order' = diskOrder
            /\ UNCHANGED <<diskTable, diskOrder, dropped, unplaced>>
  <2>1. CatalogTypes'
    BY <1>0, <1>4, <1>5, <1>6, <1>10 DEF CatalogTypes, OrderFits, EntriesFit
  <2>2. OwnIsAlone(table)' /\ OwnIsAlone(diskTable)'
    BY <1>0, <1>6, <1>10 DEF EntriesFit, OwnIsAlone
  <2>3. PlaceIsHeld(order, table)' /\ PlaceIsHeld(diskOrder, diskTable)'
    BY <1>0, <1>7, <1>10 DEF PlaceIsHeld
  <2>4. Kept(table)' /\ Kept(diskTable)'
    BY <1>0, <1>4, <1>9, <1>10 DEF Kept
  <2>5. Placed(order)' /\ Placed(diskOrder)' /\ Renamed'
    BY <1>0, <1>4, <1>10 DEF Placed, Catalog!Places, Renamed
  <2> QED BY <2>1, <2>2, <2>3, <2>4, <2>5 DEF CatalogIInv
<1>11. CASE /\ ~Catalog!Aborts /\ loaded' = (IF Catalog!Errors THEN "guarded" ELSE "clean")
            /\ table' = Catalog!Prune(Catalog!Reconcile(entries, Reg), Reg)
            /\ order' = Catalog!Retarget(diskOrder, moved)
            /\ \/ Catalog!Errors /\ UNCHANGED <<diskTable, diskOrder>>
               \/ ~Catalog!Errors /\ diskTable' = table' /\ diskOrder' = order'
            /\ dropped' = dropped \cup gone
            /\ unplaced' = unplaced \cup Catalog!Stranded(order', table')
  <2>1. PICK whole : whole = Catalog!Reconcile(entries, Reg)
    OBVIOUS
  <2>2. /\ whole \in Tables /\ DOMAIN whole = DOMAIN entries \ moved
        /\ \A t \in Tasks : Catalog!Stored(whole, t) = Catalog!Stored(entries, t)
        /\ \A t \in R : Catalog!Id(t) \in DOMAIN whole /\ \A k : Catalog!Candidates(whole, t) # {k}
        /\ \A t \in Tasks \ R : Catalog!Candidates(whole, t) = Catalog!Candidates(entries, t)
        /\ OwnIsAlone(whole)
    <3>1. IsReconciled(whole, entries, Reg)
      BY <1>6, <2>1, Reconciled
    <3> QED BY <1>2, <3>1 DEF IsReconciled
  <2>3. /\ OrderFits(order') /\ Named(order') = Named(diskOrder)
        /\ \A k \in Catalog!Range(order') : k \in Catalog!Paths => k \in Catalog!Range(diskOrder) \ moved
    BY <1>0, <1>11, Retargeted
  \* What is there after the prune, or without it.
  <2>4. /\ table' \in Tables /\ OwnIsAlone(table')
        /\ \A t \in Tasks \ dropped' : Catalog!Stored(table', t) = mine[t]
        /\ \A t \in R : \A k : Catalog!Candidates(table', t) # {k}
        /\ \A t \in Tasks \ R : Catalog!Candidates(table', t) \in {{}, Catalog!Candidates(entries, t)}
        /\ (\A t \in Tasks : Catalog!Candidates(table', t) = Catalog!Candidates(whole, t))
               \/ DOMAIN table' \cap Catalog!Paths = {}
    <3>1. CASE Catalog!Errors \/ R = {}
      <4>1. table' = whole
        BY <1>11, <2>1, <3>1 DEF Catalog!Prune
      <4> QED BY <1>9, <1>11, <2>2, <4>1
    <3>2. CASE ~Catalog!Errors /\ R # {}
      <4> DEFINE setting == [t \in R |-> whole[Catalog!Id(t)]]
      <4>1. table' = [k \in {Catalog!Id(t) : t \in R} |-> whole[k]]
        BY <1>11, <2>1, <3>2 DEF Catalog!Prune
      <4>2. /\ DOMAIN table' = {Catalog!Id(t) : t \in R} /\ table' = [k \in DOMAIN table' |-> table'[k]]
            /\ \A k \in DOMAIN table' : table'[k] = whole[k] /\ k \in DOMAIN whole
        BY <2>2, <4>1
      <4>3. table' \in Tables
        BY <2>2, <4>2, TableIs
      <4>4. ByName(table', R, setting) /\ R \in SUBSET Tasks
        BY <1>5, <4>2 DEF ByName
      <4>5. \A t \in R : setting[t] = whole[Catalog!Id(t)]
        OBVIOUS
      <4> HIDE DEF setting
      <4>6. /\ \A t \in Tasks : Catalog!Candidates(table', t) = {}
            /\ \A t \in Tasks : Catalog!Stored(table', t) = IF t \in R THEN setting[t] ELSE 0
            /\ OwnIsAlone(table') /\ DOMAIN table' \cap Catalog!Paths = {}
        BY <4>4, NamesAlone
      <4>7. ASSUME NEW t \in Tasks \ dropped' PROVE Catalog!Stored(table', t) = mine[t]
        <5>1. t \notin dropped /\ t \notin gone /\ Catalog!Stored(whole, t) = mine[t]
          BY <1>9, <1>11, <2>2, <4>7
        <5>2. CASE t \in R
          <6>1. Catalog!Stored(whole, t) = whole[Catalog!Id(t)]
            BY <2>2, <5>2, StoredIs
          <6> QED BY <4>5, <4>6, <5>1, <5>2, <6>1
        <5>3. CASE t \notin R
          <6>1. \A f \in files : f[2] # t
            BY <1>0, <1>11, <3>2, <5>3, RegisterIs DEF Reg
          <6>2. \A k \in DOMAIN entries : k \notin DOMAIN table' => k[2] # t
            BY <1>3, <5>1, <6>1
          <6>3. \A k \in DOMAIN table' : k[2] # t
            BY <1>5, <4>2, <5>3, KeysAre
          <6>4. \A k \in DOMAIN entries : k[2] # t
            BY <6>2, <6>3
          <6>5. Catalog!Candidates(entries, t) = {} /\ Catalog!Id(t) \notin DOMAIN entries
            BY <6>4, KeysAre DEF Catalog!Candidates
          <6>6. \A k : Catalog!Candidates(entries, t) # {k}
            BY <6>5
          <6>7. Catalog!Stored(entries, t) = 0
            BY <6>5, <6>6, StoredIs
          <6> QED BY <1>9, <4>6, <5>1, <5>3, <6>7
        <5> QED BY <5>2, <5>3
      <4>8. \A t \in R : \A k : Catalog!Candidates(table', t) # {k}
        BY <1>5, <4>6
      <4> QED BY <4>3, <4>6, <4>7, <4>8
    <3> QED BY <3>1, <3>2
  \* A path left in the order is that of an entry nobody has registered, or stranded.
  <2>5. /\ \A k \in Catalog!Range(order') \cap Catalog!Paths :
               k[2] \in unplaced' \/ Catalog!Candidates(table', k[2]) = {k}
        /\ Catalog!Stranded(order', table') \subseteq Tasks
    <3>1. \A k \in Catalog!Paths : k[2] \in Tasks
      BY DEF Catalog!Paths
    <3>2. Catalog!Stranded(order', table') \subseteq Tasks
      BY <3>1 DEF Catalog!Stranded
    <3>3. ASSUME NEW k \in Catalog!Range(order') \cap Catalog!Paths, k[2] \notin unplaced'
          PROVE  Catalog!Candidates(table', k[2]) = {k}
      <4>1. k \in DOMAIN table'
        BY <1>11, <3>3 DEF Catalog!Stranded
      <4>2. \A t \in Tasks : Catalog!Candidates(table', t) = Catalog!Candidates(whole, t)
        BY <2>4, <4>1
      <4>3. k \in Catalog!Range(diskOrder) \ moved /\ k[2] \in Tasks
        BY <2>3, <3>1
      <4>4. Catalog!Candidates(entries, k[2]) = {k}
        BY <1>7, <1>11, <3>3, <4>3 DEF PlaceIsHeld
      <4>5. k[2] \notin R
        <5>1. k \in DOMAIN entries
          BY <4>4 DEF Catalog!Candidates
        <5> QED BY <1>2, <4>3, <4>4, <5>1 DEF Catalog!Adopted
      <4> QED BY <2>2, <4>2, <4>3, <4>4, <4>5
    <3> QED BY <3>2, <3>3
  <2>6. gone \subseteq Tasks
    <3>1. \A k \in DOMAIN entries : k[2] \in Tasks
      BY <1>6, TableIs, KeysAre DEF EntriesFit
    <3> QED BY <1>3, <3>1
  <2>7. /\ Catalog!Within(Named(diskOrder), Tasks \ unplaced') = Catalog!Within(wish', Tasks \ unplaced')
        /\ Catalog!Within(Named(order'), Tasks \ unplaced') = Catalog!Within(wish', Tasks \ unplaced')
    <3>1. wish' = wish /\ unplaced \subseteq unplaced'
      BY <1>4, <1>11
    <3> QED BY <1>0, <2>3, <3>1, StaysPlaced
  <2>8. CatalogTypes'
    BY <1>0, <1>4, <1>5, <1>11, <2>3, <2>4, <2>5, <2>6 DEF CatalogTypes, OrderFits
  <2>9. OwnIsAlone(table)' /\ OwnIsAlone(diskTable)'
    BY <1>0, <1>11, <2>4 DEF OwnIsAlone
  <2>10. PlaceIsHeld(order, table)' /\ PlaceIsHeld(diskOrder, diskTable)'
    BY <1>0, <1>11, <2>5 DEF PlaceIsHeld
  <2>11. Kept(table)' /\ Kept(diskTable)'
    <3>1. \A t \in Tasks \ dropped' : Catalog!Stored(diskTable, t) = mine[t]
      BY <1>0, <1>11 DEF Kept
    <3> QED BY <1>4, <1>11, <2>4, <3>1 DEF Kept
  <2>12. Placed(order)' /\ Placed(diskOrder)'
    BY <1>11, <2>7 DEF Placed, Catalog!Places, Named, TaskOf
  <2>13. Renamed'
    <3>1. ASSUME NEW k \in Catalog!Range(order'), k[2] \in R, k[2] \notin unplaced' PROVE k[1] = 0
      <4>1. k \in Catalog!Keys
        BY <2>3, LenProperties DEF OrderFits, Catalog!Range
      <4>2. k \notin Catalog!Paths
        BY <2>4, <2>5, <3>1
      <4> QED BY <4>1, <4>2, KeysAre
    <3> QED BY <1>4, <3>1 DEF Renamed
  <2> QED BY <2>8, <2>9, <2>10, <2>11, <2>12, <2>13 DEF CatalogIInv
<1> QED BY <1>4, <1>10, <1>11

\* What an older version has left.
LEMMA CatalogInit == Catalog!Init => CatalogIInv
<1> SUFFICES ASSUME Catalog!Init PROVE CatalogIInv
  OBVIOUS
<1>1. PICK old \in SUBSET Catalog!Paths :
          /\ diskTable = [k \in old |-> 1]
          /\ mine = [t \in Tasks |-> IF \E k \in old : k[2] = t THEN 1 ELSE 0]
          /\ \E placed \in SUBSET {k \in old : k[2] \notin Catalog!Ambiguous(diskTable)} :
                 diskOrder \in Catalog!Orders(placed)
  BY DEF Catalog!Init
<1>2. PICK placed \in SUBSET {k \in old : k[2] \notin Catalog!Ambiguous(diskTable)} :
          diskOrder \in Catalog!Orders(placed)
  BY <1>1
<1>3. /\ files = SourceFiles /\ broken = {} /\ registry = [t \in Tasks |-> 0] /\ loaded = "never"
      /\ table = diskTable /\ order = diskOrder /\ tab = <<>> /\ written = 1
      /\ dropped = Catalog!Ambiguous(diskTable) /\ unplaced = {}
      /\ wish = [i \in DOMAIN diskOrder |-> diskOrder[i][2]]
  BY DEF Catalog!Init
<1>4. DOMAIN diskTable = old /\ \A k \in old : diskTable[k] = 1 /\ k \in Catalog!Paths /\ k[2] \in Tasks
  BY <1>1, KeysAre
<1>5. diskTable \in Tables
  <2>1. 1 \in 0 .. Writes
    BY CatalogAssumption
  <2> QED BY <1>1, <1>4, <2>1, TableIs, KeysAre
<1>6. \A t \in Tasks : Catalog!Id(t) \notin old
  BY <1>4, KeysAre
<1>7. \A t \in Tasks : Catalog!Candidates(diskTable, t) = {k \in old : k[2] = t}
  BY <1>4 DEF Catalog!Candidates
<1>8. ASSUME NEW t \in Tasks, t \notin Catalog!Ambiguous(diskTable)
      PROVE  \/ Catalog!Candidates(diskTable, t) = {}
             \/ \E k : Catalog!Candidates(diskTable, t) = {k}
  <2>1. ~(Cardinality(Catalog!Candidates(diskTable, t)) > 1)
    BY <1>8, HowMany DEF Catalog!Ambiguous
  <2>2. \/ Cardinality(Catalog!Candidates(diskTable, t)) = 0
        \/ Cardinality(Catalog!Candidates(diskTable, t)) = 1
    BY <2>1, CandidatesAre
  <2> QED BY <2>2, CandidatesAre
<1>9. \A k \in placed : /\ k \in Catalog!Keys /\ k[2] \in Tasks
                        /\ Catalog!Candidates(diskTable, k[2]) = {k}
  <2> SUFFICES ASSUME NEW k \in placed
               PROVE  /\ k \in Catalog!Keys /\ k[2] \in Tasks
                      /\ Catalog!Candidates(diskTable, k[2]) = {k}
    OBVIOUS
  <2>1. k \in old /\ k[2] \notin Catalog!Ambiguous(diskTable) /\ k[2] \in Tasks /\ k \in Catalog!Keys
    BY <1>4, KeysAre
  <2>2. k \in Catalog!Candidates(diskTable, k[2])
    BY <1>7, <2>1
  <2> QED BY <1>8, <2>1, <2>2
<1>10. /\ diskOrder \in Seq(placed) /\ Catalog!IsInjective(diskOrder)
  <2>1. /\ diskOrder \in [1 .. Catalog!Cardinality(placed) -> placed]
        /\ Catalog!IsInjective(diskOrder)
    BY <1>2 DEF Catalog!Orders
  <2>2. Catalog!Cardinality(placed) \in Nat
    <3>1. IsFiniteSet(Catalog!Paths)
      BY CatalogAssumption, FS_Product DEF Catalog!Paths
    <3>2. IsFiniteSet(placed)
      BY <3>1, FS_Subset
    <3> QED BY <3>2, FS_CardinalityType, HowMany
  <2> QED BY <2>1, <2>2 DEF Seq
<1>11. Catalog!Range(diskOrder) \subseteq placed
  BY <1>10, LenProperties DEF Catalog!Range
<1>12. OrderFits(diskOrder)
  <2>1. diskOrder \in Seq(Catalog!Keys)
    BY <1>9, <1>10, SeqMonotonic
  <2>2. DOMAIN Named(diskOrder) = DOMAIN diskOrder
        /\ \A i \in DOMAIN diskOrder : Named(diskOrder)[i] = diskOrder[i][2] /\ diskOrder[i] \in placed
    BY <1>11 DEF Named, TaskOf, Catalog!Range
  <2>3. \A i, j \in DOMAIN diskOrder : diskOrder[i][2] = diskOrder[j][2] => diskOrder[i] = diskOrder[j]
    BY <1>9, <2>2
  <2> QED BY <1>10, <2>1, <2>2, <2>3 DEF OrderFits, Catalog!IsInjective
<1>13. wish = Named(diskOrder) /\ wish \in Seq(Tasks)
  <2>1. wish = Named(diskOrder)
    BY <1>3 DEF Named, TaskOf
  <2> QED BY <1>12, <2>1, NamedIs DEF OrderFits
<1>14. CatalogTypes
  <2>1. DOMAIN tab = {}
    BY <1>3
  <2>2. mine \in [Tasks -> 0 .. Writes] /\ written \in 1 .. Writes
    BY <1>1, <1>3, CatalogAssumption
  <2>3. files \subseteq Catalog!Paths
    BY <1>3, CatalogAssumption DEF Catalog!Paths
  <2>4. dropped \subseteq Tasks
    BY <1>3 DEF Catalog!Ambiguous
  <2>5. registry \in [Tasks -> {0} \cup Dirs]
    BY <1>3
  <2> QED BY <1>3, <1>5, <1>12, <1>13, <2>1, <2>2, <2>3, <2>4, <2>5 DEF CatalogTypes
<1>15. OwnIsAlone(diskTable)
  BY <1>4, <1>6 DEF OwnIsAlone
<1>16. PlaceIsHeld(diskOrder, diskTable)
  BY <1>9, <1>11 DEF PlaceIsHeld
<1>17. Kept(diskTable)
  <2> SUFFICES ASSUME NEW t \in Tasks \ dropped PROVE Catalog!Stored(diskTable, t) = mine[t]
    BY DEF Kept
  <2>1. CASE Catalog!Candidates(diskTable, t) = {}
    <3>1. \A k : Catalog!Candidates(diskTable, t) # {k}
      BY <2>1
    <3>2. Catalog!Stored(diskTable, t) = 0
      BY <1>4, <1>6, <3>1, StoredIs
    <3>3. ~\E k \in old : k[2] = t
      BY <1>7, <2>1
    <3> QED BY <1>1, <3>2, <3>3
  <2>2. ASSUME NEW k, Catalog!Candidates(diskTable, t) = {k}
        PROVE  Catalog!Stored(diskTable, t) = mine[t]
    <3>1. Catalog!Stored(diskTable, t) = diskTable[k]
      BY <2>2, StoredIs
    <3>2. k \in old /\ k[2] = t
      BY <1>7, <2>2
    <3> QED BY <1>1, <1>4, <3>1, <3>2
  <2> QED BY <1>3, <1>8, <2>1, <2>2
<1>18. Placed(diskOrder)
  BY <1>13, PlacesAre DEF Placed
<1>19. Renamed
  BY <1>3 DEF Renamed
<1> QED BY <1>3, <1>14, <1>15, <1>16, <1>17, <1>18, <1>19 DEF CatalogIInv

\* Every step keeps the invariant of the catalog.
LEMMA CatalogKept == CatalogIInv /\ [Catalog!Next]_(Catalog!vars) => CatalogIInv'
<1> SUFFICES ASSUME CatalogIInv, [Catalog!Next]_(Catalog!vars) PROVE CatalogIInv'
  OBVIOUS
<1>1. ASSUME NEW f \in Catalog!Paths,
             \/ Catalog!AddFile(f) \/ Catalog!RemoveFile(f) \/ Catalog!Break(f) \/ Catalog!Mend(f)
             \/ \E d \in Dirs : Catalog!MoveFile(f, d)
      PROVE  CatalogIInv'
  BY <1>1, FilesMove
<1>2. CASE Catalog!Reload
  BY <1>2, ReloadKeeps
<1>3. CASE Catalog!Refresh
  BY <1>3, RefreshKeeps
<1>4. CASE Catalog!Import
  BY <1>4, ImportKeeps
<1>5. CASE Catalog!SaveLayout
  BY <1>5, SaveLayoutKeeps
<1>6. ASSUME NEW t \in Tasks, Catalog!SaveTask(t) PROVE CatalogIInv'
  BY <1>6, SaveListKeeps
<1>7. ASSUME NEW t \in Tasks, Catalog!Run(t) PROVE CatalogIInv'
  BY <1>7, RunKeeps
<1>8. ASSUME NEW tasks \in Catalog!Orders(DOMAIN tab), Catalog!SaveOrder(tasks) PROVE CatalogIInv'
  BY <1>8, SaveOrderKeeps
<1>9. CASE UNCHANGED Catalog!vars
  <2>1. UNCHANGED catalogRest /\ UNCHANGED <<files, broken>>
    BY <1>9 DEF Catalog!vars, Catalog!sources, Catalog!catalog, Catalog!store, Catalog!asked, catalogRest
  <2>2. files \subseteq Catalog!Paths /\ broken \subseteq files
    BY DEF CatalogIInv, CatalogTypes
  <2> QED BY <2>1, <2>2, StoreStays
<1> QED BY <1>1, <1>2, <1>3, <1>4, <1>5, <1>6, <1>7, <1>8, <1>9 DEF Catalog!Next

\* The invariant promises what a user has set for his tasks.
LEMMA CatalogIInvIsSound == CatalogIInv => Catalog!CatalogIsSound
<1> SUFFICES ASSUME CatalogIInv PROVE Catalog!CatalogIsSound
  OBVIOUS
<1>1. /\ CatalogTypes /\ Kept(table) /\ Kept(diskTable) /\ Placed(order) /\ Placed(diskOrder) /\ Renamed
      /\ table \in Tables /\ diskTable \in Tables /\ OrderFits(order) /\ OrderFits(diskOrder)
  BY DEF CatalogIInv, CatalogTypes
<1>2. ASSUME NEW stored \in {table, diskTable}
      PROVE  DOMAIN stored \subseteq Catalog!Keys /\ Catalog!Range(stored) \subseteq 0 .. Writes
  BY <1>1, TableIs DEF Catalog!Range
<1>3. ASSUME NEW ord \in {order, diskOrder}
      PROVE  Catalog!Range(ord) \subseteq Catalog!Keys /\ Catalog!IsInjective(ord)
  <2>1. OrderFits(ord)
    BY <1>1
  <2>2. DOMAIN Named(ord) = DOMAIN ord /\ \A i \in DOMAIN ord : Named(ord)[i] = TaskOf(ord[i])
    BY DEF Named
  <2>3. Catalog!IsInjective(ord)
    BY <2>1, <2>2 DEF OrderFits, Catalog!IsInjective
  <2>4. Catalog!Range(ord) \subseteq Catalog!Keys
    BY <2>1, LenProperties DEF OrderFits, Catalog!Range
  <2> QED BY <2>3, <2>4
<1>4. Catalog!TypeOK
  BY <1>1, <1>2, <1>3 DEF Catalog!TypeOK, CatalogTypes
<1>5. Catalog!SettingsKept
  BY <1>1 DEF Catalog!SettingsKept, Kept
<1>6. Catalog!OrderKept
  BY <1>1 DEF Catalog!OrderKept, Placed, Renamed
<1> QED BY <1>4, <1>5, <1>6 DEF Catalog!CatalogIsSound

\* The settings and the order are those the user made: for any tasks and directories, as the
\* files come, go, move and break, are loaded again, and the pages and runs write over them.
THEOREM CatalogSound == MCSpec => []Catalog!CatalogIsSound
<1>1. MCInit => CatalogIInv
  BY CatalogInit DEF MCInit
<1>2. CatalogIInv
      /\ [ /\ moves' = moves
           /\ \/ moves = "store" /\ Next /\ UNCHANGED <<attemptVars, catalogVars, botVars>>
              \/ moves = "attempt" /\ Attempt!Next /\ UNCHANGED <<vars, catalogVars, botVars>>
              \/ moves = "catalog" /\ Catalog!Next /\ UNCHANGED <<vars, attemptVars, botVars>>
              \/ /\ moves = "bot" /\ (Bot!LocalNext \/ BotIsDone)
                 /\ UNCHANGED <<vars, attemptVars, catalogVars, robotVars>>
              \/ /\ moves = "robot" /\ Bot!RobotNext
                 /\ UNCHANGED <<vars, attemptVars, catalogVars, localVars>>
         ]_<<vars, moves, attemptVars, catalogVars, botVars>>
      => CatalogIInv'
  <2>1. UNCHANGED catalogVars => UNCHANGED Catalog!vars
    BY DEF catalogVars, Catalog!vars, Catalog!sources, Catalog!catalog, Catalog!store, Catalog!asked
  <2> QED BY <2>1, CatalogKept
<1> QED BY <1>1, <1>2, CatalogIInvIsSound, PTL DEF MCSpec

\* The catalog and the robot keep their promises in the specification the run checks.
THEOREM CatalogAndBotSound == MCSpec => []CatalogAndBotAreSound
<1>1. Catalog!CatalogIsSound /\ Bot!BotIsSound => CatalogAndBotAreSound
  BY DEF CatalogAndBotAreSound
<1> QED BY <1>1, CatalogSound, BotSound, PTL
=============================================================================
