------------------------------- MODULE Screen -------------------------------
(* How a task looks at the screen and touches it (AutoScriptor/core/api.py): *)
(* locate() looks until it has what it wants or its time is over, and the    *)
(* calls built on it wait, click, click every match, or click until a        *)
(* condition holds.  The game changes the screen between any two looks, and  *)
(* the user may ask for a stop between any two steps.                        *)
(*                                                                           *)
(* A frame shows each target at some spots; two boxes are similar when they  *)
(* are at the same spot.  Time passes in ticks, one at most in a look.       *)
EXTENDS Naturals, SequencesExt, FiniteSets

CONSTANTS
    Targets, Spots,     \* what may be looked for, and where it may be (a set of numbers)
    Images,             \* the targets matched by template; the others are read by OCR
    Wishes,             \* what a call may look for: [of: a sequence of targets, all: BOOLEAN]
    Frames,             \* what the screen may show: for each target, the spots it is at
    Timeouts,           \* the timeouts a call may be given, in ticks
    Default, Short,     \* click's default timeout, and what if_exist makes of it
    Grace,             \* what wait_for_disappear first gives the target to appear, swipe its ends
    Retries             \* how often extract_info reads

VARIABLES
    call,       \* the call in progress: what, wish, timeout, ifExist, until, stable, times
    pc,         \* where it is
    again,      \* whether it is in its second loop: gone yet, until
    asked,      \* when that loop began
    limit, since, first, retry,     \* locate: its timeout and start, and the two flags of its loop
    todo,       \* the spots still to be pressed
    now,        \* ticks since the call began
    cancel,     \* the event that asks for a stop
    \* history of the call
    seen,       \* the boxes of the last look: for each target of the wish, its spots
    unsure,     \* whether the second look contradicted it
    pressed,    \* the spots pressed by the last click
    late,       \* presses since the stop was asked for
    overdue,    \* further looks of this locate() that began when its time was over
    answer      \* what the last call came to

seekVars == <<limit, since, first, retry>>
vars == <<call, pc, again, asked, limit, since, first, retry, todo, now, cancel, seen, unsure, pressed, late,
          overdue, answer>>

\* What may be asked for.  With an `until`, if_exist does not reach the click; the second of the
\* two looks is for locate itself and the clicks.  wait_for_signal has a window of `times` ticks.
Waits == {"appear", "disappear", "match"}
Polls == {"colour", "signal", "extract"}
Clicks == {"click", "clickAll"}
Calls == {c \in [what : Waits \cup Polls \cup Clicks \cup {"swipe"}, wish : Wishes,
                 timeout : Timeouts, ifExist : BOOLEAN, until : BOOLEAN, stable : BOOLEAN,
                 times : 1..2] :
    /\ c.until => c.what = "click" /\ ~c.ifExist
    /\ c.times > 1 => c.what \in {"click", "signal"}
    /\ c.stable => c.what \in Clicks
    /\ c.ifExist => c.what \in Clicks \cup {"extract"}
    /\ c.what = "clickAll" => Len(c.wish.of) = 1
    /\ c.what \in {"swipe", "extract"} => c.timeout = Default /\ ~c.wish.all}

-----------------------------------------------------------------------------
Lowest(spots) == CHOOSE s \in spots : \A t \in spots : s <= t

\* Some target of the boxes was found; every one was.
First(boxes) == \E i \in DOMAIN boxes : boxes[i] # {}
Full(boxes) == \A i \in DOMAIN boxes : boxes[i] # {}

\* What `first` picks: the first box of the first target that has one.
Pick(boxes) ==
    LET i == Lowest({j \in DOMAIN boxes : boxes[j] # {}}) IN Lowest(boxes[i])

\* Two looks agree: a target found in one of them only does not count.
Stable(one, two) == \A i \in DOMAIN one : one[i] # {} /\ two[i] # {} => one[i] = two[i]

\* For an alternative of images and texts, the texts are read only if no image is found.
ImageFirst(wish) ==
    /\ ~wish.all
    /\ \E i \in DOMAIN wish.of : wish.of[i] \in Images
    /\ \E i \in DOMAIN wish.of : wish.of[i] \notin Images
LocateAll(wish, frame) ==
    LET boxes == [i \in DOMAIN wish.of |-> frame[wish.of[i]]]
        images == [i \in DOMAIN wish.of |-> IF wish.of[i] \in Images THEN boxes[i] ELSE {}]
    IN  IF ImageFirst(wish) /\ First(images) THEN images ELSE boxes

\* click makes an alternative of a list.
Sought == IF call.what = "click" THEN [call.wish EXCEPT !.all = FALSE] ELSE call.wish

\* Where the two looks are one: the end of a swipe may be anywhere, its start has to be stable.
Careful == call.stable \/ (call.what = "swipe" /\ ~again)
Wanted(boxes) == IF Sought.all THEN Full(boxes) ELSE First(boxes)

\* The time click and click_all give their locate().
Patience(c) ==
    IF ~c.ifExist THEN c.timeout
    ELSE IF c.timeout = Default THEN Short
    ELSE IF c.timeout > 1 THEN c.timeout ELSE 1

None == [what |-> "none", wish |-> [of |-> <<>>, all |-> FALSE], timeout |-> 0, ifExist |-> FALSE,
         until |-> FALSE, stable |-> FALSE, times |-> 1]

Init ==
    /\ call = None /\ pc = "idle" /\ again = FALSE /\ asked = 0
    /\ limit = 0 /\ since = 0 /\ first = FALSE /\ retry = FALSE
    /\ todo = <<>> /\ now = 0 /\ seen = <<>> /\ unsure = FALSE /\ pressed = <<>> /\ overdue = 0
    /\ answer = "none" /\ cancel = FALSE /\ late = 0

-----------------------------------------------------------------------------
\* The call is over.
Answer(what) == pc' = "over" /\ answer' = what

\* A locate() of so many ticks begins.
Seek(ticks) ==
    /\ pc' = "look" /\ limit' = ticks /\ since' = now' /\ first' = TRUE /\ retry' = FALSE
    /\ overdue' = 0

\* The task calls one of the primitives, which first asks whether it is to stop.
Begin(c) ==
    /\ pc = "idle"
    /\ call' = c /\ now' = 0
    /\ \/ cancel /\ Answer("cancelled") /\ UNCHANGED <<seekVars, overdue>>
       \/ /\ ~cancel /\ c.what \notin Polls
          /\ Seek(IF c.what \in {"disappear", "swipe"} THEN Grace
                  ELSE IF c.what \in Clicks THEN Patience(c) ELSE c.timeout)
          /\ UNCHANGED answer
       \/ /\ ~cancel /\ c.what \in Polls
          /\ pc' = "poll"
          /\ limit' = IF c.what = "extract" THEN Retries
                      ELSE IF c.what = "signal" THEN c.times ELSE c.timeout
          /\ UNCHANGED <<since, first, retry, overdue, answer>>
    /\ UNCHANGED <<again, asked, todo, cancel, seen, unsure, pressed, late>>

Goes == first \/ retry \/ now - since < limit

\* A turn of the loop of locate(): one look, or two that must agree, each of them at the screen
\* as it then is.  A find that the second look contradicts is tried once more, whatever the time.
Look(frame, second, ticks) ==
    LET one == LocateAll(Sought, frame)
        two == IF Careful THEN LocateAll(Sought, second) ELSE one
        agree == Stable(one, two)
    IN  /\ pc = "look" /\ Goes /\ ~cancel
        /\ now' = now + ticks /\ first' = FALSE
        /\ retry' = (~agree /\ Wanted(one) /\ ~retry)
        /\ seen' = one /\ unsure' = ~agree
        /\ overdue' = IF first \/ now - since < limit THEN overdue ELSE overdue + 1
        /\ pc' = IF agree /\ Wanted(one) THEN "found" ELSE "look"
        /\ UNCHANGED <<call, again, asked, limit, since, todo, cancel, pressed, late, answer>>

\* check_cancel_raise() at the head of a loop, in a sleep, or before the next press.
Stopped ==
    /\ cancel
    /\ \/ pc = "look" /\ Goes
       \/ pc \in {"poll", "gone", "aim", "rest", "until"}
    /\ Answer("cancelled")
    /\ UNCHANGED <<call, again, asked, seekVars, todo, now, cancel, seen, unsure, pressed, late,
                   overdue>>

-----------------------------------------------------------------------------
\* What the waits make of a find: the target has appeared; or it is still there, and
\* wait_for_disappear, which begins to count now, will look again.
Appeared ==
    /\ pc = "found" /\ call.what \in {"appear", "match"}
    /\ Answer("found")
    /\ UNCHANGED <<call, again, asked, seekVars, todo, now, cancel, seen, unsure, pressed, late,
                   overdue>>
StillThere ==
    /\ pc = "found" /\ call.what = "disappear"
    /\ \/ again /\ pc' = "gone" /\ UNCHANGED <<seekVars, overdue, asked>>
       \/ ~again /\ asked' = now /\ now' = now /\ Seek(0)
    /\ again' = TRUE
    /\ UNCHANGED <<call, todo, now, cancel, seen, unsure, pressed, late, answer>>

\* The body of its loop: the time, and half a second's sleep.
Wait ==
    /\ pc = "gone" /\ ~cancel
    /\ \/ /\ now - asked > call.timeout
          /\ Answer("timeout")
          /\ UNCHANGED <<seekVars, now, overdue>>
       \/ /\ now - asked <= call.timeout
          /\ now' = now + 1 /\ Seek(0)
          /\ UNCHANGED answer
    /\ UNCHANGED <<call, again, asked, todo, cancel, seen, unsure, pressed, late>>

\* The spots in their order, from the top.
Sorted(spots) ==
    {s \in [1..Cardinality(spots) -> spots] : \A i, j \in DOMAIN s : i < j => s[i] < s[j]}

\* The matches are settled before the first press: the box picked, as many times as asked, or
\* every box of the target, from the top.
Aim ==
    /\ pc = "found" /\ call.what \in Clicks
    /\ todo' \in IF call.what = "click" THEN {[i \in 1..call.times |-> Pick(seen)]}
                 ELSE Sorted(seen[1])
    /\ pc' = "aim"
    /\ UNCHANGED <<call, again, asked, seekVars, now, cancel, seen, unsure, pressed, late, overdue,
                   answer>>

\* The delay before the press is over, and nobody has asked for a stop.
Aimed ==
    /\ pc = "aim" /\ ~cancel
    /\ pc' = "press"
    /\ UNCHANGED <<call, again, asked, seekVars, todo, now, cancel, seen, unsure, pressed, late,
                   overdue, answer>>
Press ==
    /\ pc = "press"
    /\ \/ call.what # "swipe" /\ pressed' = Append(pressed, Head(todo)) /\ todo' = Tail(todo)
       \/ call.what = "swipe" /\ pressed' = todo /\ todo' = <<>>
    /\ late' = IF cancel THEN late + 1 ELSE late
    /\ pc' = "rest"
    /\ UNCHANGED <<call, again, asked, seekVars, now, cancel, seen, unsure, overdue, answer>>

\* Mutant: a stop is not heard between two presses.
RestDeaf ==
    /\ pc = "rest"
    /\ now' = IF call.until THEN now + 1 ELSE now
    /\ \/ todo # <<>> /\ pc' = "press" /\ UNCHANGED answer
       \/ todo = <<>> /\ call.until /\ pc' = "done" /\ UNCHANGED answer
       \/ todo = <<>> /\ ~call.until /\ Answer("clicked")
    /\ UNCHANGED <<call, again, asked, seekVars, todo, cancel, seen, unsure, pressed, late,
                   overdue>>

\* The interval after it, and what comes next; the clicks of an `until` are half a second apart.
Rest ==
    /\ pc = "rest" /\ ~cancel
    /\ now' = IF call.until THEN now + 1 ELSE now
    /\ \/ todo # <<>> /\ pc' = "press" /\ UNCHANGED answer
       \/ todo = <<>> /\ call.until /\ pc' = "done" /\ UNCHANGED answer
       \/ todo = <<>> /\ ~call.until /\ Answer("clicked")
    /\ UNCHANGED <<call, again, asked, seekVars, todo, cancel, seen, unsure, pressed, late,
                   overdue>>

-----------------------------------------------------------------------------
\* locate() gives up.  An alternative comes to nothing; for a list it returns what it last saw,
\* which wait_for_appear and wait_for_disappear do not tell from a find.
Missed ==
    /\ pc = "look" /\ ~Goes
    /\ \/ call.what = "appear" /\ Answer(IF Sought.all THEN "found" ELSE "timeout")
          /\ UNCHANGED <<seekVars, again, asked, overdue>>
       \/ /\ call.what = "disappear" /\ ~again
          /\ again' = TRUE /\ asked' = now /\ now' = now /\ Seek(0)
          /\ UNCHANGED answer
       \/ /\ call.what = "disappear" /\ again
          /\ \/ Sought.all /\ pc' = "gone" /\ UNCHANGED answer
             \/ ~Sought.all /\ Answer("gone")
          /\ UNCHANGED <<seekVars, again, asked, overdue>>
       \/ call.what = "match" /\ Answer("absent") /\ UNCHANGED <<seekVars, again, asked, overdue>>
       \/ /\ call.what \in Clicks
          /\ \/ again /\ pc' = "done" /\ UNCHANGED answer
             \/ ~again /\ Answer(IF call.ifExist THEN "absent" ELSE "timeout")
          /\ UNCHANGED <<seekVars, again, asked, overdue>>
    /\ UNCHANGED <<call, todo, now, cancel, seen, unsure, pressed, late>>

\* click(until=...): a click has been made, or its target was not there.  Only from the second
\* on is the time looked at, and before the condition.
Done ==
    /\ pc = "done"
    /\ \/ again /\ now > call.timeout /\ Answer("timeout")
       \/ ~(again /\ now > call.timeout) /\ pc' = "until" /\ UNCHANGED answer
    /\ UNCHANGED <<call, again, asked, seekVars, todo, now, cancel, seen, unsure, pressed, late,
                   overdue>>
Until(holds) ==
    /\ pc = "until"
    /\ \/ holds /\ Answer("clicked") /\ UNCHANGED <<seekVars, again, overdue>>
       \/ /\ ~holds /\ ~cancel
          /\ again' = TRUE /\ now' = now /\ Seek(1)
          /\ UNCHANGED answer
    /\ pressed' = <<>>
    /\ UNCHANGED <<call, asked, todo, now, cancel, seen, unsure, late>>

-----------------------------------------------------------------------------
\* swipe() looks for its start and, whether or not that was found, for its end; what it found is
\* in `todo`.  Then it moves from the one to the other.
SwipeEnd ==
    /\ call.what = "swipe"
    /\ pc = "found" \/ (pc = "look" /\ ~Goes)
    /\ todo' = IF pc = "found" THEN Append(todo, Pick(seen)) ELSE todo
    /\ now' = now
    /\ \/ ~again /\ again' = TRUE /\ Seek(Grace) /\ UNCHANGED answer
       \/ /\ again /\ UNCHANGED <<seekVars, again, overdue>>
          /\ IF Len(todo') = 2 THEN pc' = "aim" /\ UNCHANGED answer ELSE Answer("timeout")
    /\ UNCHANGED <<call, asked, cancel, seen, unsure, pressed, late>>

\* What is asked again and again, with a sleep of a tick in between: the colour of a region, until
\* it is the one or the time is over; a signal, until it is as expected or the window is
\* over, unless the timeout is first; the text of a region, until some is read (or, with
\* ensure_not_empty off, here if_exist, until it could be processed) or after so many turns.
Colour(is) ==
    /\ pc = "poll" /\ call.what = "colour" /\ ~cancel
    /\ \/ is /\ Answer("found") /\ UNCHANGED now
       \/ ~is /\ limit = 0 /\ Answer("absent") /\ UNCHANGED now
       \/ /\ ~is /\ limit > 0 /\ now' = now + 1
          /\ IF now' < limit THEN UNCHANGED <<pc, answer>> ELSE Answer("absent")
    /\ UNCHANGED <<call, again, asked, seekVars, todo, cancel, seen, unsure, pressed, late, overdue>>

Signal(is) ==
    /\ pc = "poll" /\ call.what = "signal" /\ ~cancel
    /\ \/ now > call.timeout /\ Answer("timeout") /\ UNCHANGED now
       \/ now <= call.timeout /\ is /\ Answer("found") /\ UNCHANGED now
       \/ now <= call.timeout /\ ~is /\ now >= limit /\ Answer("absent") /\ UNCHANGED now
       \/ now <= call.timeout /\ ~is /\ now < limit /\ now' = now + 1 /\ UNCHANGED <<pc, answer>>
    /\ UNCHANGED <<call, again, asked, seekVars, todo, cancel, seen, unsure, pressed, late, overdue>>

\* `asked` counts the turns; a turn read something, nothing, or something it could not process.
Extract(read) ==
    /\ pc = "poll" /\ call.what = "extract" /\ ~cancel
    /\ asked' = asked + 1 /\ now' = now + 1
    /\ \/ read = "info" /\ Answer("found")
       \/ read = "empty" /\ call.ifExist /\ Answer("absent")
       \/ /\ read = "error" \/ ~call.ifExist
          /\ read # "info"
          /\ IF asked' < limit THEN UNCHANGED <<pc, answer>> ELSE Answer("absent")
    /\ UNCHANGED <<call, again, seekVars, todo, cancel, seen, unsure, pressed, late, overdue>>

-----------------------------------------------------------------------------
\* The user asks for a stop; the next task begins with none.
Stop ==
    /\ ~cancel /\ cancel' = TRUE
    /\ UNCHANGED <<call, pc, again, asked, seekVars, todo, now, seen, unsure, pressed, late, overdue,
                   answer>>
NewTask ==
    /\ cancel /\ pc = "idle"
    /\ cancel' = FALSE /\ late' = 0
    /\ UNCHANGED <<call, pc, again, asked, seekVars, todo, now, seen, unsure, pressed, overdue, answer>>

\* The task has its answer.
Return ==
    /\ pc = "over" /\ pc' = "idle" /\ call' = None /\ again' = FALSE /\ asked' = 0
    /\ limit' = 0 /\ since' = 0 /\ first' = FALSE /\ retry' = FALSE
    /\ todo' = <<>> /\ now' = 0 /\ seen' = <<>> /\ unsure' = FALSE /\ pressed' = <<>>
    /\ overdue' = 0 /\ answer' = "none"
    /\ UNCHANGED <<cancel, late>>

Next ==
    \/ \E c \in Calls : Begin(c)
    \/ \E frame, second \in Frames, ticks \in 0..1 : Look(frame, second, ticks)
    \/ SwipeEnd
    \/ \E is \in BOOLEAN : Colour(is) \/ Signal(is)
    \/ \E read \in {"info", "empty", "error"} : Extract(read)
    \/ Stopped \/ Appeared \/ StillThere \/ Wait \/ Missed
    \/ Aim \/ Aimed \/ Press \/ Rest \/ Done
    \/ \E holds \in BOOLEAN : Until(holds)
    \/ Stop \/ NewTask \/ Return

Spec == Init /\ [][Next]_vars

-----------------------------------------------------------------------------
\* The calls are well formed, and the clocks and the histories are numbers and spots.
TypeOK ==
    /\ call \in Calls \cup {None} /\ again \in BOOLEAN /\ cancel \in BOOLEAN /\ unsure \in BOOLEAN
    /\ pc \in {"idle", "over", "look", "found", "poll", "gone", "aim", "press", "rest", "done", "until"}
    /\ first \in BOOLEAN /\ retry \in BOOLEAN
    /\ {limit, since, now, asked, late, overdue} \subseteq Nat
    /\ todo \in Seq(Spots) /\ pressed \in Seq(Spots) /\ seen \in Seq(SUBSET Spots)
    /\ answer \in {"none", "found", "gone", "clicked", "absent", "timeout", "cancelled"}

\* Once the user has asked for a stop, the task touches the screen once more at most, whatever it
\* was doing: the check before a press and the press are two steps.
StopIsHeard == late <= 1

\* A time that is over buys one more look, and only to settle two that disagreed; no call looks
\* beyond its time but for that.
LooksInTime ==
    /\ overdue <= 1
    /\ pc \in {"look", "found", "poll"} => now <= since + limit + 2

\* What a call answers is so: what appeared was on the last frame, what has gone was not, a click
\* that found nothing in its time pressed nothing, one that succeeded pressed the box it
\* picked as often as asked, and every match of click_all was pressed once, from the top.
AnswersAreTrue ==
    LET alone == pc = "over" /\ ~call.until IN
    /\ answer = "found" /\ call.what = "appear" => Sought.all \/ First(seen)
    /\ answer = "found" /\ call.what = "match" => Wanted(seen)
    /\ answer = "absent" /\ call.what \in Polls \ {"extract"} => now >= limit
    /\ answer = "absent" /\ call.what = "extract" => asked = Retries \/ call.ifExist
    /\ answer = "timeout" /\ call.what = "signal" => now > call.timeout
    /\ answer = "gone" => ~First(seen)
    /\ alone /\ answer \in {"timeout", "absent"} /\ call.what \in Clicks \cup {"appear", "match"} =>
           /\ pressed = <<>> /\ (unsure \/ ~Wanted(seen))
           /\ now >= (IF call.what \in Clicks THEN Patience(call) ELSE call.timeout)
    /\ answer = "timeout" /\ call.what = "disappear" => now - asked > call.timeout
    /\ alone /\ answer = "clicked" /\ call.what = "click" =>
           pressed = [i \in 1..call.times |-> Pick(seen)]
    /\ answer = "clicked" /\ call.what = "clickAll" =>
           /\ ToSet(pressed) = seen[1]
           /\ \A i, j \in DOMAIN pressed : i < j => pressed[i] < pressed[j]

\* A click until a condition holds does not give up in its time, and what it presses it has just
\* seen: nothing is pressed on the strength of an earlier frame.
PressesAreFresh ==
    /\ pc = "press" /\ call.what # "swipe" => ~unsure /\ \E i \in DOMAIN seen : Head(todo) \in seen[i]
    /\ call.until /\ answer = "timeout" /\ again => now > call.timeout

\* All of the above: what a task sees and touches through these calls.
ScreenIsSound == TypeOK /\ StopIsHeard /\ LooksInTime /\ AnswersAreTrue /\ PressesAreFresh
=============================================================================
