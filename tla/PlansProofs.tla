---------------------------- MODULE PlansProofs ----------------------------
(***************************************************************************)
(* The timing rules, for every time and every rule; and the task and the   *)
(* clock, for every set of rules: the loop waits exactly while there is    *)
(* nothing to do, and a periodic task runs once a period.  Then what a     *)
(* task does in the game, for every set of values of the constants of      *)
(* MCPlans: reading text (OcrEngine), the login (PageRouter), the battles  *)
(* and walks of a hero (HeroBattle), and getting about (Navigation); and   *)
(* all of these together, with the pipeline of MCPlans.                    *)
(***************************************************************************)
EXTENDS MCPlans, FiniteSetTheorems, WellFoundedInduction, TLAPS

-----------------------------------------------------------------------------
(* The rules.                                                             *)

\* A moment is its midnight and its minute.
LEMMA DayArithmetic ==
    ASSUME NEW t \in Nat
    PROVE  /\ MinuteOf(t) \in 0..(Day - 1)
           /\ Midnight(t) \in Nat
           /\ t = Midnight(t) + MinuteOf(t)
           /\ Midnight(t) % Day = 0
BY DEF MinuteOf, Midnight, Day

\* The minute, and the day, of a moment given by its midnight.
LEMMA MinuteWithinDay ==
    ASSUME NEW t \in Nat, NEW m \in 0..(Day - 1)
    PROVE  /\ MinuteOf(Midnight(t) + m) = m
           /\ MinuteOf(Midnight(t) + Day + m) = m
BY DEF MinuteOf, Midnight, Day

\* A moment lies in the day its midnight begins.
LEMMA MidnightLies ==
    ASSUME NEW t \in Nat
    PROVE  /\ Midnight(t) \in Nat
           /\ MinuteOf(t) \in Nat
           /\ Midnight(t) <= t
           /\ t < Midnight(t) + Day
BY DEF MinuteOf, Midnight, Day

\* Weekdays are numbered 1..7.
LEMMA WeekdayIsDay == \A t \in Nat : WeekdayOf(t) \in Weekdays
BY DEF WeekdayOf, Weekdays, Day

\* A day has a length.
LEMMA DayIsNat == Day \in Nat /\ Day > 0
BY DEF Day

\* The minutes of the moments up to one of the same day.
LEMMA SameDay ==
    ASSUME NEW t \in Nat, NEW u \in Nat, NEW m \in 0..(Day - 1),
           t <= u, u < Midnight(t) + m
    PROVE  MinuteOf(u) < m /\ MinuteOf(t) <= MinuteOf(u)
<1>1. u \div Day = t \div Day
  BY SMTT(60) DEF Midnight, Day
<1> QED BY <1>1 DEF MinuteOf, Midnight, Day

\* The minutes of the moments up to one of the next day.
LEMMA NextDay ==
    ASSUME NEW t \in Nat, NEW u \in Nat, NEW m \in 0..(Day - 1),
           t <= u, u < Midnight(t) + Day + m
    PROVE  MinuteOf(u) < m \/ MinuteOf(u) >= MinuteOf(t)
<1>1. CASE u < Midnight(t) + Day
  <2>1. u \div Day = t \div Day
    BY <1>1 DEF Midnight, Day
  <2> QED BY <2>1 DEF MinuteOf, Midnight, Day
<1>2. CASE u >= Midnight(t) + Day
  <2>1. u \div Day = (t \div Day) + 1
    BY <1>2, SMTT(60) DEF Midnight, Day
  <2> QED BY <2>1 DEF MinuteOf, Midnight, Day
<1> QED BY <1>1, <1>2 DEF Midnight, Day

\* The hours of a window, as minutes of the day.
LEMMA WindowHours ==
    ASSUME NEW w \in Windows
    PROVE  /\ w[1] * Hour \in 0..(Day - 1)
           /\ w[2] * Hour \in Nat
           /\ w[1] * Hour < w[2] * Hour
BY DEF Windows, Hour, Day

\* clamp_to_sched_window returns the first moment from t on that is inside the
\* window: it is inside, not before t, and nothing between is inside.
THEOREM ClampIsNextOpening ==
    ASSUME NEW t \in Nat, NEW w \in Windows
    PROVE  /\ Clamp(t, w) \in Nat
           /\ Clamp(t, w) >= t
           /\ Inside(Clamp(t, w), w)
           /\ \A u \in Nat : t <= u /\ u < Clamp(t, w) => ~Inside(u, w)
<1>1. PICK s \in 0..(Day - 1) : s = w[1] * Hour
  BY WindowHours
<1>2. PICK e \in Nat : e = w[2] * Hour
  BY WindowHours
<1>3. s < e
  BY <1>1, <1>2, WindowHours
<1>4. \A u \in Nat : Inside(u, w) <=> s <= MinuteOf(u) /\ MinuteOf(u) < e
  BY <1>1, <1>2 DEF Inside
<1>5. Clamp(t, w) = IF Inside(t, w) THEN t
                    ELSE IF MinuteOf(t) < s THEN Midnight(t) + s ELSE Midnight(t) + Day + s
  BY <1>1 DEF Clamp
<1>6. /\ MinuteOf(t) \in 0..(Day - 1)
      /\ Midnight(t) \in Nat
      /\ t = Midnight(t) + MinuteOf(t)
      /\ MinuteOf(Midnight(t) + s) = s
      /\ MinuteOf(Midnight(t) + Day + s) = s
      /\ Midnight(t) + s \in Nat
      /\ Midnight(t) + Day + s \in Nat
  <2>1. /\ MinuteOf(t) \in 0..(Day - 1)
        /\ Midnight(t) \in Nat
        /\ t = Midnight(t) + MinuteOf(t)
    BY DayArithmetic
  <2>2. /\ MinuteOf(Midnight(t) + s) = s
        /\ MinuteOf(Midnight(t) + Day + s) = s
    BY MinuteWithinDay
  <2>3. Midnight(t) + s \in Nat /\ Midnight(t) + Day + s \in Nat
    BY <2>1, SMTT(60) DEF Day
  <2> QED BY <2>1, <2>2, <2>3
<1>7. \A u \in Nat : MinuteOf(u) \in 0..(Day - 1)
  BY DayArithmetic
<1>8. CASE Inside(t, w)
  BY <1>8, <1>5
<1>9. CASE ~Inside(t, w) /\ MinuteOf(t) < s
  <2>1. Clamp(t, w) = Midnight(t) + s
    BY <1>9, <1>5
  <2>2. ASSUME NEW u \in Nat, t <= u, u < Clamp(t, w) PROVE ~Inside(u, w)
    <3>1. MinuteOf(u) < s
      BY <2>1, <2>2, SameDay
    <3> QED BY <3>1, <1>4, <1>7, DayIsNat
  <2>3. Inside(Clamp(t, w), w)
    BY <2>1, <1>3, <1>4, <1>6
  <2> QED BY <2>1, <2>2, <2>3, <1>6, <1>9
<1>10. CASE ~Inside(t, w) /\ ~(MinuteOf(t) < s)
  <2>1. Clamp(t, w) = Midnight(t) + Day + s
    BY <1>10, <1>5
  <2>2. MinuteOf(t) >= e
    BY <1>10, <1>4, <1>6
  <2>3. ASSUME NEW u \in Nat, t <= u, u < Clamp(t, w) PROVE ~Inside(u, w)
    <3>1. MinuteOf(u) < s \/ MinuteOf(u) >= MinuteOf(t)
      BY <2>1, <2>3, NextDay
    <3> QED BY <3>1, <2>2, <1>4, <1>6, <1>7, DayIsNat
  <2>4. Inside(Clamp(t, w), w)
    BY <2>1, <1>3, <1>4, <1>6
  <2>5. Midnight(t) + Day + s >= t
    BY <1>6, DayIsNat
  <2> QED BY <2>1, <2>3, <2>4, <2>5, <1>6
<1> QED BY <1>8, <1>9, <1>10

\* Among the next seven days there is one of each weekday.
LEMMA EveryWeekdayComes ==
    ASSUME NEW t \in Nat, NEW d \in Weekdays
    PROVE  \E k \in 1..7 : WeekdayOf(t + k * Day) = d
<1> DEFINE k == ((d - WeekdayOf(t) + 6) % 7) + 1
<1>1. k \in 1..7
  BY WeekdayIsDay DEF Weekdays
<1>2. (t + k * Day) \div Day = (t \div Day) + k
  BY <1>1 DEF Day
<1>3. WeekdayOf(t + k * Day) = d
  <2>1. PICK q \in Nat : q = t \div Day
    BY DEF Day
  <2>2. k = ((d - ((q % 7) + 1) + 6) % 7) + 1
    BY <2>1 DEF WeekdayOf
  <2>3. WeekdayOf(t + k * Day) = ((q + k) % 7) + 1
    BY <2>1, <1>2 DEF WeekdayOf
  <2> HIDE DEF k
  <2>4. ((q + k) % 7) + 1 = d
    BY <2>2, <1>1 DEF Weekdays
  <2> QED BY <2>3, <2>4
<1> QED BY <1>1, <1>3

\* The days that are searched have a first one.
LEMMA FirstOfDays ==
    ASSUME NEW S \in SUBSET (1..14), NEW d \in S, d \in 1..7
    PROVE  \E k \in S : k \in 1..7 /\ \A l \in S : k <= l
<1>1. CASE 1 \in S BY <1>1
<1>2. CASE 1 \notin S /\ 2 \in S BY <1>2
<1>3. CASE 1 \notin S /\ 2 \notin S /\ 3 \in S BY <1>3
<1>4. CASE 1 \notin S /\ 2 \notin S /\ 3 \notin S /\ 4 \in S BY <1>4
<1>5. CASE S \cap 1..4 = {} /\ 5 \in S BY <1>5
<1>6. CASE S \cap 1..5 = {} /\ 6 \in S BY <1>6
<1>7. CASE S \cap 1..6 = {} /\ 7 \in S BY <1>7
<1> QED BY <1>1, <1>2, <1>3, <1>4, <1>5, <1>6, <1>7

\* calc_next_allowed_weekday_ts finds 05:00 of the first allowed day after today.
THEOREM NextAllowedDayIsFirst ==
    ASSUME NEW t \in Nat, NEW r \in Rules, r.weekdays # {}
    PROVE  \E k \in 1..7 :
               /\ NextAllowedDay(t, r) = Midnight(t) + k * Day + Dawn
               /\ Allowed(t + k * Day, r)
               /\ \A l \in 1..(k - 1) : ~Allowed(t + l * Day, r)
<1> DEFINE later == {k \in 1..14 : Allowed(t + k * Day, r)}
           first == CHOOSE k \in later : \A l \in later : k <= l
<1>1. PICK d \in r.weekdays : d \in Weekdays
  BY DEF Rules
<1>2. PICK k \in 1..7 : WeekdayOf(t + k * Day) = d
  BY <1>1, EveryWeekdayComes
<1>3. k \in later
  BY <1>1, <1>2 DEF Allowed
<1>4. \E j \in later : j \in 1..7 /\ \A l \in later : j <= l
  <2> HIDE DEF later
  <2>1. later \in SUBSET (1..14)
    BY DEF later
  <2> QED BY <2>1, <1>2, <1>3, FirstOfDays
<1>5. first \in later /\ \A l \in later : first <= l
  <2> HIDE DEF later
  <2> QED BY <1>4
<1>6. first \in 1..7
  BY <1>4, <1>5
<1>7. \A l \in 1..(first - 1) : ~Allowed(t + l * Day, r)
  <2>1. SUFFICES ASSUME NEW l \in 1..(first - 1) PROVE ~Allowed(t + l * Day, r)
    OBVIOUS
  <2> HIDE DEF first
  <2>2. l \in 1..14 /\ l < first
    BY <1>6
  <2>3. l \notin later
    <3> HIDE DEF later
    <3> QED BY <2>2, <1>5, <1>6
  <2> QED BY <2>2, <2>3
<1>8. NextAllowedDay(t, r) = Midnight(t) + first * Day + Dawn
  BY DEF NextAllowedDay
<1> HIDE DEF first
<1> QED BY <1>5, <1>6, <1>7, <1>8

-----------------------------------------------------------------------------
(* The computed times.                                                     *)

\* The next allowed weekday lies ahead, and at most a week and a day.
LEMMA AllowedDayLies ==
    ASSUME NEW t \in Nat, NEW r \in Rules, r.weekdays # {}
    PROVE  /\ NextAllowedDay(t, r) \in Nat
           /\ NextAllowedDay(t, r) > t
           /\ NextAllowedDay(t, r) <= t + Week + Day
<1>1. PICK k \in 1..7 : NextAllowedDay(t, r) = Midnight(t) + k * Day + Dawn
  BY NextAllowedDayIsFirst
<1>2. /\ Midnight(t) \in Nat
      /\ Midnight(t) <= t /\ t < Midnight(t) + Day
  BY MidnightLies
<1> QED BY <1>1, <1>2 DEF Day, Week, Dawn

\* Clamping to the window never goes back, and at most two days ahead.
LEMMA ClampedLies ==
    ASSUME NEW t \in Nat, NEW r \in Rules
    PROVE  /\ Clamped(t, r) \in Nat
           /\ Clamped(t, r) >= t
           /\ Clamped(t, r) <= t + 2 * Day
<1>1. CASE r.window = <<>>
  BY <1>1 DEF Clamped, Day
<1>2. CASE r.window # <<>>
  <2>1. PICK w \in Windows : w = r.window
    BY <1>2 DEF Rules
  <2>2. Clamp(t, w) \in Nat /\ Clamp(t, w) >= t
    BY ClampIsNextOpening
  <2>3. Clamp(t, w) <= t + 2 * Day
    <3>1. PICK s \in 0..(Day - 1) : s = w[1] * Hour
      BY WindowHours
    <3>2. Midnight(t) \in Nat /\ Midnight(t) <= t
      BY MidnightLies
    <3>3. \/ Clamp(t, w) = t
          \/ Clamp(t, w) = Midnight(t) + s
          \/ Clamp(t, w) = Midnight(t) + Day + s
      BY <3>1 DEF Clamp
    <3> QED BY <3>1, <3>2, <3>3, DayIsNat
  <2> QED BY <1>2, <2>1, <2>2, <2>3 DEF Clamped
<1> QED BY <1>1, <1>2

\* The next period begins within two weeks, or after the task's own offset.
LEMMA NextExecLies ==
    ASSUME NEW t \in Nat, NEW r \in Rules, r.mode # "once"
    PROVE  /\ NextExec(t, r) \in Nat
           /\ NextExec(t, r) <= t + Later(2 * Week, r.hours * Hour)
<1>1. /\ Midnight(t) \in Nat
      /\ MinuteOf(t) \in Nat
      /\ Midnight(t) <= t /\ t < Midnight(t) + Day
  BY MidnightLies
<1>2. PICK h \in Nat : h = r.hours
  BY DEF Rules
<1>3. WeekdayOf(t) \in 1..7
  BY WeekdayIsDay DEF Weekdays
<1>4. CASE r.mode = "offset"
  <2>1. NextExec(t, r) = t + h * Hour
    BY <1>2, <1>4 DEF NextExec
  <2> QED BY <2>1, <1>2 DEF Later, Hour, Week
<1>5. CASE r.mode = "daily"
  <2>1. NextExec(t, r) = NextDailyDay(t) + Dawn
    BY <1>5 DEF NextExec
  <2>2. NextDailyDay(t) \in Nat /\ NextDailyDay(t) <= t + Day
    BY <1>1 DEF NextDailyDay, Day
  <2> QED BY <2>1, <2>2, <1>2 DEF Later, Hour, Week, Day, Dawn
<1>6. CASE r.mode = "weekly"
  <2>1. NextExec(t, r) = NextWeeklyDay(t) + Dawn
    BY <1>6 DEF NextExec
  <2>2. NextWeeklyDay(t) \in Nat /\ NextWeeklyDay(t) <= t + Week
    BY <1>1, <1>3 DEF NextWeeklyDay, DaysToMonday, Day, Week
  <2> QED BY <2>1, <2>2, <1>2 DEF Later, Hour, Week, Day, Dawn
<1> QED BY <1>4, <1>5, <1>6 DEF Rules

\* A daily or weekly task is put off to a later day of the game.
LEMMA NextPeriod ==
    ASSUME NEW t \in Nat, NEW r \in Rules, r.mode \in {"daily", "weekly"}
    PROVE  GameDay(NextAfterRun(t, r)) > GameDay(t)
<1>1. PICK q \in Nat, m \in 0..(Day - 1) :
          Midnight(t) = q * Day /\ MinuteOf(t) = m /\ t = q * Day + m
  <2>1. (t \div Day) \in Nat /\ (t % Day) \in 0..(Day - 1)
    BY DEF Day
  <2>2. Midnight(t) = (t \div Day) * Day /\ t = (t \div Day) * Day + (t % Day)
    BY DEF Midnight, Day
  <2> QED BY <2>1, <2>2 DEF MinuteOf
<1>2. WeekdayOf(t) \in 1..7
  BY WeekdayIsDay DEF Weekdays
<1>3. NextExec(t, r) \in Nat /\ GameDay(NextExec(t, r)) > GameDay(t)
  <2>1. CASE r.mode = "daily"
    <3>1. NextExec(t, r) = q * Day + (IF m >= Dawn THEN Day ELSE 0) + Dawn
      BY <1>1, <2>1 DEF NextExec, NextDailyDay
    <3> QED BY <1>1, <3>1 DEF GameDay, Day, Dawn
  <2>2. CASE r.mode = "weekly"
    <3>1. PICK k \in 1..7 : k = DaysToMonday(t)
      BY <1>2 DEF DaysToMonday
    <3>2. NextExec(t, r) = q * Day + (IF m >= Dawn THEN k * Day ELSE 0) + Dawn
      BY <1>1, <2>2, <3>1 DEF NextExec, NextWeeklyDay
    <3> QED BY <1>1, <3>1, <3>2 DEF GameDay, Day, Dawn
  <2> QED BY <2>1, <2>2
<1>4. NextAfterRun(t, r) \in Nat /\ NextAfterRun(t, r) >= NextExec(t, r)
  BY <1>3, ClampedLies DEF NextAfterRun
<1>5. \A a, b \in Nat : a <= b => GameDay(a) <= GameDay(b)
  BY DEF GameDay, Day, Dawn
<1>6. /\ GameDay(NextExec(t, r)) \in Int
      /\ GameDay(NextAfterRun(t, r)) \in Int
      /\ GameDay(t) \in Int
  BY <1>3, <1>4 DEF GameDay, Day, Dawn
<1> QED BY <1>3, <1>4, <1>5, <1>6

\* calc_effective_next_time and the due predicate agree.
LEMMA OpeningMatches ==
    ASSUME NEW n \in Nat, NEW t \in Nat, NEW r \in Rules
    PROVE  /\ Opening(n, t, r) \in Nat
           /\ Opening(n, t, r) <= t <=> n <= t /\ Clamped(t, r) <= t
<1>1. CASE r.window = <<>>
  BY <1>1 DEF Opening, Clamped
<1>2. CASE r.window # <<>>
  <2>1. r.window \in Windows
    BY <1>2 DEF Rules
  <2>2. Opening(n, t, r) = Clamp(Later(n, t), r.window) /\ Clamped(t, r) = Clamp(t, r.window)
    BY <1>2 DEF Opening, Clamped
  <2>3. Later(n, t) \in Nat /\ Later(n, t) >= t /\ Later(n, t) >= n
    BY DEF Later
  <2>4. /\ Clamp(Later(n, t), r.window) \in Nat
        /\ Clamp(Later(n, t), r.window) >= Later(n, t)
    BY <2>1, <2>3, ClampIsNextOpening
  <2>5. n <= t => Later(n, t) = t
    BY DEF Later
  <2>6. CASE n <= t
    BY <2>2, <2>4, <2>5, <2>6
  <2>7. CASE ~(n <= t)
    BY <2>2, <2>3, <2>4, <2>7
  <2> QED BY <2>6, <2>7
<1> QED BY <1>1, <1>2

\* The time that is waited for has come exactly when the task is due.
LEMMA EffectiveMatchesDue ==
    ASSUME NEW n \in Nat, NEW t \in Nat, NEW r \in Rules
    PROVE  /\ EffectiveNext(n, t, r) \in Nat
           /\ EffectiveNext(n, t, r) <= t <=> IsDue(n, t, r)
<1> DEFINE o == Opening(n, t, r)
<1>1. o \in Nat /\ (o <= t <=> n <= t /\ Clamped(t, r) <= t)
  BY OpeningMatches
<1>2. IsDue(n, t, r) <=> o <= t /\ Allowed(t, r)
  BY <1>1 DEF IsDue
<1>3. EffectiveNext(n, t, r) = IF o <= t /\ ~Allowed(t, r) THEN NextAllowedDay(t, r)
                               ELSE IF o > t /\ ~Allowed(o, r) THEN NextAllowedDay(o, r)
                               ELSE o
  BY DEF EffectiveNext
<1> HIDE DEF o
<1>4. CASE o <= t /\ ~Allowed(t, r)
  <2>1. r.weekdays # {}
    BY <1>4 DEF Allowed
  <2>2. NextAllowedDay(t, r) \in Nat /\ NextAllowedDay(t, r) > t
    BY <2>1, AllowedDayLies
  <2> QED BY <1>2, <1>3, <1>4, <2>2
<1>5. CASE o > t /\ ~Allowed(o, r)
  <2>1. r.weekdays # {}
    BY <1>5 DEF Allowed
  <2>2. NextAllowedDay(o, r) \in Nat /\ NextAllowedDay(o, r) > o
    BY <1>1, <2>1, AllowedDayLies
  <2> QED BY <1>1, <1>2, <1>3, <1>5, <2>2
<1>6. CASE o <= t /\ Allowed(t, r)
  BY <1>1, <1>2, <1>3, <1>6
<1>7. CASE o > t /\ Allowed(o, r)
  BY <1>1, <1>2, <1>3, <1>7
<1> QED BY <1>1, <1>4, <1>5, <1>6, <1>7

\* A task that is due by some moment t opens by then, whenever one looks before.
LEMMA OpensInTime ==
    ASSUME NEW n \in Nat, NEW t \in Nat, NEW t0 \in 0..t, NEW r \in Rules, IsDue(n, t, r)
    PROVE  Opening(n, t0, r) \in 0..t
<1>1. n <= t /\ Clamped(t, r) <= t
  BY DEF IsDue
<1>2. CASE r.window = <<>>
  BY <1>1, <1>2 DEF Opening
<1>3. CASE r.window # <<>>
  <2>1. PICK w \in Windows : w = r.window
    BY <1>3 DEF Rules
  <2>2. PICK u \in 0..t : u = Later(n, t0)
    BY <1>1 DEF Later
  <2>3. Opening(n, t0, r) = Clamp(u, w)
    BY <1>3, <2>1, <2>2 DEF Opening
  <2>4. Clamp(t, w) <= t
    BY <1>1, <1>3, <2>1 DEF Clamped
  <2>5. Inside(t, w)
    BY <2>4, ClampIsNextOpening
  <2>6. /\ Clamp(u, w) \in Nat
        /\ \A v \in Nat : u <= v /\ v < Clamp(u, w) => ~Inside(v, w)
    BY ClampIsNextOpening
  <2>7. ~(t < Clamp(u, w))
    BY <2>2, <2>5, <2>6
  <2> QED BY <2>3, <2>6, <2>7
<1> QED BY <1>2, <1>3

\* From a day that is not allowed, the first allowed day comes no later than any
\* other one.
LEMMA AllowedDayComesInTime ==
    ASSUME NEW t \in Nat, NEW b \in 0..t, NEW r \in Rules, ~Allowed(b, r), Allowed(t, r)
    PROVE  NextAllowedDay(b, r) \in 0..(Midnight(t) + Dawn)
<1>1. r.weekdays # {}
  BY DEF Allowed
<1>2. PICK k \in 1..7 :
          /\ NextAllowedDay(b, r) = Midnight(b) + k * Day + Dawn
          /\ \A l \in 1..(k - 1) : ~Allowed(b + l * Day, r)
  BY <1>1, NextAllowedDayIsFirst
<1>3. PICK p \in Nat, q \in Nat : /\ p = b \div Day /\ q = t \div Day
                                  /\ Midnight(b) = p * Day /\ Midnight(t) = q * Day
  BY DEF Midnight, Day
<1>4. p <= q
  BY <1>3 DEF Day
<1>5. \A l \in Nat : (b + l * Day) \div Day = p + l
  BY <1>3 DEF Day
<1>6. p # q
  BY <1>1, <1>3 DEF Allowed, WeekdayOf
<1>7. PICK d \in Nat : d = q - p /\ d >= 1
  BY <1>4, <1>6
<1>8. WeekdayOf(b + d * Day) = WeekdayOf(t)
  <2>1. p + d = q
    BY <1>7
  <2> QED BY <1>3, <1>5, <2>1 DEF WeekdayOf
<1>9. Allowed(b + d * Day, r)
  BY <1>8 DEF Allowed
<1>10. k <= d
  BY <1>2, <1>7, <1>9
<1>11. Midnight(b) + k * Day <= Midnight(t)
  BY <1>3, <1>7, <1>10 DEF Day
<1>12. Midnight(b) + k * Day \in Nat
  BY <1>3 DEF Day
<1> QED BY <1>2, <1>3, <1>11, <1>12 DEF Dawn, Day

\* However early the wait for a due task was computed, it has run out, or does so by
\* 05:00 of today.
LEMMA WaitIsShort ==
    ASSUME NEW n \in Nat, NEW t \in Nat, NEW t0 \in 0..t, NEW r \in Rules, IsDue(n, t, r)
    PROVE  \/ EffectiveNext(n, t0, r) \in 0..t
           \/ r.weekdays # {} /\ EffectiveNext(n, t0, r) \in 0..(Midnight(t) + Dawn)
<1> DEFINE o == Opening(n, t0, r)
<1>1. o \in 0..t
  BY OpensInTime
<1>2. Allowed(t, r)
  BY DEF IsDue
<1>3. EffectiveNext(n, t0, r) = IF o <= t0 /\ ~Allowed(t0, r) THEN NextAllowedDay(t0, r)
                                ELSE IF o > t0 /\ ~Allowed(o, r) THEN NextAllowedDay(o, r)
                                ELSE o
  BY DEF EffectiveNext
<1>4. \A b \in 0..t : ~Allowed(b, r) =>
          r.weekdays # {} /\ NextAllowedDay(b, r) \in 0..(Midnight(t) + Dawn)
  BY <1>2, AllowedDayComesInTime DEF Allowed
<1> HIDE DEF o
<1> QED BY <1>1, <1>3, <1>4

-----------------------------------------------------------------------------
(* The theorems.                                                           *)

\* The bound on next_exec_time.
LEMMA AheadIsNat == \A r \in Rules : Ahead(r) \in Nat /\ Ahead(r) >= 2 * Week + 2 * Day
BY DEF Ahead, Later, Week, Day, Hour, Rules

\* What the proofs use of the type invariant.
LEMMA Typed ==
    ASSUME TypeOK
    PROVE  /\ rule \in Rules
           /\ now \in Nat
           /\ next \in Nat /\ next <= now + Ahead(rule)
<1>1. rule \in Rules
  BY RuleAssumption DEF TypeOK
<1>2. Ahead(rule) \in Nat
  BY <1>1, AheadIsNat
<1> QED BY <1>1, <1>2 DEF TypeOK

\* Every state is well typed, whatever the rules; next_exec_time never lies further
\* ahead than the rule's period and the windows allow.
THEOREM TypeCorrect == Spec => []TypeOK
<1>1. Init => TypeOK
  <2> SUFFICES ASSUME Init PROVE TypeOK
    OBVIOUS
  <2>1. Ahead(rule) \in Nat
    BY RuleAssumption, AheadIsNat DEF Init
  <2>2. 0 \in 0..(now + Ahead(rule))
    BY <2>1, TimeAssumption DEF Init
  <2>3. on \in BOOLEAN /\ woken \in BOOLEAN
    BY Zenon DEF Init
  <2>4. next \in 0..(now + Ahead(rule))
    BY <2>2 DEF Init
  <2>5. saves \in 0..MaxSaves
    BY SavesAssumption DEF Init
  <2>6. now \in Nat /\ wakeAt \in Nat /\ since \in Nat
    BY TimeAssumption DEF Init
  <2>7. rule \in RuleSet /\ pc \in {"awake", "asleep", "check", "run"}
    BY DEF Init
  <2> QED BY <2>3, <2>4, <2>5, <2>6, <2>7 DEF TypeOK
<1>2. TypeOK /\ [Next]_vars => TypeOK'
  <2> SUFFICES ASSUME TypeOK, [Next]_vars PROVE TypeOK'
    OBVIOUS
  <2>1. \A r \in Rules : Ahead(r) \in Nat /\ Ahead(r) >= 2 * Week + 2 * Day
    BY AheadIsNat
  <2>2. /\ rule \in RuleSet /\ rule \in Rules
        /\ now \in Nat /\ wakeAt \in Nat /\ since \in Nat
        /\ next \in Nat /\ next <= now + Ahead(rule)
        /\ on \in BOOLEAN /\ woken \in BOOLEAN
        /\ pc \in {"awake", "asleep", "check", "run"}
        /\ saves \in 0..MaxSaves
    BY Typed DEF TypeOK
  <2>3. SUFFICES /\ rule' \in RuleSet
                 /\ now' \in Nat /\ wakeAt' \in Nat /\ since' \in Nat
                 /\ next' \in Nat /\ next' <= now' + Ahead(rule')
                 /\ on' \in BOOLEAN /\ woken' \in BOOLEAN
                 /\ pc' \in {"awake", "asleep", "check", "run"}
                 /\ saves' \in 0..MaxSaves
    <3>1. \A r \in RuleSet : Ahead(r) \in Nat
      BY <2>1, RuleAssumption
    <3> QED BY <3>1 DEF TypeOK
  <2>4. CASE Tick
    BY <2>1, <2>2, <2>4, TimeAssumption DEF Tick
  <2>5. CASE Sleep
    <3>1. EffectiveNext(next, now, rule) \in Nat
      BY <2>2, EffectiveMatchesDue
    <3>2. wakeAt' \in Nat
      BY <2>2, <2>5, <3>1 DEF Sleep, Later, CheckInterval, Hour
    <3> QED BY <2>2, <2>5, <3>2 DEF Sleep
  <2>6. CASE Wake
    BY <2>2, <2>6 DEF Wake
  <2>7. CASE NotYet
    BY <2>2, <2>7 DEF NotYet
  <2>8. CASE DeferToWindow
    <3>1. Clamped(now, rule) \in Nat /\ Clamped(now, rule) <= now + 2 * Day
      BY <2>2, ClampedLies
    <3>2. next' \in Nat /\ next' <= now' + Ahead(rule')
      BY <2>1, <2>2, <2>8, <3>1 DEF DeferToWindow, Week, Day
    <3> QED BY <2>2, <2>8, <3>2 DEF DeferToWindow
  <2>9. CASE DeferToDay
    <3>1. rule.weekdays # {}
      BY <2>9 DEF DeferToDay, Allowed
    <3>2. NextAllowedDay(now, rule) \in Nat /\ NextAllowedDay(now, rule) <= now + Week + Day
      BY <2>2, <3>1, AllowedDayLies
    <3>3. next' \in Nat /\ next' <= now' + Ahead(rule')
      BY <2>1, <2>2, <2>9, <3>2 DEF DeferToDay, Week, Day
    <3> QED BY <2>2, <2>9, <3>3 DEF DeferToDay
  <2>10. CASE Take
    BY <2>2, <2>10 DEF Take
  <2>11. CASE Finish
    <3>1. CASE rule.mode = "once"
      BY <2>2, <2>11, <3>1 DEF Finish
    <3>2. CASE rule.mode # "once"
      <4>1. PICK e \in Nat : /\ e = NextExec(now, rule)
                             /\ e <= now + Later(2 * Week, rule.hours * Hour)
        BY <2>2, <3>2, NextExecLies
      <4>2. Clamped(e, rule) \in Nat /\ Clamped(e, rule) <= e + 2 * Day
        BY <2>2, ClampedLies
      <4>3. Later(2 * Week, rule.hours * Hour) \in Nat
        BY <2>2 DEF Later, Week, Day, Hour, Rules
      <4>4. NextAfterRun(now, rule) \in Nat /\ NextAfterRun(now, rule) <= now + Ahead(rule)
        BY <2>2, <4>1, <4>2, <4>3 DEF NextAfterRun, Ahead, Day
      <4> QED BY <2>2, <2>11, <3>2, <4>4 DEF Finish
    <3> QED BY <3>1, <3>2
  <2>12. CASE Save
    <3>1. rule' \in RuleSet /\ Ahead(rule') \in Nat
      BY <2>1, <2>12, RuleAssumption DEF Save
    <3>2. saves' \in 0..MaxSaves
      BY <2>2, <2>12, SavesAssumption DEF Save
    <3> QED BY <2>2, <2>12, <3>1, <3>2 DEF Save
  <2>13. CASE UNCHANGED vars
    BY <2>2, <2>13 DEF vars
  <2> QED BY <2>4, <2>5, <2>6, <2>7, <2>8, <2>9, <2>10, <2>11, <2>12, <2>13 DEF Next, Over
<1> QED BY <1>1, <1>2, PTL DEF Spec

\* The loop waits exactly while the task is not due, in every state.
THEOREM WaitIsExact == Spec => []WaitMatchesDue
<1>1. TypeOK => WaitMatchesDue
  <2> SUFFICES ASSUME TypeOK, on
              PROVE EffectiveNext(next, now, rule) <= now <=> IsDue(next, now, rule)
    BY DEF WaitMatchesDue
  <2>1. next \in Nat /\ now \in Nat /\ rule \in Rules
    BY Typed
  <2> QED BY <2>1, EffectiveMatchesDue
<1> QED BY <1>1, TypeCorrect, PTL

\* A task that has run is put off to a later day of the game.
THEOREM PeriodIsKept == Spec => OncePerDay
<1>1. TypeOK /\ [Next]_vars =>
          [Finish /\ rule.mode \in {"daily", "weekly"} => GameDay(next') > GameDay(now)]_vars
  <2> SUFFICES ASSUME TypeOK, Finish, rule.mode \in {"daily", "weekly"}
               PROVE  GameDay(next') > GameDay(now)
    OBVIOUS
  <2>1. now \in Nat /\ rule \in Rules
    BY RuleAssumption DEF TypeOK
  <2>2. next' = NextAfterRun(now, rule)
    BY DEF Finish
  <2> QED BY <2>1, <2>2, NextPeriod
<1> QED BY <1>1, TypeCorrect, PTL DEF Spec, OncePerDay

\* The inductive invariant behind the next theorem: the wait of a sleeping loop was
\* computed at some earlier moment, from the entry as it still is.
SleepInv ==
    pc = "asleep" /\ ~woken /\ on =>
        \E t \in 0..now : wakeAt = Later(t, EffectiveNext(next, t, rule))

LEMMA SleepInvariant == Spec => []SleepInv
<1>1. Init => SleepInv
  BY DEF Init, SleepInv
<1>2. TypeOK /\ SleepInv /\ [Next]_vars => SleepInv'
  <2> SUFFICES ASSUME TypeOK, SleepInv, [Next]_vars,
                      pc' = "asleep", ~woken', on'
               PROVE  \E t \in 0..now' : wakeAt' = Later(t, EffectiveNext(next', t, rule'))
    BY DEF SleepInv
  <2>1. now \in Nat /\ wakeAt \in Nat
    BY DEF TypeOK
  <2>2. CASE Tick
    <3>1. now' \in Nat /\ now <= now'
      BY <2>1, <2>2, TimeAssumption DEF Tick
    <3>2. PICK t \in 0..now : wakeAt = Later(t, EffectiveNext(next, t, rule))
      BY <2>2 DEF Tick, SleepInv
    <3>3. t \in 0..now'
      BY <2>1, <3>1
    <3>4. wakeAt' = Later(t, EffectiveNext(next', t, rule'))
      BY <2>2, <3>2 DEF Tick
    <3> QED BY <3>3, <3>4
  <2>3. CASE Sleep
    <3>1. now \in 0..now' /\ wakeAt' = Later(now, EffectiveNext(next', now, rule'))
      BY <2>1, <2>3 DEF Sleep
    <3> QED BY <3>1
  <2>4. CASE Wake BY <2>4 DEF Wake
  <2>5. CASE NotYet BY <2>5 DEF NotYet
  <2>6. CASE DeferToWindow BY <2>6 DEF DeferToWindow
  <2>7. CASE DeferToDay BY <2>7 DEF DeferToDay
  <2>8. CASE Take BY <2>8 DEF Take
  <2>9. CASE Finish BY <2>9 DEF Finish
  <2>10. CASE Save BY <2>10 DEF Save
  <2>11. CASE UNCHANGED vars
    BY <2>11 DEF vars, SleepInv
  <2> QED BY <2>2, <2>3, <2>4, <2>5, <2>6, <2>7, <2>8, <2>9, <2>10, <2>11 DEF Next, Over
<1> QED BY <1>1, <1>2, TypeCorrect, PTL DEF Spec

\* The loop does not sleep through a due moment.
THEOREM SleepIsSound == Spec => []SleepEndsInTime
<1>1. TypeOK /\ SleepInv => SleepEndsInTime
  <2> SUFFICES ASSUME TypeOK, SleepInv, pc = "asleep", ~woken, on, IsDue(next, now, rule)
               PROVE  wakeAt <= Later(now, IF rule.weekdays = {} THEN now
                                           ELSE Midnight(now) + Dawn)
    BY DEF SleepEndsInTime
  <2>1. next \in Nat /\ now \in Nat /\ rule \in Rules
    BY Typed
  <2>2. PICK t \in 0..now : wakeAt = Later(t, EffectiveNext(next, t, rule))
    BY DEF SleepInv
  <2>3. \/ EffectiveNext(next, t, rule) \in 0..now
        \/ rule.weekdays # {} /\ EffectiveNext(next, t, rule) \in 0..(Midnight(now) + Dawn)
    BY <2>1, WaitIsShort
  <2>4. Midnight(now) + Dawn \in Nat
    BY <2>1, MidnightLies DEF Dawn
  <2> QED BY <2>1, <2>2, <2>3, <2>4 DEF Later
<1> QED BY <1>1, TypeCorrect, SleepInvariant, PTL

\* The clock as a whole: types, the exact wait and the sleep, for every set of rules.
THEOREM ClockSoundness == Spec => []ClockIsSound
<1>1. TypeOK /\ WaitMatchesDue /\ SleepEndsInTime => ClockIsSound
  BY DEF ClockIsSound
<1>2. QED
  BY <1>1, TypeCorrect, WaitIsExact, SleepIsSound, PTL

-----------------------------------------------------------------------------
(* Two weeks do not pass without a run.                                    *)

\* The moments a task may be run at, on and after 05:00 if it has weekdays.
MayRun(d, r) ==
    /\ Clamped(d, r) = d /\ Allowed(d, r)
    /\ r.weekdays # {} => MinuteOf(d) >= Dawn

\* The clamp leads into the window of the same day or the next; from 05:00 on, of the same.
LEMMA ClampedDay ==
    ASSUME NEW t \in Nat, NEW r \in Rules
    PROVE  /\ Clamped(t, r) \in Nat /\ Clamped(t, r) >= t
           /\ Clamped(Clamped(t, r), r) = Clamped(t, r)
           /\ Midnight(Clamped(t, r)) <= Midnight(t) + Day
           /\ Compatible(r) /\ r.weekdays # {} /\ MinuteOf(t) = Dawn =>
                  Midnight(Clamped(t, r)) = Midnight(t)
<1>1. Clamped(t, r) \in Nat /\ Clamped(t, r) >= t
  BY ClampedLies
<1>2. CASE r.window = <<>>
  BY <1>1, <1>2, MidnightLies DEF Clamped, Day
<1>3. CASE r.window # <<>>
  <2>1. PICK w \in Windows : w = r.window
    BY <1>3 DEF Rules
  <2>2. PICK s \in 0..(Day - 1), e \in Nat : s = w[1] * Hour /\ e = w[2] * Hour /\ s < e
    BY WindowHours
  <2>3. PICK c \in Nat : c = Clamp(t, w) /\ Inside(c, w)
    BY ClampIsNextOpening
  <2>4. Clamped(t, r) = c /\ Clamp(c, w) = c /\ Clamped(c, r) = c
    BY <1>3, <2>1, <2>3 DEF Clamped, Clamp
  <2>5. \/ c = t
        \/ c = Midnight(t) + s /\ MinuteOf(t) < s
        \/ c = Midnight(t) + Day + s /\ MinuteOf(t) >= e
    <3>1. MinuteOf(t) \in Nat
      BY MidnightLies
    <3> QED BY <2>2, <2>3, <3>1 DEF Clamp, Inside
  <2>6. /\ Midnight(Midnight(t) + s) = Midnight(t)
        /\ Midnight(Midnight(t) + Day + s) = Midnight(t) + Day
    <3>1. MinuteOf(Midnight(t) + s) = s /\ MinuteOf(Midnight(t) + Day + s) = s
      BY <2>2, MinuteWithinDay
    <3>2. \A u \in Nat : Midnight(u) = u - MinuteOf(u)
      BY DEF Midnight, MinuteOf
    <3>3. Midnight(t) \in Nat /\ Day \in Nat
      BY MidnightLies, DayIsNat
    <3> QED BY <2>2, <3>1, <3>2, <3>3
  <2>7. Midnight(t) \in Nat /\ Day \in Nat
    BY MidnightLies, DayIsNat
  <2>8. Compatible(r) /\ r.weekdays # {} => e > Dawn
    BY <1>3, <2>1, <2>2 DEF Compatible
  <2>9. Midnight(c) <= Midnight(t) + Day
    BY <2>5, <2>6, <2>7
  <2>10. Compatible(r) /\ r.weekdays # {} /\ MinuteOf(t) = Dawn => Midnight(c) = Midnight(t)
    BY <2>5, <2>6, <2>7, <2>8, <2>2 DEF Dawn
  <2> QED BY <1>1, <2>4, <2>9, <2>10
<1> QED BY <1>2, <1>3

\* The day and the minute of a moment that is given by them.
LEMMA MomentOf ==
    ASSUME NEW q \in Nat, NEW m \in 0..(Day - 1)
    PROVE  (q * Day + m) % Day = m /\ (q * Day + m) \div Day = q
BY DEF Day

\* On every day there is a moment from 05:00 on within the window of a rule whose window
\* has not closed by then.
LEMMA OpensEveryDay ==
    ASSUME NEW r \in Rules, Compatible(r), r.weekdays # {}
    PROVE  \E m \in Dawn..(Day - 1) : \A q \in Nat :
               /\ Clamped(q * Day + m, r) = q * Day + m
               /\ MinuteOf(q * Day + m) = m /\ Midnight(q * Day + m) = q * Day
               /\ WeekdayOf(q * Day + m) = (q % 7) + 1
<1>1. \A q \in Nat, m \in Dawn..(Day - 1) :
          /\ MinuteOf(q * Day + m) = m /\ Midnight(q * Day + m) = q * Day
          /\ WeekdayOf(q * Day + m) = (q % 7) + 1
  <2> TAKE q \in Nat, m \in Dawn..(Day - 1)
  <2>1. m \in 0..(Day - 1)
    BY DEF Dawn
  <2>2. (q * Day + m) % Day = m /\ (q * Day + m) \div Day = q
    BY <2>1, MomentOf
  <2>3. q * Day \in Nat
    BY DEF Day
  <2> QED BY <2>1, <2>2, <2>3 DEF MinuteOf, Midnight, WeekdayOf
<1>2. CASE r.window = <<>>
  <2>1. Dawn \in Dawn..(Day - 1)
    BY DEF Dawn, Day
  <2>2. \A q \in Nat : Clamped(q * Day + Dawn, r) = q * Day + Dawn
    BY <1>2 DEF Clamped
  <2> QED BY <1>1, <2>1, <2>2
<1>3. CASE r.window # <<>>
  <2>1. PICK w \in Windows : w = r.window
    BY <1>3 DEF Rules
  <2>2. PICK s \in 0..(Day - 1), e \in Nat : s = w[1] * Hour /\ e = w[2] * Hour /\ s < e
    BY WindowHours
  <2>3. e > Dawn
    BY <1>3, <2>1, <2>2 DEF Compatible
  <2>4. PICK m \in Dawn..(Day - 1) : m = Later(Dawn, s)
    BY <2>2, SMTT(60) DEF Later, Dawn, Day
  <2>5. s <= m /\ m < e
    BY <2>2, <2>3, <2>4 DEF Later, Dawn
  <2>6. ASSUME NEW q \in Nat PROVE Clamped(q * Day + m, r) = q * Day + m
    <3>1. MinuteOf(q * Day + m) = m
      BY <1>1
    <3>2. Inside(q * Day + m, w)
      BY <2>2, <2>5, <3>1 DEF Inside
    <3> QED BY <1>3, <2>1, <3>2 DEF Clamped, Clamp
  <2> QED BY <1>1, <2>6
<1> QED BY <1>2, <1>3

\* From a moment within the window, the task may be run within the same day, or the week if
\* it has weekdays.
LEMMA SomedayRuns ==
    ASSUME NEW t \in Nat, NEW r \in Rules, Compatible(r), Clamped(t, r) = t
    PROVE  \E d \in Nat :
               /\ t <= d /\ MayRun(d, r)
               /\ d < Midnight(t) + IF r.weekdays = {} THEN Day ELSE Week
<1>1. PICK q \in Nat : Midnight(t) = q * Day /\ WeekdayOf(t) = (q % 7) + 1 /\ q = t \div Day
  BY DEF Midnight, WeekdayOf, Day
<1>2. t >= q * Day /\ t < q * Day + Day /\ MinuteOf(t) = t - q * Day
  BY <1>1 DEF Midnight, MinuteOf, Day
<1>3. CASE r.weekdays = {}
  BY <1>1, <1>2, <1>3 DEF MayRun, Allowed
<1>4. CASE r.weekdays # {}
  <2>1. PICK m \in Dawn..(Day - 1) : \A p \in Nat :
            /\ Clamped(p * Day + m, r) = p * Day + m
            /\ MinuteOf(p * Day + m) = m /\ Midnight(p * Day + m) = p * Day
            /\ WeekdayOf(p * Day + m) = (p % 7) + 1
    BY <1>4, OpensEveryDay
  <2>2. CASE Allowed(t, r) /\ MinuteOf(t) >= Dawn
    BY <1>1, <1>2, <1>4, <2>2 DEF MayRun, Day, Week
  <2>3. CASE Allowed(t, r) /\ MinuteOf(t) < Dawn
    <3>1. PICK d \in Nat : d = q * Day + m
      BY DEF Dawn, Day
    <3>2. MayRun(d, r)
      <4>1. Clamped(d, r) = d /\ MinuteOf(d) = m /\ WeekdayOf(d) = WeekdayOf(t)
        BY <1>1, <2>1, <3>1
      <4> QED BY <4>1, <2>3 DEF MayRun, Allowed, Dawn, Day
    <3>3. t <= d /\ d < q * Day + Week
      BY <1>2, <2>3, <3>1 DEF Week, Day, Dawn
    <3> QED BY <1>1, <1>4, <3>2, <3>3
  <2>4. CASE ~Allowed(t, r)
    <3>1. PICK k \in 1..7 : Allowed(t + k * Day, r)
      BY <1>4, NextAllowedDayIsFirst
    <3>2. WeekdayOf(t + k * Day) = ((q + k) % 7) + 1
      <4>1. (t + k * Day) \div Day = q + k
        BY <1>1 DEF Day
      <4> QED BY <4>1 DEF WeekdayOf
    <3>3. k # 7
      <4>1. SUFFICES ASSUME k = 7 PROVE FALSE
        OBVIOUS
      <4>2. WeekdayOf(t + k * Day) = WeekdayOf(t)
        BY <1>1, <3>2, <4>1
      <4> QED BY <2>4, <3>1, <4>2 DEF Allowed
    <3>4. PICK d \in Nat : d = (q + k) * Day + m
      BY DEF Dawn, Day
    <3>5. Clamped(d, r) = d /\ MinuteOf(d) = m /\ WeekdayOf(d) = WeekdayOf(t + k * Day)
      <4>1. q + k \in Nat
        OBVIOUS
      <4> QED BY <2>1, <3>2, <3>4, <4>1
    <3>6. MayRun(d, r)
      BY <3>1, <3>5 DEF MayRun, Allowed, Dawn, Day
    <3>7. t <= d /\ d < q * Day + Week
      BY <1>2, <3>3, <3>4 DEF Week, Day, Dawn
    <3> QED BY <1>1, <1>4, <3>6, <3>7
  <2>5. MinuteOf(t) < Dawn \/ MinuteOf(t) >= Dawn
    BY MidnightLies DEF Dawn
  <2> QED BY <2>2, <2>3, <2>4, <2>5
<1> QED BY <1>3, <1>4

\* What is at most a week and a day ahead, or the task's own offset and that.
LEMMA LongestLies ==
    ASSUME NEW r \in Rules
    PROVE  /\ Longest(r) \in Nat /\ Longest(r) >= Fortnight
           /\ Longest(r) >= r.hours * Hour + 8 * Day
<1>1. PICK h \in Nat : h = r.hours
  BY DEF Rules
<1> QED BY <1>1 DEF Longest, Later, Fortnight, Week, Hour, Day

\* From any moment, the task may be run within the longest time.
LEMMA RunsFromNow ==
    ASSUME NEW t \in Nat, NEW r \in Rules, Compatible(r)
    PROVE  \E d \in Nat : t <= d /\ d <= t + Longest(r) /\ MayRun(d, r)
<1>1. PICK c \in Nat : /\ c = Clamped(t, r) /\ c >= t /\ Clamped(c, r) = c
                       /\ Midnight(c) <= Midnight(t) + Day
  BY ClampedDay
<1>2. PICK d \in Nat : /\ c <= d /\ MayRun(d, r)
                       /\ d < Midnight(c) + IF r.weekdays = {} THEN Day ELSE Week
  BY <1>1, SomedayRuns
<1>3. /\ Midnight(t) \in Nat /\ Midnight(t) <= t
      /\ Midnight(c) \in Nat
      /\ Longest(r) \in Nat /\ Longest(r) >= Fortnight
  BY MidnightLies, LongestLies
<1>4. t <= d /\ d <= t + Longest(r)
  BY <1>1, <1>2, <1>3 DEF Fortnight, Week, Day
<1> QED BY <1>2, <1>4

\* From the time that a run sets, it may be run within the longest time of that run.
LEMMA RunsAfterRun ==
    ASSUME NEW t \in Nat, NEW r \in Rules, Compatible(r), r.mode # "once"
    PROVE  \E d \in Nat : NextAfterRun(t, r) <= d /\ d <= t + Longest(r) /\ MayRun(d, r)
<1>1. PICK n \in Nat : n = NextExec(t, r)
  BY NextExecLies
<1>2. PICK c \in Nat :
          /\ c = Clamped(n, r) /\ c >= n /\ Clamped(c, r) = c
          /\ Midnight(c) <= Midnight(n) + Day
          /\ r.weekdays # {} /\ MinuteOf(n) = Dawn => Midnight(c) = Midnight(n)
  BY ClampedDay
<1>3. PICK d \in Nat : /\ c <= d /\ MayRun(d, r)
                       /\ d < Midnight(c) + IF r.weekdays = {} THEN Day ELSE Week
  BY <1>2, SomedayRuns
<1>4. /\ Midnight(t) \in Nat /\ Midnight(t) <= t /\ Midnight(c) \in Nat
      /\ Midnight(n) \in Nat /\ Midnight(n) <= n
      /\ Longest(r) \in Nat /\ Longest(r) >= Fortnight
      /\ Longest(r) >= r.hours * Hour + 8 * Day
  BY MidnightLies, LongestLies
<1>5. d <= t + Longest(r)
  <2>1. CASE r.mode = "offset"
    <3>1. PICK h \in Nat : h = r.hours * Hour /\ n = t + h
      BY <1>1, <2>1 DEF NextExec, Rules, Hour
    <3> QED BY <1>2, <1>3, <1>4, <3>1 DEF Week, Day
  <2>2. CASE r.mode \in {"daily", "weekly"}
    <3>1. PICK q \in Nat : n = q * Day + Dawn /\ q * Day <= Midnight(t) + Week
      <4>1. PICK p \in Nat, w \in 1..7 : Midnight(t) = p * Day /\ w = WeekdayOf(t)
        BY DEF Midnight, WeekdayOf, Day
      <4>2. CASE r.mode = "daily"
        <5>1. n = p * Day + Dawn \/ n = (p + 1) * Day + Dawn
          BY <1>1, <4>1, <4>2 DEF NextExec, NextDailyDay, Day
        <5>2. p * Day <= p * Day + Week /\ (p + 1) * Day <= p * Day + Week
          BY DEF Day, Week
        <5> QED BY <4>1, <5>1, <5>2
      <4>3. CASE r.mode = "weekly"
        <5>1. n = p * Day + Dawn \/ n = (p + (8 - w)) * Day + Dawn
          BY <1>1, <4>1, <4>3 DEF NextExec, NextWeeklyDay, DaysToMonday, Day
        <5>2. /\ p * Day <= p * Day + Week /\ (p + (8 - w)) * Day <= p * Day + Week
              /\ p + (8 - w) \in Nat
          BY DEF Day, Week
        <5> QED BY <4>1, <5>1, <5>2
      <4> QED BY <2>2, <4>2, <4>3
    <3>2. MinuteOf(n) = Dawn /\ Midnight(n) = q * Day
      BY <3>1 DEF MinuteOf, Midnight, Dawn, Day
    <3>3. PICK x \in Nat : x = q * Day /\ x <= Midnight(t) + Week
      BY <3>1 DEF Day
    <3> QED BY <1>2, <1>3, <1>4, <3>2, <3>3 DEF Fortnight, Week, Day
  <2> QED BY <2>1, <2>2 DEF Rules
<1> QED BY <1>1, <1>2, <1>3, <1>5 DEF NextAfterRun

\* The time that a run sets is not before the run.
LEMMA AfterRunLies ==
    ASSUME NEW t \in Nat, NEW r \in Rules, r.mode # "once"
    PROVE  NextAfterRun(t, r) \in Nat /\ t <= NextAfterRun(t, r)
<1>1. PICK n \in Nat : n = NextExec(t, r)
  BY NextExecLies
<1>2. t <= n
  <2>1. PICK h \in Nat : h = r.hours * Hour
    BY DEF Rules, Hour
  <2>2. PICK p \in Nat, m \in 0..(Day - 1), w \in 1..7 :
            Midnight(t) = p /\ MinuteOf(t) = m /\ t = p + m /\ WeekdayOf(t) = w
    BY DayArithmetic, WeekdayIsDay DEF Weekdays
  <2>3. CASE r.mode = "offset"
    BY <1>1, <2>1, <2>3 DEF NextExec
  <2>4. CASE r.mode = "daily"
    BY <1>1, <2>2, <2>4, SMTT(60) DEF NextExec, NextDailyDay, Day, Dawn
  <2>5. CASE r.mode = "weekly"
    BY <1>1, <2>2, <2>5, SMTT(60) DEF NextExec, NextWeeklyDay, DaysToMonday, Day, Dawn
  <2> QED BY <2>3, <2>4, <2>5 DEF Rules
<1>3. Clamped(n, r) \in Nat /\ Clamped(n, r) >= n
  BY ClampedLies
<1> QED BY <1>1, <1>2, <1>3 DEF NextAfterRun

\* The inductive invariant: there is a moment within the longest time, which neither the clock
\* nor next_exec_time nor the wait passes by, at which the task may be run.
RunIsAhead ==
    on /\ pc # "run" /\ Compatible(rule) =>
        \E d \in Nat :
            /\ d <= since + Longest(rule) /\ MayRun(d, rule)
            /\ now <= d /\ next <= d
            /\ pc = "asleep" /\ ~woken => wakeAt <= d

\* A task that is to be run by d is not put off beyond it.
LEMMA WaitEndsBefore ==
    ASSUME NEW n \in Nat, NEW d \in Nat, NEW t \in 0..d, NEW r \in Rules,
           MayRun(d, r), n <= d
    PROVE  Later(t, EffectiveNext(n, t, r)) <= d
<1>1. IsDue(n, d, r)
  BY DEF IsDue, MayRun
<1>2. \/ EffectiveNext(n, t, r) \in 0..d
      \/ r.weekdays # {} /\ EffectiveNext(n, t, r) \in 0..(Midnight(d) + Dawn)
  BY <1>1, WaitIsShort
<1>3. r.weekdays # {} => Midnight(d) + Dawn <= d
  BY DEF MayRun, Midnight, MinuteOf, Dawn, Day
<1>4. Midnight(d) + Dawn \in Nat
  BY MidnightLies DEF Dawn
<1> QED BY <1>2, <1>3, <1>4 DEF Later

\* Neither deferral leads beyond it.
LEMMA DeferralEndsBefore ==
    ASSUME NEW d \in Nat, NEW t \in 0..d, NEW r \in Rules, MayRun(d, r)
    PROVE  /\ Clamped(t, r) <= d
           /\ ~Allowed(t, r) => NextAllowedDay(t, r) <= d
<1>1. Clamped(t, r) <= d
  <2>1. CASE r.window = <<>>
    BY <2>1 DEF Clamped
  <2>2. CASE r.window # <<>>
    <3>1. PICK w \in Windows : w = r.window
      BY <2>2 DEF Rules
    <3>2. Clamp(d, w) = d
      BY <2>2, <3>1 DEF MayRun, Clamped
    <3>3. Inside(d, w)
      BY <3>2, ClampIsNextOpening
    <3>4. /\ Clamp(t, w) \in Nat
          /\ \A u \in Nat : t <= u /\ u < Clamp(t, w) => ~Inside(u, w)
      BY ClampIsNextOpening
    <3>5. ~(d < Clamp(t, w))
      BY <3>3, <3>4
    <3> QED BY <2>2, <3>1, <3>4, <3>5 DEF Clamped
  <2> QED BY <2>1, <2>2
<1>2. ASSUME ~Allowed(t, r) PROVE NextAllowedDay(t, r) <= d
  <2>1. Allowed(d, r) /\ r.weekdays # {}
    BY <1>2 DEF MayRun, Allowed
  <2>2. NextAllowedDay(t, r) \in 0..(Midnight(d) + Dawn)
    BY <1>2, <2>1, AllowedDayComesInTime
  <2>3. Midnight(d) + Dawn <= d /\ Midnight(d) + Dawn \in Nat
    BY <2>1, MidnightLies DEF MayRun, Midnight, MinuteOf, Dawn, Day
  <2> QED BY <2>2, <2>3
<1> QED BY <1>1, <1>2

\* The moment of before the step is one of after it.
LEMMA StillAhead ==
    ASSUME TypeOK, RunIsAhead, pc # "run", on' => on,
           rule' = rule, since' = since,
           \A d \in Nat :
               /\ on /\ Compatible(rule) /\ MayRun(d, rule) /\ now <= d /\ next <= d
               /\ pc = "asleep" /\ ~woken => wakeAt <= d
               => /\ now' <= d /\ next' <= d
                  /\ pc' = "asleep" /\ ~woken' => wakeAt' <= d
    PROVE  RunIsAhead'
BY DEF RunIsAhead

\* Two weeks do not pass without a run, whatever the rules, the saves and the passing of time.
THEOREM FortnightIsKept == Spec => []RunsWithinFortnight
<1>1. Init => RunIsAhead
  <2> SUFFICES ASSUME Init, Compatible(rule)
               PROVE  \E d \in Nat :
                          /\ d <= since + Longest(rule) /\ MayRun(d, rule)
                          /\ now <= d /\ next <= d
                          /\ pc = "asleep" /\ ~woken => wakeAt <= d
    BY DEF RunIsAhead
  <2>1. Start \in Nat /\ rule \in Rules
    BY RuleAssumption, TimeAssumption DEF Init
  <2>2. PICK d \in Nat : Start <= d /\ d <= Start + Longest(rule) /\ MayRun(d, rule)
    BY <2>1, RunsFromNow
  <2> QED BY <2>1, <2>2 DEF Init
<1>2. TypeOK /\ TypeOK' /\ RunIsAhead /\ [Next]_vars => RunIsAhead'
  <2> SUFFICES ASSUME TypeOK, TypeOK', RunIsAhead, [Next]_vars PROVE RunIsAhead'
    OBVIOUS
  <2>1. /\ now \in Nat /\ next \in Nat /\ rule \in Rules /\ wakeAt \in Nat
        /\ rule' \in Rules
    BY Typed, RuleAssumption DEF TypeOK
  <2>2. CASE Tick /\ pc = "run"
    BY <2>2 DEF Tick, RunIsAhead
  <2>3. CASE Tick /\ pc # "run"
    <3>1. now' <= wakeAt
      BY <2>1, <2>3, TimeAssumption DEF Tick
    <3>2. now' \in Nat
      BY DEF TypeOK
    <3> QED BY <2>1, <2>3, <3>1, <3>2, StillAhead DEF Tick
  <2>4. CASE Sleep
    <3>1. pc # "run" /\ UNCHANGED <<rule, now, on, next, since>>
      BY <2>4 DEF Sleep
    <3>2. on => wakeAt' = Later(now, EffectiveNext(next, now, rule))
      BY <2>4 DEF Sleep
    <3>3. ASSUME NEW d \in Nat, on, MayRun(d, rule), now <= d, next <= d PROVE wakeAt' <= d
      BY <2>1, <3>2, <3>3, WaitEndsBefore
    <3> QED BY <3>1, <3>3, StillAhead
  <2>5. CASE Wake \/ NotYet
    <3>1. /\ pc # "run" /\ pc' # "asleep"
          /\ UNCHANGED <<rule, now, on, next, since>>
      BY <2>5 DEF Wake, NotYet
    <3> QED BY <3>1, StillAhead
  <2>6. CASE DeferToWindow \/ DeferToDay
    <3>1. pc # "run" /\ pc' # "asleep" /\ UNCHANGED <<rule, now, on, since>>
      BY <2>6 DEF DeferToWindow, DeferToDay, Reached
    <3>2. next' = Clamped(now, rule) \/ (next' = NextAllowedDay(now, rule) /\ ~Allowed(now, rule))
      BY <2>6 DEF DeferToWindow, DeferToDay
    <3>3. ASSUME NEW d \in Nat, MayRun(d, rule), now <= d PROVE next' <= d
      BY <2>1, <3>2, <3>3, DeferralEndsBefore
    <3> QED BY <3>1, <3>3, StillAhead
  <2>7. CASE Take
    BY <2>7 DEF Take, RunIsAhead
  <2>8. CASE Finish
    <3>1. CASE rule.mode = "once"
      BY <2>8, <3>1 DEF Finish, RunIsAhead
    <3>2. CASE rule.mode # "once"
      <4>1. /\ next' = NextAfterRun(now, rule) /\ since' = now /\ UNCHANGED <<rule, now>>
            /\ pc' = "check"
        BY <2>8, <3>2 DEF Finish
      <4>2. SUFFICES ASSUME Compatible(rule)
                     PROVE  \E d \in Nat : /\ d <= now + Longest(rule) /\ MayRun(d, rule)
                                           /\ now <= d /\ next' <= d
        BY <4>1, <4>2 DEF RunIsAhead
      <4>3. PICK d \in Nat : /\ NextAfterRun(now, rule) <= d /\ d <= now + Longest(rule)
                             /\ MayRun(d, rule)
        BY <2>1, <3>2, <4>2, RunsAfterRun
      <4>4. now <= NextAfterRun(now, rule) /\ NextAfterRun(now, rule) \in Nat
        BY <2>1, <3>2, AfterRunLies
      <4> QED BY <2>1, <4>1, <4>3, <4>4
    <3> QED BY <3>1, <3>2
  <2>9. CASE Save
    <3>1. /\ next' = 0 /\ since' = now /\ now' = now /\ woken'
      BY <2>9 DEF Save
    <3>2. SUFFICES ASSUME Compatible(rule')
                   PROVE  \E d \in Nat : /\ d <= now + Longest(rule') /\ MayRun(d, rule')
                                         /\ now <= d
      BY <3>1, <3>2 DEF RunIsAhead
    <3> QED BY <2>1, <3>2, RunsFromNow
  <2>10. CASE UNCHANGED vars
    BY <2>10 DEF vars, RunIsAhead
  <2> QED BY <2>2, <2>3, <2>4, <2>5, <2>6, <2>7, <2>8, <2>9, <2>10 DEF Next, Over
<1>3. TypeOK /\ RunIsAhead => RunsWithinFortnight
  <2> SUFFICES ASSUME TypeOK, RunIsAhead, on, pc = "asleep", ~woken, Compatible(rule)
               PROVE  wakeAt <= since + Longest(rule)
    BY DEF RunsWithinFortnight
  <2>1. wakeAt \in Nat /\ since \in Nat /\ Longest(rule) \in Nat
    BY Typed, LongestLies DEF TypeOK
  <2>2. PICK d \in Nat : d <= since + Longest(rule) /\ wakeAt <= d
    BY DEF RunIsAhead
  <2> QED BY <2>1, <2>2
<1> QED BY <1>1, <1>2, <1>3, TypeCorrect, PTL DEF Spec

-----------------------------------------------------------------------------
(* The time that is shown.                                                 *)

\* The day that a task is put off to is allowed.
LEMMA AllowedDayIsAllowed ==
    ASSUME NEW t \in Nat, NEW r \in Rules, r.weekdays # {}
    PROVE  Allowed(NextAllowedDay(t, r), r)
<1>1. PICK k \in 1..7 : /\ NextAllowedDay(t, r) = Midnight(t) + k * Day + Dawn
                        /\ Allowed(t + k * Day, r)
  BY NextAllowedDayIsFirst
<1>2. PICK q \in Nat : Midnight(t) = q * Day /\ q = t \div Day
  BY DEF Midnight, Day
<1>3. (t + k * Day) \div Day = q + k
  BY <1>2 DEF Day
<1>4. (Midnight(t) + k * Day + Dawn) \div Day = q + k
  BY <1>2 DEF Day, Dawn
<1> QED BY <1>1, <1>3, <1>4 DEF Allowed, WeekdayOf

\* Of a task with a window or weekdays, not both, the time that is shown is one it is due at.
LEMMA ShownTimeIsDue ==
    ASSUME NEW n \in Nat, NEW t \in Nat, NEW r \in Rules, r.window = <<>> \/ r.weekdays = {}
    PROVE  IsDue(n, Later(t, EffectiveNext(n, t, r)), r)
<1>1. PICK e \in Nat : e = EffectiveNext(n, t, r) /\ (e <= t <=> IsDue(n, t, r))
  BY EffectiveMatchesDue
<1>2. CASE e <= t
  BY <1>1, <1>2 DEF Later
<1>3. CASE e > t
  <2>1. Later(t, e) = e
    BY <1>3 DEF Later
  <2>2. SUFFICES IsDue(n, e, r)
    BY <1>1, <2>1
  <2>3. CASE r.weekdays = {}
    <3>1. e = Opening(n, t, r) /\ Allowed(e, r)
      BY <1>1, <2>3 DEF EffectiveNext, Allowed
    <3>2. CASE r.window = <<>>
      BY <1>3, <3>1, <3>2 DEF Opening, IsDue, Clamped
    <3>3. CASE r.window # <<>>
      <4>1. PICK w \in Windows : w = r.window
        BY <3>3 DEF Rules
      <4>2. PICK u \in Nat : u = Later(n, t) /\ n <= u
        BY DEF Later
      <4>3. e = Clamp(u, w)
        BY <3>1, <3>3, <4>1, <4>2 DEF Opening
      <4>4. e >= u /\ Inside(e, w)
        BY <4>3, ClampIsNextOpening
      <4>5. Clamped(e, r) = e
        BY <3>3, <4>1, <4>4 DEF Clamped, Clamp
      <4> QED BY <3>1, <4>2, <4>4, <4>5 DEF IsDue
    <3> QED BY <3>2, <3>3
  <2>4. CASE r.weekdays # {}
    <3>1. r.window = <<>>
      BY <2>4
    <3>2. PICK o \in Nat : o = Opening(n, t, r) /\ (o > t => o = n) /\ (o <= t => n <= t)
      BY <3>1 DEF Opening
    <3>3. \A a \in Nat : Clamped(a, r) = a
      BY <3>1 DEF Clamped
    <3>4. \A a \in Nat : /\ NextAllowedDay(a, r) \in Nat /\ NextAllowedDay(a, r) > a
                         /\ Allowed(NextAllowedDay(a, r), r)
      BY <2>4, AllowedDayLies, AllowedDayIsAllowed
    <3>5. CASE o <= t /\ ~Allowed(t, r)
      <4>1. e = NextAllowedDay(t, r)
        BY <1>1, <3>2, <3>5 DEF EffectiveNext
      <4>2. e > t /\ Allowed(e, r) /\ Clamped(e, r) = e
        BY <3>3, <3>4, <4>1
      <4> QED BY <3>2, <3>5, <4>2 DEF IsDue
    <3>6. CASE o > t /\ ~Allowed(o, r)
      <4>1. e = NextAllowedDay(o, r)
        BY <1>1, <3>2, <3>6 DEF EffectiveNext
      <4> QED BY <3>2, <3>3, <3>4, <3>6, <4>1, SMTT(60) DEF IsDue
    <3>7. CASE (o > t /\ Allowed(o, r)) \/ (o <= t /\ Allowed(t, r))
      <4>1. e = o
        BY <1>1, <3>2, <3>7 DEF EffectiveNext
      <4> QED BY <1>3, <3>2, <3>3, <3>7, <4>1 DEF IsDue
    <3> QED BY <3>2, <3>5, <3>6, <3>7
  <2> QED BY <2>3, <2>4
<1> QED BY <1>1, <1>2, <1>3

\* When the wait for the time that is shown runs out, the task is due: it is taken, and not
\* put off once more.
THEOREM ShownTimeIsKept == Spec => ShownIsDue
<1>1. TypeOK /\ SleepInv /\ [Next]_vars =>
          [Wake /\ now = wakeAt /\ ~woken /\ on /\ (rule.window = <<>> \/ rule.weekdays = {})
              => IsDue(next, now, rule)]_vars
  <2> SUFFICES ASSUME TypeOK, SleepInv, Wake, now = wakeAt, ~woken, on,
                      rule.window = <<>> \/ rule.weekdays = {}
               PROVE  IsDue(next, now, rule)
    OBVIOUS
  <2>1. next \in Nat /\ now \in Nat /\ rule \in Rules
    BY Typed
  <2>2. PICK t \in 0..now : wakeAt = Later(t, EffectiveNext(next, t, rule))
    BY DEF SleepInv, Wake
  <2>3. t \in Nat
    BY <2>1
  <2> QED BY <2>1, <2>2, <2>3, ShownTimeIsDue
<1> QED BY <1>1, TypeCorrect, SleepInvariant, PTL DEF Spec, ShownIsDue

-----------------------------------------------------------------------------
(* Reading text off a frame (OcrEngine).                                   *)

OcrTypes ==
    /\ init \in {"starting", "ready", "failed"} /\ own \subseteq Threads
    /\ ticks \in 0 .. TextHorizon
    /\ reader \in [Ocr!Readers -> {"idle", "lookup", "engine", "reading", "over"}]
    /\ image \in [Ocr!Readers -> Ocr!Images \cup {Ocr!NoImage}]
    /\ DOMAIN want = Ocr!Readers /\ DOMAIN answer = Ocr!Readers /\ DOMAIN asked = Ocr!Readers
    /\ IsFiniteSet(DOMAIN cache) /\ Cardinality(DOMAIN cache) <= CacheMax

\* A reader at work has something to look for, and no answer yet; one that reads has its engine.
AtWorkReading ==
    \A r \in Ocr!Readers :
        /\ reader[r] \in {"lookup", "engine", "reading"}
           => image[r] \in Ocr!Images /\ want[r] \in Labels
        /\ reader[r] # "over" => answer[r] \notin {"found", "absent"}
        /\ reader[r] = "reading" => r \in own \cup {Http}

\* What is kept under a fingerprint is what an engine makes of the images that have it.
KeptIsRead ==
    \A key \in DOMAIN cache : \A i \in Ocr!Images :
        Ocr!Fingerprint(i) = key => cache[key].text = Ocr!Text(i)

OcrIInv == OcrTypes /\ AtWorkReading /\ KeptIsRead /\ Ocr!TextIsOfItsFrame

LEMMA InitOcrIInv == Ocr!Init => OcrIInv
<1> SUFFICES ASSUME Ocr!Init PROVE OcrIInv
  OBVIOUS
<1>1. cache = <<>> /\ DOMAIN cache = {} /\ Cardinality({}) = 0 /\ IsFiniteSet({})
  BY FS_EmptySet DEF Ocr!Init
<1> QED BY <1>1, TextAssumption DEF Ocr!Init, OcrIInv, OcrTypes, AtWorkReading, KeptIsRead,
           Ocr!TextIsOfItsFrame, Ocr!Lost

LEMMA HowMany == \A S : Ocr!Cardinality(S) = Cardinality(S)
BY DEF Ocr!Cardinality, Cardinality

\* The results after one more: as many as there may be, each the new one or one there was.
LEMMA KeptOnes ==
    ASSUME IsFiniteSet(DOMAIN cache), Cardinality(DOMAIN cache) <= CacheMax,
           NEW key, NEW one, NEW kept \in Ocr!Kept(key, one)
    PROVE  /\ IsFiniteSet(DOMAIN kept) /\ Cardinality(DOMAIN kept) <= CacheMax
           /\ \A k \in DOMAIN kept : \/ k = key /\ kept[k] = one
                                     \/ k \in DOMAIN cache /\ kept[k] = cache[k]
<1> DEFINE all == [k \in DOMAIN cache \cup {key} |-> IF k = key THEN one ELSE cache[k]]
<1>1. DOMAIN all = DOMAIN cache \cup {key}
  OBVIOUS
<1>2. /\ IsFiniteSet(DOMAIN all)
      /\ Cardinality(DOMAIN all) \in Nat /\ Cardinality(DOMAIN all) <= CacheMax + 1
  <2>1. /\ IsFiniteSet(DOMAIN cache \cup {key})
        /\ Cardinality(DOMAIN cache \cup {key}) = IF key \in DOMAIN cache
              THEN Cardinality(DOMAIN cache) ELSE Cardinality(DOMAIN cache) + 1
    BY FS_AddElement
  <2>2. Cardinality(DOMAIN cache) \in Nat /\ CacheMax \in Nat
    BY FS_CardinalityType, TextAssumption
  <2> QED BY <1>1, <2>1, <2>2
<1>3. CASE kept = all /\ Cardinality(DOMAIN all) <= CacheMax
  BY <1>1, <1>2, <1>3
<1>4. CASE \E k \in DOMAIN all : kept = [l \in DOMAIN all \ {k} |-> all[l]]
  <2>1. PICK k \in DOMAIN all : kept = [l \in DOMAIN all \ {k} |-> all[l]]
    BY <1>4
  <2>2. DOMAIN kept = DOMAIN all \ {k} /\ \A l \in DOMAIN kept : kept[l] = all[l]
    BY <2>1
  <2>3. /\ IsFiniteSet(DOMAIN all \ {k})
        /\ Cardinality(DOMAIN all \ {k}) = Cardinality(DOMAIN all) - 1
    BY <1>2, <2>1, FS_RemoveElement
  <2>4. Cardinality(DOMAIN kept) <= CacheMax
    BY <1>2, <2>2, <2>3, TextAssumption
  <2> QED BY <1>1, <2>2, <2>3, <2>4
<1> QED BY <1>3, <1>4, HowMany DEF Ocr!Kept

\* An answer is what the text says: of the frame that was looked at.
LEMMA JudgeIsFair ==
    ASSUME OcrIInv, NEW r \in Ocr!Readers, reader[r] \in {"lookup", "reading"},
           Ocr!Judge(r, Ocr!Text(image[r])), want' = want
    PROVE  /\ reader' \in [Ocr!Readers -> {"idle", "lookup", "engine", "reading", "over"}]
           /\ image' \in [Ocr!Readers -> Ocr!Images \cup {Ocr!NoImage}]
           /\ DOMAIN answer' = Ocr!Readers
           /\ Ocr!TextIsOfItsFrame'
           /\ \A s \in Ocr!Readers :
                 /\ reader'[s] \in {"lookup", "engine", "reading"} =>
                       image'[s] \in Ocr!Images /\ want[s] \in Labels
                 /\ reader'[s] # "over" => answer'[s] \notin {"found", "absent"}
                 /\ reader'[s] = "reading" => reader[s] = "reading"
<1>1. /\ image[r] \in Ocr!Images /\ want[r] \in Labels /\ answer[r] \notin {"found", "absent"}
      /\ want[r] # Ocr!Lost
  BY TextAssumption DEF OcrIInv, AtWorkReading, Ocr!Lost
<1>2. image[r].scale = "full" => Ocr!Text(image[r]) = image[r].frame.label
  BY <1>1 DEF Ocr!Text
<1>3. Ocr!Text(image[r]) = want[r] => image[r].frame.label = want[r]
  BY <1>1 DEF Ocr!Text
<1>4. CASE Ocr!Text(image[r]) = want[r] /\ Ocr!Answer(r, "found") /\ UNCHANGED image
  BY <1>1, <1>3, <1>4 DEF OcrIInv, OcrTypes, AtWorkReading, Ocr!TextIsOfItsFrame, Ocr!Answer
<1>5. CASE /\ Ocr!Text(image[r]) # want[r] /\ image[r].scale = "full"
           /\ Ocr!Answer(r, "absent") /\ UNCHANGED image
  BY <1>1, <1>2, <1>5 DEF OcrIInv, OcrTypes, AtWorkReading, Ocr!TextIsOfItsFrame, Ocr!Answer
<1>6. CASE /\ image' = [image EXCEPT ![r].scale = "full"]
           /\ reader' = [reader EXCEPT ![r] = "lookup"] /\ UNCHANGED answer
  <2>1. image'[r] \in Ocr!Images /\ \A s \in Ocr!Readers \ {r} : image'[s] = image[s]
    BY <1>1, <1>6 DEF OcrIInv, OcrTypes, Ocr!Images
  <2>2. image' \in [Ocr!Readers -> Ocr!Images \cup {Ocr!NoImage}]
    BY <1>1, <1>6, <2>1 DEF OcrIInv, OcrTypes
  <2> QED BY <1>1, <1>6, <2>1, <2>2 DEF OcrIInv, OcrTypes, AtWorkReading, Ocr!TextIsOfItsFrame
<1> QED BY <1>4, <1>5, <1>6 DEF Ocr!Judge

LEMMA NextOcrIInv == OcrIInv /\ [Ocr!Next]_(Ocr!vars) => OcrIInv'
<1> SUFFICES ASSUME OcrIInv, [Ocr!Next]_(Ocr!vars) PROVE OcrIInv'
  OBVIOUS
<1> USE DEF OcrIInv
<1>1. CASE Ocr!Ready
  BY <1>1 DEF Ocr!Ready, OcrTypes, AtWorkReading, KeptIsRead, Ocr!TextIsOfItsFrame
<1>2. CASE Ocr!Tick
  BY <1>2, TextAssumption DEF Ocr!Tick, OcrTypes, AtWorkReading, KeptIsRead, Ocr!TextIsOfItsFrame
<1>3. ASSUME NEW r \in Ocr!Readers, NEW frame \in Frames, NEW label \in Labels, Ocr!Ask(r, frame,
             label)
      PROVE  OcrIInv'
  <2>1. /\ want' = [want EXCEPT ![r] = label]
        /\ image' = [image EXCEPT ![r] =
                            [frame |-> frame, scale |-> IF r = Http THEN "full" ELSE "half"]]
        /\ reader[r] = "idle" /\ answer' = answer
        /\ reader' = [reader EXCEPT ![r] = IF r = Http THEN "engine" ELSE "lookup"]
        /\ UNCHANGED <<init, own, cache, asked, ticks>>
    BY <1>3 DEF Ocr!Ask
  <2>2. [frame |-> frame, scale |-> IF r = Http THEN "full" ELSE "half"] \in Ocr!Images
    BY DEF Ocr!Images
  <2>3. OcrTypes'
    BY <2>1, <2>2 DEF OcrTypes
  <2>4. AtWorkReading'
    BY <2>1, <2>2 DEF OcrTypes, AtWorkReading
  <2>5. KeptIsRead'
    BY <2>1 DEF KeptIsRead
  <2>6. Ocr!TextIsOfItsFrame'
    BY <2>1 DEF OcrTypes, AtWorkReading, Ocr!TextIsOfItsFrame
  <2> QED BY <2>3, <2>4, <2>5, <2>6
<1>4. ASSUME NEW r \in Ocr!Readers, Ocr!Lookup(r) PROVE OcrIInv'
  <2> DEFINE key == Ocr!Fingerprint(image[r])
  <2>1. reader[r] = "lookup" /\ UNCHANGED <<init, own, cache, want, ticks>>
    BY <1>4 DEF Ocr!Lookup
  <2>2. KeptIsRead'
    BY <2>1 DEF KeptIsRead
  <2>3. ASSUME key \in DOMAIN cache, Ocr!Judge(r, cache[key].text), UNCHANGED asked PROVE OcrIInv'
    <3>1. image[r] \in Ocr!Images
      BY <2>1 DEF AtWorkReading
    <3>2. cache[key].text = Ocr!Text(image[r])
      BY <2>3, <3>1 DEF KeptIsRead
    <3>3. Ocr!Judge(r, Ocr!Text(image[r]))
      BY <2>3, <3>2
    <3>4. /\ reader' \in [Ocr!Readers -> {"idle", "lookup", "engine", "reading", "over"}]
          /\ image' \in [Ocr!Readers -> Ocr!Images \cup {Ocr!NoImage}]
          /\ DOMAIN answer' = Ocr!Readers
          /\ Ocr!TextIsOfItsFrame'
          /\ \A s \in Ocr!Readers :
                 /\ reader'[s] \in {"lookup", "engine", "reading"} =>
                       image'[s] \in Ocr!Images /\ want[s] \in Labels
                 /\ reader'[s] # "over" => answer'[s] \notin {"found", "absent"}
                 /\ reader'[s] = "reading" => reader[s] = "reading"
      BY <2>1, <3>3, JudgeIsFair
    <3>5. OcrTypes'
      BY <2>1, <2>3, <3>4 DEF OcrTypes
    <3>6. AtWorkReading'
      BY <2>1, <3>4 DEF AtWorkReading
    <3> QED BY <2>2, <3>4, <3>5, <3>6
  <2>4. ASSUME reader' = [reader EXCEPT ![r] = "engine"], asked' = [asked EXCEPT ![r] = ticks],
               UNCHANGED <<answer, image>>
        PROVE  OcrIInv'
    <3>1. OcrTypes'
      BY <2>1, <2>4 DEF OcrTypes
    <3> QED BY <2>1, <2>2, <2>4, <3>1 DEF OcrTypes, AtWorkReading, Ocr!TextIsOfItsFrame
  <2> QED BY <1>4, <2>3, <2>4 DEF Ocr!Lookup
<1>5. ASSUME NEW r \in Ocr!Readers, Ocr!TakeEngine(r) PROVE OcrIInv'
  <2>1. /\ reader[r] = "engine" /\ UNCHANGED <<init, cache, want, image, asked, ticks>>
        /\ \/ /\ reader' = [reader EXCEPT ![r] = "reading"] /\ UNCHANGED answer
              /\ \/ UNCHANGED own /\ r \in own \cup {Http}
                 \/ own' = own \cup {r} /\ r \in Threads
           \/ Ocr!Answer(r, "error") /\ UNCHANGED own
    BY <1>5 DEF Ocr!TakeEngine, Ocr!Readers
  <2>2. OcrTypes'
    BY <2>1 DEF OcrTypes, Ocr!Answer
  <2>3. AtWorkReading'
    BY <2>1 DEF OcrTypes, AtWorkReading, Ocr!Answer
  <2>4. KeptIsRead' /\ Ocr!TextIsOfItsFrame'
    BY <2>1 DEF OcrTypes, KeptIsRead, Ocr!TextIsOfItsFrame, Ocr!Answer
  <2> QED BY <2>2, <2>3, <2>4
<1>6. ASSUME NEW r \in Ocr!Readers, Ocr!Recognise(r) PROVE OcrIInv'
  <2>1. reader[r] = "reading" /\ UNCHANGED <<init, own, want, asked,
                                             ticks>> /\ image[r] \in Ocr!Images
    BY <1>6 DEF Ocr!Recognise, AtWorkReading
  <2>2. ASSUME Ocr!Answer(r, "error"), UNCHANGED <<cache, image>> PROVE OcrIInv'
    <3>1. OcrTypes'
      BY <2>1, <2>2 DEF OcrTypes, Ocr!Answer
    <3> QED BY <2>1, <2>2, <3>1 DEF OcrTypes, AtWorkReading, KeptIsRead, Ocr!TextIsOfItsFrame,
               Ocr!Answer
  <2>3. ASSUME Ocr!Judge(r, Ocr!Text(image[r])), KeptIsRead',
               IsFiniteSet(DOMAIN cache') /\ Cardinality(DOMAIN cache') <= CacheMax
        PROVE  OcrIInv'
    <3>4. /\ reader' \in [Ocr!Readers -> {"idle", "lookup", "engine", "reading", "over"}]
          /\ image' \in [Ocr!Readers -> Ocr!Images \cup {Ocr!NoImage}]
          /\ DOMAIN answer' = Ocr!Readers
          /\ Ocr!TextIsOfItsFrame'
          /\ \A s \in Ocr!Readers :
                 /\ reader'[s] \in {"lookup", "engine", "reading"} =>
                       image'[s] \in Ocr!Images /\ want[s] \in Labels
                 /\ reader'[s] # "over" => answer'[s] \notin {"found", "absent"}
                 /\ reader'[s] = "reading" => reader[s] = "reading"
      BY <2>1, <2>3, JudgeIsFair
    <3>5. OcrTypes'
      BY <2>1, <2>3, <3>4 DEF OcrTypes
    <3>6. AtWorkReading'
      BY <2>1, <3>4 DEF AtWorkReading
    <3> QED BY <2>3, <3>4, <3>5, <3>6
  <2>4. ASSUME cache' \in Ocr!Kept(Ocr!Fingerprint(image[r]),
                                   [at |-> asked[r], text |-> Ocr!Text(image[r])])
        PROVE  /\ KeptIsRead'
               /\ IsFiniteSet(DOMAIN cache') /\ Cardinality(DOMAIN cache') <= CacheMax
    <3>1. /\ IsFiniteSet(DOMAIN cache') /\ Cardinality(DOMAIN cache') <= CacheMax
          /\ \A k \in DOMAIN cache' :
                \/ k = Ocr!Fingerprint(image[r]) /\ cache'[k].text = Ocr!Text(image[r])
                \/ k \in DOMAIN cache /\ cache'[k] = cache[k]
      BY <2>4, KeptOnes DEF OcrTypes
    <3>2. \A i, j \in Ocr!Images : Ocr!Fingerprint(i) = Ocr!Fingerprint(j)
        => Ocr!Text(i) = Ocr!Text(j)
      BY DEF Ocr!Fingerprint, Ocr!Text
    <3> QED BY <2>1, <3>1, <3>2 DEF KeptIsRead
  <2>5. UNCHANGED cache
        => KeptIsRead' /\ IsFiniteSet(DOMAIN cache') /\ Cardinality(DOMAIN cache') <= CacheMax
    BY DEF KeptIsRead, OcrTypes
  <2> QED BY <1>6, <2>2, <2>3, <2>4, <2>5 DEF Ocr!Recognise
<1>7. ASSUME NEW r \in Ocr!Readers, Ocr!Return(r) PROVE OcrIInv'
  <2>1. OcrTypes'
    BY <1>7 DEF Ocr!Return, OcrTypes
  <2> QED BY <1>7, <2>1 DEF Ocr!Return, OcrTypes, AtWorkReading, KeptIsRead, Ocr!TextIsOfItsFrame
<1>8. CASE UNCHANGED Ocr!vars
  BY <1>8 DEF Ocr!vars, OcrTypes, AtWorkReading, KeptIsRead, Ocr!TextIsOfItsFrame
<1> QED BY <1>1, <1>2, <1>3, <1>4, <1>5, <1>6, <1>7, <1>8 DEF Ocr!Next

\* A text that is said to be found is on the frame that was looked at, and one that is said to be
\* absent is not, whoever read it and however long it was kept; and no engine is run by two threads
\* at once: for any threads, frames and texts, any size of the cache and any time a result is kept.
THEOREM OcrSound == Ocr!Spec => []Ocr!OcrIsSound
<1>1. OcrIInv => Ocr!OcrIsSound
  <2> SUFFICES ASSUME OcrIInv PROVE Ocr!OcrIsSound
    OBVIOUS
  <2>1. Ocr!TypeOK /\ Ocr!TextIsOfItsFrame
    BY HowMany DEF OcrIInv, OcrTypes, Ocr!TypeOK
  <2>2. Ocr!EnginesApart
    BY TextAssumption DEF OcrIInv, OcrTypes, AtWorkReading, Ocr!EnginesApart, Ocr!Engine,
       Ocr!Readers
  <2> QED BY <2>1, <2>2 DEF Ocr!OcrIsSound
<1>2. OcrIInv /\ [Ocr!Next]_(Ocr!vars) => OcrIInv'
  BY NextOcrIInv
<1> QED BY <1>1, <1>2, InitOcrIInv, PTL DEF Ocr!Spec

-----------------------------------------------------------------------------
(* Logging in (PageRouter).                                                *)

LoginTypes ==
    /\ client \in Clients /\ screen \subseteq Login!Marks /\ boxes \subseteq Login!Marks
    /\ dialog \in {"none", "known", "other"} /\ dialogs \in 0 .. MaxDialogs
    /\ login \in {"look", "detect", "handle", "done", "raised"} /\ steps \in 0 .. LoginSteps
    /\ game \in {"login", "selecting", "inside", "refused"} /\ repeated \in 0 .. 1 /\ deaf \in Nat

\* What the app shows, by how far the login has got.
AppShows ==
    /\ game \in {"login", "refused"} => screen \in Login!LoginScreens(client)
    /\ game = "selecting" => screen \subseteq {"enter game"}
    /\ game = "inside" => screen = {}
    /\ login \in {"look", "detect", "handle"} => game \in {"login", "selecting"}
    /\ login = "done" /\ client = "HZ4399" => game = "selecting"

\* What the last look found is there until the app gets further.
LookedAt ==
    login \in {"detect", "handle"} =>
        /\ steps < LoginSteps
        /\ \/ game = "login" /\ boxes \in Login!LoginScreens(client)
           \/ game = "selecting" /\ boxes = {"enter game"}

\* The page whose handler runs is the one that was chosen.
Chosen ==
    login = "handle" =>
        /\ \E i \in Login!Shown : page = Login!Pages[i]
        /\ page.name = prev => \A i \in Login!Shown : Login!Pages[i].name = prev
        /\ page.name = last

\* Clicks are swallowed by a dialog the router can close, and on one page, which it counts.
Deaf ==
    /\ deaf > 0 => dialog = "known"
    /\ login = "handle" => deaf <= 2 /\ (page.name = "authorization" => deaf <= repeated)
    /\ login # "handle" => deaf <= repeated + 1 /\ (deaf > 0 => last = "authorization")

LoginIInv == LoginTypes /\ AppShows /\ LookedAt /\ Chosen /\ Deaf

LEMMA LoginBounds == LoginSteps \in Nat /\ MaxDialogs \in Nat
BY LoginAssumption

\* The pages: the first alone is where a character is selected.
LEMMA PagesAreThese ==
    /\ DOMAIN Login!Pages = 1 .. 7
    /\ \A i \in 1 .. 7 :
          /\ Login!Pages[i].mark \in Login!Marks
          /\ Login!Pages[i].name \in {"select", "authorization", "password", "quick"}
          /\ Login!Pages[i].name = "select" <=> Login!Pages[i].mark = "enter game"
    /\ \A c \in Clients : c \in Login!Pages[1].clients
    /\ Login!Pages[1].mark = "enter game" /\ "enter game" \in Login!Marks
<1>1. DOMAIN Login!Pages = 1 .. 7
  BY DEF Login!Pages
<1>2. /\ Login!Pages[1].name = "select" /\ Login!Pages[1].mark = "enter game"
      /\ Login!Pages[2].name = "authorization" /\ Login!Pages[2].mark = "agreed"
      /\ Login!Pages[3].name = "password" /\ Login!Pages[3].mark = "account and password"
      /\ Login!Pages[4].name = "quick" /\ Login!Pages[4].mark = "by phone or account"
      /\ Login!Pages[5].name = "authorization" /\ Login!Pages[5].mark = "by password"
      /\ Login!Pages[6].name = "authorization" /\ Login!Pages[6].mark = "by password"
      /\ Login!Pages[7].name = "authorization" /\ Login!Pages[7].mark = "phone number"
  BY DEF Login!Pages, Login!Page
<1>3. \A i \in 1 .. 7 :
          /\ Login!Pages[i].name \in {"select", "authorization", "password", "quick"}
          /\ Login!Pages[i].name = "select" <=> Login!Pages[i].mark = "enter game"
  <2> SUFFICES ASSUME NEW i \in 1 .. 7
               PROVE  /\ Login!Pages[i].name \in {"select", "authorization", "password", "quick"}
                      /\ Login!Pages[i].name = "select" <=> Login!Pages[i].mark = "enter game"
    OBVIOUS
  <2>1. i = 1 \/ i = 2 \/ i = 3 \/ i = 4 \/ i = 5 \/ i = 6 \/ i = 7
    OBVIOUS
  <2> QED BY <1>2, <2>1
<1>4. \A i \in 1 .. 7 : Login!Pages[i].mark \in Login!Marks
  BY <1>1 DEF Login!Marks
<1>5. /\ Login!Pages[1].clients = {"H4399", "HZ4399", "DANGLE", "UC", "VIVO"}
      /\ Login!Pages[1].mark = "enter game"
  BY DEF Login!Pages, Login!Page, Login!HZ4399
<1>6. "enter game" \in Login!Marks
  <2>1. 1 \in 1 .. 7
    OBVIOUS
  <2> QED BY <1>4, <1>5, <2>1
<1> QED BY <1>1, <1>3, <1>4, <1>5, <1>6, LoginAssumption

\* A set of numbers of pages that is not empty has a first one.
LEMMA FirstPage ==
    ASSUME NEW S \in SUBSET (1 .. 7), S # {}
    PROVE  Login!First(S) \in S
<1>0. S \subseteq Nat
  OBVIOUS
<1>1. PICK i \in S : \A j \in S : <<j, i>> \notin OpToRel(<, Nat)
  BY <1>0, NatLessThanWellFounded, WFMin
<1>2. \A j \in S : i <= j
  <2> SUFFICES ASSUME NEW j \in S PROVE i <= j
    OBVIOUS
  <2>1. i \in Nat /\ j \in Nat
    OBVIOUS
  <2>2. ~(j < i)
    BY <1>1, <2>1 DEF OpToRel
  <2> QED BY <2>1, <2>2
<1> QED BY <1>2 DEF Login!First

\* A screen before the login shows pages of the client, but not the one after it.
LEMMA LoginScreenShows ==
    ASSUME NEW s \in Login!LoginScreens(client)
    PROVE  /\ s # {} /\ s \subseteq Login!Marks /\ "enter game" \notin s
           /\ \E i \in Login!PagesForClient : Login!Pages[i].mark \in s
<1> DEFINE ids == {j \in DOMAIN Login!Pages : client \in Login!Pages[j].clients}
<1>1. /\ s \subseteq {Login!Pages[i].mark : i \in ids} \ {"enter game"} /\ s # {}
  BY DEF Login!LoginScreens
<1>2. s \subseteq Login!Marks /\ "enter game" \notin s
  BY <1>1 DEF Login!Marks
<1>3. PICK m : m \in s
  BY <1>1
<1>4. PICK i \in ids : m = Login!Pages[i].mark
  BY <1>1, <1>3
<1>5. i \in Login!PagesForClient
  BY <1>4 DEF Login!PagesForClient
<1> QED BY <1>1, <1>2, <1>3, <1>4, <1>5

LEMMA InitLoginIInv == Login!Init => LoginIInv
<1> SUFFICES ASSUME Login!Init PROVE LoginIInv
  OBVIOUS
<1>1. "enter game" \in Login!Marks
  BY PagesAreThese
<1>2. screen \subseteq Login!Marks
  BY <1>1, LoginScreenShows DEF Login!Init
<1>3. /\ client \in Clients /\ game \in {"login", "selecting"} /\ dialog = "none" /\ dialogs = 0
      /\ login = "look" /\ repeated = 0 /\ steps = 0 /\ deaf = 0
      /\ game = "login" => screen \in Login!LoginScreens(client)
      /\ game = "selecting" => screen = {"enter game"}
  BY DEF Login!Init
<1>4. boxes \subseteq Login!Marks
  BY DEF Login!Init
<1>5. /\ steps \in 0 .. LoginSteps /\ dialogs \in 0 .. MaxDialogs /\ repeated \in 0 .. 1
      /\ deaf \in Nat /\ ~(deaf > 0) /\ deaf <= repeated + 1
  <2>1. 0 \in 0 .. LoginSteps /\ 0 \in 0 .. MaxDialogs /\ 0 \in 0 .. 1
    BY LoginBounds
  <2>2. steps = 0 /\ dialogs = 0 /\ repeated = 0 /\ deaf = 0
    BY <1>3
  <2> QED BY <2>1, <2>2
<1>9. /\ client \in Clients /\ game \in {"login", "selecting", "inside", "refused"}
      /\ dialog \in {"none", "known", "other"}
      /\ login \in {"look", "detect", "handle", "done", "raised"} /\ login = "look"
  BY <1>3
<1>6. LoginTypes
  BY <1>2, <1>4, <1>5, <1>9 DEF LoginTypes
<1>7. AppShows
  BY <1>3 DEF AppShows
<1>8. LookedAt /\ Chosen /\ Deaf
  BY <1>5, <1>9 DEF LookedAt, Chosen, Deaf
<1> QED BY <1>6, <1>7, <1>8 DEF LoginIInv

\* The page that is chosen is on the screen, and not the last one again if there is another.
LEMMA DetectFits ==
    ASSUME LoginIInv, login = "detect"
    PROVE  /\ \E i \in Login!Shown : Login!Detect = Login!Pages[i]
           /\ Login!Detect.name = prev => \A i \in Login!Shown : Login!Pages[i].name = prev
<1> DEFINE others == {i \in Login!Shown : Login!Pages[i].name # prev}
<1>1. Login!Shown \subseteq 1 .. 7
  BY PagesAreThese DEF Login!Shown, Login!PagesForClient
<1>2. Login!Shown # {}
  <2>1. CASE game = "login" /\ boxes \in Login!LoginScreens(client)
    BY <2>1, LoginScreenShows DEF Login!Shown
  <2>2. CASE boxes = {"enter game"}
    <3>1. 1 \in DOMAIN Login!Pages /\ client \in Login!Pages[1].clients
      <4>1. client \in Clients
        BY DEF LoginIInv, LoginTypes
      <4>2. DOMAIN Login!Pages = 1 .. 7 /\ \A c \in Clients : c \in Login!Pages[1].clients
        BY PagesAreThese
      <4> QED BY <4>1, <4>2
    <3>2. 1 \in Login!PagesForClient /\ Login!Pages[1].mark \in boxes
      BY <2>2, <3>1, PagesAreThese DEF Login!PagesForClient
    <3> QED BY <3>2 DEF Login!Shown
  <2> QED BY <2>1, <2>2 DEF LoginIInv, LookedAt
<1>3. Login!First(Login!Shown) \in Login!Shown
  BY <1>1, <1>2, FirstPage
<1>4. others # {} => Login!First(others) \in others
  BY <1>1, FirstPage
<1> QED BY <1>3, <1>4 DEF Login!Detect

\* A handler before the login runs in front of it, that of the page after it there.
LEMMA HandlerIsThere ==
    ASSUME LoginIInv, login = "handle"
    PROVE  /\ page.name = "select" => game = "selecting"
           /\ page.name # "select" => game = "login"
<1>1. PICK i \in Login!Shown : page = Login!Pages[i]
  BY DEF LoginIInv, Chosen
<1>2. i \in 1 .. 7 /\ page.mark \in boxes
  BY <1>1, PagesAreThese DEF Login!Shown, Login!PagesForClient
<1>3. page.name = "select" <=> page.mark = "enter game"
  BY <1>1, <1>2, PagesAreThese
<1>4. CASE game = "login" /\ boxes \in Login!LoginScreens(client)
  BY <1>2, <1>3, <1>4, LoginScreenShows
<1>5. CASE game = "selecting" /\ boxes = {"enter game"}
  BY <1>2, <1>3, <1>5
<1> QED BY <1>4, <1>5 DEF LoginIInv, LookedAt

\* A handler that is over: what it leaves to be shown of the app and counted of the dialog.
LEMMA HandlerStep ==
    ASSUME LoginIInv, login = "handle", NEW outcome \in {"look", "done", "raised"},
           Login!After(outcome),
           AppShows', screen' \subseteq Login!Marks,
           game' \in {"login", "selecting", "inside", "refused"}, deaf' \in Nat,
           deaf' > 0 => dialog = "known" /\ deaf' <= deaf + 1 /\ page.name = "authorization"
    PROVE  LoginIInv'
<1>1. /\ login' = outcome /\ steps' = steps + 1 /\ boxes' = {}
      /\ UNCHANGED <<client, dialog, dialogs, last, repeated>>
  BY DEF Login!After
<1>2. LoginTypes'
  <2>1. steps' \in 0 .. LoginSteps
    <3>1. steps \in 0 .. LoginSteps /\ steps < LoginSteps /\ steps' = steps + 1
      BY <1>1 DEF LoginIInv, LoginTypes, LookedAt
    <3> QED BY <3>1, LoginBounds
  <2> QED BY <1>1, <2>1 DEF LoginIInv, LoginTypes
<1>3. Deaf'
  BY <1>1 DEF LoginIInv, LoginTypes, Deaf, Chosen
<1> QED BY <1>1, <1>2, <1>3 DEF LoginIInv, LookedAt, Chosen

\* The handlers that fill in a form.
LEMMA FillFits ==
    ASSUME LoginIInv, login = "handle", page.name # "select", Login!FillAndFinish, deaf' = 0
    PROVE  LoginIInv'
<1>1. game = "login" /\ screen \in Login!LoginScreens(client) /\ client \in Clients
      /\ screen \subseteq Login!Marks
  BY HandlerIsThere DEF LoginIInv, AppShows, LoginTypes
<1>2. "enter game" \in Login!Marks
  BY PagesAreThese
<1>3. ASSUME game' = "selecting", screen' = IF client = "HZ4399" THEN {} ELSE {"enter game"},
             Login!After(IF client = "HZ4399" THEN "done" ELSE "look")
      PROVE  LoginIInv'
  <2>1. client' = client /\ login' = IF client = "HZ4399" THEN "done" ELSE "look"
    BY <1>3 DEF Login!After
  <2>2. AppShows'
    BY <1>3, <2>1 DEF AppShows
  <2>3. screen' \subseteq Login!Marks /\ game' \in {"login", "selecting", "inside", "refused"}
    BY <1>2, <1>3
  <2>4. PICK o : o = IF client = "HZ4399" THEN "done" ELSE "look"
    OBVIOUS
  <2>5. o \in {"look", "done", "raised"} /\ Login!After(o)
    BY <1>3, <2>4
  <2>6. deaf' \in Nat /\ ~(deaf' > 0)
    OBVIOUS
  <2> QED BY <2>2, <2>3, <2>5, <2>6, HandlerStep
<1>4. ASSUME Login!After("raised"), UNCHANGED game,
             screen' = screen \/ screen' \in Login!LoginScreens(client)
      PROVE  LoginIInv'
  <2>1. client' = client /\ login' = "raised" /\ screen' \in Login!LoginScreens(client)
    BY <1>1, <1>4 DEF Login!After
  <2>2. AppShows'
    BY <1>1, <1>4, <2>1 DEF AppShows
  <2>3. screen' \subseteq Login!Marks
    BY <2>1, LoginScreenShows
  <2> QED BY <1>1, <1>4, <2>2, <2>3, HandlerStep
<1> QED BY <1>3, <1>4 DEF Login!FillAndFinish, Login!HZ4399

LEMMA NextLoginIInv == LoginIInv /\ [Login!Next]_(Login!vars) => LoginIInv'
<1> SUFFICES ASSUME LoginIInv, [Login!Next]_(Login!vars) PROVE LoginIInv'
  OBVIOUS
<1>0. "enter game" \in Login!Marks
  BY PagesAreThese
<1>1. CASE Login!Look
  <2>1. /\ login = "look" /\ steps < LoginSteps /\ Login!Marks \cap screen # {}
        /\ boxes' = screen /\ login' = "detect"
        /\ UNCHANGED <<client, screen, dialog, dialogs, prev, last, repeated, steps, page, game,
                       deaf>>
    BY <1>1 DEF Login!Look
  <2>2. LookedAt'
    BY <2>1 DEF LoginIInv, AppShows, LookedAt, Login!LoginScreens
  <2> QED BY <2>1, <2>2 DEF LoginIInv, LoginTypes, AppShows, Chosen, Deaf
<1>2. CASE Login!GiveUp
  BY <1>2 DEF Login!GiveUp, LoginIInv, LoginTypes, AppShows, LookedAt, Chosen, Deaf
<1>3. CASE Login!Choose
  <2>1. /\ login = "detect" /\ page' = Login!Detect /\ login' = "handle" /\ last' = page'.name
        /\ UNCHANGED <<client, screen, dialogs, boxes, prev, steps, game>>
    BY <1>3 DEF Login!Choose
  <2>2. Chosen'
    <3>1. Login!Shown' = Login!Shown
      BY <2>1 DEF Login!Shown, Login!PagesForClient
    <3> QED BY <2>1, <3>1, DetectFits DEF Chosen
  <2>3. LoginTypes' /\ Deaf'
    <3> DEFINE times == IF page'.name = last THEN repeated + 1 ELSE 0
    <3>1. CASE times < 2 /\ repeated' = times /\ UNCHANGED <<dialog, deaf>>
      BY <2>1, <3>1 DEF LoginIInv, LoginTypes, Deaf
    <3>2. CASE /\ times >= 2 /\ repeated' = 0
               /\ dialog' = IF dialog = "known" THEN "none" ELSE dialog
               /\ deaf' = IF dialog = "known" THEN 0 ELSE deaf
      BY <2>1, <3>2 DEF LoginIInv, LoginTypes, Deaf
    <3> QED BY <1>3, <2>1, <3>1, <3>2 DEF Login!Choose
  <2> QED BY <2>1, <2>2, <2>3 DEF LoginIInv, AppShows, LookedAt
<1>4. CASE Login!SelectCharacter
  <2>1. login = "handle" /\ page.name = "select" /\ deaf' = 0 /\ game = "selecting"
    BY <1>4, HandlerIsThere DEF Login!SelectCharacter
  <2>2. screen \subseteq {"enter game"} /\ screen \subseteq Login!Marks
    BY <2>1 DEF LoginIInv, AppShows, LoginTypes
  <2>3. ASSUME client = "HZ4399", Login!After("done"), UNCHANGED <<screen, game>> PROVE LoginIInv'
    <3>1. AppShows'
      BY <2>1, <2>2, <2>3 DEF AppShows, Login!After
    <3>2. screen' \subseteq Login!Marks /\ game' \in {"login", "selecting", "inside", "refused"}
      BY <2>1, <2>2, <2>3
    <3>3. deaf' \in Nat /\ ~(deaf' > 0) /\ login = "handle"
      BY <2>1
    <3> QED BY <2>3, <3>1, <3>2, <3>3, HandlerStep
  <2>4. ASSUME client # "HZ4399", game' = "inside", screen' = {}, Login!After("done")
        PROVE LoginIInv'
    <3>1. AppShows'
      BY <2>4 DEF AppShows, Login!After
    <3> QED BY <2>1, <2>4, <3>1, HandlerStep
  <2>5. ASSUME client # "HZ4399", game' = "refused", screen' \in Login!LoginScreens(client),
               Login!After("done")
        PROVE  LoginIInv'
    <3>1. AppShows'
      BY <2>5 DEF AppShows, Login!After
    <3>2. screen' \subseteq Login!Marks
      BY <2>5, LoginScreenShows
    <3> QED BY <2>1, <2>5, <3>1, <3>2, HandlerStep
  <2>6. ASSUME Login!After("raised"), UNCHANGED <<screen, game>> PROVE LoginIInv'
    <3>1. AppShows'
      BY <2>1, <2>2, <2>6 DEF AppShows, Login!After
    <3>2. screen' \subseteq Login!Marks /\ game' \in {"login", "selecting", "inside", "refused"}
      BY <2>1, <2>2, <2>6
    <3>3. deaf' \in Nat /\ ~(deaf' > 0) /\ login = "handle"
      BY <2>1
    <3> QED BY <2>6, <3>1, <3>2, <3>3, HandlerStep
  <2> QED BY <1>4, <2>3, <2>4, <2>5, <2>6 DEF Login!SelectCharacter, Login!HZ4399
<1>5. CASE Login!Authorize
  <2>1. /\ login = "handle" /\ page.name = "authorization" /\ game = "login"
        /\ screen \in Login!LoginScreens(client) /\ screen \subseteq Login!Marks
        /\ deaf \in Nat
    BY <1>5, HandlerIsThere DEF Login!Authorize, LoginIInv, AppShows, LoginTypes
  <2>2. CASE Login!FillAndFinish /\ deaf' = 0
    BY <2>1, <2>2, FillFits
  <2>3. ASSUME screen' \in Login!LoginScreens(client), Login!After("look"), deaf' = 0,
               UNCHANGED game
        PROVE  LoginIInv'
    <3>1. AppShows'
      BY <2>1, <2>3 DEF AppShows, Login!After
    <3>2. screen' \subseteq Login!Marks
      BY <2>3, LoginScreenShows
    <3> QED BY <2>1, <2>3, <3>1, <3>2, HandlerStep
  <2>4. ASSUME NEW o \in {"look", "raised"}, Login!After(o), UNCHANGED <<screen, game>>,
               deaf' = 0 \/ (deaf' = deaf + 1 /\ dialog = "known")
        PROVE  LoginIInv'
    <3>1. AppShows'
      BY <2>1, <2>4 DEF AppShows, Login!After
    <3>2. deaf' \in Nat /\ deaf' <= deaf + 1 /\ (deaf' > 0 => dialog = "known")
      BY <2>1, <2>4
    <3> QED BY <2>1, <2>4, <3>1, <3>2, HandlerStep
  <2> QED BY <1>5, <2>2, <2>3, <2>4 DEF Login!Authorize
<1>6. CASE Login!PasswordLogin
  BY <1>6, FillFits DEF Login!PasswordLogin
<1>7. CASE Login!ShopLogin
  <2>1. /\ login = "handle" /\ page.name = "authorization" /\ game = "login" /\ deaf' = 0
        /\ client # "HZ4399"
        /\ screen \in Login!LoginScreens(client) /\ screen \subseteq Login!Marks
    BY <1>7, HandlerIsThere DEF Login!ShopLogin, LoginIInv, AppShows, LoginTypes, Login!HZ4399
  <2>2. ASSUME screen' = {"enter game"}, game' = "selecting", Login!After("look") PROVE LoginIInv'
    <3>1. AppShows'
      BY <2>2 DEF AppShows, Login!After
    <3>2. screen' \subseteq Login!Marks /\ game' \in {"login", "selecting", "inside", "refused"}
      BY <1>0, <2>2
    <3>3. deaf' \in Nat /\ ~(deaf' > 0) /\ login = "handle"
      BY <2>1
    <3> QED BY <2>2, <3>1, <3>2, <3>3, HandlerStep
  <2>3. ASSUME screen' \in Login!LoginScreens(client), Login!After("look"), UNCHANGED game
        PROVE LoginIInv'
    <3>1. AppShows'
      BY <2>1, <2>3 DEF AppShows, Login!After
    <3>2. screen' \subseteq Login!Marks
      BY <2>3, LoginScreenShows
    <3> QED BY <2>1, <2>3, <3>1, <3>2, HandlerStep
  <2>4. ASSUME Login!After("raised"), UNCHANGED <<screen, game>> PROVE LoginIInv'
    <3>1. AppShows'
      BY <2>1, <2>4 DEF AppShows, Login!After
    <3> QED BY <2>1, <2>4, <3>1, HandlerStep
  <2> QED BY <1>7, <2>2, <2>3, <2>4 DEF Login!ShopLogin
<1>8. CASE Login!AppMoves
  <2>1. screen' \subseteq Login!Marks
    BY <1>8, LoginScreenShows DEF Login!AppMoves
  <2> QED BY <1>8, <2>1 DEF Login!AppMoves, LoginIInv, LoginTypes, AppShows, LookedAt, Chosen, Deaf
<1>9. CASE Login!DialogComesUp
  <2>1. Login!Shown' = Login!Shown
    BY <1>9 DEF Login!DialogComesUp, Login!Shown, Login!PagesForClient
  <2>2. /\ login \in {"look", "detect", "handle"} /\ dialog = "none" /\ dialogs < MaxDialogs
        /\ dialog' \in {"known", "other"} /\ dialogs' = dialogs + 1
        /\ UNCHANGED <<client, screen, login, boxes, prev, last, repeated, steps, page, game, deaf>>
    BY <1>9 DEF Login!DialogComesUp
  <2>3. LoginTypes' /\ Deaf'
    BY <2>2, LoginBounds DEF LoginIInv, LoginTypes, Deaf
  <2>4. AppShows' /\ LookedAt' /\ Chosen'
    BY <2>1, <2>2 DEF LoginIInv, AppShows, LookedAt, Chosen
  <2> QED BY <2>3, <2>4 DEF LoginIInv
<1>10. CASE Login!Login
  <2>1. screen' \subseteq Login!Marks
    BY <1>0, <1>10, LoginScreenShows DEF Login!Login
  <2>2. /\ login' = "look" /\ steps' = 0 /\ repeated' = 0 /\ deaf' = 0
        /\ dialog' \in {dialog, "none"}
        /\ UNCHANGED <<client, dialogs, boxes, page>>
        /\ \/ screen' = {"enter game"} /\ game' = "selecting"
           \/ game' = "login" /\ screen' \in Login!LoginScreens(client)
    BY <1>10 DEF Login!Login
  <2>3. LoginTypes'
    <3>1. steps' \in 0 .. LoginSteps /\ repeated' \in 0 .. 1 /\ deaf' \in Nat
      <4>1. 0 \in 0 .. LoginSteps /\ 0 \in 0 .. 1
        BY LoginBounds
      <4>2. steps' = 0 /\ repeated' = 0 /\ deaf' = 0
        BY <2>2
      <4> QED BY <4>1, <4>2
    <3>2. /\ game' \in {"login", "selecting", "inside", "refused"}
          /\ dialog' \in {"none", "known", "other"}
      BY <2>2 DEF LoginIInv, LoginTypes
    <3>3. /\ login' \in {"look", "detect", "handle", "done", "raised"}
          /\ UNCHANGED <<client, dialogs, boxes>>
      BY <2>2
    <3> QED BY <2>1, <3>1, <3>2, <3>3 DEF LoginIInv, LoginTypes
  <2>4. AppShows'
    BY <2>2 DEF AppShows
  <2>5. LookedAt' /\ Chosen'
    BY <2>2 DEF LookedAt, Chosen
  <2>6. Deaf'
    <3>1. login' = "look" /\ repeated' = 0 /\ deaf' = 0
      BY <2>2
    <3> QED BY <3>1 DEF Deaf
  <2> QED BY <2>3, <2>4, <2>5, <2>6 DEF LoginIInv
<1>11. CASE UNCHANGED Login!vars
  <2>1. Login!Shown' = Login!Shown
    BY <1>11 DEF Login!vars, Login!Shown, Login!PagesForClient
  <2> QED BY <1>11, <2>1, ZenonT(120)
         DEF Login!vars, LoginIInv, LoginTypes, AppShows, LookedAt, Chosen, Deaf
<1> QED BY <1>1, <1>2, <1>3, <1>4, <1>5, <1>6, <1>7, <1>8, <1>9, <1>10, <1>11 DEF Login!Next

\* A handler runs for a page of the client that is on the screen, and again for the same only if
\* there is no other; a dialog that the router can close takes the clicks of two pages at most; and
\* the app of 4399 is not taken to be logged in while it asks for it: for any of the shops, and any
\* bounds on pages and dialogs.
THEOREM LoginSound == Login!Spec => []Login!LoginIsSound
<1>1. LoginIInv => Login!LoginIsSound
  <2> SUFFICES ASSUME LoginIInv PROVE Login!LoginIsSound
    OBVIOUS
  <2>1. Login!TypeOK
    BY DEF LoginIInv, LoginTypes, Login!TypeOK
  <2>2. Login!HandlerFits
    BY DEF LoginIInv, Chosen, Login!HandlerFits, Login!Shown, Login!PagesForClient
  <2>3. Login!DialogIsClosed
    BY DEF LoginIInv, LoginTypes, Deaf, Login!DialogIsClosed
  <2>4. Login!BoxIsLoggedIn
    BY DEF LoginIInv, AppShows, Login!BoxIsLoggedIn, Login!LoginMarks, Login!HZ4399
  <2> QED BY <2>1, <2>2, <2>3, <2>4 DEF Login!LoginIsSound
<1>2. LoginIInv /\ [Login!Next]_(Login!vars) => LoginIInv'
  BY NextLoginIInv
<1> QED BY <1>1, <1>2, InitLoginIInv, PTL DEF Login!Spec

-----------------------------------------------------------------------------
(* The battles and walks of a hero (HeroBattle).                           *)

Files == {Scripts[i] : i \in DOMAIN Scripts}
Fighting == {"head", "flow"}
OnTheWay == {"over", "look", "left", "leftWait", "leftLook", "right", "rightLook", "hold", "back",
             "failed"}
HeroLabels == Fighting \cup OnTheWay \cup {"idle", "task", Hero!NoFlow}

\* A class is Hero, or what a file registered when the scripts were executed last.
Known(class) ==
    \/ class = Hero!Base
    \/ \E f \in Files : /\ loaded[f] \in Contents /\ loaded[f] # Hero!Absent
                        /\ class = [file |-> f, flows |-> loaded[f].flows]

Registry ==
    /\ disk \in [Files -> Contents \cup {Hero!Absent}] /\ DOMAIN loaded = Files
    /\ \A p \in DOMAIN registry : Known(registry[p])
    /\ Known(profile)
    /\ hero \in HeroLabels
    /\ hero = "idle" => given = Hero!NoFlow /\ context = Hero!NoFlow

\* Outside a battle there is no plan; in one it is one of the profession's, or of Hero.
PlanFits ==
    /\ plan \in Flows
    /\ hero \notin Fighting => plan = <<>>

FlowIInv == Registry /\ PlanFits /\ Hero!FlowIsOfTheProfile

\* A set of numbers up to n that is not empty has a last one.
LEMMA LastOne ==
    ASSUME NEW n \in Nat, NEW S \in SUBSET (0 .. n), S # {}
    PROVE  /\ Hero!Max(S) \in S
           /\ \A j \in S : j <= Hero!Max(S)
<1> DEFINE T == {k \in Nat : \E j \in S : k = n - j}
<1>1. T \subseteq Nat /\ T # {}
  <2>1. PICK j \in S : TRUE
    OBVIOUS
  <2>2. n - j \in Nat
    BY <2>1
  <2> QED BY <2>1, <2>2
<1>2. PICK t \in T : \A k \in T : <<k, t>> \notin OpToRel(<, Nat)
  BY <1>1, NatLessThanWellFounded, WFMin
<1>3. PICK i \in S : t = n - i
  BY <1>2
<1>4. \A j \in S : i >= j
  <2> SUFFICES ASSUME NEW j \in S PROVE i >= j
    OBVIOUS
  <2>1. i \in 0 .. n /\ j \in 0 .. n
    OBVIOUS
  <2>5. t \in Nat
    BY <1>1, <1>2
  <2>6. n - j \in Nat
    BY <2>1
  <2>4. n - j \in Nat /\ t \in Nat
    BY <2>5, <2>6
  <2>2. n - j \in T
    BY <2>4
  <2>3. ~(n - j < t)
    BY <1>2, <2>2, <2>4 DEF OpToRel
  <2> QED BY <1>3, <2>1, <2>3, <2>4
<1>5. /\ Hero!Max(S) \in S
      /\ \A j \in S : Hero!Max(S) >= j
  BY <1>4 DEF Hero!Max
<1>6. \A j \in S : j \in Int
  OBVIOUS
<1> QED BY <1>5, <1>6

\* What the scripts register, when they are executed.
LEMMA ExecutedIsKnown ==
    ASSUME disk \in [Files -> Contents \cup {Hero!Absent}],
           NEW p \in DOMAIN Hero!Executed(Hero!Present)
    PROVE  \E f \in Files : /\ disk[f] \in Contents /\ disk[f] # Hero!Absent
                            /\ Hero!Executed(Hero!Present)[p]
                                  = [file |-> f, flows |-> disk[f].flows]
<1> DEFINE todo == Hero!Present
           makers(q) == {i \in DOMAIN Scripts : Scripts[i] \in todo /\ Hero!Registers(Scripts[i])
                                                /\ disk[Scripts[i]].profession = q}
           made == {disk[f].profession : f \in {f \in todo : Hero!Registers(f)}}
           known == [q \in made |-> LET f == Scripts[Hero!Max(makers(q))]
                                    IN  [file |-> f, flows |-> disk[f].flows]]
<1>1. Hero!Executed(Hero!Present) = known
  BY DEF Hero!Executed
<1>2. p \in made
  BY <1>1
<1>3. PICK g \in todo : Hero!Registers(g) /\ disk[g].profession = p
  BY <1>2
<1>4. PICK i \in DOMAIN Scripts : g = Scripts[i]
  BY DEF Hero!Present, Files
<1>5. i \in makers(p)
  BY <1>3, <1>4
<1>6. PICK n \in Nat : DOMAIN Scripts = 1 .. n
  BY HeroAssumption
<1>7. PICK m : m = Hero!Max(makers(p))
  OBVIOUS
<1>8. m \in makers(p)
  <2>1. makers(p) \in SUBSET (0 .. n)
    BY <1>6
  <2> QED BY <1>5, <1>7, <2>1, LastOne
<1>9. /\ Scripts[m] \in Files /\ disk[Scripts[m]] \in Contents
      /\ disk[Scripts[m]] # Hero!Absent
  BY <1>8, SMTT(60) DEF Hero!Registers, Files
<1>10. known[p] = [file |-> Scripts[m], flows |-> disk[Scripts[m]].flows]
  BY <1>2, <1>7
<1> QED BY <1>1, <1>9, <1>10

\* A plan that was found is one of the class or of Hero, and has its times.
LEMMA ResolvedFits ==
    ASSUME NEW class, Known(class), NEW name, Hero!Resolve(class, name) # <<>>
    PROVE  /\ Hero!Resolve(class, name)[1] \in Flows
           /\ \/ \E other \in DOMAIN BaseFlows : Hero!Resolve(class, name)[1] = BaseFlows[other]
              \/ /\ class.file \in Files /\ loaded[class.file] # Hero!Absent
                 /\ \E other \in DOMAIN loaded[class.file].flows :
                       Hero!Resolve(class, name)[1] = loaded[class.file].flows[other]
<1>1. CASE name \in DOMAIN class.flows
  <2>1. Hero!Resolve(class, name)[1] = class.flows[name]
    BY <1>1 DEF Hero!Resolve
  <2>2. class # Hero!Base
    BY <1>1 DEF Hero!Base
  <2>3. PICK f \in Files : /\ loaded[f] \in Contents /\ loaded[f] # Hero!Absent
                           /\ class = [file |-> f, flows |-> loaded[f].flows]
    BY <2>2 DEF Known
  <2>4. class.file = f /\ class.flows = loaded[f].flows
    BY <2>3
  <2>5. class.flows[name] \in Flows
    BY <1>1, <2>3, <2>4, HeroAssumption
  <2> QED BY <1>1, <2>1, <2>3, <2>4, <2>5
<1>2. CASE name \notin DOMAIN class.flows
  <2>1. name \in DOMAIN BaseFlows /\ Hero!Resolve(class, name)[1] = BaseFlows[name]
    BY <1>2 DEF Hero!Resolve
  <2> QED BY <2>1, HeroAssumption
<1> QED BY <1>1, <1>2

\* A flow of Hero is found for every class.
LEMMA BaseIsFound ==
    ASSUME NEW class, NEW name \in DOMAIN BaseFlows
    PROVE  Hero!Resolve(class, name) # <<>>
BY DEF Hero!Resolve


LEMMA InitFlowIInv == Hero!Init => FlowIInv
<1> SUFFICES ASSUME Hero!Init PROVE FlowIInv
  OBVIOUS
<1>1. /\ disk \in [Files -> Contents \cup {Hero!Absent}] /\ loaded = disk
      /\ registry = Hero!Executed(Hero!Present) /\ profile = Hero!Base
      /\ given = Hero!NoFlow /\ context = Hero!NoFlow /\ hero = "idle" /\ plan = <<>>
  BY DEF Hero!Init, Files
<1>2. \A p \in DOMAIN registry : Known(registry[p])
  BY <1>1, ExecutedIsKnown DEF Known
<1>3. <<>> \in Flows
  BY DEF Flows
<1> QED BY <1>1, <1>2, <1>3 DEF FlowIInv, Registry, PlanFits, Known, HeroLabels, Fighting,
           Hero!NoFlow,
           Hero!FlowIsOfTheProfile

\* The walk to the exit: it touches neither the registry nor the battle.
Walks ==
    \/ Hero!SetOut \/ Hero!FirstLook \/ Hero!StepLeft \/ Hero!WaitMark \/ Hero!LeftLook
    \/ Hero!StepRight \/ Hero!RightLook \/ Hero!Hold \/ Hero!GameLetsGo \/ Hero!MonitorSees

LEMMA WalksApart ==
    ASSUME Walks
    PROVE  /\ hero \in OnTheWay /\ hero' \in OnTheWay
           /\ UNCHANGED <<disk, edits, registry, loaded, profile, given, context, plan, part,
                          rounds,
                          fired, acts, elapsed, tryExit, pause, advance, began, acted>>
<1>1. CASE Hero!SetOut
  BY <1>1 DEF Hero!SetOut, Hero!walkRests, Hero!registryVars, Hero!battleVars, OnTheWay
<1>2. CASE Hero!FirstLook
  BY <1>2 DEF Hero!FirstLook, Hero!Look, Hero!walkRests, Hero!registryVars, Hero!battleVars,
     OnTheWay
<1>3. CASE Hero!StepLeft
  BY <1>3 DEF Hero!StepLeft, Hero!Ended, Hero!walkRests, Hero!registryVars, Hero!battleVars,
     OnTheWay
<1>4. CASE Hero!WaitMark
  BY <1>4 DEF Hero!WaitMark, Hero!walkRests, Hero!registryVars, Hero!battleVars, OnTheWay
<1>5. CASE Hero!LeftLook
  BY <1>5 DEF Hero!LeftLook, Hero!Look, Hero!walkRests, Hero!registryVars, Hero!battleVars, OnTheWay
<1>6. CASE Hero!StepRight
  BY <1>6 DEF Hero!StepRight, Hero!Ended, Hero!walkRests, Hero!registryVars, Hero!battleVars,
     OnTheWay
<1>7. CASE Hero!RightLook
  BY <1>7 DEF Hero!RightLook, Hero!Look, Hero!walkRests, Hero!registryVars, Hero!battleVars,
     OnTheWay
<1>8. CASE Hero!Hold
  BY <1>8 DEF Hero!Hold, Hero!walkRests, Hero!registryVars, Hero!battleVars, OnTheWay
<1>9. CASE Hero!GameLetsGo
  BY <1>9 DEF Hero!GameLetsGo, Hero!Walking, Hero!walkRests, Hero!registryVars, Hero!battleVars,
     OnTheWay
<1>10. CASE Hero!MonitorSees
  BY <1>10 DEF Hero!MonitorSees, Hero!Walking, Hero!walkRests, Hero!registryVars, Hero!battleVars,
     OnTheWay
<1> QED BY <1>1, <1>2, <1>3, <1>4, <1>5, <1>6, <1>7, <1>8, <1>9, <1>10 DEF Walks

\* A step that leaves the classes, what the task was given and the plan alone.
LEMMA FlowApart ==
    ASSUME FlowIInv, UNCHANGED <<disk, registry, loaded, profile, given, context>>,
           hero' \in HeroLabels, hero' # "idle", hero' = Hero!NoFlow => hero = Hero!NoFlow,
           \/ hero' \in Fighting /\ hero \in Fighting /\ plan' = plan
           \/ hero' \notin Fighting /\ plan' = <<>>
    PROVE  FlowIInv'
<1>1. Registry'
  BY DEF FlowIInv, Registry, Known
<1>2. <<>> \in Flows
  BY DEF Flows
<1>3. PlanFits'
  BY <1>2 DEF FlowIInv, PlanFits
<1>4. /\ Hero!Resolve(profile, given)' = Hero!Resolve(profile, given)
      /\ Hero!Resolve(profile, context)' = Hero!Resolve(profile, context)
  BY DEF Hero!Resolve
<1>5. Hero!FlowIsOfTheProfile'
  BY <1>4 DEF FlowIInv, Hero!FlowIsOfTheProfile, Fighting
<1> QED BY <1>1, <1>3, <1>5 DEF FlowIInv

LEMMA NextFlowIInv == FlowIInv /\ [Hero!Next]_(Hero!vars) => FlowIInv'
<1> SUFFICES ASSUME FlowIInv, [Hero!Next]_(Hero!vars) PROVE FlowIInv'
  OBVIOUS
<1>0. <<>> \in Flows
  BY DEF Flows
<1>1. CASE Hero!Edit
  <2>1. /\ hero \in {"idle", "task"} /\ disk' \in [Files -> Contents \cup {Hero!Absent}]
        /\ UNCHANGED <<registry, loaded, profile, given, context, hero, plan>>
    BY <1>1 DEF Hero!Edit, Hero!battleVars, FlowIInv, Registry, Files
  <2>2. Registry' /\ PlanFits'
    BY <2>1 DEF FlowIInv, Registry, Known, PlanFits
  <2>3. Hero!Resolve(profile, context)' = Hero!Resolve(profile, context)
    BY <2>1 DEF Hero!Resolve
  <2>4. Hero!FlowIsOfTheProfile'
    BY <2>1, <2>3 DEF FlowIInv, Hero!FlowIsOfTheProfile, Hero!NoFlow
  <2> QED BY <2>2, <2>4 DEF FlowIInv
<1>2. CASE Hero!Reload
  <2>1. /\ hero = "idle" /\ registry' = Hero!Executed(Hero!Present) /\ loaded' = disk
        /\ profile' = Hero!Base /\ UNCHANGED <<disk, given, context, hero, plan>>
    BY <1>2 DEF Hero!Reload, Hero!battleVars
  <2>2. \A p \in DOMAIN registry' :
           \E f \in Files : /\ disk[f] \in Contents /\ disk[f] # Hero!Absent
                            /\ registry'[p] = [file |-> f, flows |-> disk[f].flows]
    BY <2>1, ExecutedIsKnown DEF FlowIInv, Registry
  <2>3. Registry'
    BY <2>1, <2>2 DEF FlowIInv, Registry, Known
  <2> QED BY <2>1, <2>3 DEF FlowIInv, Registry, PlanFits, Hero!FlowIsOfTheProfile, Hero!NoFlow
<1>3. CASE Hero!StartTask
  <2>1. PICK profession \in Configured, name \in Requested :
           /\ profile' = Hero!ClassOf(profession) /\ given' = name
           /\ context' = Hero!OfProfile(Hero!ClassOf(profession), name)
    BY <1>3 DEF Hero!StartTask
  <2>2. /\ hero = "idle" /\ hero' = "task"
        /\ UNCHANGED <<disk, registry, loaded, plan>>
    BY <1>3 DEF Hero!StartTask, Hero!registryVars, Hero!battleVars
  <2>3. Known(profile')
    BY <2>1 DEF Hero!ClassOf, FlowIInv, Registry, Known
  <2>4. Registry' /\ PlanFits'
    BY <2>2, <2>3 DEF FlowIInv, Registry, Known, PlanFits, HeroLabels, Fighting
  <2>5. context' # Hero!NoFlow => context' = given' /\ Hero!Resolve(profile', context') # <<>>
    BY <2>1 DEF Hero!OfProfile
  <2>6. Hero!FlowIsOfTheProfile'
    BY <2>2, <2>5 DEF Hero!FlowIsOfTheProfile, Hero!NoFlow, Hero!Resolve
  <2> QED BY <2>4, <2>6 DEF FlowIInv
<1>4. CASE Hero!EndTask
  <2>1. /\ hero \in {"task", "over", "back", "no flow", "failed"} /\ hero' = "idle"
        /\ given' = Hero!NoFlow /\ context' = Hero!NoFlow
        /\ UNCHANGED <<disk, registry, loaded, profile, plan>>
    BY <1>4 DEF Hero!EndTask, Hero!registryVars, Hero!battleVars
  <2> QED BY <2>1 DEF FlowIInv, Registry, Known, PlanFits, Hero!FlowIsOfTheProfile, HeroLabels,
             Fighting,
             Hero!NoFlow
<1>5. CASE Hero!BeginBattle
  <2>1. PICK wanted \in Asked \cup {Hero!NoFlow, given} :
           LET found == Hero!Resolve(profile, Hero!EffectiveFlow(wanted)) IN
           IF found = <<>> THEN hero' = Hero!NoFlow /\ UNCHANGED <<plan, acted>>
           ELSE hero' = "head" /\ plan' = found[1]
    BY <1>5 DEF Hero!BeginBattle
  <2>2. /\ hero \in {"task", "over"}
        /\ UNCHANGED <<disk, registry, loaded, profile, given, context>>
    BY <1>5 DEF Hero!BeginBattle, Hero!registryVars
  <2>3. PICK flow : flow = Hero!EffectiveFlow(wanted)
    OBVIOUS
  <2>4. PICK found : found = Hero!Resolve(profile, flow)
    OBVIOUS
  <2>5. Hero!Resolve(profile, given)' = Hero!Resolve(profile, given)
      /\ Hero!Resolve(profile, context)' = Hero!Resolve(profile, context)
    BY <2>2 DEF Hero!Resolve
  <2>6. Registry'
    BY <2>1, <2>2 DEF FlowIInv, Registry, Known, HeroLabels, Fighting, Hero!NoFlow
  <2>7. CASE found = <<>>
    <3>1. hero' = Hero!NoFlow /\ plan' = plan
      BY <2>1, <2>3, <2>4, <2>7
    <3>2. Hero!Resolve(profile, given) = <<>>
      <4>1. flow \notin DOMAIN BaseFlows
        BY <2>4, <2>7, BaseIsFound
      <4>2. Default \in DOMAIN BaseFlows /\ Asked \subseteq DOMAIN BaseFlows
        BY HeroAssumption
      <4>3. context # Hero!NoFlow => Hero!Resolve(profile, context) # <<>>
        BY DEF FlowIInv, Hero!FlowIsOfTheProfile
      <4>4. flow = given
        BY <2>1, <2>3, <2>4, <2>7, <4>1, <4>2, <4>3 DEF Hero!EffectiveFlow
      <4> QED BY <2>4, <2>7, <4>4
    <3>3. PlanFits'
      BY <2>2, <3>1 DEF FlowIInv, PlanFits, Fighting, Hero!NoFlow
    <3>4. Hero!FlowIsOfTheProfile'
      BY <2>2, <2>5, <3>1, <3>2 DEF FlowIInv, Hero!FlowIsOfTheProfile, Hero!NoFlow
    <3> QED BY <2>6, <3>3, <3>4 DEF FlowIInv
  <2>8. CASE found # <<>>
    <3>1. hero' = "head" /\ plan' = found[1]
      BY <2>1, <2>3, <2>4, <2>8
    <3>2. /\ found[1] \in Flows
          /\ \/ \E other \in DOMAIN BaseFlows : found[1] = BaseFlows[other]
             \/ /\ profile.file \in Files /\ loaded[profile.file] # Hero!Absent
                /\ \E other \in DOMAIN loaded[profile.file].flows :
                      found[1] = loaded[profile.file].flows[other]
      BY <2>4, <2>8, ResolvedFits DEF FlowIInv, Registry
    <3>3. PlanFits'
      BY <3>1, <3>2 DEF PlanFits, Fighting
    <3>4. Hero!FlowIsOfTheProfile'
      BY <2>2, <2>5, <3>1, <3>2 DEF FlowIInv, Hero!FlowIsOfTheProfile, Hero!NoFlow
    <3> QED BY <2>6, <3>3, <3>4 DEF FlowIInv
  <2> QED BY <2>7, <2>8
<1>6. CASE Hero!LoopHead
  <2>1. /\ hero = "head" /\ UNCHANGED <<disk, registry, loaded, profile, given, context>>
        /\ \/ hero' \in {"over", "failed"} /\ plan' = <<>>
           \/ hero' \in Fighting /\ plan' = plan
    BY <1>6 DEF Hero!LoopHead, Hero!Leave, Hero!registryVars, Fighting
  <2> QED BY <2>1, FlowApart DEF Fighting, OnTheWay, HeroLabels, Hero!NoFlow
<1>7. CASE Hero!TakeStep \/ Hero!EndRound \/ Hero!Signalled
  <2>1. /\ hero \in Fighting /\ hero' \in Fighting /\ plan' = plan
        /\ UNCHANGED <<disk, registry, loaded, profile, given, context>>
    BY <1>7 DEF Hero!TakeStep, Hero!EndRound, Hero!Signalled, Hero!registryVars, Fighting
  <2> QED BY <2>1, FlowApart DEF Fighting, HeroLabels, Hero!NoFlow
<1>8. CASE Hero!StepFails
  <2>1. /\ hero' = "failed" /\ plan' = <<>>
        /\ UNCHANGED <<disk, registry, loaded, profile, given, context>>
    BY <1>8 DEF Hero!StepFails, Hero!Leave, Hero!registryVars
  <2> QED BY <2>1, FlowApart DEF Fighting, OnTheWay, HeroLabels, Hero!NoFlow
<1>9. CASE Walks
  <2>1. /\ hero \in OnTheWay /\ hero' \in OnTheWay
        /\ UNCHANGED <<disk, registry, loaded, profile, given, context, plan>>
    BY <1>9, WalksApart
  <2>2. plan = <<>>
    BY <2>1 DEF FlowIInv, PlanFits, OnTheWay, Fighting
  <2> QED BY <2>1, <2>2, FlowApart DEF Fighting, OnTheWay, HeroLabels, Hero!NoFlow
<1>10. CASE UNCHANGED Hero!vars
  <2>1. UNCHANGED <<disk, registry, loaded, profile, given, context, hero, plan>>
    BY <1>10 DEF Hero!vars, Hero!registryVars, Hero!battleVars
  <2>2. /\ Hero!Resolve(profile, given)' = Hero!Resolve(profile, given)
        /\ Hero!Resolve(profile, context)' = Hero!Resolve(profile, context)
    BY <2>1 DEF Hero!Resolve
  <2>3. Registry' /\ PlanFits'
    BY <2>1 DEF FlowIInv, Registry, Known, PlanFits
  <2>4. Hero!FlowIsOfTheProfile'
    BY <2>1, <2>2 DEF FlowIInv, Hero!FlowIsOfTheProfile
  <2> QED BY <2>3, <2>4 DEF FlowIInv
<1> QED BY <1>1, <1>2, <1>3, <1>4, <1>5, <1>6, <1>7, <1>8, <1>9, <1>10 DEF Hero!Next, Walks


\* Step i of the plan has had its turn in the round that began last; it has had one in this battle.
Past(i) == \/ hero = "head" /\ rounds > 0
           \/ hero = "flow" /\ part > i
Ever(i) == rounds > 0 \/ (hero = "flow" /\ part > i)

\* What is remembered of a step is what it did.
StepKept(i) ==
    /\ plan[i].kind = "first" => acted[i].n = IF Ever(i) THEN 1 ELSE 0
    /\ plan[i].kind = "at" =>
        /\ acted[i].n = IF Hero!KeyOf(i) \in fired THEN 1 ELSE 0
        /\ acted[i].n = 1 => acted[i].when >= plan[i].after
        /\ Past(i) /\ began >= plan[i].after => Hero!KeyOf(i) \in fired
    /\ plan[i].kind = "every" =>
        /\ acted[i].n = 0
        /\ Hero!LastOf(i) = acted[i].when
        /\ Past(i) => began - acted[i].when < plan[i].after
    /\ plan[i].kind = "each" => acted[i].n = 0

BattleTypes ==
    /\ part \in Nat \ {0} /\ rounds \in 0 .. 1 /\ elapsed \in Nat /\ began \in 0 .. elapsed
    /\ hero = "flow" => began <= MaxBattle
    /\ hero \notin Fighting => rounds = 0 /\ fired = {} /\ acts = <<>>
    /\ hero \in Fighting => /\ DOMAIN acted = DOMAIN plan
                            /\ \A i \in DOMAIN plan : acted[i] \in [n : Nat, when : Nat]

PlanIInv == BattleTypes /\ (hero \in Fighting => \A i \in DOMAIN plan : StepKept(i))

\* The walk: nobody is at a mark that is behind him.
WalkIInv ==
    /\ pos \in Nat /\ walked \in Nat
    /\ mark => glimpse
    /\ hero = "leftLook" => glimpse
    /\ hero \in {"look", "left", "leftWait", "leftLook"} /\ ~gone /\ glimpse
       => pos <= Hero!Max(Zone)
    /\ hero = "right" /\ ~gone /\ walked < StepsLeft => pos <= Hero!Max(Zone) /\ pos \notin Zone
    /\ hero = "rightLook" /\ ~gone /\ walked < StepsLeft => pos <= Hero!Max(Zone)
    /\ hero = "hold" => stood
    /\ hero = "back" => done \/ stood

\* What a step of the battle is made of, and what it leaves alone.
LEMMA InitBattle == Hero!Init => PlanIInv /\ WalkIInv
<1> SUFFICES ASSUME Hero!Init PROVE PlanIInv /\ WalkIInv
  OBVIOUS
<1>1. /\ hero = "idle" /\ part = 1 /\ rounds = 0 /\ fired = {} /\ acts = <<>> /\ elapsed = 0
      /\ began = 0
  BY DEF Hero!Init
<1>2. 0 \in 0 .. 0 /\ 0 \in 0 .. 1
  OBVIOUS
<1>3. PlanIInv
  BY <1>1, <1>2 DEF PlanIInv, BattleTypes, Fighting
<1>4. /\ pos = 0 /\ walked = 0 /\ mark = FALSE /\ hero = "idle"
  BY DEF Hero!Init
<1>5. WalkIInv
  BY <1>4 DEF WalkIInv
<1> QED BY <1>3, <1>5

\* Outside a battle, and in a step that leaves it alone.
LEMMA BattleOver ==
    ASSUME PlanIInv, hero' \notin Fighting,
           \/ UNCHANGED <<part, rounds, fired, acts, elapsed, began>> /\ hero \notin Fighting
           \/ /\ part' = 1 /\ rounds' = 0 /\ fired' = {} /\ acts' = <<>> /\ elapsed' = 0
              /\ began' = 0
    PROVE  PlanIInv'
<1>1. hero' # "flow"
  BY DEF Fighting
<1>2. CASE UNCHANGED <<part, rounds, fired, acts, elapsed, began>> /\ hero \notin Fighting
  BY <1>1, <1>2 DEF PlanIInv, BattleTypes
<1>3. CASE part' = 1 /\ rounds' = 0 /\ fired' = {} /\ acts' = <<>> /\ elapsed' = 0 /\ began' = 0
  <2>1. 0 \in 0 .. 0 /\ 0 \in 0 .. 1
    OBVIOUS
  <2> QED BY <1>1, <1>3, <2>1 DEF PlanIInv, BattleTypes
<1> QED BY <1>2, <1>3

\* The battle begins: nothing was done in it.
LEMMA BattleBegins ==
    ASSUME FlowIInv, FlowIInv', PlanIInv, Hero!BeginBattle
    PROVE  PlanIInv'
<1>1. PICK wanted \in Asked \cup {Hero!NoFlow, given} :
         LET found == Hero!Resolve(profile, Hero!EffectiveFlow(wanted)) IN
         IF found = <<>> THEN hero' = Hero!NoFlow
         ELSE /\ hero' = "head" /\ plan' = found[1]
              /\ acted' = [i \in DOMAIN found[1] |-> Hero!Clear]
  BY DEF Hero!BeginBattle
<1>2. /\ part' = 1 /\ rounds' = 0 /\ fired' = {} /\ acts' = <<>> /\ elapsed' = 0 /\ began' = 0
  BY DEF Hero!BeginBattle, Hero!Fresh
<1>3. PICK found : found = Hero!Resolve(profile, Hero!EffectiveFlow(wanted))
  OBVIOUS
<1>4. CASE found = <<>>
  <2>1. hero' \notin Fighting
    BY <1>1, <1>3, <1>4 DEF Fighting, Hero!NoFlow
  <2> QED BY <1>2, <2>1, BattleOver
<1>5. CASE found # <<>>
  <2>1. hero' = "head" /\ plan' = found[1] /\ acted' = [i \in DOMAIN plan' |-> Hero!Clear]
    BY <1>1, <1>3, <1>5
  <2>2. 0 \in 0 .. 0 /\ 0 \in 0 .. 1
    OBVIOUS
  <2>3. Hero!Clear \in [n : Nat, when : Nat]
    BY DEF Hero!Clear
  <2>4. BattleTypes'
    BY <1>2, <2>1, <2>2, <2>3 DEF BattleTypes, Fighting
  <2>5. ASSUME NEW i \in DOMAIN plan' PROVE StepKept(i)'
    <3>1. acted'[i].n = 0 /\ acted'[i].when = 0
      BY <2>1 DEF Hero!Clear
    <3>2. ~Past(i)' /\ ~Ever(i)'
      BY <1>2, <2>1 DEF Past, Ever
    <3>3. Hero!KeyOf(i)' \notin fired'
      BY <1>2
    <3>4. Hero!LastOf(i)' = 0
      BY <1>2 DEF Hero!LastOf
    <3> QED BY <3>1, <3>2, <3>3, <3>4 DEF StepKept
  <2> QED BY <2>4, <2>5 DEF PlanIInv
<1> QED BY <1>4, <1>5

\* What a sequence has is of its kind.
LEMMA StepOf ==
    ASSUME NEW S, NEW s \in Seq(S), NEW i \in DOMAIN s
    PROVE  s[i] \in S
OBVIOUS

\* A step of the plan has its turn.
LEMMA TakeStepKeeps ==
    ASSUME FlowIInv, PlanIInv, Hero!TakeStep
    PROVE  PlanIInv'
<1>0. PICK turn : turn = part
  OBVIOUS
<1>1. /\ hero = "flow" /\ turn = part /\ turn <= Len(plan) /\ hero' = "flow" /\ part' = turn + 1
      /\ UNCHANGED <<plan, rounds, began>>
  BY <1>0 DEF Hero!TakeStep
<1>2. /\ Hero!Acts(turn) =>
           /\ fired' = IF plan[turn].kind = "at" THEN fired \cup {Hero!KeyOf(turn)} ELSE fired
           /\ acts' = IF plan[turn].kind # "every" THEN acts
                      ELSE [k \in DOMAIN acts \cup {Hero!KeyOf(turn)} |->
                              IF k = Hero!KeyOf(turn) THEN elapsed ELSE acts[k]]
           /\ acted' = [acted EXCEPT ![turn] =
                           [n |-> @.n + (IF plan[turn].kind \in {"first", "at"} THEN 1 ELSE 0),
                            when |-> elapsed]]
           /\ elapsed' \in {elapsed, elapsed + 1}
      /\ ~Hero!Acts(turn) => UNCHANGED <<fired, acts, acted, elapsed>>
  BY <1>0 DEF Hero!TakeStep
<1>3. /\ plan \in Seq([kind : {"first", "at", "every", "each"}, after : Nat])
      /\ \A i \in DOMAIN plan : plan[i].kind = "every" => plan[i].after > 0
  BY DEF FlowIInv, PlanFits, Flows
<1>4. /\ turn \in Nat \ {0} /\ rounds \in 0 .. 1 /\ elapsed \in Nat /\ began \in Nat
      /\ began <= elapsed /\ began <= MaxBattle
  BY <1>1 DEF PlanIInv, BattleTypes
<1>5. /\ DOMAIN acted = DOMAIN plan
      /\ \A i \in DOMAIN plan : acted[i] \in [n : Nat, when : Nat]
      /\ \A i \in DOMAIN plan : StepKept(i)
  BY <1>1 DEF PlanIInv, BattleTypes, Fighting
<1>6. turn \in DOMAIN plan
  BY <1>1, <1>3, <1>4
<1>7. BattleTypes'
  <2>1. part' \in Nat \ {0} /\ rounds' \in 0 .. 1
    BY <1>1, <1>4
  <2>2. elapsed' \in Nat /\ began' \in 0 .. elapsed'
    BY <1>1, <1>2, <1>4
  <2>3. DOMAIN acted' = DOMAIN plan'
    BY <1>1, <1>2, <1>5
  <2>4. ASSUME NEW i \in DOMAIN plan' PROVE acted'[i] \in [n : Nat, when : Nat]
    <3>1. acted[i] \in [n : Nat, when : Nat]
      BY <1>1, <1>5, <2>4
    <3>2. \/ acted'[i] = acted[i]
          \/ \E k \in {0, 1} : acted'[i] = [n |-> acted[i].n + k, when |-> elapsed]
      BY <1>1, <1>2, <1>5, <2>4
    <3> QED BY <1>4, <3>1, <3>2
  <2> QED BY <1>1, <1>4, <2>1, <2>2, <2>3, <2>4 DEF BattleTypes, Fighting
<1>8. ASSUME NEW i \in DOMAIN plan, i # turn PROVE StepKept(i)'
  <2>1. Hero!KeyOf(i) # Hero!KeyOf(turn) /\ Hero!KeyOf(i)' = Hero!KeyOf(i)
    BY <1>1, <1>8 DEF Hero!KeyOf
  <2>2. Hero!KeyOf(i)' \in fired' <=> Hero!KeyOf(i) \in fired
    BY <1>2, <2>1
  <2>3. Hero!LastOf(i)' = Hero!LastOf(i)
    BY <1>2, <2>1 DEF Hero!LastOf
  <2>4. acted'[i] = acted[i]
    BY <1>2, <1>5, <1>8
  <2>5. i \in Nat
    BY <1>3
  <2>6. (Past(i)' <=> Past(i)) /\ (Ever(i)' <=> Ever(i))
    BY <1>1, <1>4, <1>8, <2>5 DEF Past, Ever
  <2> QED BY <1>1, <1>5, <2>2, <2>3, <2>4, <2>6 DEF StepKept
<1>9. StepKept(turn)'
  <2>1. Past(turn)' /\ Ever(turn)' /\ ~Past(turn) /\ (Ever(turn) <=> rounds > 0)
    BY <1>1, <1>4 DEF Past, Ever
  <2>20. plan[turn] \in [kind : {"first", "at", "every", "each"}, after : Nat]
    BY <1>3, <1>6, StepOf
  <2>21. /\ plan' = plan /\ began' = began /\ plan[turn].after \in Nat
         /\ plan[turn].kind \in {"first", "at", "every", "each"}
    BY <1>1, <2>20
  <2>22. acted[turn] \in [n : Nat, when : Nat]
    BY <1>5, <1>6
  <2>2. /\ plan' = plan /\ began' = began /\ plan[turn].after \in Nat
        /\ plan[turn].kind \in {"first", "at", "every", "each"}
        /\ acted[turn].n \in Nat /\ acted[turn].when \in Nat
    BY <2>21, <2>22
  <2>3. StepKept(turn)
    BY <1>5, <1>6
  <2>4. Hero!KeyOf(turn)' = Hero!KeyOf(turn)
    BY <1>1 DEF Hero!KeyOf
  <2>5. CASE ~Hero!Acts(turn)
    <3>1. /\ fired' = fired /\ acts' = acts /\ acted'[turn] = acted[turn]
          /\ Hero!LastOf(turn)' = Hero!LastOf(turn)
      BY <1>2, <2>4, <2>5 DEF Hero!LastOf
    <3>2. CASE plan[turn].kind = "first"
      <4>1. rounds > 0
        BY <1>4, <2>5, <3>2 DEF Hero!Acts
      <4> QED BY <2>1, <2>2, <2>3, <3>1, <3>2, <4>1 DEF StepKept
    <3>3. CASE plan[turn].kind = "at"
      <4>1. began >= plan[turn].after => Hero!KeyOf(turn) \in fired
        BY <1>4, <2>2, <2>5, <3>3 DEF Hero!Acts
      <4> QED BY <2>1, <2>2, <2>3, <2>4, <3>1, <3>3, <4>1 DEF StepKept
    <3>4. CASE plan[turn].kind = "every"
      <4>1. Hero!LastOf(turn) = acted[turn].when
        BY <2>3, <3>4 DEF StepKept
      <4>2. ~(elapsed - acted[turn].when >= plan[turn].after)
        BY <2>5, <3>4, <4>1 DEF Hero!Acts
      <4>3. began - acted[turn].when < plan[turn].after
        BY <1>4, <2>2, <4>2
      <4> QED BY <2>1, <2>2, <2>3, <3>1, <3>4, <4>3 DEF StepKept
    <3>5. CASE plan[turn].kind = "each"
      BY <2>2, <2>3, <3>1, <3>5 DEF StepKept
    <3> QED BY <2>2, <3>2, <3>3, <3>4, <3>5
  <2>6. CASE Hero!Acts(turn)
    <3>1. acted'[turn] = [n |-> acted[turn].n + (IF plan[turn].kind \in {"first", "at"} THEN 1
                                                ELSE 0), when |-> elapsed]
      BY <1>2, <1>5, <1>6, <2>6
    <3>2. CASE plan[turn].kind = "first"
      <4>1. rounds = 0
        BY <2>6, <3>2 DEF Hero!Acts
      <4>2. acted[turn].n = 0
        BY <1>4, <2>1, <2>3, <3>2, <4>1 DEF StepKept
      <4>3. acted'[turn].n = 1
        BY <3>1, <3>2, <4>2
      <4> QED BY <2>1, <2>2, <3>2, <4>3 DEF StepKept
    <3>3. CASE plan[turn].kind = "at"
      <4>1. elapsed >= plan[turn].after /\ Hero!KeyOf(turn) \notin fired
        BY <2>6, <3>3 DEF Hero!Acts
      <4>2. acted[turn].n = 0
        BY <2>3, <3>3, <4>1 DEF StepKept
      <4>3. acted'[turn].n = 1 /\ acted'[turn].when = elapsed
        BY <3>1, <3>3, <4>2
      <4>4. Hero!KeyOf(turn)' \in fired'
        BY <1>2, <2>4, <2>6, <3>3
      <4> QED BY <2>2, <3>3, <4>1, <4>3, <4>4 DEF StepKept
    <3>4. CASE plan[turn].kind = "every"
      <4>1. acted'[turn].n = 0 /\ acted'[turn].when = elapsed
        BY <2>2, <2>3, <3>1, <3>4 DEF StepKept
      <4>2. acts' = [k \in DOMAIN acts \cup {Hero!KeyOf(turn)} |->
                       IF k = Hero!KeyOf(turn) THEN elapsed ELSE acts[k]]
        BY <1>2, <2>6, <3>4
      <4>3. Hero!LastOf(turn)' = elapsed
        BY <2>4, <4>2 DEF Hero!LastOf
      <4>4. began - elapsed < plan[turn].after
        BY <1>3, <1>4, <1>6, <2>2, <3>4
      <4> QED BY <2>2, <3>4, <4>1, <4>3, <4>4 DEF StepKept
    <3>5. CASE plan[turn].kind = "each"
      <4>1. acted'[turn].n = 0
        BY <2>2, <2>3, <3>1, <3>5 DEF StepKept
      <4> QED BY <2>2, <3>5, <4>1 DEF StepKept
    <3> QED BY <2>2, <3>2, <3>3, <3>4, <3>5
  <2> QED BY <2>5, <2>6
<1>10. \A i \in DOMAIN plan' : StepKept(i)'
  <2>1. \A i \in DOMAIN plan : i = turn => StepKept(i)'
    BY <1>9
  <2> QED BY <1>1, <1>8, <2>1
<1> QED BY <1>7, <1>10 DEF PlanIInv

\* The head of the loop, the end of a round, and the signals of the monitor.
LEMMA HeadKeeps ==
    ASSUME FlowIInv, PlanIInv, Hero!LoopHead \/ Hero!EndRound \/ Hero!Signalled
    PROVE  PlanIInv'
<1>1. /\ hero \in Fighting
      /\ \/ /\ hero' \notin Fighting /\ part' = 1 /\ rounds' = 0 /\ fired' = {} /\ acts' = <<>>
            /\ elapsed' = 0 /\ began' = 0
         \/ /\ hero = "head" /\ hero' = "head" /\ elapsed' \in {elapsed, elapsed + 1}
            /\ UNCHANGED <<plan, part, rounds, fired, acts, began, acted>>
         \/ /\ hero = "head" /\ hero' = "flow" /\ part' = 1 /\ began' = elapsed
            /\ elapsed <= MaxBattle /\ UNCHANGED <<plan, rounds, fired, acts, elapsed, acted>>
         \/ /\ hero = "flow" /\ hero' = "head" /\ part > Len(plan) /\ rounds' = Hero!NextRound
            /\ UNCHANGED <<plan, part, fired, acts, elapsed, began, acted>>
  BY DEF Hero!LoopHead, Hero!Leave, Hero!Fresh, Hero!EndRound, Hero!Signalled, Fighting
<1>2. CASE /\ hero' \notin Fighting /\ part' = 1 /\ rounds' = 0 /\ fired' = {} /\ acts' = <<>>
           /\ elapsed' = 0 /\ began' = 0
  BY <1>2, BattleOver
<1>3. ASSUME hero' \in Fighting, UNCHANGED <<plan, fired, acts, acted>>,
             part' \in Nat \ {0}, rounds' \in 0 .. 1, elapsed' \in Nat, began' \in 0 .. elapsed',
             hero' = "flow" => began' <= MaxBattle,
             \A i \in DOMAIN plan : /\ Ever(i)' <=> Ever(i)
                                    /\ Past(i)' => Past(i) /\ began' = began
      PROVE  PlanIInv'
  <2>1. /\ DOMAIN acted = DOMAIN plan
        /\ \A i \in DOMAIN plan : acted[i] \in [n : Nat, when : Nat]
        /\ \A i \in DOMAIN plan : StepKept(i)
    BY <1>1 DEF PlanIInv, BattleTypes
  <2>2. BattleTypes'
    BY <1>3, <2>1 DEF BattleTypes
  <2>3. ASSUME NEW i \in DOMAIN plan' PROVE StepKept(i)'
    <3>1. /\ i \in DOMAIN plan /\ StepKept(i) /\ (Ever(i)' <=> Ever(i))
          /\ Past(i)' => Past(i) /\ began' = began
      BY <1>3, <2>1, <2>3
    <3>2. Hero!KeyOf(i)' = Hero!KeyOf(i) /\ Hero!LastOf(i)' = Hero!LastOf(i)
      BY <1>3 DEF Hero!KeyOf, Hero!LastOf
    <3> QED BY <1>3, <3>1, <3>2 DEF StepKept
  <2> QED BY <2>2, <2>3 DEF PlanIInv
<1>4. /\ plan \in Seq([kind : {"first", "at", "every", "each"}, after : Nat])
      /\ part \in Nat \ {0} /\ rounds \in 0 .. 1 /\ elapsed \in Nat /\ began \in 0 .. elapsed
  BY DEF FlowIInv, PlanFits, Flows, PlanIInv, BattleTypes
<1>5. CASE /\ hero = "head" /\ hero' = "head" /\ elapsed' \in {elapsed, elapsed + 1}
           /\ UNCHANGED <<plan, part, rounds, fired, acts, began, acted>>
  <2>1. elapsed' \in Nat /\ began' \in 0 .. elapsed'
    BY <1>4, <1>5
  <2>2. \A i \in DOMAIN plan : (Ever(i)' <=> Ever(i)) /\ (Past(i)' => Past(i) /\ began' = began)
    BY <1>5 DEF Ever, Past
  <2> QED BY <1>3, <1>4, <1>5, <2>1, <2>2 DEF Fighting
<1>6. CASE /\ hero = "head" /\ hero' = "flow" /\ part' = 1 /\ began' = elapsed
           /\ elapsed <= MaxBattle /\ UNCHANGED <<plan, rounds, fired, acts, elapsed, acted>>
  <2>1. \A i \in DOMAIN plan : i \in Nat /\ i >= 1
    BY <1>4
  <2>2. \A i \in DOMAIN plan : (Ever(i)' <=> Ever(i)) /\ ~Past(i)'
    BY <1>6, <2>1 DEF Ever, Past
  <2>3. part' \in Nat \ {0} /\ began' \in 0 .. elapsed' /\ began' <= MaxBattle
    BY <1>4, <1>6
  <2> QED BY <1>3, <1>4, <1>6, <2>2, <2>3 DEF Fighting
<1>7. CASE /\ hero = "flow" /\ hero' = "head" /\ part > Len(plan) /\ rounds' = Hero!NextRound
           /\ UNCHANGED <<plan, part, fired, acts, elapsed, began, acted>>
  <2>1. rounds' = 1
    BY <1>4, <1>7 DEF Hero!NextRound
  <2>2. \A i \in DOMAIN plan : part > i
    BY <1>4, <1>7
  <2>3. \A i \in DOMAIN plan : Ever(i)' /\ Ever(i) /\ Past(i)
    BY <1>7, <2>1, <2>2 DEF Ever, Past
  <2>4. rounds' \in 0 .. 1
    BY <2>1
  <2> QED BY <1>3, <1>4, <1>7, <2>3, <2>4 DEF Fighting
<1> QED BY <1>1, <1>2, <1>5, <1>6, <1>7

LEMMA NextPlanIInv ==
    ASSUME FlowIInv, FlowIInv', PlanIInv, [Hero!Next]_(Hero!vars)
    PROVE  PlanIInv'
<1>1. CASE Hero!Edit
  <2>1. /\ hero \notin Fighting /\ hero' = hero
        /\ UNCHANGED <<part, rounds, fired, acts, elapsed, began>>
    BY <1>1 DEF Hero!Edit, Hero!battleVars, Fighting
  <2> QED BY <2>1, BattleOver
<1>2. CASE Hero!Reload \/ Hero!StartTask \/ Hero!EndTask
  <2>1. /\ hero \notin Fighting /\ hero' \notin Fighting
        /\ UNCHANGED <<part, rounds, fired, acts, elapsed, began>>
    BY <1>2 DEF Hero!Reload, Hero!StartTask, Hero!EndTask, Hero!battleVars, Fighting
  <2> QED BY <2>1, BattleOver
<1>3. CASE Hero!BeginBattle
  BY <1>3, BattleBegins
<1>4. CASE Hero!LoopHead \/ Hero!EndRound \/ Hero!Signalled
  BY <1>4, HeadKeeps
<1>5. CASE Hero!TakeStep
  BY <1>5, TakeStepKeeps
<1>6. CASE Hero!StepFails
  <2>1. /\ hero' \notin Fighting /\ part' = 1 /\ rounds' = 0 /\ fired' = {} /\ acts' = <<>>
        /\ elapsed' = 0 /\ began' = 0
    BY <1>6 DEF Hero!StepFails, Hero!Leave, Hero!Fresh, Fighting
  <2> QED BY <2>1, BattleOver
<1>7. CASE Walks
  <2>1. /\ hero \notin Fighting /\ hero' \notin Fighting
        /\ UNCHANGED <<part, rounds, fired, acts, elapsed, began>>
    BY <1>7, WalksApart DEF OnTheWay, Fighting
  <2> QED BY <2>1, BattleOver
<1>8. CASE UNCHANGED Hero!vars
  <2>1. UNCHANGED <<hero, plan, part, rounds, fired, acts, elapsed, began, acted>>
    BY <1>8 DEF Hero!vars, Hero!battleVars
  <2>2. BattleTypes'
    BY <2>1 DEF PlanIInv, BattleTypes
  <2>3. \A i \in DOMAIN plan : StepKept(i) => StepKept(i)'
    BY <2>1 DEF StepKept, Hero!KeyOf, Hero!LastOf, Past, Ever
  <2> QED BY <2>1, <2>2, <2>3 DEF PlanIInv
<1> QED BY <1>1, <1>2, <1>3, <1>4, <1>5, <1>6, <1>7, <1>8 DEF Hero!Next, Walks

\* The first and the last place of the exit's mark.
LEMMA ZoneEnd ==
    /\ Hero!Max(Zone) \in Nat
    /\ \A z \in Zone : z \in Nat /\ z <= Hero!Max(Zone)
<1>1. Level \in Nat /\ Zone \in SUBSET (0 .. Level) /\ Zone # {}
  BY HeroAssumption
<1>2. /\ Hero!Max(Zone) \in Zone
      /\ \A z \in Zone : z <= Hero!Max(Zone)
  BY <1>1, LastOne
<1>3. \A z \in Zone : z \in Nat
  BY <1>1
<1> QED BY <1>2, <1>3

LEMMA NextWalkIInv ==
    ASSUME WalkIInv, [Hero!Next]_(Hero!vars)
    PROVE  WalkIInv'
<1> DEFINE end == Hero!Max(Zone)
<1>0. end \in Nat /\ \A z \in Zone : z \in Nat /\ z <= end
  BY ZoneEnd
<1>a. /\ Starts \subseteq Nat /\ Strides \subseteq Nat /\ Level \in Nat /\ StepsLeft \in Nat
  BY HeroAssumption
<1> HIDE DEF end
<1>1. CASE Hero!Edit \/ Hero!Reload \/ Hero!StartTask \/ Hero!BeginBattle \/ Hero!LoopHead
           \/ Hero!TakeStep \/ Hero!StepFails \/ Hero!EndRound \/ Hero!Signalled
  <2>1. /\ UNCHANGED <<pos, walked, glimpse, mark, done, gone, stood>>
        /\ hero' = hero \/ hero' \in {"idle", "task", "no flow", "head", "flow", "over", "failed"}
    BY <1>1 DEF Hero!Edit, Hero!Reload, Hero!StartTask, Hero!BeginBattle, Hero!LoopHead, Hero!Leave,
       Hero!TakeStep, Hero!StepFails, Hero!EndRound, Hero!Signalled, Hero!walkVars, Hero!NoFlow
  <2> QED BY <2>1 DEF WalkIInv
<1>2. CASE Hero!EndTask
  <2>1. /\ hero' = "idle" /\ pos' = 0 /\ walked' = 0 /\ mark' = FALSE
    BY <1>2 DEF Hero!EndTask
  <2> QED BY <2>1 DEF WalkIInv
<1>3. CASE Hero!SetOut
  <2>1. /\ hero' = "look" /\ pos' \in Starts /\ walked' = 0 /\ mark' = FALSE /\ glimpse' = FALSE
    BY <1>3 DEF Hero!SetOut
  <2> QED BY <1>a, <2>1 DEF WalkIInv
<1>4. CASE Hero!FirstLook \/ Hero!LeftLook \/ Hero!RightLook
  <2>1. /\ UNCHANGED <<pos, walked, glimpse, mark, done, gone>>
        /\ \/ hero' = "back" /\ done
           \/ hero' = "hold" /\ stood'
           \/ hero = "look" /\ hero' = "left"
           \/ hero \in {"leftLook", "rightLook"} /\ hero' = "right" /\ (pos \notin Zone \/ gone)
    BY <1>4 DEF Hero!FirstLook, Hero!LeftLook, Hero!RightLook, Hero!Look, Hero!OnMark
  <2> QED BY <2>1 DEF WalkIInv
<1>5. CASE Hero!StepLeft
  <2>1. /\ hero = "left" /\ UNCHANGED <<walked, mark, done, gone>>
        /\ \/ /\ hero' = "leftWait" /\ ~done
              /\ \E d \in Strides : Hero!Moves(IF pos >= d THEN pos - d ELSE 0)
           \/ hero' = "back" /\ done /\ UNCHANGED <<pos, glimpse, stood>>
           \/ hero' = "failed" /\ UNCHANGED <<pos, glimpse, stood>>
           \/ hero' = "right" /\ walked = StepsLeft /\ UNCHANGED <<pos, glimpse, stood>>
    BY <1>5 DEF Hero!StepLeft, Hero!Ended
  <2>2. CASE hero' # "leftWait"
    BY <1>a, <2>1, <2>2 DEF WalkIInv
  <2>3. CASE hero' = "leftWait"
    <3>1. PICK d \in Strides : Hero!Moves(IF pos >= d THEN pos - d ELSE 0)
      BY <2>1, <2>3
    <3>2. PICK to : to = IF pos >= d THEN pos - d ELSE 0
      OBVIOUS
    <3>3. pos \in Nat /\ to \in Nat /\ to <= pos
      BY <1>a, <3>2 DEF WalkIInv
    <3>4. /\ pos' = IF gone THEN pos ELSE to
          /\ glimpse' \in {glimpse, glimpse \/ (~gone /\ ((pos..to) \cup (to..pos)) \cap Zone # {})}
      BY <3>1, <3>2 DEF Hero!Moves
    <3>5. pos' \in Nat /\ pos' <= pos
      BY <3>3, <3>4
    <3>6. ~gone /\ glimpse' => pos' <= end
      <4>1. CASE glimpse
        BY <1>0, <2>1, <3>5, <4>1 DEF WalkIInv, end
      <4>2. CASE ~glimpse /\ ~gone /\ glimpse'
        <5>1. PICK z \in Zone : z \in (pos..to) \cup (to..pos)
          <6>1. ((pos..to) \cup (to..pos)) \cap Zone # {}
            BY <3>4, <4>2
          <6> QED BY <6>1
        <5>2. z \in Nat /\ z <= end /\ to <= z
          BY <1>0, <3>3, <5>1
        <5> QED BY <1>0, <3>3, <3>4, <4>2, <5>2
      <4> QED BY <4>1, <4>2
    <3>7. mark' => glimpse'
      BY <2>1, <3>4 DEF WalkIInv
    <3>8. walked' \in Nat
      BY <2>1 DEF WalkIInv
    <3> QED BY <2>1, <2>3, <3>5, <3>6, <3>7, <3>8 DEF WalkIInv, end
  <2> QED BY <2>2, <2>3
<1>6. CASE Hero!WaitMark
  <2>1. /\ hero = "leftWait" /\ UNCHANGED <<pos, glimpse, mark, done, gone, stood>>
        /\ \/ hero' = "leftLook" /\ mark /\ walked' = walked
           \/ hero' = "left" /\ walked' = walked + 1
    BY <1>6 DEF Hero!WaitMark
  <2> QED BY <2>1 DEF WalkIInv
<1>7. CASE Hero!StepRight
  <2>1. /\ hero = "right" /\ UNCHANGED <<walked, mark, done, gone>>
        /\ \/ hero' = "rightLook" /\ Hero!Moves(IF pos < Level THEN pos + 1 ELSE Level)
           \/ hero' = "back" /\ done /\ UNCHANGED <<pos, glimpse, stood>>
           \/ hero' = "failed" /\ UNCHANGED <<pos, glimpse, stood>>
    BY <1>7 DEF Hero!StepRight, Hero!Ended
  <2>2. CASE hero' # "rightLook"
    BY <2>1, <2>2 DEF WalkIInv
  <2>3. CASE hero' = "rightLook"
    <3>1. PICK to : to = IF pos < Level THEN pos + 1 ELSE Level
      OBVIOUS
    <3>2. pos \in Nat /\ to \in Nat /\ to <= pos + 1
      BY <1>a, <3>1 DEF WalkIInv
    <3>3. /\ pos' = IF gone THEN pos ELSE to
          /\ glimpse' \in {glimpse, glimpse \/ (~gone /\ ((pos..to) \cup (to..pos)) \cap Zone # {})}
      BY <2>1, <2>3, <3>1 DEF Hero!Moves
    <3>4. ~gone /\ walked < StepsLeft => pos + 1 <= end
      <4>1. SUFFICES ASSUME ~gone, walked < StepsLeft PROVE pos + 1 <= end
        OBVIOUS
      <4>2. pos <= end /\ pos \notin Zone
        BY <2>1, <4>1 DEF WalkIInv, end
      <4>3. end \in Zone
        BY HeroAssumption, LastOne DEF end
      <4> QED BY <1>0, <3>2, <4>2, <4>3
    <3>5. ~gone /\ walked < StepsLeft => pos' <= end
      BY <1>0, <3>2, <3>3, <3>4
    <3>6. (mark' => glimpse') /\ walked' \in Nat /\ pos' \in Nat
      BY <2>1, <3>2, <3>3 DEF WalkIInv
    <3> QED BY <2>1, <2>3, <3>5, <3>6 DEF WalkIInv, end
  <2> QED BY <2>2, <2>3
<1>8. CASE Hero!Hold
  <2>1. hero = "hold" /\ hero' = "back" /\ UNCHANGED <<pos, walked, glimpse, mark, done, gone,
                                                       stood>>
    BY <1>8 DEF Hero!Hold, Hero!walkVars
  <2> QED BY <2>1 DEF WalkIInv
<1>9. CASE Hero!GameLetsGo
  <2>1. hero' = hero /\ gone' = TRUE /\ UNCHANGED <<pos, walked, glimpse, mark, done, stood>>
    BY <1>9 DEF Hero!GameLetsGo
  <2> QED BY <2>1 DEF WalkIInv
<1>10. CASE Hero!MonitorSees
  <2>1. /\ hero \in {"look", "left", "leftWait", "leftLook", "right", "rightLook", "hold"}
        /\ hero' = hero /\ UNCHANGED <<pos, walked, gone, stood>>
        /\ \/ pos \in Zone /\ glimpse' = TRUE /\ UNCHANGED <<mark, done>>
           \/ glimpse /\ UNCHANGED <<glimpse, done>>
           \/ UNCHANGED <<glimpse, mark>>
    BY <1>10 DEF Hero!MonitorSees, Hero!Walking, Hero!OnMark
  <2>2. CASE pos \in Zone /\ glimpse' = TRUE /\ UNCHANGED <<mark, done>>
    BY <1>0, <2>1, <2>2 DEF WalkIInv, end
  <2>3. CASE glimpse /\ UNCHANGED <<glimpse, done>>
    BY <2>1, <2>3 DEF WalkIInv
  <2>4. CASE UNCHANGED <<glimpse, mark>>
    BY <2>1, <2>4 DEF WalkIInv
  <2> QED BY <2>1, <2>2, <2>3, <2>4
<1>11. CASE UNCHANGED Hero!vars
  <2>1. UNCHANGED <<hero, pos, walked, glimpse, mark, done, gone, stood>>
    BY <1>11 DEF Hero!vars, Hero!walkVars
  <2> QED BY <2>1 DEF WalkIInv
<1> QED BY <1>1, <1>2, <1>3, <1>4, <1>5, <1>6, <1>7, <1>8, <1>9, <1>10, <1>11 DEF Hero!Next

\* What is remembered of the steps says when they acted.
LEMMA KeptIsKept == FlowIInv /\ PlanIInv => Hero!PlanIsKept
<1> SUFFICES ASSUME FlowIInv, PlanIInv PROVE Hero!PlanIsKept
  OBVIOUS
<1>1. ASSUME hero \in Fighting, NEW i \in DOMAIN plan
      PROVE  LET over == hero = "head" /\ rounds > 0 IN
             /\ acted[i].n <= 1
             /\ plan[i].kind = "first" /\ over => acted[i].n = 1
             /\ plan[i].kind = "at" =>
                 /\ acted[i].n = 1 => acted[i].when >= plan[i].after
                 /\ over /\ began >= plan[i].after => acted[i].n = 1
             /\ plan[i].kind = "every" /\ over => began - acted[i].when < plan[i].after
  <2>1. StepKept(i)
    BY <1>1 DEF PlanIInv
  <2>2. plan[i].kind \in {"first", "at", "every", "each"}
    <3>1. plan \in Seq([kind : {"first", "at", "every", "each"}, after : Nat])
      BY DEF FlowIInv, PlanFits, Flows
    <3>2. plan[i] \in [kind : {"first", "at", "every", "each"}, after : Nat]
      BY <1>1, <3>1, StepOf
    <3> QED BY <3>2
  <2>3. acted[i].n \in {0, 1}
    BY <2>1, <2>2 DEF StepKept
  <2>4. hero = "head" /\ rounds > 0 => Past(i) /\ Ever(i)
    BY DEF Past, Ever
  <2> QED BY <2>1, <2>3, <2>4 DEF StepKept
<1>2. hero = "flow" => began <= MaxBattle
  BY DEF PlanIInv, BattleTypes
<1>3. ~(hero \in Fighting) => rounds = 0 /\ fired = {} /\ acts = <<>>
  BY DEF PlanIInv, BattleTypes
<1> QED BY <1>1, <1>2, <1>3 DEF Hero!PlanIsKept, Fighting

\* HeroIsSound of HeroBattle, for whatever professions, flows and times: a battle is fought by a
\* flow of the hero's own profession or of Hero, every step of it has its turns, and the walk to
\* the exit ends there (_resolve_flow, battle_loop and way_to_exit of data/character/hero.py).
THEOREM HeroSound == Hero!Spec => []Hero!HeroIsSound
<1> DEFINE IInv == FlowIInv /\ PlanIInv /\ WalkIInv
<1>1. Hero!Init => IInv
  BY InitFlowIInv, InitBattle
<1>2. IInv /\ [Hero!Next]_(Hero!vars) => IInv'
  BY NextFlowIInv, NextPlanIInv, NextWalkIInv
<1>3. IInv => Hero!HeroIsSound
  BY KeptIsKept DEF FlowIInv, WalkIInv, Hero!HeroIsSound, Hero!WalkEndsAtTheExit
<1> HIDE DEF IInv
<1> QED BY <1>1, <1>2, <1>3, PTL DEF Hero!Spec

-----------------------------------------------------------------------------
(* Getting about in the game (Navigation).  First, what a function that is *)
(* given by its steps is.                                                  *)

\* What holds at first and goes on to hold, always holds.
LEMMA SetInduction ==
    ASSUME NEW N \in Nat, NEW P, 0 \in P, \A n \in 1 .. N : n - 1 \in P => n \in P
    PROVE  0 .. N \subseteq P
<1> SUFFICES ASSUME NEW k \in 0 .. N, k \notin P PROVE FALSE
  OBVIOUS
<1> DEFINE Bad == {n \in 0 .. N : n \notin P}
<1>1. PICK m \in Bad : \A n \in Bad : ~(<<n, m>> \in OpToRel(<, Nat))
  <2>1. Bad \subseteq Nat /\ Bad # {}
    OBVIOUS
  <2> QED BY <2>1, NatLessThanWellFounded, WFMin
<1>2. m \in 1 .. N /\ m - 1 \in 0 .. N
  <2>1. m \in 0 .. N /\ m \notin P
    OBVIOUS
  <2> HIDE DEF Bad
  <2> QED BY <2>1
<1>3. m - 1 \in P
  <2>1. <<m - 1, m>> \in OpToRel(<, Nat)
    BY <1>2 DEF OpToRel
  <2> QED BY <1>1, <1>2, <2>1
<1> QED BY <1>1, <1>2, <1>3

\* A function may be given by its first value and the steps from each to the next.
Steps(N, V) == [(1 .. N) \X V -> V]
Values(N, V) == [0 .. N -> V]
Unfolds(f, N, v, S) == f[0] = v /\ \A n \in 1 .. N : f[n] = S[<<n, f[n - 1]>>]
LEMMA Recursion ==
    ASSUME NEW N \in Nat, NEW V, NEW v \in V, NEW S \in Steps(N, V)
    PROVE  \E f \in Values(N, V) : Unfolds(f, N, v, S)
<1> USE DEF Steps, Values, Unfolds
<1> DEFINE Upto(k, f) == f[0] = v /\ \A n \in 1 .. k : f[n] = S[<<n, f[n - 1]>>]
<1> DEFINE P == {k \in 0 .. N : \E f \in [0 .. N -> V] : Upto(k, f)}
<1>1. 0 \in P
  <2> DEFINE f == [n \in 0 .. N |-> v]
  <2>1. f \in [0 .. N -> V] /\ f[0] = v
    OBVIOUS
  <2>2. Upto(0, f)
    BY <2>1
  <2> HIDE DEF f
  <2> QED BY <2>1, <2>2
<1>2. ASSUME NEW n \in 1 .. N, n - 1 \in P PROVE n \in P
  <2>1. PICK f \in [0 .. N -> V] : Upto(n - 1, f)
    BY <1>2
  <2> DEFINE g == [f EXCEPT ![n] = S[<<n, f[n - 1]>>]]
  <2>2. n - 1 \in 0 .. N /\ f[n - 1] \in V /\ S[<<n, f[n - 1]>>] \in V
    OBVIOUS
  <2>3. g \in [0 .. N -> V]
    BY <2>2
  <2>4. g[n] = S[<<n, f[n - 1]>>] /\ \A i \in 0 .. n - 1 : g[i] = f[i]
    BY <2>2
  <2> HIDE DEF g
  <2>5. g[0] = v
    BY <2>1, <2>4
  <2>6. \A i \in 1 .. n : g[i] = S[<<i, g[i - 1]>>]
    <3> SUFFICES ASSUME NEW i \in 1 .. n PROVE g[i] = S[<<i, g[i - 1]>>]
      OBVIOUS
    <3>1. g[i - 1] = f[i - 1]
      BY <2>4
    <3>2. CASE i = n
      BY <3>1, <3>2, <2>4
    <3>3. CASE i # n
      <4>1. i \in 1 .. n - 1 /\ g[i] = f[i]
        BY <3>3, <2>4
      <4> QED BY <4>1, <3>1, <2>1
    <3> QED BY <3>2, <3>3
  <2> QED BY <2>3, <2>5, <2>6
<1>3. N \in P
  <2> HIDE DEF P
  <2> QED BY <1>1, <1>2, SetInduction
<1> QED BY <1>3

-----------------------------------------------------------------------------
LEMMA FarIsNat == Map!Far \in Nat /\ \A l \in Map!Locs : Map!Far >= 1
BY MapAssumption DEF Map!Far, Map!Locs, Map!ToSet

\* Where one gets in no steps is where one is.
LEMMA WithinBegins ==
    ASSUME NEW edges \in SUBSET (Map!Locs \X Map!Locs), NEW from \in Map!Locs
    PROVE  Map!Within(edges, from)[0] = {from}
<1> DEFINE More(before) == before \cup {p[2] : p \in {q \in edges : q[1] \in before}}
           S == [x \in (1 .. Map!Far) \X SUBSET Map!Locs |-> More(x[2])]
<1>1. S \in [(1 .. Map!Far) \X SUBSET Map!Locs -> SUBSET Map!Locs]
  OBVIOUS
<1>2. {from} \in SUBSET Map!Locs
  OBVIOUS
<1>3. PICK f \in [0 .. Map!Far -> SUBSET Map!Locs] :
          f[0] = {from} /\ \A n \in 1 .. Map!Far : f[n] = S[<<n, f[n - 1]>>]
  <2>1. Map!Far \in Nat /\ S \in Steps(Map!Far, SUBSET Map!Locs)
    BY <1>1, FarIsNat DEF Steps
  <2> HIDE DEF S
  <2>2. \E f \in Values(Map!Far, SUBSET Map!Locs) : Unfolds(f, Map!Far, {from}, S)
    BY <1>2, <2>1, Recursion
  <2> QED BY <2>2 DEF Values, Unfolds
<1>4. f = [n \in 0 .. Map!Far |-> IF n = 0 THEN {from} ELSE More(f[n - 1])]
  <2>1. \A n \in 1 .. Map!Far : f[n] = More(f[n - 1])
    <3> SUFFICES ASSUME NEW n \in 1 .. Map!Far PROVE f[n] = More(f[n - 1])
      OBVIOUS
    <3>1. n - 1 \in 0 .. Map!Far
      BY FarIsNat
    <3>2. <<n, f[n - 1]>> \in (1 .. Map!Far) \X SUBSET Map!Locs
      BY <3>1
    <3>3. f[n] = S[<<n, f[n - 1]>>]
      BY <1>3
    <3> HIDE DEF More
    <3> QED BY <3>2, <3>3
  <2> HIDE DEF S, More
  <2>2. \A n \in 0 .. Map!Far : n # 0 => n \in 1 .. Map!Far
    BY FarIsNat
  <2> QED BY <1>3, <2>1, <2>2
<1>5. Map!Within(edges, from) = CHOOSE reach : reach =
          [n \in 0 .. Map!Far |-> IF n = 0 THEN {from} ELSE More(reach[n - 1])]
  BY DEF Map!Within
<1> HIDE DEF More
<1> DEFINE W == Map!Within(edges, from)
<1>6. W = [n \in 0 .. Map!Far |-> IF n = 0 THEN {from} ELSE More(W[n - 1])]
  BY <1>4, <1>5
<1>7. 0 \in 0 .. Map!Far
  BY FarIsNat
<1> QED BY <1>6, <1>7

\* A place is no steps away from itself alone.
LEMMA DistanceFits ==
    ASSUME NEW edges \in SUBSET (Map!Locs \X Map!Locs), NEW from \in Map!Locs, NEW to
    PROVE  /\ Map!Distance(edges, from, to) \in 0 .. Map!Far
           /\ Map!Distance(edges, from, to) = 0 <=> to = from
<1> DEFINE W == Map!Within(edges, from)
           found == {n \in 0 .. Map!Far - 1 : to \in W[n]}
<1>1. Map!Distance(edges, from, to) =
          IF found = {} THEN Map!Far ELSE CHOOSE n \in found : \A k \in found : n <= k
  BY DEF Map!Distance
<1>2. Map!Far \in Nat /\ Map!Far >= 1 /\ W[0] = {from}
  BY FarIsNat, WithinBegins
<1>3. found \subseteq Nat /\ found \subseteq 0 .. Map!Far
  BY <1>2
<1>4. 0 \in found <=> to = from
  BY <1>2
<1> HIDE DEF found, W
<1>5. CASE found = {}
  BY <1>1, <1>2, <1>4, <1>5
<1>6. CASE found # {}
  <2>1. PICK m \in found : \A n \in found : ~(<<n, m>> \in OpToRel(<, Nat))
    BY <1>3, <1>6, NatLessThanWellFounded, WFMin
  <2>2. \A n \in found : m <= n
    <3> SUFFICES ASSUME NEW n \in found, ~(m <= n) PROVE FALSE
      OBVIOUS
    <3>1. n \in Nat /\ m \in Nat /\ n < m
      BY <1>3
    <3>2. <<n, m>> \in OpToRel(<, Nat)
      BY <3>1 DEF OpToRel
    <3> QED BY <3>2, <2>1
  <2> DEFINE d == CHOOSE n \in found : \A k \in found : n <= k
  <2>3. d \in found /\ \A k \in found : d <= k
    BY <2>2
  <2>4. Map!Distance(edges, from, to) = d
    BY <1>1, <1>6
  <2> HIDE DEF d
  <2>5. d \in 0 .. Map!Far
    BY <2>3, <1>3
  <2>6. 0 \in found => d = 0
    BY <2>3, <2>5
  <2>7. d = 0 => 0 \in found
    BY <2>3
  <2> QED BY <2>4, <2>5, <2>6, <2>7, <1>4
<1> QED BY <1>5, <1>6

\* What get_nearest_env makes of a list is of the list.
LEMMA NearestIsListed ==
    ASSUME NEW from, NEW envOf, NEW T, NEW list \in Seq(T), list # <<>>
    PROVE  Map!NearestOf(from, envOf, list) \in {list[i] : i \in DOMAIN list}
<1> DEFINE better(i, n) == Map!Distance(Map!EnvPaths, from, envOf[list[i]])
                              < Map!Distance(Map!EnvPaths, from, Map!EnvNumber(n))
           N == Len(list)
           V == 0 .. N - 1
           S == [x \in (1 .. N) \X V |-> IF better(x[1], x[2]) THEN x[1] - 1 ELSE x[2]]
<1>0. N \in Nat /\ N >= 1 /\ DOMAIN list = 1 .. N
  OBVIOUS
<1> HIDE DEF better, N
<1>1. S \in [(1 .. N) \X V -> V] /\ 0 \in V
  BY <1>0
<1>2. PICK f \in [0 .. N -> V] : f[0] = 0 /\ \A n \in 1 .. N : f[n] = S[<<n, f[n - 1]>>]
  <2>1. S \in Steps(N, V)
    BY <1>1 DEF Steps
  <2> HIDE DEF S, V
  <2>2. \E f \in Values(N, V) : Unfolds(f, N, 0, S)
    BY <1>0, <1>1, <2>1, Recursion
  <2> QED BY <2>2 DEF Values, Unfolds
<1>3. f = [n \in 0 .. N |->
              IF n = 0 THEN 0 ELSE IF better(n, f[n - 1]) THEN n - 1 ELSE f[n - 1]]
  <2>1. \A n \in 1 .. N : f[n] = IF better(n, f[n - 1]) THEN n - 1 ELSE f[n - 1]
    <3> SUFFICES ASSUME NEW n \in 1 .. N
                 PROVE  f[n] = IF better(n, f[n - 1]) THEN n - 1 ELSE f[n - 1]
      OBVIOUS
    <3>1. n - 1 \in 0 .. N
      BY <1>0
    <3>2. <<n, f[n - 1]>> \in (1 .. N) \X V
      <4> HIDE DEF V
      <4> QED BY <3>1
    <3>3. f[n] = S[<<n, f[n - 1]>>]
      BY <1>2
    <3> HIDE DEF V
    <3> QED BY <3>2, <3>3
  <2> HIDE DEF S, V
  <2>2. \A n \in 0 .. N : n # 0 => n \in 1 .. N
    BY <1>0
  <2> QED BY <1>2, <2>1, <2>2
<1> DEFINE best == CHOOSE b : b = [n \in 0 .. N |->
              IF n = 0 THEN 0 ELSE IF better(n, b[n - 1]) THEN n - 1 ELSE b[n - 1]]
<1>4. Map!NearestOf(from, envOf, list) = list[best[N] + 1]
  BY DEF Map!NearestOf, better, N
<1>5. best = [n \in 0 .. N |->
              IF n = 0 THEN 0 ELSE IF better(n, best[n - 1]) THEN n - 1 ELSE best[n - 1]]
  BY <1>3
<1> HIDE DEF best
<1> DEFINE P == {n \in 0 .. N : best[n] \in V}
<1>6. 0 \in P
  BY <1>5, <1>0
<1>7. ASSUME NEW n \in 1 .. N, n - 1 \in P PROVE n \in P
  <2>1. n \in 0 .. N /\ n # 0 /\ n - 1 \in V /\ best[n - 1] \in V
    BY <1>0, <1>7
  <2>2. best[n] = IF better(n, best[n - 1]) THEN n - 1 ELSE best[n - 1]
    BY <1>5, <2>1
  <2> QED BY <2>1, <2>2
<1>8. best[N] \in V
  <2>1. 0 .. N \subseteq P
    <3> HIDE DEF P
    <3> QED BY <1>0, <1>6, <1>7, SetInduction
  <2> QED BY <2>1, <1>0
<1>9. best[N] + 1 \in DOMAIN list
  <2>1. best[N] \in 0 .. N - 1
    BY <1>8
  <2>2. \A k \in 0 .. N - 1 : k + 1 \in 1 .. N
    BY <1>0
  <2> QED BY <2>1, <2>2, <1>0
<1> QED BY <1>4, <1>9

\* The last n of the paths of a shortest way, as the numbers of steps to where they begin tell.
Approach(edges, from, to, n, way) ==
    /\ way \in Seq(edges) /\ Len(way) = n
    /\ \A i \in 1 .. n :
          /\ Map!Distance(edges, from, way[i][1]) = Map!Distance(edges, from, to) - n + i - 1
          /\ way[i][2] = IF i = n THEN to ELSE way[i + 1][1]

LEMMA ApproachGrows ==
    ASSUME NEW edges \in SUBSET (Map!Locs \X Map!Locs), NEW from \in Map!Locs, NEW to,
           NEW n \in Nat, n > 0, NEW way, Approach(edges, from, to, n - 1, way),
           NEW p \in edges, p[2] = (IF way = <<>> THEN to ELSE Head(way)[1]),
           Map!Distance(edges, from, p[1]) = Map!Distance(edges, from, to) - n
    PROVE  Approach(edges, from, to, n, <<p>> \o way)
<1> DEFINE d(l) == Map!Distance(edges, from, l)
           new == <<p>> \o way
<1>1. d(to) \in 0 .. Map!Far /\ Map!Far \in Nat
  BY DistanceFits, FarIsNat
<1>2. /\ way \in Seq(edges) /\ Len(way) = n - 1
      /\ \A i \in 1 .. n - 1 : /\ d(way[i][1]) = d(to) - (n - 1) + i - 1
                               /\ way[i][2] = IF i = n - 1 THEN to ELSE way[i + 1][1]
  BY DEF Approach
<1>3. d(p[1]) = d(to) - n
  OBVIOUS
<1> HIDE DEF d
<1>4. /\ new \in Seq(edges) /\ Len(new) = n
      /\ new[1] = p /\ \A i \in 2 .. n : i - 1 \in 1 .. n - 1 /\ new[i] = way[i - 1]
  BY <1>2
<1> HIDE DEF new
<1>5. ASSUME NEW i \in 1 .. n
      PROVE  d(new[i][1]) = d(to) - n + i - 1 /\ new[i][2] = IF i = n THEN to ELSE new[i + 1][1]
  <2>1. CASE i = 1
    <3>1. d(new[i][1]) = d(to) - n + i - 1
      BY <2>1, <1>1, <1>3, <1>4
    <3>2. way = <<>> <=> n = 1
      BY <1>2
    <3>3. n > 1 => Head(way)[1] = new[2][1]
      BY <1>2, <1>4
    <3>4. new[1][2] = IF n = 1 THEN to ELSE new[2][1]
      BY <3>2, <3>3, <1>4
    <3> QED BY <3>1, <3>4, <2>1
  <2>2. CASE i # 1
    <3>1. i \in 2 .. n
      BY <2>2
    <3> DEFINE j == i - 1
    <3>2. j \in 1 .. n - 1 /\ new[i] = way[j] /\ i = j + 1
      BY <3>1, <1>4
    <3> HIDE DEF j
    <3>3. d(way[j][1]) = d(to) - (n - 1) + j - 1
      BY <3>2, <1>2
    <3>4. d(new[i][1]) = d(to) - n + i - 1
      BY <3>2, <3>3, <1>1, SMTT(60)
    <3>5. i # n => i + 1 \in 2 .. n /\ new[i + 1] = way[j + 1]
      BY <3>1, <3>2, <1>4
    <3>6. new[i][2] = IF i = n THEN to ELSE new[i + 1][1]
      BY <3>2, <3>5, <1>2, SMTT(60)
    <3> QED BY <3>4, <3>6
  <2> QED BY <2>1, <2>2
<1> QED BY <1>4, <1>5 DEF Approach, new, d

\* What a way between two places is: it begins at the one, goes on from path to path, ends at the
\* other, and comes to no place twice.
Chained(way) == \A i \in 1 .. Len(way) - 1 : way[i][2] = way[i + 1][1]
OnceEach(way) == \A i, j \in DOMAIN way : i # j => way[i][2] # way[j][2]

LEMMA ApproachIsWay ==
    ASSUME NEW edges \in SUBSET (Map!Locs \X Map!Locs), NEW from \in Map!Locs,
           NEW to \in Map!Locs, NEW way,
           Approach(edges, from, to, Map!Distance(edges, from, to), way)
    PROVE  /\ way \in Seq(edges) /\ Chained(way) /\ OnceEach(way)
           /\ way = <<>> <=> from = to
           /\ way # <<>> => way[1][1] = from /\ way[Len(way)][2] = to
           /\ \A i \in DOMAIN way : way[i][2] # from
<1> DEFINE d(l) == Map!Distance(edges, from, l)
           n == d(to)
<1>1. \A l : d(l) \in 0 .. Map!Far /\ (d(l) = 0 <=> l = from)
  BY DistanceFits
<1>2. n \in Nat
  BY <1>1, FarIsNat
<1>3. /\ way \in Seq(edges) /\ Len(way) = n
      /\ \A i \in 1 .. n : /\ d(way[i][1]) = n - n + i - 1
                           /\ way[i][2] = IF i = n THEN to ELSE way[i + 1][1]
  BY DEF Approach
<1>4. DOMAIN way = 1 .. n
  BY <1>3
<1>5. d(to) = n /\ (n = 0 <=> to = from)
  BY <1>1
<1> HIDE DEF n, d
<1>6. \A i \in 1 .. n : d(way[i][2]) = i
  <2> SUFFICES ASSUME NEW i \in 1 .. n PROVE d(way[i][2]) = i
    OBVIOUS
  <2>1. CASE i = n
    BY <2>1, <1>3, <1>5
  <2>2. CASE i # n
    <3>1. i + 1 \in 1 .. n /\ way[i][2] = way[i + 1][1]
      BY <2>2, <1>2, <1>3
    <3>2. d(way[i + 1][1]) = n - n + (i + 1) - 1
      BY <3>1, <1>3
    <3> QED BY <3>1, <3>2, <1>2
  <2> QED BY <2>1, <2>2
<1>7. Chained(way)
  BY <1>2, <1>3 DEF Chained
<1>8. OnceEach(way)
  <2> SUFFICES ASSUME NEW i \in 1 .. n, NEW j \in 1 .. n, way[i][2] = way[j][2] PROVE i = j
    BY <1>4 DEF OnceEach
  <2>1. d(way[i][2]) = i /\ d(way[j][2]) = j
    BY <1>6
  <2> QED BY <2>1
<1>9. way = <<>> <=> from = to
  BY <1>3, <1>5
<1>10. way # <<>> => way[1][1] = from /\ way[Len(way)][2] = to
  <2> SUFFICES ASSUME way # <<>> PROVE way[1][1] = from /\ way[n][2] = to
    BY <1>3
  <2>1. 1 \in 1 .. n /\ n \in 1 .. n
    BY <1>2, <1>3
  <2>2. d(way[1][1]) = n - n + 1 - 1 /\ way[n][2] = to
    BY <2>1, <1>3
  <2>3. d(way[1][1]) = 0
    BY <2>2, <1>2
  <2> QED BY <2>2, <2>3, <1>1
<1>11. \A i \in 1 .. n : way[i][2] # from
  <2> SUFFICES ASSUME NEW i \in 1 .. n PROVE way[i][2] # from
    OBVIOUS
  <2>1. d(way[i][2]) # 0
    BY <1>6
  <2> QED BY <2>1, <1>1
<1> QED BY <1>3, <1>4, <1>7, <1>8, <1>9, <1>10, <1>11

LEMMA RoutesApproach ==
    ASSUME NEW edges \in SUBSET (Map!Locs \X Map!Locs), NEW from \in Map!Locs,
           NEW to \in Map!Locs, NEW way \in Map!Routes(edges, from, to)
    PROVE  Approach(edges, from, to, Map!Distance(edges, from, to), way)
<1> DEFINE N == Map!Far
           d(l) == Map!Distance(edges, from, l)
           k == d(to)
           V == SUBSET Seq(edges)
           Next1(w, n) == {q \in edges : /\ q[2] = (IF w = <<>> THEN to ELSE Head(w)[1])
                                         /\ d(q[1]) = k - n}
           More(n, W) == UNION {{<<p>> \o w : p \in Next1(w, n)} : w \in W}
           S == [x \in (1 .. N) \X V |-> More(x[1], x[2])]
<1>0. N \in Nat /\ k \in 0 .. N
  BY FarIsNat, DistanceFits
<1>1. S \in Steps(N, V)
  <2> SUFFICES ASSUME NEW n \in 1 .. N, NEW W \in V PROVE More(n, W) \in V
    <3> HIDE DEF More, V, N
    <3> QED BY DEF Steps
  <2>1. ASSUME NEW w \in W, NEW p \in Next1(w, n) PROVE <<p>> \o w \in Seq(edges)
    <3>1. w \in Seq(edges) /\ p \in edges
      OBVIOUS
    <3> QED BY <3>1
  <2> HIDE DEF Next1
  <2>2. ASSUME NEW x \in More(n, W) PROVE x \in Seq(edges)
    <3>1. PICK w \in W : x \in {<<p>> \o w : p \in Next1(w, n)}
      BY Zenon
    <3>2. PICK p \in Next1(w, n) : x = <<p>> \o w
      BY <3>1, Zenon
    <3> QED BY <2>1, <3>2, Zenon
  <2> HIDE DEF More
  <2> QED BY <2>2
<1>2. PICK f \in Values(N, V) : Unfolds(f, N, {<<>>}, S)
  <2>1. {<<>>} \in V
    OBVIOUS
  <2> HIDE DEF S, V, N
  <2> QED BY <1>0, <1>1, <2>1, Recursion
<1>3. f = [n \in 0 .. N |-> IF n = 0 THEN {<<>>} ELSE More(n, f[n - 1])]
  <2>0. /\ f \in [0 .. N -> V] /\ f[0] = {<<>>}
        /\ \A n \in 1 .. N : f[n] = S[<<n, f[n - 1]>>]
    BY <1>2 DEF Values, Unfolds
  <2>1. \A n \in 1 .. N : f[n] = More(n, f[n - 1])
    <3> SUFFICES ASSUME NEW n \in 1 .. N PROVE f[n] = More(n, f[n - 1])
      OBVIOUS
    <3>1. n - 1 \in 0 .. N
      BY <1>0
    <3> HIDE DEF V
    <3>2. <<n, f[n - 1]>> \in (1 .. N) \X V
      BY <3>1, <2>0
    <3>3. f[n] = S[<<n, f[n - 1]>>]
      BY <2>0
    <3> HIDE DEF More
    <3> QED BY <3>2, <3>3
  <2>2. \A n \in 0 .. N : n # 0 => n \in 1 .. N
    BY <1>0
  <2> HIDE DEF S, V, N, More
  <2> QED BY <2>0, <2>1, <2>2
<1> DEFINE ways == CHOOSE g : g = [n \in 0 .. N |-> IF n = 0 THEN {<<>>} ELSE More(n, g[n - 1])]
<1>4. Map!Routes(edges, from, to) = IF k = N THEN {} ELSE ways[k]
  BY DEF Map!Routes
<1>5. ways = [n \in 0 .. N |-> IF n = 0 THEN {<<>>} ELSE More(n, ways[n - 1])]
  <2> HIDE DEF More, N
  <2> QED BY <1>3
<1> HIDE DEF ways
<1> DEFINE P == {n \in 0 .. N : \A w \in ways[n] : Approach(edges, from, to, n, w)}
<1>6. 0 \in P
  <2>1. ways[0] = {<<>>} /\ 0 \in 0 .. N
    <3> HIDE DEF More, N
    <3> QED BY <1>5, <1>0
  <2>2. Approach(edges, from, to, 0, <<>>)
    BY DEF Approach
  <2> QED BY <2>1, <2>2
<1>7. ASSUME NEW n \in 1 .. N, n - 1 \in P PROVE n \in P
  <2>1. n \in 0 .. N /\ n # 0 /\ n \in Nat /\ n > 0
    BY <1>0
  <2>2. ways[n] = More(n, ways[n - 1])
    <3> HIDE DEF More, N, P
    <3> QED BY <1>5, <2>1
  <2>3. ASSUME NEW w \in ways[n - 1], NEW p \in Next1(w, n)
        PROVE  Approach(edges, from, to, n, <<p>> \o w)
    <3>1. Approach(edges, from, to, n - 1, w)
      BY <1>7
    <3>2. p \in edges /\ p[2] = (IF w = <<>> THEN to ELSE Head(w)[1]) /\ d(p[1]) = d(to) - n
      OBVIOUS
    <3> QED BY <3>1, <3>2, <2>1, ApproachGrows
  <2>4. \A w \in ways[n] : Approach(edges, from, to, n, w)
    <3> HIDE DEF Next1, P
    <3> QED BY <2>2, <2>3, ZenonT(120)
  <2> QED BY <2>1, <2>4
<1>8. k \in P
  <2>1. 0 .. N \subseteq P
    <3> HIDE DEF P, N
    <3> QED BY <1>0, <1>6, <1>7, SetInduction
  <2> HIDE DEF P
  <2> QED BY <2>1, <1>0
<1>9. way \in ways[k]
  BY <1>4
<1> QED BY <1>8, <1>9

-----------------------------------------------------------------------------
\* An environment is in itself only.
LEMMA MapFits ==
    /\ Map!Envs \subseteq Map!Locs
    /\ \A e \in Map!Envs : Map!LocsOf(e) \subseteq Map!Locs
    /\ \A e \in Map!Envs : \A l \in Map!Envs : l \in Map!LocsOf(e) <=> l = e
    /\ \A l \in Map!Locs : Len(EnvsOf[l]) = 1 =>
          \A e, f \in Map!Envs : l \in Map!LocsOf(e) /\ l \in Map!LocsOf(f) => e = f
    /\ \A e \in Map!Envs : Len(EnvsOf[e]) = 1
<1>1. /\ Map!Envs \subseteq Map!Locs
      /\ \A e \in Map!Envs : EnvsOf[e] = <<e>>
      /\ EnvsOf \in [Map!Locs -> Seq(Map!Envs) \ {<<>>}]
  BY MapAssumption
<1>2. \A e \in Map!Envs : Map!LocsOf(e) \subseteq Map!Locs
  BY DEF Map!LocsOf
<1>3. ASSUME NEW e \in Map!Envs, NEW l \in Map!Envs PROVE l \in Map!LocsOf(e) <=> l = e
  <2>1. Map!ToSet(EnvsOf[l]) = {l}
    BY <1>1 DEF Map!ToSet
  <2> QED BY <2>1, <1>1 DEF Map!LocsOf
<1>4. ASSUME NEW l \in Map!Locs, Len(EnvsOf[l]) = 1, NEW e \in Map!Envs, NEW f \in Map!Envs,
             l \in Map!LocsOf(e), l \in Map!LocsOf(f)
      PROVE  e = f
  <2>1. EnvsOf[l] \in Seq(Map!Envs)
    BY <1>1
  <2>2. DOMAIN EnvsOf[l] = 1 .. 1
    BY <2>1, <1>4
  <2>3. Map!ToSet(EnvsOf[l]) = {EnvsOf[l][1]}
    BY <2>2 DEF Map!ToSet
  <2> QED BY <2>3, <1>4 DEF Map!LocsOf
<1>5. \A e \in Map!Envs : Len(EnvsOf[e]) = 1
  <2> SUFFICES ASSUME NEW e \in Map!Envs PROVE Len(EnvsOf[e]) = 1
    OBVIOUS
  <2>1. EnvsOf[e] = <<e>>
    BY <1>1
  <2> HIDE DEF Map!Envs
  <2> QED BY <2>1
<1> QED BY <1>1, <1>2, <1>3, <1>4, <1>5

LEMMA PathsFit ==
    /\ Map!EnvPaths \in SUBSET (Map!Locs \X Map!Locs) /\ Map!EnvPaths \subseteq Paths
    /\ \A e : Map!LocPaths(e) \in SUBSET (Map!Locs \X Map!Locs) /\ Map!LocPaths(e) \subseteq Paths
    /\ \A p \in Map!EnvPaths : p[1] \in Map!Envs /\ p[2] \in Map!Envs /\ p[1] # p[2]
    /\ \A e : \A p \in Map!LocPaths(e) :
          p[1] \in Map!LocsOf(e) /\ p[2] \in Map!LocsOf(e) /\ p[1] # p[2]
BY MapAssumption DEF Map!EnvPaths, Map!LocPaths

\* A path is of one environment, or between two.
LEMMA PathsApart ==
    /\ \A e \in Map!Envs : \A p \in Map!LocPaths(e) : p \notin Map!EnvPaths
    /\ \A e, f \in Map!Envs : \A p \in Map!LocPaths(e) : p \in Map!LocPaths(f) => e = f
<1>1. ASSUME NEW e \in Map!Envs, NEW p \in Map!LocPaths(e) PROVE p \notin Map!EnvPaths
  BY <1>1, PathsFit, MapFits
<1>2. ASSUME NEW e \in Map!Envs, NEW f \in Map!Envs, NEW p \in Map!LocPaths(e),
             p \in Map!LocPaths(f)
      PROVE  e = f
  <2>1. /\ p[1] \in Map!LocsOf(e) /\ p[2] \in Map!LocsOf(e) /\ p \in Paths
        /\ p[1] \in Map!LocsOf(f) /\ p[2] \in Map!LocsOf(f)
        /\ p[1] \in Map!Locs /\ p[2] \in Map!Locs
    BY <1>2, PathsFit, MapFits
  <2>2. p[1] \in Map!Envs \/ p[2] \in Map!Envs \/ Len(EnvsOf[p[1]]) = 1
    BY <2>1, MapAssumption
  <2> QED BY <2>1, <2>2, MapFits
<1> QED BY <1>1, <1>2

\* Where a place is, and what ensure_in() decides on.
LEMMA EnvOfFits ==
    ASSUME NEW l \in Map!Locs, NEW cur
    PROVE  Map!EnvOf(l, cur) \in Map!Envs /\ l \in Map!LocsOf(Map!EnvOf(l, cur))
<1>1. EnvsOf[l] \in Seq(Map!Envs) /\ EnvsOf[l] # <<>>
  BY MapAssumption
<1>2. Map!EnvOf(l, cur) \in Map!ToSet(EnvsOf[l])
  <2>1. Map!NearestOf(cur, [e \in Map!Envs |-> e], EnvsOf[l]) \in Map!ToSet(EnvsOf[l])
    BY <1>1, NearestIsListed DEF Map!ToSet
  <2> QED BY <2>1 DEF Map!EnvOf
<1>3. Map!ToSet(EnvsOf[l]) \subseteq Map!Envs
  BY <1>1 DEF Map!ToSet
<1> QED BY <1>2, <1>3 DEF Map!LocsOf

LEMMA NearestFits ==
    ASSUME NEW list \in Goals, NEW cur
    PROVE  Map!Nearest(list, cur) \in Map!ToSet(list) /\ Map!ToSet(list) \subseteq Map!Locs
<1>1. list \in Seq(Map!Locs) /\ list # <<>>
  BY MapAssumption
<1>2. Map!ToSet(list) \subseteq Map!Locs
  BY <1>1 DEF Map!ToSet
<1>3. CASE Len(list) = 1
  BY <1>1, <1>3 DEF Map!Nearest, Map!ToSet
<1>4. CASE Len(list) # 1
  <2>1. \A envOf : Map!NearestOf(cur, envOf, list) \in Map!ToSet(list)
    BY <1>1, NearestIsListed DEF Map!ToSet
  <2> QED BY <2>1, <1>2, <1>4 DEF Map!Nearest
<1> QED BY <1>2, <1>3, <1>4

-----------------------------------------------------------------------------
\* A path may follow another: it begins where that ends, and in the same environment.
Follows(p, q) ==
    /\ p[2] = q[1]
    /\ \A e \in Map!Envs : p \in Map!LocPaths(e) => q \in Map!EnvPaths \cup Map!LocPaths(e)

OfTheMap(p) == p \in Map!EnvPaths \/ \E e \in Map!Envs : p \in Map!LocPaths(e)

\* What is left of a way, for who is in an environment.
Legs(way, env) ==
    /\ \A i \in DOMAIN way : OfTheMap(way[i])
    /\ \A i \in 1 .. Len(way) - 1 : Follows(way[i], way[i + 1])
    /\ way # <<>> => way[1] \in Map!EnvPaths \cup Map!LocPaths(env)

\* Two ways are one if the second begins with what may follow the first.
LEMMA JoinedLegs ==
    ASSUME NEW s \in Seq(Paths), NEW t \in Seq(Paths), NEW e, NEW f,
           Legs(s, e), Legs(t, f), s # <<>>, t # <<>>, Follows(s[Len(s)], t[1])
    PROVE  Legs(s \o t, e)
<1> DEFINE m == Len(s)
           n == Len(t)
           st == s \o t
<1>1. /\ st \in Seq(Paths) /\ Len(st) = m + n /\ m \in Nat /\ n \in Nat /\ m > 0 /\ n > 0
      /\ DOMAIN s = 1 .. m /\ DOMAIN t = 1 .. n /\ DOMAIN st = 1 .. m + n
      /\ \A i \in 1 .. m : st[i] = s[i]
      /\ \A i \in m + 1 .. m + n : st[i] = t[i - m]
  OBVIOUS
<1>2. Len(st) = Len(s \o t) /\ (s \o t) # <<>>
  BY <1>1
<1>3. /\ \A i \in 1 .. m : OfTheMap(s[i])
      /\ \A i \in 1 .. m - 1 : Follows(s[i], s[i + 1])
      /\ s[1] \in Map!EnvPaths \cup Map!LocPaths(e)
      /\ \A i \in 1 .. n : OfTheMap(t[i])
      /\ \A i \in 1 .. n - 1 : Follows(t[i], t[i + 1])
      /\ Follows(s[m], t[1])
  BY <1>1 DEF Legs
<1> HIDE DEF m, n, st
<1>4. \A i \in 1 .. m + n : OfTheMap(st[i])
  <2> SUFFICES ASSUME NEW i \in 1 .. m + n PROVE OfTheMap(st[i])
    OBVIOUS
  <2>1. i \in 1 .. m \/ (i \in m + 1 .. m + n /\ i - m \in 1 .. n)
    BY <1>1
  <2> QED BY <2>1, <1>1, <1>3
<1>5. \A i \in 1 .. m + n - 1 : Follows(st[i], st[i + 1])
  <2> SUFFICES ASSUME NEW i \in 1 .. m + n - 1 PROVE Follows(st[i], st[i + 1])
    OBVIOUS
  <2>1. CASE i < m
    <3>1. i \in 1 .. m - 1 /\ i \in 1 .. m /\ i + 1 \in 1 .. m
      BY <1>1, <2>1
    <3> QED BY <3>1, <1>1, <1>3
  <2>2. CASE i = m
    <3>1. m \in 1 .. m /\ m + 1 \in m + 1 .. m + n /\ (m + 1) - m = 1
      BY <1>1
    <3>2. st[m] = s[m] /\ st[m + 1] = t[1]
      BY <3>1, <1>1
    <3> QED BY <3>2, <1>3, <2>2
  <2>3. CASE i > m
    <3> DEFINE j == i - m
    <3>1. /\ j \in 1 .. n - 1 /\ i \in m + 1 .. m + n /\ i + 1 \in m + 1 .. m + n
          /\ (i + 1) - m = j + 1
      BY <1>1, <2>3
    <3>2. st[i] = t[j] /\ st[i + 1] = t[j + 1]
      BY <3>1, <1>1
    <3> HIDE DEF j
    <3> QED BY <3>1, <3>2, <1>3
  <2> QED BY <2>1, <2>2, <2>3, <1>1
<1>6. st[1] = s[1]
  BY <1>1
<1> QED BY <1>1, <1>2, <1>3, <1>4, <1>5, <1>6, SMTT(60) DEF Legs, st

LEMMA JoinedOnce ==
    ASSUME NEW s \in Seq(Paths), NEW t \in Seq(Paths), OnceEach(s), OnceEach(t),
           \A i \in DOMAIN s : \A j \in DOMAIN t : s[i][2] # t[j][2]
    PROVE  OnceEach(s \o t)
<1> DEFINE m == Len(s)
           n == Len(t)
           st == s \o t
<1>1. /\ m \in Nat /\ n \in Nat /\ DOMAIN s = 1 .. m /\ DOMAIN t = 1 .. n
      /\ DOMAIN st = 1 .. m + n
      /\ \A i \in 1 .. m : st[i] = s[i]
      /\ \A i \in m + 1 .. m + n : st[i] = t[i - m]
  OBVIOUS
<1> HIDE DEF m, n, st
<1> SUFFICES ASSUME NEW i \in 1 .. m + n, NEW j \in 1 .. m + n, i # j
             PROVE  st[i][2] # st[j][2]
  BY <1>1 DEF OnceEach, st
<1>2. /\ i \in 1 .. m \/ (i \in m + 1 .. m + n /\ i - m \in 1 .. n)
      /\ j \in 1 .. m \/ (j \in m + 1 .. m + n /\ j - m \in 1 .. n)
  BY <1>1
<1>3. CASE i \in 1 .. m /\ j \in 1 .. m
  BY <1>3, <1>1, SMTT(60) DEF OnceEach
<1>4. CASE i \in m + 1 .. m + n /\ j \in m + 1 .. m + n
  <2>1. i - m \in 1 .. n /\ j - m \in 1 .. n /\ i - m # j - m
    BY <1>1, <1>4
  <2>2. st[i] = t[i - m] /\ st[j] = t[j - m]
    BY <1>1, <1>4
  <2>3. t[i - m][2] # t[j - m][2]
    BY <2>1, <1>1 DEF OnceEach
  <2> QED BY <2>2, <2>3
<1>5. CASE i \in 1 .. m /\ j \in m + 1 .. m + n
  <2>1. j - m \in 1 .. n
    BY <1>1, <1>5
  <2>2. st[i] = s[i] /\ st[j] = t[j - m]
    BY <1>1, <1>5
  <2> QED BY <1>1, <1>5, <2>1, <2>2
<1>6. CASE j \in 1 .. m /\ i \in m + 1 .. m + n
  <2>1. i - m \in 1 .. n
    BY <1>1, <1>6
  <2>2. st[j] = s[j] /\ st[i] = t[i - m]
    BY <1>1, <1>6
  <2> QED BY <1>1, <1>6, <2>1, <2>2
<1> QED BY <1>2, <1>3, <1>4, <1>5, <1>6

\* A way from a place to another.
Leads(way, from, to) ==
    /\ OnceEach(way)
    /\ way = <<>> <=> from = to
    /\ way # <<>> => way[1][1] = from /\ way[Len(way)][2] = to
    /\ \A i \in DOMAIN way : way[i][2] # from

\* The routes within an environment, and between them, are ways.
LEMMA LocRoutes ==
    ASSUME NEW e \in Map!Envs, NEW from \in Map!Locs, NEW to \in Map!Locs,
           NEW way \in Map!Routes(Map!LocPaths(e), from, to)
    PROVE  /\ way \in Seq(Paths) /\ Legs(way, e) /\ Leads(way, from, to)
           /\ \A i \in DOMAIN way : way[i] \in Map!LocPaths(e)
<1> DEFINE edges == Map!LocPaths(e)
<1>1. edges \in SUBSET (Map!Locs \X Map!Locs) /\ edges \subseteq Paths
  BY PathsFit
<1> HIDE DEF edges
<1>2. /\ way \in Seq(edges) /\ Chained(way) /\ OnceEach(way)
      /\ way = <<>> <=> from = to
      /\ way # <<>> => way[1][1] = from /\ way[Len(way)][2] = to
      /\ \A i \in DOMAIN way : way[i][2] # from
  <2>1. way \in Map!Routes(edges, from, to)
    BY DEF edges
  <2>2. Approach(edges, from, to, Map!Distance(edges, from, to), way)
    BY <1>1, <2>1, RoutesApproach
  <2> QED BY <1>1, <2>2, ApproachIsWay, SMTT(60)
<1>3. Leads(way, from, to)
  BY <1>2 DEF Leads
<1>4. way \in Seq(Paths) /\ \A i \in DOMAIN way : way[i] \in edges
  BY <1>1, <1>2
<1>5. Legs(way, e)
  <2>1. \A i \in DOMAIN way : OfTheMap(way[i])
    BY <1>4 DEF OfTheMap, edges
  <2>2. ASSUME NEW i \in 1 .. Len(way) - 1 PROVE Follows(way[i], way[i + 1])
    <3>1. i \in DOMAIN way /\ i + 1 \in DOMAIN way
      BY <1>4
    <3>2. way[i] \in edges /\ way[i + 1] \in edges /\ way[i][2] = way[i + 1][1]
      BY <3>1, <1>2, <1>4 DEF Chained
    <3>3. \A f \in Map!Envs : way[i] \in Map!LocPaths(f) => f = e
      BY <3>2, PathsApart DEF edges
    <3> QED BY <3>2, <3>3 DEF Follows, edges
  <2>3. way # <<>> => way[1] \in edges
    BY <1>4
  <2> QED BY <2>1, <2>2, <2>3 DEF Legs, edges
<1> QED BY <1>3, <1>4, <1>5 DEF edges

LEMMA EnvRoutes ==
    ASSUME NEW from \in Map!Envs, NEW to \in Map!Envs,
           NEW way \in Map!Routes(Map!EnvPaths, from, to), NEW e
    PROVE  /\ way \in Seq(Paths) /\ Legs(way, e) /\ Leads(way, from, to)
           /\ \A i \in DOMAIN way : way[i] \in Map!EnvPaths
<1> DEFINE edges == Map!EnvPaths
<1>1. edges \in SUBSET (Map!Locs \X Map!Locs) /\ edges \subseteq Paths
  BY PathsFit
<1>0. from \in Map!Locs /\ to \in Map!Locs
  BY MapFits
<1> HIDE DEF edges
<1>2. /\ way \in Seq(edges) /\ Chained(way) /\ OnceEach(way)
      /\ way = <<>> <=> from = to
      /\ way # <<>> => way[1][1] = from /\ way[Len(way)][2] = to
      /\ \A i \in DOMAIN way : way[i][2] # from
  <2>1. way \in Map!Routes(edges, from, to)
    BY DEF edges
  <2>2. Approach(edges, from, to, Map!Distance(edges, from, to), way)
    BY <1>0, <1>1, <2>1, RoutesApproach
  <2> QED BY <1>0, <1>1, <2>2, ApproachIsWay, SMTT(60)
<1>3. Leads(way, from, to)
  BY <1>2 DEF Leads
<1>4. way \in Seq(Paths) /\ \A i \in DOMAIN way : way[i] \in edges
  BY <1>1, <1>2
<1>5. Legs(way, e)
  <2>1. \A i \in DOMAIN way : OfTheMap(way[i])
    BY <1>4 DEF OfTheMap, edges
  <2>2. ASSUME NEW i \in 1 .. Len(way) - 1 PROVE Follows(way[i], way[i + 1])
    <3>1. i \in DOMAIN way /\ i + 1 \in DOMAIN way
      BY <1>4
    <3>2. way[i + 1] \in edges /\ way[i][2] = way[i + 1][1]
      BY <3>1, <1>2, <1>4 DEF Chained
    <3> QED BY <3>2 DEF Follows, edges
  <2>3. way # <<>> => way[1] \in edges
    BY <1>4
  <2> QED BY <2>1, <2>2, <2>3 DEF Legs, edges
<1> QED BY <1>3, <1>4, <1>5 DEF edges

\* The way out of a place to its environment comes to no place that is shared.
LEMMA WayOut ==
    ASSUME NEW e \in Map!Envs, NEW from \in Map!LocsOf(e),
           NEW way \in Map!Routes(Map!LocPaths(e), from, e), NEW i \in DOMAIN way
    PROVE  /\ way[i][2] \in Map!LocsOf(e)
           /\ \A f \in Map!Envs : way[i][2] \in Map!LocsOf(f) => f = e
<1>1. from \in Map!Locs /\ e \in Map!Locs
  BY MapFits
<1>2. /\ way \in Seq(Paths) /\ Legs(way, e) /\ Leads(way, from, e)
      /\ \A k \in DOMAIN way : way[k] \in Map!LocPaths(e)
  BY <1>1, LocRoutes
<1>3. way[i] \in Map!LocPaths(e) /\ way[i] \in Paths
  BY <1>2, PathsFit
<1>4. way[i][1] \in Map!LocsOf(e) /\ way[i][2] \in Map!LocsOf(e) /\ way[i][2] \in Map!Locs
  BY <1>3, PathsFit, MapFits
<1>5. way[i][2] \in Map!Envs \/ Len(EnvsOf[way[i][2]]) = 1
  <2> SUFFICES ASSUME way[i][1] \in Map!Envs PROVE way[i][2] \in Map!Envs
    BY <1>3, MapAssumption
  <2>1. way[i][1] = e
    BY <1>4, MapFits
  <2>2. CASE i = 1
    BY <2>1, <2>2, <1>2 DEF Leads
  <2>3. CASE i # 1
    <3>1. i - 1 \in 1 .. Len(way) - 1 /\ i - 1 \in DOMAIN way /\ Len(way) \in DOMAIN way
          /\ i - 1 # Len(way) /\ (i - 1) + 1 = i
      BY <2>3, <1>2
    <3>2. Follows(way[i - 1], way[(i - 1) + 1])
      BY <3>1, <1>2 DEF Legs
    <3>3. way[i - 1][2] = e
      BY <2>1, <3>1, <3>2 DEF Follows
    <3>4. way[Len(way)][2] = e
      BY <3>1, <1>2 DEF Leads
    <3> QED BY <3>1, <3>3, <3>4, <1>2 DEF Leads, OnceEach
  <2> QED BY <2>2, <2>3
<1>6. ASSUME NEW f \in Map!Envs, way[i][2] \in Map!LocsOf(f) PROVE f = e
  BY <1>4, <1>5, <1>6, MapFits
<1> QED BY <1>4, <1>6

LEMMA WaysFit ==
    ASSUME NEW from \in Map!Places, NEW to \in Map!Places, from.loc # to.loc,
           NEW way \in Map!Ways(from, to)
    PROVE  /\ way \in Seq(Paths) /\ way # <<>> /\ OnceEach(way) /\ Legs(way, from.env)
           /\ way[1][1] = from.loc /\ way[Len(way)][2] = to.loc
<1>1. /\ from.env \in Map!Envs /\ from.loc \in Map!LocsOf(from.env) /\ from.loc \in Map!Locs
      /\ to.env \in Map!Envs /\ to.loc \in Map!LocsOf(to.env) /\ to.loc \in Map!Locs
  BY DEF Map!Places
<1>2. CASE from.env = to.env
  <2>1. way \in Map!Routes(Map!LocPaths(from.env), from.loc, to.loc)
    BY <1>2 DEF Map!Ways
  <2>2. way \in Seq(Paths) /\ Legs(way, from.env) /\ Leads(way, from.loc, to.loc)
    BY <2>1, <1>1, LocRoutes
  <2> QED BY <2>2 DEF Leads
<1>3. CASE from.env # to.env
  <2> DEFINE fe == from.env
             te == to.env
  <2>1. PICK a \in Map!Routes(Map!LocPaths(fe), from.loc, fe),
             b \in Map!Routes(Map!EnvPaths, fe, te),
             c \in Map!Routes(Map!LocPaths(te), te, to.loc) : way = a \o b \o c
    BY <1>3 DEF Map!Ways
  <2>0. fe \in Map!Locs /\ te \in Map!Locs
    BY <1>1, MapFits
  <2>2. /\ a \in Seq(Paths) /\ Legs(a, fe) /\ Leads(a, from.loc, fe)
        /\ \A i \in DOMAIN a : a[i] \in Map!LocPaths(fe)
    BY <1>1, <2>0, LocRoutes
  <2>3. /\ b \in Seq(Paths) /\ Legs(b, fe) /\ Leads(b, fe, te)
        /\ \A i \in DOMAIN b : b[i] \in Map!EnvPaths
    BY <1>1, EnvRoutes
  <2>4. /\ c \in Seq(Paths) /\ Legs(c, te) /\ Leads(c, te, to.loc)
        /\ \A i \in DOMAIN c : c[i] \in Map!LocPaths(te)
    BY <1>1, <2>0, LocRoutes
  <2>5. b # <<>>
    BY <2>3, <1>3 DEF Leads
  <2>6. Len(b) \in Nat /\ 1 \in DOMAIN b /\ Len(b) \in DOMAIN b
    BY <2>3, <2>5
  <2>7. /\ b[1] \in Map!EnvPaths /\ b[Len(b)] \in Map!EnvPaths
        /\ b[1][1] = fe /\ b[Len(b)][2] = te
    BY <2>3, <2>5, <2>6 DEF Leads
  <2> DEFINE ab == a \o b
  <2>8. ab \in Seq(Paths) /\ Legs(ab, fe) /\ OnceEach(ab) /\ ab # <<>>
        /\ ab[1][1] = from.loc /\ ab[Len(ab)] = b[Len(b)]
    <3>1. CASE a = <<>>
      <4>1. ab = b /\ from.loc = fe
        BY <3>1, <2>2, <2>3 DEF Leads
      <4> QED BY <4>1, <2>3, <2>5, <2>7 DEF Leads
    <3>2. CASE a # <<>>
      <4>1. Len(a) \in DOMAIN a /\ a[Len(a)][2] = fe /\ a[1][1] = from.loc
        BY <3>2, <2>2 DEF Leads
      <4>2. Follows(a[Len(a)], b[1])
        BY <4>1, <2>7 DEF Follows
      <4>3. Legs(ab, fe)
        BY <4>2, <3>2, <2>2, <2>3, <2>5, JoinedLegs
      <4>4. ASSUME NEW i \in DOMAIN a, NEW j \in DOMAIN b PROVE a[i][2] # b[j][2]
        <5>1. b[j][2] \in Map!Envs /\ b[j][2] # fe
          BY <2>3, PathsFit DEF Leads
        <5>2. a[i][2] \in Map!LocsOf(fe)
          BY <2>2, PathsFit
        <5> QED BY <5>1, <5>2, <1>1, MapFits
      <4>5. OnceEach(ab)
        BY <4>4, <2>2, <2>3, JoinedOnce DEF Leads
      <4>6. ab \in Seq(Paths) /\ ab # <<>> /\ ab[1] = a[1] /\ ab[Len(ab)] = b[Len(b)]
        BY <4>1, <2>2, <2>3, <2>6
      <4> QED BY <4>1, <4>3, <4>5, <4>6
    <3> QED BY <3>1, <3>2
  <2>9. \A i \in DOMAIN ab :
           ab[i][2] # te => \/ ab[i][2] \in Map!Envs
                            \/ \A f \in Map!Envs : ab[i][2] \in Map!LocsOf(f) => f = fe
    <3> SUFFICES ASSUME NEW i \in DOMAIN ab
                 PROVE  \/ ab[i][2] \in Map!Envs
                        \/ \A f \in Map!Envs : ab[i][2] \in Map!LocsOf(f) => f = fe
      OBVIOUS
    <3>1. \/ i \in DOMAIN a /\ ab[i] = a[i]
          \/ i - Len(a) \in DOMAIN b /\ ab[i] = b[i - Len(a)]
      BY <2>2, <2>3
    <3>2. CASE i \in DOMAIN a /\ ab[i] = a[i]
      BY <3>2, <1>1, WayOut
    <3>3. CASE i - Len(a) \in DOMAIN b /\ ab[i] = b[i - Len(a)]
      BY <3>3, <2>3, PathsFit
    <3> QED BY <3>1, <3>2, <3>3
  <2> HIDE DEF ab
  <2>10. way = ab \o c
    BY <2>1 DEF ab
  <2>11. CASE c = <<>>
    <3>1. way = ab /\ to.loc = te
      BY <2>10, <2>11, <2>8, <2>4 DEF Leads
    <3> QED BY <3>1, <2>8, <2>7
  <2>12. CASE c # <<>>
    <3>1. Len(c) \in DOMAIN c /\ 1 \in DOMAIN c /\ c[1][1] = te /\ c[Len(c)][2] = to.loc
      BY <2>12, <2>4 DEF Leads
    <3>2. Follows(ab[Len(ab)], c[1])
      BY <3>1, <2>7, <2>8, PathsApart DEF Follows
    <3>3. Legs(way, fe)
      BY <3>2, <2>4, <2>8, <2>10, <2>12, JoinedLegs
    <3>4. ASSUME NEW i \in DOMAIN ab, NEW j \in DOMAIN c PROVE ab[i][2] # c[j][2]
      <4>1. c[j][2] \in Map!LocsOf(te) /\ c[j][2] # te
        BY <2>4, PathsFit DEF Leads
      <4> QED BY <4>1, <2>9, <1>1, <1>3, MapFits
    <3>5. OnceEach(way)
      BY <3>4, <2>4, <2>8, <2>10, JoinedOnce DEF Leads
    <3>6. /\ way \in Seq(Paths) /\ way # <<>> /\ way[1] = ab[1] /\ way[Len(way)] = c[Len(c)]
      BY <3>1, <2>4, <2>8, <2>10
    <3> QED BY <3>1, <3>3, <3>5, <3>6, <2>8
  <2> QED BY <2>11, <2>12
<1> QED BY <1>2, <1>3

-----------------------------------------------------------------------------
\* What is left of a way after its first path.
LEMMA TailFits ==
    ASSUME NEW way \in Seq(Paths), way # <<>>, OnceEach(way), NEW e, Legs(way, e)
    PROVE  /\ Tail(way) \in Seq(Paths) /\ OnceEach(Tail(way)) /\ Head(way) = way[1]
           /\ way[1] \in Paths /\ way[1] \in Map!EnvPaths \cup Map!LocPaths(e) /\ OfTheMap(way[1])
           /\ Tail(way) = <<>> => Len(way) = 1
           /\ Tail(way) # <<>> => /\ Follows(way[1], Tail(way)[1]) /\ OfTheMap(Tail(way)[1])
                                  /\ Tail(way)[Len(Tail(way))] = way[Len(way)]
           /\ \A f : (Tail(way) # <<>> => Tail(way)[1] \in Map!EnvPaths \cup Map!LocPaths(f))
                        => Legs(Tail(way), f)
<1> DEFINE n == Len(way)
           rest == Tail(way)
<1>1. /\ n \in Nat /\ n >= 1 /\ rest \in Seq(Paths) /\ Len(rest) = n - 1 /\ DOMAIN way = 1 .. n
      /\ DOMAIN rest = 1 .. n - 1 /\ \A i \in 1 .. n - 1 : rest[i] = way[i + 1] /\ i + 1 \in 1 .. n
      /\ Head(way) = way[1] /\ way[1] \in Paths /\ (rest = <<>> => n = 1)
      /\ (rest # <<>> => n - 1 \in 1 .. n - 1 /\ 1 \in 1 .. n - 1)
  <2>1. n \in Nat /\ n >= 1 /\ DOMAIN way = 1 .. n
    OBVIOUS
  <2>2. rest \in Seq(Paths) /\ Len(rest) = n - 1 /\ DOMAIN rest = 1 .. n - 1
    OBVIOUS
  <2>3. \A i \in 1 .. n - 1 : rest[i] = way[i + 1] /\ i + 1 \in 1 .. n
    OBVIOUS
  <2>4. Head(way) = way[1] /\ way[1] \in Paths
    OBVIOUS
  <2> HIDE DEF rest, n
  <2>5. (rest = <<>> => n = 1) /\ (rest # <<>> => n - 1 \in 1 .. n - 1 /\ 1 \in 1 .. n - 1)
    BY <2>1, <2>2
  <2> QED BY <2>1, <2>2, <2>3, <2>4, <2>5
<1>2. /\ \A i \in 1 .. n : OfTheMap(way[i])
      /\ \A i \in 1 .. n - 1 : Follows(way[i], way[i + 1])
      /\ way[1] \in Map!EnvPaths \cup Map!LocPaths(e)
  BY <1>1 DEF Legs
<1>3. \A i, j \in 1 .. n : i # j => way[i][2] # way[j][2]
  BY <1>1 DEF OnceEach
<1> HIDE DEF n, rest
<1>4. OnceEach(rest)
  <2> SUFFICES ASSUME NEW i \in 1 .. n - 1, NEW j \in 1 .. n - 1, i # j
               PROVE  rest[i][2] # rest[j][2]
    BY <1>1 DEF OnceEach
  <2>1. i + 1 # j + 1
    BY <1>1
  <2> QED BY <2>1, <1>1, <1>3
<1>5. rest # <<>> => /\ Follows(way[1], rest[1]) /\ OfTheMap(rest[1])
                     /\ rest[Len(rest)] = way[n]
  <2> SUFFICES ASSUME rest # <<>>
               PROVE  Follows(way[1], rest[1]) /\ OfTheMap(rest[1]) /\ rest[Len(rest)] = way[n]
    OBVIOUS
  <2>1. rest[1] = way[1 + 1] /\ 1 + 1 \in 1 .. n /\ rest[n - 1] = way[(n - 1) + 1]
    BY <1>1
  <2>2. (n - 1) + 1 = n
    BY <1>1
  <2> QED BY <2>1, <2>2, <1>1, <1>2
<1>6. ASSUME NEW f, rest # <<>> => rest[1] \in Map!EnvPaths \cup Map!LocPaths(f)
      PROVE  Legs(rest, f)
  <2>1. \A i \in DOMAIN rest : OfTheMap(rest[i])
    BY <1>1, <1>2
  <2>2. ASSUME NEW i \in 1 .. Len(rest) - 1 PROVE Follows(rest[i], rest[i + 1])
    <3>1. i \in 1 .. n - 1 /\ i + 1 \in 1 .. n - 1
      BY <1>1
    <3>2. rest[i] = way[i + 1] /\ rest[i + 1] = way[(i + 1) + 1]
      BY <3>1, <1>1
    <3> QED BY <3>1, <3>2, <1>2
  <2> QED BY <2>1, <2>2, <1>6 DEF Legs
<1>7. OfTheMap(way[1])
  BY <1>1, <1>2
<1> QED BY <1>1, <1>2, <1>4, <1>5, <1>6, <1>7 DEF n, rest

\* What may follow a path of an environment is of it or leaves it; what may follow one between two,
\* of the second.
LEMMA NextLeg ==
    ASSUME NEW e \in Map!Envs, NEW p \in Map!EnvPaths \cup Map!LocPaths(e), NEW q,
           Follows(p, q), OfTheMap(q)
    PROVE  /\ p \in Map!LocPaths(e) => q \in Map!EnvPaths \cup Map!LocPaths(e)
           /\ p \in Map!EnvPaths => q \in Map!EnvPaths \cup Map!LocPaths(p[2])
           /\ p \in Map!EnvPaths \cap Keeps => q \in Map!EnvPaths
<1>1. p \in Map!LocPaths(e) => q \in Map!EnvPaths \cup Map!LocPaths(e)
  BY DEF Follows
<1>2. p \in Map!EnvPaths => q \in Map!EnvPaths \cup Map!LocPaths(p[2])
  <2> SUFFICES ASSUME p \in Map!EnvPaths, q \notin Map!EnvPaths PROVE q \in Map!LocPaths(p[2])
    OBVIOUS
  <2>1. PICK f \in Map!Envs : q \in Map!LocPaths(f)
    BY DEF OfTheMap
  <2>2. q[1] \in Map!LocsOf(f) /\ q[1] = p[2] /\ p[2] \in Map!Envs
    BY <2>1, PathsFit DEF Follows
  <2>3. f = p[2]
    BY <2>2, MapFits
  <2> QED BY <2>1, <2>3
<1>3. p \in Map!EnvPaths \cap Keeps => Map!LocPaths(p[2]) = {}
  BY MapAssumption
<1> QED BY <1>1, <1>2, <1>3

\* A record of an environment and a place of it.
LEMMA PlaceOf ==
    ASSUME NEW e \in Map!Envs, NEW l \in Map!LocsOf(e)
    PROVE  [env |-> e, loc |-> l] \in Map!Places
<1>1. l \in Map!Locs
  BY MapFits
<1> QED BY <1>1 DEF Map!Places

LEMMA PlaceFits ==
    ASSUME NEW x \in Map!Places
    PROVE  /\ x.env \in Map!Envs /\ x.loc \in Map!Locs /\ x.loc \in Map!LocsOf(x.env)
           /\ x = [env |-> x.env, loc |-> x.loc] /\ x # Map!Unknown
           /\ x.loc \in Map!Envs => x.env = x.loc
<1>1. x.env \in Map!Envs /\ x.loc \in Map!Locs /\ x.loc \in Map!LocsOf(x.env)
      /\ x = [env |-> x.env, loc |-> x.loc]
  BY DEF Map!Places
<1>2. x.loc # Map!Nowhere
  BY <1>1, MapAssumption
<1>3. x # Map!Unknown
  BY <1>2 DEF Map!Unknown
<1> QED BY <1>1, <1>3, MapFits

\* Where a path says it has come to, and what may follow it there.
LEMMA ClaimedFits ==
    ASSUME belief \in Map!Places, NEW p \in Map!EnvPaths \cup Map!LocPaths(belief.env)
    PROVE  /\ Map!Claimed(p) \in Map!Places
           /\ \A q : Follows(p, q) /\ OfTheMap(q) =>
                 q \in Map!EnvPaths \cup Map!LocPaths(Map!Claimed(p).env)
<1>1. belief.env \in Map!Envs /\ belief.env \in Map!LocsOf(belief.env)
  BY PlaceFits, MapFits
<1>2. CASE p \in Map!EnvPaths
  <2>1. p[2] \in Map!Envs /\ p[1] \notin Map!LocsOf(p[2]) /\ p[2] \in Map!LocsOf(p[2])
    BY <1>2, PathsFit, MapFits
  <2>2. CASE p \in Keeps
    <3>1. Map!Claimed(p) = belief
      BY <2>2 DEF Map!Claimed
    <3> QED BY <3>1, <2>2, <1>1, <1>2, NextLeg
  <2>3. CASE p \notin Keeps
    <3>1. Map!Claimed(p) = [env |-> p[2], loc |-> p[2]]
      BY <2>1, <2>3 DEF Map!Claimed
    <3>2. Map!Claimed(p) \in Map!Places /\ Map!Claimed(p).env = p[2]
      BY <3>1, <2>1, PlaceOf
    <3> QED BY <3>2, <1>1, <1>2, NextLeg
  <2> QED BY <2>2, <2>3
<1>3. CASE p \in Map!LocPaths(belief.env)
  <2>1. p[1] \in Map!LocsOf(belief.env) /\ p[2] \in Map!LocsOf(belief.env)
    BY <1>3, PathsFit
  <2>2. p[2] \in Map!Envs => p[2] = belief.env
    BY <2>1, <1>1, MapFits
  <2>3. \/ Map!Claimed(p) = belief
        \/ Map!Claimed(p) = [env |-> belief.env, loc |-> belief.env]
        \/ Map!Claimed(p) = [env |-> belief.env, loc |-> p[2]]
    BY <2>1, <2>2 DEF Map!Claimed
  <2>4. Map!Claimed(p) \in Map!Places /\ Map!Claimed(p).env = belief.env
    BY <2>1, <2>3, <1>1, PlaceOf
  <2> QED BY <2>4, <1>1, <1>3, NextLeg
<1> QED BY <1>2, <1>3

\* Where a path takes the game.
LEMMA LedFits ==
    ASSUME real \in Map!Places, NEW p, OfTheMap(p), real.loc = p[1]
    PROVE  /\ Map!Led(p) \in Map!Places
           /\ p \in Map!EnvPaths \cup Map!LocPaths(real.env) =>
                 /\ Map!Led(p).loc = p[2]
                 /\ \A q : Follows(p, q) /\ OfTheMap(q) =>
                       q \in Map!EnvPaths \cup Map!LocPaths(Map!Led(p).env)
<1>1. /\ real.env \in Map!Envs /\ real.env \in Map!LocsOf(real.env)
      /\ p[1] \in Map!LocsOf(real.env) /\ p[1] \in Map!Locs
  BY PlaceFits, MapFits
<1>2. CASE p \in Map!EnvPaths
  <2>1. p[2] \in Map!Envs /\ p[1] \notin Map!LocsOf(p[2]) /\ p[2] \in Map!LocsOf(p[2])
    BY <1>2, PathsFit, MapFits
  <2>2. Map!Led(p) = [env |-> p[2], loc |-> p[2]]
    BY <2>1 DEF Map!Led
  <2>3. Map!Led(p) \in Map!Places /\ Map!Led(p).env = p[2] /\ Map!Led(p).loc = p[2]
    BY <2>1, <2>2, PlaceOf
  <2> QED BY <2>3, <1>1, <1>2, NextLeg
<1>3. ASSUME NEW e \in Map!Envs, p \in Map!LocPaths(e)
      PROVE  /\ Map!Led(p) \in Map!Places /\ Map!Led(p).env = real.env
             /\ e = real.env => Map!Led(p).loc = p[2]
  <2>1. /\ p[1] \in Map!LocsOf(e) /\ p[2] \in Map!LocsOf(e) /\ p \in Paths
        /\ p[1] \in Map!Locs /\ p[2] \in Map!Locs
    BY <1>3, PathsFit, MapFits
  <2>2. CASE p[2] \in Map!Envs
    <3>1. p[2] = e
      BY <2>1, <2>2, MapFits
    <3>2. Map!Led(p) = IF e # real.env THEN [env |-> real.env, loc |-> real.env]
                       ELSE [env |-> e, loc |-> e]
      BY <2>1, <2>2, <3>1 DEF Map!Led
    <3> QED BY <3>1, <3>2, <1>1, PlaceOf
  <2>3. CASE p[2] \notin Map!Envs
    <3>1. e = real.env
      <4>1. CASE p[1] \in Map!Envs
        BY <4>1, <2>1, <1>1, MapFits
      <4>2. CASE p[1] \notin Map!Envs
        <5>1. Len(EnvsOf[p[1]]) = 1
          BY <4>2, <2>1, <2>3, MapAssumption
        <5> QED BY <5>1, <2>1, <1>1, MapFits
      <4> QED BY <4>1, <4>2
    <3>2. Map!Led(p) = [env |-> real.env, loc |-> p[2]]
      BY <2>3 DEF Map!Led
    <3> QED BY <3>1, <3>2, <2>1, <1>1, PlaceOf
  <2> QED BY <2>2, <2>3
<1>4. CASE p \notin Map!EnvPaths
  <2>1. PICK e \in Map!Envs : p \in Map!LocPaths(e)
    BY <1>4 DEF OfTheMap
  <2>2. Map!Led(p) \in Map!Places /\ Map!Led(p).env = real.env
    BY <2>1, <1>3
  <2>3. p \in Map!LocPaths(real.env) => Map!Led(p).loc = p[2]
    BY <1>1, <1>3
  <2> QED BY <2>2, <2>3, <1>1, <1>4, NextLeg
<1> QED BY <1>2, <1>4

\* From a place that two environments have, a path of the wrong one takes the game to the right one.
LEMMA LedWrong ==
    ASSUME real \in Map!Places, NEW e \in Map!Envs, e # real.env, real.loc \notin Map!Envs,
           NEW p \in Map!LocPaths(e), p = <<real.loc, e>>
    PROVE  Map!Led(p) = [env |-> real.env, loc |-> real.env]
<1>1. p[1] \in Map!LocsOf(p[2]) /\ p[2] = e
  BY PathsFit
<1> QED BY <1>1 DEF Map!Led

-----------------------------------------------------------------------------
MapTypes ==
    /\ real \in Map!Places /\ belief \in Map!Places \cup {Map!Unknown}
    /\ target \in Map!Places \cup {Map!Unknown}
    /\ journey \in {"idle", "locate", "plan", "walk", "confirm", "there", "failed"}
    /\ route \in Seq(Paths) /\ looks \in 0 .. MaxLooks /\ faults \in 0 .. MaxFaults
    /\ wasted \in 0 .. 1
    /\ journey \in {"plan", "walk", "confirm", "there"} => belief \in Map!Places
    /\ journey \in {"locate", "plan", "walk", "confirm", "there"} => goal \in Goals

\* The way that is walked ends at the target, which is one of the goals, and goes on from where the
\* game is believed to be.
OnRoute ==
    /\ journey \in {"walk", "confirm"} =>
        /\ target \in Map!Places /\ target.loc \in Map!ToSet(goal)
        /\ OnceEach(route)
        /\ route # <<>> => route[Len(route)][2] = target.loc
    /\ journey = "walk" => Legs(route, belief.env)
    /\ journey = "confirm" => /\ route # <<>> /\ OfTheMap(route[1])
                              /\ \E e \in Map!Envs : Legs(route, e)
                              /\ Legs(Tail(route), belief.env)

\* Where the game is, as long as it has stayed where the last look saw it.
SureIsThere ==
    sure => /\ journey = "plan" => belief.loc = real.loc
            /\ journey = "walk" => real.loc = IF route = <<>> THEN target.loc ELSE route[1][1]
            /\ journey = "there" => belief.loc = real.loc /\ real.loc \in Map!ToSet(goal)

\* What holds if nothing goes wrong.
CleanIsSure ==
    clean => /\ journey # "idle" => ~covered
             /\ journey \in {"plan", "walk", "confirm", "there"} => sure

\* The way begins with a path of the wrong one of the environments that have the place.
WrongStart ==
    /\ real.loc \notin Map!Envs /\ real.env # belief.env /\ wasted = 0
    /\ route # <<>> /\ route[1] = <<real.loc, belief.env>>

\* A call that fails so ends in an environment, and the next call sees which.
WastedOnce ==
    /\ wasted = 1 /\ (journey = "idle" \/ (journey = "locate" /\ clean)) => real.loc \in Map!Envs
    /\ clean =>
        /\ journey = "plan" /\ wasted = 1 => belief = real
        /\ journey = "walk" => Legs(route, real.env) \/ WrongStart
        /\ journey = "confirm" =>
              \/ real.loc = route[1][2] /\ Legs(Tail(route), real.env)
              \/ real.loc \in Map!Envs /\ real.loc # route[1][2] /\ wasted = 0
        /\ journey = "failed" => wasted = 0 /\ real.loc \in Map!Envs

MapIInv == MapTypes /\ OnRoute /\ SureIsThere /\ CleanIsSure /\ WastedOnce

LEMMA InitMapIInv == Map!Init => MapIInv
<1> SUFFICES ASSUME Map!Init PROVE MapIInv
  OBVIOUS
<1> USE DEF Map!Init
<1>1. MapTypes
  BY MapAssumption DEF MapTypes
<1>2. OnRoute /\ SureIsThere /\ CleanIsSure
  BY DEF OnRoute, SureIsThere, CleanIsSure
<1>3. WastedOnce
  BY DEF WastedOnce
<1> QED BY <1>1, <1>2, <1>3 DEF MapIInv

\* What is recognised is where the game is.
LEMMA RecognisedFits ==
    ASSUME MapTypes
    PROVE  /\ ~covered => Map!Recognised # Map!Unknown
           /\ Map!Recognised # Map!Unknown =>
                 /\ Map!Recognised \in Map!Places /\ Map!Recognised.loc = real.loc /\ ~covered
                 /\ real.loc \in Map!Envs => Map!Recognised = real
<1>0. /\ real \in Map!Places /\ belief \in Map!Places \cup {Map!Unknown}
      /\ real.env \in Map!Envs /\ real.loc \in Map!Locs
  BY PlaceFits DEF MapTypes
<1>1. \A x, y \in Map!Places : x.loc = y.loc /\ x.loc \in Map!Envs => x = y
  BY PlaceFits, Zenon
<1>2. CASE belief # Map!Unknown /\ Map!Seen(belief.loc)
  <2>1. Map!Recognised = belief
    BY <1>2 DEF Map!Recognised
  <2>2. ~covered /\ belief.loc = real.loc
    BY <1>2 DEF Map!Seen
  <2> QED BY <2>1, <2>2, <1>0, <1>1, <1>2
<1>3. CASE ~(belief # Map!Unknown /\ Map!Seen(belief.loc)) /\ \E e \in Map!Envs : Map!Seen(e)
  <2> DEFINE r == [env |-> real.loc, loc |-> real.loc]
  <2>1. Map!Recognised = r
    BY <1>3 DEF Map!Recognised
  <2>2. ~covered /\ real.loc \in Map!Envs
    BY <1>3 DEF Map!Seen
  <2>3. r \in Map!Places /\ r.loc = real.loc
    BY <2>2, MapFits, PlaceOf
  <2>4. r # Map!Unknown
    BY <2>3, PlaceFits
  <2> HIDE DEF r
  <2> QED BY <2>1, <2>2, <2>3, <2>4, <1>0, <1>1
<1>4. CASE ~(\E e \in Map!Envs : Map!Seen(e)) /\ (\E l \in Map!Locs : Map!Seen(l))
           /\ ~(belief # Map!Unknown /\ Map!Seen(belief.loc))
  <2> DEFINE r == [env |-> EnvsOf[real.loc][1], loc |-> real.loc]
  <2>1. Map!Recognised = r
    BY <1>4 DEF Map!Recognised
  <2>2. ~covered /\ real.loc \notin Map!Envs
    BY <1>4 DEF Map!Seen
  <2>3. EnvsOf[real.loc] \in Seq(Map!Envs) /\ EnvsOf[real.loc] # <<>>
    BY <1>0, MapAssumption
  <2>4. EnvsOf[real.loc][1] \in Map!Envs /\ EnvsOf[real.loc][1] \in Map!ToSet(EnvsOf[real.loc])
    BY <2>3 DEF Map!ToSet
  <2>5. r \in Map!Places /\ r.loc = real.loc
    BY <2>4, <1>0, PlaceOf DEF Map!LocsOf
  <2>6. r # Map!Unknown
    BY <2>5, PlaceFits
  <2> HIDE DEF r
  <2> QED BY <2>1, <2>2, <2>5, <2>6
<1>5. CASE ~(\E l \in Map!Locs : Map!Seen(l)) /\ ~(\E e \in Map!Envs : Map!Seen(e))
           /\ ~(belief # Map!Unknown /\ Map!Seen(belief.loc))
  <2>1. Map!Recognised = Map!Unknown
    BY <1>5 DEF Map!Recognised
  <2>2. covered
    BY <1>5, <1>0 DEF Map!Seen
  <2> QED BY <2>1, <2>2
<1> QED BY <1>2, <1>3, <1>4, <1>5

LEMMA PlanKeeps ==
    ASSUME MapIInv, Map!Plan
    PROVE  MapIInv'
<1>1. MapTypes /\ CleanIsSure /\ SureIsThere /\ WastedOnce
  BY DEF MapIInv
<1>2. /\ journey = "plan" /\ belief \in Map!Places /\ goal \in Goals
      /\ UNCHANGED <<real, covered, goal, looks, faults, sure, wasted>>
  BY <1>1 DEF Map!Plan, MapTypes
<1> DEFINE loc == Map!Nearest(goal, belief.env)
           to == [env |-> Map!EnvOf(loc, belief.env), loc |-> loc]
<1>3. loc \in Map!ToSet(goal) /\ loc \in Map!Locs
  BY <1>2, NearestFits
<1>4. to \in Map!Places /\ to.loc = loc
  BY <1>3, EnvOfFits, PlaceOf
<1>5. /\ target' = to
      /\ \/ belief.loc = loc /\ journey' = "there" /\ route' = <<>> /\ UNCHANGED <<belief, clean>>
         \/ /\ belief.loc # loc /\ route' \in Map!Ways(belief, to) /\ journey' = "walk"
            /\ UNCHANGED <<belief, clean>>
         \/ /\ belief.loc # loc /\ Map!Ways(belief, to) = {} /\ journey' = "failed" /\ route' = <<>>
            /\ belief' = Map!Stranded(belief, to) /\ clean' = FALSE
  BY DEF Map!Plan
<1> HIDE DEF to, loc
<1>6. CASE belief.loc = loc /\ journey' = "there" /\ route' = <<>> /\ UNCHANGED <<belief, clean>>
  <2>1. MapTypes'
    BY <1>1, <1>2, <1>4, <1>5, <1>6 DEF MapTypes
  <2>2. OnRoute' /\ CleanIsSure' /\ WastedOnce'
    BY <1>1, <1>2, <1>6 DEF OnRoute, CleanIsSure, WastedOnce
  <2>3. SureIsThere'
    BY <1>1, <1>2, <1>3, <1>6 DEF SureIsThere
  <2> QED BY <2>1, <2>2, <2>3 DEF MapIInv
<1>7. CASE /\ belief.loc # loc /\ route' \in Map!Ways(belief, to) /\ journey' = "walk"
           /\ UNCHANGED <<belief, clean>>
  <2>1. /\ route' \in Seq(Paths) /\ route' # <<>> /\ OnceEach(route') /\ Legs(route', belief.env)
        /\ route'[1][1] = belief.loc /\ route'[Len(route')][2] = to.loc
    BY <1>2, <1>4, <1>7, WaysFit
  <2>2. MapTypes'
    BY <1>1, <1>2, <1>4, <1>5, <1>7, <2>1 DEF MapTypes
  <2>3. OnRoute'
    BY <1>2, <1>3, <1>4, <1>5, <1>7, <2>1 DEF OnRoute
  <2>4. SureIsThere'
    BY <1>1, <1>2, <1>7, <2>1 DEF SureIsThere
  <2>5. CleanIsSure'
    BY <1>1, <1>2, <1>7 DEF CleanIsSure
  <2>6. clean => Legs(route', real.env) \/ (WrongStart)'
    <3> SUFFICES ASSUME clean, real.env # belief.env PROVE (WrongStart)'
      BY <2>1
    <3>1. sure /\ belief.loc = real.loc
      BY <1>1, <1>2 DEF CleanIsSure, SureIsThere
    <3>2. /\ real \in Map!Places /\ real.env \in Map!Envs /\ belief.env \in Map!Envs
          /\ real.loc \in Map!LocsOf(real.env) /\ real.loc \in Map!LocsOf(belief.env)
          /\ real.loc \in Map!Locs
      BY <1>1, <1>2, <3>1, PlaceFits DEF MapTypes
    <3>3. real.loc \notin Map!Envs /\ Len(EnvsOf[real.loc]) # 1
      BY <3>2, MapFits
    <3>4. wasted = 0
      BY <1>1, <1>2 DEF WastedOnce, MapTypes
    <3>5. route'[1] \in Map!LocPaths(belief.env) /\ route'[1][1] = real.loc
      BY <2>1, <3>1, <3>3, PathsFit DEF Legs
    <3>6. route'[1][2] \in Map!Envs /\ route'[1] \in Paths /\ route'[1] \in Map!Locs \X Map!Locs
      BY <3>3, <3>5, PathsFit, MapAssumption
    <3>7. route'[1][2] = belief.env
      BY <3>2, <3>5, <3>6, PathsFit, MapFits
    <3>8. route'[1] = <<real.loc, belief.env>>
      BY <3>5, <3>6, <3>7
    <3> QED BY <1>2, <1>7, <2>1, <3>3, <3>4, <3>8 DEF WrongStart
  <2>7. WastedOnce'
    BY <1>2, <1>7, <2>6 DEF WastedOnce
  <2> QED BY <2>2, <2>3, <2>4, <2>5, <2>7 DEF MapIInv
<1>8. CASE /\ journey' = "failed" /\ route' = <<>>
           /\ belief' = Map!Stranded(belief, to) /\ clean' = FALSE
  <2>1. belief' \in Map!Places
    <3>1. to.env \in Map!Envs /\ to.env \in Map!LocsOf(to.env)
      BY <1>4, PlaceFits, MapFits
    <3> QED BY <3>1, <1>2, <1>8, PlaceOf DEF Map!Stranded
  <2>2. MapTypes'
    BY <2>1, <1>1, <1>2, <1>4, <1>5, <1>8 DEF MapTypes
  <2>3. OnRoute' /\ SureIsThere' /\ CleanIsSure'
    BY <1>8 DEF OnRoute, SureIsThere, CleanIsSure
  <2>4. WastedOnce'
    BY <1>8 DEF WastedOnce
  <2> QED BY <2>2, <2>3, <2>4 DEF MapIInv
<1> QED BY <1>5, <1>6, <1>7, <1>8

\* What is known while a path is walked.
LEMMA WalkBegins ==
    ASSUME MapIInv, journey = "walk", route # <<>>
    PROVE  /\ Head(route) = route[1] /\ route[1] \in Paths /\ OfTheMap(route[1])
           /\ belief \in Map!Places /\ belief.env \in Map!Envs
           /\ route[1] \in Map!EnvPaths \cup Map!LocPaths(belief.env)
           /\ \A x : (\A q : Follows(route[1], q) /\ OfTheMap(q) =>
                                q \in Map!EnvPaths \cup Map!LocPaths(x))
                        => Legs(Tail(route), x)
           /\ clean => Map!Seen(route[1][1]) /\ sure
<1>1. MapTypes /\ OnRoute /\ SureIsThere /\ CleanIsSure
  BY DEF MapIInv
<1>2. route \in Seq(Paths) /\ belief \in Map!Places /\ OnceEach(route) /\ Legs(route, belief.env)
  BY <1>1 DEF MapTypes, OnRoute
<1>3. belief.env \in Map!Envs
  BY <1>2, PlaceFits
<1>4. clean => Map!Seen(route[1][1]) /\ sure
  BY <1>1 DEF CleanIsSure, SureIsThere, Map!Seen
<1>5. /\ Head(route) = route[1] /\ route[1] \in Paths /\ OfTheMap(route[1])
      /\ route[1] \in Map!EnvPaths \cup Map!LocPaths(belief.env)
      /\ Tail(route) # <<>> => Follows(route[1], Tail(route)[1]) /\ OfTheMap(Tail(route)[1])
      /\ \A f : (Tail(route) # <<>> => Tail(route)[1] \in Map!EnvPaths \cup Map!LocPaths(f))
                        => Legs(Tail(route), f)
  BY <1>2, TailFits
<1> QED BY <1>2, <1>3, <1>4, <1>5

\* A path was walked, or seemed to be.
LEMMA WalkConfirms ==
    ASSUME MapIInv, journey = "walk", route # <<>>, journey' = "confirm",
           belief' \in Map!Places, real' \in Map!Places, faults' \in 0 .. MaxFaults,
           UNCHANGED <<covered, goal, target, route, looks, sure, wasted>>,
           clean' => clean, Legs(Tail(route), belief'.env),
           clean' => \/ real'.loc = route[1][2] /\ Legs(Tail(route), real'.env)
                     \/ real'.loc \in Map!Envs /\ real'.loc # route[1][2] /\ wasted = 0
    PROVE  MapIInv'
<1>1. MapTypes /\ OnRoute /\ SureIsThere /\ CleanIsSure
  BY DEF MapIInv
<1>2. MapTypes'
  BY <1>1 DEF MapTypes
<1>3. belief.env \in Map!Envs /\ OfTheMap(route[1])
  BY WalkBegins
<1>4. OnRoute'
  BY <1>1, <1>3 DEF OnRoute
<1>5. SureIsThere' /\ CleanIsSure'
  BY <1>1 DEF SureIsThere, CleanIsSure
<1>6. WastedOnce'
  BY DEF WastedOnce
<1> QED BY <1>2, <1>4, <1>5, <1>6 DEF MapIInv

\* A path was not walked, and something was wrong.
LEMMA WalkFails ==
    ASSUME MapIInv, journey = "walk", journey' = "failed", ~clean',
           belief' \in Map!Places, real' \in Map!Places, faults' \in 0 .. MaxFaults,
           UNCHANGED <<covered, goal, target, route, looks, sure, wasted>>
    PROVE  MapIInv'
<1>1. MapTypes'
  BY DEF MapIInv, MapTypes
<1>2. OnRoute' /\ SureIsThere' /\ CleanIsSure' /\ WastedOnce'
  BY DEF OnRoute, SureIsThere, CleanIsSure, WastedOnce
<1> QED BY <1>1, <1>2 DEF MapIInv

LEMMA WalkKeeps ==
    ASSUME MapIInv, Map!Walk
    PROVE  MapIInv'
<1> DEFINE p == Head(route)
<1>1. /\ journey = "walk" /\ route # <<>>
      /\ UNCHANGED <<covered, goal, target, route, looks, sure, wasted>>
  BY DEF Map!Walk
<1>2. /\ p = route[1] /\ OfTheMap(p) /\ p \in Paths
      /\ belief \in Map!Places /\ belief.env \in Map!Envs
      /\ p \in Map!EnvPaths \cup Map!LocPaths(belief.env)
      /\ \A x : (\A q : Follows(p, q) /\ OfTheMap(q) => q \in Map!EnvPaths \cup Map!LocPaths(x))
                   => Legs(Tail(route), x)
      /\ clean => Map!Seen(p[1]) /\ sure
  BY <1>1, WalkBegins
<1>3. MapTypes /\ WastedOnce /\ real \in Map!Places /\ faults \in 0 .. MaxFaults
  BY DEF MapIInv, MapTypes
<1>4. \/ /\ Map!Seen(p[1])
         /\ real' = Map!Led(p) /\ belief' = Map!Claimed(p) /\ journey' = "confirm"
         /\ UNCHANGED <<faults, clean>>
      \/ /\ p \in Keeps \cap Map!EnvPaths /\ ~covered /\ ~Map!Seen(p[1])
         /\ real' = [env |-> p[2], loc |-> p[2]] /\ belief' = [env |-> p[1], loc |-> p[1]]
         /\ journey' = "confirm"
         /\ UNCHANGED <<faults, clean>>
      \/ /\ ~Map!Seen(p[1]) /\ journey' = "failed"
         /\ UNCHANGED <<real, belief, faults, clean>>
      \/ /\ faults < MaxFaults /\ faults' = faults + 1 /\ clean' = FALSE
         /\ real' \in (IF Map!Seen(p[1]) THEN {real, Map!Led(p)} ELSE {real})
         /\ \/ journey' = "confirm" /\ belief' = Map!Claimed(p)
            \/ journey' = "failed" /\ belief' \in {belief, Map!Claimed(p)}
  BY DEF Map!Walk
<1> HIDE DEF p
<1>5. /\ Map!Claimed(p) \in Map!Places
      /\ Legs(Tail(route), Map!Claimed(p).env)
  BY <1>2, ClaimedFits
<1>6. Map!Seen(p[1]) => real.loc = p[1] /\ Map!Led(p) \in Map!Places
  BY <1>2, <1>3, LedFits DEF Map!Seen
<1>7. CASE /\ Map!Seen(p[1])
           /\ real' = Map!Led(p) /\ belief' = Map!Claimed(p) /\ journey' = "confirm"
           /\ UNCHANGED <<faults, clean>>
  <2>1. ASSUME clean
        PROVE  \/ real'.loc = p[2] /\ Legs(Tail(route), real'.env)
               \/ real'.loc \in Map!Envs /\ real'.loc # p[2] /\ wasted = 0
    <3>1. Legs(route, real.env) \/ WrongStart
      BY <2>1, <1>1, <1>3 DEF WastedOnce
    <3>2. CASE Legs(route, real.env)
      <4>1. p \in Map!EnvPaths \cup Map!LocPaths(real.env)
        BY <3>2, <1>1, <1>2 DEF Legs
      <4>2. /\ Map!Led(p).loc = p[2]
            /\ \A q : Follows(p, q) /\ OfTheMap(q) =>
                  q \in Map!EnvPaths \cup Map!LocPaths(Map!Led(p).env)
        BY <4>1, <1>2, <1>3, <1>6, <1>7, LedFits
      <4> QED BY <4>2, <1>2, <1>7
    <3>3. CASE WrongStart
      <4>1. /\ p = <<real.loc, belief.env>> /\ real.loc \notin Map!Envs /\ wasted = 0
            /\ real.env # belief.env
        BY <3>3, <1>2 DEF WrongStart
      <4>2. p \in Map!LocPaths(belief.env)
        BY <4>1, <1>2, PathsFit
      <4>3. Map!Led(p) = [env |-> real.env, loc |-> real.env]
        BY <4>1, <4>2, <1>2, <1>3, LedWrong
      <4>4. real.env \in Map!Envs
        BY <1>3, PlaceFits
      <4> QED BY <4>1, <4>3, <4>4, <1>7
    <3> QED BY <3>1, <3>2, <3>3
  <2>2. belief' \in Map!Places /\ real' \in Map!Places /\ Legs(Tail(route), belief'.env)
    BY <1>5, <1>6, <1>7
  <2> QED BY <2>1, <2>2, <1>1, <1>2, <1>3, <1>7, WalkConfirms
<1>8. CASE /\ p \in Keeps \cap Map!EnvPaths /\ ~covered /\ ~Map!Seen(p[1])
           /\ real' = [env |-> p[2], loc |-> p[2]] /\ belief' = [env |-> p[1], loc |-> p[1]]
           /\ journey' = "confirm"
           /\ UNCHANGED <<faults, clean>>
  <2>1. p[1] \in Map!Envs /\ p[2] \in Map!Envs
    BY <1>8, PathsFit
  <2>2. p[1] \in Map!LocsOf(p[1]) /\ p[2] \in Map!LocsOf(p[2])
    BY <2>1, MapFits
  <2>3. belief' \in Map!Places /\ real' \in Map!Places
    BY <2>1, <2>2, <1>8, PlaceOf
  <2>4. Legs(Tail(route), belief'.env)
    BY <1>2, <1>8, NextLeg
  <2> QED BY <2>3, <2>4, <1>1, <1>2, <1>3, <1>8, WalkConfirms
<1>9. CASE /\ ~Map!Seen(p[1]) /\ journey' = "failed"
           /\ UNCHANGED <<real, belief, faults, clean>>
  <2>1. ~clean'
    BY <1>2, <1>9
  <2> QED BY <2>1, <1>1, <1>2, <1>3, <1>9, WalkFails
<1>10. CASE /\ faults < MaxFaults /\ faults' = faults + 1 /\ clean' = FALSE
            /\ real' \in (IF Map!Seen(p[1]) THEN {real, Map!Led(p)} ELSE {real})
            /\ \/ journey' = "confirm" /\ belief' = Map!Claimed(p)
               \/ journey' = "failed" /\ belief' \in {belief, Map!Claimed(p)}
  <2>1. real' \in Map!Places
    BY <1>3, <1>6, <1>10
  <2>2. faults' \in 0 .. MaxFaults
    BY <1>3, <1>10, MapAssumption
  <2>3. CASE journey' = "confirm" /\ belief' = Map!Claimed(p)
    BY <2>1, <2>2, <2>3, <1>1, <1>5, <1>10, WalkConfirms
  <2>4. CASE journey' = "failed" /\ belief' \in {belief, Map!Claimed(p)}
    BY <2>1, <2>2, <2>4, <1>1, <1>2, <1>5, <1>10, WalkFails
  <2> QED BY <2>3, <2>4, <1>10
<1> QED BY <1>4, <1>7, <1>8, <1>9, <1>10

LEMMA ConfirmKeeps ==
    ASSUME MapIInv, Map!Confirm
    PROVE  MapIInv'
<1>1. MapTypes /\ OnRoute /\ SureIsThere /\ CleanIsSure /\ WastedOnce
  BY DEF MapIInv
<1>2. /\ journey = "confirm" /\ route # <<>> /\ route \in Seq(Paths)
      /\ UNCHANGED <<real, covered, belief, goal, target, looks, faults, clean, wasted>>
  BY <1>1 DEF Map!Confirm, OnRoute, MapTypes
<1>3. PICK e \in Map!Envs : Legs(route, e)
  BY <1>1, <1>2 DEF OnRoute
<1>4. OnceEach(route) /\ Legs(Tail(route), belief.env) /\ route[Len(route)][2] = target.loc
  BY <1>1, <1>2 DEF OnRoute
<1>5. /\ Tail(route) \in Seq(Paths) /\ OnceEach(Tail(route)) /\ Head(route) = route[1]
      /\ Tail(route) = <<>> => Len(route) = 1
      /\ Tail(route) # <<>> => /\ Follows(route[1], Tail(route)[1])
                               /\ Tail(route)[Len(Tail(route))] = route[Len(route)]
  BY <1>2, <1>3, <1>4, TailFits
<1>6. \/ Map!Seen(route[1][2]) /\ journey' = "walk" /\ route' = Tail(route) /\ sure' = TRUE
      \/ ~Map!Seen(route[1][2]) /\ journey' = "failed" /\ UNCHANGED <<route, sure>>
  BY <1>5 DEF Map!Confirm
<1>7. CASE Map!Seen(route[1][2]) /\ journey' = "walk" /\ route' = Tail(route) /\ sure' = TRUE
  <2>1. real.loc = route[1][2]
    BY <1>7 DEF Map!Seen
  <2>2. real.loc = IF route' = <<>> THEN target.loc ELSE route'[1][1]
    BY <2>1, <1>4, <1>5, <1>7 DEF Follows
  <2>3. MapTypes'
    BY <1>1, <1>2, <1>5, <1>7 DEF MapTypes
  <2>4. OnRoute'
    BY <1>1, <1>2, <1>4, <1>5, <1>7 DEF OnRoute
  <2>5. SureIsThere' /\ CleanIsSure'
    BY <2>2, <1>1, <1>2, <1>7 DEF SureIsThere, CleanIsSure
  <2>6. WastedOnce'
    BY <2>1, <1>1, <1>2, <1>7 DEF WastedOnce
  <2> QED BY <2>3, <2>4, <2>5, <2>6 DEF MapIInv
<1>8. CASE ~Map!Seen(route[1][2]) /\ journey' = "failed" /\ UNCHANGED <<route, sure>>
  <2>1. clean => real.loc # route[1][2]
    BY <1>1, <1>2, <1>8 DEF CleanIsSure, Map!Seen
  <2>2. MapTypes'
    BY <1>1, <1>2, <1>8 DEF MapTypes
  <2>3. OnRoute' /\ SureIsThere' /\ CleanIsSure'
    BY <1>1, <1>2, <1>8 DEF OnRoute, SureIsThere, CleanIsSure
  <2>4. WastedOnce'
    BY <2>1, <1>1, <1>2, <1>8 DEF WastedOnce
  <2> QED BY <2>2, <2>3, <2>4 DEF MapIInv
<1> QED BY <1>6, <1>7, <1>8

LEMMA LocateKeeps ==
    ASSUME MapIInv, Map!Locate
    PROVE  MapIInv'
<1>1. MapTypes /\ CleanIsSure /\ WastedOnce
  BY DEF MapIInv
<1>2. journey = "locate" /\ UNCHANGED <<real, goal, target, route, faults, clean, wasted>>
  BY DEF Map!Locate
<1>3. /\ ~covered => Map!Recognised # Map!Unknown
      /\ Map!Recognised # Map!Unknown =>
            /\ Map!Recognised \in Map!Places /\ Map!Recognised.loc = real.loc /\ ~covered
            /\ real.loc \in Map!Envs => Map!Recognised = real
  BY <1>1, RecognisedFits
<1>4. CASE /\ Map!Recognised # Map!Unknown /\ belief' = Map!Recognised /\ sure' = TRUE
           /\ journey' = "plan" /\ UNCHANGED <<looks, covered>>
  <2>1. MapTypes'
    BY <1>1, <1>2, <1>3, <1>4 DEF MapTypes
  <2>2. OnRoute' /\ SureIsThere' /\ CleanIsSure'
    BY <1>1, <1>2, <1>3, <1>4 DEF OnRoute, SureIsThere, CleanIsSure
  <2>3. WastedOnce'
    BY <1>1, <1>2, <1>3, <1>4 DEF WastedOnce
  <2> QED BY <2>1, <2>2, <2>3 DEF MapIInv
<1>5. CASE /\ Map!Recognised = Map!Unknown /\ looks < MaxLooks /\ looks' = looks + 1
           /\ UNCHANGED <<belief, sure, journey>>
  <2>1. clean # TRUE
    BY <1>1, <1>2, <1>3, <1>5 DEF CleanIsSure
  <2>2. looks' \in 0 .. MaxLooks
    BY <1>1, <1>5, MapAssumption DEF MapTypes
  <2>3. MapTypes'
    BY <2>2, <1>1, <1>2, <1>5 DEF MapTypes
  <2>4. OnRoute' /\ SureIsThere' /\ CleanIsSure'
    BY <2>1, <1>2, <1>5 DEF OnRoute, SureIsThere, CleanIsSure
  <2>5. WastedOnce'
    BY <2>1, <1>1, <1>2, <1>5 DEF WastedOnce
  <2> QED BY <2>3, <2>4, <2>5 DEF MapIInv
<1>6. CASE /\ Map!Recognised = Map!Unknown /\ journey' = "failed"
           /\ UNCHANGED <<belief, sure, looks, covered>>
  <2>1. clean # TRUE
    BY <1>1, <1>2, <1>3, <1>6 DEF CleanIsSure
  <2>2. MapTypes'
    BY <1>1, <1>2, <1>6 DEF MapTypes
  <2>3. OnRoute' /\ SureIsThere' /\ CleanIsSure' /\ WastedOnce'
    BY <2>1, <1>2, <1>6 DEF OnRoute, SureIsThere, CleanIsSure, WastedOnce
  <2> QED BY <2>2, <2>3 DEF MapIInv
<1> QED BY <1>4, <1>5, <1>6 DEF Map!Locate

LEMMA NextMapIInv == MapIInv /\ [Map!Next]_(Map!vars) => MapIInv'
<1> SUFFICES ASSUME MapIInv, [Map!Next]_(Map!vars) PROVE MapIInv'
  OBVIOUS
<1>1. MapTypes /\ OnRoute /\ SureIsThere /\ CleanIsSure /\ WastedOnce
  BY DEF MapIInv
<1>2. ASSUME NEW list \in Goals, Map!EnsureIn(list) PROVE MapIInv'
  <2> USE <1>2 DEF Map!EnsureIn
  <2>1. MapTypes'
    BY <1>1, MapAssumption DEF MapTypes
  <2>2. OnRoute' /\ SureIsThere' /\ CleanIsSure' /\ WastedOnce'
    BY <1>1 DEF OnRoute, SureIsThere, CleanIsSure, WastedOnce
  <2> QED BY <2>1, <2>2 DEF MapIInv
<1>3. CASE Map!Arrive
  <2> USE <1>3 DEF Map!Arrive
  <2>1. MapTypes'
    BY <1>1 DEF MapTypes, OnRoute
  <2>2. OnRoute' /\ SureIsThere' /\ CleanIsSure' /\ WastedOnce'
    BY <1>1 DEF OnRoute, SureIsThere, CleanIsSure, WastedOnce
  <2> QED BY <2>1, <2>2 DEF MapIInv
<1>4. CASE Map!Return
  <2> USE <1>4 DEF Map!Return
  <2>1. wasted' \in 0 .. 1 /\ (wasted' = 1 => real.loc \in Map!Envs)
    BY <1>1 DEF WastedOnce
  <2>2. MapTypes'
    BY <2>1, <1>1, MapAssumption DEF MapTypes
  <2>3. OnRoute' /\ SureIsThere' /\ CleanIsSure' /\ WastedOnce'
    BY <2>1, <1>1 DEF OnRoute, SureIsThere, CleanIsSure, WastedOnce
  <2> QED BY <2>2, <2>3 DEF MapIInv
<1>5. CASE Map!Elsewhere
  <2> USE <1>5 DEF Map!Elsewhere
  <2>1. faults' \in 0 .. MaxFaults /\ real' \in Map!Places
    BY <1>1, MapAssumption DEF MapTypes
  <2>2. MapTypes'
    BY <2>1, <1>1 DEF MapTypes
  <2>3. OnRoute' /\ SureIsThere' /\ CleanIsSure' /\ WastedOnce'
    BY <1>1 DEF OnRoute, SureIsThere, CleanIsSure, WastedOnce
  <2> QED BY <2>2, <2>3 DEF MapIInv
<1>6. CASE UNCHANGED Map!vars
  <2> USE <1>6 DEF Map!vars
  <2>1. MapTypes' /\ OnRoute'
    BY <1>1 DEF MapTypes, OnRoute
  <2>2. SureIsThere' /\ CleanIsSure' /\ WastedOnce'
    BY <1>1 DEF SureIsThere, CleanIsSure, WastedOnce, WrongStart
  <2> QED BY <2>1, <2>2 DEF MapIInv
<1> QED BY <1>2, <1>3, <1>4, <1>5, <1>6, LocateKeeps, PlanKeeps, WalkKeeps, ConfirmKeeps
        DEF Map!Next

\* In every game and map: a call that comes back has come to where it was asked to, the way goes on
\* from path to path, and a wrong belief costs one call.
THEOREM MapSound == Map!Spec => []Map!NavigationIsSound
<1>1. MapIInv => Map!NavigationIsSound
  <2> SUFFICES ASSUME MapIInv PROVE Map!NavigationIsSound
    OBVIOUS
  <2>1. Map!TypeOK
    BY DEF MapIInv, MapTypes, Map!TypeOK
  <2>2. Map!ArrivalIsTrue
    <3> SUFFICES ASSUME journey = "there", sure
                 PROVE  /\ real.loc \in Map!ToSet(goal) /\ belief.loc = real.loc
                        /\ Len(EnvsOf[real.loc]) = 1 => belief = real
      BY DEF Map!ArrivalIsTrue
    <3>1. /\ belief.loc = real.loc /\ real.loc \in Map!ToSet(goal)
          /\ belief \in Map!Places /\ real \in Map!Places
      BY DEF MapIInv, SureIsThere, MapTypes
    <3>2. Len(EnvsOf[real.loc]) = 1 => belief.env = real.env
      BY <3>1, PlaceFits, MapFits
    <3> QED BY <3>1, <3>2, PlaceFits
  <2>3. Map!RouteFits
    <3> SUFFICES ASSUME journey = "walk", route # <<>>
                 PROVE  /\ route[Len(route)][2] = target.loc
                        /\ \A i \in 1 .. Len(route) - 1 : route[i][2] = route[i + 1][1]
                        /\ \A i, j \in DOMAIN route : i # j => route[i][2] # route[j][2]
      BY DEF Map!RouteFits, Map!Last
    <3> QED BY DEF MapIInv, OnRoute, Legs, Follows, OnceEach
  <2>4. Map!OneWastedCall
    <3>1. MapTypes
      BY DEF MapIInv
    <3>2. wasted \in 0 .. 1
      BY <3>1, Zenon DEF MapTypes
    <3> QED BY <3>2 DEF Map!OneWastedCall
  <2> QED BY <2>1, <2>2, <2>3, <2>4 DEF Map!NavigationIsSound
<1> QED BY <1>1, InitMapIInv, NextMapIInv, PTL DEF Map!Spec

-----------------------------------------------------------------------------
(* The plans of tasks as a whole.                                          *)

\* What is proved of the pipelines, for the one of MCPlans.
Queues == INSTANCE PipelineProofs WITH
    Queue <- <<"c1">>, Order <- <<"a", "b", "c">>, Once <- {"b"}, Debug <- {"c"},
    Explicit <- {<<"c", "a">>}, MaxAttempts <- 2, MaxErrors <- 3,
    on <- entriesOn, next <- planned, pc <- at

LEMMA SamePipeline ==
    /\ Pipeline!Init => Queues!Init
    /\ [Pipeline!Next]_(Pipeline!vars) => [Queues!Next]_(Queues!vars)
    /\ Queues!QueuesAreSound => Pipeline!QueuesAreSound
BY ZenonT(120) DEF
    Pipeline!Chars, Queues!Chars, Pipeline!Tasks, Queues!Tasks, Pipeline!Entries,
    Queues!Entries, Pipeline!Runs, Queues!Runs, Pipeline!Who, Queues!Who, Pipeline!What,
    Queues!What, Pipeline!plans, Queues!plans, Pipeline!marks, Queues!marks, Pipeline!errors,
    Queues!errors, Pipeline!rounds, Queues!rounds, Pipeline!totals, Queues!totals,
    Pipeline!vars, Queues!vars, Pipeline!TypeOK, Queues!TypeOK, Pipeline!Init, Queues!Init,
    Pipeline!ClearMarks, Queues!ClearMarks, Pipeline!LiftedAtOnce, Queues!LiftedAtOnce,
    Pipeline!Lifted, Queues!Lifted, Pipeline!DropMarks, Queues!DropMarks, Pipeline!LiftedByLook,
    Queues!LiftedByLook, Pipeline!MarkExhausted, Queues!MarkExhausted, Pipeline!PutOff,
    Queues!PutOff, Pipeline!ForgetErrors, Queues!ForgetErrors, Pipeline!RecordSuccess,
    Queues!RecordSuccess, Pipeline!CountError, Queues!CountError, Pipeline!CountEveryFailure,
    Queues!CountEveryFailure, Pipeline!RecordFailure, Queues!RecordFailure, Pipeline!Arrives,
    Queues!Arrives, Pipeline!UserResets, Queues!UserResets, Pipeline!Overview, Queues!Overview,
    Pipeline!Activate, Queues!Activate, Pipeline!Stop, Queues!Stop, Pipeline!Recover,
    Queues!Recover, Pipeline!Return, Queues!Return, Pipeline!Begin, Queues!Begin,
    Pipeline!BeginCycle, Queues!BeginCycle, Pipeline!BeginDirect, Queues!BeginDirect,
    Pipeline!MustLeave, Queues!MustLeave, Pipeline!DueEntry, Queues!DueEntry, Pipeline!DueOf,
    Queues!DueOf, Pipeline!Candidates, Queues!Candidates, Pipeline!First, Queues!First,
    Pipeline!Collected, Queues!Collected, Pipeline!LookedAt, Queues!LookedAt,
    Pipeline!LiftedByCollect, Queues!LiftedByCollect, Pipeline!Offered, Queues!Offered,
    Pipeline!Fresh, Queues!Fresh, Pipeline!FirstFresh, Queues!FirstFresh, Pipeline!Collecting,
    Queues!Collecting, Pipeline!Collect, Queues!Collect, Pipeline!Leave, Queues!Leave,
    Pipeline!RetryInPlace, Queues!RetryInPlace, Pipeline!TakeRetry, Queues!TakeRetry,
    Pipeline!TakeFresh, Queues!TakeFresh, Pipeline!OneRoundMore, Queues!OneRoundMore,
    Pipeline!MayRetry, Queues!MayRetry, Pipeline!NextRound, Queues!NextRound, Pipeline!Complete,
    Queues!Complete, Pipeline!Task, Queues!Task, Pipeline!DeviceReady, Queues!DeviceReady,
    Pipeline!DeviceCancelled, Queues!DeviceCancelled, Pipeline!DeviceFailsUncounted,
    Queues!DeviceFailsUncounted, Pipeline!DeviceFails, Queues!DeviceFails, Pipeline!Pause,
    Queues!Pause, Pipeline!AttemptUnnoted, Queues!AttemptUnnoted, Pipeline!LoggedIn,
    Queues!LoggedIn, Pipeline!LoginRaises, Queues!LoginRaises, Pipeline!Entry, Queues!Entry,
    Pipeline!Tried, Queues!Tried, Pipeline!Rescheduled, Queues!Rescheduled, Pipeline!Skipped,
    Queues!Skipped, Pipeline!Succeeds, Queues!Succeeds, Pipeline!Blocked, Queues!Blocked,
    Pipeline!LeaveToHuman, Queues!LeaveToHuman, Pipeline!Deferrable, Queues!Deferrable,
    Pipeline!Defer, Queues!Defer, Pipeline!Marking, Queues!Marking, Pipeline!GiveUp,
    Queues!GiveUp, Pipeline!Fails, Queues!Fails, Pipeline!TakenOver, Queues!TakenOver,
    Pipeline!Raises, Queues!Raises, Pipeline!Close, Queues!Close, Pipeline!User, Queues!User,
    Pipeline!Clock, Queues!Clock, Pipeline!Turn, Queues!Turn, Pipeline!Device, Queues!Device,
    Pipeline!Outcome, Queues!Outcome, Pipeline!Pipeline, Queues!Pipeline, Pipeline!Next,
    Queues!Next, Pipeline!Spec, Queues!Spec, Pipeline!Fairness, Queues!Fairness,
    Pipeline!FairSpec, Queues!FairSpec, Pipeline!AttemptBudget, Queues!AttemptBudget,
    Pipeline!Queued, Queues!Queued, Pipeline!QueuedOnce, Queues!QueuedOnce,
    Pipeline!RunsAsItsCharacter, Queues!RunsAsItsCharacter, Pipeline!OneBadTaskIsNotAnOutage,
    Queues!OneBadTaskIsNotAnOutage, Pipeline!SamePlanSkipped, Queues!SamePlanSkipped,
    Pipeline!DeferredIsRetried, Queues!DeferredIsRetried, Pipeline!PipelineEnds,
    Queues!PipelineEnds, Pipeline!Pending, Queues!Pending, Pipeline!DueIsAttempted,
    Queues!DueIsAttempted, Pipeline!QueuesAreSound, Queues!QueuesAreSound

LEMMA QueuesAreOrdered == Queues!Spec => []Queues!QueuesAreSound
<1>1. /\ Queues!QueueAssumption /\ Queues!OrderAssumption /\ Queues!KindAssumption
      /\ Queues!ExplicitAssumption /\ Queues!AttemptsAssumption
  BY DEF Queues!Chars, Queues!Tasks
<1> QED BY <1>1, Queues!QueuesSound, PTL

\* What is due is run in the order the queues have, and a task that runs gets to where it has to:
\* of the parts of MCPlans, the one that moves takes its own steps, and the others none.
THEOREM PlansCarriedOut == MCSpec => []PlansAreCarriedOut
<1> DEFINE Moved == /\ moves' = moves
                    /\ \/ moves = "clock" /\ Next /\ UNCHANGED <<pipelineVars, gameVars>>
                       \/ moves = "pipeline" /\ Pipeline!Next /\ UNCHANGED <<vars, gameVars>>
                       \/ GameNext /\ UNCHANGED <<vars, pipelineVars>>
           all == <<vars, moves, pipelineVars, gameVars>>
<1>1. MCInit => Queues!Init /\ Ocr!Init /\ Map!Init /\ Login!Init /\ Hero!Init
  BY SamePipeline DEF MCInit, GameInit
<1>2. [Moved]_all => [Pipeline!Next]_(Pipeline!vars)
  BY DEF GameNext, pipelineVars, Pipeline!vars, Pipeline!plans, Pipeline!marks, Pipeline!errors,
         Pipeline!rounds, Pipeline!totals
<1>3. [Moved]_all => [Ocr!Next]_(Ocr!vars)
  BY DEF GameNext, gameVars, ocrVars, Ocr!vars
<1>4. [Moved]_all => [Map!Next]_(Map!vars)
  BY DEF GameNext, gameVars, mapVars, Map!vars
<1>5. [Moved]_all => [Login!Next]_(Login!vars)
  BY DEF GameNext, gameVars, loginVars, Login!vars
<1>6. [Moved]_all => [Hero!Next]_(Hero!vars)
  BY DEF GameNext, gameVars, heroVars, Hero!vars, Hero!registryVars, Hero!battleVars,
         Hero!walkVars
<1>7. /\ Queues!QueuesAreSound /\ Ocr!OcrIsSound /\ Map!NavigationIsSound
      /\ Login!LoginIsSound /\ Hero!HeroIsSound
      => PlansAreCarriedOut
  BY SamePipeline DEF PlansAreCarriedOut, PipelineIsSound, GameIsReached
<1>8. [Moved]_all => [Queues!Next]_(Queues!vars)
  BY <1>2, SamePipeline
<1>9. MCSpec => MCInit /\ [][Moved]_all
  BY DEF MCSpec
<1> HIDE DEF Moved, all
<1> QED BY <1>1, <1>3, <1>4, <1>5, <1>6, <1>7, <1>8, <1>9, QueuesAreOrdered, OcrSound, MapSound,
           LoginSound, HeroSound, PTL
        DEF Queues!Spec, Ocr!Spec, Map!Spec, Login!Spec, Hero!Spec
=============================================================================
