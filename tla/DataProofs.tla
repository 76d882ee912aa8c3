----------------------------- MODULE DataProofs -----------------------------
(***************************************************************************)
(* What holds of the schedule and of the values of fixed width.            *)
(*                                                                         *)
(* Schedule: for every length of a day and a week, every schedule and      *)
(* every zone whose clock changes once.  Local times go round, a daily     *)
(* session in cycles of a day, a weekly one in cycles of a week.  In each  *)
(* cycle the session opens once and closes once, so the period of a local  *)
(* time runs from the last opening to the next closing (Cycle).  A local   *)
(* time that exists once splits the instants into those before and those   *)
(* after it (Once); so bounds that can be converted to instants are as     *)
(* good as the local ones.                                                 *)
(*                                                                         *)
(* FixedTypes: for every value.  A number of two digits has one pair of    *)
(* digits (TwoDigits, TwoOnce), and bytes keep their places in what they   *)
(* are joined to (Joined).                                                 *)
(***************************************************************************)
EXTENDS Schedule, FixedTypes, SequenceTheorems, TLAPS

-----------------------------------------------------------------------------
(* Division *)

\* Quotient and remainder are what they should be.
LEMMA Division ==
  ASSUME NEW n \in Int, NEW d \in Nat \ {0}
  PROVE  n \div d \in Int /\ n % d \in 0 .. d - 1 /\ n = (n \div d) * d + (n % d)
  OBVIOUS

\* There is only one quotient and one remainder.
LEMMA DivisionOnce ==
  ASSUME NEW d \in Nat \ {0}, NEW q \in Int, NEW r \in 0 .. d - 1, NEW n, n = q * d + r
  PROVE  n \div d = q /\ n % d = r
  OBVIOUS

\* Multiples are at least d apart.
LEMMA Multiples ==
  ASSUME NEW d \in Nat \ {0}, NEW p \in Int, NEW q \in Int
  PROVE  /\ p * d \in Int /\ (p + 1) * d = p * d + d /\ (p - 1) * d = p * d - d
         /\ p < q => p * d + d <= q * d
  OBVIOUS

-----------------------------------------------------------------------------
(* A session that opens at S and closes at E of every cycle of C ticks *)

Inside(C, S, E, l) == IF S < E THEN S <= l % C /\ l % C < E ELSE S <= l % C \/ l % C < E

\* The cycle in which the period of l opens, its opening and its closing.
Opened(C, S, l) == IF l % C >= S THEN l \div C ELSE l \div C - 1
Opening(C, S, l) == Opened(C, S, l) * C + S
Closing(C, S, E, l) == (IF S < E THEN Opened(C, S, l) ELSE Opened(C, S, l) + 1) * C + E

\* A local time between the opening and the closing of cycle k is inside the
\* period that opens in k.
LEMMA CycleHolds ==
  ASSUME NEW C \in Nat \ {0}, NEW S \in 0 .. C - 1, NEW E \in 0 .. C - 1, S # E,
         NEW k \in Int, NEW j, S < E => j = k, ~(S < E) => j = k + 1, NEW x \in Int, k * C + S <= x, x < j * C + E
  PROVE  Inside(C, S, E, x) /\ Opened(C, S, x) = k
  <1> DEFINE q == x \div C
             r == x % C
  <1>1. q \in Int /\ r \in 0 .. C - 1 /\ x = q * C + r
    BY Division, Zenon
  <1>2. k * C \in Int /\ (k + 1) * C = k * C + C /\ (k + 1) * C + C = (k + 2) * C
    OBVIOUS
  <1>3. (q < k => q * C + C <= k * C) /\ (k + 1 < q => (k + 1) * C + C <= q * C) /\ (k < q => k * C + C <= q * C)
    BY <1>1, Multiples
  <1>4. q * C \in Int
    BY <1>1
  <1> HIDE DEF q, r
  <1>5. q = k \/ q = k + 1
    BY <1>1, <1>2, <1>3, <1>4
  <1>6. CASE q = k
    BY <1>1, <1>2, <1>6 DEF Inside, Opened, q, r
  <1>7. CASE q = k + 1
    <2>1. ~(S < E) /\ r < E
      BY <1>1, <1>2, <1>7
    <2> QED
      BY <1>1, <1>7, <2>1 DEF Inside, Opened, q, r
  <1> QED
    BY <1>5, <1>6, <1>7

\* The period of a local time inside it holds that time, is shorter than a
\* cycle, and is bounded by local times outside.
LEMMA Cycle ==
  ASSUME NEW C \in Nat \ {0}, NEW S \in 0 .. C - 1, NEW E \in 0 .. C - 1, S # E,
         NEW l \in Int, Inside(C, S, E, l)
  PROVE  LET a == Opening(C, S, l)
             b == Closing(C, S, E, l)
         IN  /\ Opened(C, S, l) \in Int /\ a \in Int /\ b \in Int
             /\ a <= l /\ l < b /\ b - a < C
             /\ \A x \in a .. b - 1 : Inside(C, S, E, x) /\ Opened(C, S, x) = Opened(C, S, l)
             /\ ~Inside(C, S, E, b) /\ ~Inside(C, S, E, a - 1)
  <1> DEFINE q == l \div C
             r == l % C
             k == Opened(C, S, l)
             a == Opening(C, S, l)
             b == Closing(C, S, E, l)
  <1>1. q \in Int /\ r \in 0 .. C - 1 /\ l = q * C + r
    BY Division, Zenon
  <1>2. k \in Int /\ k = IF r >= S THEN q ELSE q - 1
    BY <1>1 DEF Opened
  <1>3. Inside(C, S, E, l) <=> IF S < E THEN S <= r /\ r < E ELSE S <= r \/ r < E
    BY DEF Inside
  <1> HIDE DEF q, r, k
  <1>4. /\ k * C \in Int /\ (k + 1) * C = k * C + C /\ (k - 1) * C = k * C - C
        /\ (q - 1) * C = q * C - C /\ q * C \in Int
    BY <1>1, <1>2, Multiples
  <1>5. a = k * C + S /\ b = (IF S < E THEN k ELSE k + 1) * C + E
    BY DEF Opening, Closing, k
  <1> HIDE DEF a, b
  <1>6. b = (IF S < E THEN k * C ELSE k * C + C) + E
    BY <1>4, <1>5
  <1>7. a \in Int /\ b \in Int /\ b - a < C
    BY <1>4, <1>5, <1>6
  <1>8. a <= l /\ l < b
    <2>1. CASE r >= S
      BY <1>1, <1>2, <1>3, <1>4, <1>5, <1>6, <2>1
    <2>2. CASE ~(r >= S)
      <3>1. k * C = q * C - C
        BY <1>2, <1>4, <2>2
      <3> QED
        BY <1>1, <1>3, <1>4, <1>5, <1>6, <2>2, <3>1
    <2> QED
      BY <2>1, <2>2
  <1>9. ASSUME NEW x \in a .. b - 1
        PROVE  Inside(C, S, E, x) /\ Opened(C, S, x) = k
    <2> DEFINE j == IF S < E THEN k ELSE k + 1
    <2>1. x \in Int /\ k * C + S <= x /\ x < j * C + E
      BY <1>5, <1>7
    <2>2. (S < E => j = k) /\ (~(S < E) => j = k + 1)
      OBVIOUS
    <2> HIDE DEF j
    <2> QED
      BY <1>2, <2>1, <2>2, CycleHolds
  <1>10. ~Inside(C, S, E, b)
    <2> DEFINE j == IF S < E THEN k ELSE k + 1
    <2>0. j \in Int /\ b = j * C + E
      BY <1>2, <1>5
    <2> HIDE DEF j
    <2>1. b % C = E
      BY <2>0, DivisionOnce, Zenon
    <2> QED
      BY <2>1 DEF Inside
  <1>11. ~Inside(C, S, E, a - 1)
    <2>1. CASE S = 0
      <3>1. a - 1 = (k - 1) * C + (C - 1) /\ k - 1 \in Int /\ C - 1 \in 0 .. C - 1
        BY <1>2, <1>4, <1>5, <2>1
      <3>2. (a - 1) % C = C - 1
        BY <3>1
      <3> QED
        BY <2>1, <3>2 DEF Inside
    <2>2. CASE S # 0
      <3>1. a - 1 = k * C + (S - 1) /\ S - 1 \in 0 .. C - 1
        BY <1>4, <1>5, <2>2
      <3>2. (a - 1) % C = S - 1
        BY <1>2, <3>1
      <3> QED
        BY <2>2, <3>2 DEF Inside
    <2> QED
      BY <2>1, <2>2
  <1> QED
    BY <1>2, <1>7, <1>8, <1>9, <1>10, <1>11 DEF a, b, k

-----------------------------------------------------------------------------
(* Schedules that have periods *)

Zones ==
    {tz \in [before : Int, after : Int, at : Int] : tz.before - tz.after <= Day /\ tz.after - tz.before <= Day}

\* What try_from accepts apart from NonStop.
Hours(s) ==
    /\ s.start_time \in Times /\ s.end_time \in Times /\ s.timezone \in Zones
    /\ s.kind \in {"Daily", "Weekdays", "Weekly"}
    /\ s.kind # "Weekly" => s.start_time # s.end_time
    /\ s.kind = "Weekdays" => s.weekdays \subseteq Weekdays /\ s.weekdays # {}
    /\ s.kind = "Weekly" =>
          /\ s.start_day \in Weekdays /\ s.end_day \in Weekdays
          /\ s.start_day = s.end_day => s.end_time < s.start_time

\* try_from refuses a configuration or makes one of the four kinds of it.
LEMMA TryFrom ==
  ASSUME NEW c \in ScheduleConfig, try_from(c) # InvalidSchedule
  PROVE  try_from(c) = NonStop \/ Hours(try_from(c))
  <1>1. /\ c.start_time \in Times \cup {None} /\ c.end_time \in Times \cup {None}
        /\ c.start_day \in Weekdays \cup {None} /\ c.end_day \in Weekdays \cup {None}
        /\ c.weekdays \subseteq Weekdays /\ c.timezone \in Timezones \cup {NoTimezone}
    BY DEF ScheduleConfig
  <1>2. unwrap_or(c.timezone) \in Zones
    <2>1. UTC \in Zones
      BY ScheduleAssumption DEF UTC, Zones
    <2>2. Timezones \subseteq Zones
      BY ScheduleAssumption DEF Zones
    <2> QED
      BY <1>1, <2>1, <2>2 DEF unwrap_or
  <1>3. CASE /\ c.start_time \in Times /\ c.end_time \in Times
             /\ try_from(c) = daily_or_weekdays(c) /\ try_from(c) # NonStop
    <2> DEFINE s == [kind |-> IF c.weekdays = {} THEN "Daily" ELSE "Weekdays",
                     start_time |-> c.start_time, end_time |-> c.end_time,
                     weekdays |-> c.weekdays, timezone |-> unwrap_or(c.timezone)]
    <2>1. try_from(c) = s /\ c.start_time # c.end_time
      BY <1>3 DEF daily_or_weekdays
    <2>2. Hours(s)
      BY <1>1, <1>2, <1>3, <2>1 DEF Hours
    <2> QED
      BY <2>1, <2>2
  <1>4. CASE /\ c.start_time \in Times /\ c.end_time \in Times /\ c.start_day \in Weekdays /\ c.end_day \in Weekdays
             /\ try_from(c) = weekly(c) /\ try_from(c) # NonStop
    <2> DEFINE s == [kind |-> "Weekly", start_day |-> c.start_day, start_time |-> c.start_time,
                     end_day |-> c.end_day, end_time |-> c.end_time, timezone |-> unwrap_or(c.timezone)]
    <2>1. try_from(c) = s /\ (c.start_day = c.end_day => ~(c.start_time < c.end_time) /\ c.start_time # c.end_time)
      BY <1>4 DEF weekly
    <2>2. c.start_day = c.end_day => c.end_time < c.start_time
      BY <1>4, <2>1, ScheduleAssumption DEF Times
    <2>3. Hours(s)
      BY <1>2, <1>4, <2>2 DEF Hours
    <2> QED
      BY <2>1, <2>3
  <1> QED
    BY <1>1, <1>3, <1>4 DEF try_from

\* The position in a week, and the day of a local time, from the week it is in.
LEMMA Position ==
  ASSUME NEW l \in Int
  PROVE  /\ Week * Day \in Nat \ {0} /\ l \div (Week * Day) \in Int
         /\ weekday(l) \in Weekdays /\ time(l) \in Times /\ date_naive(l) \in Int
         /\ l = date_naive(l) * Day + time(l)
         /\ weekly_seconds(weekday(l), time(l)) = l % (Week * Day)
         /\ date_naive(l) = (l \div (Week * Day)) * Week + weekday(l)
  <1> DEFINE q == l \div Day
             r == l % Day
             k == q \div Week
             w == q % Week
  <1>0. Day \in Nat \ {0} /\ Week \in Nat \ {0}
    BY ScheduleAssumption
  <1>1. q \in Int /\ r \in 0 .. Day - 1 /\ l = q * Day + r
    BY <1>0, Division
  <1>2. k \in Int /\ w \in 0 .. Week - 1 /\ q = k * Week + w
    BY <1>0, <1>1, Division
  <1>3. time(l) = r /\ date_naive(l) = q /\ weekday(l) = w
    BY DEF time, date_naive, weekday
  <1> HIDE DEF q, r, k, w
  <1>4. Week * Day \in Nat \ {0}
    BY <1>0
  <1>5. l = k * (Week * Day) + (w * Day + r)
    BY <1>0, <1>1, <1>2
  <1>6. w * Day + r \in 0 .. Week * Day - 1
    <2>1. w * Day \in Nat /\ w * Day + Day <= Week * Day
      BY <1>0, <1>2, Multiples
    <2> QED
      BY <1>0, <1>1, <1>4, <2>1
  <1>7. l \div (Week * Day) = k /\ l % (Week * Day) = w * Day + r
    <2>1. PICK C \in Nat \ {0} : C = Week * Day
      BY <1>4
    <2>2. PICK p \in 0 .. C - 1 : p = w * Day + r
      BY <1>6, <2>1
    <2>3. l = k * C + p
      BY <1>5, <2>1, <2>2
    <2> QED
      BY <1>2, <2>1, <2>2, <2>3, DivisionOnce, SMTT(20)
  <1> QED
    BY <1>1, <1>2, <1>3, <1>4, <1>7 DEF Times, Weekdays, weekly_seconds

\* The cycle of a schedule: its length, where it opens and where it closes.
CycleOf(s) == IF s.kind = "Weekly" THEN Week * Day ELSE Day
OpensAt(s) == IF s.kind = "Weekly" THEN weekly_seconds(s.start_day, s.start_time) ELSE s.start_time
ClosesAt(s) == IF s.kind = "Weekly" THEN weekly_seconds(s.end_day, s.end_time) ELSE s.end_time

\* Two positions of a week are the same only on the same day.
LEMMA WeeklySeconds ==
  ASSUME NEW d \in Weekdays, NEW t \in Times, NEW e \in Weekdays, NEW u \in Times
  PROVE  /\ weekly_seconds(d, t) \in 0 .. Week * Day - 1
         /\ weekly_seconds(d, t) < weekly_seconds(e, u) <=> d < e \/ (d = e /\ t < u)
  <1>0. Day \in Nat \ {0} /\ Week \in Nat \ {0} /\ d \in Nat /\ e \in Nat /\ d < Week
    BY ScheduleAssumption DEF Weekdays
  <1>1. t \in 0 .. Day - 1 /\ u \in 0 .. Day - 1
    BY DEF Times
  <1>2. /\ d * Day \in Nat /\ d * Day + Day <= Week * Day /\ e * Day \in Nat /\ Week * Day \in Nat
        /\ (d < e => d * Day + Day <= e * Day) /\ (e < d => e * Day + Day <= d * Day)
    BY <1>0, Multiples
  <1>3. weekly_seconds(d, t) = d * Day + t /\ weekly_seconds(e, u) = e * Day + u
    BY DEF weekly_seconds
  <1>4. weekly_seconds(d, t) \in 0 .. Week * Day - 1
    BY <1>0, <1>1, <1>2, <1>3
  <1>5. CASE d < e
    BY <1>0, <1>1, <1>2, <1>3, <1>4, <1>5
  <1>6. CASE e < d
    BY <1>0, <1>1, <1>2, <1>3, <1>4, <1>6
  <1>7. CASE d = e
    BY <1>0, <1>1, <1>2, <1>3, <1>4, <1>7
  <1> QED
    BY <1>0, <1>5, <1>6, <1>7

\* A schedule opens and closes in each cycle, at different positions.
LEMMA CycleTypes ==
  ASSUME NEW s, Hours(s)
  PROVE  /\ CycleOf(s) \in Nat \ {0} /\ CycleOf(s) <= Week * Day
         /\ OpensAt(s) \in 0 .. CycleOf(s) - 1 /\ ClosesAt(s) \in 0 .. CycleOf(s) - 1
         /\ OpensAt(s) # ClosesAt(s)
  <1>0. Day \in Nat \ {0} /\ Week \in Nat \ {0} /\ Week * Day \in Nat \ {0} /\ Day <= Week * Day
    BY ScheduleAssumption
  <1>1. CASE s.kind = "Weekly"
    <2>1. /\ s.start_day \in Weekdays /\ s.end_day \in Weekdays /\ s.start_time \in Times /\ s.end_time \in Times
          /\ s.start_day = s.end_day => s.end_time < s.start_time
      BY <1>1 DEF Hours
    <2> DEFINE p == weekly_seconds(s.start_day, s.start_time)
               e == weekly_seconds(s.end_day, s.end_time)
    <2>2. /\ p \in 0 .. Week * Day - 1 /\ e \in 0 .. Week * Day - 1
          /\ p < e <=> s.start_day < s.end_day \/ (s.start_day = s.end_day /\ s.start_time < s.end_time)
          /\ e < p <=> s.end_day < s.start_day \/ (s.end_day = s.start_day /\ s.end_time < s.start_time)
      BY <2>1, WeeklySeconds
    <2>3. CycleOf(s) = Week * Day /\ OpensAt(s) = p /\ ClosesAt(s) = e
      BY <1>1 DEF CycleOf, OpensAt, ClosesAt
    <2>4. p # e
      BY <2>1, <2>2, ScheduleAssumption DEF Weekdays
    <2> QED
      BY <1>0, <2>2, <2>3, <2>4
  <1>2. CASE s.kind # "Weekly"
    BY <1>0, <1>2 DEF Hours, CycleOf, OpensAt, ClosesAt, Times
  <1> QED
    BY <1>1, <1>2

\* The weekday before.
LEMMA DayBefore ==
  ASSUME NEW q \in Int
  PROVE  ((q % Week) + Week - 1) % Week = (q - 1) % Week
  <1> DEFINE k == q \div Week
             w == q % Week
  <1>0. Week \in Nat \ {0}
    BY ScheduleAssumption
  <1>1. k \in Int /\ w \in 0 .. Week - 1 /\ q = k * Week + w
    BY <1>0, Division
  <1> HIDE DEF k, w
  <1>2. (k - 1) * Week = k * Week - Week
    BY <1>0, <1>1
  <1>3. CASE w = 0
    <2>1. q - 1 = (k - 1) * Week + (Week - 1)
      BY <1>0, <1>1, <1>2, <1>3
    <2>2. (q - 1) % Week = Week - 1
      BY <1>0, <1>1, <2>1
    <2>3. (w + Week - 1) % Week = Week - 1
      BY <1>0, <1>3
    <2> QED
      BY <2>2, <2>3 DEF w
  <1>4. CASE w # 0
    <2>1. q - 1 = k * Week + (w - 1) /\ w - 1 \in 0 .. Week - 1 /\ w + Week - 1 = 1 * Week + (w - 1)
      BY <1>0, <1>1, <1>4
    <2>2. (q - 1) % Week = w - 1
      BY <1>0, <1>1, <2>1
    <2>3. (w + Week - 1) % Week = w - 1
      BY <1>0, <2>1
    <2> QED
      BY <2>2, <2>3 DEF w
  <1> QED
    BY <1>3, <1>4

\* The checks of the three kinds: a local time is inside the hours of its
\* cycle, and for weekdays the session opened on one of them.
LEMMA CheckSchedule ==
  ASSUME NEW s, Hours(s), NEW l \in Int
  PROVE  check_schedule(s, l) <=>
            /\ Inside(CycleOf(s), OpensAt(s), ClosesAt(s), l)
            /\ s.kind = "Weekdays" => Opened(Day, s.start_time, l) % Week \in s.weekdays
  <1>0. /\ s.start_time \in Times /\ s.end_time \in Times /\ time(l) \in Times /\ Times \subseteq Int
        /\ s.kind \in {"Daily", "Weekdays", "Weekly"} /\ time(l) = l % Day
    BY Position DEF Hours, time, Times
  <1>1. CASE s.kind = "Daily"
    BY <1>0, <1>1 DEF check_schedule, check_daily_schedule, Inside, CycleOf, OpensAt, ClosesAt
  <1>2. CASE s.kind = "Weekly"
    <2>1. weekly_seconds(weekday(l), time(l)) = l % (Week * Day)
      BY Position
    <2>2. /\ CycleOf(s) = Week * Day
          /\ OpensAt(s) = weekly_seconds(s.start_day, s.start_time)
          /\ ClosesAt(s) = weekly_seconds(s.end_day, s.end_time)
      BY <1>2 DEF CycleOf, OpensAt, ClosesAt
    <2>3. check_schedule(s, l) <=> check_weekly_schedule(l, s)
      BY <1>2 DEF check_schedule
    <2>4. OpensAt(s) \in Int /\ ClosesAt(s) \in Int /\ l % CycleOf(s) \in Int
      BY CycleTypes, Division
    <2>5. check_weekly_schedule(l, s) <=> Inside(CycleOf(s), OpensAt(s), ClosesAt(s), l)
      BY <2>1, <2>2, <2>4 DEF check_weekly_schedule, Inside
    <2> QED
      BY <1>2, <2>3, <2>5
  <1>3. CASE s.kind = "Weekdays"
    <2>1. CycleOf(s) = Day /\ OpensAt(s) = s.start_time /\ ClosesAt(s) = s.end_time /\ s.start_time # s.end_time
      BY <1>3 DEF CycleOf, OpensAt, ClosesAt, Hours
    <2>2. check_schedule(s, l) <=> check_weekdays_schedule(l, s)
      BY <1>3 DEF check_schedule
    <2>3. weekday(l) = (l \div Day) % Week /\ l \div Day \in Int
      BY Position DEF weekday, date_naive
    <2>4. (weekday(l) + Week - 1) % Week = (l \div Day - 1) % Week
      BY <2>3, DayBefore
    <2>5. Opened(Day, s.start_time, l) % Week =
             IF time(l) >= s.start_time THEN weekday(l) ELSE (weekday(l) + Week - 1) % Week
      BY <1>0, <2>3, <2>4 DEF Opened
    <2> HIDE DEF weekday, time
    <2>6. check_weekdays_schedule(l, s) <=>
             Inside(Day, s.start_time, s.end_time, l) /\ Opened(Day, s.start_time, l) % Week \in s.weekdays
      <3> DEFINE w == Opened(Day, s.start_time, l) % Week
                 d == (weekday(l) + Week - 1) % Week
      <3>1. PICK n, a, b : n = time(l) /\ a = s.start_time /\ b = s.end_time
        OBVIOUS
      <3>2. n \in Int /\ a \in Int /\ b \in Int /\ a # b /\ l % Day = n /\ w = IF n >= a THEN weekday(l) ELSE d
        BY <1>0, <2>1, <2>5, <3>1, Zenon
      <3>3. check_weekdays_schedule(l, s) <=>
               IF a < b THEN weekday(l) \in s.weekdays /\ a <= n /\ n < b
               ELSE ~(b <= n /\ n < a) /\ (IF n >= a THEN weekday(l) ELSE d) \in s.weekdays
        BY <3>1 DEF check_weekdays_schedule
      <3>4. Inside(Day, a, b, l) <=> IF a < b THEN a <= n /\ n < b ELSE a <= n \/ n < b
        BY <3>2 DEF Inside
      <3> HIDE DEF w, d
      <3>5. check_weekdays_schedule(l, s) <=> Inside(Day, a, b, l) /\ w \in s.weekdays
        BY <3>2, <3>3, <3>4
      <3> QED
        BY <3>1, <3>5 DEF w
    <2> QED
      BY <1>3, <2>1, <2>2, <2>6
  <1> QED
    BY <1>0, <1>1, <1>2, <1>3

\* The bounds of the period of a local time.
PeriodStart(s, l) == Opening(CycleOf(s), OpensAt(s), l)
PeriodEnd(s, l) == Closing(CycleOf(s), OpensAt(s), ClosesAt(s), l)

\* The period of a local time the schedule is active at is a run of such
\* local times, shorter than a week, between two at which it is not.
LEMMA Period ==
  ASSUME NEW s, Hours(s), NEW l \in Int, check_schedule(s, l)
  PROVE  LET a == PeriodStart(s, l)
             b == PeriodEnd(s, l)
         IN  /\ a \in Int /\ b \in Int /\ a <= l /\ l < b /\ b - a < Week * Day
             /\ \A x \in a .. b - 1 : check_schedule(s, x)
             /\ ~check_schedule(s, b) /\ ~check_schedule(s, a - 1)
  <1> DEFINE C == CycleOf(s)
             S == OpensAt(s)
             E == ClosesAt(s)
             a == PeriodStart(s, l)
             b == PeriodEnd(s, l)
  <1>1. /\ C \in Nat \ {0} /\ C <= Week * Day /\ S \in 0 .. C - 1 /\ E \in 0 .. C - 1 /\ S # E
        /\ Week * Day \in Int
    BY CycleTypes, ScheduleAssumption
  <1>2. Inside(C, S, E, l) /\ (s.kind = "Weekdays" => Opened(Day, s.start_time, l) % Week \in s.weekdays)
    BY CheckSchedule
  <1>3. /\ a \in Int /\ b \in Int /\ a <= l /\ l < b /\ b - a < C
        /\ \A x \in a .. b - 1 : Inside(C, S, E, x) /\ Opened(C, S, x) = Opened(C, S, l)
        /\ ~Inside(C, S, E, b) /\ ~Inside(C, S, E, a - 1)
    BY <1>1, <1>2, Cycle DEF PeriodStart, PeriodEnd
  <1>4. s.kind = "Weekdays" => C = Day /\ S = s.start_time
    BY DEF CycleOf, OpensAt
  <1> HIDE DEF a, b, C, S, E
  <1>5. ASSUME NEW x \in a .. b - 1
        PROVE  check_schedule(s, x)
    <2>1. x \in Int
      BY <1>3
    <2>2. s.kind = "Weekdays" => Opened(Day, s.start_time, x) % Week \in s.weekdays
      BY <1>2, <1>3, <1>4
    <2> QED
      BY <1>3, <2>1, <2>2, CheckSchedule DEF C, S, E
  <1>6. ~check_schedule(s, b)
    BY <1>3, CheckSchedule DEF C, S, E
  <1>7. ~check_schedule(s, a - 1)
    <2>1. a - 1 \in Int
      BY <1>3
    <2> QED
      BY <1>3, <2>1, CheckSchedule DEF C, S, E
  <1>8. b - a < Week * Day
    BY <1>1, <1>3
  <1> QED
    BY <1>3, <1>5, <1>6, <1>7, <1>8 DEF a, b

\* construct_utc, for a local time.
At(x, tz) == single({u \in {x - tz.before, x - tz.after} : with_timezone(u, tz) = x})

\* calculate_single_day_session_bounds converts the bounds of the period.
LEMMA SingleDayBounds ==
  ASSUME NEW s, Hours(s), s.kind # "Weekly", NEW t \in Int, NEW l \in Int,
         l = with_timezone(t, s.timezone), check_schedule(s, l)
  PROVE  calculate_single_day_session_bounds(t, s) =
            Bounds(At(PeriodStart(s, l), s.timezone), At(PeriodEnd(s, l), s.timezone))
  <1> DEFINE q == l \div Day
             r == l % Day
             S == s.start_time
             E == s.end_time
             d == IF r >= S THEN q ELSE q - 1
             e == IF r >= S /\ E < S THEN q + 1 ELSE q
  <1>1. CycleOf(s) = Day /\ OpensAt(s) = S /\ ClosesAt(s) = E /\ S \in Int /\ E \in Int
    BY DEF CycleOf, OpensAt, ClosesAt, Hours, Times
  <1>2. Inside(Day, S, E, l)
    BY <1>1, CheckSchedule
  <1>3. q \in Int /\ r \in Int /\ S # E
    BY ScheduleAssumption, Division DEF Hours
  <1>4. PeriodStart(s, l) = d * Day + S
    BY <1>1 DEF PeriodStart, Opening, Opened
  <1>5. e = IF S < E THEN d ELSE d + 1
    BY <1>1, <1>2, <1>3 DEF Inside
  <1>6. PeriodEnd(s, l) = e * Day + E
    BY <1>1, <1>5 DEF PeriodEnd, Closing, Opened
  <1>7. calculate_single_day_session_bounds(t, s) =
           Bounds(construct_utc(d, S, s.timezone), construct_utc(e, E, s.timezone))
    BY DEF calculate_single_day_session_bounds, time, date_naive
  <1> QED
    BY <1>4, <1>6, <1>7 DEF construct_utc, At

\* The days from a weekday to the next one of another name.
LEMMA DaysBetween ==
  ASSUME NEW d \in Weekdays, NEW e \in Weekdays
  PROVE  (e - d) % Week = IF e >= d THEN e - d ELSE e - d + Week
  <1>0. Week \in Nat \ {0} /\ d \in 0 .. Week - 1 /\ e \in 0 .. Week - 1
    BY ScheduleAssumption DEF Weekdays
  <1>1. CASE e >= d
    BY <1>0, <1>1
  <1>2. CASE ~(e >= d)
    <2>1. e - d = (-1) * Week + (e - d + Week) /\ e - d + Week \in 0 .. Week - 1
      BY <1>0, <1>2
    <2>2. (e - d) % Week = e - d + Week
      BY <1>0, <2>1
    <2> QED
      BY <1>2, <2>2
  <1> QED
    BY <1>1, <1>2

\* calculate_weekly_session_bounds converts the bounds of the period.
LEMMA WeeklyBounds ==
  ASSUME NEW s, Hours(s), s.kind = "Weekly", NEW t \in Int, NEW l \in Int,
         l = with_timezone(t, s.timezone), check_schedule(s, l)
  PROVE  calculate_weekly_session_bounds(t, s) =
            Bounds(At(PeriodStart(s, l), s.timezone), At(PeriodEnd(s, l), s.timezone))
  <1> DEFINE C == Week * Day
             K == l \div C
             p == weekly_seconds(s.start_day, s.start_time)
             e == weekly_seconds(s.end_day, s.end_time)
             O == IF l % C >= p THEN K ELSE K - 1
             j == IF p < e THEN O ELSE O + 1
             w == weekday(l)
             since_start == (w - s.start_day) % Week
             days_back == IF since_start = 0 /\ time(l) < s.start_time THEN Week ELSE since_start
             days == (s.end_day - s.start_day) % Week
             session_duration == IF days = 0 /\ s.end_time <= s.start_time THEN Week ELSE days
             start_date == date_naive(l) - days_back
  <1>0. /\ Day \in Nat \ {0} /\ Week \in Nat \ {0}
        /\ s.start_day \in Weekdays /\ s.end_day \in Weekdays /\ s.start_time \in Times /\ s.end_time \in Times
        /\ s.start_day = s.end_day => s.end_time < s.start_time
    BY ScheduleAssumption DEF Hours
  <1>1. CycleOf(s) = C /\ OpensAt(s) = p /\ ClosesAt(s) = e
    BY DEF CycleOf, OpensAt, ClosesAt
  <1>2. /\ K \in Int /\ w \in Weekdays /\ time(l) \in Times /\ weekly_seconds(w, time(l)) = l % C
        /\ date_naive(l) = K * Week + w /\ K * Week \in Int
    <2>1. /\ K \in Int /\ w \in Weekdays /\ time(l) \in Times /\ weekly_seconds(w, time(l)) = l % C
          /\ date_naive(l) = K * Week + w
      BY Position
    <2> HIDE DEF K
    <2> QED
      BY <1>0, <2>1
  <1>3. /\ p < e <=> s.start_day < s.end_day \/ (s.start_day = s.end_day /\ s.start_time < s.end_time)
        /\ l % C < p <=> w < s.start_day \/ (w = s.start_day /\ time(l) < s.start_time)
        /\ p \in Int /\ e \in Int /\ l % C \in Int
    BY <1>0, <1>2, WeeklySeconds
  <1>4. PeriodStart(s, l) = O * C + p /\ PeriodEnd(s, l) = j * C + e
    BY <1>1 DEF PeriodStart, PeriodEnd, Opening, Closing, Opened
  <1>5. calculate_weekly_session_bounds(t, s) =
           Bounds(construct_utc(start_date, s.start_time, s.timezone),
                  construct_utc(start_date + session_duration, s.end_time, s.timezone))
    BY DEF calculate_weekly_session_bounds
  <1>6. since_start = IF w >= s.start_day THEN w - s.start_day ELSE w - s.start_day + Week
    BY <1>2, <1>0, DaysBetween
  <1>7. days = IF s.end_day >= s.start_day THEN s.end_day - s.start_day ELSE s.end_day - s.start_day + Week
    BY <1>0, DaysBetween
  <1> HIDE DEF K, p, e, w, C, since_start, days
  <1>8. (K - 1) * Week = K * Week - Week
    BY <1>0, <1>2
  <1>9. start_date = O * Week + s.start_day
    BY <1>0, <1>2, <1>3, <1>6, <1>8 DEF Weekdays, Times
  <1>10. O \in Int /\ (O + 1) * Week = O * Week + Week /\ O * Week \in Int
    BY <1>0, <1>2
  <1> HIDE DEF O, start_date
  <1>11. start_date + session_duration = j * Week + s.end_day
    BY <1>0, <1>3, <1>7, <1>9, <1>10 DEF Weekdays, Times
  <1>12. ASSUME NEW k \in Int, NEW d \in Int, NEW u \in Int, NEW n, n = k * Week + d
         PROVE  n * Day + u = k * C + weekly_seconds(d, u)
    BY <1>0, <1>12 DEF C, weekly_seconds
  <1>a. s.start_day \in Int /\ s.end_day \in Int /\ s.start_time \in Int /\ s.end_time \in Int
    BY <1>0 DEF Weekdays, Times
  <1>13. start_date * Day + s.start_time = O * C + p
    <2>1. PICK a, b \in Int : a = s.start_day /\ b = s.start_time
      BY <1>a
    <2>2. O \in Int /\ start_date = O * Week + a
      BY <1>9, <1>10, <2>1, Zenon
    <2>3. start_date * Day + b = O * C + weekly_seconds(a, b)
      BY <1>12, <2>2
    <2> QED
      BY <2>1, <2>3, Zenon DEF p
  <1>14. j \in Int
    BY <1>10
  <1> HIDE DEF j, session_duration
  <1>15. (start_date + session_duration) * Day + s.end_time = j * C + e
    BY <1>a, <1>11, <1>12, <1>14 DEF e
  <1> QED
    BY <1>4, <1>5, <1>13, <1>15, Zenon DEF construct_utc, At

\* get_session_bounds has the bounds of the period, when both can be
\* converted.
LEMMA SessionBounds ==
  ASSUME NEW s, Hours(s), NEW t \in Int, NEW l \in Int,
         l = with_timezone(t, s.timezone), check_schedule(s, l)
  PROVE  get_session_bounds(s, t) =
            Bounds(At(PeriodStart(s, l), s.timezone), At(PeriodEnd(s, l), s.timezone))
  <1>1. s.kind # "NonStop"
    BY DEF Hours
  <1> QED
    BY <1>1, SingleDayBounds, WeeklyBounds DEF get_session_bounds

-----------------------------------------------------------------------------
(* Local times and instants *)

\* Instants have local times.
LEMMA LocalTime ==
  ASSUME NEW tz \in Zones, NEW t \in Int
  PROVE  /\ tz.before \in Int /\ tz.after \in Int /\ tz.at \in Int
         /\ tz.before - tz.after <= Day /\ tz.after - tz.before <= Day
         /\ t < tz.at => with_timezone(t, tz) = t + tz.before
         /\ ~(t < tz.at) => with_timezone(t, tz) = t + tz.after
         /\ with_timezone(t, tz) \in Int
  BY DEF Zones, with_timezone, offset

\* A local time that is converted to an instant splits the instants: those
\* from it on are the ones with this local time or a later one.  One that is
\* not converted is left out, or comes twice, at a change of the clocks.
LEMMA Once ==
  ASSUME NEW tz \in Zones, NEW x \in Int
  PROVE  /\ At(x, tz) # {} =>
              \E u \in Int : /\ At(x, tz) = {u} /\ with_timezone(u, tz) = x
                             /\ \A t \in Int : u <= t <=> x <= with_timezone(t, tz)
         /\ At(x, tz) = {} =>
              /\ tz.before # tz.after
              /\ \/ x - tz.before < tz.at /\ tz.at <= x - tz.after
                 \/ x - tz.after < tz.at /\ tz.at <= x - tz.before
  <1> DEFINE u == x - tz.before
             v == x - tz.after
             I == {i \in {u, v} : with_timezone(i, tz) = x}
  <1>1. tz.before \in Int /\ tz.after \in Int /\ tz.at \in Int
    BY LocalTime
  <1>2. u \in Int /\ v \in Int /\ (u = v <=> tz.before = tz.after)
    BY <1>1
  <1>3. ASSUME NEW t \in Int
        PROVE  with_timezone(t, tz) = IF t < tz.at THEN t + tz.before ELSE t + tz.after
    BY LocalTime
  <1>4. At(x, tz) = IF \E i \in I : I = {i} THEN I ELSE {}
    BY DEF At, single
  <1>5. (u \in I <=> u < tz.at \/ u = v) /\ (v \in I <=> tz.at <= v \/ u = v) /\ I \subseteq {u, v}
    BY <1>1, <1>2, <1>3
  <1>6. u < tz.at => \A t \in Int : t < tz.at => (u <= t <=> x <= with_timezone(t, tz))
    BY <1>1, <1>3
  <1>7. ~(v < tz.at) => \A t \in Int : ~(t < tz.at) => (v <= t <=> x <= with_timezone(t, tz))
    BY <1>1, <1>3
  <1>8. CASE u = v
    <2>1. I = {u} /\ At(x, tz) = {u} /\ with_timezone(u, tz) = x
      BY <1>4, <1>5, <1>8, Zenon
    <2>2. \A t \in Int : u <= t <=> x <= with_timezone(t, tz)
      BY <1>1, <1>2, <1>3, <1>8
    <2> QED
      BY <1>2, <2>1, <2>2
  <1>9. CASE u # v /\ u < tz.at /\ v < tz.at
    <2>1. u \in I /\ v \notin I
      BY <1>1, <1>2, <1>5, <1>9
    <2>2. I = {u} /\ At(x, tz) = {u} /\ with_timezone(u, tz) = x
      BY <1>4, <1>5, <2>1, Zenon
    <2>3. \A t \in Int : u <= t <=> x <= with_timezone(t, tz)
      BY <1>1, <1>3, <1>9
    <2> QED
      BY <1>2, <2>2, <2>3
  <1>10. CASE u # v /\ ~(u < tz.at) /\ ~(v < tz.at)
    <2>1. u \notin I /\ v \in I
      BY <1>1, <1>2, <1>5, <1>10
    <2>2. I = {v} /\ At(x, tz) = {v} /\ with_timezone(v, tz) = x
      BY <1>4, <1>5, <2>1, Zenon
    <2>3. \A t \in Int : v <= t <=> x <= with_timezone(t, tz)
      BY <1>1, <1>3, <1>10
    <2> QED
      BY <1>2, <2>2, <2>3
  <1>11. CASE u # v /\ (u < tz.at <=> ~(v < tz.at))
    <2>1. tz.before # tz.after
      BY <1>2, <1>11
    <2> HIDE DEF u, v, I
    <2>2. (u < tz.at /\ tz.at <= v) \/ (v < tz.at /\ tz.at <= u)
      BY <1>1, <1>2, <1>11
    <2>3. At(x, tz) = {}
      <3>1. u \in I <=> v \in I
        BY <1>1, <1>2, <1>5, <2>2
      <3> QED
        BY <1>4, <1>5, <1>11, <3>1
    <2> QED
      BY <2>1, <2>2, <2>3 DEF u, v
  <1> QED
    BY <1>8, <1>9, <1>10, <1>11

\* What is_same_session_period answers for a schedule with hours: the second
\* instant is compared with the bounds of the period of the first.
LEMMA Compare ==
  ASSUME NEW s, Hours(s), NEW t \in Int, NEW o \in Int, NEW l \in Int, NEW m \in Int,
         l = with_timezone(t, s.timezone), m = with_timezone(o, s.timezone)
  PROVE  LET answer == is_same_session_period(s, t, o)
             a == PeriodStart(s, l)
             b == PeriodEnd(s, l)
         IN  /\ answer = "Error" =>
                   check_schedule(s, l) /\ (At(a, s.timezone) = {} \/ At(b, s.timezone) = {})
             /\ answer = "SamePeriod" <=>
                   /\ check_schedule(s, l) /\ check_schedule(s, m)
                   /\ At(a, s.timezone) # {} /\ At(b, s.timezone) # {} /\ a <= m /\ m < b
             /\ check_schedule(s, l) /\ check_schedule(s, m) /\ answer # "Error" =>
                   At(a, s.timezone) # {} /\ At(b, s.timezone) # {}
  <1> DEFINE answer == is_same_session_period(s, t, o)
             bounds == get_session_bounds(s, t)
             a == PeriodStart(s, l)
             b == PeriodEnd(s, l)
             A == At(a, s.timezone)
             B == At(b, s.timezone)
  <1>0. s.timezone \in Zones /\ s.kind # "NonStop"
    BY DEF Hours
  <1>1. (is_active_at(s, t) <=> check_schedule(s, l)) /\ (is_active_at(s, o) <=> check_schedule(s, m))
    BY <1>0 DEF is_active_at
  <1>2. CASE ~(check_schedule(s, l) /\ check_schedule(s, m))
    <2>1. answer \in {"OutsideBoth", "OutsideFirst", "OutsideSecond"}
      BY <1>1, <1>2 DEF is_same_session_period
    <2> QED
      BY <1>2, <2>1
  <1>3. CASE check_schedule(s, l) /\ check_schedule(s, m)
    <2>1. answer = IF bounds = {} THEN "Error"
                   ELSE IF \E c \in bounds : c.start <= o /\ o < c.end THEN "SamePeriod"
                   ELSE "DifferentPeriod"
      BY <1>1, <1>3 DEF is_same_session_period
    <2>2. bounds = [start : A, end : B]
      BY <1>3, SessionBounds, Zenon DEF Bounds
    <2>3. a \in Int /\ b \in Int
      BY <1>3, Period
    <2> HIDE DEF answer, bounds, a, b
    <2>4. CASE A = {} \/ B = {}
      <3>1. bounds = {}
        BY <2>2, <2>4
      <3> QED
        BY <1>3, <2>1, <2>4, <3>1 DEF answer, a, b
    <2>5. CASE A # {} /\ B # {}
      <3>1. PICK u \in Int : A = {u} /\ \A i \in Int : u <= i <=> a <= with_timezone(i, s.timezone)
        BY <1>0, <2>3, <2>5, Once
      <3>2. PICK v \in Int : B = {v} /\ \A i \in Int : v <= i <=> b <= with_timezone(i, s.timezone)
        BY <1>0, <2>3, <2>5, Once
      <3>3. [start |-> u, end |-> v] \in bounds /\ \A c \in bounds : c.start = u /\ c.end = v
        BY <2>2, <3>1, <3>2
      <3>4. (u <= o <=> a <= m) /\ (o < v <=> m < b)
        BY <2>3, <3>1, <3>2
      <3>5. (\E c \in bounds : c.start <= o /\ o < c.end) <=> a <= m /\ m < b
        <4>1. (\E c \in bounds : c.start <= o /\ o < c.end) <=> u <= o /\ o < v
          BY <3>3
        <4> QED
          BY <3>4, <4>1
      <3>6. answer = IF a <= m /\ m < b THEN "SamePeriod" ELSE "DifferentPeriod"
        BY <2>1, <3>3, <3>5
      <3> QED
        BY <1>3, <2>5, <3>6 DEF answer, a, b
    <2> QED
      BY <2>4, <2>5
  <1> QED
    BY <1>2, <1>3

-----------------------------------------------------------------------------
(* The invariant *)

\* Every local time from instant c to instant n is active, those that a clock
\* put forward leaves out included.
AllActive(s, c, n) ==
    LET tz == s.timezone
    IN  /\ \A t \in c .. n : check_schedule(s, with_timezone(t, tz))
        /\ c < tz.at /\ tz.at <= n =>
              \A l \in with_timezone(tz.at - 1, tz) .. with_timezone(tz.at, tz) : check_schedule(s, l)

\* What unbroken remembers, and how far the clock is from the store's
\* creation.  A session without hours is never reset.
ClockInv ==
    /\ creation_time \in Int /\ now \in Int
    /\ FirstTick <= creation_time /\ creation_time <= now /\ now <= creation_time + Horizon
    /\ schedule = NonStop \/ Hours(schedule)
    /\ schedule = NonStop => unbroken /\ creation_time < FirstTick + Week * Day
    /\ Hours(schedule) => (unbroken <=> AllActive(schedule, creation_time, now))

\* A session without hours has one period.
LEMMA NonStopPeriod ==
  ASSUME NEW t \in Int, NEW o \in Int, FirstTick <= o, o <= FirstTick + Week * Day + Horizon
  PROVE  is_same_session_period(NonStop, t, o) = "SamePeriod"
  <1> DEFINE n == FirstTick + Week * Day + Horizon + 1
             bounds == get_session_bounds(NonStop, t)
  <1>0. FirstTick \in Nat /\ Horizon \in Nat /\ Week * Day \in Nat
    BY ScheduleAssumption
  <1>1. is_active_at(NonStop, t) /\ is_active_at(NonStop, o)
    BY DEF is_active_at, NonStop
  <1>2. bounds = [start : {0}, end : {n}]
    BY Zenon DEF get_session_bounds, NonStop, Bounds
  <1>3. 0 <= o /\ o < n
    BY <1>0
  <1> HIDE DEF n, bounds
  <1>4. \E c \in bounds : c.start <= o /\ o < c.end
    <2>1. [start |-> 0, end |-> n] \in bounds
      BY <1>2
    <2> QED
      BY <1>3, <2>1
  <1>5. bounds # {}
    BY <1>4
  <1> QED
    BY <1>1, <1>4, <1>5 DEF is_same_session_period, bounds

\* The hours that begin with one instant.
LEMMA OneActive ==
  ASSUME NEW s, Hours(s), NEW c \in Int
  PROVE  AllActive(s, c, c) <=> is_active_at(s, c)
  <1>1. s.timezone \in Zones /\ s.kind # "NonStop"
    BY DEF Hours
  <1>2. s.timezone.at \in Int
    BY <1>1, LocalTime
  <1>3. ~(c < s.timezone.at /\ s.timezone.at <= c)
    BY <1>2
  <1>4. c .. c = {c}
    OBVIOUS
  <1> QED
    BY <1>1, <1>3, <1>4 DEF AllActive, is_active_at

\* One more tick adds what has passed in it.
LEMMA MoreActive ==
  ASSUME NEW s, Hours(s), NEW c \in Int, NEW n \in Int, c <= n
  PROVE  AllActive(s, c, n + 1) <=> AllActive(s, c, n) /\ \A l \in Passed(s, n) : check_schedule(s, l)
  <1> DEFINE tz == s.timezone
             L == with_timezone(n, tz)
             M == with_timezone(n + 1, tz)
             All(i) == \A t \in c .. i : check_schedule(s, with_timezone(t, tz))
             Gap == \A l \in with_timezone(tz.at - 1, tz) .. with_timezone(tz.at, tz) : check_schedule(s, l)
  <1>0. tz \in Zones
    BY DEF Hours
  <1>1. tz.at \in Int /\ L \in Int /\ M \in Int
    BY <1>0, LocalTime
  <1>2. \A i : AllActive(s, c, i) <=> All(i) /\ (c < tz.at /\ tz.at <= i => Gap)
    BY DEF AllActive
  <1>3. Passed(s, n) = {M} \cup (L .. M)
    BY DEF Passed
  <1>4. All(n + 1) <=> All(n) /\ check_schedule(s, M)
    <2>1. \A t : t \in c .. n + 1 <=> t \in c .. n \/ t = n + 1
      OBVIOUS
    <2> QED
      BY <2>1
  <1>5. All(n) => check_schedule(s, L)
    OBVIOUS
  <1>6. CASE n + 1 = tz.at
    <2>1. c < tz.at /\ tz.at <= n + 1 /\ ~(tz.at <= n) /\ tz.at - 1 = n
      BY <1>1, <1>6
    <2>2. Gap <=> \A l \in L .. M : check_schedule(s, l)
      BY <1>6, <2>1
    <2> HIDE DEF Gap, All, L, M, tz
    <2>3. AllActive(s, c, n + 1) <=> All(n + 1) /\ Gap
      BY <1>2, <2>1
    <2>4. AllActive(s, c, n) <=> All(n)
      BY <1>2, <2>1
    <2> QED
      BY <1>3, <1>4, <2>2, <2>3, <2>4
  <1>7. CASE n + 1 # tz.at
    <2>1. tz.at <= n + 1 <=> tz.at <= n
      BY <1>1, <1>7
    <2>2. M = L + 1
      <3>1. n + 1 < tz.at <=> n < tz.at
        BY <1>1, <1>7
      <3>2. tz.before \in Int /\ tz.after \in Int
        BY <1>0, LocalTime
      <3> QED
        BY <3>1, <3>2 DEF with_timezone, offset
    <2>3. L .. M = {L, M}
      BY <1>1, <2>2
    <2> HIDE DEF Gap, All, L, M, tz
    <2>4. AllActive(s, c, n + 1) <=> All(n) /\ check_schedule(s, M) /\ (c < tz.at /\ tz.at <= n => Gap)
      BY <1>2, <1>4, <2>1
    <2>5. AllActive(s, c, n) <=> All(n) /\ (c < tz.at /\ tz.at <= n => Gap)
      BY <1>2
    <2> QED
      BY <1>3, <1>5, <2>3, <2>4, <2>5
  <1> QED
    BY <1>6, <1>7

\* SInit establishes the invariant.
LEMMA ScheduleStarts == SInit => ClockInv
  <1> SUFFICES ASSUME SInit
               PROVE  ClockInv
    OBVIOUS
  <1>0. FirstTick \in Nat /\ Horizon \in Nat /\ Week * Day \in Nat
    BY ScheduleAssumption
  <1>1. creation_time \in FirstTick .. FirstTick + Week * Day - 1 /\ now = creation_time
    BY DEF SInit
  <1>2. schedule = NonStop \/ Hours(schedule)
    BY TryFrom DEF SInit
  <1>3. /\ creation_time \in Int /\ now \in Int /\ FirstTick <= creation_time /\ creation_time <= now
        /\ now <= creation_time + Horizon /\ creation_time < FirstTick + Week * Day
    BY <1>0, <1>1
  <1>4. schedule = NonStop => unbroken
    <2>1. is_active_at(NonStop, now)
      BY DEF is_active_at, NonStop
    <2> QED
      BY <2>1, Zenon DEF SInit
  <1>5. Hours(schedule) => (unbroken <=> AllActive(schedule, creation_time, now))
    BY <1>1, <1>3, OneActive DEF SInit
  <1> QED
    BY <1>2, <1>3, <1>4, <1>5 DEF ClockInv

\* The ticks of the clock and the resets keep it.
LEMMA ScheduleKeeps == ClockInv /\ [SNext]_svars => ClockInv'
  <1> SUFFICES ASSUME ClockInv, [SNext]_svars
               PROVE  ClockInv'
    OBVIOUS
  <1>0. FirstTick \in Nat /\ Horizon \in Nat /\ Week * Day \in Nat
    BY ScheduleAssumption
  <1>1. /\ creation_time \in Int /\ now \in Int /\ FirstTick <= creation_time
        /\ creation_time <= now /\ now <= creation_time + Horizon
        /\ schedule = NonStop \/ Hours(schedule)
    BY DEF ClockInv
  <1>a. ~Hours(NonStop)
    BY DEF Hours, NonStop
  <1>2. CASE Tick
    <2>1. /\ now < creation_time + Horizon /\ now' = now + 1
          /\ schedule' = schedule /\ creation_time' = creation_time
      BY <1>2 DEF Tick
    <2>2. /\ creation_time' \in Int /\ now' \in Int /\ FirstTick <= creation_time'
          /\ creation_time' <= now' /\ now' <= creation_time' + Horizon
      BY <1>0, <1>1, <2>1
    <2>3. CASE schedule = NonStop
      <3>1. unbroken' /\ creation_time < FirstTick + Week * Day
        BY <1>2, <2>3, Zenon DEF Tick, ClockInv, NonStop
      <3> QED
        BY <1>a, <2>1, <2>2, <2>3, <3>1 DEF ClockInv
    <2>4. CASE Hours(schedule)
      <3>1. unbroken' <=> unbroken /\ \A l \in Passed(schedule, now) : check_schedule(schedule, l)
        BY <1>2, <2>4, Zenon DEF Tick, Hours
      <3>2. unbroken <=> AllActive(schedule, creation_time, now)
        BY <2>4 DEF ClockInv
      <3>3. unbroken' <=> AllActive(schedule, creation_time, now + 1)
        BY <1>1, <2>4, <3>1, <3>2, MoreActive
      <3> QED
        BY <1>a, <2>1, <2>2, <2>4, <3>3 DEF ClockInv
    <2> QED
      BY <1>1, <2>3, <2>4
  <1>3. CASE handle_schedule_check
    <2>1. /\ creation_time' = now /\ unbroken' = TRUE /\ schedule' = schedule /\ now' = now
          /\ is_active_at(schedule, now)
          /\ is_same_session_period(schedule, creation_time, now) \in {"DifferentPeriod", "OutsideFirst"}
      BY <1>3 DEF handle_schedule_check
    <2>2. /\ creation_time' \in Int /\ now' \in Int /\ FirstTick <= creation_time'
          /\ creation_time' <= now' /\ now' <= creation_time' + Horizon
      BY <1>0, <1>1, <2>1
    <2>3. CASE schedule = NonStop
      <3>1. creation_time < FirstTick + Week * Day
        BY <2>3 DEF ClockInv
      <3>2. FirstTick <= now /\ now <= FirstTick + Week * Day + Horizon
        BY <1>0, <1>1, <3>1
      <3>3. is_same_session_period(schedule, creation_time, now) = "SamePeriod"
        BY <1>1, <2>3, <3>2, NonStopPeriod
      <3> QED
        BY <2>1, <3>3
    <2>4. CASE Hours(schedule)
      <3>1. AllActive(schedule, now, now)
        BY <1>1, <2>1, <2>4, OneActive
      <3> QED
        BY <1>a, <2>1, <2>2, <2>4, <3>1 DEF ClockInv
    <2> QED
      BY <1>1, <2>3, <2>4
  <1>4. CASE UNCHANGED svars
    BY <1>4 DEF ClockInv, svars
  <1> QED
    BY <1>2, <1>3, <1>4 DEF SNext

\* What the schedule keeps.
LEMMA ScheduleInvariance == ScheduleSpec => []ClockInv
  <1>1. SInit => ClockInv
    BY ScheduleStarts
  <1>2. ClockInv /\ [SNext]_svars => ClockInv'
    BY ScheduleKeeps
  <1> QED
    BY <1>1, <1>2, PTL DEF ScheduleSpec

-----------------------------------------------------------------------------
(* Periods *)

\* Instants between the bounds of a period are active, and so is every local
\* time between them.
LEMMA InPeriod ==
  ASSUME NEW s, Hours(s), NEW c \in Int, NEW n \in Int, NEW a \in Int, NEW b \in Int,
         At(a, s.timezone) # {}, At(b, s.timezone) # {},
         \A x \in a .. b - 1 : check_schedule(s, x),
         c <= n, a <= with_timezone(c, s.timezone), with_timezone(n, s.timezone) < b
  PROVE  AllActive(s, c, n)
  <1> DEFINE tz == s.timezone
  <1>0. tz \in Zones
    BY DEF Hours
  <1>1. PICK u \in Int : \A t \in Int : u <= t <=> a <= with_timezone(t, tz)
    BY <1>0, Once, Zenon
  <1>2. PICK v \in Int : \A t \in Int : v <= t <=> b <= with_timezone(t, tz)
    BY <1>0, Once, Zenon
  <1>3. \A t \in Int : with_timezone(t, tz) \in Int
    BY <1>0, LocalTime
  <1>4. u <= c /\ n < v
    BY <1>1, <1>2, <1>3
  <1>5. ASSUME NEW t \in c .. n
        PROVE  a <= with_timezone(t, tz) /\ with_timezone(t, tz) < b
    <2>1. t \in Int /\ u <= t /\ ~(v <= t)
      BY <1>4
    <2> QED
      BY <1>1, <1>2, <1>3, <2>1
  <1>6. ASSUME NEW t \in c .. n
        PROVE  check_schedule(s, with_timezone(t, tz))
    <2>1. with_timezone(t, tz) \in a .. b - 1
      BY <1>3, <1>5
    <2> QED
      BY <2>1
  <1>7. ASSUME c < tz.at, tz.at <= n, NEW l \in with_timezone(tz.at - 1, tz) .. with_timezone(tz.at, tz)
        PROVE  check_schedule(s, l)
    <2>1. tz.at \in Int
      BY <1>0, LocalTime
    <2>2. tz.at - 1 \in c .. n /\ tz.at \in c .. n
      BY <1>7, <2>1
    <2>3. l \in a .. b - 1
      BY <1>3, <1>5, <2>1, <2>2
    <2> QED
      BY <2>3
  <1> QED
    BY <1>6, <1>7 DEF AllActive

\* A run of active local times does not reach the end of the period it is in.
LEMMA StaysBefore ==
  ASSUME NEW s, Hours(s), NEW c \in Int, NEW n \in Int, NEW b \in Int, c <= n, AllActive(s, c, n),
         At(b, s.timezone) # {}, ~check_schedule(s, b), with_timezone(c, s.timezone) < b
  PROVE  with_timezone(n, s.timezone) < b
  <1> DEFINE tz == s.timezone
  <1>0. tz \in Zones
    BY DEF Hours
  <1>1. PICK v \in Int : with_timezone(v, tz) = b /\ \A t \in Int : v <= t <=> b <= with_timezone(t, tz)
    BY <1>0, Once
  <1>2. \A t \in Int : with_timezone(t, tz) \in Int
    BY <1>0, LocalTime
  <1>3. SUFFICES ASSUME ~(with_timezone(n, tz) < b)
                 PROVE  FALSE
    OBVIOUS
  <1>4. v <= n /\ ~(v <= c)
    BY <1>1, <1>2, <1>3
  <1>5. v \in c .. n
    BY <1>4
  <1> QED
    BY <1>1, <1>5 DEF AllActive

\* Nor does it come from before the start of the period it ends in.
LEMMA CameAfter ==
  ASSUME NEW s, Hours(s), NEW c \in Int, NEW n \in Int, NEW a \in Int, c <= n, AllActive(s, c, n),
         At(a, s.timezone) # {}, ~check_schedule(s, a - 1), a <= with_timezone(n, s.timezone)
  PROVE  a <= with_timezone(c, s.timezone)
  <1> DEFINE tz == s.timezone
  <1>0. tz \in Zones /\ tz.at \in Int /\ \A t \in Int : with_timezone(t, tz) \in Int
    BY LocalTime DEF Hours
  <1>1. PICK u \in Int : with_timezone(u, tz) = a /\ \A t \in Int : u <= t <=> a <= with_timezone(t, tz)
    BY <1>0, Once
  <1>2. SUFFICES ASSUME ~(a <= with_timezone(c, tz))
                 PROVE  FALSE
    OBVIOUS
  <1>3. u <= n /\ c < u /\ u - 1 \in c .. n /\ ~(u <= u - 1) /\ u - 1 \in Int
    BY <1>0, <1>1, <1>2
  <1>4. ~(a <= with_timezone(u - 1, tz))
    BY <1>1, <1>3
  <1>5. CASE u = tz.at
    <2>1. a - 1 \in with_timezone(tz.at - 1, tz) .. with_timezone(tz.at, tz)
      BY <1>0, <1>1, <1>3, <1>4, <1>5
    <2>2. c < tz.at /\ tz.at <= n
      BY <1>3, <1>5
    <2> QED
      BY <2>1, <2>2 DEF AllActive
  <1>6. CASE u # tz.at
    <2>1. u - 1 < tz.at <=> u < tz.at
      BY <1>0, <1>6
    <2>2. tz.before \in Int /\ tz.after \in Int
      BY <1>0, LocalTime
    <2>3. with_timezone(u - 1, tz) = a - 1
      BY <1>1, <2>1, <2>2 DEF with_timezone, offset
    <2> QED
      BY <1>3, <2>3 DEF AllActive
  <1> QED
    BY <1>5, <1>6

\* The answers of is_same_session_period, in both orders, for a store that is
\* not younger than the clock.
LEMMA ActiveRuns ==
  ASSUME NEW s, Hours(s), NEW c \in Int, NEW n \in Int, c <= n
  PROVE  /\ is_same_session_period(s, c, n) # "Error" =>
              (is_same_session_period(s, c, n) = "SamePeriod" <=> AllActive(s, c, n))
         /\ is_same_session_period(s, n, c) # "Error" =>
              (is_same_session_period(s, n, c) = "SamePeriod" <=> AllActive(s, c, n))
  <1> DEFINE tz == s.timezone
  <1>0. tz \in Zones
    BY DEF Hours
  <1>1. PICK l, m \in Int : l = with_timezone(c, tz) /\ m = with_timezone(n, tz)
    BY <1>0, LocalTime
  <1>2. AllActive(s, c, n) => check_schedule(s, l) /\ check_schedule(s, m)
    BY <1>1 DEF AllActive
  <1>3. ASSUME is_same_session_period(s, c, n) # "Error"
        PROVE  is_same_session_period(s, c, n) = "SamePeriod" <=> AllActive(s, c, n)
    <2> DEFINE a == PeriodStart(s, l)
               b == PeriodEnd(s, l)
    <2>1. is_same_session_period(s, c, n) = "SamePeriod" <=>
             /\ check_schedule(s, l) /\ check_schedule(s, m)
             /\ At(a, tz) # {} /\ At(b, tz) # {} /\ a <= m /\ m < b
      BY <1>1, Compare
    <2>2. check_schedule(s, l) /\ check_schedule(s, m) => At(a, tz) # {} /\ At(b, tz) # {}
      BY <1>1, <1>3, Compare, SMTT(20)
    <2>3. check_schedule(s, l) =>
             /\ a \in Int /\ b \in Int /\ a <= l /\ l < b
             /\ (\A x \in a .. b - 1 : check_schedule(s, x)) /\ ~check_schedule(s, b)
      BY Period
    <2> HIDE DEF a, b
    <2>4. ASSUME check_schedule(s, l), At(a, tz) # {}, At(b, tz) # {}, m < b
          PROVE  AllActive(s, c, n)
      BY <1>1, <2>3, <2>4, InPeriod, Zenon
    <2>5. ASSUME AllActive(s, c, n)
          PROVE  /\ check_schedule(s, l) /\ check_schedule(s, m)
                 /\ At(a, tz) # {} /\ At(b, tz) # {} /\ a <= m /\ m < b
      <3>1. check_schedule(s, l) /\ check_schedule(s, m) /\ At(a, tz) # {} /\ At(b, tz) # {}
        BY <1>2, <2>2, <2>5
      <3>2. m < b
        BY <1>1, <2>3, <2>5, <3>1, StaysBefore
      <3>3. PICK u \in Int : \A t \in Int : u <= t <=> a <= with_timezone(t, tz)
        BY <1>0, <2>3, <3>1, Once, Zenon
      <3>4. a <= m
        BY <1>1, <2>3, <3>1, <3>3
      <3> QED
        BY <3>1, <3>2, <3>4
    <2> QED
      BY <2>1, <2>4, <2>5
  <1>4. ASSUME is_same_session_period(s, n, c) # "Error"
        PROVE  is_same_session_period(s, n, c) = "SamePeriod" <=> AllActive(s, c, n)
    <2> DEFINE a == PeriodStart(s, m)
               b == PeriodEnd(s, m)
    <2>1. is_same_session_period(s, n, c) = "SamePeriod" <=>
             /\ check_schedule(s, m) /\ check_schedule(s, l)
             /\ At(a, tz) # {} /\ At(b, tz) # {} /\ a <= l /\ l < b
      BY <1>1, Compare
    <2>2. check_schedule(s, m) /\ check_schedule(s, l) => At(a, tz) # {} /\ At(b, tz) # {}
      BY <1>1, <1>4, Compare
    <2>3. check_schedule(s, m) =>
             /\ a \in Int /\ b \in Int /\ a <= m /\ m < b
             /\ (\A x \in a .. b - 1 : check_schedule(s, x)) /\ ~check_schedule(s, a - 1)
      BY Period
    <2> HIDE DEF a, b
    <2>4. ASSUME check_schedule(s, m), At(a, tz) # {}, At(b, tz) # {}, a <= l
          PROVE  AllActive(s, c, n)
      BY <1>1, <2>3, <2>4, InPeriod, Zenon
    <2>5. ASSUME AllActive(s, c, n)
          PROVE  /\ check_schedule(s, m) /\ check_schedule(s, l)
                 /\ At(a, tz) # {} /\ At(b, tz) # {} /\ a <= l /\ l < b
      <3>1. check_schedule(s, l) /\ check_schedule(s, m) /\ At(a, tz) # {} /\ At(b, tz) # {}
        BY <1>2, <2>2, <2>5
      <3>2. a <= l
        BY <1>1, <2>3, <2>5, <3>1, CameAfter
      <3>3. PICK v \in Int : \A t \in Int : v <= t <=> b <= with_timezone(t, tz)
        BY <1>0, <2>3, <3>1, Once, Zenon
      <3>4. l < b
        BY <1>1, <2>3, <3>1, <3>3
      <3> QED
        BY <3>1, <3>2, <3>4
    <2> QED
      BY <2>1, <2>4, <2>5
  <1> QED
    BY <1>3, <1>4

\* Whatever the zone, the hours and the lengths of day and week:
\* is_same_session_period says of the store's creation and the clock, in
\* either order, that they are in one session period exactly when the schedule
\* was active all the time between them, unless it fails.
THEOREM SchedulePeriods == ScheduleSpec => []PeriodsAreActiveRuns
  <1>1. ClockInv => PeriodsAreActiveRuns
    <2> SUFFICES ASSUME ClockInv
                 PROVE  PeriodsAreActiveRuns
      OBVIOUS
    <2>0. FirstTick \in Nat /\ Horizon \in Nat /\ Week * Day \in Nat
      BY ScheduleAssumption
    <2>1. /\ creation_time \in Int /\ now \in Int /\ FirstTick <= creation_time
          /\ creation_time <= now /\ now <= creation_time + Horizon
          /\ schedule = NonStop \/ Hours(schedule)
      BY DEF ClockInv
    <2>2. CASE schedule = NonStop
      <3>1. unbroken /\ creation_time < FirstTick + Week * Day
        BY <2>2 DEF ClockInv
      <3>2. /\ FirstTick <= now /\ now <= FirstTick + Week * Day + Horizon
            /\ creation_time <= FirstTick + Week * Day + Horizon
        BY <2>0, <2>1, <3>1
      <3>3. /\ is_same_session_period(schedule, creation_time, now) = "SamePeriod"
            /\ is_same_session_period(schedule, now, creation_time) = "SamePeriod"
        BY <2>1, <2>2, <3>2, NonStopPeriod
      <3> QED
        BY <3>1, <3>3 DEF PeriodsAreActiveRuns
    <2>3. CASE Hours(schedule)
      <3>1. unbroken <=> AllActive(schedule, creation_time, now)
        BY <2>3 DEF ClockInv
      <3> QED
        BY <2>1, <2>3, <3>1, ActiveRuns DEF PeriodsAreActiveRuns
    <2> QED
      BY <2>1, <2>2, <2>3
  <1> QED
    BY <1>1, ScheduleInvariance, PTL

\* is_same_session_period fails only when the clocks change within
\* a week and a day of the store's creation.
THEOREM ScheduleAnswers == ScheduleSpec => []FailsOnlyAtClockChange
  <1>1. ClockInv => FailsOnlyAtClockChange
    <2> SUFFICES ASSUME ClockInv, is_same_session_period(schedule, creation_time, now) = "Error"
                 PROVE  \E t \in creation_time - (Week + 1) * Day .. creation_time + (Week + 1) * Day :
                           offset(t, schedule.timezone) # offset(t + 1, schedule.timezone)
      BY DEF FailsOnlyAtClockChange
    <2> DEFINE c == creation_time
               tz == schedule.timezone
               W == Week * Day
    <2>0. FirstTick \in Nat /\ Horizon \in Nat /\ Day \in Nat /\ W \in Nat /\ (Week + 1) * Day = W + Day
      BY ScheduleAssumption
    <2>1. /\ c \in Int /\ now \in Int /\ FirstTick <= c /\ c <= now /\ now <= c + Horizon
          /\ schedule = NonStop \/ Hours(schedule)
          /\ schedule = NonStop => c < FirstTick + W
      BY DEF ClockInv
    <2>2. Hours(schedule)
      <3>1. SUFFICES ASSUME schedule = NonStop
                     PROVE  FALSE
        BY <2>1
      <3>2. FirstTick <= now /\ now <= FirstTick + W + Horizon
        BY <2>0, <2>1, <3>1
      <3> QED
        BY <2>1, <3>1, <3>2, NonStopPeriod
    <2>3. tz \in Zones
      BY <2>2 DEF Hours
    <2>4. /\ tz.before \in Int /\ tz.after \in Int /\ tz.at \in Int
          /\ tz.before - tz.after <= Day /\ tz.after - tz.before <= Day
      BY <2>1, <2>3, LocalTime
    <2>5. PICK l \in Int : l = with_timezone(c, tz) /\ l \in {c + tz.before, c + tz.after}
      BY <2>1, <2>3, LocalTime
    <2>6. PICK m \in Int : m = with_timezone(now, tz)
      BY <2>1, <2>3, LocalTime
    <2>7. /\ check_schedule(schedule, l)
          /\ At(PeriodStart(schedule, l), tz) = {} \/ At(PeriodEnd(schedule, l), tz) = {}
      BY <2>1, <2>2, <2>5, <2>6, Compare, Zenon
    <2>8. PICK x \in Int : At(x, tz) = {} /\ l - W <= x /\ x <= l + W
      <3> DEFINE a == PeriodStart(schedule, l)
                 b == PeriodEnd(schedule, l)
      <3>1. a \in Int /\ b \in Int /\ a <= l /\ l < b /\ b - a < W
        BY <2>2, <2>7, Period
      <3> HIDE DEF a, b, W
      <3>2. l - W <= a /\ a <= l + W /\ l - W <= b /\ b <= l + W
        BY <2>0, <3>1
      <3> QED
        BY <2>7, <3>1, <3>2 DEF a, b
    <2>9. /\ tz.before # tz.after
          /\ \/ x - tz.before < tz.at /\ tz.at <= x - tz.after
             \/ x - tz.after < tz.at /\ tz.at <= x - tz.before
      BY <2>3, <2>8, Once
    <2> HIDE DEF W, c, tz
    <2>10. tz.at - 1 \in c - (W + Day) .. c + (W + Day)
      BY <2>0, <2>1, <2>4, <2>5, <2>8, <2>9
    <2>11. offset(tz.at - 1, tz) # offset((tz.at - 1) + 1, tz)
      BY <2>4, <2>9 DEF offset
    <2> QED
      BY <2>0, <2>10, <2>11 DEF c, tz
  <1> QED
    BY <1>1, ScheduleInvariance, PTL

-----------------------------------------------------------------------------
(* Openings *)

\* Every week has every time of every weekday.
LEMMA OnceAWeek ==
  ASSUME NEW L \in Int, NEW d \in Weekdays, NEW u \in Times
  PROVE  \E x \in L .. L + Week * Day - 1 :
            \E k \in Int : x = (k * Week + d) * Day + u /\ x = k * (Week * Day) + weekly_seconds(d, u)
  <1>0. Day \in Nat \ {0} /\ Week \in Nat \ {0} /\ d \in Int /\ u \in Int
    BY ScheduleAssumption DEF Weekdays, Times
  <1>1. PICK C \in Nat \ {0} : C = Week * Day
    BY <1>0
  <1>2. PICK p \in Int : p = weekly_seconds(d, u) /\ p = d * Day + u
    BY <1>0 DEF weekly_seconds
  <1>3. PICK q \in Int, r \in 0 .. C - 1 : p - L = q * C + r
    <2>1. PICK n \in Int : n = p - L
      BY <1>2
    <2>2. n \div C \in Int /\ n % C \in 0 .. C - 1 /\ n = (n \div C) * C + (n % C)
      BY <1>1, <2>1, Division, Zenon
    <2> QED
      BY <2>1, <2>2, Zenon
  <1>4. -q \in Int /\ (-q) * C = -(q * C) /\ q * C \in Int
    BY <1>1, <1>3
  <1>5. L + r = (-q) * C + p /\ L + r \in L .. L + C - 1
    BY <1>1, <1>2, <1>3, <1>4
  <1>6. ASSUME NEW k \in Int
        PROVE  k * C + p = (k * Week + d) * Day + u
    BY <1>0, <1>1, <1>2
  <1> QED
    BY <1>1, <1>2, <1>4, <1>5, <1>6

\* Every week of local times has one at which the session opens.
LEMMA WeeklyOpening ==
  ASSUME NEW s, Hours(s), NEW L \in Int
  PROVE  \E x \in L .. L + Week * Day - 1 : check_schedule(s, x)
  <1>0. Day \in Nat \ {0} /\ Week \in Nat \ {0} /\ s.start_time \in Times /\ s.start_time \in Int /\ 0 \in Weekdays
    BY ScheduleAssumption DEF Hours, Times, Weekdays
  <1>1. PICK d \in Weekdays : /\ s.kind = "Weekdays" => d \in s.weekdays
                              /\ s.kind = "Weekly" => d = s.start_day
    BY <1>0 DEF Hours
  <1>2. PICK x \in L .. L + Week * Day - 1 :
           \E k \in Int : /\ x = (k * Week + d) * Day + s.start_time
                          /\ x = k * (Week * Day) + weekly_seconds(d, s.start_time)
    BY <1>0, OnceAWeek, Zenon
  <1>3. PICK k \in Int : /\ x = (k * Week + d) * Day + s.start_time
                         /\ x = k * (Week * Day) + weekly_seconds(d, s.start_time)
    BY <1>2
  <1>4. x \in Int /\ k * Week + d \in Int /\ d \in 0 .. Week - 1 /\ s.start_time \in 0 .. Day - 1
    BY <1>0 DEF Weekdays, Times
  <1>5. x \div Day = k * Week + d /\ x % Day = s.start_time
    <2>1. PICK q \in Int, u \in 0 .. Day - 1 : q = k * Week + d /\ u = s.start_time
      BY <1>4
    <2>2. x = q * Day + u
      BY <1>3, <2>1, Zenon
    <2>3. x \div Day = q /\ x % Day = u
      BY <1>0, <2>2, DivisionOnce, Zenon
    <2> QED
      BY <2>1, <2>3
  <1>6. x % CycleOf(s) = OpensAt(s)
    <2>1. CASE s.kind = "Weekly"
      <3>1. CycleOf(s) = Week * Day /\ OpensAt(s) = weekly_seconds(d, s.start_time)
        BY <1>1, <2>1 DEF CycleOf, OpensAt
      <3> QED
        BY <1>3, <3>1, CycleTypes, DivisionOnce
    <2>2. CASE s.kind # "Weekly"
      BY <1>5, <2>2 DEF CycleOf, OpensAt
    <2> QED
      BY <2>1, <2>2
  <1>7. Inside(CycleOf(s), OpensAt(s), ClosesAt(s), x)
    BY <1>6, CycleTypes DEF Inside
  <1>8. s.kind = "Weekdays" => Opened(Day, s.start_time, x) % Week \in s.weekdays
    <2>1. Opened(Day, s.start_time, x) = k * Week + d
      BY <1>0, <1>5 DEF Opened
    <2>2. (k * Week + d) % Week = d
      BY <1>0, <1>4, DivisionOnce, Zenon
    <2> QED
      BY <1>1, <2>1, <2>2
  <1>9. check_schedule(s, x)
    BY <1>4, <1>7, <1>8, CheckSchedule
  <1> QED
    BY <1>9

\* Every schedule that try_from accepts is active again within two
\* weeks, across the change of the clocks of its zone.
THEOREM ScheduleOpens == ScheduleSpec => []OpensAgain
  <1>1. ClockInv => OpensAgain
    <2> SUFFICES ASSUME ClockInv
                 PROVE  \E t \in now .. now + 2 * Week * Day : is_active_at(schedule, t)
      BY DEF OpensAgain
    <2> DEFINE tz == schedule.timezone
               W == Week * Day
    <2>0. W \in Nat \ {0} /\ 2 * Week * Day = 2 * W
      BY ScheduleAssumption
    <2>1. now \in Int /\ (schedule = NonStop \/ Hours(schedule))
      BY DEF ClockInv
    <2>2. CASE schedule = NonStop
      <3>1. now \in now .. now + 2 * W
        BY <2>0, <2>1
      <3>2. is_active_at(schedule, now)
        BY <2>2 DEF is_active_at, NonStop
      <3> QED
        BY <2>0, <3>1, <3>2
    <2>3. CASE Hours(schedule)
      <3>1. tz \in Zones
        BY <2>3 DEF Hours
      <3>2. tz.before \in Int /\ tz.after \in Int /\ tz.at \in Int
        BY <2>1, <3>1, LocalTime
      <3> HIDE DEF W, tz
      <3> DEFINE Steady(f, o) == \A t \in f .. f + W - 1 : offset(t, tz) = o
      <3>3. PICK f \in Int, o \in Int : now <= f /\ f <= now + W /\ Steady(f, o)
        <4>1. CASE now < tz.at /\ tz.at <= now + W
          <5>1. Steady(tz.at, tz.after)
            BY <2>0, <3>2 DEF offset
          <5> HIDE DEF Steady
          <5> QED
            BY <2>0, <2>1, <3>2, <4>1, <5>1
        <4>2. CASE tz.at <= now
          <5>1. Steady(now, tz.after)
            BY <2>0, <2>1, <3>2, <4>2 DEF offset
          <5> HIDE DEF Steady
          <5> QED
            BY <2>0, <2>1, <3>2, <5>1
        <4>3. CASE now + W < tz.at
          <5>1. Steady(now, tz.before)
            BY <2>0, <2>1, <3>2, <4>3 DEF offset
          <5> HIDE DEF Steady
          <5> QED
            BY <2>0, <2>1, <3>2, <5>1
        <4> QED
          BY <2>0, <2>1, <3>2, <4>1, <4>2, <4>3
      <3>4. PICK x \in f + o .. f + o + W - 1 : check_schedule(schedule, x)
        BY <2>3, <3>3, WeeklyOpening DEF W
      <3>5. x - o \in f .. f + W - 1 /\ x - o \in now .. now + 2 * W /\ x - o \in Int
        BY <2>0, <2>1, <3>3
      <3>6. with_timezone(x - o, tz) = x
        BY <3>3, <3>5 DEF with_timezone
      <3>7. is_active_at(schedule, x - o)
        BY <3>4, <3>6 DEF is_active_at, tz
      <3> QED
        BY <2>0, <3>5, <3>7
    <2> QED
      BY <2>1, <2>2, <2>3
  <1> QED
    BY <1>1, ScheduleInvariance, PTL

-----------------------------------------------------------------------------
(* Digits *)

\* The two halves of a number of m * d values.
LEMMA Halves ==
  ASSUME NEW d \in Nat \ {0}, NEW m \in Nat, NEW p, p = m * d, NEW n \in Nat, n < p
  PROVE  n \div d \in 0 .. m - 1 /\ n % d \in 0 .. d - 1 /\ n = (n \div d) * d + (n % d)
  <1> DEFINE q == n \div d
             r == n % d
  <1>1. q \in Int /\ r \in 0 .. d - 1 /\ n = q * d + r
    BY Division
  <1> HIDE DEF q, r
  <1>2. q \in 0 .. m - 1
    BY <1>1
  <1> QED
    BY <1>1, <1>2, Zenon DEF q, r

Pairs == {n \in Nat : n <= 99}
Digits == 0 .. 9
Tens(n) == n \div 10
Ones(n) == n % 10
High(n) == n \div 100
Low(n) == n % 100

\* Two digits.
LEMMA TwoDigits ==
  ASSUME NEW n \in Pairs
  PROVE  /\ Tens(n) \in Digits /\ Ones(n) \in Digits /\ n = 10 * Tens(n) + Ones(n)
         /\ Two(n) = <<Tens(n) + 48, Ones(n) + 48>>
  <1>1. PICK d \in Nat \ {0}, p \in Nat : d = 10 /\ p = d * d /\ n \in Nat /\ n < p
    BY DEF Pairs
  <1>2. n \div d \in 0 .. d - 1 /\ n % d \in 0 .. d - 1 /\ n = (n \div d) * d + (n % d)
    BY <1>1, Halves
  <1>3. Tens(n) = n \div d /\ Ones(n) = n % d
    BY <1>1 DEF Tens, Ones
  <1>4. Tens(n) \in Digits /\ Ones(n) \in Digits /\ n = 10 * Tens(n) + Ones(n)
    BY <1>1, <1>2, <1>3 DEF Digits
  <1>5. Two(n) = <<Tens(n) + 48, Ones(n) + 48>>
    BY DEF Two, digit_to_ascii, Tens, Ones
  <1> QED
    BY <1>4, <1>5

\* There is only one way to write a number with two digits.
LEMMA TwoOnce ==
  ASSUME NEW a \in Digits, NEW b \in Digits, NEW n, n = 10 * a + b
  PROVE  n \in Pairs /\ Tens(n) = a /\ Ones(n) = b
  <1>1. n \in Pairs
    BY DEF Pairs, Digits
  <1>2. Tens(n) \in Digits /\ Ones(n) \in Digits /\ n = 10 * Tens(n) + Ones(n)
    BY <1>1, TwoDigits
  <1> QED
    BY <1>1, <1>2 DEF Digits

\* The pair of bytes.
LEMMA TwoTuple ==
  ASSUME NEW n \in Pairs
  PROVE  \E x, y \in Int : x = Tens(n) + 48 /\ y = Ones(n) + 48 /\ Two(n) = <<x, y>>
  <1>1. PICK x, y \in Int : x = Tens(n) + 48 /\ y = Ones(n) + 48
    BY TwoDigits DEF Digits
  <1> QED
    BY <1>1, TwoDigits

\* Two bytes are two digits of a number.
LEMMA TwoBytes ==
  ASSUME NEW n \in Pairs
  PROVE  /\ Two(n) \in Seq(Int) /\ Len(Two(n)) = 2
         /\ Two(n)[1] = Tens(n) + 48 /\ Two(n)[2] = Ones(n) + 48
  <1>1. PICK x, y \in Int : x = Tens(n) + 48 /\ y = Ones(n) + 48 /\ Two(n) = <<x, y>>
    BY TwoTuple
  <1> QED
    BY <1>1

LEMMA Joined ==
  ASSUME NEW s \in Seq(Int), NEW t \in Seq(Int)
  PROVE  /\ s \o t \in Seq(Int) /\ Len(s \o t) = Len(s) + Len(t)
         /\ \A i \in 1 .. Len(s) : (s \o t)[i] = s[i]
         /\ \A i \in 1 .. Len(t) : (s \o t)[Len(s) + i] = t[i]
  <1>1. /\ s \o t \in Seq(Int) /\ Len(s \o t) = Len(s) + Len(t)
        /\ \A i \in 1 .. Len(s) + Len(t) : (s \o t)[i] = IF i <= Len(s) THEN s[i] ELSE t[i - Len(s)]
    BY ConcatProperties
  <1>2. Len(s) \in Nat /\ Len(t) \in Nat
    BY LenProperties
  <1>3. ASSUME NEW i \in 1 .. Len(t)
        PROVE  (s \o t)[Len(s) + i] = t[i]
    <2>1. Len(s) + i \in 1 .. Len(s) + Len(t) /\ ~(Len(s) + i <= Len(s)) /\ Len(s) + i - Len(s) = i
      BY <1>2
    <2> QED
      BY <1>1, <2>1
  <1> QED
    BY <1>1, <1>2, <1>3


\* Two bytes behind a sequence of m.
LEMMA JoinTwo ==
  ASSUME NEW s \in Seq(Int), NEW m, m = Len(s), NEW x \in Int, NEW y \in Int, NEW r, r = s \o <<x, y>>
  PROVE  /\ r \in Seq(Int) /\ Len(r) = m + 2 /\ r[m + 1] = x /\ r[m + 2] = y
         /\ \A i \in 1 .. m : r[i] = s[i]
  <1>1. PICK t : t = <<x, y>>
    OBVIOUS
  <1>2. t \in Seq(Int) /\ Len(t) = 2 /\ t[1] = x /\ t[2] = y
    BY <1>1
  <1>3. 1 \in 1 .. Len(t) /\ 2 \in 1 .. Len(t)
    BY <1>2
  <1>4. /\ r \in Seq(Int) /\ Len(r) = Len(s) + Len(t)
        /\ \A i \in 1 .. Len(s) : r[i] = s[i]
        /\ \A i \in 1 .. Len(t) : r[Len(s) + i] = t[i]
    BY <1>1, <1>2, Joined
  <1> QED
    BY <1>2, <1>3, <1>4

AfterOne(r, s, m, x) ==
    /\ r \in Seq(Int) /\ Len(r) = m + 1 /\ r[m + 1] = x
    /\ \A i \in 1 .. m : r[i] = s[i]

\* One byte behind a sequence of m.
LEMMA JoinOne ==
  ASSUME NEW s \in Seq(Int), NEW m, m = Len(s), NEW x \in Int, NEW r, r = s \o <<x>>
  PROVE  AfterOne(r, s, m, x)
  <1>1. PICK t : t = <<x>>
    OBVIOUS
  <1>2. t \in Seq(Int) /\ Len(t) = 1 /\ t[1] = x
    BY <1>1
  <1>3. 1 \in 1 .. Len(t)
    BY <1>2
  <1>4. /\ r \in Seq(Int) /\ Len(r) = Len(s) + Len(t)
        /\ \A i \in 1 .. Len(s) : r[i] = s[i]
        /\ \A i \in 1 .. Len(t) : r[Len(s) + i] = t[i]
    BY <1>1, <1>2, Joined
  <1> QED
    BY <1>2, <1>3, <1>4 DEF AfterOne

\* Numbers of a range.
LEMMA Ranged ==
  ASSUME NEW k \in Nat, NEW n \in Nat, n <= k
  PROVE  n \in 0 .. k
  OBVIOUS

\* The years are the numbers below a hundred hundreds.
LEMMA LastYear ==
  \E k \in Nat : k + 1 = 100 * 100 /\ Years = 0 .. k
  <1>1. PICK k \in Nat : k = 9999
    OBVIOUS
  <1>2. k + 1 = 100 * 100
    BY <1>1
  <1>3. Years = 0 .. k
    BY <1>1 DEF Years
  <1> QED
    BY <1>2, <1>3, Zenon

LEMMA YearsBelow ==
  ASSUME NEW n, n \in Years, NEW d, d = 100
  PROVE  n \in Nat /\ d * d \in Nat /\ n < d * d
  <1>1. PICK k \in Nat : k + 1 = 100 * 100 /\ Years = 0 .. k
    BY LastYear, Zenon
  <1>2. n \in Nat /\ n <= k
    BY <1>1
  <1> QED
    BY <1>1, <1>2

\* A number of four digits is a year.
LEMMA IsYear ==
  ASSUME NEW a \in Pairs, NEW b \in Pairs, NEW n, n = 100 * a + b
  PROVE  n \in Years
  <1>1. PICK k \in Nat : k + 1 = 100 * 100 /\ Years = 0 .. k
    BY LastYear, Zenon
  <1>2. n \in Nat /\ n <= k
    BY <1>1 DEF Pairs
  <1>3. n \in 0 .. k
    BY <1>2, Ranged
  <1> QED
    BY <1>1, <1>3, Zenon

\* A year has two digits, and two more.
LEMMA FourDigits ==
  ASSUME NEW n \in Years
  PROVE  High(n) \in Pairs /\ Low(n) \in Pairs /\ n = 100 * High(n) + Low(n)
  <1>1. PICK d \in Nat \ {0} : d = 100
    OBVIOUS
  <1>2. PICK p \in Nat : n \in Nat /\ p = d * d /\ n < p
    BY <1>1, YearsBelow, Zenon
  <1>3. n \div d \in 0 .. d - 1 /\ n % d \in 0 .. d - 1 /\ n = (n \div d) * d + (n % d)
    BY <1>2, Halves, Zenon
  <1>4. High(n) = n \div d /\ Low(n) = n % d
    BY <1>1 DEF High, Low
  <1> QED
    BY <1>1, <1>3, <1>4 DEF Pairs

\* There is only one way to write a year.
LEMMA FourOnce ==
  ASSUME NEW a \in Pairs, NEW b \in Pairs, NEW n, n = 100 * a + b
  PROVE  n \in Years /\ High(n) = a /\ Low(n) = b
  <1>1. n \in Years
    BY IsYear
  <1>2. High(n) \in Pairs /\ Low(n) \in Pairs /\ n = 100 * High(n) + Low(n)
    BY <1>1, FourDigits
  <1>3. PICK h \in Nat, l \in Nat : h = High(n) /\ l = Low(n) /\ h <= 99 /\ l <= 99 /\ n = 100 * h + l
    BY <1>2 DEF Pairs
  <1>4. a \in Nat /\ b \in Nat /\ b <= 99 /\ l <= 99 /\ 100 * a + b = 100 * h + l
    BY <1>3, Zenon DEF Pairs
  <1>5. h = a /\ l = b
    <2>1. 100 * (a - h) = l - b
      BY <1>4
    <2>2. a - h = 0
      BY <1>4, <2>1
    <2> QED
      BY <1>4, <2>1, <2>2
  <1> QED
    BY <1>1, <1>3, <1>5

\* The bytes of a year.
LEMMA FourBytes ==
  ASSUME NEW n \in Years
  PROVE  /\ Four(n) \in Seq(Int) /\ Len(Four(n)) = 4
         /\ Four(n)[1] = Tens(High(n)) + 48 /\ Four(n)[2] = Ones(High(n)) + 48
         /\ Four(n)[3] = Tens(Low(n)) + 48 /\ Four(n)[4] = Ones(Low(n)) + 48
  <1>1. PICK h, l \in Pairs : h = High(n) /\ l = Low(n)
    BY FourDigits
  <1>2. PICK s, m : s = Two(h) /\ m = 2
    OBVIOUS
  <1>3. /\ s \in Seq(Int) /\ m = Len(s) /\ s[1] = Tens(h) + 48 /\ s[2] = Ones(h) + 48
    BY <1>2, TwoBytes
  <1>4. PICK x, y \in Int : x = Tens(l) + 48 /\ y = Ones(l) + 48 /\ Two(l) = <<x, y>>
    BY TwoTuple
  <1>5. Four(n) = s \o <<x, y>>
    BY <1>1, <1>2, <1>4, Zenon DEF Four, High, Low
  <1>6. PICK r : r = Four(n)
    OBVIOUS
  <1>7. /\ r \in Seq(Int) /\ Len(r) = m + 2 /\ r[m + 1] = x /\ r[m + 2] = y
        /\ \A i \in 1 .. m : r[i] = s[i]
    BY <1>3, <1>5, <1>6, JoinTwo
  <1>8. r \in Seq(Int) /\ Len(r) = 4 /\ r[1] = s[1] /\ r[2] = s[2] /\ r[3] = x /\ r[4] = y
    BY <1>2, <1>7
  <1> QED
    BY <1>1, <1>3, <1>4, <1>6, <1>8

\* Two digits are read as the number that was written.
LEMMA ReadTwo ==
  ASSUME NEW d, NEW i, NEW j, j = i + 1, NEW n \in Pairs, d[i] = Tens(n) + 48, d[j] = Ones(n) + 48
  PROVE  FromTwo(d, i) = n /\ is_digit(d[i], 0, 9) /\ is_digit(d[j], 0, 9)
  <1>1. PICK a, b \in Digits : a = Tens(n) /\ b = Ones(n) /\ n = 10 * a + b
    BY TwoDigits
  <1>2. FromTwo(d, i) = ((a + 48) - 48) * 10 + ((b + 48) - 48) * 1
    BY <1>1 DEF FromTwo, ascii_digit_to_u32
  <1>3. d[i] = a + 48 /\ d[j] = b + 48
    BY <1>1
  <1>4. FromTwo(d, i) = n
    <2>1. a \in Int /\ b \in Int
      BY DEF Digits
    <2>2. ((a + 48) - 48) * 10 + ((b + 48) - 48) * 1 = 10 * a + b
      BY <2>1
    <2> QED
      BY <1>1, <1>2, <2>2, Zenon
  <1>5. is_digit(d[i], 0, 9) /\ is_digit(d[j], 0, 9)
    BY <1>3 DEF is_digit, Digits
  <1> QED
    BY <1>4, <1>5

\* So are the four digits of a year.
LEMMA ReadFour ==
  ASSUME NEW d, NEW n \in Years,
         d[1] = Tens(High(n)) + 48, d[2] = Ones(High(n)) + 48, d[3] = Tens(Low(n)) + 48, d[4] = Ones(Low(n)) + 48
  PROVE  FromFour(d, 1) = n /\ \A i \in 1 .. 4 : is_digit(d[i], 0, 9)
  <1>1. PICK h, l \in Pairs : h = High(n) /\ l = Low(n) /\ n = 100 * h + l
    BY FourDigits
  <1>2. FromTwo(d, 1) = h /\ is_digit(d[1], 0, 9) /\ is_digit(d[2], 0, 9)
    BY <1>1, 2 = 1 + 1, ReadTwo
  <1>3. FromTwo(d, 3) = l /\ is_digit(d[3], 0, 9) /\ is_digit(d[4], 0, 9)
    BY <1>1, 4 = 3 + 1, ReadTwo
  <1>4. FromFour(d, 1) = (d[1] - 48) * 1000 + ((d[2] - 48) * 100 + FromTwo(d, 3))
    BY DEF FromFour, FromThree, ascii_digit_to_u32
  <1>5. FromTwo(d, 1) = (d[1] - 48) * 10 + (d[2] - 48) * 1
    BY DEF FromTwo, ascii_digit_to_u32
  <1>6. d[1] \in Int /\ d[2] \in Int
    BY <1>2 DEF is_digit
  <1>7. FromFour(d, 1) = 100 * h + l
    BY <1>2, <1>3, <1>4, <1>5, <1>6 DEF Pairs
  <1> QED
    BY <1>1, <1>2, <1>3, <1>7

Eight(y, m, e) == Four(y) \o Two(m) \o Two(e)
ReadsDate(r, y, m, e) ==
    /\ r \in Seq(Int) /\ Len(r) = 8 /\ AllDigits(r, 1 .. 8)
    /\ FromFour(r, 1) = y /\ FromTwo(r, 5) = m /\ FromTwo(r, 7) = e

\* A year and two more numbers: eight bytes.
LEMMA EightBytes ==
  ASSUME NEW y \in Years, NEW m \in Pairs, NEW e \in Pairs, NEW r, r = Eight(y, m, e)
  PROVE  ReadsDate(r, y, m, e)
  <1>1. PICK s : s = Four(y) \o Two(m)
    BY Zenon
  <1>2. PICK f, k : f = Four(y) /\ k = 4
    OBVIOUS
  <1>3. f \in Seq(Int) /\ k = Len(f)
    BY <1>2, FourBytes
  <1>4. PICK u, v \in Int : u = Tens(m) + 48 /\ v = Ones(m) + 48 /\ Two(m) = <<u, v>>
    BY TwoTuple
  <1>5. PICK x, z \in Int : x = Tens(e) + 48 /\ z = Ones(e) + 48 /\ Two(e) = <<x, z>>
    BY TwoTuple
  <1>6. s = f \o <<u, v>>
    BY <1>1, <1>2, <1>4
  <1>7. r = s \o <<x, z>>
    BY <1>1, <1>5 DEF Eight
  <1>8. s \in Seq(Int) /\ Len(s) = k + 2 /\ s[k + 1] = u /\ s[k + 2] = v /\ \A i \in 1 .. k : s[i] = f[i]
    BY <1>3, <1>6, JoinTwo
  <1>9. PICK n : n = k + 2 /\ n = Len(s)
    BY <1>8
  <1>10. r \in Seq(Int) /\ Len(r) = n + 2 /\ r[n + 1] = x /\ r[n + 2] = z /\ \A i \in 1 .. n : r[i] = s[i]
    <2>1. s \in Seq(Int)
      BY <1>8
    <2> QED
      BY <1>7, <1>9, <2>1, JoinTwo, SMTT(20)
  <1>11. /\ Len(r) = 8 /\ r[7] = x /\ r[8] = z /\ r[5] = u /\ r[6] = v
         /\ r[1] = f[1] /\ r[2] = f[2] /\ r[3] = f[3] /\ r[4] = f[4]
    BY <1>2, <1>8, <1>9, <1>10
  <1>12. FromFour(r, 1) = y /\ \A i \in 1 .. 4 : is_digit(r[i], 0, 9)
    <2>1. /\ r[1] = Tens(High(y)) + 48 /\ r[2] = Ones(High(y)) + 48
          /\ r[3] = Tens(Low(y)) + 48 /\ r[4] = Ones(Low(y)) + 48
      BY <1>2, <1>11, FourBytes, Zenon
    <2> QED
      BY <2>1, ReadFour, Zenon
  <1>13. FromTwo(r, 5) = m /\ is_digit(r[5], 0, 9) /\ is_digit(r[6], 0, 9)
    BY <1>4, <1>11, ReadTwo
  <1>14. FromTwo(r, 7) = e /\ is_digit(r[7], 0, 9) /\ is_digit(r[8], 0, 9)
    BY <1>5, <1>11, ReadTwo
  <1>15. \A i \in 1 .. 8 : i \in 1 .. 4 \/ i = 5 \/ i = 6 \/ i = 7 \/ i = 8
    OBVIOUS
  <1>16. \A i \in 1 .. 8 : is_digit(r[i], 0, 9)
    BY <1>12, <1>13, <1>14, <1>15, Zenon
  <1> QED
    BY <1>10, <1>11, <1>12, <1>13, <1>14, <1>16, Zenon DEF ReadsDate, AllDigits

Upto(least, most) == {n \in Nat : least <= n /\ n <= most}
Dates == [ok : {TRUE}, year : Years, month : Upto(1, 12), day : Upto(1, 31)]

\* A date that passes the checks.
LEMMA DateIs ==
  ASSUME NEW y, NEW m, NEW e
  PROVE  /\ y \in Years /\ m \in Upto(1, 12) /\ e \in Upto(1, 31) =>
               Date(y, m, e) = [ok |-> TRUE, year |-> y, month |-> m, day |-> e]
         /\ Date(y, m, e).ok => y \in Years /\ m \in Upto(1, 12) /\ e \in Upto(1, 31)
  <1>2. (m \in 1 .. 12 <=> m \in Upto(1, 12)) /\ (e \in 1 .. 31 <=> e \in Upto(1, 31))
    BY DEF Upto
  <1>3. Date(y, m, e) = IF y \in Years /\ m \in Upto(1, 12) /\ e \in Upto(1, 31)
                        THEN [ok |-> TRUE, year |-> y, month |-> m, day |-> e] ELSE Error
    BY <1>2, Zenon DEF Date
  <1>4. ~Error.ok
    BY DEF Error
  <1> QED
    BY <1>3, <1>4

\* Milliseconds have a digit, and two more.
LEMMA ThreeDigits ==
  ASSUME NEW n \in Millis
  PROVE  High(n) \in Digits /\ Low(n) \in Pairs /\ n = 100 * High(n) + Low(n)
  <1>1. PICK d \in Nat \ {0}, m \in Nat : d = 100 /\ m = 10
    OBVIOUS
  <1>2. PICK p \in Nat : n \in Nat /\ p = m * d /\ n < p
    BY <1>1 DEF Millis
  <1>3. n \div d \in 0 .. m - 1 /\ n % d \in 0 .. d - 1 /\ n = (n \div d) * d + (n % d)
    BY <1>2, Halves, Zenon
  <1>4. High(n) = n \div d /\ Low(n) = n % d
    BY <1>1 DEF High, Low
  <1> QED
    BY <1>1, <1>3, <1>4 DEF Pairs, Digits

\* Their bytes.
LEMMA ThreeBytes ==
  ASSUME NEW n \in Millis
  PROVE  /\ Three(n) \in Seq(Int) /\ Len(Three(n)) = 3
         /\ Three(n)[1] = High(n) + 48 /\ Three(n)[2] = Tens(Low(n)) + 48 /\ Three(n)[3] = Ones(Low(n)) + 48
  <1>1. PICK h \in Digits, l \in Pairs : h = High(n) /\ l = Low(n)
    BY ThreeDigits
  <1>2. PICK x \in Int : x = h + 48
    BY DEF Digits
  <1>3. PICK s : s = <<x>>
    BY Zenon
  <1>4. PICK m : m = 1
    OBVIOUS
  <1>5. s \in Seq(Int) /\ m = Len(s) /\ s[1] = x
    BY <1>3, <1>4
  <1>6. PICK y, z \in Int : y = Tens(l) + 48 /\ z = Ones(l) + 48 /\ Two(l) = <<y, z>>
    BY TwoTuple
  <1>7. Three(n) = s \o <<y, z>>
    BY <1>1, <1>2, <1>3, <1>6, Zenon DEF Three, High, Low, digit_to_ascii
  <1>8. PICK r : r = Three(n)
    OBVIOUS
  <1>9. /\ r \in Seq(Int) /\ Len(r) = m + 2 /\ r[m + 1] = y /\ r[m + 2] = z
        /\ \A i \in 1 .. m : r[i] = s[i]
    BY <1>5, <1>7, <1>8, JoinTwo
  <1>10. r \in Seq(Int) /\ Len(r) = 3 /\ r[1] = s[1] /\ r[2] = y /\ r[3] = z
    BY <1>4, <1>9
  <1> QED
    BY <1>1, <1>2, <1>5, <1>6, <1>8, <1>10

\* Three digits are read as the number that was written.
LEMMA ReadThree ==
  ASSUME NEW d, NEW i, NEW j, j = i + 1, NEW k, k = j + 1, NEW n \in Millis,
         d[i] = High(n) + 48, d[j] = Tens(Low(n)) + 48, d[k] = Ones(Low(n)) + 48
  PROVE  FromThree(d, i) = n /\ is_digit(d[i], 0, 9) /\ is_digit(d[j], 0, 9) /\ is_digit(d[k], 0, 9)
  <1>1. PICK h \in Digits, l \in Pairs : h = High(n) /\ l = Low(n) /\ n = 100 * h + l
    BY ThreeDigits
  <1>2. FromTwo(d, j) = l /\ is_digit(d[j], 0, 9) /\ is_digit(d[k], 0, 9)
    BY <1>1, ReadTwo
  <1>3. FromThree(d, i) = (d[i] - 48) * 100 + FromTwo(d, j)
    BY DEF FromThree, ascii_digit_to_u32
  <1>4. d[i] = h + 48
    BY <1>1
  <1>5. FromThree(d, i) = ((h + 48) - 48) * 100 + l
    BY <1>2, <1>3, <1>4
  <1>6. h \in Int /\ l \in Int
    BY DEF Digits, Pairs
  <1>7. ((h + 48) - 48) * 100 + l = 100 * h + l
    BY <1>6
  <1>8. is_digit(d[i], 0, 9)
    BY <1>4 DEF is_digit, Digits
  <1> QED
    BY <1>1, <1>2, <1>5, <1>7, <1>8, Zenon

AfterThree(r, s, m, t) ==
    /\ r \in Seq(Int) /\ Len(r) = m + 3 /\ r[m + 1] = t[1] /\ r[m + 2] = t[2] /\ r[m + 3] = t[3]
    /\ \A i \in 1 .. m : r[i] = s[i]

\* Three bytes behind a sequence of m.
LEMMA JoinThree ==
  ASSUME NEW s \in Seq(Int), NEW m, m = Len(s), NEW t \in Seq(Int), Len(t) = 3, NEW r, r = s \o t
  PROVE  AfterThree(r, s, m, t)
  <1>1. 1 \in 1 .. Len(t) /\ 2 \in 1 .. Len(t) /\ 3 \in 1 .. Len(t)
    OBVIOUS
  <1>2. /\ r \in Seq(Int) /\ Len(r) = Len(s) + Len(t)
        /\ \A i \in 1 .. Len(s) : r[i] = s[i]
        /\ \A i \in 1 .. Len(t) : r[Len(s) + i] = t[i]
    BY Joined, Zenon
  <1> QED
    BY <1>1, <1>2 DEF AfterThree

AfterPair(r, s, m, n, c) ==
    /\ r \in Seq(Int) /\ Len(r) = m + 3
    /\ r[m + 1] = Tens(n) + 48 /\ r[m + 2] = Ones(n) + 48 /\ r[m + 3] = c
    /\ \A i \in 1 .. m : r[i] = s[i]

\* Two digits and a separator behind a sequence of m.
LEMMA JoinPair ==
  ASSUME NEW s \in Seq(Int), NEW m, m = Len(s), NEW n \in Pairs, NEW c \in Int, NEW r, r = s \o Two(n) \o <<c>>
  PROVE  AfterPair(r, s, m, n, c)
  <1>1. PICK x, y \in Int : x = Tens(n) + 48 /\ y = Ones(n) + 48 /\ Two(n) = <<x, y>>
    BY TwoTuple
  <1>2. PICK t, k : t = s \o <<x, y>> /\ k = m + 2
    BY Zenon
  <1>3. t \in Seq(Int) /\ Len(t) = k /\ t[m + 1] = x /\ t[m + 2] = y /\ \A i \in 1 .. m : t[i] = s[i]
    BY <1>2, JoinTwo
  <1>4. r = t \o <<c>>
    BY <1>1, <1>2, Zenon
  <1>5. r \in Seq(Int) /\ Len(r) = k + 1 /\ r[k + 1] = c /\ \A i \in 1 .. k : r[i] = t[i]
    <2>1. t \in Seq(Int) /\ k = Len(t)
      BY <1>3
    <2>2. AfterOne(r, t, k, c)
      BY <1>4, <2>1, JoinOne, Zenon
    <2> QED
      BY <2>2, Zenon DEF AfterOne
  <1>6. m \in Nat
    BY LenProperties
  <1>7. /\ k + 1 = m + 3 /\ m + 1 \in 1 .. k /\ m + 2 \in 1 .. k
        /\ \A i \in 1 .. m : i \in 1 .. k
    BY <1>2, <1>6
  <1>8. r[m + 1] = t[m + 1] /\ r[m + 2] = t[m + 2] /\ \A i \in 1 .. m : r[i] = t[i]
    BY <1>5, <1>7
  <1>9. r[m + 3] = c /\ Len(r) = m + 3
    BY <1>5, <1>7
  <1> QED
    BY <1>1, <1>3, <1>5, <1>8, <1>9, SMTT(20) DEF AfterPair

Twelve(h, min, s, l) ==
    Two(h) \o <<Colon>> \o Two(min) \o <<Colon>> \o Two(s) \o <<Dot>> \o Three(l)
ReadsTime(r, h, min, s, l) ==
    /\ r \in Seq(Int) /\ Len(r) = 12 /\ r[3] = Colon /\ r[6] = Colon /\ r[9] = Dot
    /\ AllDigits(r, {1, 2, 4, 5, 7, 8})
    /\ FromTwo(r, 1) = h /\ FromTwo(r, 4) = min /\ FromTwo(r, 7) = s /\ FromThree(r, 10) = l

\* Hours, minutes, seconds and milliseconds: twelve bytes.
LEMMA TwelveBytes ==
  ASSUME NEW h \in Pairs, NEW min \in Pairs, NEW s \in Pairs, NEW l \in Millis, NEW r, r = Twelve(h, min, s, l)
  PROVE  ReadsTime(r, h, min, s, l)
  <1>1. PICK c, o \in Int : c = Colon /\ o = Dot
    BY DEF Colon, Dot
  <1>2. PICK a, k : a = Two(h) /\ k = 2
    OBVIOUS
  <1>3. a \in Seq(Int) /\ k = Len(a) /\ a[1] = Tens(h) + 48 /\ a[2] = Ones(h) + 48
    BY <1>2, TwoBytes
  <1>4. PICK b : b = a \o <<c>>
    BY Zenon
  <1>5. b \in Seq(Int) /\ Len(b) = k + 1 /\ b[k + 1] = c /\ \A i \in 1 .. k : b[i] = a[i]
    <2>1. AfterOne(b, a, k, c)
      BY <1>3, <1>4, JoinOne, Zenon
    <2> QED
      BY <2>1 DEF AfterOne
  <1>6. PICK n : n = 3
    OBVIOUS
  <1>7. b \in Seq(Int) /\ n = Len(b) /\ b[1] = a[1] /\ b[2] = a[2] /\ b[3] = c
    BY <1>2, <1>5, <1>6
  <1>8. PICK d : d = b \o Two(min) \o <<c>>
    BY Zenon
  <1>9. /\ d \in Seq(Int) /\ Len(d) = n + 3
        /\ d[n + 1] = Tens(min) + 48 /\ d[n + 2] = Ones(min) + 48 /\ d[n + 3] = c
        /\ \A i \in 1 .. n : d[i] = b[i]
    <2>1. b \in Seq(Int) /\ n = Len(b)
      BY <1>7
    <2>2. AfterPair(d, b, n, min, c)
      BY <1>8, <2>1, JoinPair, Zenon
    <2> QED
      BY <2>2 DEF AfterPair
  <1>10. PICK q : q = 6
    OBVIOUS
  <1>11. /\ d \in Seq(Int) /\ q = Len(d) /\ d[4] = Tens(min) + 48 /\ d[5] = Ones(min) + 48 /\ d[6] = c
         /\ d[1] = b[1] /\ d[2] = b[2] /\ d[3] = b[3]
    BY <1>6, <1>9, <1>10
  <1>12. PICK e : e = d \o Two(s) \o <<o>>
    BY Zenon
  <1>13. /\ e \in Seq(Int) /\ Len(e) = q + 3
         /\ e[q + 1] = Tens(s) + 48 /\ e[q + 2] = Ones(s) + 48 /\ e[q + 3] = o
         /\ \A i \in 1 .. q : e[i] = d[i]
    <2>1. d \in Seq(Int) /\ q = Len(d)
      BY <1>11
    <2>2. AfterPair(e, d, q, s, o)
      BY <1>12, <2>1, JoinPair, Zenon
    <2> QED
      BY <2>2 DEF AfterPair
  <1>14. PICK w : w = 9
    OBVIOUS
  <1>15. /\ e \in Seq(Int) /\ w = Len(e) /\ e[7] = Tens(s) + 48 /\ e[8] = Ones(s) + 48 /\ e[9] = o
         /\ e[1] = d[1] /\ e[2] = d[2] /\ e[3] = d[3] /\ e[4] = d[4] /\ e[5] = d[5] /\ e[6] = d[6]
    BY <1>10, <1>13, <1>14
  <1>16. PICK t : t = Three(l)
    OBVIOUS
  <1>17. /\ t \in Seq(Int) /\ Len(t) = 3
         /\ t[1] = High(l) + 48 /\ t[2] = Tens(Low(l)) + 48 /\ t[3] = Ones(Low(l)) + 48
    BY <1>16, ThreeBytes
  <1>18. r = e \o t
    BY <1>1, <1>2, <1>4, <1>8, <1>12, <1>16, ZenonT(30) DEF Twelve
  <1>19. /\ r \in Seq(Int) /\ Len(r) = w + 3 /\ r[w + 1] = t[1] /\ r[w + 2] = t[2] /\ r[w + 3] = t[3]
         /\ \A i \in 1 .. w : r[i] = e[i]
    <2>1. e \in Seq(Int) /\ w = Len(e)
      BY <1>15
    <2>2. t \in Seq(Int) /\ Len(t) = 3
      BY <1>17
    <2>3. AfterThree(r, e, w, t)
      BY <1>18, <2>1, <2>2, JoinThree, Zenon
    <2> QED
      BY <2>3 DEF AfterThree
  <1>20. /\ Len(r) = 12 /\ r[10] = t[1] /\ r[11] = t[2] /\ r[12] = t[3]
         /\ r[1] = e[1] /\ r[2] = e[2] /\ r[3] = e[3] /\ r[4] = e[4] /\ r[5] = e[5]
         /\ r[6] = e[6] /\ r[7] = e[7] /\ r[8] = e[8] /\ r[9] = e[9]
    BY <1>14, <1>19, SMTT(20)
  <1>21. r[1] = Tens(h) + 48 /\ r[2] = Ones(h) + 48
    BY <1>3, <1>7, <1>11, <1>15, <1>20, SMTT(20)
  <1>22. r[4] = Tens(min) + 48 /\ r[5] = Ones(min) + 48
    BY <1>11, <1>15, <1>20
  <1>23. r[7] = Tens(s) + 48 /\ r[8] = Ones(s) + 48
    BY <1>15, <1>20, SMTT(20)
  <1>24. r[3] = Colon /\ r[6] = Colon /\ r[9] = Dot
    BY <1>1, <1>7, <1>11, <1>15, <1>20, SMTT(20)
  <1>25. FromTwo(r, 1) = h /\ is_digit(r[1], 0, 9) /\ is_digit(r[2], 0, 9)
    BY <1>21, 2 = 1 + 1, ReadTwo
  <1>26. FromTwo(r, 4) = min /\ is_digit(r[4], 0, 9) /\ is_digit(r[5], 0, 9)
    BY <1>22, 5 = 4 + 1, ReadTwo
  <1>27. FromTwo(r, 7) = s /\ is_digit(r[7], 0, 9) /\ is_digit(r[8], 0, 9)
    BY <1>23, 8 = 7 + 1, ReadTwo
  <1>28. FromThree(r, 10) = l
    <2>1. r[10] = High(l) + 48 /\ r[11] = Tens(Low(l)) + 48 /\ r[12] = Ones(Low(l)) + 48
      BY <1>17, <1>20
    <2> QED
      BY <2>1, 11 = 10 + 1, 12 = 11 + 1, ReadThree, SMTT(20)
  <1>29. AllDigits(r, {1, 2, 4, 5, 7, 8})
    BY <1>25, <1>26, <1>27, Zenon DEF AllDigits
  <1> QED
    BY <1>19, <1>20, <1>24, <1>25, <1>26, <1>27, <1>28, <1>29, Zenon DEF ReadsTime

Hour == {n \in Nat : n <= 23}
Minute == {n \in Nat : n <= 59}
Second == {n \in Nat : n <= 60}
DayTimes == [ok : {TRUE}, hour : Hour, minute : Minute, second : Second, milli : Millis]

\* A time that passes the checks.
LEMMA TimeIs ==
  ASSUME NEW h, NEW min, NEW s, NEW l
  PROVE  /\ h \in Hour /\ min \in Minute /\ s \in Second /\ l \in Millis =>
               from_hmsm(h, min, s, l) = [ok |-> TRUE, hour |-> h, minute |-> min, second |-> s, milli |-> l]
         /\ from_hmsm(h, min, s, l).ok => h \in Hour /\ min \in Minute /\ s \in Second /\ l \in Millis
  <1>1. Hour = 0 .. 23
    BY DEF Hour
  <1>2. Minute = 0 .. 59
    BY DEF Minute
  <1>3. Second = 0 .. 60
    BY DEF Second
  <1>4. from_hmsm(h, min, s, l) =
          IF h \in Hour /\ min \in Minute /\ s \in Second /\ l \in Millis
          THEN [ok |-> TRUE, hour |-> h, minute |-> min, second |-> s, milli |-> l]
          ELSE Error
    BY <1>1, <1>2, <1>3, Zenon DEF from_hmsm
  <1>5. ~Error.ok
    BY DEF Error
  <1> QED
    BY <1>4, <1>5, Zenon

\* The parts of a time are written with two digits, or with three.
LEMMA TimeParts ==
  ASSUME NEW h \in Hour, NEW min \in Minute, NEW s \in Second, NEW l \in Millis
  PROVE  h \in Pairs /\ min \in Pairs /\ s \in Pairs
  BY DEF Hour, Minute, Second, Pairs

\* A time of twelve bytes that reads as four numbers.
LEMMA TimeOf ==
  ASSUME NEW r, NEW h, NEW min, NEW s, NEW l, ReadsTime(r, h, min, s, l)
  PROVE  time_deserialize(r) = from_hmsm(h, min, s, l)
  <1>1. Len(r) = 12 /\ r[3] = Colon /\ r[6] = Colon /\ r[9] = Dot /\ AllDigits(r, {1, 2, 4, 5, 7, 8})
    BY Zenon DEF ReadsTime
  <1>2. FromTwo(r, 1) = h /\ FromTwo(r, 4) = min /\ FromTwo(r, 7) = s /\ FromThree(r, 10) = l
    BY Zenon DEF ReadsTime
  <1>3. ~(\/ Len(r) \notin {8, 12}
          \/ Len(r) = 12 /\ r[9] # Dot
          \/ r[3] # Colon \/ r[6] # Colon \/ ~AllDigits(r, {1, 2, 4, 5, 7, 8}))
    BY <1>1, Zenon
  <1>4. (IF Len(r) = 12 THEN FromThree(r, 10) ELSE 0) = l
    BY <1>1, <1>2, Zenon
  <1> QED
    BY <1>2, <1>3, <1>4, Zenon DEF time_deserialize

\* The bytes of a time.
LEMMA TimeBytes ==
  ASSUME NEW v \in DayTimes, NEW r, r = time_to_bytes(v)
  PROVE  r \in Seq(Int) /\ Len(r) = 12 /\ time_deserialize(r) = v
  <1>1. PICK h \in Hour, min \in Minute, s \in Second, l \in Millis :
           v = [ok |-> TRUE, hour |-> h, minute |-> min, second |-> s, milli |-> l]
    BY Zenon DEF DayTimes
  <1>2. v.hour = h /\ v.minute = min /\ v.second = s /\ v.milli = l
    BY <1>1
  <1>3. r = Twelve(h, min, s, l)
    BY <1>2, Zenon DEF time_to_bytes, Twelve
  <1>4. ReadsTime(r, h, min, s, l)
    BY <1>3, TimeParts, TwelveBytes, Zenon
  <1>5. time_deserialize(r) = from_hmsm(h, min, s, l)
    BY <1>4, TimeOf, Zenon
  <1>6. r \in Seq(Int) /\ Len(r) = 12
    BY <1>4, Zenon DEF ReadsTime
  <1>7. from_hmsm(h, min, s, l) = [ok |-> TRUE, hour |-> h, minute |-> min, second |-> s, milli |-> l]
    BY TimeIs, Zenon
  <1> QED
    BY <1>1, <1>5, <1>6, <1>7, Zenon

Part(r, f, n) == SubSeq(r, f, n)
Lies(r, k, s) == \A i \in 1 .. Len(s) : r[k + i] = s[i]
Covers(r, k, s, f, n) == k \in Nat /\ f = k + 1 /\ n = k + Len(s) /\ Lies(r, k, s)

\* A part of a sequence.
LEMMA PartOf ==
  ASSUME NEW r, NEW s \in Seq(Int), NEW k, NEW f, NEW n, Covers(r, k, s, f, n)
  PROVE  Part(r, f, n) = s
  <1>0. k \in Nat /\ f = k + 1 /\ n = k + Len(s) /\ Lies(r, k, s)
    BY Zenon DEF Covers
  <1>1. PICK m : m = Len(s)
    OBVIOUS
  <1>2. m \in Nat /\ \A i \in 1 .. m : s[i] \in Int
    BY <1>1, LenProperties
  <1>3. f \in Int /\ n \in Int
    BY <1>0, <1>1, <1>2
  <1>4. \A i \in f .. n : i - k \in 1 .. m /\ k + (i - k) = i
    BY <1>0, <1>1, <1>2
  <1>5. \A i \in f .. n : r[i] \in Int
    BY <1>0, <1>1, <1>2, <1>4, Zenon DEF Lies
  <1>6. /\ SubSeq(r, f, n) \in Seq(Int)
        /\ Len(SubSeq(r, f, n)) = IF f <= n THEN n - f + 1 ELSE 0
        /\ \A i \in 1 .. n - f + 1 : SubSeq(r, f, n)[i] = r[f + i - 1]
    BY <1>3, <1>5, SubSeqProperties
  <1>7. PICK t : t = SubSeq(r, f, n)
    BY Zenon
  <1>8. Len(t) = m /\ n - f + 1 = m
    <2>1. k \in Nat /\ f = k + 1 /\ n = k + m
      BY <1>0, <1>1, Zenon
    <2>2. n - f + 1 = m /\ (IF f <= n THEN n - f + 1 ELSE 0) = m
      BY <1>2, <2>1
    <2> QED
      BY <1>6, <1>7, <2>2, Zenon
  <1>9. \A i \in 1 .. m : f + i - 1 = k + i
    BY <1>0, <1>2
  <1>10. \A i \in 1 .. m : t[i] = s[i]
    BY <1>0, <1>1, <1>6, <1>7, <1>8, <1>9 DEF Lies
  <1> QED
    BY <1>1, <1>6, <1>7, <1>8, <1>10, SeqEqual, Zenon DEF Part

AfterAll(r, s, t) ==
    /\ r \in Seq(Int) /\ Len(r) = Len(s) + Len(t)
    /\ \A i \in 1 .. Len(s) : r[i] = s[i]
    /\ \A i \in 1 .. Len(t) : r[Len(s) + i] = t[i]

\* A sequence behind another.
LEMMA JoinAll ==
  ASSUME NEW s \in Seq(Int), NEW t \in Seq(Int), NEW r, r = s \o t
  PROVE  AfterAll(r, s, t)
  BY Joined DEF AfterAll

Splice(s, c, t) == s \o <<c>> \o t
Splits(r, s, c, t, k) ==
    /\ Len(r) = k + 1 + Len(t) /\ r[k + 1] = c
    /\ Part(r, 1, k) = s /\ Part(r, k + 2, Len(r)) = t

\* Two sequences with a byte between them.
LEMMA Spliced ==
  ASSUME NEW s \in Seq(Int), NEW c \in Int, NEW t \in Seq(Int), NEW k, k = Len(s), NEW r, r = Splice(s, c, t)
  PROVE  Splits(r, s, c, t, k)
  <1>1. PICK b, n : b = s \o <<c>> /\ n = Len(t)
    BY Zenon
  <1>2. AfterOne(b, s, k, c)
    BY <1>1, JoinOne, Zenon
  <1>3. b \in Seq(Int) /\ Len(b) = k + 1 /\ b[k + 1] = c /\ \A i \in 1 .. k : b[i] = s[i]
    BY <1>2, Zenon DEF AfterOne
  <1>4. r = b \o t
    BY <1>1, Zenon DEF Splice
  <1>5. b \in Seq(Int)
    BY <1>3
  <1>6. /\ r \in Seq(Int) /\ Len(r) = Len(b) + n
        /\ \A i \in 1 .. Len(b) : r[i] = b[i]
        /\ \A i \in 1 .. n : r[Len(b) + i] = t[i]
    <2>1. AfterAll(r, b, t)
      BY <1>4, <1>5, JoinAll, Zenon
    <2> QED
      BY <1>1, <2>1, Zenon DEF AfterAll
  <1>7. k \in Nat /\ n \in Nat
    BY <1>1, LenProperties
  <1>8. PICK j \in Nat : j = k + 1
    BY <1>7
  <1>9. PICK f : f = k + 2 /\ Len(r) = j + n /\ f = j + 1 /\ j = Len(b)
    BY <1>3, <1>6, <1>7, <1>8
  <1>10. r[j] = c
    <2>1. j \in 1 .. Len(b)
      BY <1>7, <1>8, <1>9
    <2> QED
      BY <1>3, <1>6, <1>8, <2>1
  <1>11. \A i \in 1 .. k : r[i] = s[i]
    <2>1. \A i \in 1 .. k : i \in 1 .. Len(b)
      BY <1>7, <1>8, <1>9
    <2> QED
      BY <1>3, <1>6, <2>1, SMTT(20)
  <1>12. Lies(r, 0, s)
    BY <1>7, <1>11 DEF Lies
  <1>13. Part(r, 1, k) = s
    <2>1. 0 \in Nat /\ 1 = 0 + 1 /\ k = 0 + Len(s)
      BY <1>7
    <2>2. Covers(r, 0, s, 1, k)
      BY <1>12, <2>1, Zenon DEF Covers
    <2> QED
      BY <2>2, PartOf, ZenonT(30)
  <1>14. Lies(r, j, t)
    BY <1>1, <1>6, <1>9 DEF Lies
  <1>15. Part(r, f, Len(r)) = t
    <2>1. PICK z : z = Len(r)
      BY Zenon
    <2>2. z = j + Len(t) /\ f = j + 1
      BY <1>1, <1>9, <2>1
    <2>3. Part(r, f, z) = t
      <3>1. Covers(r, j, t, f, z)
        BY <1>14, <2>2, Zenon DEF Covers
      <3> QED
        BY <3>1, PartOf, Zenon
    <2> QED
      BY <2>1, <2>3, Zenon
  <1> QED
    BY <1>1, <1>8, <1>9, <1>10, <1>13, <1>15 DEF Splits

\* The bytes of a date.
LEMMA DateBytes ==
  ASSUME NEW v \in Dates, NEW r, r = to_yyyymmdd(v)
  PROVE  r \in Seq(Int) /\ Len(r) = 8 /\ date_deserialize(r) = v /\ date_lossy(r) = v
  <1>1. PICK y \in Years, m \in Upto(1, 12), e \in Upto(1, 31) :
           v = [ok |-> TRUE, year |-> y, month |-> m, day |-> e]
    BY Zenon DEF Dates
  <1>2. r = Eight(y, m, e)
    BY <1>1 DEF to_yyyymmdd, Eight
  <1>3. m \in Pairs /\ e \in Pairs
    BY DEF Upto, Pairs
  <1>4. ReadsDate(r, y, m, e)
    BY <1>2, <1>3, EightBytes, Zenon
  <1>5. date_lossy(r) = Date(y, m, e)
    BY <1>4 DEF date_lossy, ReadsDate
  <1>6. date_deserialize(r) = date_lossy(r)
    BY <1>4 DEF date_deserialize, ReadsDate
  <1>7. r \in Seq(Int) /\ Len(r) = 8
    BY <1>4, Zenon DEF ReadsDate
  <1> QED
    BY <1>1, <1>5, <1>6, <1>7, DateIs, Zenon

Timestamps == [ok : {TRUE}, date : Dates, time : DayTimes]

\* A timestamp whose two parts read is one.
LEMMA TimestampOf ==
  ASSUME NEW r, NEW v, NEW w, v.ok, w.ok, ~(Len(r) < 12), r[9] = Hyphen,
         date_deserialize(SubSeq(r, 1, 8)) = v, time_deserialize(From(r, 10)) = w
  PROVE  timestamp_parse(r) = Timestamp(v, w)
  BY Zenon DEF timestamp_parse

\* Dates, times and timestamps (SendingTime, OrigSendingTime) are
\* read as they were written, whatever the date and the time: to_bytes of
\* date.rs, time.rs and timestamp.rs against their deserialize, and for dates
\* against the reading that skips the checks.  A second 60 is kept.
THEOREM FieldsReadBack ==
  /\ \A v \in Dates : date_deserialize(to_yyyymmdd(v)) = v /\ date_lossy(to_yyyymmdd(v)) = v
  /\ \A v \in DayTimes : time_deserialize(time_to_bytes(v)) = v
  /\ \A v \in Timestamps : timestamp_parse(timestamp_to_bytes(v)) = v
  <1>1. \A v \in Dates : date_deserialize(to_yyyymmdd(v)) = v /\ date_lossy(to_yyyymmdd(v)) = v
    BY DateBytes, Zenon
  <1>2. \A v \in DayTimes : time_deserialize(time_to_bytes(v)) = v
    BY TimeBytes, Zenon
  <1>3. ASSUME NEW v \in Timestamps
        PROVE  timestamp_parse(timestamp_to_bytes(v)) = v
    <2>1. PICK d \in Dates, t \in DayTimes : v = [ok |-> TRUE, date |-> d, time |-> t]
      BY Zenon DEF Timestamps
    <2>2. v.date = d /\ v.time = t
      BY <2>1
    <2>3. PICK a, b, r : a = to_yyyymmdd(d) /\ b = time_to_bytes(t) /\ r = timestamp_to_bytes(v)
      OBVIOUS
    <2>4. a \in Seq(Int) /\ Len(a) = 8 /\ date_deserialize(a) = d
      BY <2>3, DateBytes, Zenon
    <2>5. b \in Seq(Int) /\ Len(b) = 12 /\ time_deserialize(b) = t
      BY <2>3, TimeBytes, Zenon
    <2>6. PICK c \in Int : c = Hyphen
      BY DEF Hyphen
    <2>7. r = Splice(a, c, b)
      BY <2>2, <2>3, <2>6, Zenon DEF timestamp_to_bytes, Splice
    <2>8. PICK k, f : k = 8 /\ f = 10
      OBVIOUS
    <2>9. k = Len(a) /\ f = k + 2
      BY <2>4, <2>8
    <2>10. /\ Len(r) = k + 1 + Len(b) /\ r[k + 1] = c
           /\ Part(r, 1, k) = a /\ Part(r, f, Len(r)) = b
      <3>1. Splits(r, a, c, b, k)
        BY <2>4, <2>5, <2>7, <2>9, Spliced, Zenon
      <3> QED
        BY <2>9, <3>1, Zenon DEF Splits
    <2>11. Len(r) = 21 /\ r[9] = Hyphen
      BY <2>5, <2>6, <2>8, <2>10
    <2>12. SubSeq(r, 1, 8) = a /\ From(r, 10) = b
      BY <2>8, <2>10, Zenon DEF From, Part
    <2>13. ~(Len(r) < 12)
      BY <2>11
    <2>14. d.ok /\ t.ok
      BY Zenon DEF Dates, DayTimes
    <2>15. timestamp_parse(r) = Timestamp(d, t)
      BY <2>4, <2>5, <2>11, <2>12, <2>13, <2>14, TimestampOf, Zenon
    <2> QED
      BY <2>1, <2>3, <2>15, Zenon DEF Timestamp
  <1> QED
    BY <1>1, <1>2, <1>3, Zenon

Clock(h, min, s) == SecondsOfHour * h + 60 * min + s
Shows(n, h, min, s) == n \div SecondsOfHour = h /\ (n \div 60) % 60 = min /\ n % 60 = s

\* The seconds of a day give back hour, minute and second.
LEMMA ClockOnce ==
  ASSUME NEW h \in Nat, NEW min \in Minute, NEW s \in Minute, NEW n, n = Clock(h, min, s)
  PROVE  Shows(n, h, min, s)
  <1>1. PICK a, b \in Nat \ {0} : a = 60 /\ b = SecondsOfHour /\ b = a * a
    BY SMT DEF SecondsOfHour
  <1>2. min \in 0 .. a - 1 /\ s \in 0 .. a - 1 /\ h \in Int
    BY <1>1, SMT DEF Minute
  <1>3. PICK q \in Int : q = h * a + min
    BY <1>2
  <1>4. PICK x \in 0 .. b - 1 : x = min * a + s
    <2>1. min * a \in Nat /\ b = (a - 1) * a + a /\ min * a <= (a - 1) * a
      BY <1>1, <1>2, SMT
    <2>2. min * a + s \in 0 .. b - 1
      BY <1>2, <2>1, SMT
    <2> QED
      BY <2>2, Zenon
  <1>5. n = h * b + x
    <2>1. n = b * h + a * min + s
      BY <1>1, Zenon DEF Clock
    <2> QED
      BY <1>2, <1>4, <2>1
  <1>6. n = q * a + s
    <2>1. q * a = h * b + min * a
      BY <1>1, <1>2, <1>3
    <2> QED
      BY <1>2, <1>3, <1>4, <1>5, <2>1, SMTT(20)
  <1>7. n \div a = q /\ n % a = s
    BY <1>2, <1>6, DivisionOnce, Zenon
  <1>8. n \div b = h
    BY <1>2, <1>5, DivisionOnce, Zenon
  <1>9. q % a = min
    BY <1>2, <1>3, DivisionOnce, Zenon
  <1> QED
    BY <1>1, <1>7, <1>8, <1>9, Zenon DEF Shows

\* The instant of a time.
LEMMA TimeInstant ==
  ASSUME NEW v \in DayTimes, time_to_chrono_naive(v).ok
  PROVE  time_from_chrono(time_to_chrono_naive(v)) = v
  <1>1. PICK h \in Hour, min \in Minute, s \in Second, l \in Millis :
           v = [ok |-> TRUE, hour |-> h, minute |-> min, second |-> s, milli |-> l]
    BY Zenon DEF DayTimes
  <1>2. v.hour = h /\ v.minute = min /\ v.second = s /\ v.milli = l
    BY <1>1
  <1>3. PICK n, o : n = Clock(h, min, s) /\ o = NanosOfMilli * l
    OBVIOUS
  <1>4. time_to_chrono_naive(v) = IF s <= 59 THEN [ok |-> TRUE, seconds |-> n, nanosecond |-> o] ELSE Error
    BY <1>2, <1>3, Zenon DEF time_to_chrono_naive, from_hms_milli_opt, Clock
  <1>5. s <= 59
    BY <1>4 DEF Error
  <1>6. s \in Minute /\ h \in Nat
    BY <1>5 DEF Second, Minute, Hour
  <1>7. Shows(n, h, min, s)
    BY <1>3, <1>6, ClockOnce, Zenon
  <1>8. o \div NanosOfMilli = l
    <2>1. PICK d \in Nat \ {0} : d = NanosOfMilli
      BY SMT DEF NanosOfMilli
    <2>2. l \in Int /\ 0 \in 0 .. d - 1 /\ o = l * d + 0
      BY <1>3, <2>1 DEF Millis
    <2> QED
      BY <2>1, <2>2, DivisionOnce
  <1>9. PICK c : c = [ok |-> TRUE, seconds |-> n, nanosecond |-> o]
    BY Zenon
  <1>10. c.seconds = n /\ c.nanosecond = o /\ time_to_chrono_naive(v) = c
    BY <1>4, <1>5, <1>9
  <1>11. time_from_chrono(c) = [ok |-> TRUE, hour |-> n \div SecondsOfHour, minute |-> (n \div 60) % 60,
                                second |-> n % 60, milli |-> o \div NanosOfMilli]
    BY <1>10, Zenon DEF time_from_chrono
  <1>12. time_from_chrono(c) = v
    BY <1>1, <1>7, <1>8, <1>11, Zenon DEF Shows
  <1> QED
    BY <1>10, <1>12, Zenon

\* The instant of a date.
LEMMA DateInstant ==
  ASSUME NEW v \in Dates, date_to_chrono_naive(v).ok
  PROVE  date_from_chrono(date_to_chrono_naive(v)) = v
  <1>1. PICK y \in Years, m \in Upto(1, 12), e \in Upto(1, 31) :
           v = [ok |-> TRUE, year |-> y, month |-> m, day |-> e]
    BY Zenon DEF Dates
  <1>2. v.year = y /\ v.month = m /\ v.day = e
    BY <1>1
  <1>3. ~Error.ok
    BY DEF Error
  <1>4. PICK c : c = [ok |-> TRUE, y |-> y, m |-> m, d |-> e]
    BY Zenon
  <1>5. c.y = y /\ c.m = m /\ c.d = e
    BY <1>4
  <1>6. date_to_chrono_naive(v) = c
    BY <1>2, <1>3, <1>4, Zenon DEF date_to_chrono_naive, from_ymd_opt
  <1> QED
    BY <1>1, <1>5, <1>6, Zenon DEF date_from_chrono

\* A timestamp that is an instant of chrono (a day of the calendar, no
\* second 60: to_chrono_naive) comes back from chrono as it was, so the check of
\* SendingTime's accuracy compares the instant that was sent.
THEOREM InstantsComeBack ==
  \A v \in Timestamps :
      timestamp_to_chrono_naive(v).ok => timestamp_from_chrono(timestamp_to_chrono_naive(v)) = v
  <1> SUFFICES ASSUME NEW v \in Timestamps, timestamp_to_chrono_naive(v).ok
               PROVE  timestamp_from_chrono(timestamp_to_chrono_naive(v)) = v
    OBVIOUS
  <1>1. PICK d \in Dates, t \in DayTimes : v = [ok |-> TRUE, date |-> d, time |-> t]
    BY Zenon DEF Timestamps
  <1>2. v.date = d /\ v.time = t
    BY <1>1
  <1>3. PICK a, b : a = date_to_chrono_naive(d) /\ b = time_to_chrono_naive(t)
    OBVIOUS
  <1>4. timestamp_to_chrono_naive(v) = IF a.ok /\ b.ok THEN [ok |-> TRUE, date |-> a, time |-> b] ELSE Error
    BY <1>2, <1>3, Zenon DEF timestamp_to_chrono_naive
  <1>5. a.ok /\ b.ok
    <2>1. ~Error.ok
      BY DEF Error
    <2> QED
      BY <1>4, <2>1, Zenon
  <1>6. PICK c : c = [ok |-> TRUE, date |-> a, time |-> b]
    BY Zenon
  <1>7. c.date = a /\ c.time = b /\ timestamp_to_chrono_naive(v) = c
    BY <1>4, <1>5, <1>6
  <1>8. date_from_chrono(a) = d /\ time_from_chrono(b) = t
    BY <1>3, <1>5, DateInstant, TimeInstant, Zenon
  <1> QED
    BY <1>1, <1>7, <1>8, Zenon DEF timestamp_from_chrono, Timestamp

Spells(d, i, j, n) == n \in Pairs /\ d[i] = Tens(n) + 48 /\ d[j] = Ones(n) + 48

\* Two bytes that are digits are the digits of the number they are read as.
LEMMA TwoRead ==
  ASSUME NEW d, NEW i, NEW j, j = i + 1, is_digit(d[i], 0, 9), is_digit(d[j], 0, 9), NEW n, n = FromTwo(d, i)
  PROVE  Spells(d, i, j, n)
  <1>1. PICK a, b \in Digits : d[i] = a + 48 /\ d[j] = b + 48
    <2>1. d[i] - 48 \in Digits /\ d[j] - 48 \in Digits /\ d[i] = (d[i] - 48) + 48 /\ d[j] = (d[j] - 48) + 48
      BY DEF is_digit, Digits
    <2> QED
      BY <2>1
  <1>2. n = ((a + 48) - 48) * 10 + ((b + 48) - 48) * 1
    BY <1>1 DEF FromTwo, ascii_digit_to_u32
  <1>3. n = 10 * a + b
    BY <1>2 DEF Digits
  <1> QED
    BY <1>1, <1>3, TwoOnce DEF Spells

\* So are the four of a year.
LEMMA FourRead ==
  ASSUME NEW d, \A i \in 1 .. 4 : is_digit(d[i], 0, 9), NEW n, n = FromFour(d, 1)
  PROVE  /\ n \in Years
         /\ d[1] = Tens(High(n)) + 48 /\ d[2] = Ones(High(n)) + 48
         /\ d[3] = Tens(Low(n)) + 48 /\ d[4] = Ones(Low(n)) + 48
  <1>1. is_digit(d[1], 0, 9) /\ is_digit(d[2], 0, 9) /\ is_digit(d[3], 0, 9) /\ is_digit(d[4], 0, 9)
    OBVIOUS
  <1>2. PICK h, l : h = FromTwo(d, 1) /\ l = FromTwo(d, 3)
    OBVIOUS
  <1>3. h \in Pairs /\ d[1] = Tens(h) + 48 /\ d[2] = Ones(h) + 48
    BY <1>1, <1>2, 2 = 1 + 1, TwoRead DEF Spells
  <1>4. l \in Pairs /\ d[3] = Tens(l) + 48 /\ d[4] = Ones(l) + 48
    BY <1>1, <1>2, 4 = 3 + 1, TwoRead DEF Spells
  <1>5. n = (d[1] - 48) * 1000 + ((d[2] - 48) * 100 + l)
    BY <1>2 DEF FromFour, FromThree, ascii_digit_to_u32
  <1>6. h = (d[1] - 48) * 10 + (d[2] - 48) * 1
    BY <1>2 DEF FromTwo, ascii_digit_to_u32
  <1>7. d[1] \in Int /\ d[2] \in Int
    BY <1>1 DEF is_digit
  <1>8. n = 100 * h + l
    BY <1>4, <1>5, <1>6, <1>7 DEF Pairs
  <1>9. n \in Years /\ High(n) = h /\ Low(n) = l
    BY <1>3, <1>4, <1>8, FourOnce
  <1> QED
    BY <1>3, <1>4, <1>9, SMTT(20)

Writes(n, x, y) == Two(n) = <<x, y>>

\* The bytes of two digits are those the number is written with.
LEMMA PairRead ==
  ASSUME NEW d, NEW i, NEW j, j = i + 1, is_digit(d[i], 0, 9), is_digit(d[j], 0, 9), NEW n, n = FromTwo(d, i)
  PROVE  Spells(d, i, j, n) /\ Writes(n, d[i], d[j])
  <1>1. Spells(d, i, j, n)
    BY TwoRead, Zenon
  <1>2. n \in Pairs /\ d[i] = Tens(n) + 48 /\ d[j] = Ones(n) + 48
    BY <1>1, Zenon DEF Spells
  <1>3. Two(n) = <<Tens(n) + 48, Ones(n) + 48>>
    BY <1>2, TwoDigits, Zenon
  <1> QED
    BY <1>1, <1>2, <1>3, Zenon DEF Writes

Dated(d) ==
    (\A i \in 1 .. 4 : is_digit(d[i], 0, 9)) /\ is_digit(d[5], 0, 9) /\ is_digit(d[6], 0, 9)
StartOf(d) == Four(FromFour(d, 1)) \o Two(FromTwo(d, 5))
Starts(s, d) ==
    /\ s \in Seq(Int) /\ Len(s) = 6
    /\ s[1] = d[1] /\ s[2] = d[2] /\ s[3] = d[3] /\ s[4] = d[4] /\ s[5] = d[5] /\ s[6] = d[6]

\* A year and a month that are digits are written with these digits.
LEMMA SixRead ==
  ASSUME NEW d, Dated(d), NEW s, s = StartOf(d)
  PROVE  Starts(s, d)
  <1>1. PICK y, m : y = FromFour(d, 1) /\ m = FromTwo(d, 5)
    BY Zenon
  <1>2. (\A i \in 1 .. 4 : is_digit(d[i], 0, 9)) /\ is_digit(d[5], 0, 9) /\ is_digit(d[6], 0, 9)
    BY Zenon DEF Dated
  <1>3. /\ y \in Years /\ d[1] = Tens(High(y)) + 48 /\ d[2] = Ones(High(y)) + 48
        /\ d[3] = Tens(Low(y)) + 48 /\ d[4] = Ones(Low(y)) + 48
    BY <1>1, <1>2, FourRead
  <1>4. PICK i, j : i = 5 /\ j = 6 /\ j = i + 1
    OBVIOUS
  <1>5. Spells(d, i, j, m) /\ Writes(m, d[i], d[j])
    <2>1. is_digit(d[i], 0, 9) /\ is_digit(d[j], 0, 9) /\ j = i + 1 /\ m = FromTwo(d, i)
      BY <1>1, <1>2, <1>4, Zenon
    <2> QED
      BY <2>1, PairRead, Zenon
  <1>6. PICK u, v : u = d[5] /\ v = d[6]
    BY Zenon
  <1>7. u \in Int /\ v \in Int
    BY <1>2, <1>6 DEF is_digit
  <1>8. PICK f, k : f = Four(y) /\ k = 4
    BY Zenon
  <1>9. /\ f \in Seq(Int) /\ k = Len(f)
        /\ f[1] = d[1] /\ f[2] = d[2] /\ f[3] = d[3] /\ f[4] = d[4]
    BY <1>3, <1>8, FourBytes, Zenon
  <1>10. s = f \o <<u, v>>
    BY <1>1, <1>4, <1>5, <1>6, <1>8, Zenon DEF Writes, StartOf
  <1>11. s \in Seq(Int) /\ Len(s) = k + 2 /\ s[k + 1] = u /\ s[k + 2] = v /\ \A n \in 1 .. k : s[n] = f[n]
    <2>1. f \in Seq(Int) /\ k = Len(f)
      BY <1>9, Zenon
    <2> QED
      BY <1>7, <1>10, <2>1, JoinTwo
  <1>12. /\ s \in Seq(Int) /\ Len(s) = 6 /\ s[5] = u /\ s[6] = v
         /\ s[1] = f[1] /\ s[2] = f[2] /\ s[3] = f[3] /\ s[4] = f[4]
    BY <1>8, <1>11
  <1> QED
    BY <1>6, <1>9, <1>12, Zenon DEF Starts

\* Two bytes behind the year and the month complete the bytes that were read.
LEMMA EightRead ==
  ASSUME NEW d \in Seq(Int), Len(d) = 8, NEW s, Starts(s, d), NEW r, r = s \o <<d[7], d[8]>>
  PROVE  r = d
  <1>1. PICK x, z : x = d[7] /\ z = d[8]
    BY Zenon
  <1>2. x \in Int /\ z \in Int
    <2>1. 7 \in 1 .. Len(d) /\ 8 \in 1 .. Len(d)
      BY SMT
    <2> QED
      BY <1>1, <2>1, ElementOfSeq, Zenon
  <1>3. PICK k : k = 6
    OBVIOUS
  <1>4. /\ s \in Seq(Int) /\ k = Len(s)
        /\ s[1] = d[1] /\ s[2] = d[2] /\ s[3] = d[3] /\ s[4] = d[4] /\ s[5] = d[5] /\ s[6] = d[6]
    BY <1>3, Zenon DEF Starts
  <1>5. r \in Seq(Int) /\ Len(r) = k + 2 /\ r[k + 1] = x /\ r[k + 2] = z /\ \A i \in 1 .. k : r[i] = s[i]
    <2>1. r = s \o <<x, z>>
      BY <1>1, Zenon
    <2>2. s \in Seq(Int) /\ k = Len(s)
      BY <1>4, Zenon
    <2> QED
      BY <1>2, <2>1, <2>2, JoinTwo, SMTT(20)
  <1>6. /\ Len(r) = 8 /\ r[7] = x /\ r[8] = z
        /\ r[1] = s[1] /\ r[2] = s[2] /\ r[3] = s[3] /\ r[4] = s[4] /\ r[5] = s[5] /\ r[6] = s[6]
    BY <1>3, <1>5, SMTT(20)
  <1>7. \A i \in 1 .. 8 : i = 1 \/ i = 2 \/ i = 3 \/ i = 4 \/ i = 5 \/ i = 6 \/ i = 7 \/ i = 8
    OBVIOUS
  <1>8. \A i \in 1 .. 8 : r[i] = d[i]
    <2>1. r[1] = d[1] /\ r[2] = d[2] /\ r[3] = d[3] /\ r[4] = d[4]
      BY <1>4, <1>6, Zenon
    <2>2. r[5] = d[5] /\ r[6] = d[6] /\ r[7] = d[7] /\ r[8] = d[8]
      BY <1>1, <1>4, <1>6, Zenon
    <2> QED
      BY <1>7, <2>1, <2>2, ZenonT(30)
  <1> QED
    BY <1>5, <1>6, <1>8, SeqEqual, ZenonT(30)

\* Nothing but the canonical form of a date is accepted: the bytes that
\* deserialize of date.rs takes for a date are those that date is written
\* with, so a date that is stored and sent again has the bytes it came with.
THEOREM DatesAreCanonical ==
  \A d \in Seq(Int) : date_deserialize(d).ok => to_yyyymmdd(date_deserialize(d)) = d
  <1> SUFFICES ASSUME NEW d \in Seq(Int), date_deserialize(d).ok
               PROVE  to_yyyymmdd(date_deserialize(d)) = d
    OBVIOUS
  <1>1. ~Error.ok
    BY DEF Error
  <1>2. PICK y, m, e : y = FromFour(d, 1) /\ m = FromTwo(d, 5) /\ e = FromTwo(d, 7)
    OBVIOUS
  <1>3. Len(d) = 8 /\ AllDigits(d, 1 .. 8) /\ date_deserialize(d) = date_lossy(d)
    BY <1>1, Zenon DEF date_deserialize
  <1>4. date_deserialize(d) = Date(y, m, e)
    BY <1>2, <1>3, Zenon DEF date_lossy
  <1>5. date_deserialize(d) = [ok |-> TRUE, year |-> y, month |-> m, day |-> e]
    BY <1>4, DateIs, Zenon
  <1>6. Dated(d) /\ is_digit(d[7], 0, 9) /\ is_digit(d[8], 0, 9)
    BY <1>3 DEF AllDigits, Dated
  <1>7. PICK s : s = Four(y) \o Two(m)
    BY Zenon
  <1>8. Starts(s, d)
    <2>1. s = StartOf(d)
      BY <1>2, <1>7, Zenon DEF StartOf
    <2> QED
      BY <1>6, <2>1, SixRead, Zenon
  <1>9. Writes(e, d[7], d[8])
    <2>1. PICK i, j : i = 7 /\ j = 8 /\ j = i + 1
      OBVIOUS
    <2>2. is_digit(d[i], 0, 9) /\ is_digit(d[j], 0, 9) /\ j = i + 1 /\ e = FromTwo(d, i)
      BY <1>2, <1>6, <2>1, Zenon
    <2> QED
      BY <2>1, <2>2, PairRead, Zenon
  <1>10. to_yyyymmdd(date_deserialize(d)) = s \o <<d[7], d[8]>>
    <2>1. to_yyyymmdd(date_deserialize(d)) = Four(y) \o Two(m) \o Two(e)
      BY <1>5 DEF to_yyyymmdd
    <2> QED
      BY <1>7, <1>9, <2>1, Zenon DEF Writes
  <1> QED
    BY <1>3, <1>8, <1>10, EightRead, Zenon

\* A month and year is accepted in one form only, with a day or with a week:
\* the bytes that validate of monthyear.rs lets pass are those the value is
\* written with (to_yyyymmww), months and days of zero included.
THEOREM MonthsAreCanonical ==
  \A d \in Seq(Int) : monthyear_deserialize(d).ok => to_yyyymmww(monthyear_deserialize(d)) = d
  <1> SUFFICES ASSUME NEW d \in Seq(Int), monthyear_deserialize(d).ok
               PROVE  to_yyyymmww(monthyear_deserialize(d)) = d
    OBVIOUS
  <1>1. ~Error.ok
    BY DEF Error
  <1>2. validate(d) /\ monthyear_deserialize(d) = monthyear_lossy(d)
    BY <1>1, Zenon DEF monthyear_deserialize
  <1>3. /\ Len(d) = 8 /\ AllDigits(d, 1 .. 4)
        /\ \/ d[5] = 48 /\ is_digit(d[6], 0, 9)
           \/ d[5] = 49 /\ is_digit(d[6], 0, 2)
        /\ \/ d[7] = LetterW /\ is_digit(d[8], 1, 5)
           \/ is_digit(d[7], 0, 2) /\ is_digit(d[8], 0, 9)
           \/ d[7] = 51 /\ is_digit(d[8], 0, 1)
    BY <1>2, Zenon DEF validate
  <1>4. Dated(d)
    <2>1. is_digit(d[5], 0, 9) /\ is_digit(d[6], 0, 9)
      BY <1>3, SMT DEF is_digit
    <2> QED
      BY <1>3, <2>1, Zenon DEF Dated, AllDigits
  <1>5. PICK y, m, v : y = FromFour(d, 1) /\ m = FromTwo(d, 5) /\ v = monthyear_lossy(d)
    BY Zenon
  <1>6. PICK s : s = Four(y) \o Two(m)
    BY Zenon
  <1>7. Starts(s, d)
    <2>1. s = StartOf(d)
      BY <1>5, <1>6, Zenon DEF StartOf
    <2> QED
      BY <1>4, <2>1, SixRead, Zenon
  <1>8. v.year = y /\ v.month = m /\ v.week = (d[7] = LetterW)
        /\ v.day_or_week = IF d[7] = LetterW THEN d[8] - 48 ELSE FromTwo(d, 7)
    BY <1>5 DEF monthyear_lossy
  <1>9. CASE d[7] = LetterW
    <2>1. d[8] - 48 + 48 = d[8]
      <3>1. 8 \in 1 .. Len(d)
        BY <1>3, SMT
      <3>2. d[8] \in Int
        BY <3>1, ElementOfSeq, Zenon
      <3> QED
        BY <3>2, SMT
    <2>2. to_yyyymmww(v) = s \o <<LetterW, d[8] - 48 + 48>>
      BY <1>6, <1>8, <1>9, Zenon DEF to_yyyymmww, digit_to_ascii
    <2>3. to_yyyymmww(v) = s \o <<d[7], d[8]>>
      BY <1>9, <2>1, <2>2, Zenon
    <2> QED
      BY <1>2, <1>3, <1>5, <1>7, <2>3, EightRead, Zenon
  <1>10. CASE d[7] # LetterW
    <2>1. PICK i, j, e : i = 7 /\ j = 8 /\ j = i + 1 /\ e = FromTwo(d, 7)
      OBVIOUS
    <2>2. is_digit(d[7], 0, 9) /\ is_digit(d[8], 0, 9)
      BY <1>3, <1>10, SMT DEF is_digit
    <2>3. is_digit(d[i], 0, 9) /\ is_digit(d[j], 0, 9) /\ j = i + 1 /\ e = FromTwo(d, i)
      BY <2>1, <2>2, Zenon
    <2>4. Writes(e, d[7], d[8])
      BY <2>1, <2>3, PairRead, Zenon
    <2>5. to_yyyymmww(v) = s \o Two(e)
      BY <1>6, <1>8, <1>10, <2>1, Zenon DEF to_yyyymmww
    <2>6. to_yyyymmww(v) = s \o <<d[7], d[8]>>
      BY <2>4, <2>5, Zenon DEF Writes
    <2> QED
      BY <1>2, <1>3, <1>5, <1>7, <2>6, EightRead, Zenon
  <1> QED
    BY <1>9, <1>10, Zenon

CheckSums == [ok : {TRUE}, sum : 0 .. 255]

\* Every checksum is read as it was written: three digits (to_bytes,
\* deserialize and deserialize_lossy of checksum.rs).
THEOREM CheckSumsReadBack ==
  \A v \in CheckSums :
      checksum_deserialize(checksum_to_bytes(v)) = v /\ checksum_lossy(checksum_to_bytes(v)) = v
  <1> SUFFICES ASSUME NEW v \in CheckSums
               PROVE  checksum_deserialize(checksum_to_bytes(v)) = v /\ checksum_lossy(checksum_to_bytes(v)) = v
    OBVIOUS
  <1>1. PICK n \in 0 .. 255 : v = [ok |-> TRUE, sum |-> n]
    BY Zenon DEF CheckSums
  <1>2. n \in Millis /\ n % 256 = n
    BY DEF Millis
  <1>3. PICK r : r = Three(n)
    OBVIOUS
  <1>4. checksum_to_bytes(v) = r
    BY <1>1, <1>3 DEF checksum_to_bytes
  <1>5. Len(r) = 3 /\ r[1] = High(n) + 48 /\ r[2] = Tens(Low(n)) + 48 /\ r[3] = Ones(Low(n)) + 48
    BY <1>2, <1>3, ThreeBytes, SMTT(20)
  <1>6. FromThree(r, 1) = n /\ is_digit(r[1], 0, 9) /\ is_digit(r[2], 0, 9) /\ is_digit(r[3], 0, 9)
    BY <1>2, <1>5, 2 = 1 + 1, 3 = 2 + 1, ReadThree
  <1>7. \A i \in 1 .. 3 : i = 1 \/ i = 2 \/ i = 3
    OBVIOUS
  <1>8. AllDigits(r, 1 .. 3)
    BY <1>6, <1>7, Zenon DEF AllDigits
  <1>9. checksum_from_digits(r) = v
    BY <1>1, <1>2, <1>6, Zenon DEF checksum_from_digits, CheckSum
  <1> QED
    BY <1>4, <1>5, <1>8, <1>9, Zenon DEF checksum_deserialize, checksum_lossy

\* What is accepted is a date, a time.
LEMMA Accepted ==
  ASSUME NEW d
  PROVE  (date_deserialize(d).ok => date_deserialize(d) \in Dates) /\ (time_deserialize(d).ok => time_deserialize(d) \in DayTimes)
  <1>1. ~Error.ok
    BY DEF Error
  <1>2. ASSUME date_deserialize(d).ok PROVE date_deserialize(d) \in Dates
    <2>1. PICK y, m, e : date_deserialize(d) = Date(y, m, e)
      BY <1>1, <1>2, Zenon DEF date_deserialize, date_lossy
    <2>2. y \in Years /\ m \in Upto(1, 12) /\ e \in Upto(1, 31)
      BY <1>2, <2>1, DateIs, Zenon
    <2>3. date_deserialize(d) = [ok |-> TRUE, year |-> y, month |-> m, day |-> e]
      BY <2>1, <2>2, DateIs, Zenon
    <2> QED
      BY <2>2, <2>3 DEF Dates
  <1>3. ASSUME time_deserialize(d).ok PROVE time_deserialize(d) \in DayTimes
    <2>1. PICK h, min, s, l : time_deserialize(d) = from_hmsm(h, min, s, l)
      BY <1>1, <1>3, Zenon DEF time_deserialize
    <2>2. h \in Hour /\ min \in Minute /\ s \in Second /\ l \in Millis
      BY <1>1, <1>3, <2>1, TimeIs, Zenon
    <2>3. time_deserialize(d) = [ok |-> TRUE, hour |-> h, minute |-> min, second |-> s, milli |-> l]
      BY <2>1, <2>2, TimeIs, Zenon
    <2> QED
      BY <2>2, <2>3 DEF DayTimes
  <1> QED
    BY <1>2, <1>3, Zenon

\* Whatever bytes are accepted as a time or a timestamp, with or
\* without milliseconds, writing the value read and reading it again gives that
\* value, although other bytes may have been read (the digits of the
\* milliseconds are not checked): a message stored and sent again says what it
\* said.
THEOREM TimesKeepValue ==
  ASSUME NEW d
  PROVE  /\ time_deserialize(d).ok =>
                time_deserialize(time_to_bytes(time_deserialize(d))) = time_deserialize(d)
         /\ timestamp_parse(d).ok =>
                timestamp_parse(timestamp_to_bytes(timestamp_parse(d))) = timestamp_parse(d)
  <1>1. ~Error.ok
    BY DEF Error
  <1>2. time_deserialize(d).ok => time_deserialize(time_to_bytes(time_deserialize(d))) = time_deserialize(d)
    BY Accepted, FieldsReadBack, Zenon
  <1>3. ASSUME timestamp_parse(d).ok PROVE timestamp_parse(d) \in Timestamps
    <2>1. PICK v, w : /\ v = date_deserialize(SubSeq(d, 1, 8)) /\ w = time_deserialize(From(d, 10))
                      /\ timestamp_parse(d) = IF Len(d) < 12 \/ d[9] # Hyphen THEN Error
                                              ELSE IF v.ok /\ w.ok THEN Timestamp(v, w) ELSE Error
      BY Zenon DEF timestamp_parse
    <2>2. v.ok /\ w.ok /\ timestamp_parse(d) = Timestamp(v, w)
      BY <1>1, <1>3, <2>1, Zenon
    <2>3. v \in Dates /\ w \in DayTimes
      BY <2>1, <2>2, Accepted, Zenon
    <2> QED
      BY <2>2, <2>3 DEF Timestamp, Timestamps
  <1> QED
    BY <1>2, <1>3, FieldsReadBack, Zenon

Length(hour, min) == SecondsOfHour * hour + 60 * min
OffsetOf(sign, hour, min) == sign * Length(hour, min)
HoursAndMinutes(n, hour, min) ==
    n \in Nat /\ n \div SecondsOfHour = hour /\ (n % SecondsOfHour) \div 60 = min
Offsets ==
    {v \in [ok : {TRUE}, offset : Int] :
        \E sign \in {1, -1}, hour \in Pairs, min \in Minute : v.offset = OffsetOf(sign, hour, min)}

\* The hours and minutes of an offset, whatever its sign.
LEMMA OffsetParts ==
  ASSUME NEW h \in Pairs, NEW min \in Minute, NEW n, n = Length(h, min)
  PROVE  HoursAndMinutes(n, h, min)
  <1>1. PICK a, b \in Nat \ {0} : a = 60 /\ b = SecondsOfHour /\ b = a * a
    BY SMT DEF SecondsOfHour
  <1>2. min \in 0 .. a - 1 /\ 0 \in 0 .. a - 1 /\ min \in Int /\ h \in Nat
    BY <1>1, SMT DEF Minute, Pairs
  <1>3. PICK x \in 0 .. b - 1 : x = min * a + 0
    <2>1. min * a \in Nat /\ b = (a - 1) * a + a /\ min * a <= (a - 1) * a
      BY <1>1, <1>2, SMT
    <2>2. min * a + 0 \in 0 .. b - 1
      BY <1>2, <2>1, SMT
    <2> QED
      BY <2>2, Zenon
  <1>4. n = h * b + x /\ n \in Nat
    <2>1. n = b * h + a * min
      BY <1>1, Zenon DEF Length
    <2> QED
      BY <1>2, <1>3, <2>1, SMT
  <1>5. n \div b = h /\ n % b = x
    <2>1. h \in Int
      BY <1>2
    <2> QED
      BY <1>4, <2>1, DivisionOnce, Zenon
  <1>6. x \div a = min
    BY <1>2, <1>3, DivisionOnce, Zenon
  <1> QED
    BY <1>1, <1>4, <1>5, <1>6, Zenon DEF HoursAndMinutes

\* No digit of a number below a hundred wraps.
LEMMA NoDigitWraps ==
  ASSUME NEW n \in Pairs
  PROVE  u32_two(n) = Two(n)
  <1>1. ASSUME NEW x \in Digits PROVE u32_digit_to_ascii(x) = x + 48
    BY DEF Digits, u32_digit_to_ascii
  <1>2. Tens(n) \in Digits /\ Ones(n) \in Digits
    BY TwoDigits
  <1>3. u32_digit_to_ascii(Tens(n)) = Tens(n) + 48 /\ u32_digit_to_ascii(Ones(n)) = Ones(n) + 48
    BY <1>1, <1>2
  <1> QED
    BY <1>3, Zenon DEF u32_two, Two, digit_to_ascii, Tens, Ones

SpellsOffset(r, c, h, min) ==
    /\ r \in Seq(Int) /\ r # << >> /\ r[1] = c /\ FromTwo(r, 2) = h
    /\ Len(r) = (IF min = 0 THEN 3 ELSE 6)
    /\ min # 0 => FromTwo(r, 5) = min

OffsetBytes(c, h, min) ==
    <<c>> \o Two(h) \o (IF min # 0 THEN <<Colon>> \o Two(min) ELSE << >>)

\* A sign and hours, or a sign, hours and minutes.
LEMMA OffsetSpelled ==
  ASSUME NEW c \in Int, NEW h \in Pairs, NEW min \in Pairs, NEW r, r = OffsetBytes(c, h, min)
  PROVE  SpellsOffset(r, c, h, min)
  <1>1. PICK s, k : s = <<c>> /\ k = 1
    BY Zenon
  <1>2. s \in Seq(Int) /\ k = Len(s) /\ s[1] = c
    BY <1>1
  <1>3. PICK x, y \in Int : x = Tens(h) + 48 /\ y = Ones(h) + 48 /\ Two(h) = <<x, y>>
    BY TwoTuple
  <1>4. PICK t, m : t = s \o <<x, y>> /\ m = 3
    BY Zenon
  <1>5. t \in Seq(Int) /\ Len(t) = k + 2 /\ t[k + 1] = x /\ t[k + 2] = y /\ \A i \in 1 .. k : t[i] = s[i]
    BY <1>2, <1>4, JoinTwo
  <1>6. t \in Seq(Int) /\ Len(t) = m /\ t[1] = c /\ t[2] = x /\ t[3] = y
    BY <1>1, <1>2, <1>4, <1>5
  <1>7. r = t \o (IF min # 0 THEN <<Colon>> \o Two(min) ELSE << >>)
    BY <1>1, <1>3, <1>4, Zenon DEF OffsetBytes
  <1>8. CASE min = 0
    <2>1. r = t
      <3>1. r = t \o << >>
        BY <1>7, <1>8, Zenon
      <3> QED
        BY <1>6, <3>1, ConcatEmptySeq, Zenon
    <2>2. FromTwo(r, 2) = h
      BY <1>3, <1>6, <2>1, 3 = 2 + 1, ReadTwo, Zenon
    <2>3. r # << >>
      BY <1>4, <1>6, <2>1
    <2> QED
      BY <1>4, <1>6, <1>8, <2>1, <2>2, <2>3, Zenon DEF SpellsOffset
  <1>9. CASE min # 0
    <2>1. PICK p, u : p = Colon /\ u = <<p>>
      BY Zenon
    <2>2. p \in Int
      BY <2>1 DEF Colon
    <2>3. u \in Seq(Int) /\ k = Len(u) /\ u[1] = p
      BY <1>1, <2>1, <2>2
    <2>4. PICK w, z \in Int : w = Tens(min) + 48 /\ z = Ones(min) + 48 /\ Two(min) = <<w, z>>
      BY TwoTuple
    <2>5. PICK q : q = u \o <<w, z>>
      BY Zenon
    <2>6. q \in Seq(Int) /\ Len(q) = k + 2 /\ q[k + 1] = w /\ q[k + 2] = z /\ \A i \in 1 .. k : q[i] = u[i]
      BY <2>3, <2>5, JoinTwo
    <2>7. q \in Seq(Int) /\ Len(q) = 3 /\ q[2] = w /\ q[3] = z
      BY <1>1, <2>6
    <2>8. r = t \o q
      BY <1>7, <1>9, <2>1, <2>4, <2>5, Zenon
    <2>9. AfterThree(r, t, m, q)
      BY <1>6, <2>7, <2>8, JoinThree, Zenon
    <2>14. /\ r \in Seq(Int) /\ Len(r) = m + 3 /\ r[m + 2] = w /\ r[m + 3] = z
           /\ \A i \in 1 .. m : r[i] = t[i]
      BY <2>7, <2>9, Zenon DEF AfterThree
    <2>10. /\ r \in Seq(Int) /\ Len(r) = 6 /\ r[5] = w /\ r[6] = z
           /\ r[1] = c /\ r[2] = x /\ r[3] = y
      BY <1>4, <1>6, <2>14, SMTT(20)
    <2>11. FromTwo(r, 2) = h
      BY <1>3, <2>10, 3 = 2 + 1, ReadTwo
    <2>12. FromTwo(r, 5) = min
      BY <2>4, <2>10, 6 = 5 + 1, ReadTwo, SMTT(20)
    <2>13. r # << >>
      BY <2>10
    <2> QED
      BY <1>9, <2>10, <2>11, <2>12, <2>13, Zenon DEF SpellsOffset
  <1> QED
    BY <1>8, <1>9, Zenon

\* What is spelled is read, with the sign that the first byte stands for.
LEMMA OffsetRead ==
  ASSUME NEW r, NEW c, NEW h \in Pairs, NEW min \in Minute, NEW sign \in {1, -1}, SpellsOffset(r, c, h, min)
  PROVE  tz_offset(r, sign) = Tz(OffsetOf(sign, h, min))
  <1>1. PICK b \in Nat : b = SecondsOfHour
    BY SMT DEF SecondsOfHour
  <1>2. h \in Int /\ min \in Int /\ FromTwo(r, 2) = h /\ (min # 0 => FromTwo(r, 5) = min)
    BY DEF SpellsOffset, Pairs, Minute
  <1>3. CASE min = 0
    <2>1. Len(r) = 3
      BY <1>3, Zenon DEF SpellsOffset
    <2>2. tz_offset(r, sign) = Tz(sign * (h * b))
      BY <1>1, <1>2, <2>1 DEF tz_offset
    <2>3. h * b = b * h + 60 * min
      BY <1>2, <1>3, SMT
    <2> QED
      BY <1>1, <2>2, <2>3, Zenon DEF OffsetOf, Length
  <1>4. CASE min # 0
    <2>1. Len(r) = 6 /\ Len(r) # 3
      BY <1>4 DEF SpellsOffset
    <2>2. tz_offset(r, sign) = Tz(sign * (h * b + min * 60))
      BY <1>1, <1>2, <1>4, <2>1 DEF tz_offset
    <2>3. h * b + min * 60 = b * h + 60 * min
      BY <1>2, SMT
    <2> QED
      BY <1>1, <2>2, <2>3, Zenon DEF OffsetOf, Length
  <1> QED
    BY <1>3, <1>4, Zenon

\* Every offset from UTC of whole minutes, below a hundred hours, is read as it
\* was written: Z, with hours or with hours and minutes, a negative one of
\* less than an hour included (serialize_with, deserialize and
\* deserialize_lossy of tz.rs).
THEOREM OffsetsReadBack ==
  \A v \in Offsets : tz_deserialize(tz_to_bytes(v)) = v /\ tz_lossy(tz_to_bytes(v)) = v
  <1> SUFFICES ASSUME NEW v \in Offsets
               PROVE  tz_deserialize(tz_to_bytes(v)) = v /\ tz_lossy(tz_to_bytes(v)) = v
    OBVIOUS
  <1>0. PICK sign \in {1, -1}, h \in Pairs, min \in Minute : v.offset = OffsetOf(sign, h, min)
    BY Zenon DEF Offsets
  <1>1. v = Tz(OffsetOf(sign, h, min))
    BY <1>0, Zenon DEF Offsets, Tz
  <1>2. PICK n, o : n = Length(h, min) /\ o = OffsetOf(sign, h, min)
    BY Zenon
  <1>3. n \in Nat /\ n \div SecondsOfHour = h /\ (n % SecondsOfHour) \div 60 = min
    <2>1. HoursAndMinutes(n, h, min)
      BY <1>2, OffsetParts, Zenon
    <2> QED
      BY <2>1, Zenon DEF HoursAndMinutes
  <1>4. o = sign * n /\ v.offset = o
    BY <1>0, <1>2, Zenon DEF OffsetOf
  <1>5. PICK r : r = tz_to_bytes(v)
    BY Zenon
  <1>6. Abs(o) = n /\ o \in Int /\ (o = 0 <=> n = 0) /\ (n # 0 => (o > 0 <=> sign = 1))
    BY <1>3, <1>4 DEF Abs
  <1>7. CASE o = 0
    <2>1. r = <<LetterZ>> /\ v = Tz(0)
      BY <1>1, <1>2, <1>4, <1>5, <1>7, Zenon DEF tz_to_bytes
    <2>2. Len(r) = 1 /\ r # << >> /\ r[1] = LetterZ
      BY <2>1
    <2>3. tz_lossy(r) = Tz(0)
      BY <2>2, Zenon DEF tz_lossy
    <2>4. tz_deserialize(r) = Tz(0)
      BY <2>2 DEF tz_deserialize, LetterZ, Plus, Hyphen
    <2> QED
      BY <1>5, <2>1, <2>3, <2>4, Zenon
  <1>8. CASE o # 0
    <2>1. PICK c : c = IF o > 0 THEN Plus ELSE Hyphen
      BY Zenon
    <2>2. r = OffsetBytes(c, h, min)
      <3>1. min \in Pairs
        BY DEF Minute, Pairs
      <3>2. u32_two(h) = Two(h) /\ u32_two(min) = Two(min)
        BY <3>1, NoDigitWraps
      <3> QED
        BY <1>3, <1>4, <1>5, <1>6, <1>8, <2>1, <3>2, Zenon DEF tz_to_bytes, OffsetBytes
    <2>3. c \in Int /\ c # LetterZ /\ (sign = 1 => c = Plus) /\ (sign = -1 => c = Hyphen) /\ Plus # Hyphen
      BY <1>6, <1>8, <2>1 DEF Plus, Hyphen, LetterZ
    <2>4. min \in Pairs
      BY DEF Minute, Pairs
    <2>5. SpellsOffset(r, c, h, min)
      BY <2>2, <2>3, <2>4, OffsetSpelled, Zenon
    <2>6. tz_offset(r, sign) = v
      BY <1>1, <2>5, OffsetRead, Zenon
    <2>7. r # << >> /\ r[1] = c /\ Len(r) # 1
      BY <2>5 DEF SpellsOffset
    <2>8. tz_deserialize(r) = tz_offset(r, sign)
      BY <2>3, <2>7 DEF tz_deserialize
    <2>9. tz_lossy(r) = tz_offset(r, sign)
      BY <2>3, <2>7 DEF tz_lossy
    <2> QED
      BY <1>5, <2>6, <2>8, <2>9, Zenon
  <1> QED
    BY <1>7, <1>8, Zenon
=============================================================================
