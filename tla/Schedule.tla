------------------------------ MODULE Schedule ------------------------------
(***************************************************************************)
(* The session schedule: when a session may be up, and whether the store   *)
(* belongs to the session period the clock is in.                          *)
(*                                                                         *)
(* Instants, local times and times of day are counted in ticks; a day has  *)
(* Day of them and a week has Week days, where the code has 86400 seconds  *)
(* and 7 days.  A time zone has one offset before the instant "at" and     *)
(* another one from then on: a clock put forward leaves local times out,   *)
(* a clock put back has some twice.                                        *)
(***************************************************************************)
EXTENDS Integers

CONSTANTS Day, Week,    \* ticks in a day, days in a week
          Timezones,    \* records [before, after, at]
          FirstTick,    \* bound: the earliest creation time
          Horizon       \* bound: how far the clock runs on from there

VARIABLES schedule,         \* of the session
          creation_time,    \* of the message store
          now,
          unbroken          \* history: the schedule was active all the time
                            \* from creation_time to now

svars == <<schedule, creation_time, now, unbroken>>

None == -1                  \* an option that is not set
UTC == [before |-> 0, after |-> 0, at |-> 0]
NoTimezone == [before |-> 0, after |-> 0, at |-> None]
Times == 0 .. Day - 1
Weekdays == 0 .. Week - 1

\* The clock is past the epoch; no change of the clocks is longer than a day.
ASSUME ScheduleAssumption ==
    /\ Day \in Nat \ {0} /\ Week \in Nat \ {0} /\ FirstTick \in Nat /\ Horizon \in Nat
    /\ Timezones \subseteq [before : Int, after : Int, at : Int]
    /\ \A tz \in Timezones : tz.before - tz.after <= Day /\ tz.after - tz.before <= Day

offset(t, tz) == IF t < tz.at THEN tz.before ELSE tz.after
with_timezone(t, tz) == t + offset(t, tz)
time(l) == l % Day
date_naive(l) == l \div Day
weekday(l) == date_naive(l) % Week

-----------------------------------------------------------------------------
(* From the configuration. *)

ScheduleConfig ==
    [start_time : Times \cup {None}, end_time : Times \cup {None},
     start_day : Weekdays \cup {None}, end_day : Weekdays \cup {None},
     weekdays : SUBSET Weekdays, timezone : Timezones \cup {NoTimezone}]

NonStop == [kind |-> "NonStop"]
InvalidSchedule == [kind |-> "InvalidSchedule"]
unwrap_or(tz) == IF tz = NoTimezone THEN UTC ELSE tz

daily_or_weekdays(c) ==
    IF c.start_time = c.end_time
    THEN IF c.weekdays = {} THEN NonStop ELSE InvalidSchedule
    ELSE [kind |-> IF c.weekdays = {} THEN "Daily" ELSE "Weekdays",
          start_time |-> c.start_time, end_time |-> c.end_time,
          weekdays |-> c.weekdays, timezone |-> unwrap_or(c.timezone)]

weekly(c) ==
    CASE c.weekdays # {} -> InvalidSchedule
      [] c.weekdays = {} /\ c.start_day = c.end_day /\ c.start_time < c.end_time -> InvalidSchedule
      [] c.weekdays = {} /\ c.start_day = c.end_day /\ c.start_time = c.end_time -> NonStop
      [] OTHER -> [kind |-> "Weekly", start_day |-> c.start_day, start_time |-> c.start_time,
                   end_day |-> c.end_day, end_time |-> c.end_time,
                   timezone |-> unwrap_or(c.timezone)]

try_from(c) ==
    LET set(x) == x # None
    IN  CASE ~set(c.start_time) /\ ~set(c.end_time) /\ ~set(c.start_day) /\ ~set(c.end_day)
               /\ c.weekdays = {} /\ c.timezone = NoTimezone -> NonStop
          [] set(c.start_time) /\ set(c.end_time) /\ ~set(c.start_day) /\ ~set(c.end_day) ->
               daily_or_weekdays(c)
          [] set(c.start_time) /\ set(c.end_time) /\ set(c.start_day) /\ set(c.end_day) ->
               weekly(c)
          [] OTHER -> InvalidSchedule

-----------------------------------------------------------------------------
(* Is the session inside its hours? *)

\* Mutant: a session that spans midnight is taken for one that does not.
check_daily_schedule_no_wrap(l, s) == s.start_time <= time(l) /\ time(l) < s.end_time

check_daily_schedule(l, s) ==
    IF s.start_time < s.end_time
    THEN s.start_time <= time(l) /\ time(l) < s.end_time
    ELSE s.start_time <= time(l) \/ time(l) < s.end_time

\* A session that spans midnight belongs to the day it starts on.
check_weekdays_schedule(l, s) ==
    IF s.start_time < s.end_time
    THEN weekday(l) \in s.weekdays /\ s.start_time <= time(l) /\ time(l) < s.end_time
    ELSE /\ ~(s.end_time <= time(l) /\ time(l) < s.start_time)
         /\ (IF time(l) >= s.start_time THEN weekday(l) ELSE (weekday(l) + Week - 1) % Week)
               \in s.weekdays

weekly_seconds(day, t) == day * Day + t

check_weekly_schedule(l, s) ==
    LET start_pos == weekly_seconds(s.start_day, s.start_time)
        end_pos == weekly_seconds(s.end_day, s.end_time)
        now_pos == weekly_seconds(weekday(l), time(l))
    IN  IF start_pos < end_pos
        THEN start_pos <= now_pos /\ now_pos < end_pos
        ELSE now_pos >= start_pos \/ now_pos < end_pos

check_schedule(s, l) ==
    \/ s.kind = "Daily" /\ check_daily_schedule(l, s)
    \/ s.kind = "Weekdays" /\ check_weekdays_schedule(l, s)
    \/ s.kind = "Weekly" /\ check_weekly_schedule(l, s)

is_active_at(s, t) == s.kind = "NonStop" \/ check_schedule(s, with_timezone(t, s.timezone))

-----------------------------------------------------------------------------
(* The bounds of the period an instant is in. *)

\* LocalResult::single: no instant is an error, and so are two.
single(instants) == IF \E u \in instants : instants = {u} THEN instants ELSE {}

\* Mutant: an instant is not checked to have the local time.
construct_utc_unchecked(date, t, tz) ==
    single({date * Day + t - tz.before, date * Day + t - tz.after})

\* The set of the only instant with this local time; it is empty for a local
\* time that does not exist, or exists twice.
construct_utc(date, t, tz) ==
    LET l == date * Day + t
    IN  single({u \in {l - tz.before, l - tz.after} : with_timezone(u, tz) = l})

\* The bounds, if there are both.
Bounds(starts, ends) == [start : starts, end : ends]

calculate_single_day_session_bounds(t, s) ==
    LET l == with_timezone(t, s.timezone)
        start_date == IF time(l) >= s.start_time THEN date_naive(l) ELSE date_naive(l) - 1
        end_date == IF time(l) >= s.start_time /\ s.end_time < s.start_time
                    THEN date_naive(l) + 1
                    ELSE date_naive(l)
    IN  Bounds(construct_utc(start_date, s.start_time, s.timezone),
               construct_utc(end_date, s.end_time, s.timezone))

\* Mutant: on the day the session starts it is always this week's.
weekly_bounds_this_week(t, s) ==
    LET l == with_timezone(t, s.timezone)
        days == (s.end_day - s.start_day) % Week
        session_duration == IF days = 0 /\ s.end_time <= s.start_time THEN Week ELSE days
        start_date == date_naive(l) - ((weekday(l) - s.start_day) % Week)
    IN  Bounds(construct_utc(start_date, s.start_time, s.timezone),
               construct_utc(start_date + session_duration, s.end_time, s.timezone))

calculate_weekly_session_bounds(t, s) ==
    LET l == with_timezone(t, s.timezone)
        since_start == (weekday(l) - s.start_day) % Week
        days_back == IF since_start = 0 /\ time(l) < s.start_time THEN Week ELSE since_start
        days == (s.end_day - s.start_day) % Week
        session_duration == IF days = 0 /\ s.end_time <= s.start_time THEN Week ELSE days
        start_date == date_naive(l) - days_back
    IN  Bounds(construct_utc(start_date, s.start_time, s.timezone),
               construct_utc(start_date + session_duration, s.end_time, s.timezone))

\* A period that never ends has bounds far outside the clock's range.
get_session_bounds(s, t) ==
    CASE s.kind = "NonStop" -> Bounds({0}, {FirstTick + Week * Day + Horizon + 1})
      [] s.kind = "Weekly" -> calculate_weekly_session_bounds(t, s)
      [] OTHER -> calculate_single_day_session_bounds(t, s)

is_same_session_period(s, dt1, dt2) ==
    LET first == is_active_at(s, dt1)
        second == is_active_at(s, dt2)
        bounds == get_session_bounds(s, dt1)
    IN  CASE ~first /\ ~second -> "OutsideBoth"
          [] ~first /\ second -> "OutsideFirst"
          [] first /\ ~second -> "OutsideSecond"
          [] first /\ second ->
               IF bounds = {} THEN "Error"
               ELSE IF \E b \in bounds : b.start <= dt2 /\ dt2 < b.end THEN "SamePeriod"
               ELSE "DifferentPeriod"

-----------------------------------------------------------------------------
(* The clock, and the session's check of it: handle_schedule_check. *)

SInit ==
    /\ schedule \in {try_from(c) : c \in ScheduleConfig} \ {InvalidSchedule}
    /\ creation_time \in FirstTick .. FirstTick + Week * Day - 1
    /\ now = creation_time
    /\ unbroken = is_active_at(schedule, now)

\* Local times that a clock put forward leaves out have passed as well.
Passed(s, t) ==
    LET tz == s.timezone
    IN  {with_timezone(t + 1, tz)} \cup (with_timezone(t, tz) .. with_timezone(t + 1, tz))

Tick ==
    /\ now < creation_time + Horizon
    /\ now' = now + 1
    /\ unbroken' = (unbroken /\ \/ schedule.kind = "NonStop"
                                \/ \A l \in Passed(schedule, now) : check_schedule(schedule, l))
    /\ UNCHANGED <<schedule, creation_time>>

\* A store of another period, or of no period, is reset.  Outside the hours
\* and after an error it is kept.
handle_schedule_check ==
    /\ is_active_at(schedule, now)
    /\ is_same_session_period(schedule, creation_time, now) \in {"DifferentPeriod", "OutsideFirst"}
    /\ creation_time < FirstTick + Week * Day     \* bound: one reset
    /\ creation_time' = now
    /\ unbroken' = TRUE
    /\ UNCHANGED <<schedule, now>>

SNext == Tick \/ handle_schedule_check

ScheduleSpec == SInit /\ [][SNext]_svars

(* Two instants are in the same session period exactly when the schedule   *)
(* was active at every local time between them, whichever of the two is    *)
(* given first: the store is kept while a session lasts, and never taken   *)
(* over from one session into the next.                                    *)
PeriodsAreActiveRuns ==
    \A answer \in {is_same_session_period(schedule, creation_time, now),
                   is_same_session_period(schedule, now, creation_time)} :
        answer # "Error" => (answer = "SamePeriod" <=> unbroken)

(* The comparison fails only around a change of the clocks: when they do   *)
(* not change within a week and a day of the store's creation, there is an *)
(* answer.  The day is for the change itself: the end of a period of a     *)
(* week comes twice if the clocks go back soon after it.                   *)
FailsOnlyAtClockChange ==
    is_same_session_period(schedule, creation_time, now) = "Error" =>
        \E t \in creation_time - (Week + 1) * Day .. creation_time + (Week + 1) * Day :
            offset(t, schedule.timezone) # offset(t + 1, schedule.timezone)

(* Every schedule that is accepted opens again: waiting for the next       *)
(* session does not last longer than two weeks, whatever the day, the      *)
(* hours and the changes of the clocks.                                    *)
OpensAgain == \E t \in now .. now + 2 * Week * Day : is_active_at(schedule, t)
=============================================================================
