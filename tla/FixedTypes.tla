----------------------------- MODULE FixedTypes -----------------------------
(***************************************************************************)
(* The field types that are written with a fixed number of digits: dates,  *)
(* times, timestamps, months, offsets from UTC, checksums; and Booleans.   *)
(*                                                                         *)
(* A byte is its ASCII code and a value is a record with ok = TRUE; bytes  *)
(* that cannot be read give Error.  The code computes with unsigned        *)
(* numbers that wrap (a release build; with overflow checks the same bytes *)
(* panic).  Here the same sums are integers: a negative one stands for the *)
(* very large number the code has, and no bound the code checks admits     *)
(* either.  The digits written are bytes of values in range, but for Tz.   *)
(***************************************************************************)
EXTENDS Integers, Sequences

Error == [ok |-> FALSE]
is_digit(b, low, high) == b \in 48 + low .. 48 + high
digit_to_ascii(n) == n + 48
u32_digit_to_ascii(n) == ((n % 256) + 48) % 256
ascii_digit_to_u32(b, multiplier) == (b - 48) * multiplier

Two(n) == <<digit_to_ascii(n \div 10), digit_to_ascii(n % 10)>>
u32_two(n) == <<u32_digit_to_ascii(n \div 10), u32_digit_to_ascii(n % 10)>>
Three(n) == <<digit_to_ascii(n \div 100)>> \o Two(n % 100)
Four(n) == Two(n \div 100) \o Two(n % 100)
FromTwo(d, i) == ascii_digit_to_u32(d[i], 10) + ascii_digit_to_u32(d[i + 1], 1)
FromThree(d, i) == ascii_digit_to_u32(d[i], 100) + FromTwo(d, i + 1)
FromFour(d, i) == ascii_digit_to_u32(d[i], 1000) + FromThree(d, i + 1)
AllDigits(d, places) == \A i \in places : is_digit(d[i], 0, 9)
From(d, i) == SubSeq(d, i, Len(d))

-----------------------------------------------------------------------------
(* Dates: YYYYMMDD, every month with 31 days. *)

Years == 0 .. 9999

Date(year, month, day) ==
    IF year \in Years /\ month \in 1 .. 12 /\ day \in 1 .. 31
    THEN [ok |-> TRUE, year |-> year, month |-> month, day |-> day]
    ELSE Error

to_yyyymmdd(v) == Four(v.year) \o Two(v.month) \o Two(v.day)

date_lossy(d) ==
    IF Len(d) = 8 THEN Date(FromFour(d, 1), FromTwo(d, 5), FromTwo(d, 7)) ELSE Error

\* Mutant: only the year is checked to be digits.
date_deserialize_year(d) ==
    IF Len(d) = 8 /\ AllDigits(d, 1 .. 4) THEN date_lossy(d) ELSE Error

date_deserialize(d) ==
    IF Len(d) = 8 /\ AllDigits(d, 1 .. 8) THEN date_lossy(d) ELSE Error

(* Times: HH:MM:SS, with or without .sss; written with.  The digits of the *)
(* milliseconds are not checked to be digits.                              *)

Millis == 0 .. 999

from_hmsm(hour, minute, second, milli) ==
    IF hour \in 0 .. 23 /\ minute \in 0 .. 59 /\ second \in 0 .. 60 /\ milli \in Millis
    THEN [ok |-> TRUE, hour |-> hour, minute |-> minute, second |-> second, milli |-> milli]
    ELSE Error

Colon == 58
Dot == 46
Hyphen == 45

time_to_bytes(v) ==
    Two(v.hour) \o <<Colon>> \o Two(v.minute) \o <<Colon>> \o Two(v.second)
        \o <<Dot>> \o Three(v.milli)

time_deserialize(d) ==
    IF \/ Len(d) \notin {8, 12}
       \/ Len(d) = 12 /\ d[9] # Dot
       \/ d[3] # Colon \/ d[6] # Colon \/ ~AllDigits(d, {1, 2, 4, 5, 7, 8})
    THEN Error
    ELSE from_hmsm(FromTwo(d, 1), FromTwo(d, 4), FromTwo(d, 7),
                   IF Len(d) = 12 THEN FromThree(d, 10) ELSE 0)

(* Timestamps: a date, a hyphen, a time. *)

Timestamp(date, time) == [ok |-> TRUE, date |-> date, time |-> time]

timestamp_to_bytes(v) == to_yyyymmdd(v.date) \o <<Hyphen>> \o time_to_bytes(v.time)

timestamp_parse(d) ==
    IF Len(d) < 12 \/ d[9] # Hyphen
    THEN Error
    ELSE LET date == date_deserialize(SubSeq(d, 1, 8))
             time == time_deserialize(From(d, 10))
         IN  IF date.ok /\ time.ok THEN Timestamp(date, time) ELSE Error

(* Instants of chrono, which the accuracy of SendingTime is checked on: a  *)
(* day of the calendar, a time of nanoseconds, no second 60.               *)

LeapYear(y) == y % 4 = 0 /\ (y % 100 = 0 => y % 400 = 0)

from_ymd_opt(y, m, d) ==
    IF d <= (CASE m = 2 -> IF LeapYear(y) THEN 29 ELSE 28
               [] m \in {4, 6, 9, 11} -> 30
               [] OTHER -> 31)
    THEN [ok |-> TRUE, y |-> y, m |-> m, d |-> d] ELSE Error

SecondsOfHour == 3600
NanosOfMilli == 1000000

from_hms_milli_opt(h, m, s, milli) ==
    IF s <= 59
    THEN [ok |-> TRUE, seconds |-> SecondsOfHour * h + 60 * m + s, nanosecond |-> NanosOfMilli * milli]
    ELSE Error

date_to_chrono_naive(v) == from_ymd_opt(v.year, v.month, v.day)

time_to_chrono_naive(v) == from_hms_milli_opt(v.hour, v.minute, v.second, v.milli)

timestamp_to_chrono_naive(v) ==
    IF date_to_chrono_naive(v.date).ok /\ time_to_chrono_naive(v.time).ok
    THEN [ok |-> TRUE, date |-> date_to_chrono_naive(v.date), time |-> time_to_chrono_naive(v.time)]
    ELSE Error

date_from_chrono(c) == [ok |-> TRUE, year |-> c.y, month |-> c.m, day |-> c.d]

time_from_chrono(c) ==
    [ok |-> TRUE, hour |-> c.seconds \div SecondsOfHour, minute |-> (c.seconds \div 60) % 60,
     second |-> c.seconds % 60, milli |-> c.nanosecond \div NanosOfMilli]

timestamp_from_chrono(c) == Timestamp(date_from_chrono(c.date), time_from_chrono(c.time))

(* Month and year: YYYYMM and a day or a week w1 to w5.  Month and day may *)
(* be zero.                                                                *)

LetterW == 119

to_yyyymmww(v) ==
    Four(v.year) \o Two(v.month)
        \o (IF v.week THEN <<LetterW, digit_to_ascii(v.day_or_week)>> ELSE Two(v.day_or_week))

validate(d) ==
    /\ Len(d) = 8
    /\ AllDigits(d, 1 .. 4)
    /\ \/ d[5] = 48 /\ is_digit(d[6], 0, 9)
       \/ d[5] = 49 /\ is_digit(d[6], 0, 2)
    /\ \/ d[7] = LetterW /\ is_digit(d[8], 1, 5)
       \/ is_digit(d[7], 0, 2) /\ is_digit(d[8], 0, 9)
       \/ d[7] = 51 /\ is_digit(d[8], 0, 1)

monthyear_lossy(d) ==
    [ok |-> TRUE, year |-> FromFour(d, 1), month |-> FromTwo(d, 5), week |-> d[7] = LetterW,
     day_or_week |-> IF d[7] = LetterW THEN d[8] - 48 ELSE FromTwo(d, 7)]

monthyear_deserialize(d) == IF validate(d) THEN monthyear_lossy(d) ELSE Error

(* Offsets from UTC: Z, +HH, -HH, +HH:MM.  Whatever follows a Z, and the   *)
(* byte between hours and minutes, are not looked at.                      *)

LetterZ == 90
Plus == 43
Abs(n) == IF n < 0 THEN -n ELSE n
Tz(seconds) == [ok |-> TRUE, offset |-> seconds]

\* Mutant: the sign is that of the hours, which may be zero.
tz_to_bytes_by_hour(v) ==
    LET hour == Abs(v.offset) \div SecondsOfHour
        minutes == (Abs(v.offset) % SecondsOfHour) \div 60
    IN  IF v.offset = 0
        THEN <<LetterZ>>
        ELSE <<IF hour = 0 \/ v.offset > 0 THEN Plus ELSE Hyphen>> \o u32_two(hour)
                 \o (IF minutes # 0 THEN <<Colon>> \o u32_two(minutes) ELSE <<>>)

tz_to_bytes(v) ==
    LET hour == Abs(v.offset) \div SecondsOfHour
        minutes == (Abs(v.offset) % SecondsOfHour) \div 60
    IN  IF v.offset = 0
        THEN <<LetterZ>>
        ELSE <<IF v.offset > 0 THEN Plus ELSE Hyphen>> \o u32_two(hour)
                 \o (IF minutes # 0 THEN <<Colon>> \o u32_two(minutes) ELSE <<>>)

tz_offset(d, sign) ==
    CASE Len(d) = 3 -> Tz(sign * (FromTwo(d, 2) * SecondsOfHour))
      [] Len(d) = 6 -> Tz(sign * (FromTwo(d, 2) * SecondsOfHour + FromTwo(d, 5) * 60))
      [] OTHER -> Error

tz_deserialize(d) ==
    CASE d = <<>> -> Error
      [] d # <<>> /\ d[1] = LetterZ -> Tz(0)
      [] d # <<>> /\ d[1] = Plus -> tz_offset(d, 1)
      [] d # <<>> /\ d[1] = Hyphen -> tz_offset(d, -1)
      [] OTHER -> Error

tz_lossy(d) ==
    IF Len(d) = 1 THEN Tz(0)
    ELSE IF d # <<>> /\ d[1] = Plus THEN tz_offset(d, 1) ELSE tz_offset(d, -1)

-----------------------------------------------------------------------------
(* The checksum field: three digits, a sum of bytes modulo 256. *)

CheckSum(n) == [ok |-> TRUE, sum |-> n]
checksum_to_bytes(v) == Three(v.sum)
checksum_from_digits(d) == CheckSum(FromThree(d, 1) % 256)
checksum_lossy(d) == IF Len(d) = 3 THEN checksum_from_digits(d) ELSE Error
checksum_deserialize(d) == IF Len(d) = 3 /\ AllDigits(d, 1 .. 3) THEN checksum_from_digits(d) ELSE Error

(* Booleans. *)

Bool(b) == [ok |-> TRUE, b |-> b]
bool_to_bytes(v) == IF v.b THEN <<89>> ELSE <<78>>
bool_deserialize(d) ==
    CASE d = <<89>> -> Bool(TRUE)
      [] d = <<78>> -> Bool(FALSE)
      [] OTHER -> Error
=============================================================================
