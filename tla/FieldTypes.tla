----------------------------- MODULE FieldTypes -----------------------------
(***************************************************************************)
(* The values of fields: how each type is written as bytes and read again. *)
(*                                                                         *)
(* Module FixedTypes has the types of fixed width; here are integers,      *)
(* enumerations, fields of several values, and the reading of what was     *)
(* written, possibly with other bytes than were written.                   *)
(***************************************************************************)
EXTENDS FixedTypes, Numerals, SequencesExt

CONSTANTS IntWidth,       \* bits of an integer field
          Values,         \* the values written, by type of field
          SampleBytes,    \* bytes that take the place of others
          MaxAltered      \* bound on the changes to the bytes

VARIABLES ftype,          \* the type of the field
          item,           \* the value that was written
          octets,         \* its bytes, as they arrive
          altered         \* how many changes the bytes have seen

fvars == <<ftype, item, octets, altered>>

-----------------------------------------------------------------------------
(* The checksum of a message: the sum of its bytes modulo 256. *)

checksum_compute(bytes) == CheckSum(FoldLeft(LAMBDA sum, b : (sum + b) % 256, 0, bytes))

(* Integers, in decimal.  Reading takes a leading plus, and a minus when   *)
(* the type is signed; a number that does not fit is an error.             *)

Int_(n) == [ok |-> TRUE, n |-> n]
int_to_bytes(v) == IF v.n < 0 THEN <<Hyphen>> \o Decimal(-v.n) ELSE Decimal(v.n)

Digits(d) == FoldLeft(LAMBDA n, b : n * 10 + (b - 48), 0, d)
parse(d, least, most) ==
    LET signed == d # <<>> /\ (d[1] = Plus \/ (d[1] = Hyphen /\ least < 0))
        digits == IF signed THEN Tail(d) ELSE d
        n      == IF signed /\ d[1] = Hyphen THEN -Digits(digits) ELSE Digits(digits)
    IN  IF digits # <<>> /\ AllDigits(digits, 1 .. Len(digits)) /\ n \in least .. most
        THEN Int_(n) ELSE Error

unsigned_deserialize(d) == parse(d, 0, 2 ^ IntWidth - 1)
signed_deserialize(d) == parse(d, -(2 ^ (IntWidth - 1)), 2 ^ (IntWidth - 1) - 1)
unsigned_lossy(d) ==
    Int_(FoldLeft(LAMBDA n, b : (n * 10 + (b - 48)) % 2 ^ IntWidth, 0, d))

Wrap(n) == LET m == n % 2 ^ IntWidth IN IF m < 2 ^ (IntWidth - 1) THEN m ELSE m - 2 ^ IntWidth
\* The sign of the first byte is also counted as a digit.
signed_lossy(d) ==
    LET n == unsigned_lossy(d).n IN Int_(Wrap(IF d # <<>> /\ d[1] = Hyphen THEN -n ELSE n))

(* Tags are integers other than zero. *)
tag_deserialize(d) == LET v == unsigned_deserialize(d) IN IF v.ok /\ v.n > 0 THEN v ELSE Error
tag_lossy(d) == LET v == unsigned_lossy(d) IN IF v.n = 0 THEN Int_(1) ELSE v

(* The generated enumerations of a field's values: a value is written as   *)
(* the bytes the dictionary gives it.                                      *)

Variant(bytes) == [ok |-> TRUE, variant |-> bytes]
enum_to_bytes(v) == v.variant
enum_deserialize(d, variants) == IF Variant(d) \in variants THEN Variant(d) ELSE Error

(* Fields of several values, separated by a space: single characters, read *)
(* from either end, and words.                                             *)

Space == 32
Several(parts) == [ok |-> TRUE, parts |-> parts]
Join(parts) == FoldLeft(LAMBDA d, w : IF d = <<>> THEN w ELSE d \o <<Space>> \o w, <<>>, parts)

chars_next(d) == [byte |-> d[1], octets |-> SubSeq(d, 3, Len(d))]
chars_next_back(d) == [byte |-> d[Len(d)], octets |-> SubSeq(d, 1, Len(d) - 2)]
RECURSIVE chars(_)
chars(d) == IF d = <<>> THEN <<>> ELSE <<<<chars_next(d).byte>>>> \o chars(chars_next(d).octets)
RECURSIVE chars_rev(_)
chars_rev(d) ==
    IF d = <<>> THEN <<>> ELSE chars_rev(chars_next_back(d).octets) \o <<<<chars_next_back(d).byte>>>>

IndexOr(d, from, to, is(_), default) ==
    IF \E i \in from .. to : is(d[i])
    THEN CHOOSE i \in from .. to : is(d[i]) /\ \A j \in from .. i - 1 : ~is(d[j])
    ELSE default
RECURSIVE strings_from(_, _)
strings_from(d, i) ==
    LET start == IndexOr(d, i, Len(d), LAMBDA b : b # Space, 0)
        end   == IndexOr(d, start, Len(d), LAMBDA b : b = Space, Len(d) + 1)
    IN  IF i > Len(d) \/ start = 0 THEN <<>>
        ELSE <<SubSeq(d, start, end - 1)>> \o strings_from(d, end)

-----------------------------------------------------------------------------
(* A value is written, and its bytes may change before they are read. *)

serialize(k, v) ==
    CASE k = "date" -> to_yyyymmdd(v)
      [] k = "time" -> time_to_bytes(v)
      [] k = "timestamp" -> timestamp_to_bytes(v)
      [] k = "monthyear" -> to_yyyymmww(v)
      [] k = "tz" -> tz_to_bytes(v)
      [] k = "checksum" -> checksum_to_bytes(v)
      [] k \in {"unsigned", "signed", "tag"} -> int_to_bytes(v)
      [] k = "bool" -> bool_to_bytes(v)
      [] k = "enum" -> enum_to_bytes(v)
      [] k \in {"chars", "strings"} -> Join(v.parts)

deserialize(k, d) ==
    CASE k = "date" -> date_deserialize(d)
      [] k = "time" -> time_deserialize(d)
      [] k = "timestamp" -> timestamp_parse(d)
      [] k = "monthyear" -> monthyear_deserialize(d)
      [] k = "tz" -> tz_deserialize(d)
      [] k = "checksum" -> checksum_deserialize(d)
      [] k = "unsigned" -> unsigned_deserialize(d)
      [] k = "signed" -> signed_deserialize(d)
      [] k = "tag" -> tag_deserialize(d)
      [] k = "bool" -> bool_deserialize(d)
      [] k = "enum" -> enum_deserialize(d, Values["enum"])
      [] k = "chars" -> Several(chars(d))
      [] k = "strings" -> Several(strings_from(d, 1))

deserialize_lossy(k, d) ==
    CASE k = "date" -> date_lossy(d)
      [] k = "monthyear" -> monthyear_lossy(d)
      [] k = "tz" -> tz_lossy(d)
      [] k = "checksum" -> checksum_lossy(d)
      [] k = "unsigned" -> unsigned_lossy(d)
      [] k = "signed" -> signed_lossy(d)
      [] k = "tag" -> tag_lossy(d)
      [] k = "chars" -> Several(chars_rev(d))
      [] OTHER -> deserialize(k, d)

FInit ==
    /\ ftype \in DOMAIN Values
    /\ item \in Values[ftype]
    /\ octets = serialize(ftype, item)
    /\ altered = 0

Alter ==
    /\ altered < MaxAltered
    /\ altered' = altered + 1
    /\ \/ \E i \in DOMAIN octets, b \in SampleBytes : octets' = [octets EXCEPT ![i] = b]
       \/ \E i \in DOMAIN octets : octets' = RemoveAt(octets, i)
       \/ \E b \in SampleBytes : octets' = Append(octets, b)
    /\ UNCHANGED <<ftype, item>>

FNext == Alter

FieldsSpec == FInit /\ [][FNext]_fvars

(* What is written is read back as the same value, and the reading that    *)
(* skips checks agrees (test_utility_verify_serialization_behavior), but   *)
(* for negative integers, whose sign the lossy reading takes for a digit.  *)
ReadsWhatWasWritten ==
    altered = 0 =>
        /\ deserialize(ftype, octets) = item
        /\ deserialize_lossy(ftype, octets) = item \/ (ftype = "signed" /\ item.n < 0)

\* u32_digit_to_ascii has a byte for the tens of hours of an offset.  (Bytes
\* that are no digits, which tz.rs accepts, make hours up to 2314.)
Spelled(v) == ftype = "tz" => Abs(v.offset) \div SecondsOfHour < 2080

(* Whatever bytes are accepted, writing the value read and reading it      *)
(* again gives that value: a message that is stored and sent again says    *)
(* what it said.  The one exception, and an exact one, are offsets of 2080 *)
(* hours and more, whose first digit wraps.  For dates, months and         *)
(* Booleans the bytes themselves are the same, so nothing but the          *)
(* canonical form is accepted.  A timestamp that is an instant of chrono   *)
(* comes back from it unchanged.                                           *)
RewriteKeepsValue ==
    LET v == deserialize(ftype, octets) IN
    v.ok =>
        /\ deserialize(ftype, serialize(ftype, v)) = v <=> Spelled(v)
        /\ ftype \in {"date", "monthyear", "bool", "enum"} => serialize(ftype, v) = octets
        /\ ftype = "timestamp" /\ timestamp_to_chrono_naive(v).ok =>
               timestamp_from_chrono(timestamp_to_chrono_naive(v)) = v
=============================================================================
