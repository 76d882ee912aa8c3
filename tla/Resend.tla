------------------------------- MODULE Resend -------------------------------
(***************************************************************************)
(* Answering a ResendRequest: outbound::resend_messages, one message of    *)
(* the store a step, with what the counterparty makes of the answer.       *)
(*                                                                         *)
(* Session treats the answer as one write; this module is about its        *)
(* content.  Nothing else of the session runs while it is produced.        *)
(***************************************************************************)
EXTENDS Integers, Sequences

CONSTANTS OverflowChecks,     \* the build profile: does unsigned subtraction trap?
          MaxLog              \* bound on the messages sent

ASSUME ResendAssumption == OverflowChecks \in BOOLEAN /\ MaxLog \in Nat

\* What is stored under a number, as in module SessionState.
Kind == {"admin", "app", "hole"}

VARIABLES
    log,                \* the store: the kind of message kept under each number
    pc,                 \* "Idle", "Loop", "Done", "Failed" or "Panicked"
    begin, end,         \* the range asked for, clamped
    next,               \* the number get_slice looks up next
    reset_start,        \* where the run of skipped messages began; 0 for None
    sequence_number,    \* of the message last looked at
    written,            \* the answer: a message again, or a gap fill up to `new`
    expected,           \* the next number the counterparty expects
    gap                 \* did the counterparty get a number above that?

rvars == <<log, pc, begin, end, next, reset_start, sequence_number, written, expected, gap>>

Entry == [seq : Nat, new : Nat]
Again(n) == [seq |-> n, new |-> 0]
GapFill(n, new) == [seq |-> n, new |-> new]
IsFill(w) == w.new # 0

\* The counterparty follows the rules this program applies to its own input:
\* check_sequence_number, and on_sequence_reset for a gap fill.
Accepted(n, w) ==
    CASE w.seq # n -> n
      [] w.seq = n /\ IsFill(w) -> IF w.new > n THEN w.new ELSE n
      [] OTHER -> n + 1

Kept(n) == n \in DOMAIN log /\ log[n] # "hole"

\* Mutant: is_admin is not asked.
ToSend_all(n) == Kept(n)

\* is_admin
ToSend(n) == Kept(n) /\ log[n] = "app"

NotAnswering == pc \in {"Idle", "Done", "Failed"}

-----------------------------------------------------------------------------
\* prepare_message, in between: the first message of a store is the Logon.
Prepared(kind) ==
    /\ NotAnswering
    /\ Len(log) < MaxLog
    /\ log = << >> => kind # "app"
    /\ log' = Append(log, kind)
    /\ pc' = "Idle"
    /\ UNCHANGED <<begin, end, next, reset_start, sequence_number, written, expected, gap>>

\* Mutant: NextSender is taken for the number after the next.
ResendRequested_short(from, to) ==
    /\ NotAnswering
    /\ begin' = from
    /\ end' = IF to = 0 \/ to > Len(log) THEN Len(log) - 1 ELSE to
    /\ pc' = IF from > end' + 1 \/ (from > end' /\ OverflowChecks) THEN "Panicked" ELSE "Loop"
    /\ next' = from
    /\ reset_start' = 0 /\ sequence_number' = 0
    /\ written' = << >> /\ expected' = from /\ gap' = FALSE
    /\ UNCHANGED log

\* inbound::on_resend_request up to get_slice, whose capacity end - begin + 1
\* is an unsigned subtraction.
ResendRequested(from, to) ==
    LET last == IF to = 0 \/ to > Len(log) THEN Len(log) ELSE to
    IN  /\ NotAnswering
        /\ begin' = from
        /\ end' = last
        /\ pc' = IF from > last + 1 \/ (from > last /\ OverflowChecks) THEN "Panicked" ELSE "Loop"
        /\ next' = from
        /\ reset_start' = 0
        /\ sequence_number' = 0
        /\ written' = << >>
        /\ expected' = IF from = 0 THEN 1 ELSE from
        /\ gap' = FALSE
        /\ UNCHANGED log

\* Mutant: the loop does not get past a number without a message.
Absent_stuck == pc = "Loop" /\ next <= end /\ ~Kept(next) /\ UNCHANGED rvars

\* No message is kept under this number.
Absent ==
    /\ pc = "Loop" /\ next <= end
    /\ ~Kept(next)
    /\ next' = next + 1
    /\ UNCHANGED <<log, pc, begin, end, reset_start, sequence_number, written, expected, gap>>

\* Mutant: the run starts at the outer `begin`.
SkipAdmin_shadowed ==
    /\ pc = "Loop" /\ next <= end
    /\ Kept(next) /\ ~ToSend(next)
    /\ sequence_number' = next
    /\ reset_start' = IF reset_start = 0 THEN begin ELSE reset_start
    /\ next' = next + 1
    /\ UNCHANGED <<log, pc, begin, end, written, expected, gap>>

SkipAdmin ==
    /\ pc = "Loop" /\ next <= end
    /\ Kept(next) /\ ~ToSend(next)
    /\ sequence_number' = next
    /\ reset_start' = IF reset_start = 0 THEN next ELSE reset_start
    /\ next' = next + 1
    /\ UNCHANGED <<log, pc, begin, end, written, expected, gap>>

\* send_sequence_reset for the run that ends here, if there is one, then the
\* message itself.
SendAgain ==
    LET fill   == GapFill(reset_start, next)
        filled == IF reset_start = 0 THEN written ELSE Append(written, fill)
        heard  == IF reset_start = 0 THEN expected ELSE Accepted(expected, fill)
    IN  /\ pc = "Loop" /\ next <= end
        /\ ToSend(next)
        /\ written' = Append(filled, Again(next))
        /\ expected' = Accepted(heard, Again(next))
        /\ gap' = (gap \/ (reset_start # 0 /\ reset_start > expected) \/ next > heard)
        /\ reset_start' = 0
        /\ sequence_number' = next
        /\ next' = next + 1
        /\ UNCHANGED <<log, pc, begin, end>>

\* A stored message does not parse, or cannot be encoded again with no run
\* before it: the rest of the answer is not sent.
Fails ==
    /\ pc = "Loop" /\ next <= end
    /\ Kept(next)
    /\ pc' = "Failed"
    /\ UNCHANGED <<log, begin, end, next, reset_start, sequence_number, written, expected, gap>>

\* The run is told before the message that cannot be encoded again.
EncodeFails ==
    LET fill == GapFill(reset_start, next)
    IN  /\ pc = "Loop" /\ next <= end
        /\ ToSend(next) /\ reset_start # 0
        /\ pc' = "Failed"
        /\ written' = Append(written, fill)
        /\ expected' = Accepted(expected, fill)
        /\ gap' = (gap \/ reset_start > expected)
        /\ reset_start' = 0
        /\ sequence_number' = next
        /\ UNCHANGED <<log, begin, end, next>>

\* Mutants: the range is taken to exclude its end; the run is closed beyond
\* it; the run is forgotten.
Finish_early ==
    /\ pc = "Loop" /\ next >= end
    /\ pc' = "Done"
    /\ UNCHANGED <<log, begin, end, next, reset_start, sequence_number, written, expected, gap>>

Finish_beyond ==
    /\ pc = "Loop" /\ next > end
    /\ pc' = "Done"
    /\ LET fill == GapFill(reset_start, end + 2)
       IN  IF reset_start = 0 THEN UNCHANGED <<written, expected, gap>>
           ELSE /\ written' = Append(written, fill)
                /\ expected' = Accepted(expected, fill)
                /\ gap' = (gap \/ reset_start > expected)
    /\ UNCHANGED <<log, begin, end, next, reset_start, sequence_number>>

Finish_unfilled ==
    /\ pc = "Loop" /\ next > end
    /\ pc' = "Done"
    /\ UNCHANGED <<log, begin, end, next, reset_start, sequence_number, written, expected, gap>>

\* The final reset: its NewSeqNo is the number of the last message skipped.
Finish ==
    /\ pc = "Loop" /\ next > end
    /\ pc' = "Done"
    /\ LET fill == GapFill(reset_start, sequence_number)
       IN  IF reset_start = 0 THEN UNCHANGED <<written, expected, gap>>
           ELSE /\ written' = Append(written, fill)
                /\ expected' = Accepted(expected, fill)
                /\ gap' = (gap \/ reset_start > expected)
    /\ UNCHANGED <<log, begin, end, next, reset_start, sequence_number>>

RInit ==
    /\ log = << >> /\ pc = "Idle"
    /\ begin = 1 /\ end = 0 /\ next = 1
    /\ reset_start = 0 /\ sequence_number = 0
    /\ written = << >> /\ expected = 1 /\ gap = FALSE

RNext ==
    \/ \E kind \in Kind : Prepared(kind)
    \/ \E from, to \in 0 .. MaxLog + 2 : ResendRequested(from, to)
    \/ Absent \/ SkipAdmin \/ SendAgain \/ Fails \/ EncodeFails \/ Finish

\* The steps of the loop that nothing need hold up: no message has to fail.
ResendSteps == Absent \/ SkipAdmin \/ SendAgain \/ Finish

RSpec == RInit /\ [][RNext]_rvars /\ WF_rvars(ResendSteps)

-----------------------------------------------------------------------------
(* Properties *)

\* The request, the cursor and the run being skipped are numbers of the log,
\* and what is written is a message sent again or a gap fill.
RTypeOK ==
    /\ log \in Seq(Kind)
    /\ pc \in {"Idle", "Loop", "Done", "Failed", "Panicked"}
    /\ begin \in Nat /\ end \in Nat /\ next \in Nat
    /\ reset_start \in Nat /\ sequence_number \in Nat
    /\ written \in Seq(Entry)
    /\ expected \in Nat /\ gap \in BOOLEAN

\* Application messages are sent again, each under its own number, and
\* administrative ones never are.
OnlyAppAgain ==
    \A k \in DOMAIN written : ~IsFill(written[k]) =>
        written[k].seq \in DOMAIN log /\ log[written[k].seq] = "app"

\* A gap fill passes over no application message: resend_messages closes the
\* run of skipped messages before it sends the next one again.
FillsSkipNoApp ==
    \A k \in DOMAIN written : IsFill(written[k]) =>
        \A n \in DOMAIN log : written[k].seq <= n /\ n < written[k].new => log[n] # "app"

\* The answer is in ascending order, so nothing is sent twice.
Ascending ==
    \A j, k \in DOMAIN written : j < k => written[j].seq < written[k].seq

\* A finished answer holds every application message that was asked for.
AppAllAgain ==
    pc = "Done" =>
        \A n \in DOMAIN log : begin <= n /\ n <= end /\ log[n] = "app" =>
            \E k \in DOMAIN written : written[k] = Again(n)

\* Where the store has no hole, the answer leaves none: the counterparty gets
\* every number when it expects it, and at most the last is still open.
CatchesUp ==
    (\A n \in DOMAIN log : begin <= n /\ n <= end => log[n] # "hole") =>
        /\ ~gap
        /\ pc = "Done" => expected >= end

\* The comment of the resend tests: "NewSeqNo indicates the next sequence
\* number after the gap".
FillEndsAfterGap ==
    \A k \in DOMAIN written :
        IsFill(written[k]) /\ written[k].new <= end => log[written[k].new] # "admin"

\* Every request is answered or refused: the loop ends.
AnswerEnds == pc = "Loop" ~> pc # "Loop"
=============================================================================
