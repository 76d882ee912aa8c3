---------------------------- MODULE Verification ----------------------------
(***************************************************************************)
(* Inbound messages and the checks message/verification.rs makes on them. *)
(*                                                                         *)
(* A message is what is left of it after the parser: its type, MsgSeqNum,  *)
(* PossDupFlag, the parser's verdict, the header checks it would fail, and *)
(* the fields the session layer reads.  Everything else is data.           *)
(***************************************************************************)
EXTENDS Integers

\* The value standing for a field that the message does not carry.
Missing == -1

AdminType ==
    {"Logon", "Heartbeat", "TestRequest", "ResendRequest", "Reject",
     "SequenceReset", "Logout"}

\* "App" stands for every type that is_admin() refuses.
MsgType == AdminType \cup {"App"}

\* ParsedMessage.  "Garbled" also stands for UnexpectedError (both are only
\* logged) and "InvalidField" for every reason answered with a plain Reject;
\* "Panic" is a message on which build panics (module MessageBuilder).
Parsed == {"Valid", "Garbled", "InvalidField", "InvalidComponent", "InvalidMsgType", "Panic"}

\* The first header check a message would fail.  The OrigSendingTime checks
\* come last and are made only when the flags ask for them.
HeaderFlaw == {"BeginString", "CompId", "SendingTime"}
OrigFlaw == {"OrigSendingTimeMissing", "OrigSendingTimeLate"}

Message ==
    [type : MsgType, seq : Nat, dup : BOOLEAN, parsed : Parsed,
     flaw : {"None"} \cup HeaderFlaw \cup OrigFlaw,
     begin : Nat \cup {Missing}, end : Nat \cup {Missing},   \* ResendRequest
     gapfill : BOOLEAN, new : Nat \cup {Missing},            \* SequenceReset
     id : Nat]                                               \* TestReqID, 0 if absent

Verdict == {"Ok", "SequenceGap", "SeqNumberTooLow", "PossDupTooLow"} \cup HeaderFlaw \cup OrigFlaw

VerificationFlags(high, low, orig) ==
    [check_too_high |-> high, check_too_low |-> low, check_orig_sending_time |-> orig]

for_message(m) ==
    CASE m.type \in {"ResendRequest", "Reject"} -> VerificationFlags(FALSE, TRUE, m.dup)
      [] m.type = "Logout"                      -> VerificationFlags(FALSE, FALSE, m.dup)
      [] m.type = "SequenceReset"               -> VerificationFlags(m.gapfill, m.gapfill, FALSE)
      [] OTHER                                  -> VerificationFlags(TRUE, TRUE, m.dup)

check_sequence_number(m, expected, flags) ==
    IF m.seq > expected /\ flags.check_too_high THEN "SequenceGap"
    ELSE IF m.seq < expected /\ flags.check_too_low
         THEN IF m.dup THEN "PossDupTooLow" ELSE "SeqNumberTooLow"
    ELSE "Ok"

verify_message(m, expected, flags) ==
    IF m.flaw \in HeaderFlaw \/ (m.flaw \in OrigFlaw /\ flags.check_orig_sending_time)
    THEN m.flaw
    ELSE check_sequence_number(m, expected, flags)
=============================================================================
