---------------------------- MODULE MessageStore ----------------------------
(***************************************************************************)
(* What the session may expect of a store: trait MessageStore, with the    *)
(* operations InMemoryMessageStore gives it, and what a crash of the       *)
(* process may do to a store that is kept in files.                        *)
(*                                                                         *)
(* Messages survive a crash.  The sequence numbers survive, or are lost as *)
(* a whole, or the target number is; or the store refuses to open again.   *)
(***************************************************************************)
EXTENDS Integers

CONSTANTS Content,      \* the encoded messages
          MaxSeq        \* bound on the sequence numbers

VARIABLES messages, sender_seq_number, target_seq_number,
          status        \* "up", "down", "broken": it cannot be opened, or
                        \* "damaged": a call failed half way and nothing is promised

mvars == <<messages, sender_seq_number, target_seq_number, status>>

Empty == [n \in {} |-> 0]

increment_sender_seq_number ==
    /\ status = "up" /\ sender_seq_number < MaxSeq
    /\ sender_seq_number' = sender_seq_number + 1
    /\ UNCHANGED <<messages, target_seq_number, status>>

increment_target_seq_number ==
    /\ status = "up" /\ target_seq_number < MaxSeq
    /\ target_seq_number' = target_seq_number + 1
    /\ UNCHANGED <<messages, sender_seq_number, status>>

set_target_seq_number ==
    /\ status = "up"
    /\ target_seq_number' \in 0 .. MaxSeq
    /\ UNCHANGED <<messages, sender_seq_number, status>>

\* prepare_message adds under the number it has just taken.
add ==
    /\ status = "up"
    /\ \E message \in Content :
          messages' = [n \in DOMAIN messages \cup {sender_seq_number} |->
                          IF n = sender_seq_number THEN message ELSE messages[n]]
    /\ UNCHANGED <<sender_seq_number, target_seq_number, status>>

\* A reset also repairs what a failed call has damaged.
reset ==
    /\ status \in {"up", "damaged"}
    /\ messages' = Empty
    /\ sender_seq_number' = 0 /\ target_seq_number' = 0
    /\ status' = "up"

\* An add or a reset that returns an error, or is cut short.
Damage ==
    /\ status = "up"
    /\ messages' = Empty
    /\ sender_seq_number' = 0 /\ target_seq_number' = 0
    /\ status' = "damaged"

\* A number that was being written when the process died may count already.
Crash ==
    /\ status = "up"
    /\ status' = "down"
    /\ \/ UNCHANGED <<sender_seq_number, target_seq_number>>
       \/ sender_seq_number' = 0 /\ target_seq_number' = 0
       \/ sender_seq_number' \in {sender_seq_number, sender_seq_number + 1} /\ target_seq_number' = 0
    /\ UNCHANGED messages

Restart ==
    /\ status = "down"
    /\ status' \in {"up", "broken"}
    /\ UNCHANGED <<messages, sender_seq_number, target_seq_number>>

MInit ==
    /\ messages = Empty
    /\ sender_seq_number = 0 /\ target_seq_number = 0
    /\ status = "down"

MNext ==
    \/ increment_sender_seq_number \/ increment_target_seq_number \/ set_target_seq_number
    \/ add \/ reset \/ Damage \/ Crash \/ Restart

MSpec == MInit /\ [][MNext]_mvars
=============================================================================
