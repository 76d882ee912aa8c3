------------------------------ MODULE MCResend ------------------------------
(***************************************************************************)
(* What is sent again, and a store it may be read from: the answer to a    *)
(* ResendRequest and the MongoDB store.  One of the two runs, the other is *)
(* idle.                                                                   *)
(***************************************************************************)
EXTENDS Resend, MongoStore

VARIABLE part

AInit == part \in {"resend", "mongo"} /\ RInit /\ GInit

ANext ==
    /\ \/ part = "resend" /\ RNext /\ UNCHANGED gvars
       \/ part = "mongo" /\ GNext /\ UNCHANGED rvars
    /\ UNCHANGED part

AnswerSpec ==
    /\ AInit /\ [][ANext]_<<part, rvars, gvars>>
    /\ WF_<<part, rvars, gvars>>(part = "resend" /\ ResendSteps /\ UNCHANGED <<part, gvars>>)
=============================================================================
