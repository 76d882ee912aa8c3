----------------------------- MODULE MCFileStore -----------------------------
(***************************************************************************)
(* What an Ok is worth, on both sides of the session: the file store below *)
(* it, and above it the handles, through which an application is told that *)
(* its message is in a store.  One of the two runs, the other is idle.     *)
(***************************************************************************)
EXTENDS FileStore, Handles, TLC

VARIABLE part

\* One caller makes two calls, so that its messages have an order.
MCMaxCalls == 1 :> 2 @@ 2 :> 1

OInit == part \in {"file_store", "handles"} /\ FInit /\ HInit

ONext ==
    /\ \/ part = "file_store" /\ FNext /\ UNCHANGED hvars
       \/ part = "handles" /\ HNext /\ UNCHANGED fvars
    /\ UNCHANGED part

OkSpec == OInit /\ [][ONext]_<<part, fvars, hvars>>
=============================================================================
