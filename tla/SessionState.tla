---------------------------- MODULE SessionState ----------------------------
(***************************************************************************)
(* The session's data and the operations of session/state.rs,              *)
(* session/state/*.rs, session/ctx.rs and session/outbound.rs on it.       *)
(*                                                                         *)
(* A handler of the session task runs to completion before the next one    *)
(* starts (run_session's select! loop), so every operation is an operator  *)
(* from the session record to the session record after the call, and the   *)
(* actions of module Session compose them.  A store call that fails sets   *)
(* the field err, which the callers test where the code has a `?`; a       *)
(* caller that goes on after an error has cleared it, so every operation   *)
(* is called with err FALSE.                                               *)
(***************************************************************************)
EXTENDS Verification, Sequences

CONSTANT OverflowChecks     \* the build profile: does unsigned subtraction trap?

ASSUME OverflowChecksAssumption == OverflowChecks \in BOOLEAN

MAX_RESEND_ATTEMPTS == 3

\* The variants of enum SessionState.  `late` is TRUE once the instant that
\* peer_deadline() returns has passed; the writer is the field of the session.
Disconnected == [st : {"Disconnected"}, reconnect : BOOLEAN, awaiter : BOOLEAN]
AwaitingLogon == [st : {"AwaitingLogon"}, logon_sent : BOOLEAN, late : BOOLEAN]
Active == [st : {"Active"}, sent_test_request_id : Nat, late : BOOLEAN]
AwaitingResend ==
    [st : {"AwaitingResend"}, begin : Nat, end : Nat, attempts : Nat, queue : Seq(Message)]
AwaitingLogout == [st : {"AwaitingLogout"}, reconnect : BOOLEAN, late : BOOLEAN]

State == Disconnected \cup AwaitingLogon \cup Active \cup AwaitingResend \cup AwaitingLogout

\* The message store as the session sees it through trait MessageStore: the
\* kind of each message stored under 1 .. sender_seq_number (a hole where the
\* number was taken and the message was not added), the last number seen from
\* the target, and the session period in which it was created.
Kind == {"admin", "app", "hole"}
Store == [log : Seq(Kind), target : Nat, created : Nat]

\* The store call that fails while a handler runs, if any.  A failing reset
\* may have cleared the store already ("reset_late"), and a failing add may
\* have stored the message ("add_late": the answer of the database was lost,
\* or the bytes stay in the file's BufWriter).
Fault == {"none", "increment_sender", "add", "add_late", "increment_target", "set_target",
          "get_slice", "reset", "reset_late"}

\* A message handed to the writer.  "Resend" is the run of messages that
\* resend_messages writes for the stored messages begin .. end.
Outbound == [type : MsgType \cup {"Resend"}, seq : Nat, begin : Nat, end : Nat]

\* A callback of trait Application.
Call == [cb : {"on_inbound_message", "on_logon", "on_logout"}, seq : Nat, verified : BOOLEAN]

Session ==
    [state : State,
     writer : {"none", "open", "closed"},     \* "closed" once Disconnect is in its mailbox
     store : Store,
     reset_on_next_logon : BOOLEAN,
     backlog : Seq(Message),                  \* what check_end_of_resend has left to replay
     answer : {"none", "InSchedule", "Shutdown", "dropped"},  \* the AwaitSchedule oneshot
     out : Seq(Outbound),                     \* handed to the open writer in this step
     calls : Seq(Call),                       \* callbacks made in this step
     resets : BOOLEAN,                        \* the store was cleared in this step
     err : BOOLEAN,                           \* the handler is returning an error
     panicked : BOOLEAN,                      \* the session task is gone
     fault : Fault]

NextSender(s) == Len(s.store.log) + 1
NextTarget(s) == s.store.target + 1

is_connected(s) == s.state.st # "Disconnected"
is_logged_on(s) == s.state.st \in {"Active", "AwaitingResend"}
is_expecting_test_response(s) == s.state.st = "Active" /\ s.state.sent_test_request_id # 0
should_reconnect(s) == s.state.st = "Disconnected" => s.state.reconnect

-----------------------------------------------------------------------------
(* trait MessageStore *)

increment_target(s) ==
    IF s.fault = "increment_target" THEN [s EXCEPT !.err = TRUE]
    ELSE [s EXCEPT !.store.target = @ + 1]

set_target(s, n) ==
    IF s.fault = "set_target" THEN [s EXCEPT !.err = TRUE]
    ELSE [s EXCEPT !.store.target = n]

cleared(s, now) ==
    [s EXCEPT !.store = [log |-> << >>, target |-> 0, created |-> now], !.resets = TRUE]

reset(s, now) ==
    CASE s.fault = "reset"      -> [s EXCEPT !.err = TRUE]
      [] s.fault = "reset_late" -> [cleared(s, now) EXCEPT !.err = TRUE]
      [] OTHER                  -> cleared(s, now)

-----------------------------------------------------------------------------
(* Sending: WriterRef, SessionCtx::prepare_message, outbound.rs *)

send_raw_message(s, m) ==
    IF s.writer = "open" THEN [s EXCEPT !.out = Append(@, m)] ELSE s

disconnect_writer(s) ==
    IF s.writer = "open" THEN [s EXCEPT !.writer = "closed"] ELSE s

kind_of(type) == IF type \in AdminType THEN "admin" ELSE "app"

\* Mutant: a failure to store the message is not reported.
prepare_message_unchecked(s, type) ==
    CASE s.fault = "increment_sender" -> [s EXCEPT !.err = TRUE]
      [] s.fault = "add"              -> [s EXCEPT !.store.log = Append(@, "hole")]
      [] s.fault = "add_late"         -> [s EXCEPT !.store.log = Append(@, kind_of(type))]
      [] OTHER                        -> [s EXCEPT !.store.log = Append(@, kind_of(type))]

\* Takes the next number, then stores the message under it.
prepare_message(s, type) ==
    CASE s.fault = "increment_sender" -> [s EXCEPT !.err = TRUE]
      [] s.fault = "add"              -> [s EXCEPT !.store.log = Append(@, "hole"), !.err = TRUE]
      [] s.fault = "add_late"         -> [s EXCEPT !.store.log = Append(@, kind_of(type)), !.err = TRUE]
      [] OTHER                        -> [s EXCEPT !.store.log = Append(@, kind_of(type))]

Fresh(s, type, begin, end) ==
    [type |-> type, seq |-> NextSender(s), begin |-> begin, end |-> end]

\* outbound::send_message: written whatever the state.
outbound_send(s, type, begin, end) ==
    LET prepared == prepare_message(s, type)
    IN  IF prepared.err THEN prepared
        ELSE send_raw_message(prepared, Fresh(s, type, begin, end))

\* outbound::resend_messages; what it writes is the subject of module Resend.
\* get_slice first computes end - begin + 1 in usize, as a Vec's capacity.
resend_messages(s, begin, end) ==
    IF begin > end + 1 \/ (begin > end /\ OverflowChecks) THEN [s EXCEPT !.panicked = TRUE]
    ELSE IF s.fault = "get_slice" THEN [s EXCEPT !.err = TRUE]
    ELSE send_raw_message(s, [type |-> "Resend", seq |-> begin, begin |-> begin, end |-> end])

\* SessionState::send_message: the number is taken and the message stored in
\* every state; whether it is written depends on the state.
send_message(s, type) ==
    LET prepared == prepare_message(s, type)
        written  == send_raw_message(prepared, Fresh(s, type, 0, 0))
    IN  CASE prepared.err -> prepared
          [] ~prepared.err /\ is_logged_on(s) -> IF type = "Logon" THEN prepared ELSE written
          [] ~prepared.err /\ s.state.st = "AwaitingLogon" ->
                (CASE type = "Logon"  -> IF s.state.logon_sent THEN prepared
                                         ELSE [written EXCEPT !.state.logon_sent = TRUE]
                   [] type = "Logout" -> written
                   [] OTHER           -> prepared)
          [] OTHER -> prepared

send_logout(s) == send_message(s, "Logout")

\* The error of the logout is only logged.
logout_and_terminate(s) ==
    disconnect_writer([send_logout(s) EXCEPT !.err = s.err])

-----------------------------------------------------------------------------
(* Transitions *)

\* Replacing the state drops the awaiter it holds, and with it the oneshot.
transition_to(s, state) ==
    [s EXCEPT !.state = state,
              !.answer = IF s.state.st = "Disconnected" /\ s.state.awaiter THEN "dropped" ELSE @]

new_disconnected(s, reconnect) ==
    [transition_to(s, [st |-> "Disconnected", reconnect |-> reconnect, awaiter |-> FALSE])
        EXCEPT !.writer = "none"]

new_active(s) ==
    transition_to(s, [st |-> "Active", sent_test_request_id |-> 0, late |-> FALSE])

new_awaiting_resend(s, begin, end) ==
    transition_to(s, [st |-> "AwaitingResend", begin |-> begin, end |-> end,
                      attempts |-> 1, queue |-> << >>])

\* Mutant: a session that waits for a Logout overlooks the hang-up.
on_disconnect_waiting(s) ==
    CASE s.state.st \in {"Disconnected", "AwaitingLogout"} -> s
      [] OTHER -> new_disconnected(s, TRUE)

on_disconnect(s) ==
    CASE s.state.st = "Disconnected"   -> s
      [] s.state.st = "AwaitingLogout" -> new_disconnected(s, s.state.reconnect)
      [] OTHER                         -> new_disconnected(s, TRUE)

\* on_peer_logout chooses as on_disconnect does.
on_peer_logout(s) == on_disconnect(s)

\* try_transition_to_awaiting_logout and the logout that goes with it.  The
\* logout is sent from the old state; its error leaves that state in place.
initiate_graceful_logout(s, reconnect) ==
    LET sent == send_logout(s)
    IN  IF s.state.st \in {"Disconnected", "AwaitingLogout"} THEN s
        ELSE IF sent.err THEN [sent EXCEPT !.err = s.err]
        ELSE transition_to(sent, [st |-> "AwaitingLogout", reconnect |-> reconnect, late |-> FALSE])

reset_peer_timer(s, id) ==
    IF s.state.st = "Active"
    THEN [s EXCEPT !.state.late = FALSE, !.state.sent_test_request_id = id]
    ELSE s

register_schedule_awaiter(s) ==
    IF s.state.st = "Disconnected" /\ ~s.state.awaiter
    THEN [s EXCEPT !.state.awaiter = TRUE, !.answer = "none"]
    ELSE [s EXCEPT !.answer = "Shutdown"]

\* Mutants: the awaiter is taken and not answered; answered and not taken.
notify_schedule_awaiter_lost(s) ==
    IF s.state.st = "Disconnected" /\ s.state.awaiter
    THEN [s EXCEPT !.state.awaiter = FALSE] ELSE s

notify_schedule_awaiter_kept(s) ==
    IF s.state.st = "Disconnected" /\ s.state.awaiter
    THEN [s EXCEPT !.answer = "InSchedule"] ELSE s

notify_schedule_awaiter(s) ==
    IF s.state.st = "Disconnected" /\ s.state.awaiter
    THEN [s EXCEPT !.state.awaiter = FALSE, !.answer = "InSchedule"]
    ELSE s
=============================================================================
