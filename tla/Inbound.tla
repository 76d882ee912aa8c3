------------------------------ MODULE Inbound -------------------------------
(***************************************************************************)
(* What the session does with a message from the counterparty: the inbound *)
(* half of session.rs, session/inbound.rs and the per-state verification   *)
(* of session/state/*.rs.                                                  *)
(***************************************************************************)
EXTENDS SessionState

InboundDecision == {"Accept", "Reject", "TerminateSession"}

\* The outcome of a call whose error the code only logs.
logged(s, outcome) == [outcome EXCEPT !.err = s.err]

send_reject(s) == outbound_send(s, "Reject", 0, 0)

-----------------------------------------------------------------------------
(* inbound.rs: a message that fails a header check or comes too low *)

\* handle_sending_time_accuracy_problem, handle_original_sending_time_missing
handle_sending_time_accuracy_problem(s) ==
    LET rejected == logged(s, send_reject(s))
    IN  logged(s, increment_target(rejected))

logout_and_disconnect(s, reconnect) ==
    new_disconnected(disconnect_writer(logged(s, outbound_send(s, "Logout", 0, 0))), reconnect)

handle_incorrect_begin_string(s) == logout_and_disconnect(s, TRUE)

handle_incorrect_comp_id(s) == logout_and_disconnect(logged(s, send_reject(s)), TRUE)

handle_sequence_number_too_low(s, possible_duplicate) ==
    IF possible_duplicate THEN s ELSE logout_and_disconnect(s, FALSE)

handle_verification_error(s, verdict) ==
    CASE verdict = "BeginString"     -> handle_incorrect_begin_string(s)
      [] verdict = "CompId"          -> handle_incorrect_comp_id(s)
      [] verdict = "SeqNumberTooLow" -> handle_sequence_number_too_low(s, FALSE)
      [] verdict = "PossDupTooLow"   -> handle_sequence_number_too_low(s, TRUE)
      [] OTHER                       -> handle_sending_time_accuracy_problem(s)

-----------------------------------------------------------------------------
(* state/*.rs: a message that comes too high *)

\* ActiveState and AwaitingLogonState
request_resend(s, m) ==
    LET sent == outbound_send(s, "ResendRequest", NextTarget(s), m.seq)
    IN  IF sent.err THEN sent ELSE new_awaiting_resend(sent, NextTarget(s), m.seq)

\* Mutant: off by one at the limit.
update_off_by_one(s, begin, end) ==
    CASE begin = s.state.begin /\ s.state.attempts > MAX_RESEND_ATTEMPTS -> "AttemptsExceeded"
      [] begin < s.state.begin -> "BeginSeqNumberTooLow"
      [] OTHER -> "Success"

\* AwaitingResendState::update
update(s, begin, end) ==
    CASE begin = s.state.begin /\ s.state.attempts + 1 > MAX_RESEND_ATTEMPTS -> "AttemptsExceeded"
      [] begin < s.state.begin -> "BeginSeqNumberTooLow"
      [] OTHER -> "Success"

\* Mutant: every request starts the count again.
request_resend_again_uncounted(s, m) ==
    LET begin   == NextTarget(s)
        counted == [s EXCEPT !.state.begin = begin, !.state.end = m.seq, !.state.attempts = 1]
    IN  IF update(s, begin, m.seq) = "Success"
        THEN outbound_send(counted, "ResendRequest", begin, m.seq)
        ELSE new_disconnected(disconnect_writer(s), FALSE)

\* AwaitingResendState: the counter moves before the request is sent.
request_resend_again(s, m) ==
    LET begin   == NextTarget(s)
        counted == [s EXCEPT !.state.begin = begin, !.state.end = m.seq,
                             !.state.attempts = IF begin = s.state.begin THEN @ + 1 ELSE 1]
    IN  IF update(s, begin, m.seq) = "Success"
        THEN outbound_send(counted, "ResendRequest", begin, m.seq)
        ELSE new_disconnected(disconnect_writer(s), FALSE)

handle_sequence_gap(s, m) ==
    CASE s.state.st = "AwaitingResend" -> request_resend_again(s, m)
      [] s.state.st = "AwaitingLogout" -> s
      [] OTHER                         -> request_resend(s, m)

handle_verification_issue(s, m, verdict) ==
    IF verdict = "SequenceGap" THEN handle_sequence_gap(s, m)
    ELSE handle_verification_error(s, verdict)

-----------------------------------------------------------------------------
(* session.rs: the handlers of the message types *)

on_logon(s) ==
    LET called == [s EXCEPT !.calls = Append(@, [cb |-> "on_logon", seq |-> 0, verified |-> TRUE])]
        moved  == increment_target(called)
    IN  IF s.state.st # "AwaitingLogon" THEN s
        ELSE IF moved.err THEN moved ELSE new_active(moved)

\* The target number moves last, after the transition.
on_logout(s) ==
    LET acked  == IF is_logged_on(s) THEN send_logout(s) ELSE s
        called == [acked EXCEPT !.calls =
                      Append(@, [cb |-> "on_logout", seq |-> 0, verified |-> is_connected(s)])]
    IN  IF acked.err THEN acked
        ELSE increment_target(on_peer_logout(disconnect_writer(called)))

on_heartbeat(s, m) ==
    increment_target(
        IF is_expecting_test_response(s) /\ m.id = s.state.sent_test_request_id
        THEN reset_peer_timer(s, 0) ELSE s)

\* A request without TestReqID runs into todo!().
on_test_request(s, m) ==
    LET moved == increment_target(s)
    IN  CASE ~is_connected(s) -> s
          [] is_connected(s) /\ m.id = 0 -> [s EXCEPT !.panicked = TRUE]
          [] OTHER -> IF moved.err THEN moved ELSE outbound_send(moved, "Heartbeat", 0, 0)

\* inbound::on_resend_request
answer_resend_request(s, m) ==
    LET last  == Len(s.store.log)
        end   == IF m.end = 0 \/ m.end > last THEN last ELSE m.end
        moved == IF m.seq = NextTarget(s) THEN increment_target(s) ELSE s
    IN  IF Missing \in {m.begin, m.end} THEN send_reject(s)
        ELSE IF moved.err THEN moved ELSE resend_messages(moved, m.begin, end)

on_resend_request(s, m) ==
    LET queued == IF m.seq > NextTarget(s) /\ s.state.st = "AwaitingResend"
                  THEN [s EXCEPT !.state.queue = Append(@, m)] ELSE s
    IN  IF is_connected(s) THEN answer_resend_request(queued, m) ELSE s

on_reject(s) == increment_target(s)

\* Mutants: NewSeqNo is not checked at all; only that of a gap fill is.
on_sequence_reset_unchecked(s, m) ==
    IF is_connected(s) THEN set_target(s, m.new - 1) ELSE s

on_sequence_reset_lowering(s, m) ==
    CASE ~is_connected(s) -> s
      [] is_connected(s) /\ (m.new = Missing \/ (m.gapfill /\ m.new <= NextTarget(s))) -> send_reject(s)
      [] OTHER -> set_target(s, m.new - 1)

on_sequence_reset(s, m) ==
    CASE ~is_connected(s) -> s
      [] is_connected(s) /\ m.new <= NextTarget(s) -> send_reject(s)   \* Missing included
      [] OTHER -> set_target(s, m.new - 1)

\* Mutant: the target number does not move with the delivery.
process_app_message_uncounted(s, m, decision) ==
    [s EXCEPT !.calls = Append(@, [cb |-> "on_inbound_message", seq |-> m.seq,
                                   verified |-> is_connected(s)])]

process_app_message(s, m, decision) ==
    LET called  == [s EXCEPT !.calls =
                      Append(@, [cb |-> "on_inbound_message", seq |-> m.seq,
                                 verified |-> is_connected(s)])]
        decided == CASE decision = "Accept" -> called
                     [] decision = "Reject" -> send_message(called, "App")
                     [] OTHER               -> disconnect_writer(called)
    IN  IF decided.err THEN decided ELSE increment_target(decided)

dispatch(s, m, decision) ==
    CASE m.type = "Heartbeat"     -> on_heartbeat(s, m)
      [] m.type = "TestRequest"   -> on_test_request(s, m)
      [] m.type = "ResendRequest" -> on_resend_request(s, m)
      [] m.type = "Reject"        -> on_reject(s)
      [] m.type = "SequenceReset" -> on_sequence_reset(s, m)
      [] m.type = "Logout"        -> on_logout(s)
      [] m.type = "Logon"         -> on_logon(s)
      [] OTHER                    -> process_app_message(s, m, decision)

-----------------------------------------------------------------------------
(* session.rs: process_message, check_end_of_resend, on_incoming *)

pre_process_inbound(s, m) ==
    CASE s.state.st = "AwaitingResend" /\ m.seq > s.state.end /\ m.type # "ResendRequest" -> "Queued"
      [] s.state.st = "AwaitingLogon" /\ m.type # "Logon" -> "Disconnect"
      [] OTHER -> "Accept"

\* SessionState::handle_verification_issue lets everything pass when Disconnected.
verdict_on(s, m) ==
    IF is_connected(s) THEN verify_message(m, NextTarget(s), for_message(m)) ELSE "Ok"

process_message(s, m, decision) ==
    LET pre == pre_process_inbound(s, m)
        verdict == verdict_on(s, m)
    IN  CASE pre = "Queued"     -> [s EXCEPT !.state.queue = Append(@, m)]
          [] pre = "Disconnect" -> disconnect_writer(s)
          [] OTHER -> IF verdict = "Ok" THEN dispatch(s, m, decision)
                      ELSE handle_verification_issue(s, m, verdict)

\* try_complete, and the backlog it hands to the replay.
check_end_of_resend(s) ==
    IF s.state.st = "AwaitingResend" /\ NextTarget(s) > s.state.end
    THEN [new_active(s) EXCEPT !.backlog = s.state.queue] ELSE s

handle_invalid_msg_type(s, m) ==
    LET rejected == logged(s, send_reject(s))
    IN  CASE ~is_connected(s) -> s
          [] is_connected(s) /\ m.seq = NextTarget(s) -> logged(s, increment_target(rejected))
          [] OTHER -> rejected

\* handle_session_event: a handler's error ends the session, not its task,
\* and what is left of the backlog is dropped with the call.  The error is
\* taken before the Logout is sent; f is how the store does by then.
settled(s, f) ==
    LET taken == [s EXCEPT !.err = FALSE, !.fault = f]
    IN  IF s.err /\ ~s.panicked
        THEN [new_disconnected(logout_and_terminate(taken), TRUE) EXCEPT !.backlog = << >>] ELSE s

on_incoming(s, m, decision) ==
    LET timed     == IF is_expecting_test_response(s) THEN s ELSE reset_peer_timer(s, 0)
        processed == process_message(timed, m, decision)
    IN  CASE m.parsed = "Valid" ->
               IF processed.err \/ processed.panicked THEN processed
               ELSE check_end_of_resend(processed)
          [] m.parsed = "InvalidField"   -> send_message(timed, "Reject")
          [] m.parsed = "InvalidMsgType" -> handle_invalid_msg_type(timed, m)
          [] m.parsed = "Panic"          -> [timed EXCEPT !.panicked = TRUE]
          [] OTHER -> timed

\* One turn of the replay loop of check_end_of_resend.
replay_one(s, decision) ==
    LET m    == Head(s.backlog)
        rest == [s EXCEPT !.backlog = Tail(@)]
    IN  IF m.type = "ResendRequest" THEN increment_target(rest)
        ELSE process_message(rest, m, decision)
=============================================================================
