--------------------------- MODULE SessionProofs ----------------------------
(***************************************************************************)
(* The session's type invariant, its resend window, the progress of the    *)
(* target number, the responder of the connection loop and the storing of  *)
(* what is written, for every choice of the constants of module Session.   *)
(*                                                                         *)
(* Each handler gets one lemma, built from those of SessionStateProofs;    *)
(* each action gets one step of the inductive theorem.                     *)
(***************************************************************************)
EXTENDS SessionStateProofs

-----------------------------------------------------------------------------
(* Inbound messages *)

\* An outcome whose error is only logged still follows.
LEMMA Logged ==
  ASSUME NEW s, NEW t, Sound(s), Follows(s, t)
  PROVE  Follows(s, logged(s, t)) /\ logged(s, t).state = t.state
  <1>1. s.err \in BOOLEAN /\ (Clean(s) => ~s.err)
    BY DEF Sound, Session, Clean
  <1> QED
    BY <1>1, PutErr DEF logged

\* A reject leaves the state alone.
LEMMA SendReject ==
  ASSUME NEW s, Sound(s)
  PROVE  Follows(s, send_reject(s)) /\ send_reject(s).state = s.state
  <1>1. "Reject" \in MsgType \ {"Logon"}
    BY DEF MsgType, AdminType
  <1> QED
    BY <1>1, OutboundSend DEF send_reject

\* Logout, close, Disconnected.
LEMMA LogoutAndDisconnect ==
  ASSUME NEW s, Sound(s), NEW reconnect \in BOOLEAN
  PROVE  Follows(s, logout_and_disconnect(s, reconnect))
  <1> DEFINE p == outbound_send(s, "Logout", 0, 0)
             q == logged(s, p)
             r == disconnect_writer(q)
  <1>1. "Logout" \in MsgType \ {"Logon"}
    BY DEF MsgType, AdminType
  <1>2. Follows(s, p)
    BY <1>1, OutboundSend
  <1> HIDE DEF p
  <1>3. Follows(s, q) /\ Sound(q)
    BY <1>2, Logged, Weaker
  <1> HIDE DEF q
  <1>4. Follows(s, r) /\ Sound(r)
    BY <1>3, DisconnectWriter, Transitive, Weaker
  <1> HIDE DEF r
  <1>5. Follows(s, new_disconnected(r, reconnect))
    BY <1>4, NewDisconnected, Transitive, Zenon
  <1> QED
    BY <1>5 DEF logout_and_disconnect, r, q, p

\* A message that fails verification leads to a reject or to a logout.
LEMMA HandleVerificationError ==
  ASSUME NEW s, Sound(s), NEW verdict
  PROVE  Follows(s, handle_verification_error(s, verdict))
  <1> DEFINE q == logged(s, send_reject(s))
  <1>1. Follows(s, q) /\ Sound(q)
    BY SendReject, Logged, Weaker
  <1> HIDE DEF q
  <1>2. Follows(s, increment_target(q))
    BY <1>1, IncrementTarget, Transitive
  <1>3. Follows(s, handle_sending_time_accuracy_problem(s))
    BY <1>2, Logged DEF handle_sending_time_accuracy_problem, q
  <1>4. Follows(s, handle_incorrect_comp_id(s))
    BY <1>1, LogoutAndDisconnect, Transitive, Zenon DEF handle_incorrect_comp_id, q
  <1> QED
    BY <1>3, <1>4, LogoutAndDisconnect, Reflexive, Zenon
    DEF handle_verification_error, handle_incorrect_begin_string, handle_sequence_number_too_low

\* What a handler does that asks for a resend: a request is counted for the
\* number expected, and one is written at most.
Requests(s, t) ==
    /\ Reaches(s, t)
    /\ Delivered(t) = Delivered(s)
    /\ t.store.target = s.store.target /\ t.resets = s.resets
    /\ s.state.st \in {"Active", "AwaitingLogon", "AwaitingResend"}
    /\ t.state.st = "AwaitingResend" /\ t.state.begin = NextTarget(s)
    /\ t.state.attempts = IF s.state.st = "AwaitingResend" /\ s.state.begin = NextTarget(s)
                          THEN s.state.attempts + 1 ELSE 1
    /\ \E k : Of(t.out, "ResendRequest") \subseteq Of(s.out, "ResendRequest") \cup {k}
    /\ t.err => Of(t.out, "ResendRequest") = Of(s.out, "ResendRequest")

\* The first request for a gap opens the window from the number expected to the one seen.
LEMMA RequestResend ==
  ASSUME NEW s, Sound(s), NEW m \in Message, m.seq > NextTarget(s),
         s.state.st \in {"Active", "AwaitingLogon"}
  PROVE  Follows(s, request_resend(s, m)) \/ Requests(s, request_resend(s, m))
  <1> DEFINE p == outbound_send(s, "ResendRequest", NextTarget(s), m.seq)
             r == new_awaiting_resend(p, NextTarget(s), m.seq)
  <1>1. "ResendRequest" \in MsgType \ {"Logon"}
    BY DEF MsgType, AdminType
  <1>2. NextTarget(s) \in Nat /\ m.seq \in Nat /\ NextTarget(s) < m.seq
    BY FieldTypes DEF Sound, NextTarget, Message
  <1>3. /\ Reaches(s, p) /\ (p.err => Follows(s, p))
        /\ OneMore(s.out, p.out)
        /\ p.state = s.state /\ p.store.target = s.store.target /\ p.resets = s.resets
        /\ p.calls = s.calls
    BY <1>1, <1>2, OutboundSend
  <1>4. Sound(p)
    BY <1>3, Weaker
  <1>5. request_resend(s, m) = IF p.err THEN p ELSE r
    BY DEF request_resend
  <1> HIDE DEF p
  <1>6. p.state.st # "Disconnected"
    BY <1>3
  <1>7. /\ Reaches(p, r) /\ r.store = p.store /\ r.resets = p.resets
        /\ r.out = p.out /\ r.calls = p.calls /\ r.err = p.err
        /\ r.state.st = "AwaitingResend" /\ r.state.begin = NextTarget(s) /\ r.state.attempts = 1
    BY <1>2, <1>4, <1>6, NewAwaitingResend
  <1> HIDE DEF r
  <1>8. Reaches(s, r)
    BY <1>3, <1>7, Transitive
  <1>9. Delivered(r) = Delivered(s)
    BY <1>3, <1>7, SameCalls
  <1>10. \E k : Of(r.out, "ResendRequest") \subseteq Of(s.out, "ResendRequest") \cup {k}
    BY <1>3, <1>7, Zenon DEF OneMore
  <1>11. ~p.err => Requests(s, r)
    BY <1>3, <1>7, <1>8, <1>9, <1>10 DEF Requests
  <1> QED
    BY <1>3, <1>5, <1>11

\* A second gap inside the first: what is queued beyond the old end is beyond
\* the new one, because the message itself was not queued.
LEMMA RequestResendAgain ==
  ASSUME NEW s, Sound(s), NEW m \in Message, m.seq > NextTarget(s),
         s.state.st = "AwaitingResend", m.seq <= s.state.end
  PROVE  Follows(s, request_resend_again(s, m)) \/ Requests(s, request_resend_again(s, m))
  <1> DEFINE begin == NextTarget(s)
             n == IF begin = s.state.begin THEN s.state.attempts + 1 ELSE 1
             t == [s.state EXCEPT !.begin = begin, !.end = m.seq, !.attempts = n]
             c == [s EXCEPT !.state = t]
             r == outbound_send(c, "ResendRequest", begin, m.seq)
             g == disconnect_writer(s)
  <1>1. "ResendRequest" \in MsgType \ {"Logon"}
    BY DEF MsgType, AdminType
  <1>2. begin \in Nat /\ m.seq \in Nat
    BY FieldTypes DEF Sound, NextTarget, Message
  <1>3. s \in Session /\ s.state \in AwaitingResend
    BY FieldTypes, Variants DEF Sound
  <1>4. [s EXCEPT !.state.begin = begin, !.state.end = m.seq,
                  !.state.attempts = IF begin = s.state.begin THEN @ + 1 ELSE 1] = c
    BY <1>3, Zenon DEF Session, AwaitingResend
  <1>5. Follows(s, new_disconnected(g, FALSE))
    <2>1. Follows(s, g) /\ Sound(g)
      BY DisconnectWriter, Weaker
    <2> HIDE DEF g
    <2>2. Follows(g, new_disconnected(g, FALSE))
      BY <2>1, NewDisconnected, Zenon
    <2> QED
      BY <2>1, <2>2, Transitive, Zenon
  <1>6. ASSUME update(s, begin, m.seq) = "Success"
        PROVE  Requests(s, r)
    <2> HIDE DEF begin
    <2>1. /\ ~(begin = s.state.begin /\ s.state.attempts + 1 > MAX_RESEND_ATTEMPTS)
          /\ s.state.attempts \in 1 .. MAX_RESEND_ATTEMPTS
      BY <1>6 DEF update, Sound, Window
    <2>2. n \in 1 .. MAX_RESEND_ATTEMPTS
      BY <2>1 DEF MAX_RESEND_ATTEMPTS
    <2> HIDE DEF n
    <2>3. t \in AwaitingResend
      <3>1. ASSUME NEW b \in Nat, NEW e \in Nat, NEW k \in Nat, NEW q \in AwaitingResend
            PROVE  [q EXCEPT !.begin = b, !.end = e, !.attempts = k] \in AwaitingResend
        BY Zenon DEF AwaitingResend
      <3>2. n \in Nat
        BY <2>2 DEF MAX_RESEND_ATTEMPTS
      <3> QED
        BY <1>2, <1>3, <3>1, <3>2, Zenon
    <2>4. t \in State /\ t.st = "AwaitingResend"
      BY <2>3 DEF State, AwaitingResend
    <2>5. t.begin = begin /\ t.end = m.seq /\ t.attempts = n /\ t.queue = s.state.queue
      BY <1>3 DEF AwaitingResend
    <2> HIDE DEF t
    <2>6. begin < m.seq
      BY DEF begin
    <2>7. ASSUME NEW i \in DOMAIN t.queue, t.queue[i].type # "ResendRequest"
          PROVE  t.queue[i].seq > t.end
      <3>1. s.state.queue \in Seq(Message) /\ s.state.end \in Nat
        BY <1>3 DEF AwaitingResend
      <3>2. s.state.queue[i] \in Message
        BY <2>5, <3>1, ElementOfSeq
      <3>3. s.state.queue[i].seq \in Nat
        BY <3>2 DEF Message
      <3>4. s.state.queue[i].seq > s.state.end
        BY <2>5, <2>7 DEF Sound, Window
      <3> QED
        BY <1>2, <2>5, <3>1, <3>3, <3>4
    <2>8. Window([state |-> t])
      BY <2>2, <2>5, <2>6, <2>7 DEF Window
    <2>9. Awaits(t) = Awaits(s.state)
      BY <2>4 DEF Awaits
    <2>10. Reaches(s, c) /\ c.state = t /\ Sound(c)
      BY <2>4, <2>8, <2>9, PutState, Weaker
    <2>11. c.store = s.store /\ c.resets = s.resets /\ c.out = s.out /\ c.calls = s.calls
      BY <1>3 DEF Session
    <2> HIDE DEF c
    <2>12. /\ Reaches(c, r) /\ (r.err => Follows(c, r))
           /\ OneMore(c.out, r.out)
           /\ r.state = c.state /\ r.store.target = c.store.target /\ r.resets = c.resets
           /\ r.calls = c.calls
      BY <1>1, <1>2, <2>10, OutboundSend
    <2> HIDE DEF r
    <2>13. Reaches(s, r)
      BY <2>10, <2>12, Transitive
    <2>14. Delivered(r) = Delivered(s)
      BY <2>11, <2>12, SameCalls
    <2>15. \E k : Of(r.out, "ResendRequest") \subseteq Of(s.out, "ResendRequest") \cup {k}
      BY <2>11, <2>12, Zenon DEF OneMore
    <2>16. r.err => Of(r.out, "ResendRequest") = Of(s.out, "ResendRequest")
      BY <2>11, <2>12 DEF Follows, Calm
    <2>17. r.state.attempts = IF s.state.st = "AwaitingResend" /\ s.state.begin = NextTarget(s)
                              THEN s.state.attempts + 1 ELSE 1
      BY <2>5, <2>10, <2>12 DEF n, begin
    <2>18. r.state.st = "AwaitingResend" /\ r.state.begin = NextTarget(s)
      BY <2>4, <2>5, <2>10, <2>12 DEF begin
    <2> QED
      BY <2>11, <2>12, <2>13, <2>14, <2>15, <2>16, <2>17, <2>18, SMTT(20) DEF Requests
  <1> HIDE DEF c
  <1> QED
    BY <1>4, <1>5, <1>6, Zenon DEF request_resend_again

\* A message reaches handle_verification_issue only if it was not queued, and
\* a gap is reported only for the types whose flags ask for it.
LEMMA HandleVerificationIssue ==
  ASSUME NEW s, Sound(s), NEW m \in Message,
         pre_process_inbound(s, m) # "Queued", verdict_on(s, m) # "Ok"
  PROVE  \/ Follows(s, handle_verification_issue(s, m, verdict_on(s, m)))
         \/ Requests(s, handle_verification_issue(s, m, verdict_on(s, m)))
  <1> SUFFICES ASSUME verdict_on(s, m) = "SequenceGap"
               PROVE  Follows(s, handle_sequence_gap(s, m)) \/ Requests(s, handle_sequence_gap(s, m))
    BY HandleVerificationError DEF handle_verification_issue
  <1>1. m.flaw # "SequenceGap"
    BY DEF Message, HeaderFlaw, OrigFlaw
  <1>2. /\ check_sequence_number(m, NextTarget(s), for_message(m)) = "SequenceGap"
        /\ is_connected(s)
    BY <1>1 DEF verdict_on, verify_message
  <1>3. m.seq > NextTarget(s) /\ for_message(m).check_too_high
    BY <1>2 DEF check_sequence_number
  <1>4. m.type # "ResendRequest"
    BY <1>3 DEF for_message, VerificationFlags
  <1>5. s.state.st = "AwaitingResend" => m.seq <= s.state.end
    <2> SUFFICES ASSUME s.state.st = "AwaitingResend"
                 PROVE  m.seq <= s.state.end
      OBVIOUS
    <2>1. s.state.end \in Nat /\ m.seq \in Nat
      BY FieldTypes, Variants DEF Sound, AwaitingResend, Message
    <2>2. ~(m.seq > s.state.end)
      BY <1>4 DEF pre_process_inbound
    <2> QED
      BY <2>1, <2>2
  <1>6. s.state.st \in {"Active", "AwaitingLogon", "AwaitingResend", "AwaitingLogout"}
    <2>1. s.state \in State /\ s.state.st # "Disconnected"
      BY <1>2, FieldTypes DEF Sound, is_connected
    <2> QED
      BY <2>1 DEF State, Disconnected, AwaitingLogon, Active, AwaitingResend, AwaitingLogout
  <1> QED
    BY <1>3, <1>5, <1>6, RequestResend, RequestResendAgain, Reflexive, SMTT(20) DEF handle_sequence_gap

-----------------------------------------------------------------------------
(* The handlers of the message types *)

\* A Logon is counted in AwaitingLogon only.
LEMMA OnLogon ==
  ASSUME NEW s, Sound(s)
  PROVE  Follows(s, on_logon(s))
  <1> SUFFICES ASSUME s.state.st = "AwaitingLogon"
               PROVE  Follows(s, on_logon(s))
    BY Reflexive DEF on_logon
  <1> DEFINE c == [cb |-> "on_logon", seq |-> 0, verified |-> TRUE]
             p == [s EXCEPT !.calls = Append(@, c)]
             q == increment_target(p)
  <1>1. c \in Call /\ c.cb # "on_inbound_message"
    BY DEF Call
  <1> HIDE DEF c
  <1>2. Follows(s, p) /\ p.state = s.state
    BY <1>1, Called
  <1>3. Sound(p)
    BY <1>2, Weaker
  <1> HIDE DEF p
  <1>4. Follows(s, q) /\ Sound(q) /\ q.state = s.state
    BY <1>2, <1>3, IncrementTarget, Transitive, Weaker, SMTT(20)
  <1> HIDE DEF q
  <1>5. Follows(s, new_active(q))
    BY <1>4, NewActive, Transitive
  <1> QED
    BY <1>4, <1>5 DEF on_logon, p, q, c

\* A Logout is counted after the transition it causes.
LEMMA OnLogout ==
  ASSUME NEW s, Sound(s)
  PROVE  Follows(s, on_logout(s))
  <1> DEFINE a == IF is_logged_on(s) THEN send_logout(s) ELSE s
             c == [cb |-> "on_logout", seq |-> 0, verified |-> is_connected(s)]
             p == [a EXCEPT !.calls = Append(@, c)]
             q == disconnect_writer(p)
             r == on_peer_logout(q)
  <1>1. "Logout" \in MsgType \ {"ResendRequest"}
    BY DEF MsgType, AdminType
  <1>2. Follows(s, a) /\ Sound(a)
    BY <1>1, SendMessage, Reflexive, Weaker DEF send_logout
  <1>3. c \in Call /\ c.cb # "on_inbound_message"
    BY DEF Call, is_connected
  <1> HIDE DEF a, c
  <1>4. Follows(a, p)
    BY <1>2, <1>3, Called, Zenon
  <1> HIDE DEF p
  <1>5. Follows(s, p) /\ Sound(p)
    BY <1>2, <1>4, Transitive, Weaker
  <1>6. Follows(s, q) /\ Sound(q)
    BY <1>5, DisconnectWriter, Transitive, Weaker
  <1> HIDE DEF q
  <1>7. Follows(s, r) /\ Sound(r)
    BY <1>6, OnDisconnect, Transitive, Weaker, SMTT(20) DEF on_peer_logout
  <1> HIDE DEF r
  <1>8. Follows(s, increment_target(r))
    BY <1>7, IncrementTarget, Transitive
  <1> QED
    BY <1>2, <1>8 DEF on_logout, r, q, p, c, a

\* A Heartbeat is counted, and may answer the test request.
LEMMA OnHeartbeat ==
  ASSUME NEW s, Sound(s), NEW m \in Message
  PROVE  Follows(s, on_heartbeat(s, m))
  <1> DEFINE p == IF is_expecting_test_response(s) /\ m.id = s.state.sent_test_request_id
                  THEN reset_peer_timer(s, 0) ELSE s
  <1>1. Follows(s, p) /\ Sound(p)
    BY ResetPeerTimer, Reflexive, Weaker
  <1> HIDE DEF p
  <1> QED
    BY <1>1, IncrementTarget, Transitive DEF on_heartbeat, p

\* A TestRequest is counted before it is answered.
LEMMA OnTestRequest ==
  ASSUME NEW s, Sound(s), NEW m \in Message
  PROVE  Follows(s, on_test_request(s, m))
  <1> DEFINE p == increment_target(s)
  <1>1. "Heartbeat" \in MsgType \ {"Logon"}
    BY DEF MsgType, AdminType
  <1>2. Follows(s, p) /\ Sound(p)
    BY IncrementTarget, Weaker
  <1> HIDE DEF p
  <1>3. Follows(s, outbound_send(p, "Heartbeat", 0, 0))
    BY <1>1, <1>2, OutboundSend, Transitive
  <1> QED
    BY <1>2, <1>3, PutPanicked, Reflexive DEF on_test_request, p

\* A message may wait in the queue if it lies beyond the gap or is a resend
\* request, which the replay only counts.
LEMMA Enqueued ==
  ASSUME NEW s, Sound(s), NEW m \in Message, s.state.st = "AwaitingResend",
         m.type # "ResendRequest" => m.seq > s.state.end
  PROVE  Follows(s, [s EXCEPT !.state.queue = Append(@, m)])
  <1> DEFINE q == Append(s.state.queue, m)
             t == [s.state EXCEPT !.queue = q]
  <1>1. s \in Session /\ s.state \in AwaitingResend /\ s.state.queue \in Seq(Message)
    BY FieldTypes, Variants DEF Sound, AwaitingResend
  <1>2. [s EXCEPT !.state.queue = Append(@, m)] = [s EXCEPT !.state = t]
    BY <1>1 DEF Session, AwaitingResend
  <1>3. /\ q \in Seq(Message)
        /\ \A i \in DOMAIN q : (i \in DOMAIN s.state.queue /\ q[i] = s.state.queue[i]) \/ q[i] = m
    BY <1>1, AppendProperties, LenProperties
  <1> HIDE DEF q
  <1>4. /\ t \in State /\ t.st = "AwaitingResend" /\ t.queue = q
        /\ t.begin = s.state.begin /\ t.end = s.state.end /\ t.attempts = s.state.attempts
    BY <1>1, <1>3 DEF AwaitingResend, State
  <1> HIDE DEF t
  <1>5. ASSUME NEW i \in DOMAIN t.queue, t.queue[i].type # "ResendRequest"
        PROVE  t.queue[i].seq > t.end
    BY <1>3, <1>4, <1>5 DEF Sound, Window
  <1>6. Window([state |-> t])
    BY <1>4, <1>5 DEF Sound, Window
  <1>7. Milder(s.state, t) /\ Awaits(t) = Awaits(s.state)
    BY <1>4 DEF Milder, Awaits
  <1>8. Follows(s, [s EXCEPT !.state = t])
    BY <1>4, <1>6, <1>7, PutState
  <1> QED
    BY <1>2, <1>8, Zenon

\* A ResendRequest is counted if it was expected, queued if it came too early.
LEMMA OnResendRequest ==
  ASSUME NEW s, Sound(s), NEW m \in Message, m.type = "ResendRequest"
  PROVE  Follows(s, on_resend_request(s, m))
  <1> DEFINE p == IF m.seq > NextTarget(s) /\ s.state.st = "AwaitingResend"
                  THEN [s EXCEPT !.state.queue = Append(@, m)] ELSE s
             last == Len(p.store.log)
             end == IF m.end = 0 \/ m.end > last THEN last ELSE m.end
             q == IF m.seq = NextTarget(p) THEN increment_target(p) ELSE p
  <1>1. Follows(s, p) /\ Sound(p)
    BY Enqueued, Reflexive, Weaker, Zenon
  <1> HIDE DEF p
  <1>2. Follows(s, send_reject(p))
    BY <1>1, SendReject, Transitive
  <1>3. Follows(s, q) /\ Sound(q)
    BY <1>1, IncrementTarget, Transitive, Weaker
  <1> HIDE DEF q
  <1>4. last \in Nat
    BY <1>1, FieldTypes, LenProperties DEF Sound
  <1> HIDE DEF last
  <1>5. Missing \notin {m.begin, m.end} => m.begin \in Nat /\ end \in Nat
    BY <1>4 DEF Message
  <1> HIDE DEF end
  <1>6. Missing \notin {m.begin, m.end} => Follows(s, resend_messages(q, m.begin, end))
    BY <1>3, <1>5, ResendMessages, Transitive
  <1>7. Follows(s, answer_resend_request(p, m))
    BY <1>2, <1>3, <1>6 DEF answer_resend_request, q, end, last
  <1> QED
    BY <1>7, Reflexive DEF on_resend_request, p

\* NewSeqNo is taken over only if it is above the number expected.
LEMMA OnSequenceReset ==
  ASSUME NEW s, Sound(s), NEW m \in Message
  PROVE  Follows(s, on_sequence_reset(s, m))
  <1>1. m.new \in Int /\ s.store.target \in Nat
    BY FieldTypes DEF Sound, Message, Missing
  <1>2. ~(m.new <= NextTarget(s)) => m.new - 1 \in Nat /\ m.new - 1 >= s.store.target
    BY <1>1 DEF NextTarget
  <1>3. ~(m.new <= NextTarget(s)) => Follows(s, set_target(s, m.new - 1))
    BY <1>2, SetTarget
  <1> QED
    BY <1>3, SendReject, Reflexive DEF on_sequence_reset

\* What a handler does that delivers a message: it is the one expected, and
\* it is counted unless the store fails.
Delivers(s, t) ==
    /\ Reaches(s, t)
    /\ Of(t.out, "ResendRequest") = Of(s.out, "ResendRequest")
    /\ Milder(s.state, t.state)
    /\ Delivered(t) = Delivered(s) \cup {NextTarget(s)}
    /\ t.resets = s.resets
    /\ Clean(s) => t.store.target = NextTarget(s)

\* An application message is counted after the callback.
LEMMA ProcessAppMessage ==
  ASSUME NEW s, Sound(s), NEW m \in Message, NEW d, is_connected(s) => m.seq = NextTarget(s)
  PROVE  Follows(s, process_app_message(s, m, d)) \/ Delivers(s, process_app_message(s, m, d))
  <1> DEFINE c == [cb |-> "on_inbound_message", seq |-> m.seq, verified |-> is_connected(s)]
             p == [s EXCEPT !.calls = Append(@, c)]
             q == CASE d = "Accept" -> p
                    [] d = "Reject" -> send_message(p, "App")
                    [] OTHER        -> disconnect_writer(p)
             r == increment_target(q)
  <1>1. c \in Call /\ c.cb = "on_inbound_message" /\ c.verified = is_connected(s) /\ c.seq = m.seq
    BY DEF Call, is_connected, Message
  <1> HIDE DEF c
  <1>2. /\ Reaches(s, p)
        /\ ~is_connected(s) => Follows(s, p)
        /\ is_connected(s) => Delivered(p) = Delivered(s) \cup {NextTarget(s)}
        /\ p.state = s.state /\ p.store = s.store /\ p.resets = s.resets /\ p.out = s.out
    <2>1. /\ Reaches(s, p)
          /\ ~c.verified => Follows(s, p)
          /\ c.verified => Delivered(p) = Delivered(s) \cup {c.seq}
          /\ p.state = s.state /\ p.store = s.store /\ p.resets = s.resets /\ p.out = s.out
      BY <1>1, Called, Zenon
    <2> QED
      BY <1>1, <2>1, SMTT(20)
  <1>3. Sound(p)
    BY <1>2, Weaker
  <1> HIDE DEF p
  <1>4. "App" \in MsgType \ {"ResendRequest"}
    BY DEF MsgType, AdminType
  <1>5. Follows(p, q) /\ Sound(q) /\ q.store.target = p.store.target /\ q.resets = p.resets
    BY <1>3, <1>4, SendMessage, DisconnectWriter, Reflexive, Weaker, SMTT(20)
  <1> HIDE DEF q
  <1>6. /\ Follows(q, r) /\ r.resets = q.resets
        /\ Clean(q) => r.store.target = q.store.target + 1
    BY <1>5, IncrementTarget
  <1>7. Follows(p, r)
    BY <1>3, <1>5, <1>6, Transitive
  <1>8. process_app_message(s, m, d) = IF q.err THEN q ELSE r
    BY DEF process_app_message, r, q, p, c
  <1> HIDE DEF r
  <1>9. CASE ~is_connected(s)
    <2>1. Follows(s, q) /\ Follows(s, r)
      BY <1>2, <1>5, <1>7, <1>9, Transitive
    <2> QED
      BY <1>8, <2>1
  <1>10. CASE is_connected(s)
    <2>1. ASSUME NEW t, Follows(p, t), t.resets = p.resets,
                 Clean(s) => t.store.target = NextTarget(s)
          PROVE  Delivers(s, t)
      <3>1. Reaches(s, t)
        BY <1>2, <2>1, Transitive, Weaker, SMTT(20)
      <3>2. Of(t.out, "ResendRequest") = Of(s.out, "ResendRequest") /\ Milder(s.state, t.state)
            /\ Delivered(t) = Delivered(s) \cup {NextTarget(s)}
        BY <1>2, <1>10, <2>1, SMTT(20) DEF Follows, Calm
      <3> QED
        BY <1>2, <2>1, <3>1, <3>2, SMTT(20) DEF Delivers
    <2>2. Clean(s) => Clean(q)
      BY <1>2, <1>5 DEF Reaches, Follows, Leads, Kept
    <2>3. q.err => ~Clean(s)
      BY <2>2 DEF Clean
    <2>4. Clean(s) => r.store.target = NextTarget(s)
      BY <1>2, <1>5, <1>6, <2>2, SMTT(20) DEF NextTarget
    <2>5. q.err => Delivers(s, q)
      BY <1>5, <2>1, <2>3
    <2>6. Delivers(s, r)
      BY <1>5, <1>6, <1>7, <2>1, <2>4
    <2> QED
      BY <1>8, <2>5, <2>6, SMTT(20)
  <1> QED
    BY <1>9, <1>10

\* What processing one message comes to.
Results(s, t) == Follows(s, t) \/ Requests(s, t) \/ Delivers(s, t)

\* Whatever the type of a verified message ...
LEMMA Dispatch ==
  ASSUME NEW s, Sound(s), NEW m \in Message, NEW d, verdict_on(s, m) = "Ok"
  PROVE  Results(s, dispatch(s, m, d))
  <1>1. ASSUME m.type = "App", is_connected(s)
        PROVE  m.seq = NextTarget(s)
    <2>1. verify_message(m, NextTarget(s), for_message(m)) = "Ok"
      BY <1>1 DEF verdict_on
    <2>2. m.flaw # "Ok"
      BY DEF Message, HeaderFlaw, OrigFlaw
    <2>3. check_sequence_number(m, NextTarget(s), for_message(m)) = "Ok"
      BY <2>1, <2>2 DEF verify_message
    <2>4. for_message(m).check_too_high /\ for_message(m).check_too_low
      BY <1>1 DEF for_message, VerificationFlags
    <2>5. ~(m.seq > NextTarget(s)) /\ ~(m.seq < NextTarget(s))
      BY <2>3, <2>4 DEF check_sequence_number
    <2>6. m.seq \in Nat /\ NextTarget(s) \in Nat
      BY FieldTypes DEF Sound, NextTarget, Message
    <2> QED
      BY <2>5, <2>6
  <1>2. m.type \in MsgType
    BY DEF Message
  <1>3. m.type = "App" => Results(s, process_app_message(s, m, d))
    BY <1>1, ProcessAppMessage DEF Results
  <1>4. ASSUME NEW t, Follows(s, t)
        PROVE  Results(s, t)
    BY <1>4 DEF Results
  <1>5. CASE m.type = "App"
    BY <1>3, <1>5 DEF dispatch
  <1>6. CASE m.type \in AdminType
    <2>1. Follows(s, dispatch(s, m, d))
      BY <1>6, OnHeartbeat, OnTestRequest, OnResendRequest, IncrementTarget, OnSequenceReset,
         OnLogout, OnLogon, SMTT(20)
      DEF dispatch, on_reject, AdminType
    <2> QED
      BY <1>4, <2>1
  <1> QED
    BY <1>2, <1>5, <1>6 DEF MsgType

\* ... and whatever the verdict on a message that is not verified.
LEMMA ProcessMessage ==
  ASSUME NEW s, Sound(s), NEW m \in Message, NEW d
  PROVE  Results(s, process_message(s, m, d))
  <1>1. CASE pre_process_inbound(s, m) = "Queued"
    <2>1. s.state.st = "AwaitingResend" /\ m.seq > s.state.end
      BY <1>1 DEF pre_process_inbound
    <2> QED
      BY <1>1, <2>1, Enqueued DEF process_message, Results
  <1>2. CASE pre_process_inbound(s, m) = "Disconnect"
    BY <1>2, DisconnectWriter DEF process_message, Results
  <1>3. CASE pre_process_inbound(s, m) \notin {"Queued", "Disconnect"} /\ verdict_on(s, m) = "Ok"
    BY <1>3, Dispatch DEF process_message
  <1>4. CASE pre_process_inbound(s, m) \notin {"Queued", "Disconnect"} /\ verdict_on(s, m) # "Ok"
    BY <1>4, HandleVerificationIssue DEF process_message, Results
  <1> QED
    BY <1>1, <1>2, <1>3, <1>4

\* The end of a gap: the number expected is beyond the one the request began with.
Reopens(s, t) ==
    /\ Reaches(s, t)
    /\ t.out = s.out /\ t.calls = s.calls /\ t.store = s.store /\ t.resets = s.resets /\ t.err = s.err
    /\ s.state.st = "AwaitingResend" /\ t.state.st = "Active"
    /\ s.state.begin # NextTarget(s)

\* The messages that waited become the backlog.
LEMMA CheckEndOfResend ==
  ASSUME NEW s, Sound(s)
  PROVE  check_end_of_resend(s) = s \/ Reopens(s, check_end_of_resend(s))
  <1> SUFFICES ASSUME s.state.st = "AwaitingResend", NextTarget(s) > s.state.end
               PROVE  Reopens(s, check_end_of_resend(s))
    BY DEF check_end_of_resend
  <1> DEFINE p == new_active(s)
             r == [p EXCEPT !.backlog = s.state.queue]
  <1>1. /\ Reaches(s, p) /\ p.state.st = "Active" /\ p.store = s.store /\ p.resets = s.resets
        /\ p.out = s.out /\ p.calls = s.calls /\ p.err = s.err
    BY NewActive
  <1>2. Sound(p) /\ p \in Session
    BY <1>1, Weaker DEF Sound
  <1>3. s.state \in AwaitingResend
    BY FieldTypes, Variants DEF Sound
  <1>4. s.state.queue \in Seq(Message) /\ s.state.begin \in Nat /\ s.state.end \in Nat
    BY <1>3 DEF AwaitingResend
  <1>5. r = check_end_of_resend(s)
    BY DEF check_end_of_resend
  <1> HIDE DEF p
  <1>6. Follows(p, r)
    BY <1>2, <1>4, PutBacklog
  <1>7. /\ r.state = p.state /\ r.store = p.store /\ r.resets = p.resets
        /\ r.out = p.out /\ r.calls = p.calls /\ r.err = p.err
    BY <1>2 DEF Session
  <1> HIDE DEF r
  <1>8. Reaches(s, r)
    BY <1>1, <1>6, Transitive, Weaker
  <1>9. s.state.begin # NextTarget(s)
    <2>1. s.state.begin < s.state.end
      BY DEF Sound, Window
    <2>2. NextTarget(s) \in Nat
      BY FieldTypes DEF Sound, NextTarget
    <2> QED
      BY <1>4, <2>1, <2>2
  <1> QED
    BY <1>1, <1>5, <1>7, <1>8, <1>9 DEF Reopens

\* A message of an unknown type is rejected and counted.
LEMMA HandleInvalidMsgType ==
  ASSUME NEW s, Sound(s), NEW m \in Message
  PROVE  Follows(s, handle_invalid_msg_type(s, m))
  <1> DEFINE q == logged(s, send_reject(s))
  <1>1. Follows(s, send_reject(s))
    BY SendReject
  <1>2. Follows(s, q) /\ Sound(q)
    BY <1>1, Logged, Weaker
  <1> HIDE DEF q
  <1>3. Follows(s, increment_target(q))
    BY <1>2, IncrementTarget, Transitive
  <1>4. Follows(s, logged(s, increment_target(q)))
    BY <1>3, Logged
  <1> QED
    BY <1>2, <1>4, Reflexive DEF handle_invalid_msg_type, q

\* An error ends the session and drops the backlog, whether the store works
\* again or not.
LEMMA Settled ==
  ASSUME NEW s, Sound(s), NEW f \in {s.fault, "none"}
  PROVE  settled(s, f) = s \/ (s.err /\ Follows(s, settled(s, f)))
  <1> SUFFICES ASSUME s.err, ~s.panicked
               PROVE  Follows(s, settled(s, f))
    BY Zenon DEF settled
  <1> DEFINE a == [s EXCEPT !.err = FALSE, !.fault = f]
             p == logout_and_terminate(a)
             q == new_disconnected(p, TRUE)
  <1>0. Follows(s, a) /\ Sound(a)
    <2>1. s \in Session /\ f \in Fault
      BY DEF Sound, Session, Fault
    <2>2. a \in Session
      BY <2>1, Zenon DEF Session
    <2>3. /\ a.state = s.state /\ a.store = s.store /\ a.resets = s.resets /\ a.out = s.out
          /\ a.calls = s.calls /\ a.writer = s.writer /\ a.answer = s.answer
          /\ a.panicked = s.panicked
      BY <2>1 DEF Session
    <2> HIDE DEF a
    <2> QED
      BY <2>2, <2>3, Untouched, Weaker, Zenon DEF Clean
  <1> HIDE DEF a
  <1>1. Follows(s, p) /\ Sound(p)
    BY <1>0, LogoutAndTerminate, Transitive, Weaker, SMTT(20)
  <1> HIDE DEF p
  <1>2. Follows(p, q)
    BY <1>1, NewDisconnected, Zenon
  <1>3. Follows(s, q) /\ Sound(q)
    BY <1>1, <1>2, Transitive, Weaker, Zenon
  <1> HIDE DEF q
  <1>4. << >> \in Seq(Message)
    OBVIOUS
  <1>5. Follows(s, [q EXCEPT !.backlog = << >>])
    BY <1>3, <1>4, PutBacklog, Transitive, Zenon
  <1> QED
    BY <1>5 DEF settled, q, p, a

\* What a message does to a session, in stages: the timer or the backlog, the
\* message itself, the end of a gap, and the error handling of
\* handle_session_event.
Handles(s, p, q, r, t) ==
    /\ Follows(s, p)
    /\ Results(p, q)
    /\ r = q \/ Reopens(q, r)
    /\ t = r \/ (r.err /\ Follows(r, t))

Incoming(s, t) == \E p, q, r : Handles(s, p, q, r, t)

\* Whatever process_message does, it reaches a sound session, ...
LEMMA ResultsReach ==
  ASSUME NEW s, NEW t, Results(s, t)
  PROVE  Reaches(s, t)
  BY Weaker, Zenon DEF Results, Requests, Delivers

\* ... and so does all that a message leads to.
LEMMA IncomingReaches ==
  ASSUME NEW s, NEW t, Sound(s), Incoming(s, t)
  PROVE  Reaches(s, t)
  <1>1. PICK p, q, r : Handles(s, p, q, r, t)
    BY DEF Incoming
  <1>2. Reaches(s, p)
    BY <1>1, Weaker DEF Handles
  <1>3. Reaches(p, q)
    BY <1>1, ResultsReach DEF Handles
  <1>4. Reaches(s, q)
    BY <1>2, <1>3, Transitive
  <1>5. r = q \/ Reaches(q, r)
    BY <1>1, Zenon DEF Handles, Reopens
  <1>6. Reaches(s, r)
    BY <1>4, <1>5, Transitive
  <1>7. t = r \/ Reaches(r, t)
    BY <1>1, Weaker, Zenon DEF Handles
  <1> QED
    BY <1>6, <1>7, Transitive

\* on_incoming, with the error handling of handle_session_event.
LEMMA OnIncoming ==
  ASSUME NEW s, Sound(s), NEW m \in Message, NEW d, NEW f \in {on_incoming(s, m, d).fault, "none"}
  PROVE  Incoming(s, settled(on_incoming(s, m, d), f))
  <1> DEFINE p == IF is_expecting_test_response(s) THEN s ELSE reset_peer_timer(s, 0)
             a == process_message(p, m, d)
             r == on_incoming(s, m, d)
             t == settled(r, f)
  <1>1. Follows(s, p) /\ Sound(p)
    BY ResetPeerTimer, Reflexive, Weaker
  <1> HIDE DEF p
  <1>2. Results(p, a)
    BY <1>1, ProcessMessage
  <1>3. Sound(a)
    BY <1>2, ResultsReach, Weaker
  <1> HIDE DEF a
  <1>4. check_end_of_resend(a) = a \/ Reopens(a, check_end_of_resend(a))
    BY <1>3, CheckEndOfResend
  <1>5. "Reject" \in MsgType \ {"ResendRequest"}
    BY DEF MsgType, AdminType
  <1>6. Results(p, send_message(p, "Reject"))
    BY <1>1, <1>5, SendMessage DEF Results
  <1>7. Results(p, handle_invalid_msg_type(p, m))
    BY <1>1, HandleInvalidMsgType DEF Results
  <1>8. Results(p, p)
    BY <1>1, Reflexive DEF Results
  <1>p. Results(p, [p EXCEPT !.panicked = TRUE])
    BY <1>1, PutPanicked, Zenon DEF Results
  <1>9. r \in {a, check_end_of_resend(a), send_message(p, "Reject"), handle_invalid_msg_type(p, m), p,
              [p EXCEPT !.panicked = TRUE]}
    BY DEF on_incoming, a, p
  <1>f. f \in {r.fault, "none"}
    OBVIOUS
  <1> HIDE DEF r
  <1>10. \E q : Results(p, q) /\ (r = q \/ Reopens(q, r))
    BY <1>2, <1>4, <1>6, <1>7, <1>8, <1>9, <1>p, Zenon
  <1>11. PICK q : Results(p, q) /\ (r = q \/ Reopens(q, r))
    BY <1>10, Zenon
  <1>12. Sound(r)
    <2>1. Sound(q)
      BY <1>11, ResultsReach, Weaker
    <2> QED
      BY <1>11, <2>1, Weaker DEF Reopens
  <1>13. t = r \/ (r.err /\ Follows(r, t))
    BY <1>12, <1>f, Settled
  <1> HIDE DEF t
  <1>14. Handles(s, p, q, r, t)
    BY <1>1, <1>11, <1>13, Zenon DEF Handles
  <1> QED
    BY <1>14, Zenon DEF Incoming, t, r

\* One turn of the replay loop, with the same error handling.
LEMMA ReplayOne ==
  ASSUME NEW s, Sound(s), s.backlog # << >>, NEW d, NEW f \in {replay_one(s, d).fault, "none"}
  PROVE  Incoming(s, settled(replay_one(s, d), f))
  <1> DEFINE m == Head(s.backlog)
             p == [s EXCEPT !.backlog = Tail(@)]
             r == replay_one(s, d)
             t == settled(r, f)
  <1>1. s \in Session /\ s.backlog \in Seq(Message)
    BY FieldTypes DEF Sound
  <1>2. m \in Message /\ Tail(s.backlog) \in Seq(Message)
    BY <1>1, HeadTailProperties
  <1>3. p = [s EXCEPT !.backlog = Tail(s.backlog)]
    BY <1>1 DEF Session
  <1> HIDE DEF m, p
  <1>4. Follows(s, p) /\ Sound(p)
    BY <1>2, <1>3, PutBacklog, Weaker, Zenon
  <1>5. Results(p, increment_target(p)) /\ Results(p, process_message(p, m, d))
    BY <1>2, <1>4, IncrementTarget, ProcessMessage, SMTT(20) DEF Results
  <1>6. Results(p, r)
    BY <1>5, SMTT(20) DEF replay_one, p, m
  <1>7. Sound(r) /\ f \in {r.fault, "none"}
    BY <1>6, ResultsReach, Weaker
  <1> HIDE DEF r
  <1>8. t = r \/ (r.err /\ Follows(r, t))
    BY <1>7, Settled
  <1> HIDE DEF t
  <1>9. Handles(s, p, r, r, t)
    BY <1>4, <1>6, <1>8, Zenon DEF Handles
  <1> QED
    BY <1>9, Zenon DEF Incoming, t, r

-----------------------------------------------------------------------------
(* The handlers of module Session *)

\* The schedule check may log out, terminate or clear the store.
LEMMA HandleScheduleCheck ==
  ASSUME NEW s, Sound(s), now \in Nat
  PROVE  Follows(s, handle_schedule_check(s))
  <1> DEFINE n == notify_schedule_awaiter(s)
             p == logout_and_terminate(n)
             q == reset(p, now)
             r == new_disconnected(q, FALSE)
  <1>1. Follows(s, n) /\ Sound(n)
    BY NotifyAwaiter, Weaker
  <1> HIDE DEF n
  <1>2. Follows(s, p) /\ Sound(p)
    BY <1>1, LogoutAndTerminate, Transitive, Weaker, SMTT(20)
  <1> HIDE DEF p
  <1>3. Follows(s, q) /\ Sound(q)
    BY <1>2, Reset, Transitive, Weaker
  <1> HIDE DEF q
  <1>4. Follows(q, r)
    BY <1>3, NewDisconnected, Zenon
  <1>5. Follows(s, r)
    BY <1>3, <1>4, Transitive, Zenon
  <1> HIDE DEF r
  <1>6. Follows(s, [r EXCEPT !.err = FALSE])
    BY <1>5, PutErr, Zenon
  <1>7. Follows(s, end_period(n))
    BY <1>3, <1>6, SMTT(20) DEF end_period, r, q, p
  <1> QED
    BY <1>1, <1>2, <1>7, InitiateGracefulLogout, ZenonT(30) DEF handle_schedule_check, p, n

\* A Logon and nothing else was written.
OneLogon(q) == \E x : q = <<x>> /\ x.type = "Logon"

\* A new connection: AwaitingLogon, then the Logon, possibly after a reset.
LEMMA OnConnect ==
  ASSUME NEW s, Sound(s), now \in Nat
  PROVE  LET t == on_connect(s)
         IN  /\ Leads(s, t) /\ t.state.st = "AwaitingLogon"
             /\ Of(t.out, "ResendRequest") = Of(s.out, "ResendRequest")
             /\ Delivered(t) = Delivered(s)
             /\ Clean(s) /\ s.out = << >> => OneLogon(t.out)
  <1> DEFINE a == [st |-> "AwaitingLogon", logon_sent |-> FALSE, late |-> FALSE]
             p == transition_to(s, a)
             w == [p EXCEPT !.writer = "open"]
             c == IF ResetOnLogon \/ w.reset_on_next_logon THEN reset(w, now) ELSE w
             l == [c EXCEPT !.reset_on_next_logon = FALSE]
             t == send_message(l, "Logon")
  <1>1. a \in State /\ Window([state |-> a]) /\ a.st = "AwaitingLogon" /\ ~a.logon_sent
    BY DEF State, AwaitingLogon, Window
  <1>2. on_connect(s) = IF c.err THEN c ELSE t
    BY DEF on_connect, send_logon
  <1> HIDE DEF a
  <1>3. Leads(s, p) /\ p.state = a /\ p.out = s.out /\ p.calls = s.calls
    BY <1>1, TransitionTo
  <1>4. Sound(p) /\ p \in Session
    BY <1>3, Weaker DEF Sound
  <1> HIDE DEF p
  <1>5. w \in Session
    BY <1>4, Zenon DEF Session
  <1>6. /\ w.state = p.state /\ w.store = p.store /\ w.resets = p.resets
        /\ w.out = p.out /\ w.calls = p.calls /\ w.answer = p.answer
        /\ w.panicked = p.panicked /\ w.fault = p.fault /\ w.err = p.err /\ w.writer = "open"
    BY <1>4, Zenon DEF Session
  <1> HIDE DEF w
  <1>7. Moves(p, w)
    <2>1. Window(w)
      BY <1>4, <1>6 DEF Sound, Window
    <2>2. p.store.target >= p.store.target /\ p.resets \in BOOLEAN
      BY <1>4 DEF Session, Store
    <2> QED
      BY <1>5, <1>6, <2>1, <2>2, ZenonT(30) DEF Moves, Onward, Sound
  <1>8. Kept(p, w)
    <2>1. Unplugged(w)
      BY <1>1, <1>3, <1>6 DEF Unplugged
    <2> QED
      BY <1>6, <2>1, Zenon DEF Kept, Clean, Stored, Filed, Posted
  <1>9. Leads(s, w) /\ Sound(w)
    BY <1>3, <1>7, <1>8, Transitive, Weaker, SMTT(20) DEF Leads
  <1>10. /\ Follows(w, c) /\ Sound(c) /\ c.state = a
         /\ Clean(w) => c.out = w.out /\ c.writer = "open"
    <2>1. Follows(w, reset(w, now)) /\ reset(w, now).state = a
      BY <1>3, <1>6, <1>9, Reset
    <2>2. Clean(w) => reset(w, now) = cleared(w, now)
      BY DEF Clean, reset
    <2>3. cleared(w, now).out = w.out /\ cleared(w, now).writer = w.writer
      BY <1>5 DEF cleared, Session
    <2> QED
      BY <1>3, <1>6, <1>9, <2>1, <2>2, <2>3, Reflexive, Weaker, SMTT(20)
  <1> HIDE DEF c
  <1>11. Follows(c, l) /\ Sound(l)
    BY <1>10, PutResetOnLogon, Weaker, Zenon
  <1>12. l.state = c.state /\ l.out = c.out /\ l.writer = c.writer
    BY <1>10 DEF Sound, Session
  <1> HIDE DEF l
  <1>13. "Logon" \in MsgType \ {"ResendRequest"}
    BY DEF MsgType, AdminType
  <1>14. /\ Leads(l, t) /\ Calm(l, t) /\ t.state.st = "AwaitingLogon"
         /\ Clean(l) /\ l.writer = "open" => t.out = Append(l.out, Fresh(l, "Logon", 0, 0))
    <2>1. l.state.st = "AwaitingLogon" /\ ~l.state.logon_sent
      BY <1>1, <1>10, <1>12, SMTT(20)
    <2> QED
      BY <2>1, <1>11, <1>13, SendMessage, ZenonT(30)
  <1> HIDE DEF t
  <1>15. Leads(s, c) /\ Leads(s, t)
    <2>1. Leads(s, c)
      BY <1>9, <1>10, Transitive, Weaker, SMTT(20)
    <2>2. Leads(s, l)
      BY <2>1, <1>11, Transitive, Weaker, SMTT(20)
    <2> QED
      BY <2>1, <2>2, <1>14, Transitive, SMTT(20)
  <1>16. /\ Of(w.out, "ResendRequest") = Of(s.out, "ResendRequest")
         /\ Delivered(w) = Delivered(s)
    BY <1>3, <1>6, SameCalls
  <1>17. /\ Of(c.out, "ResendRequest") = Of(s.out, "ResendRequest")
         /\ Delivered(c) = Delivered(s)
    BY <1>10, <1>16, Zenon DEF Follows, Calm
  <1>18. /\ Of(t.out, "ResendRequest") = Of(s.out, "ResendRequest")
         /\ Delivered(t) = Delivered(s)
    BY <1>11, <1>14, <1>17, Zenon DEF Follows, Calm
  <1>19. ASSUME Clean(s), s.out = << >>
         PROVE  ~c.err /\ OneLogon(t.out)
    <2>1. Clean(w) /\ Clean(c) /\ Clean(l)
      BY <1>9, <1>10, <1>11, <1>19, Weaker, SMTT(20) DEF Leads, Kept
    <2>2. t.out = Append(<< >>, Fresh(l, "Logon", 0, 0))
      BY <1>3, <1>6, <1>10, <1>12, <1>14, <1>19, <2>1, SMTT(20)
    <2>3. t.out = <<Fresh(l, "Logon", 0, 0)>>
      BY <2>2
    <2>4. Fresh(l, "Logon", 0, 0).type = "Logon"
      BY DEF Fresh
    <2> QED
      BY <2>1, <2>3, <2>4, ZenonT(30) DEF Clean, OneLogon
  <1>20. c.state.st = "AwaitingLogon"
    BY <1>1, <1>10
  <1> QED
    BY <1>2, <1>14, <1>15, <1>17, <1>18, <1>19, <1>20, SMTT(20)

\* A message of the application.
LEMMA HandleOutboundMessage ==
  ASSUME NEW s, Sound(s), NEW d
  PROVE  Follows(s, handle_outbound_message(s, d))
  <1>1. "App" \in MsgType \ {"ResendRequest"}
    BY DEF MsgType, AdminType
  <1> QED
    BY <1>1, SendMessage, DisconnectWriter, Reflexive DEF handle_outbound_message

\* The peer timer: a TestRequest, a Logout or a closed writer.
LEMMA HandlePeerTimeout ==
  ASSUME NEW s, Sound(s)
  PROVE  Follows(s, handle_peer_timeout(s))
  <1> DEFINE p == send_message(s, "TestRequest")
  <1>1. "TestRequest" \in MsgType \ {"ResendRequest"}
    BY DEF MsgType, AdminType
  <1>2. Follows(s, p) /\ Sound(p)
    BY <1>1, SendMessage, Weaker
  <1> HIDE DEF p
  <1>3. NextTarget(s) \in Nat
    BY FieldTypes DEF Sound, NextTarget
  <1>4. Follows(s, reset_peer_timer(p, NextTarget(s)))
    BY <1>2, <1>3, ResetPeerTimer, Transitive
  <1> QED
    BY <1>4, LogoutAndTerminate, DisconnectWriter DEF handle_peer_timeout, p

-----------------------------------------------------------------------------
(* The observations *)

Hist == [last : Nat, twice : BOOLEAN, asked : Nat,
         first : MsgType \cup {"Resend", "none"}, logons : Nat]

\* Messages are counted with a natural number.
LEMMA CountType ==
  ASSUME NEW seq \in Seq(Outbound), NEW type
  PROVE  Count(seq, type) \in Nat
  <1>1. IsFiniteSet(1 .. Len(seq))
    BY LenProperties, FS_Interval
  <1>2. DOMAIN seq = 1 .. Len(seq)
    BY LenProperties
  <1>3. IsFiniteSet({i \in DOMAIN seq : seq[i].type = type})
    BY <1>1, <1>2, FS_Subset
  <1> QED
    BY <1>3, FS_CardinalityType DEF Count

\* Observing a sound step gives a well-typed history.
LEMMA ObserveType ==
  ASSUME NEW h \in Hist, NEW old \in Session, NEW s \in Session, NEW connecting \in BOOLEAN
  PROVE  observe(h, old, s, connecting) \in Hist
  <1> DEFINE last  == IF s.resets THEN 0 ELSE h.last
             first == IF connecting THEN "none" ELSE h.first
             moved == s.resets \/ s.store.target # old.store.target
             a == (IF moved \/ connecting THEN 0 ELSE h.asked) + Count(s.out, "ResendRequest")
             l == (IF connecting THEN 0 ELSE h.logons) + Count(s.out, "Logon")
             r == Raised(last, Delivered(s))
             t == h.twice \/ \E n \in Delivered(s) : n <= last
             f == IF first = "none" /\ s.out # << >> THEN Head(s.out).type ELSE first
  <1>1. s.out \in Seq(Outbound) /\ s.calls \in Seq(Call)
    BY FieldTypes
  <1>2. a \in Nat /\ l \in Nat
    <2>1. Count(s.out, "ResendRequest") \in Nat /\ Count(s.out, "Logon") \in Nat
      BY <1>1, CountType
    <2>2. h.asked \in Nat /\ h.logons \in Nat
      BY DEF Hist
    <2> QED
      BY <2>1, <2>2
  <1>3. r \in Nat
    <2>1. last \in Nat
      BY DEF Hist
    <2>2. Delivered(s) \subseteq Nat
      <3> SUFFICES ASSUME NEW i \in DOMAIN s.calls
                   PROVE  s.calls[i].seq \in Nat
        BY DEF Delivered
      <3>1. s.calls[i] \in Call
        BY <1>1, ElementOfSeq
      <3> QED
        BY <3>1 DEF Call
    <2> HIDE DEF last
    <2> QED
      BY <2>1, <2>2 DEF Raised
  <1>4. t \in BOOLEAN
    BY DEF Hist
  <1>5. f \in MsgType \cup {"Resend", "none"}
    <2>1. s.out # << >> => Head(s.out) \in Outbound
      BY <1>1, HeadTailProperties
    <2>2. s.out # << >> => Head(s.out).type \in MsgType \cup {"Resend"}
      BY <2>1 DEF Outbound
    <2>3. h.first \in MsgType \cup {"Resend", "none"}
      BY DEF Hist
    <2> QED
      BY <2>2, <2>3
  <1>6. observe(h, old, s, connecting) = [last |-> r, twice |-> t, asked |-> a, first |-> f, logons |-> l]
    BY DEF observe
  <1> HIDE DEF r, t, a, f, l
  <1> QED
    BY <1>2, <1>3, <1>4, <1>5, <1>6 DEF Hist

-----------------------------------------------------------------------------
(* The inductive invariant *)

\* TypeOK and ResendWindow are inductive together: the types of the queue's
\* messages are needed for the window, and nothing else is.
SInv == TypeOK /\ ResendWindow

\* What TargetNeverLowered says of a step.
NotLowered == session'.store.target >= session.store.target \/ session'.resets

\* The record a handler starts from is sound and has the session's store.
LEMMA Begun ==
  ASSUME SInv, NEW f \in Fault
  PROVE  /\ Sound(begun(f))
         /\ begun(f).store = session.store /\ begun(f).backlog = session.backlog
  <1> DEFINE r == begun(f)
  <1>1. session \in Session
    BY DEF SInv, TypeOK
  <1>2. << >> \in Seq(Outbound) /\ << >> \in Seq(Call)
    OBVIOUS
  <1>3. r \in Session
    BY <1>1, <1>2, Zenon DEF Session, begun
  <1>4. r.state = session.state /\ r.store = session.store /\ r.backlog = session.backlog
    BY <1>1 DEF Session, begun
  <1> HIDE DEF r
  <1>5. Window(r)
    BY <1>4 DEF SInv, ResendWindow, Window
  <1> QED
    BY <1>3, <1>4, <1>5 DEF Sound, r

\* Forgetting the failure changes nothing that matters.
LEMMA Ended ==
  ASSUME NEW s, Sound(s)
  PROVE  /\ ended(s) \in Session /\ Window(ended(s))
         /\ ended(s).store = s.store /\ ended(s).resets = s.resets
  <1> DEFINE r == ended(s)
  <1>1. s \in Session
    BY DEF Sound
  <1>2. r \in Session
    BY <1>1, Zenon DEF Session, ended, Fault
  <1>3. r.state = s.state /\ r.store = s.store /\ r.resets = s.resets
    BY <1>1 DEF Session, ended
  <1> HIDE DEF r
  <1>4. Window(r)
    BY <1>3 DEF Sound, Window
  <1> QED
    BY <1>2, <1>3, <1>4 DEF r

\* What a handler that moves on leaves behind.
LEMMA Concluded ==
  ASSUME SInv, NEW f \in Fault, NEW s, Moves(begun(f), s),
         NEW connecting \in BOOLEAN, concluded(s, connecting)
  PROVE  /\ session' \in Session /\ ResendWindow'
         /\ hist' \in Hist
         /\ NotLowered
  <1>1. Sound(s) /\ s \in Session
    BY Weaker DEF Sound
  <1>2. session' = ended(s) /\ hist' = observe(hist, session, s, connecting)
    BY DEF concluded
  <1>3. session' \in Session /\ Window(session') /\ session'.store = s.store /\ session'.resets = s.resets
    BY <1>1, <1>2, Ended, SMTT(20)
  <1>4. ResendWindow'
    BY <1>3 DEF ResendWindow, Window
  <1>5. hist' \in Hist
    BY <1>1, <1>2, ObserveType DEF SInv, TypeOK, Hist
  <1>6. s.resets \/ s.store.target >= session.store.target
    BY Begun, ZenonT(30) DEF Moves, Onward
  <1> QED
    BY <1>3, <1>4, <1>5, <1>6, ZenonT(30) DEF NotLowered

\* The schedule check in front of every event.
LEMMA Checked ==
  ASSUME SInv, NEW f \in Fault
  PROVE  Follows(begun(f), checked(f)) /\ Sound(checked(f))
  BY Begun, HandleScheduleCheck, Weaker DEF SInv, TypeOK, checked

\* The failures of a step are store failures.
LEMMA FaultNowType == FaultNow \cup {"none"} \subseteq Fault
  BY SessionAssumption, Zenon DEF FaultNow, Fault

\* A step of the session task like most: what it does, a message can do.
Ordinary == \E f \in FaultNow \cup {"none"} : \E s : Incoming(begun(f), s) /\ handled(s)

\* What a message can do includes what follows.
LEMMA FollowsIncoming ==
  ASSUME NEW s, NEW t, Follows(s, t)
  PROVE  Incoming(s, t)
  <1>1. Results(t, t)
    BY Weaker, Reflexive DEF Results
  <1>2. Handles(s, t, t, t, t)
    BY <1>1, Zenon DEF Handles
  <1> QED
    BY <1>2, Zenon DEF Incoming

\* An event may come after the schedule check.
LEMMA IncomingAfter ==
  ASSUME NEW s, NEW t, NEW u, Sound(s), Follows(s, t), Incoming(t, u)
  PROVE  Incoming(s, u)
  <1>1. PICK p, q, r : Handles(t, p, q, r, u)
    BY DEF Incoming
  <1>2. Follows(s, p)
    BY <1>1, Transitive DEF Handles
  <1>3. Handles(s, p, q, r, u)
    BY <1>1, <1>2, Zenon DEF Handles
  <1> QED
    BY <1>3, Zenon DEF Incoming

\* All steps but three are ordinary: a new connection, the initiator's wait for
\* the schedule and the operator's new target number are not.
LEMMA StepShape ==
  ASSUME SInv, SessionStep
  PROVE  Ordinary \/ Connected \/ AwaitSchedule \/ SetNextTarget
  <1>b. ASSUME NEW f \in FaultNow, NEW s, Follows(begun(f), s), handled(s)
        PROVE  Ordinary
    <2>1. Incoming(begun(f), s)
      BY <1>b, FollowsIncoming
    <2> QED
      BY <1>b, <2>1, Zenon DEF Ordinary
  <1>c. ASSUME NEW f \in FaultNow
        PROVE  /\ Sound(begun(f)) /\ Sound(checked(f)) /\ Follows(begun(f), checked(f))
               /\ begun(f).backlog = session.backlog
    BY <1>c, FaultNowType, Begun, Checked
  <1>1. CASE FixMessageReceived
    <2>1. PICK m \in PeerMessages, d \in AppDecisions, f \in FaultNow :
             settles(on_incoming(checked(f), m, d))
      BY <1>1 DEF FixMessageReceived
    <2> DEFINE r == on_incoming(checked(f), m, d)
    <2>2. m \in Message
      BY SessionAssumption
    <2>3. PICK g \in {r.fault, "none"} : handled(settled(r, g))
      BY <2>1, Zenon DEF settles
    <2>4. Incoming(checked(f), settled(r, g))
      BY <1>c, <2>2, OnIncoming, SMTT(20)
    <2>5. Incoming(begun(f), settled(r, g))
      BY <1>c, <2>4, IncomingAfter
    <2> QED
      BY <2>3, <2>5, Zenon DEF Ordinary
  <1>2. CASE ReplayBacklog
    <2>1. PICK d \in AppDecisions, f \in FaultNow : settles(replay_one(begun(f), d))
      BY <1>2 DEF ReplayBacklog
    <2> DEFINE r == replay_one(begun(f), d)
    <2>2. begun(f).backlog # << >>
      BY <1>2, <1>c DEF ReplayBacklog
    <2>3. PICK g \in {r.fault, "none"} : handled(settled(r, g))
      BY <2>1, Zenon DEF settles
    <2>4. Incoming(begun(f), settled(r, g))
      BY <1>c, <2>2, ReplayOne
    <2> QED
      BY <2>3, <2>4, Zenon DEF Ordinary
  <1>3. CASE ReaderDisconnected
    <2>1. PICK f \in FaultNow : handled(on_disconnect(disconnect_writer(checked(f))))
      BY <1>3, SMTT(20) DEF ReaderDisconnected
    <2>2. Follows(begun(f), disconnect_writer(checked(f))) /\ Sound(disconnect_writer(checked(f)))
      BY <1>c, DisconnectWriter, Transitive, Weaker, SMTT(20)
    <2>3. Follows(begun(f), on_disconnect(disconnect_writer(checked(f))))
      BY <1>c, <2>2, OnDisconnect, Transitive, SMTT(20)
    <2> QED
      BY <1>b, <2>1, <2>3
  <1>4. CASE ShouldReconnect
    BY <1>4, <1>b, <1>c DEF ShouldReconnect
  <1>5. CASE OutboundMessage
    <2>1. PICK d \in OutboundDecisions, f \in FaultNow : handled(handle_outbound_message(begun(f), d))
      BY <1>5 DEF OutboundMessage
    <2>2. Follows(begun(f), handle_outbound_message(begun(f), d))
      BY <1>c, HandleOutboundMessage
    <2> QED
      BY <1>b, <2>1, <2>2
  <1>6. CASE Shutdown
    <2>1. PICK r \in AdminRequests, f \in FaultNow :
             r.request = "Shutdown" /\ handled(initiate_graceful_logout(begun(f), r.reconnect))
      BY <1>6 DEF Shutdown
    <2>2. r.reconnect \in BOOLEAN
      BY <2>1, SessionAssumption
    <2>3. Follows(begun(f), initiate_graceful_logout(begun(f), r.reconnect))
      BY <1>c, <2>2, InitiateGracefulLogout
    <2> QED
      BY <1>b, <2>1, <2>3
  <1>7. CASE ResetOnNextLogon
    <2>1. handled([begun("none") EXCEPT !.reset_on_next_logon = TRUE])
      BY <1>7 DEF ResetOnNextLogon
    <2>2. "none" \in Fault
      BY DEF Fault
    <2>3. Follows(begun("none"), [begun("none") EXCEPT !.reset_on_next_logon = TRUE])
      BY <2>2, Begun, PutResetOnLogon, Zenon
    <2> QED
      BY <2>1, <2>3, FollowsIncoming, Zenon DEF Ordinary
  <1>8. CASE PeerTimeout
    <2>1. PICK f \in FaultNow : handled(handle_peer_timeout(begun(f)))
      BY <1>8 DEF PeerTimeout
    <2>2. Follows(begun(f), handle_peer_timeout(begun(f)))
      BY <1>c, HandlePeerTimeout
    <2> QED
      BY <1>b, <2>1, <2>2, SMTT(20)
  <1>9. CASE HeartbeatTimeout
    <2>1. PICK f \in FaultNow : handled(send_message(begun(f), "Heartbeat"))
      BY <1>9 DEF HeartbeatTimeout
    <2>2. "Heartbeat" \in MsgType \ {"ResendRequest"} /\ "Heartbeat" # "Logon"
      BY SMTT(20) DEF MsgType, AdminType
    <2>3. Follows(begun(f), send_message(begun(f), "Heartbeat"))
      BY <1>c, <2>2, SendMessage, SMTT(20)
    <2> QED
      BY <1>b, <2>1, <2>3
  <1>10. CASE ScheduleCheck
    BY <1>10, <1>b, <1>c, SMTT(20) DEF ScheduleCheck
  <1> QED
    BY <1>1, <1>2, <1>3, <1>4, <1>5, <1>6, <1>7, <1>8, <1>9, <1>10, SMTT(20) DEF SessionStep

\* The session task starts from a sound record, whatever fails.
LEMMA StepBegins ==
  ASSUME SInv, NEW f \in FaultNow \cup {"none"}
  PROVE  /\ f \in Fault /\ Sound(begun(f)) /\ Sound(checked(f)) /\ Follows(begun(f), checked(f))
         /\ now \in Nat
  BY FaultNowType, Begun, Checked DEF SInv, TypeOK

\* The steps of the session task.
LEMMA SessionStepKeeps ==
  ASSUME SInv, SessionStep
  PROVE  SInv' /\ (NotLowered \/ SetNextTarget)
  <1> DEFINE Goal == session' \in Session /\ ResendWindow' /\ hist' \in Hist
             Phase == {"AwaitSchedule", "Waiting", "Connect", "Register", "Run",
                       "ShouldReconnect", "Stopped"}
  <1>1. initiator' \in Phase /\ reader' \in {"none", "live"} /\ now' \in Nat
    <2>1. initiator \in Phase /\ reader \in {"none", "live"} /\ now \in Nat
      BY DEF SInv, TypeOK
    <2>2. initiator' \in {initiator, "Run", "AwaitSchedule", "Stopped", "Waiting"}
      BY Zenon DEF SessionStep, FixMessageReceived, ReplayBacklog, ReaderDisconnected, Connected,
             ShouldReconnect, AwaitSchedule, OutboundMessage, Shutdown, ResetOnNextLogon,
             SetNextTarget, PeerTimeout, HeartbeatTimeout, ScheduleCheck
    <2>3. reader' \in {reader, "none"} /\ now' = now
      BY Zenon DEF SessionStep, FixMessageReceived, ReplayBacklog, ReaderDisconnected, Connected,
             ShouldReconnect, AwaitSchedule, OutboundMessage, Shutdown, ResetOnNextLogon,
             SetNextTarget, PeerTimeout, HeartbeatTimeout, ScheduleCheck
    <2> QED
      BY <2>1, <2>2, <2>3, SMTT(20)
  <1> SUFFICES Goal /\ (NotLowered \/ SetNextTarget)
    BY <1>1 DEF SInv, TypeOK, Hist
  <1>2. ASSUME NEW f \in FaultNow \cup {"none"}, NEW s, Moves(begun(f), s),
               NEW connecting \in BOOLEAN, concluded(s, connecting)
        PROVE  Goal /\ NotLowered
    BY <1>2, StepBegins, Concluded, Zenon
  <1>3. CASE Ordinary
    <2>0. PICK f \in FaultNow \cup {"none"} : \E s : Incoming(begun(f), s) /\ handled(s)
      BY <1>3 DEF Ordinary
    <2>1. PICK s : Incoming(begun(f), s) /\ handled(s)
      BY <2>0
    <2>2. Moves(begun(f), s)
      BY <2>1, StepBegins, IncomingReaches, Weaker, SMTT(20)
    <2> QED
      BY <1>2, <2>1, <2>2, Zenon DEF handled
  <1>4. CASE Connected
    <2>1. PICK f \in FaultNow : concluded(on_connect(checked(f)), TRUE)
      BY <1>4, Zenon DEF Connected
    <2>2. Moves(begun(f), on_connect(checked(f)))
      BY StepBegins, OnConnect, Transitive, Weaker, ZenonT(30)
    <2> QED
      BY <1>2, <2>1, <2>2, ZenonT(30)
  <1>5. CASE AwaitSchedule
    <2>1. PICK f \in FaultNow : handled(register_schedule_awaiter(checked(f)))
      BY <1>5 DEF AwaitSchedule
    <2>2. Moves(begun(f), register_schedule_awaiter(checked(f)))
      BY StepBegins, RegisterAwaiter, Transitive, Weaker, Zenon
    <2> QED
      BY <1>2, <2>1, <2>2, Zenon DEF handled
  <1>6. CASE SetNextTarget
    <2>1. PICK r \in AdminRequests, f \in FaultNow :
             /\ r.request = "SetNextTarget"
             /\ LET s == set_target(begun(f), r.seq_num - 1)
                IN  /\ session' = ended(s)
                    /\ hist' = [hist EXCEPT !.last = IF @ > s.store.target THEN s.store.target ELSE @]
      BY <1>6 DEF SetNextTarget
    <2> DEFINE s == set_target(begun(f), r.seq_num - 1)
    <2>2. r.seq_num - 1 \in Nat
      <3>1. r.seq_num \in Nat \ {0}
        BY <2>1, SessionAssumption, SMTT(20)
      <3> QED
        BY <3>1
    <2>3. Sound(s)
      BY StepBegins, <2>2, SetTarget
    <2>4. hist \in Hist
      BY DEF SInv, TypeOK, Hist
    <2>5. /\ session' = ended(s)
          /\ hist' = [hist EXCEPT !.last = IF hist.last > s.store.target THEN s.store.target ELSE hist.last]
      BY <2>1, <2>4 DEF Hist
    <2> HIDE DEF s
    <2>6. session' \in Session /\ Window(session')
      BY <2>3, <2>5, Ended, SMTT(20)
    <2>7. ResendWindow'
      BY <2>6 DEF ResendWindow, Window
    <2>8. s.store.target \in Nat
      BY <2>3, FieldTypes DEF Sound
    <2>9. hist' \in Hist
      BY <2>4, <2>5, <2>8 DEF Hist
    <2> QED
      BY <1>6, <2>6, <2>7, <2>9, SMTT(20)
  <1> QED
    BY <1>3, <1>4, <1>5, <1>6, StepShape, Zenon

\* A peer deadline that passes touches nothing but the flag that says so.
LEMMA DeadlineKeeps ==
  ASSUME SInv, DeadlinePasses
  PROVE  SInv' /\ NotLowered
  <1>0. session \in Session /\ session.state \in State
    BY FieldTypes DEF SInv, TypeOK
  <1> DEFINE t == [session.state EXCEPT !.late = TRUE]
             p == [session EXCEPT !.state = t]
             r == [[[p EXCEPT !.out = << >>] EXCEPT !.calls = << >>] EXCEPT !.resets = FALSE]
  <1>1. t \in State /\ t.st # "AwaitingResend"
    <2>1. session.state \in Active \cup AwaitingLogon \cup AwaitingLogout
      BY <1>0, Variants DEF DeadlinePasses
    <2>2. CASE session.state \in Active
      BY <2>2, Zenon DEF Active, State
    <2>3. CASE session.state \in AwaitingLogon
      BY <2>3, Zenon DEF AwaitingLogon, State
    <2>4. CASE session.state \in AwaitingLogout
      BY <2>4, Zenon DEF AwaitingLogout, State
    <2> QED
      BY <2>1, <2>2, <2>3, <2>4, SMTT(20)
  <1>2. session' = r
    BY <1>0 DEF DeadlinePasses, Session
  <1> HIDE DEF t
  <1>3. << >> \in Seq(Outbound) /\ << >> \in Seq(Call)
    OBVIOUS
  <1>4. r \in Session
    BY <1>0, <1>1, <1>3, Zenon DEF Session
  <1>5. r.state = t /\ r.store = session.store
    BY <1>0, SMTT(20) DEF Session
  <1> HIDE DEF r
  <1>6. ResendWindow'
    BY <1>1, <1>2, <1>5, SMTT(20) DEF ResendWindow
  <1>7. NotLowered
    BY <1>0, <1>2, <1>5, FieldTypes, SMTT(20) DEF NotLowered
  <1> QED
    BY <1>2, <1>4, <1>6, <1>7, SMTT(20) DEF SInv, TypeOK, DeadlinePasses

\* Every step keeps the invariant, and no step but the operator's lowers the
\* target number of a store that is not cleared.
THEOREM SessionInductive == SInv /\ [Next]_vars => SInv' /\ (NotLowered \/ SetNextTarget)
  <1> SUFFICES ASSUME SInv, [Next]_vars
               PROVE  SInv' /\ (NotLowered \/ SetNextTarget)
    OBVIOUS
  <1>0. session \in Session /\ session.store.target \in Nat
    BY FieldTypes DEF SInv, TypeOK
  <1>1. CASE SessionStep
    BY <1>1, SessionStepKeeps
  <1>2. CASE DeadlinePasses
    BY <1>2, DeadlineKeeps, SMTT(20)
  <1>3. ASSUME UNCHANGED session
        PROVE  NotLowered /\ (ResendWindow => ResendWindow')
    BY <1>0, <1>3 DEF NotLowered, ResendWindow
  <1>4. CASE InitiatorStep
    <2>1. UNCHANGED <<session, now, hist>>
      BY <1>4 DEF InitiatorStep, ScheduleAnswered, ConnectSucceeds, ConnectFails,
                  ConnectionEnds, SessionGone, ReaderEnds
    <2>2. /\ initiator' \in {"AwaitSchedule", "Waiting", "Connect", "Register", "Run",
                             "ShouldReconnect", "Stopped"}
          /\ reader' \in {"none", "live"}
      BY <1>4 DEF InitiatorStep, ScheduleAnswered, ConnectSucceeds, ConnectFails,
                  ConnectionEnds, SessionGone, ReaderEnds, SInv, TypeOK
    <2> QED
      BY <1>3, <2>1, <2>2, SMTT(20) DEF SInv, TypeOK
  <1>5. CASE Tick
    BY <1>3, <1>5 DEF Tick, SInv, TypeOK
  <1>6. CASE UNCHANGED vars
    BY <1>3, <1>6 DEF vars, SInv, TypeOK
  <1> QED
    BY <1>1, <1>2, <1>4, <1>5, <1>6, SMTT(20) DEF Next

\* The session starts disconnected, with an empty store.
LEMMA InitSound == Init => SInv
  <1> SUFFICES ASSUME Init PROVE SInv
    OBVIOUS
  <1>1. /\ << >> \in Seq(Outbound) /\ << >> \in Seq(Call)
        /\ << >> \in Seq(Message) /\ << >> \in Seq(Kind)
    BY SMTT(20)
  <1>2. session \in Session
    BY <1>1, ZenonT(30) DEF Init, NewSession, Session, State, Disconnected, Store, Fault
  <1>3. ResendWindow
    BY DEF Init, NewSession, ResendWindow
  <1>4. hist \in Hist
    BY DEF Init, Hist
  <1> QED
    BY <1>2, <1>3, <1>4 DEF Init, SInv, TypeOK, Hist

\* The invariant holds in every reachable state.
LEMMA Invariance == Spec => []SInv
  <1>1. SInv /\ [Next]_vars => SInv'
    BY SessionInductive
  <1> QED
    BY <1>1, InitSound, PTL DEF Spec

\* TypeOK holds of every session, whatever the counterparty sends, the
\* application decides, the operator asks for and the store fails to do.
THEOREM SessionTypes == Spec => []TypeOK
  <1>1. SInv => TypeOK
    BY DEF SInv
  <1> QED
    BY <1>1, Invariance, PTL

\* ResendWindow holds of every session: update() never lets a fourth request
\* for one gap pass, and nothing inside the gap waits in the queue.
THEOREM SessionWindow == Spec => []ResendWindow
  <1>1. SInv => ResendWindow
    BY DEF SInv
  <1> QED
    BY <1>1, Invariance, PTL

\* Only a reset of the store or the operator's SetNextTarget lowers the target
\* number: no message does, in whatever state and order it comes.
THEOREM SessionTarget == Spec => TargetNeverLowered
  <1>1. SInv /\ [Next]_vars
          => [session'.store.target >= session.store.target \/ session'.resets \/ SetNextTarget]_vars
    BY SessionInductive DEF NotLowered
  <1> QED
    BY <1>1, Invariance, PTL DEF Spec, TargetNeverLowered

-----------------------------------------------------------------------------
(* Between two steps *)

\* Between two steps no failure is pending, and a disconnected session has no
\* writer.
Rested == ~session.err /\ session.fault = "none" /\ Unplugged(session)

\* Whoever waits for the schedule is answered, or will be.
Waited == initiator = "Waiting" => Posted(session)

\* From the answer InSchedule to the registration of the writer the session
\* stays disconnected.
Between ==
    /\ initiator \in {"Connect", "Register"} => session.panicked \/ session.state.st = "Disconnected"
    /\ initiator = "Waiting" => session.panicked \/ Invited(session)

-----------------------------------------------------------------------------
(* The two ends of a step *)

\* What a handler starts from.
LEMMA BegunFields ==
  ASSUME SInv, NEW f \in Fault
  PROVE  LET b == begun(f)
         IN  /\ b.out = << >> /\ b.calls = << >> /\ b.resets = FALSE /\ b.fault = f
             /\ b.state = session.state /\ b.store = session.store /\ b.writer = session.writer
             /\ b.answer = session.answer /\ b.backlog = session.backlog
             /\ b.err = session.err /\ b.panicked = session.panicked
  BY DEF SInv, TypeOK, Session, begun

\* What the session is left with.
LEMMA EndedFields ==
  ASSUME NEW s, Sound(s)
  PROVE  LET e == ended(s)
         IN  /\ e.out = s.out /\ e.calls = s.calls /\ e.resets = s.resets /\ e.fault = "none"
             /\ e.state = s.state /\ e.store = s.store /\ e.writer = s.writer
             /\ e.answer = s.answer /\ e.backlog = s.backlog
             /\ e.err = FALSE /\ e.panicked = s.panicked
  BY DEF Sound, Session, ended

\* A deadline that passes.
LEMMA DeadlineFields ==
  ASSUME SInv, DeadlinePasses
  PROVE  /\ session'.out = << >> /\ session'.resets = FALSE /\ session'.fault = session.fault
         /\ session'.state.st = session.state.st
         /\ session.state.st \in {"Active", "AwaitingLogon", "AwaitingLogout"}
         /\ session'.store = session.store /\ session'.writer = session.writer
         /\ session'.answer = session.answer /\ session'.backlog = session.backlog
         /\ session'.err = session.err /\ session'.panicked = session.panicked
  <1>0. session \in Session /\ session.state \in State
    BY FieldTypes DEF SInv, TypeOK
  <1> DEFINE t == [session.state EXCEPT !.late = TRUE]
             r == [[[[session EXCEPT !.state = t] EXCEPT !.out = << >>] EXCEPT !.calls = << >>]
                      EXCEPT !.resets = FALSE]
  <1>1. session' = r
    BY <1>0 DEF DeadlinePasses, Session
  <1>2. t.st = session.state.st
    BY <1>0 DEF State, Disconnected, AwaitingLogon, Active, AwaitingResend, AwaitingLogout
  <1> HIDE DEF t
  <1>3. /\ r.out = << >> /\ r.resets = FALSE /\ r.fault = session.fault /\ r.state = t
        /\ r.store = session.store /\ r.writer = session.writer
        /\ r.answer = session.answer /\ r.backlog = session.backlog
        /\ r.err = session.err /\ r.panicked = session.panicked
    BY <1>0 DEF Session
  <1> HIDE DEF r
  <1> QED
    BY <1>1, <1>2, <1>3, Zenon DEF DeadlinePasses

\* A session step is taken by a live session, and moves the connection loop on
\* only where it waits for the session.
LEMMA StepPhases ==
  ASSUME SessionStep
  PROVE  /\ ~session.panicked
         /\ \/ initiator' = initiator
            \/ initiator = "ShouldReconnect" /\ initiator' \in {"AwaitSchedule", "Stopped"}
            \/ initiator = "Register" /\ initiator' = "Run" /\ Connected
            \/ initiator = "AwaitSchedule" /\ initiator' = "Waiting" /\ AwaitSchedule
  BY Zenon DEF SessionStep, FixMessageReceived, ReplayBacklog, ReaderDisconnected, Connected,
         ShouldReconnect, AwaitSchedule, OutboundMessage, Shutdown, ResetOnNextLogon,
         SetNextTarget, PeerTimeout, HeartbeatTimeout, ScheduleCheck, Ready

\* The other steps of the connection loop leave the session alone.
LEMMA InitiatorPhases ==
  ASSUME InitiatorStep
  PROVE  /\ UNCHANGED <<session, now, hist>>
         /\ \/ initiator' = initiator
            \/ initiator' = "Connect" /\ initiator = "Waiting" /\ session.answer = "InSchedule"
            \/ initiator' = "Register" /\ initiator = "Connect" /\ reader' = "live"
            \/ initiator' \in {"ShouldReconnect", "Stopped"}
  BY DEF InitiatorStep, ScheduleAnswered, ConnectSucceeds, ConnectFails, ConnectionEnds,
         SessionGone, ReaderEnds

\* The operator's new target number.
LEMMA SetNextTargetStep ==
  ASSUME SInv, SetNextTarget
  PROVE  \E f \in FaultNow, n \in Nat :
            /\ session' = ended(set_target(begun(f), n))
            /\ hist' = [hist EXCEPT !.last =
                          IF hist.last > set_target(begun(f), n).store.target
                          THEN set_target(begun(f), n).store.target ELSE hist.last]
  <1>1. PICK r \in AdminRequests, f \in FaultNow :
           /\ r.request = "SetNextTarget"
           /\ LET s == set_target(begun(f), r.seq_num - 1)
              IN  /\ session' = ended(s)
                  /\ hist' = [hist EXCEPT !.last = IF @ > s.store.target THEN s.store.target ELSE @]
    BY SMTT(20) DEF SetNextTarget
  <1>2. r.seq_num \in Nat \ {0}
    BY <1>1, SessionAssumption
  <1>3. r.seq_num - 1 \in Nat
    BY <1>2
  <1>4. hist \in Hist
    BY DEF SInv, TypeOK, Hist
  <1> DEFINE s == set_target(begun(f), r.seq_num - 1)
  <1>5. /\ session' = ended(s)
        /\ hist' = [hist EXCEPT !.last = IF hist.last > s.store.target THEN s.store.target ELSE hist.last]
    BY <1>1, <1>4, SMTT(20) DEF Hist
  <1> QED
    BY <1>3, <1>5, ZenonT(30)

-----------------------------------------------------------------------------
(* The responder of await_in_schedule, and the store of what was written *)

\* What the session's lasting facts are, and what they need of one another.
BInv == SInv /\ Rested /\ Stored(session) /\ Waited /\ Between

\* Whatever a handler keeps, the step keeps.
LEMMA KeptStep ==
  ASSUME SInv, Rested, NEW f \in Fault, NEW s, Sound(s), Kept(begun(f), s), session' = ended(s)
  PROVE  /\ Rested' /\ Stored(session')
         /\ Posted(session) => Posted(session')
         /\ Posted(s) => Posted(session')
  <1>1. Stored(begun(f))
    <2>1. begun(f).out = << >>
      BY BegunFields, Zenon
    <2>2. DOMAIN << >> = {}
      OBVIOUS
    <2> QED
      BY <2>1, <2>2, Zenon DEF Stored
  <1>2. Unplugged(begun(f)) /\ (Posted(session) => Posted(begun(f)))
    BY BegunFields, Zenon DEF Rested, Unplugged, Posted
  <1>3. Stored(s) /\ Unplugged(s) /\ (Posted(session) => Posted(s))
    BY <1>1, <1>2, Zenon DEF Kept
  <1>4. Stored(session')
    BY <1>3, EndedFields, ZenonT(30) DEF Stored, Filed
  <1>5. Posted(s) => Posted(session')
    BY EndedFields, Zenon DEF Posted
  <1>6. Rested'
    BY <1>3, EndedFields, Zenon DEF Rested, Unplugged
  <1> QED
    BY <1>3, <1>4, <1>5, <1>6, SMTT(20)

\* What the wiring of a handler says of the step.
LEMMA WiredStep ==
  ASSUME SInv, NEW f \in Fault, NEW s, Sound(s), Wired(begun(f), s), session' = ended(s)
  PROVE  /\ session.state.st = "Disconnected" => session'.state.st = "Disconnected"
         /\ Invited(session) => Invited(session')
  <1>1. Invited(session) => Invited(begun(f))
    BY BegunFields, Zenon DEF Invited
  <1>2. Invited(s) => Invited(session')
    BY EndedFields, Zenon DEF Invited
  <1>3. begun(f).state = session.state /\ session'.state = s.state
    BY BegunFields, EndedFields, Zenon
  <1> QED
    BY <1>1, <1>2, <1>3, Zenon DEF Wired

\* What a step of the session task does to the facts above, one by one.
LEMMA BaseSession ==
  ASSUME BInv, SessionStep
  PROVE  Rested' /\ Stored(session') /\ Waited' /\ Between'
  <1>0. SInv /\ Rested /\ Waited /\ Between
    BY DEF BInv
  <1>a. ASSUME NEW f \in Fault, NEW s, Sound(s), Kept(begun(f), s), Wired(begun(f), s),
               session' = ended(s), ~Connected, ~AwaitSchedule
        PROVE  Rested' /\ Stored(session') /\ Waited' /\ Between'
    <2>1. Rested' /\ Stored(session') /\ (Posted(session) => Posted(session'))
      BY <1>0, <1>a, KeptStep, SMTT(20)
    <2>2. /\ session.state.st = "Disconnected" => session'.state.st = "Disconnected"
          /\ Invited(session) => Invited(session')
      BY <1>0, <1>a, WiredStep, SMTT(20)
    <2>3. ~session.panicked /\ (initiator' = initiator \/ initiator' \in {"AwaitSchedule", "Stopped"})
      BY <1>a, StepPhases, SMTT(20)
    <2> QED
      BY <1>0, <2>1, <2>2, <2>3, Zenon DEF Waited, Between
  <1>1. CASE AwaitSchedule
    <2>1. PICK f \in FaultNow : handled(register_schedule_awaiter(checked(f)))
      BY <1>1 DEF AwaitSchedule
    <2> DEFINE c == checked(f)
               s == register_schedule_awaiter(c)
    <2>2. f \in Fault /\ Sound(begun(f)) /\ Sound(c) /\ Follows(begun(f), c)
      BY <1>0, StepBegins
    <2>3. session' = ended(s)
      BY <2>1 DEF handled, concluded
    <2> HIDE DEF c
    <2>4. Reaches(c, s) /\ Posted(s) /\ (c.state.st # "Disconnected" => s.answer = "Shutdown")
          /\ s.state.st = c.state.st
      BY <2>2, RegisterAwaiter, Zenon
    <2> HIDE DEF s
    <2>5. Reaches(begun(f), s)
      BY <2>2, <2>4, Transitive, Weaker, Zenon
    <2>6. Sound(s) /\ Kept(begun(f), s)
      BY <2>5, Weaker, Zenon DEF Reaches, Leads
    <2>7. Rested' /\ Stored(session') /\ Posted(session')
      BY <1>0, <2>2, <2>3, <2>4, <2>6, KeptStep, Zenon
    <2>8. Invited(session')
      BY <2>3, <2>4, <2>6, EndedFields, Zenon DEF Invited
    <2>9. initiator' = "Waiting"
      BY <1>1 DEF AwaitSchedule
    <2> QED
      BY <2>7, <2>8, <2>9, SMTT(20) DEF Waited, Between
  <1>2. CASE Connected
    <2>1. PICK f \in FaultNow : concluded(on_connect(checked(f)), TRUE)
      BY <1>2, Zenon DEF Connected
    <2>2. f \in Fault /\ Sound(begun(f)) /\ Leads(begun(f), on_connect(checked(f)))
      BY <1>0, StepBegins, OnConnect, Transitive, Weaker, Zenon
    <2>3. session' = ended(on_connect(checked(f)))
      BY <2>1 DEF concluded
    <2>4. Sound(on_connect(checked(f))) /\ Kept(begun(f), on_connect(checked(f)))
      BY <2>2, Weaker DEF Leads
    <2>5. Rested' /\ Stored(session')
      BY <1>0, <2>2, <2>3, <2>4, KeptStep, SMTT(20)
    <2>6. initiator' = "Run"
      BY <1>2 DEF Connected
    <2> QED
      BY <2>5, <2>6, SMTT(20) DEF Waited, Between
  <1>3. CASE SetNextTarget /\ ~Connected /\ ~AwaitSchedule
    <2>1. PICK f \in FaultNow, n \in Nat : session' = ended(set_target(begun(f), n))
      BY <1>0, <1>3, SetNextTargetStep, Zenon
    <2>2. f \in Fault /\ Sound(begun(f))
      BY <1>0, StepBegins, SMTT(20)
    <2>3. /\ Sound(set_target(begun(f), n)) /\ Kept(begun(f), set_target(begun(f), n))
          /\ Wired(begun(f), set_target(begun(f), n))
      BY <2>2, SetTarget
    <2> QED
      BY <1>3, <1>a, <2>1, <2>2, <2>3, Zenon
  <1>4. CASE Ordinary /\ ~Connected /\ ~AwaitSchedule
    <2>0. PICK f \in FaultNow \cup {"none"} : \E s : Incoming(begun(f), s) /\ handled(s)
      BY <1>4 DEF Ordinary
    <2>1. PICK s : Incoming(begun(f), s) /\ handled(s)
      BY <2>0
    <2>2. f \in Fault /\ Reaches(begun(f), s)
      BY <1>0, <2>1, StepBegins, IncomingReaches, SMTT(20)
    <2>3. Sound(s) /\ Kept(begun(f), s) /\ Wired(begun(f), s)
      BY <2>2, Weaker, Zenon DEF Reaches, Leads
    <2>4. session' = ended(s)
      BY <2>1 DEF handled, concluded
    <2> QED
      BY <1>4, <1>a, <2>2, <2>3, <2>4, Zenon
  <1> QED
    BY <1>0, <1>1, <1>2, <1>3, <1>4, StepShape, Zenon

\* Every step keeps them.
LEMMA BaseInductive == BInv /\ [Next]_vars => BInv'
  <1> SUFFICES ASSUME BInv, [Next]_vars PROVE BInv'
    OBVIOUS
  <1>0. SInv /\ Rested /\ Stored(session) /\ Waited /\ Between /\ SInv'
    BY SessionInductive DEF BInv
  <1> SUFFICES Rested' /\ Stored(session') /\ Waited' /\ Between'
    BY <1>0 DEF BInv
  <1>1. CASE SessionStep
    BY <1>1, BaseSession
  <1>2. CASE InitiatorStep
    <2>1. /\ UNCHANGED session
          /\ \/ initiator' = initiator
             \/ initiator' = "Connect" /\ initiator = "Waiting" /\ session.answer = "InSchedule"
             \/ initiator' = "Register" /\ initiator = "Connect"
             \/ initiator' \in {"ShouldReconnect", "Stopped"}
      BY <1>2, InitiatorPhases
    <2>2. Waited'
      BY <1>0, <2>1 DEF Waited
    <2>3. Between'
      BY <1>0, <2>1 DEF Between, Invited
    <2> QED
      BY <1>0, <2>1, <2>2, <2>3, SMTT(20) DEF Rested
  <1>3. CASE DeadlinePasses
    <2>1. initiator' = initiator
      BY <1>3 DEF DeadlinePasses
    <2>2. Rested'
      BY <1>0, <1>3, DeadlineFields DEF Rested, Unplugged
    <2>3. Stored(session')
      <3>1. session'.out = << >>
        BY <1>0, <1>3, DeadlineFields
      <3>2. DOMAIN << >> = {}
        OBVIOUS
      <3> QED
        BY <3>1, <3>2, Zenon DEF Stored
    <2>4. Waited'
      BY <1>0, <1>3, <2>1, DeadlineFields, SMTT(20) DEF Waited, Posted, Awaits
    <2>5. Between'
      BY <1>0, <1>3, <2>1, DeadlineFields, SMTT(20) DEF Between, Invited
    <2> QED
      BY <2>2, <2>3, <2>4, <2>5
  <1>4. CASE UNCHANGED <<session, initiator>>
    BY <1>0, <1>4 DEF Rested, Waited, Between
  <1>5. Tick \/ UNCHANGED vars => UNCHANGED <<session, initiator>>
    BY DEF Tick, vars
  <1> QED
    BY <1>1, <1>2, <1>3, <1>4, <1>5 DEF Next

\* They hold of every reachable state.
LEMMA BaseInvariance == Spec => []BInv
  <1>1. Init => BInv
    <2> SUFFICES ASSUME Init PROVE BInv
      OBVIOUS
    <2>1. SInv
      BY InitSound, SMTT(20)
    <2>2. Rested /\ Waited /\ Between
      BY SMTT(20) DEF Init, NewSession, Rested, Unplugged, Waited, Between
    <2>3. Stored(session)
      BY SMTT(20) DEF Init, NewSession, Stored
    <2> QED
      BY <2>1, <2>2, <2>3 DEF BInv
  <1> QED
    BY <1>1, BaseInductive, PTL DEF Spec

\* While the initiator waits for the schedule, the session holds the responder
\* it waits for: no transition, reset or error path loses the wake-up.
THEOREM SessionKeepsAwaiter == Spec => []AwaiterKept
  <1>1. BInv => AwaiterKept
    BY DEF BInv, Waited, Posted, Awaits, AwaiterKept
  <1> QED
    BY <1>1, BaseInvariance, PTL

\* What is written under a fresh number was stored under it first, whatever
\* store call fails: a resend request for it finds it.
THEOREM SessionStoresWritten == Spec => []WrittenIsStored
  <1>1. BInv => WrittenIsStored
    BY Zenon DEF BInv, Stored, Filed, WrittenIsStored
  <1> QED
    BY <1>1, BaseInvariance, PTL
=============================================================================
