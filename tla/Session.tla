------------------------------ MODULE Session -------------------------------
(***************************************************************************)
(* The session task of session.rs together with the tasks that feed it:    *)
(* the connection loop of initiator.rs, the socket reader, the timers and  *)
(* the users of SessionHandle.                                             *)
(*                                                                         *)
(* run_session handles one event, request or timer at a time, so each is   *)
(* one action.  The events a message channel delays are taken when they    *)
(* are handled; what the counterparty, the application, the clock and the  *)
(* store do is chosen by \E.                                               *)
(***************************************************************************)
EXTENDS Inbound, FiniteSets

CONSTANTS
    PeerMessages,       \* the messages the counterparty may send
    Faults,             \* the store failures that may happen
    AppDecisions,       \* what on_inbound_message may decide
    OutboundDecisions,  \* what on_outbound_message may decide; {} if nothing is sent
    AdminRequests,      \* the requests made through SessionHandle
    ResetOnLogon,       \* config.reset_on_logon
    EarlyEof,           \* may the peer hang up before the writer is registered?
    BadPeriods,         \* instants at which comparing session periods fails
    MaxSender, MaxTarget, MaxQueue, MaxNow    \* bounds

ASSUME SessionAssumption ==
    /\ PeerMessages \subseteq Message
    /\ Faults \subseteq Fault
    /\ AppDecisions \subseteq InboundDecision
    /\ OutboundDecisions \subseteq {"Send", "Drop", "TerminateSession"}
    /\ AdminRequests \subseteq [request : {"Shutdown"}, reconnect : BOOLEAN]
                         \cup [request : {"ResetOnNextLogon"}]
                         \cup [request : {"SetNextTarget"}, seq_num : Nat \ {0}]
    /\ ResetOnLogon \in BOOLEAN /\ EarlyEof \in BOOLEAN
    /\ BadPeriods \subseteq Nat
    /\ {MaxSender, MaxTarget, MaxQueue, MaxNow} \subseteq Nat

VARIABLES
    session,    \* the session task's data
    initiator,  \* where establish_connection is
    reader,     \* the socket reader: "none" or "live"
    now,        \* the clock: even inside a session period, odd between two
    hist        \* what was observed, for the properties

vars == <<session, initiator, reader, now, hist>>

-----------------------------------------------------------------------------
(* Observations: the highest verified number given to the application and  *)
(* whether one was given twice, the resend requests written since the      *)
(* target number last moved, and the first message and the logons written  *)
(* on this connection.                                                     *)

Count(seq, type) == Cardinality({i \in DOMAIN seq : seq[i].type = type})

Delivered(s) == {s.calls[i].seq : i \in {j \in DOMAIN s.calls :
                    s.calls[j].cb = "on_inbound_message" /\ s.calls[j].verified}}

\* A handler delivers at most one message.
Raised(n, S) == IF \E x \in S : x > n THEN CHOOSE x \in S : x > n ELSE n

observe(h, old, new, connecting) ==
    LET last  == IF new.resets THEN 0 ELSE h.last
        first == IF connecting THEN "none" ELSE h.first
        moved == new.resets \/ new.store.target # old.store.target
    IN  [last   |-> Raised(last, Delivered(new)),
         twice  |-> h.twice \/ \E n \in Delivered(new) : n <= last,
         asked  |-> (IF moved \/ connecting THEN 0 ELSE h.asked) + Count(new.out, "ResendRequest"),
         first  |-> IF first = "none" /\ new.out # << >> THEN Head(new.out).type ELSE first,
         logons |-> (IF connecting THEN 0 ELSE h.logons) + Count(new.out, "Logon")]

\* A handler starts with nothing written, called or failed, and ends with the
\* failure it met forgotten.
begun(f) == [session EXCEPT !.out = << >>, !.calls = << >>, !.resets = FALSE, !.fault = f]

ended(s) == [s EXCEPT !.err = FALSE, !.fault = "none"]

concluded(outcome, connecting) ==
    \E s \in {outcome} :
        /\ session' = ended(s)
        /\ hist' = observe(hist, session, s, connecting)

handled(outcome) == concluded(outcome, FALSE)

\* The task is alive and not in the middle of replaying the backlog.
Ready == ~session.panicked /\ session.backlog = << >>

\* The bound on the steps that use up sequence numbers.
Room == Len(session.store.log) < MaxSender /\ session.store.target < MaxTarget

\* Store failures happen only within the bound: a failing reset is retried
\* for ever, and takes a number each time.
FaultNow == {f \in Faults : f = "none" \/ Room}

\* The bound on the messages waiting for the end of a resend.
QueueRoom(m) ==
    session.state.st = "AwaitingResend" /\ (m.seq > session.state.end \/ m.type = "ResendRequest")
        => Len(session.state.queue) < MaxQueue

-----------------------------------------------------------------------------
(* session_schedule.rs as handle_schedule_check sees it *)

is_active_at(t) == t % 2 = 0

is_same_session_period(created, t) ==
    CASE t \in BadPeriods    -> "Err"
      [] t \notin BadPeriods /\ created = t -> "SamePeriod"
      [] OTHER -> IF is_active_at(created) THEN "DifferentPeriod" ELSE "OutsideSessionTime"

\* The old period's session is told to leave, then its store is cleared; the
\* state stays what it was until the reader reports the disconnect.
end_period(s) ==
    LET left == reset(logout_and_terminate(s), now)
    IN  IF left.err THEN [new_disconnected(left, FALSE) EXCEPT !.err = FALSE] ELSE left

\* Mutant: nobody is told that the schedule is active again.
handle_schedule_check_silent(s) ==
    LET period == is_same_session_period(s.store.created, now)
    IN  CASE ~is_active_at(now) -> initiate_graceful_logout(s, TRUE)
          [] is_active_at(now) /\ period = "SamePeriod" -> s
          [] is_active_at(now) /\ period = "Err" -> logout_and_terminate(s)
          [] OTHER -> end_period(s)

handle_schedule_check(s) ==
    LET notified == notify_schedule_awaiter(s)
        period   == is_same_session_period(s.store.created, now)
    IN  CASE ~is_active_at(now) -> initiate_graceful_logout(s, TRUE)
          [] is_active_at(now) /\ period = "SamePeriod" -> notified
          [] is_active_at(now) /\ period = "Err" -> logout_and_terminate(notified)
          [] OTHER -> end_period(notified)

-----------------------------------------------------------------------------
(* handle_session_event: every event is preceded by a schedule check *)

checked(f) == handle_schedule_check(begun(f))

\* The store call that failed works again by the time the error is dealt
\* with, or it does not.
settles(outcome) ==
    \E s \in {outcome} : \E f \in {s.fault, "none"} : handled(settled(s, f))

FixMessageReceived ==
    /\ Ready /\ Room
    /\ reader = "live" /\ initiator = "Run"
    /\ \E m \in PeerMessages, d \in AppDecisions, f \in FaultNow :
          /\ QueueRoom(m)
          /\ settles(on_incoming(checked(f), m, d))
    /\ UNCHANGED <<initiator, reader, now>>

\* The while loop of check_end_of_resend, one message a step.
ReplayBacklog ==
    /\ ~session.panicked /\ session.backlog # << >>
    /\ \E d \in AppDecisions, f \in FaultNow : settles(replay_one(begun(f), d))
    /\ UNCHANGED <<initiator, reader, now>>

\* The reader met EOF, an error or the watchdog; it ends after reporting it.
\* It may do so before the writer it came with is registered.
ReaderDisconnected ==
    /\ Ready
    /\ reader = "live" /\ (initiator = "Run" \/ EarlyEof)
    /\ \E f \in FaultNow : handled(on_disconnect(disconnect_writer(checked(f))))
    /\ reader' = "none"
    /\ UNCHANGED <<initiator, now>>

send_logon(s) ==
    LET cleared_store == IF ResetOnLogon \/ s.reset_on_next_logon THEN reset(s, now) ELSE s
    IN  IF cleared_store.err THEN cleared_store
        ELSE send_message([cleared_store EXCEPT !.reset_on_next_logon = FALSE], "Logon")

\* Mutant: the Logon goes out before the state has the writer.
on_connect_late(s) ==
    [transition_to(send_logon(s), [st |-> "AwaitingLogon", logon_sent |-> FALSE, late |-> FALSE])
        EXCEPT !.writer = "open"]

on_connect(s) ==
    send_logon([transition_to(s, [st |-> "AwaitingLogon", logon_sent |-> FALSE, late |-> FALSE])
                    EXCEPT !.writer = "open"])

Connected ==
    /\ Ready
    /\ initiator = "Register"
    /\ \E f \in FaultNow : concluded(on_connect(checked(f)), TRUE)
    /\ initiator' = "Run"
    /\ UNCHANGED <<reader, now>>

ShouldReconnect ==
    /\ Ready
    /\ initiator = "ShouldReconnect"
    /\ \E f \in FaultNow : handled(checked(f))
    /\ initiator' = IF should_reconnect(session') THEN "AwaitSchedule" ELSE "Stopped"
    /\ UNCHANGED <<reader, now>>

AwaitSchedule ==
    /\ Ready
    /\ initiator = "AwaitSchedule"
    /\ \E f \in FaultNow : handled(register_schedule_awaiter(checked(f)))
    /\ initiator' = "Waiting"
    /\ UNCHANGED <<reader, now>>

-----------------------------------------------------------------------------
(* The other branches of run_session's select! *)

\* A request with a confirmation channel is answered Sent when send_message
\* returns a number.
handle_outbound_message(s, decision) ==
    CASE ~is_connected(s) -> s
      [] is_connected(s) /\ decision = "Send" -> send_message(s, "App")
      [] is_connected(s) /\ decision = "TerminateSession" -> disconnect_writer(s)
      [] OTHER -> s

OutboundMessage ==
    /\ Ready /\ Room
    /\ \E d \in OutboundDecisions, f \in FaultNow : handled(handle_outbound_message(begun(f), d))
    /\ UNCHANGED <<initiator, reader, now>>

Shutdown ==
    /\ Ready
    /\ \E r \in AdminRequests, f \in FaultNow :
          /\ r.request = "Shutdown"
          /\ handled(initiate_graceful_logout(begun(f), r.reconnect))
    /\ UNCHANGED <<initiator, reader, now>>

ResetOnNextLogon ==
    /\ Ready
    /\ \E r \in AdminRequests :
          /\ r.request = "ResetOnNextLogon"
          /\ handled([begun("none") EXCEPT !.reset_on_next_logon = TRUE])
    /\ UNCHANGED <<initiator, reader, now>>

\* try_set_next_target_seq_num; an operator who lowers the number asks for
\* the messages above it again.
SetNextTarget ==
    /\ Ready
    /\ session.state.st = "Disconnected"
    /\ \E r \in AdminRequests, f \in FaultNow :
          /\ r.request = "SetNextTarget"
          /\ LET s == set_target(begun(f), r.seq_num - 1)
             IN  /\ session' = ended(s)
                 /\ hist' = [hist EXCEPT !.last = IF @ > s.store.target THEN s.store.target ELSE @]
    /\ UNCHANGED <<initiator, reader, now>>

HeartbeatTimeout ==
    /\ Ready /\ Room
    /\ session.state.st = "Active"
    /\ \E f \in FaultNow : handled(send_message(begun(f), "Heartbeat"))
    /\ UNCHANGED <<initiator, reader, now>>

\* Mutant: an unanswered Logout is waited for.
handle_peer_timeout_patient(s) ==
    CASE is_expecting_test_response(s) -> logout_and_terminate(s)
      [] s.state.st = "AwaitingLogon"  -> disconnect_writer(s)
      [] s.state.st = "AwaitingLogout" -> s
      [] OTHER -> reset_peer_timer(send_message(s, "TestRequest"), NextTarget(s))

handle_peer_timeout(s) ==
    CASE is_expecting_test_response(s) -> logout_and_terminate(s)
      [] s.state.st \in {"AwaitingLogon", "AwaitingLogout"} -> disconnect_writer(s)
      [] OTHER -> reset_peer_timer(send_message(s, "TestRequest"), NextTarget(s))

\* peer_deadline() lies in the past.
PeerTimeout ==
    /\ Ready
    /\ session.state.st \in {"Active", "AwaitingLogon", "AwaitingLogout"} /\ session.state.late
    /\ session.writer = "closed" => Room
    /\ \E f \in FaultNow : handled(handle_peer_timeout(begun(f)))
    /\ UNCHANGED <<initiator, reader, now>>

ScheduleCheck ==
    /\ Ready
    /\ now \in BadPeriods => Room
    /\ \E f \in FaultNow : handled(checked(f))
    /\ UNCHANGED <<initiator, reader, now>>

-----------------------------------------------------------------------------
(* Time *)

DeadlinePasses ==
    /\ ~session.panicked
    /\ session.state.st \in {"Active", "AwaitingLogon", "AwaitingLogout"} /\ ~session.state.late
    /\ session' = [session EXCEPT !.state.late = TRUE, !.out = << >>, !.calls = << >>, !.resets = FALSE]
    /\ UNCHANGED <<initiator, reader, now, hist>>

Tick ==
    /\ now < MaxNow
    /\ now' = now + 1
    /\ UNCHANGED <<session, initiator, reader, hist>>

-----------------------------------------------------------------------------
(* establish_connection between its questions to the session *)

\* await_in_schedule returns.
ScheduleAnswered ==
    /\ initiator = "Waiting"
    /\ session.answer # "none" \/ session.panicked
    /\ initiator' = IF session.answer = "InSchedule" THEN "Connect" ELSE "Stopped"
    /\ UNCHANGED <<session, reader, now, hist>>

\* connect() spawns the reader before the writer is registered.
ConnectSucceeds ==
    /\ initiator = "Connect" /\ Room
    /\ initiator' = "Register"
    /\ reader' = "live"
    /\ UNCHANGED <<session, now, hist>>

ConnectFails ==
    /\ initiator = "Connect"
    /\ initiator' = "ShouldReconnect"
    /\ UNCHANGED <<session, reader, now, hist>>

\* run_until_disconnect returns once the reader is gone.
ConnectionEnds ==
    /\ initiator = "Run" /\ reader = "none"
    /\ initiator' = "ShouldReconnect"
    /\ UNCHANGED <<session, reader, now, hist>>

\* The channel to the session task is closed.
SessionGone ==
    /\ session.panicked
    /\ initiator \in {"AwaitSchedule", "Register", "ShouldReconnect"}
    /\ initiator' = "Stopped"
    /\ UNCHANGED <<session, reader, now, hist>>

\* The peer hangs up, and there is no session to report it to.
ReaderEnds ==
    /\ session.panicked /\ reader = "live"
    /\ reader' = "none"
    /\ UNCHANGED <<session, initiator, now, hist>>

-----------------------------------------------------------------------------
NewSession(created) ==
    [state |-> [st |-> "Disconnected", reconnect |-> TRUE, awaiter |-> FALSE],
     writer |-> "none",
     store |-> [log |-> << >>, target |-> 0, created |-> created],
     reset_on_next_logon |-> FALSE, backlog |-> << >>, answer |-> "none",
     out |-> << >>, calls |-> << >>, resets |-> FALSE,
     err |-> FALSE, panicked |-> FALSE, fault |-> "none"]

Init ==
    /\ now = 0
    /\ session = NewSession(now)
    /\ initiator = "AwaitSchedule"
    /\ reader = "none"
    /\ hist = [last |-> 0, twice |-> FALSE, asked |-> 0, first |-> "none", logons |-> 0]

SessionStep ==
    \/ FixMessageReceived \/ ReplayBacklog \/ ReaderDisconnected \/ Connected
    \/ ShouldReconnect \/ AwaitSchedule \/ OutboundMessage
    \/ Shutdown \/ ResetOnNextLogon \/ SetNextTarget
    \/ PeerTimeout \/ HeartbeatTimeout \/ ScheduleCheck

InitiatorStep ==
    \/ ScheduleAnswered \/ ConnectSucceeds \/ ConnectFails
    \/ ConnectionEnds \/ SessionGone \/ ReaderEnds

Next == SessionStep \/ InitiatorStep \/ DeadlinePasses \/ Tick

Spec == Init /\ [][Next]_vars

-----------------------------------------------------------------------------
(* Properties *)

\* Every variable keeps the type of the Rust value it stands for; in
\* particular each variant of SessionState has its own fields and no others.
TypeOK ==
    /\ session \in Session
    /\ initiator \in {"AwaitSchedule", "Waiting", "Connect", "Register", "Run",
                      "ShouldReconnect", "Stopped"}
    /\ reader \in {"none", "live"}
    /\ now \in Nat
    /\ hist \in [last : Nat, twice : BOOLEAN, asked : Nat,
                 first : MsgType \cup {"Resend", "none"}, logons : Nat]

\* on_inbound_message is never called twice for the same number of a verified
\* message, whatever resends, duplicates, gap fills, replays of the backlog
\* and reconnects happen in between (until the numbers are reset).
NoRedelivery == ~hist.twice

\* While a resend is awaited the gap is a real one, it was asked for at most
\* MAX_RESEND_ATTEMPTS times, and what waits in inbound_queue lies beyond the
\* gap (a queued message inside it would be processed twice or never).
ResendWindow ==
    session.state.st = "AwaitingResend" =>
        /\ session.state.begin < session.state.end
        /\ session.state.attempts \in 1 .. MAX_RESEND_ATTEMPTS
        /\ \A i \in DOMAIN session.state.queue :
              session.state.queue[i].type # "ResendRequest"
                 => session.state.queue[i].seq > session.state.end

\* The counterparty never sees more than MAX_RESEND_ATTEMPTS resend requests
\* for one gap: the target number moves, or the session gives up.
ResendRequestsBounded == hist.asked <= MAX_RESEND_ATTEMPTS

\* The first thing written on a connection is the Logon of on_connect, and no
\* other Logon follows it.
LogonFirst == hist.first \in {"none", "Logon"} /\ hist.logons <= 1

\* The target number moves back only when the store is reset or an operator
\* sets it: no message of the counterparty lowers it, a SequenceReset included.
TargetNeverLowered ==
    [][session'.store.target >= session.store.target \/ session'.resets \/ SetNextTarget]_vars

\* While establish_connection waits for the schedule, the session holds the
\* responder it waits for: no transition loses the wake-up.
AwaiterKept ==
    initiator = "Waiting" /\ session.answer = "none" /\ ~session.panicked
        => session.state.st = "Disconnected" /\ session.state.awaiter

\* The connection loop ends only when the session is in a state that rules out
\* a reconnect ("The session should be shut down due to an unrecoverable error").
StopsOnlyWhenTold ==
    initiator = "Stopped" => session.panicked \/ ~should_reconnect(session)

\* What is written under a fresh number was stored under that number first,
\* so a later resend request for it finds it.
WrittenIsStored ==
    ~session.resets =>
        \A i \in DOMAIN session.out :
            LET m == session.out[i]
            IN  m.type # "Resend" => /\ m.seq \in DOMAIN session.store.log
                                     /\ session.store.log[m.seq] = kind_of(m.type)

-----------------------------------------------------------------------------
(* What comments of the code promise and the code does not keep *)

\* handle_schedule_check, on a new session period: "we need to terminate this
\* session, reset the store, and reestablish the session".  A resend that was
\* awaited in the old period must not rule out the reconnect.
PeriodChangeReestablishes ==
    [][session.state.st = "AwaitingResend" /\ session'.resets => should_reconnect(session')]_vars

\* logout_and_terminate: "Sends a logout message and immediately disconnects
\* the counterparty."  Once the peer timer has led to it, the timer takes no
\* more sequence numbers.
TerminatesOnce ==
    [][PeerTimeout /\ is_expecting_test_response(session) /\ session.writer = "closed"
          => session'.store.log = session.store.log]_vars

-----------------------------------------------------------------------------
(* Liveness.  Timers fire, the watchdog of run_until_disconnect ends the   *)
(* reader once the writer is told to stop, and the session task gets       *)
(* around to its events and timers.                                        *)

Fairness ==
    /\ WF_vars(ReplayBacklog) /\ WF_vars(Connected)
    /\ WF_vars(ShouldReconnect) /\ WF_vars(AwaitSchedule)
    /\ WF_vars(DeadlinePasses) /\ WF_vars(PeerTimeout) /\ WF_vars(ScheduleCheck)
    /\ WF_vars(session.writer # "open" /\ initiator = "Run" /\ ReaderDisconnected)
    /\ WF_vars(ScheduleAnswered) /\ WF_vars(ConnectionEnds) /\ WF_vars(Tick)

FairSpec == Spec /\ Fairness

\* Once Disconnect was handed to the writer, the session gets to Disconnected.
ClosedEnds == session.writer = "closed" ~> session.state.st = "Disconnected"

\* An unanswered Logon or Logout does not hold the session for ever.
HandshakeEnds ==
    session.state.st \in {"AwaitingLogon", "AwaitingLogout"}
        ~> session.state.st \notin {"AwaitingLogon", "AwaitingLogout"}

\* A connection loop that waits for the schedule goes on, or is told to stop.
ScheduleWaitEnds == initiator = "Waiting" ~> initiator \in {"Connect", "Stopped"}
=============================================================================
