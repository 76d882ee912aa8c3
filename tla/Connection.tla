----------------------------- MODULE Connection -----------------------------
(***************************************************************************)
(* The tasks around one session and the bounded channels between them: the *)
(* connection loop of initiator.rs, the reader and writer tasks and the    *)
(* watchdog of transport/, the handles of session_ref.rs and               *)
(* session_handle.rs, and the select! of run_session.  The session is      *)
(* reduced to what the other tasks see of it: which writer it holds, what  *)
(* it pushes into that writer's mailbox, whether a timer runs, and what it *)
(* answers to the loop.  Module Session has its handlers in full.          *)
(***************************************************************************)
EXTENDS Naturals, Sequences

CONSTANTS
    MaxConns,     \* bound: connections made in a behaviour
    EventCap,     \* capacity of the event channel, 100 in the code
    MailboxCap    \* capacity of a writer's mailbox, 10 in the code

ASSUME CapacitiesAssumption ==
    {MaxConns, EventCap, MailboxCap} \subseteq Nat \ {0}

VARIABLES
    initiator,    \* where establish_connection is
    current,      \* connections made so far; the last one is the loop's own
    conn,         \* each connection's tasks, mailbox and socket
    events,       \* the event channel
    session       \* the session task

cvars == <<initiator, current, conn, events, session>>

Conns == 1 .. MaxConns

NoConn == [reader |-> "none", writer |-> "none", mailbox |-> << >>, link |-> "up", kill |-> FALSE]

\* spawn_socket_reader and spawn_socket_writer
NewConn == [NoConn EXCEPT !.reader = "read", !.writer = "recv"]

Event(type, c) == [type |-> type, conn |-> c]

\* The session task has ended: a send fails at once.
SessionGone == session.state = "Gone"

\* mpsc::Sender::send, once there is room
Sent(type, c) ==
    /\ Len(events) < EventCap
    /\ events' = IF SessionGone THEN events ELSE Append(events, Event(type, c))

\* The loop after a send: it breaks when there is no session.
OrStop(next) == IF SessionGone THEN "stopped" ELSE next

-----------------------------------------------------------------------------
(* establish_connection *)

await_in_schedule ==
    /\ initiator = "await"
    /\ Sent("AwaitSchedule", current)
    /\ initiator' = OrStop("waiting")
    /\ UNCHANGED <<current, conn, session>>

\* await_in_schedule returns; a dropped responder is SessionGone.
ScheduleAnswered ==
    /\ initiator = "waiting" /\ session.answer # "none"
    /\ initiator' = IF session.answer = "InSchedule" THEN "connect" ELSE "stopped"
    /\ session' = [session EXCEPT !.answer = "none"]
    /\ UNCHANGED <<current, conn, events>>

\* The reader runs from here on, before the session has the writer.
connect ==
    /\ initiator = "connect" /\ current < MaxConns
    /\ current' = current + 1
    /\ conn' = [conn EXCEPT ![current'] = NewConn]
    /\ initiator' = "register"
    /\ UNCHANGED <<events, session>>

connect_fails ==
    /\ initiator = "connect"
    /\ initiator' = "ask"
    /\ UNCHANGED <<current, conn, events, session>>

register_writer ==
    /\ initiator = "register"
    /\ Sent("Connected", current)
    /\ initiator' = OrStop("run")
    /\ UNCHANGED <<current, conn, session>>

should_reconnect ==
    /\ initiator = "ask"
    /\ Sent("ShouldReconnect", current)
    /\ initiator' = OrStop("asked")
    /\ UNCHANGED <<current, conn, session>>

\* The answer, and the sleep of reconnect_interval; send_replace(true) when
\* the loop breaks.
ReconnectAnswered ==
    /\ initiator = "asked" /\ session.answer # "none"
    /\ initiator' = IF session.answer = "reconnect" THEN "await" ELSE "stopped"
    /\ session' = [session EXCEPT !.answer = "none"]
    /\ UNCHANGED <<current, conn, events>>

-----------------------------------------------------------------------------
(* FixConnection::run_until_disconnect *)

ReaderGone == conn[current].reader = "done"

\* Mutant: the end of the writer is taken for the end of the connection.
run_until_writer_exit ==
    /\ \/ initiator = "run" /\ (ReaderGone \/ conn[current].writer = "done")
       \/ initiator \in {"grace", "killed"} /\ ReaderGone
    /\ initiator' = "ask"
    /\ UNCHANGED <<current, conn, events, session>>

\* disconnect_signal resolves in one of the three places that await it.
run_until_disconnect ==
    /\ initiator \in {"run", "grace", "killed"} /\ ReaderGone
    /\ initiator' = "ask"
    /\ UNCHANGED <<current, conn, events, session>>

WriterExit ==
    /\ initiator = "run" /\ conn[current].writer = "done"
    /\ initiator' = "grace"
    /\ UNCHANGED <<current, conn, events, session>>

\* Mutant: the watchdog gives up without a word to the reader.
force_close_silent ==
    /\ initiator = "grace" /\ ~ReaderGone
    /\ initiator' = "killed"
    /\ UNCHANGED <<current, conn, events, session>>

\* FORCE_CLOSE_TIMEOUT
force_close ==
    /\ initiator = "grace" /\ ~ReaderGone
    /\ initiator' = "killed"
    /\ conn' = [conn EXCEPT ![current].kill = TRUE]
    /\ UNCHANGED <<current, events, session>>

-----------------------------------------------------------------------------
(* run_reader; its select! takes whichever branch is ready *)

new_fix_message_received(c) ==
    /\ conn[c].reader = "read" /\ conn[c].link = "up"
    /\ Sent("FixMessageReceived", c)
    /\ UNCHANGED <<initiator, current, conn, session>>

\* EOF, an error, the watchdog, or a loop that broke with the reader's handle;
\* the disconnect signal follows the event.
disconnect(c) ==
    /\ conn[c].reader = "read" /\ (conn[c].link = "down" \/ conn[c].kill \/ initiator = "stopped")
    /\ Sent("Disconnected", c)
    /\ conn' = [conn EXCEPT ![c].reader = "done", ![c].kill = FALSE, ![c].link = "down"]
    /\ UNCHANGED <<initiator, current, session>>

-----------------------------------------------------------------------------
(* run_writer *)

\* Somebody holds a WriterRef: the session, the event that brings it, the loop.
HasSender(c) ==
    \/ session.on = c \/ (session.todo # << >> /\ session.to = c)
    \/ current = c /\ initiator \in {"register", "run", "grace", "killed"}
    \/ \E i \in 1 .. Len(events) : events[i] = Event("Connected", c)

recv(c) ==
    /\ conn[c].writer = "recv" /\ conn[c].mailbox # << >>
    /\ conn' = [conn EXCEPT ![c].mailbox = Tail(@),
                            ![c].writer = IF Head(conn[c].mailbox) = "msg" THEN "write" ELSE "shutdown"]
    /\ UNCHANGED <<initiator, current, events, session>>

senders_gone(c) ==
    /\ conn[c].writer = "recv" /\ conn[c].mailbox = << >> /\ ~HasSender(c)
    /\ conn' = [conn EXCEPT ![c].writer = "shutdown"]
    /\ UNCHANGED <<initiator, current, events, session>>

\* The bytes are taken, or there is an error, which is only logged.  There is
\* no timeout: a peer that does not read may never let it end.
write_all(c) ==
    /\ conn[c].writer = "write"
    /\ conn' = [conn EXCEPT ![c].writer = "recv"]
    /\ UNCHANGED <<initiator, current, events, session>>

\* Mutant: shutdown() without its timeout.
writer_shutdown_untimed(c) ==
    /\ conn[c].writer = "shutdown" /\ conn[c].link = "down"
    /\ conn' = [conn EXCEPT ![c].writer = "done", ![c].mailbox = << >>]
    /\ UNCHANGED <<initiator, current, events, session>>

\* shutdown() or its timeout.  The mailbox goes with the actor.
writer_shutdown(c) ==
    /\ conn[c].writer = "shutdown"
    /\ conn' = [conn EXCEPT ![c].writer = "done", ![c].mailbox = << >>]
    /\ UNCHANGED <<initiator, current, events, session>>

-----------------------------------------------------------------------------
(* The session.  A handler is a set of states it may leave the session in; *)
(* todo lists what it pushes to the writer on the way.                     *)

TimedStates == {"AwaitingLogon", "Active", "AwaitingLogout"}

NewSession ==
    [state |-> "Disconnected", on |-> 0, reconnect |-> TRUE, test |-> FALSE, awaiter |-> FALSE,
     answer |-> "none", todo |-> << >>, to |-> 0, overruled |-> FALSE, seen |-> 0]

is_connected(s) == s.state # "Disconnected"

\* WriterRef::send_raw_message and disconnect
Push(s, messages) ==
    IF s.on = 0 THEN s ELSE [s EXCEPT !.todo = @ \o messages, !.to = s.on]

\* new_disconnected drops the writer.
new_disconnected(s, reconnect) ==
    [s EXCEPT !.state = "Disconnected", !.on = 0, !.reconnect = reconnect, !.test = FALSE]

logout_and_terminate(s) == Push(s, <<"msg", "disconnect">>)

disconnect_writer(s) == Push(s, <<"disconnect">>)

\* Mutant: what was asked for with the logout is forgotten.
on_disconnect_forgetful(s) ==
    IF is_connected(s) THEN new_disconnected(s, TRUE) ELSE s

on_disconnect(s) ==
    IF is_connected(s) THEN new_disconnected(s, s.state = "AwaitingLogout" => s.reconnect) ELSE s

initiate_graceful_logout(s, reconnect) ==
    IF s.state \in {"Disconnected", "AwaitingLogout"} THEN s
    ELSE [Push(s, <<"msg">>) EXCEPT !.state = "AwaitingLogout", !.reconnect = reconnect, !.test = FALSE]

\* Active again or for the first time, outside the schedule, in a new
\* period, or at a time without one.
handle_schedule_check(s) ==
    LET notified == IF s.awaiter THEN [s EXCEPT !.awaiter = FALSE, !.answer = "InSchedule"] ELSE s
    IN  {notified, initiate_graceful_logout(s, TRUE), logout_and_terminate(notified)}

on_connect(s, c) ==
    Push([s EXCEPT !.state = "AwaitingLogon", !.on = c, !.reconnect = TRUE, !.test = FALSE,
                   !.overruled = FALSE,
                   !.answer = IF s.awaiter THEN "dropped" ELSE @, !.awaiter = FALSE], <<"msg">>)

\* bound: a message is answered with at most one
Replies == {<< >>, <<"msg">>}

\* A reply or several (a resend), an answered test request, a message the
\* application or the state refuses, a breach of the protocol we disconnect
\* for (which overrules the logout in progress), the peer's logout, a gap, a
\* logon or the end of a resend.
on_incoming(s) ==
    IF ~is_connected(s) THEN {s}
    ELSE {Push(s, r) : r \in Replies} \cup {[s EXCEPT !.test = FALSE], disconnect_writer(s)}
         \cup {[new_disconnected(logout_and_terminate(s), r) EXCEPT !.overruled = r] : r \in BOOLEAN}
         \cup {on_disconnect(disconnect_writer(s)), on_disconnect(logout_and_terminate(s))}
         \cup {[Push(t, <<"msg">>) EXCEPT !.state = "AwaitingResend", !.test = FALSE]
                  : t \in {t \in {s} : s.state \in {"AwaitingLogon", "Active"}}}
         \cup {[t EXCEPT !.state = "Active"]
                  : t \in {t \in {s} : s.state \in {"AwaitingLogon", "AwaitingResend"}}}

register_schedule_awaiter(s) ==
    IF ~is_connected(s) /\ ~s.awaiter THEN [s EXCEPT !.awaiter = TRUE]
    ELSE [s EXCEPT !.answer = "Shutdown"]

answer_should_reconnect(s) ==
    [s EXCEPT !.answer = IF is_connected(s) \/ s.reconnect THEN "reconnect" ELSE "stop"]

\* handle_session_event after its schedule check
on_event(s, e) ==
    CASE e.type = "FixMessageReceived" -> on_incoming(s)
      [] e.type = "Disconnected"       -> {on_disconnect(disconnect_writer(s))}
      [] e.type = "Connected"          -> {on_connect(s, e.conn)}
      [] e.type = "ShouldReconnect"    -> {answer_should_reconnect(s)}
      [] e.type = "AwaitSchedule"      -> {register_schedule_awaiter(s)}

Ready == session.todo = << >> /\ ~SessionGone

\* What comes after the event channel in the biased select! has its turn.
Idle == Ready /\ events = << >>

\* Where an event belongs: a connection's own events first, then the
\* questions that follow it.
Rank(e) == 2 * e.conn + (IF e.type \in {"ShouldReconnect", "AwaitSchedule"} THEN 1 ELSE 0)

handle_session_event ==
    /\ Ready /\ events # << >>
    /\ events' = Tail(events)
    /\ \E s \in handle_schedule_check(session) :
          \E t \in on_event(s, Head(events)) :
             session' = [t EXCEPT !.seen = Rank(Head(events))]
    /\ UNCHANGED <<initiator, current, conn>>

\* A message whose handler panics: a TestRequest without its id, a resend of
\* messages that were never sent.  Waiting questions are dropped.
session_panics ==
    /\ Ready /\ is_connected(session)
    /\ events # << >> /\ Head(events).type = "FixMessageReceived"
    /\ events' = << >>
    /\ session' = [NewSession EXCEPT !.state = "Gone",
                       !.answer = IF initiator \in {"waiting", "asked"} THEN "dropped" ELSE "none"]
    /\ UNCHANGED <<initiator, current, conn>>

\* A message is sent, dropped, refused because the session is disconnected,
\* or the application asks for the end.
handle_outbound_message ==
    /\ Idle
    /\ session' \in {session, Push(session, <<"msg">>), disconnect_writer(session)}
    /\ UNCHANGED <<initiator, current, conn, events>>

\* InitiateGracefulShutdown; the admin channel comes first.
handle_admin_request ==
    /\ Ready
    /\ \E reconnect \in BOOLEAN : session' = initiate_graceful_logout(session, reconnect)
    /\ UNCHANGED <<initiator, current, conn, events>>

handle_heartbeat_timeout ==
    /\ Idle /\ session.state = "Active"
    /\ session' = Push(session, <<"msg">>)
    /\ UNCHANGED <<initiator, current, conn, events>>

handle_peer_timeout ==
    /\ Idle /\ session.state \in TimedStates
    /\ session' = CASE session.test -> logout_and_terminate(session)
                    [] session.state = "Active" -> [Push(session, <<"msg">>) EXCEPT !.test = TRUE]
                    [] OTHER -> disconnect_writer(session)
    /\ UNCHANGED <<initiator, current, conn, events>>

schedule_check_timer ==
    /\ Idle
    /\ session' \in handle_schedule_check(session)
    /\ UNCHANGED <<initiator, current, conn, events>>

\* WriterRef: a push waits for room; with the writer gone it only warns.
push ==
    /\ session.todo # << >>
    /\ LET w == conn[session.to]
       IN  \/ w.writer = "done" /\ UNCHANGED conn
           \/ /\ w.writer # "done" /\ Len(w.mailbox) < MailboxCap
              /\ conn' = [conn EXCEPT ![session.to].mailbox = Append(@, Head(session.todo))]
    /\ session' = [session EXCEPT !.todo = Tail(@), !.to = IF Len(session.todo) = 1 THEN 0 ELSE @]
    /\ UNCHANGED <<initiator, current, events>>

-----------------------------------------------------------------------------
(* The application and the peer *)

\* The peer says no more, or the connection is closed from its side or lost.
PeerStops(c) ==
    /\ conn[c].reader # "none" /\ conn[c].link = "up"
    /\ \E l \in {"silent", "down"} : conn' = [conn EXCEPT ![c].link = l]
    /\ UNCHANGED <<initiator, current, events, session>>

-----------------------------------------------------------------------------
CInit ==
    /\ initiator = "await" /\ current = 0
    /\ conn = [c \in Conns |-> NoConn]
    /\ events = << >>
    /\ session = NewSession

LoopStep ==
    \/ await_in_schedule \/ ScheduleAnswered \/ connect \/ connect_fails \/ register_writer
    \/ should_reconnect \/ ReconnectAnswered
    \/ run_until_disconnect \/ WriterExit \/ force_close

TransportStep(c) ==
    \/ new_fix_message_received(c) \/ disconnect(c)
    \/ recv(c) \/ senders_gone(c) \/ write_all(c) \/ writer_shutdown(c)

SessionStep ==
    \/ handle_session_event \/ session_panics \/ handle_outbound_message \/ handle_admin_request
    \/ handle_heartbeat_timeout \/ handle_peer_timeout \/ schedule_check_timer \/ push

CNext ==
    \/ LoopStep \/ SessionStep
    \/ \E c \in Conns : TransportStep(c) \/ PeerStops(c)

ConnectionSpec == CInit /\ [][CNext]_cvars

-----------------------------------------------------------------------------
(* The events of a connection reach the session before the questions about *)
(* what comes next, and those before the next connection's: the loop       *)
(* outlives the reader.  ShouldReconnect is thus answered from the state   *)
(* the disconnect has left, and no event is taken for one of a later       *)
(* connection.                                                             *)
EventsInOrder ==
    LET ranks == <<session.seen>> \o [i \in 1 .. Len(events) |-> Rank(events[i])]
    IN  \A i \in 1 .. Len(events) : ranks[i] <= ranks[i + 1]

-----------------------------------------------------------------------------
(* Liveness.  Every task takes its turn; a channel of tokio serves waiting *)
(* senders in order, and the reader's select! is random, hence strong      *)
(* fairness where others can take the room or the turn.  A peer timer that *)
(* has run out stays so, while the heartbeat timer starts over each time.  *)
(* write_all has no timeout, so nothing is assumed of it: it may wait for  *)
(* ever for a peer that keeps the connection and does not read, and the    *)
(* properties say what then remains of them.                               *)

LoopProgress ==
    \/ await_in_schedule \/ ScheduleAnswered \/ register_writer
    \/ should_reconnect \/ ReconnectAnswered
    \/ run_until_disconnect \/ WriterExit \/ force_close

WriterProgress(c) == recv(c) \/ senders_gone(c) \/ writer_shutdown(c)

CFairness ==
    /\ SF_cvars(LoopProgress)
    /\ \A c \in Conns : WF_cvars(WriterProgress(c)) /\ SF_cvars(disconnect(c))
    /\ WF_cvars(push) /\ WF_cvars(handle_session_event)
    /\ SF_cvars(handle_peer_timeout)

FairConnection == ConnectionSpec /\ CFairness

Writing(c) == conn[c].writer = "write"

\* A session that waits for room in the writer's mailbox gets on: the writer
\* empties it, drops it when it ends, and needs neither session nor reader.
\* The one thing that can stop the session for good is a write_all, of the
\* writer it waits for, that never returns.
SessionUnblocks ==
    \/ []<>(session.todo = << >>)
    \/ <>[](\E c \in Conns : session.to = c /\ Writing(c))

\* A peer that says no more loses its connection, unless a resend is awaited:
\* that state has no timers; or unless a write_all on it never returns.
SilentPeerDropped ==
    \A c \in Conns :
        \/ (conn[c].link = "silent" /\ session.on = c /\ session.state \in TimedStates)
               ~> (session.on # c \/ session.state = "AwaitingResend")
        \/ <>[]Writing(c)

\* shutdown(false) of a connected session ends the connection loop, unless
\* the peer breaks the protocol and is disconnected for that with reconnect;
\* or its messages never leave the session idle: the timers come last in the
\* biased select!; or a write_all never returns: the watchdog waits for the
\* writer.
ShutdownCompletes ==
    \/ (session.state = "AwaitingLogout" /\ ~session.reconnect)
           ~> (initiator = "stopped" \/ session.overruled)
    \/ <>[]~Idle
    \/ <>[](\E c \in Conns : current = c /\ Writing(c))
=============================================================================
