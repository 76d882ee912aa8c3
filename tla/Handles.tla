------------------------------ MODULE Handles ------------------------------
(***************************************************************************)
(* What an application, or the web API, is told by a SessionHandle and an  *)
(* Initiator: the calls of session_handle.rs and initiator.rs, the bounded *)
(* channels of session_ref.rs they go through, and the answers of          *)
(* run_session.  The session is reduced to its state and the number of its *)
(* next message, with the connection loop's view of it: module Session has *)
(* what it does in full, the resets of the store included, and module      *)
(* Connection has the tasks of the transport.                              *)
(***************************************************************************)
EXTENDS Naturals, Sequences

CONSTANTS
    Callers,       \* tasks that hold a handle
    OutboundCap,   \* capacity of the outbound channel, 10 in the code
    AdminCap,      \* capacity of the admin channel, 10 in the code
    MaxCalls,      \* bound: calls of each caller
    MaxNumber      \* bound: sender sequence numbers

ASSUME ChannelsAssumption == {OutboundCap, AdminCap} \subseteq Nat \ {0}

VARIABLES
    callers,       \* what each caller does: its call, how far it is, what it was told
    requests,      \* the two channels
    engine,        \* the session and the connection loop
    stored,        \* history: the application messages put in the store
    shut           \* history: an Initiator::shutdown has returned Ok

hvars == <<callers, requests, engine, stored, shut>>

Told(kind) == [kind |-> kind, number |-> 0]
Nothing == Told("none")
SentAs(n) == [kind |-> "Sent", number |-> n]
Gone == engine.status = "Gone"

\* Disconnected and AwaitingLogout have a reconnect flag; it is TRUE elsewhere.
Status(e, status, reconnect) == [e EXCEPT !.status = status, !.reconnect = reconnect]
is_connected(e) == e.status # "Disconnected"

-----------------------------------------------------------------------------
(* The calls.  Each makes one request, then waits for room in its channel. *)

Calls(c, op, reconnect) ==
    /\ callers[c].pc = "idle" /\ callers[c].n < MaxCalls[c]
    /\ callers' = [callers EXCEPT ![c] =
           [op |-> op, reconnect |-> reconnect, pc |-> "sending", n |-> @.n + 1, told |-> Nothing]]
    /\ UNCHANGED <<requests, engine, stored, shut>>

send(c) == Calls(c, "send", FALSE)
send_forget(c) == Calls(c, "send_forget", FALSE)
get_session_info(c) == Calls(c, "info", FALSE)
request_reset_on_next_logon(c) == Calls(c, "reset", FALSE)
set_next_target_seq_num(c) == Calls(c, "set_target", FALSE)
handle_shutdown(c) == \E reconnect \in BOOLEAN : Calls(c, "shutdown", reconnect)
initiator_shutdown(c) == \E reconnect \in BOOLEAN : Calls(c, "shutdown_and_wait", reconnect)

Channel(op) == IF op \in {"send", "send_forget"} THEN "outbound" ELSE "admin"
Capacity == [outbound |-> OutboundCap, admin |-> AdminCap]

\* What a caller was told of its last message is kept.
AtRest(n) == [op |-> "none", reconnect |-> FALSE, pc |-> "idle", n |-> n, told |-> Nothing]
Returns(c, told) ==
    callers' = [callers EXCEPT ![c] =
        IF Channel(@.op) = "outbound" THEN [@ EXCEPT !.pc = "idle", !.told = told] ELSE AtRest(@.n)]

\* OutboundRequest, and AdminRequest: of these two have nobody to answer.
Request(c) ==
    CASE callers[c].op = "reset" -> [op |-> "reset"]
      [] callers[c].op \in {"shutdown", "shutdown_and_wait"} -> [op |-> "shutdown", reconnect |-> callers[c].reconnect]
      [] OTHER -> [op |-> callers[c].op, from |-> c, n |-> callers[c].n]

Queued(c) ==
    LET r == callers[c] IN
    /\ r.pc = "sending" /\ ~Gone
    /\ Len(requests[Channel(r.op)]) < Capacity[Channel(r.op)]
    /\ requests' = [requests EXCEPT ![Channel(r.op)] = Append(@, Request(c))]
    /\ UNCHANGED <<engine, stored>>

\* Mutant: Initiator::shutdown returns once the request is queued.
mpsc_send_only(c) ==
    /\ Queued(c)
    /\ IF callers[c].op \in {"send", "info", "set_target"}
       THEN callers' = [callers EXCEPT ![c].pc = "waiting"] ELSE Returns(c, Told("Ok"))
    /\ shut' = (shut \/ callers[c].op = "shutdown_and_wait")

\* mpsc::Sender::send, and what the call does next.
mpsc_send(c) ==
    /\ Queued(c)
    /\ CASE callers[c].op \in {"send", "info", "set_target"} -> callers' = [callers EXCEPT ![c].pc = "waiting"]
         [] callers[c].op = "shutdown_and_wait" ->
              callers' = [callers EXCEPT ![c].pc = "completing", ![c].reconnect = FALSE]
         [] OTHER -> Returns(c, Told("Ok"))
    /\ UNCHANGED shut

\* From<SendError> and From<RecvError>: the session task has ended.
session_gone(c) ==
    /\ Gone /\ callers[c].pc \in {"sending", "waiting"}
    /\ Returns(c, Told("SessionGone"))
    /\ UNCHANGED <<requests, engine, stored, shut>>

Stopped == engine.loop \in {"told", "untold"}

wait_for_shutdown(c) ==
    /\ callers[c].pc = "completing" /\ Stopped
    /\ Returns(c, Told("Ok"))
    /\ shut' = TRUE
    /\ UNCHANGED <<requests, engine, stored>>

\* The five seconds of Initiator::shutdown are over.
shutdown_timeout(c) ==
    /\ callers[c].pc = "completing" /\ ~Stopped
    /\ Returns(c, Told("SessionGone"))
    /\ UNCHANGED <<requests, engine, stored, shut>>

\* The caller's future is dropped; a request in a channel stays there.
cancel(c) ==
    /\ callers[c].pc # "idle"
    /\ Returns(c, Nothing)
    /\ UNCHANGED <<requests, engine, stored, shut>>

-----------------------------------------------------------------------------
(* run_session: admin requests, then events, then outbound messages *)

\* oneshot::Sender::send; nobody may be waiting any more.
Replied(r, told) ==
    IF callers[r.from].pc = "waiting" /\ callers[r.from].n = r.n
    THEN Returns(r.from, told) ELSE UNCHANGED callers

\* What a call ends with: the answer, the session, and whether the message is
\* in the store.  An InternalSendError becomes the SendError of the same name.
Result(told, e, filed) == [told |-> told, engine |-> e, filed |-> filed]

\* The text, the number, the store.  Each may fail, and a failing add may have
\* stored the message all the same: the answer of the database was lost, or
\* the bytes wait in the BufWriter of the file.
prepare_message(e) ==
    LET taken == [e EXCEPT !.number = @ + 1]
    IN  {Result(Told("Persist"), e, FALSE), Result(Told("SequenceNumber"), e, FALSE),
         Result(SentAs(e.number), taken, TRUE)}
        \cup {Result(Told("Persist"), taken, filed) : filed \in BOOLEAN}

\* The answer to a message and the session after it.  disconnect_writer and
\* the writer change nothing here: Disconnected comes later, as an event.
send_app_message(e) ==
    IF ~is_connected(e) THEN {Result(Told("Disconnected"), e, FALSE)}
    ELSE prepare_message(e) \cup
         {Result(Told(kind), e, FALSE) : kind \in {"Dropped", "SessionTerminated"}}

Entry_(r, number) == [from |-> r.from, n |-> r.n, number |-> number, late |-> shut]

\* Mutant: the caller is told the number before the message is in the store.
confirm_before_store ==
    /\ ~Gone /\ requests.admin = << >> /\ requests.outbound # << >> /\ engine.number < MaxNumber
    /\ LET r == Head(requests.outbound) IN
       \E result \in send_app_message(engine) :
         /\ engine' = result.engine
         /\ stored' = IF result.filed THEN Append(stored, Entry_(r, engine.number)) ELSE stored
         /\ IF r.op = "send" /\ result.engine.number > engine.number
            THEN Replied(r, SentAs(engine.number))
            ELSE IF r.op = "send" THEN Replied(r, result.told) ELSE UNCHANGED callers
    /\ requests' = [requests EXCEPT !.outbound = Tail(@)]
    /\ UNCHANGED shut

handle_outbound_message ==
    /\ ~Gone /\ requests.admin = << >> /\ requests.outbound # << >> /\ engine.number < MaxNumber
    /\ LET r == Head(requests.outbound) IN
       \E result \in send_app_message(engine) :
         /\ engine' = result.engine
         /\ stored' = IF result.filed THEN Append(stored, Entry_(r, engine.number)) ELSE stored
         /\ IF r.op = "send" THEN Replied(r, result.told) ELSE UNCHANGED callers
    /\ requests' = [requests EXCEPT !.outbound = Tail(@)]
    /\ UNCHANGED shut

\* The Logout takes a number too.  When it fails the session stays as it is.
initiate_graceful_logout(e, reconnect) ==
    IF e.status \notin {"AwaitingLogon", "LoggedOn"} THEN {e}
    ELSE {IF p.told.kind = "Sent" THEN Status(p.engine, "AwaitingLogout", reconnect) ELSE p.engine :
             p \in prepare_message(e)}

try_set_next_target_seq_num(e) == IF is_connected(e) THEN {"InvalidState"} ELSE {"Ok", "Store"}

handle_admin_request ==
    /\ ~Gone /\ requests.admin # << >> /\ engine.number < MaxNumber
    /\ LET r == Head(requests.admin) IN
       \/ /\ r.op = "shutdown"
          /\ engine' \in initiate_graceful_logout(engine, r.reconnect)
          /\ UNCHANGED callers
       \/ r.op = "info" /\ Replied(r, Told("Info")) /\ UNCHANGED engine
       \/ r.op = "reset" /\ UNCHANGED <<callers, engine>>
       \/ /\ r.op = "set_target"
          /\ \E kind \in try_set_next_target_seq_num(engine) : Replied(r, Told(kind))
          /\ UNCHANGED engine
    /\ requests' = [requests EXCEPT !.admin = Tail(@)]
    /\ UNCHANGED <<stored, shut>>

-----------------------------------------------------------------------------
(* Events: the connection loop, the peer, the schedule *)

OnEvent(next) ==
    /\ ~Gone /\ requests.admin = << >> /\ engine' \in next
    /\ UNCHANGED <<callers, requests, stored, shut>>

\* The loop's register_writer, and send_logon.  When the reader's Disconnected
\* came first, the session is left with a connection that has ended, and the
\* loop goes on.
on_connect ==
    /\ engine.loop = "await" /\ ~is_connected(engine) /\ engine.number < MaxNumber
    /\ OnEvent({Status([p.engine EXCEPT !.loop = l], "AwaitingLogon", TRUE) :
                   p \in prepare_message(engine), l \in {"connected", "ask"}})

connect_fails == engine.loop = "await" /\ ~is_connected(engine) /\ OnEvent({[engine EXCEPT !.loop = "ask"]})

on_logon == engine.status = "AwaitingLogon" /\ engine.loop = "connected" /\ OnEvent({Status(engine, "LoggedOn", TRUE)})

\* The reader has gone.
on_disconnect ==
    /\ engine.loop = "connected"
    /\ OnEvent({Status([engine EXCEPT !.loop = "ask"], "Disconnected",
                       engine.status \in {"AwaitingLogout", "Disconnected"} => engine.reconnect)})

\* A message that ends the session while its connection is still there: the
\* peer's Logout, a number too low, a bad header, an error in the handler.
end_session ==
    /\ engine.loop = "connected" /\ is_connected(engine)
    /\ OnEvent({Status(engine, "Disconnected", r) : r \in BOOLEAN})

\* The period has ended, or has changed and the store could not be reset.
period_ends ==
    /\ engine.number < MaxNumber
    /\ OnEvent({Status(engine, "Disconnected", FALSE)} \cup initiate_graceful_logout(engine, TRUE))

should_reconnect ==
    /\ engine.loop = "ask"
    /\ OnEvent({[engine EXCEPT !.loop = IF is_connected(engine) \/ engine.reconnect THEN "await" ELSE "told"]})

\* A session that is connected answers Shutdown.  One that is not lets the loop
\* connect, which is on_connect or connect_fails.
await_in_schedule ==
    /\ engine.loop = "await" /\ is_connected(engine)
    /\ OnEvent({[engine EXCEPT !.loop = "untold"]})

\* A panic in a callback: the channels and the answers in them are dropped.
session_panics ==
    /\ ~Gone
    /\ engine' = [engine EXCEPT !.status = "Gone"]
    /\ requests' = [outbound |-> << >>, admin |-> << >>]
    /\ UNCHANGED <<callers, stored, shut>>

\* The loop's next send or answer fails.
loop_ends ==
    /\ Gone /\ ~Stopped
    /\ engine' = [engine EXCEPT !.loop = "told"]
    /\ UNCHANGED <<callers, requests, stored, shut>>

-----------------------------------------------------------------------------
HInit ==
    /\ callers = [c \in Callers |-> AtRest(0)]
    /\ requests = [outbound |-> << >>, admin |-> << >>]
    /\ engine = [status |-> "Disconnected", reconnect |-> TRUE, loop |-> "await", number |-> 1]
    /\ stored = << >> /\ shut = FALSE

\* The calls of Initiator, those of the web API's HttpSessionController, and the
\* one that only a SessionHandle has.
InitiatorCalls(c) == send(c) \/ send_forget(c) \/ initiator_shutdown(c)
HttpSessionController(c) == get_session_info(c) \/ request_reset_on_next_logon(c) \/ handle_shutdown(c)

CallerStep(c) ==
    \/ InitiatorCalls(c) \/ HttpSessionController(c) \/ set_next_target_seq_num(c)
    \/ mpsc_send(c) \/ session_gone(c) \/ wait_for_shutdown(c) \/ shutdown_timeout(c) \/ cancel(c)

HNext ==
    \/ \E c \in Callers : CallerStep(c)
    \/ handle_outbound_message \/ handle_admin_request
    \/ on_connect \/ connect_fails \/ on_logon \/ on_disconnect \/ end_session
    \/ period_ends \/ should_reconnect \/ await_in_schedule
    \/ session_panics \/ loop_ends

HandlesSpec == HInit /\ [][HNext]_hvars

-----------------------------------------------------------------------------
OfCall(c, n) == {i \in DOMAIN stored : stored[i].from = c /\ stored[i].n = n}
NotStored == {"Dropped", "Disconnected", "SessionTerminated", "SequenceNumber", "SessionGone"}

(* handle_outbound_message, prepare_message, SessionHandle::send: a caller
   told Sent with a number has its message in the store under that number,
   once; a caller told anything else but Persist, SessionGone included, may
   send it again, for it is not in the store.  (After Persist it may be, and
   then goes out when the peer asks for that number.)  Between two resets of
   the store one caller's messages are stored in the order of its calls, each
   at most once and with ascending numbers, whether it waited for the answers,
   forgot them or gave up, and whatever the store did with those before. *)
AnswersAreTrue ==
    /\ \A c \in Callers : LET r == callers[c] IN r.op \in {"send", "send_forget"} =>
         /\ r.told.kind = "Sent" =>
              \E i \in OfCall(c, r.n) : OfCall(c, r.n) = {i} /\ stored[i].number = r.told.number
         /\ r.told.kind \in NotStored => OfCall(c, r.n) = {}
    /\ \A i, j \in DOMAIN stored : i < j =>
         /\ stored[i].from = stored[j].from => stored[i].n < stored[j].n
         /\ stored[i].number < stored[j].number

(* Initiator::shutdown: once it has returned Ok no application message of any
   handle is stored or sent any more, provided the loop ended because the
   session told it not to reconnect.  (When the loop ends because the session
   still holds a connection that has ended, the session does not know.) *)
QuietAfterShutdown ==
    engine.loop # "untold" => \A i \in DOMAIN stored : ~stored[i].late
=============================================================================
