--------------------- MODULE ConnectionAndResendProofs ----------------------
(***************************************************************************)
(* What holds of the connection and of the answer to a ResendRequest.      *)
(*                                                                         *)
(* Connection: EventsInOrder for any number of connections and any         *)
(* capacities of the channels.  The argument is about who may put an event *)
(* into the channel.  A reader that still reads is the reader of the       *)
(* current connection, and the loop is then inside that connection         *)
(* (LoneReader); the loop asks its questions only outside.  So whoever     *)
(* sends next sends at the highest rank there is, Top, and Top never       *)
(* falls.                                                                  *)
(*                                                                         *)
(* Resend: for every store, every request and both build profiles.         *)
(***************************************************************************)
EXTENDS Connection, Resend, SequenceTheorems, TLAPS

LoopStates ==
    {"await", "waiting", "connect", "register", "run", "grace", "killed", "ask", "asked", "stopped"}

\* The loop is inside a connection.
Busy == initiator \in {"register", "run", "grace", "killed"}

Asking == {"ShouldReconnect", "AwaitSchedule"}
EventTypes == Asking \cup {"FixMessageReceived", "Disconnected", "Connected"}
EventRecord == [type : EventTypes, conn : Nat]

Pushed == {"msg", "disconnect"}

ConnRecord ==
    [reader : {"none", "read", "done"}, writer : {"none", "recv", "write", "shutdown", "done"},
     mailbox : Seq(Pushed), link : {"up", "silent", "down"}, kill : BOOLEAN]

LiveStates == {"Disconnected", "AwaitingLogon", "AwaitingResend", "Active", "AwaitingLogout"}
Answers == {"none", "InSchedule", "Shutdown", "reconnect", "stop", "dropped"}

SessionRecord ==
    [state : LiveStates \cup {"Gone"}, on : Nat, reconnect : BOOLEAN, test : BOOLEAN,
     awaiter : BOOLEAN, answer : Answers, todo : Seq(Pushed), to : Nat, overruled : BOOLEAN,
     seen : Nat]

CTyped ==
    /\ initiator \in LoopStates /\ current \in 0 .. MaxConns
    /\ conn \in [Conns -> ConnRecord]
    /\ events \in Seq(EventRecord)
    /\ session \in SessionRecord

\* The reader of a connection the loop has left does not read any more.
LoneReader ==
    \A c \in Conns : conn[c].reader = "read" => SessionGone \/ (c = current /\ Busy)

\* Nobody puts an event where no session takes it.
NothingForNobody == SessionGone => events = << >>

\* What the next event's rank will be at least.
Top == 2 * current + (IF Busy THEN 0 ELSE 1)

BelowTop ==
    /\ session.seen <= Top
    /\ \A i \in DOMAIN events : Rank(events[i]) <= Top

Ranked ==
    /\ \A i \in DOMAIN events : session.seen <= Rank(events[i])
    /\ \A i, j \in DOMAIN events : i < j => Rank(events[i]) <= Rank(events[j])

CInv == CTyped /\ LoneReader /\ NothingForNobody /\ BelowTop /\ Ranked

-----------------------------------------------------------------------------
(* The handlers: each leaves a session that runs, and what it has seen. *)

Live == {s \in SessionRecord : s.state # "Gone"}

KeepsSeen(s, t) == t \in Live /\ t.seen = s.seen

LEMMA ParamsTypes == MaxConns \in Nat \ {0} /\ EventCap \in Nat \ {0} /\ MailboxCap \in Nat \ {0}
BY CapacitiesAssumption

LEMMA PushKeeps ==
  ASSUME NEW s \in Live, NEW m \in Seq(Pushed)
  PROVE  KeepsSeen(s, Push(s, m)) /\ Push(s, m).state = s.state
<1>1. s \in SessionRecord /\ s.todo \in Seq(Pushed) /\ s.on \in Nat
  BY DEF Live, SessionRecord
<1>2. s.todo \o m \in Seq(Pushed)
  BY <1>1, ConcatProperties
<1> DEFINE u == [s EXCEPT !.todo = s.todo \o m, !.to = s.on]
<1>3. u \in SessionRecord /\ u.state = s.state /\ u.seen = s.seen
  BY <1>1, <1>2, Zenon DEF SessionRecord
<1>4. Push(s, m) \in {s, u}
  BY DEF Push
<1> HIDE DEF u
<1> QED
  BY <1>1, <1>3, <1>4 DEF KeepsSeen, Live

LEMMA Words == << >> \in Seq(Pushed) /\ <<"msg">> \in Seq(Pushed) /\ <<"disconnect">> \in Seq(Pushed)
               /\ <<"msg", "disconnect">> \in Seq(Pushed)
BY DEF Pushed

LEMMA NewDisconnectedKeeps ==
  ASSUME NEW s \in Live, NEW r \in BOOLEAN
  PROVE  KeepsSeen(s, new_disconnected(s, r))
BY Zenon DEF KeepsSeen, Live, new_disconnected, SessionRecord, LiveStates

LEMMA DisconnectWriterKeeps ==
  ASSUME NEW s \in Live
  PROVE  /\ KeepsSeen(s, disconnect_writer(s)) /\ KeepsSeen(s, logout_and_terminate(s))
         /\ disconnect_writer(s).state = s.state
BY PushKeeps, Words, Zenon DEF disconnect_writer, logout_and_terminate

LEMMA OnDisconnectKeeps ==
  ASSUME NEW s \in Live
  PROVE  KeepsSeen(s, on_disconnect(s))
<1>1. (s.state = "AwaitingLogout" => s.reconnect) \in BOOLEAN
  OBVIOUS
<1> QED
  BY <1>1, NewDisconnectedKeeps, Zenon DEF on_disconnect, KeepsSeen

LEMMA LogoutKeeps ==
  ASSUME NEW s \in Live, NEW r \in BOOLEAN
  PROVE  KeepsSeen(s, initiate_graceful_logout(s, r))
<1>1. KeepsSeen(s, Push(s, <<"msg">>))
  BY PushKeeps, Words, Zenon
<1>2. KeepsSeen(s, [Push(s, <<"msg">>) EXCEPT !.state = "AwaitingLogout", !.reconnect = r, !.test = FALSE])
  BY <1>1, Zenon DEF KeepsSeen, Live, SessionRecord, LiveStates
<1> QED
  BY <1>2 DEF initiate_graceful_logout, KeepsSeen

LEMMA ScheduleCheckKeeps ==
  ASSUME NEW s \in Live, NEW t \in handle_schedule_check(s)
  PROVE  KeepsSeen(s, t)
<1> DEFINE notified == IF s.awaiter THEN [s EXCEPT !.awaiter = FALSE, !.answer = "InSchedule"] ELSE s
<1>1. KeepsSeen(s, notified)
  BY Zenon DEF KeepsSeen, Live, SessionRecord, Answers
<1>2. KeepsSeen(notified, logout_and_terminate(notified))
  BY <1>1, DisconnectWriterKeeps, Zenon DEF KeepsSeen
<1>3. KeepsSeen(s, initiate_graceful_logout(s, TRUE))
  BY LogoutKeeps, Zenon
<1>4. t \in {notified, initiate_graceful_logout(s, TRUE), logout_and_terminate(notified)}
  BY Zenon DEF handle_schedule_check
<1> HIDE DEF notified
<1> QED
  BY <1>1, <1>2, <1>3, <1>4, Zenon DEF KeepsSeen

LEMMA OnConnectKeeps ==
  ASSUME NEW s \in Live, NEW c \in Nat
  PROVE  KeepsSeen(s, on_connect(s, c))
<1> DEFINE u == [s EXCEPT !.state = "AwaitingLogon", !.on = c, !.reconnect = TRUE, !.test = FALSE,
                          !.overruled = FALSE,
                          !.answer = IF s.awaiter THEN "dropped" ELSE @, !.awaiter = FALSE]
<1>1. KeepsSeen(s, u)
  BY ZenonT(30) DEF KeepsSeen, Live, SessionRecord, LiveStates, Answers
<1>2. KeepsSeen(u, Push(u, <<"msg">>))
  BY <1>1, PushKeeps, Words, Zenon DEF KeepsSeen
<1> QED
  BY <1>1, <1>2 DEF on_connect, KeepsSeen

LEMMA OnIncomingKeeps ==
  ASSUME NEW s \in Live, NEW t \in on_incoming(s)
  PROVE  KeepsSeen(s, t)
<1>1. \A m \in Replies : KeepsSeen(s, Push(s, m))
  BY PushKeeps, Words, Zenon DEF Replies
<1>2. KeepsSeen(s, [s EXCEPT !.test = FALSE])
  BY Zenon DEF KeepsSeen, Live, SessionRecord
<1>3. KeepsSeen(s, disconnect_writer(s)) /\ KeepsSeen(s, logout_and_terminate(s))
  BY DisconnectWriterKeeps
<1>4. ASSUME NEW r \in BOOLEAN
      PROVE  KeepsSeen(s, [new_disconnected(logout_and_terminate(s), r) EXCEPT !.overruled = r])
  <2>1. KeepsSeen(s, new_disconnected(logout_and_terminate(s), r))
    BY <1>3, NewDisconnectedKeeps DEF KeepsSeen
  <2> QED
    BY <2>1, Zenon DEF KeepsSeen, Live, SessionRecord
<1>5. KeepsSeen(s, on_disconnect(disconnect_writer(s))) /\ KeepsSeen(s, on_disconnect(logout_and_terminate(s)))
  BY <1>3, OnDisconnectKeeps DEF KeepsSeen
<1>6. KeepsSeen(s, [Push(s, <<"msg">>) EXCEPT !.state = "AwaitingResend", !.test = FALSE])
  <2>1. KeepsSeen(s, Push(s, <<"msg">>))
    BY PushKeeps, Words, Zenon
  <2> QED
    BY <2>1, Zenon DEF KeepsSeen, Live, SessionRecord, LiveStates
<1>7. KeepsSeen(s, [s EXCEPT !.state = "Active"]) /\ KeepsSeen(s, s)
  BY DEF KeepsSeen, Live, SessionRecord, LiveStates
<1>8. \/ t = s
      \/ \E m \in Replies : t = Push(s, m)
      \/ t = [s EXCEPT !.test = FALSE]
      \/ t = disconnect_writer(s)
      \/ \E r \in BOOLEAN : t = [new_disconnected(logout_and_terminate(s), r) EXCEPT !.overruled = r]
      \/ t \in {on_disconnect(disconnect_writer(s)), on_disconnect(logout_and_terminate(s))}
      \/ t = [Push(s, <<"msg">>) EXCEPT !.state = "AwaitingResend", !.test = FALSE]
      \/ t = [s EXCEPT !.state = "Active"]
  BY Zenon DEF on_incoming
<1> QED
  BY <1>1, <1>2, <1>3, <1>4, <1>5, <1>6, <1>7, <1>8, Zenon

LEMMA OnEventKeeps ==
  ASSUME NEW s \in Live, NEW e \in EventRecord, NEW t \in on_event(s, e)
  PROVE  KeepsSeen(s, t)
<1>1. e.type \in EventTypes /\ e.conn \in Nat
  BY DEF EventRecord
<1>2. CASE e.type = "FixMessageReceived"
  BY <1>2, OnIncomingKeeps DEF on_event
<1>3. CASE e.type = "Disconnected"
  <2>1. KeepsSeen(s, disconnect_writer(s))
    BY DisconnectWriterKeeps
  <2>2. KeepsSeen(s, on_disconnect(disconnect_writer(s)))
    BY <2>1, OnDisconnectKeeps DEF KeepsSeen
  <2> QED
    BY <1>3, <2>2 DEF on_event
<1>4. CASE e.type = "Connected"
  BY <1>1, <1>4, OnConnectKeeps DEF on_event
<1>5. CASE e.type = "ShouldReconnect"
  <2>1. KeepsSeen(s, answer_should_reconnect(s))
    BY DEF answer_should_reconnect, KeepsSeen, Live, SessionRecord, Answers
  <2> QED
    BY <1>5, <2>1 DEF on_event
<1>6. CASE e.type = "AwaitSchedule"
  <2>1. KeepsSeen(s, register_schedule_awaiter(s))
    BY Zenon DEF register_schedule_awaiter, KeepsSeen, Live, SessionRecord, Answers
  <2> QED
    BY <1>6, <2>1 DEF on_event
<1> QED
  BY <1>1, <1>2, <1>3, <1>4, <1>5, <1>6 DEF EventTypes, Asking

-----------------------------------------------------------------------------
(* The channel: an event at the end, an event taken from the front. *)

LEMMA RankOf ==
  ASSUME NEW e \in EventRecord
  PROVE  Rank(e) \in Nat
BY DEF Rank, EventRecord

\* An event of the highest rank so far keeps the order.
LEMMA SentInOrder ==
  ASSUME CTyped, NothingForNobody, BelowTop, Ranked,
         NEW type \in EventTypes, NEW c \in Nat, Sent(type, c),
         ~SessionGone => Rank(Event(type, c)) = Top,
         session' = session, Top' \in Nat, Top <= Top'
  PROVE  /\ events' \in Seq(EventRecord)
         /\ NothingForNobody' /\ BelowTop' /\ Ranked'
<1>1. CASE SessionGone
  <2>1. events' = << >> /\ events' \in Seq(EventRecord)
    BY <1>1 DEF Sent, NothingForNobody
  <2>2. session.seen <= Top' /\ SessionGone'
    BY <1>1, CapacitiesAssumption DEF BelowTop, CTyped, SessionRecord, Top, SessionGone
  <2> QED
    BY <2>1, <2>2 DEF NothingForNobody, BelowTop, Ranked
<1>2. CASE ~SessionGone
  <2> DEFINE e == Event(type, c)
  <2>1. e \in EventRecord
    BY DEF Event, EventRecord
  <2> HIDE DEF e
  <2>2. events' = Append(events, e) /\ events \in Seq(EventRecord) /\ Rank(e) = Top
    BY <1>2 DEF Sent, CTyped, e
  <2>3. /\ events' \in Seq(EventRecord) /\ Len(events') = Len(events) + 1
        /\ \A i \in 1 .. Len(events) : events'[i] = events[i]
        /\ events'[Len(events) + 1] = e
    BY <2>1, <2>2, AppendProperties
  <2>4. \A i \in DOMAIN events' : i \in DOMAIN events \/ (i = Len(events) + 1 /\ events'[i] = e)
    BY <2>2, <2>3
  <2>5. /\ \A i \in DOMAIN events : i \in 1 .. Len(events) /\ events'[i] = events[i] /\ events[i] \in EventRecord
        /\ \A i \in DOMAIN events : Rank(events[i]) \in Nat
        /\ session.seen \in Nat /\ Top \in Nat /\ Rank(e) \in Nat /\ Len(events) \in Nat
    BY <2>1, <2>2, <2>3, RankOf, SMTT(30) DEF CTyped, SessionRecord
  <2>6. ~SessionGone' /\ session'.seen = session.seen
    BY <1>2 DEF SessionGone
  <2>7. BelowTop'
    BY <2>2, <2>4, <2>5, <2>6 DEF BelowTop
  <2>8. \A i \in DOMAIN events' : session.seen <= Rank(events'[i])
    BY <2>2, <2>4, <2>5, <2>6 DEF BelowTop, Ranked
  <2>9. \A i, j \in DOMAIN events' : i < j => Rank(events'[i]) <= Rank(events'[j])
    <3> SUFFICES ASSUME NEW i \in DOMAIN events', NEW j \in DOMAIN events', i < j
                 PROVE  Rank(events'[i]) <= Rank(events'[j])
      OBVIOUS
    <3>1. i \in DOMAIN events
      BY <2>4, <2>5, <2>3
    <3> QED
      BY <2>2, <2>4, <2>5, <3>1 DEF BelowTop, Ranked
  <2> QED
    BY <2>3, <2>6, <2>7, <2>8, <2>9 DEF NothingForNobody, Ranked
<1> QED
  BY <1>1, <1>2

\* The session takes the first event.
LEMMA TakenInOrder ==
  ASSUME CTyped, BelowTop, Ranked, events # << >>, events' = Tail(events),
         session' \in SessionRecord, session'.seen = Rank(Head(events)), session'.state # "Gone",
         Top' = Top
  PROVE  /\ events' \in Seq(EventRecord) /\ Head(events) \in EventRecord
         /\ NothingForNobody' /\ BelowTop' /\ Ranked'
<1>1. events \in Seq(EventRecord)
  BY DEF CTyped
<1>2. /\ events' \in Seq(EventRecord) /\ Len(events') = Len(events) - 1 /\ Len(events) \in Nat \ {0}
      /\ Head(events) = events[1] /\ Head(events) \in EventRecord
      /\ \A i \in 1 .. Len(events') : events'[i] = events[i + 1]
  BY <1>1, HeadTailProperties, EmptySeq, LenProperties
<1>3. \A i \in DOMAIN events' : i + 1 \in DOMAIN events /\ i \in Int /\ events'[i] = events[i + 1] /\ 1 < i + 1
  BY <1>1, <1>2
<1>4. 1 \in DOMAIN events
  BY <1>1, <1>2
<1>5. BelowTop'
  BY <1>2, <1>3, <1>4 DEF BelowTop
<1>6. Ranked'
  <2>1. \A i \in DOMAIN events' : session'.seen <= Rank(events'[i])
    BY <1>2, <1>3, <1>4 DEF Ranked
  <2>2. \A i, j \in DOMAIN events' : i < j => Rank(events'[i]) <= Rank(events'[j])
    BY <1>3 DEF Ranked
  <2> QED
    BY <2>1, <2>2 DEF Ranked
<1> QED
  BY <1>2, <1>5, <1>6 DEF NothingForNobody, SessionGone

\* A step that leaves the channel and the session alone, or changes what the
\* order does not look at.
LEMMA OrderKept ==
  ASSUME CTyped, NothingForNobody, BelowTop, Ranked, events' = events,
         session'.seen = session.seen, SessionGone' = SessionGone, Top' \in Nat, Top <= Top'
  PROVE  NothingForNobody' /\ BelowTop' /\ Ranked'
<1>1. Top \in Nat /\ session.seen \in Nat /\ \A i \in DOMAIN events : Rank(events[i]) \in Nat
  BY RankOf, CapacitiesAssumption DEF CTyped, Top, SessionRecord
<1>2. BelowTop'
  BY <1>1 DEF BelowTop
<1> QED
  BY <1>2 DEF NothingForNobody, Ranked

-----------------------------------------------------------------------------
(* The steps *)

LEMMA TopType ==
  ASSUME CTyped
  PROVE  Top \in Nat /\ current \in Nat /\ session.seen \in Nat
BY CapacitiesAssumption DEF CTyped, Top, SessionRecord

LEMMA CInitInv == CInit => CInv
<1> SUFFICES ASSUME CInit PROVE CInv
  OBVIOUS
<1>1. NoConn \in ConnRecord /\ NoConn.reader = "none"
  BY DEF NoConn, ConnRecord, Pushed
<1>2. NewSession \in SessionRecord /\ NewSession.seen = 0 /\ NewSession.state # "Gone"
  BY DEF NewSession, SessionRecord, LiveStates, Answers, Pushed
<1>3. CTyped
  BY <1>1, <1>2, CapacitiesAssumption DEF CInit, CTyped, LoopStates
<1>4. LoneReader
  BY <1>1 DEF CInit, LoneReader
<1>5. NothingForNobody /\ BelowTop /\ Ranked
  BY <1>2, <1>3, TopType DEF CInit, NothingForNobody, BelowTop, Ranked
<1> QED
  BY <1>3, <1>4, <1>5 DEF CInv

\* The loop's questions: asked outside a connection, at the rank after it.
LEMMA QuestionKeeps ==
  ASSUME CInv, NEW type \in Asking, Sent(type, current), ~Busy, UNCHANGED <<current, conn, session>>,
         initiator' \in LoopStates, ~Busy'
  PROVE  CInv'
<1> USE DEF CInv
<1>1. Rank(Event(type, current)) = Top /\ Top' = Top
  BY DEF Rank, Event, Asking, Top
<1>2. type \in EventTypes
  BY DEF EventTypes
<1>3. events' \in Seq(EventRecord) /\ NothingForNobody' /\ BelowTop' /\ Ranked'
  BY <1>1, <1>2, SentInOrder, TopType
<1>4. CTyped'
  BY <1>3 DEF CTyped
<1>5. LoneReader'
  BY DEF LoneReader, SessionGone
<1> QED
  BY <1>3, <1>4, <1>5

\* A step of the loop that sends nothing and stays outside a connection.
LEMMA OutsideKeeps ==
  ASSUME CInv, ~Busy, ~Busy', initiator' \in LoopStates, UNCHANGED <<current, conn, events>>,
         session' \in SessionRecord, session'.seen = session.seen, session'.state = session.state
  PROVE  CInv'
<1> USE DEF CInv
<1>1. Top' = Top /\ SessionGone' = SessionGone
  BY DEF Top, SessionGone
<1>2. NothingForNobody' /\ BelowTop' /\ Ranked'
  BY <1>1, OrderKept, TopType
<1>3. CTyped' /\ LoneReader'
  BY <1>1 DEF CTyped, LoneReader
<1> QED
  BY <1>2, <1>3

LEMMA AnsweredSession ==
  ASSUME CTyped, session' = [session EXCEPT !.answer = "none"]
  PROVE  session' \in SessionRecord /\ session'.seen = session.seen /\ session'.state = session.state
BY Zenon DEF CTyped, SessionRecord, Answers

\* A step that touches one connection's mailbox, writer, link or kill.
LEMMA WiresKeep ==
  ASSUME CInv, conn' \in [Conns -> ConnRecord], \A c \in Conns : conn'[c].reader = conn[c].reader,
         UNCHANGED <<current, events>>, initiator' \in LoopStates, Busy' = Busy,
         session' \in SessionRecord, session'.seen = session.seen, session'.state = session.state
  PROVE  CInv'
<1> USE DEF CInv
<1>1. Top' = Top /\ SessionGone' = SessionGone
  BY DEF Top, SessionGone
<1>2. NothingForNobody' /\ BelowTop' /\ Ranked'
  BY <1>1, OrderKept, TopType
<1>3. CTyped' /\ LoneReader'
  BY <1>1 DEF CTyped, LoneReader
<1> QED
  BY <1>2, <1>3

LEMMA NewConnType == NoConn \in ConnRecord /\ NoConn.reader = "none" /\ NewConn \in ConnRecord
<1>1. NoConn \in ConnRecord /\ NoConn.reader = "none"
  BY Words DEF NoConn, ConnRecord
<1>2. NewConn \in ConnRecord
  BY <1>1, Zenon DEF NewConn, ConnRecord
<1> QED
  BY <1>1, <1>2

LEMMA LoopKeeps == CInv /\ LoopStep => CInv'
<1> SUFFICES ASSUME CInv, LoopStep PROVE CInv'
  OBVIOUS
<1> USE DEF CInv
<1>0. session \in SessionRecord /\ initiator \in LoopStates
  BY DEF CTyped
<1>1. CASE await_in_schedule
  BY <1>1, QuestionKeeps DEF await_in_schedule, Asking, Busy, OrStop, LoopStates
<1>2. CASE ScheduleAnswered
  BY <1>2, AnsweredSession, OutsideKeeps DEF ScheduleAnswered, Busy, LoopStates
<1>3. CASE connect
  <2>1. NewConn \in ConnRecord
    BY NewConnType
  <2>2. current' \in Nat /\ current' \in 0 .. MaxConns /\ current' = current + 1 /\ current \in Nat
    BY <1>3, CapacitiesAssumption DEF connect, CTyped
  <2>3. conn' \in [Conns -> ConnRecord] /\ \A c \in Conns : c # current' => conn'[c] = conn[c]
    BY <1>3, <2>1, <2>2, Zenon DEF connect, CTyped
  <2>4. CTyped'
    BY <1>3, <2>2, <2>3 DEF connect, CTyped, LoopStates
  <2>5. ~Busy /\ Busy' /\ SessionGone' = SessionGone
    BY <1>3 DEF connect, Busy, SessionGone
  <2>6. LoneReader'
    BY <2>3, <2>5 DEF LoneReader
  <2>7. Top' \in Nat /\ Top <= Top' /\ events' = events /\ session' = session
    BY <1>3, <2>2, <2>5 DEF Top, connect
  <2>8. NothingForNobody' /\ BelowTop' /\ Ranked'
    BY <2>5, <2>7, OrderKept
  <2> QED
    BY <2>4, <2>6, <2>8
<1>4. CASE connect_fails
  BY <1>0, <1>4, OutsideKeeps DEF connect_fails, Busy, LoopStates
<1>5. CASE register_writer
  <2>1. Busy /\ UNCHANGED <<current, conn, session>> /\ Sent("Connected", current)
        /\ initiator' = OrStop("run")
    BY <1>5 DEF register_writer, Busy
  <2>2. Rank(Event("Connected", current)) = Top /\ current \in Nat /\ "Connected" \in EventTypes
    BY <2>1, TopType DEF Rank, Event, Top, EventTypes
  <2>3. Top' \in Nat /\ Top <= Top'
    BY <2>1, <2>2, TopType DEF Top
  <2>4. events' \in Seq(EventRecord) /\ NothingForNobody' /\ BelowTop' /\ Ranked'
    BY <2>1, <2>2, <2>3, SentInOrder
  <2>5. CTyped'
    BY <2>1, <2>4 DEF CTyped, OrStop, LoopStates
  <2>6. LoneReader'
    BY <2>1 DEF LoneReader, OrStop, SessionGone, Busy
  <2> QED
    BY <2>4, <2>5, <2>6
<1>6. CASE should_reconnect
  BY <1>6, QuestionKeeps DEF should_reconnect, Asking, Busy, OrStop, LoopStates
<1>7. CASE ReconnectAnswered
  BY <1>7, AnsweredSession, OutsideKeeps DEF ReconnectAnswered, Busy, LoopStates
<1>8. CASE run_until_disconnect
  <2>1. /\ Busy /\ ~Busy' /\ initiator' = "ask" /\ conn[current].reader = "done"
        /\ UNCHANGED <<current, conn, events, session>>
    BY <1>8 DEF run_until_disconnect, Busy, ReaderGone
  <2>2. CTyped'
    BY <2>1 DEF CTyped, LoopStates
  <2>3. LoneReader'
    BY <2>1 DEF LoneReader, SessionGone
  <2>4. Top' \in Nat /\ Top <= Top' /\ SessionGone' = SessionGone
    BY <2>1, TopType DEF Top, SessionGone
  <2>5. NothingForNobody' /\ BelowTop' /\ Ranked'
    BY <2>1, <2>4, OrderKept
  <2> QED
    BY <2>2, <2>3, <2>5
<1>9. CASE WriterExit
  BY <1>0, <1>9, WiresKeep DEF WriterExit, Busy, LoopStates, CTyped
<1>10. CASE force_close
  <2>1. conn' \in [Conns -> ConnRecord] /\ \A c \in Conns : conn'[c].reader = conn[c].reader
    BY <1>10, ZenonT(30) DEF force_close, CTyped, ConnRecord
  <2> QED
    BY <1>0, <1>10, <2>1, WiresKeep DEF force_close, Busy, LoopStates
<1> QED
  BY <1>1, <1>2, <1>3, <1>4, <1>5, <1>6, <1>7, <1>8, <1>9, <1>10 DEF LoopStep

LEMMA TransportKeeps ==
  ASSUME CInv, NEW c \in Conns, TransportStep(c) \/ PeerStops(c)
  PROVE  CInv'
<1> USE DEF CInv
<1>0. /\ session \in SessionRecord /\ initiator \in LoopStates /\ current \in Nat /\ c \in Nat
      /\ conn \in [Conns -> ConnRecord] /\ conn[c].mailbox \in Seq(Pushed)
  BY TopType DEF CTyped, ConnRecord, Conns
\* A reader that reads has the right rank.
<1>1. ASSUME conn[c].reader = "read", NEW type \in EventTypes \ Asking
      PROVE  ~SessionGone => Rank(Event(type, c)) = Top
  BY <1>1 DEF LoneReader, Rank, Event, Asking, Top
<1>2. CASE new_fix_message_received(c)
  <2>1. conn[c].reader = "read" /\ Sent("FixMessageReceived", c)
        /\ UNCHANGED <<initiator, current, conn, session>>
    BY <1>2 DEF new_fix_message_received
  <2>2. "FixMessageReceived" \in EventTypes \ Asking
    BY DEF EventTypes, Asking
  <2>3. Top' = Top /\ Busy' = Busy /\ SessionGone' = SessionGone
    BY <2>1 DEF Top, Busy, SessionGone
  <2>4. events' \in Seq(EventRecord) /\ NothingForNobody' /\ BelowTop' /\ Ranked'
    BY <1>0, <1>1, <2>1, <2>2, <2>3, SentInOrder, TopType
  <2>5. CTyped' /\ LoneReader'
    BY <2>1, <2>3, <2>4 DEF CTyped, LoneReader
  <2> QED
    BY <2>4, <2>5
<1>3. CASE disconnect(c)
  <2>1. /\ conn[c].reader = "read" /\ Sent("Disconnected", c)
        /\ UNCHANGED <<initiator, current, session>>
        /\ conn' = [conn EXCEPT ![c].reader = "done", ![c].kill = FALSE, ![c].link = "down"]
    BY <1>3 DEF disconnect
  <2>2. "Disconnected" \in EventTypes \ Asking
    BY DEF EventTypes, Asking
  <2>3. Top' = Top /\ Busy' = Busy /\ SessionGone' = SessionGone
    BY <2>1 DEF Top, Busy, SessionGone
  <2>4. events' \in Seq(EventRecord) /\ NothingForNobody' /\ BelowTop' /\ Ranked'
    BY <1>0, <1>1, <2>1, <2>2, <2>3, SentInOrder, TopType
  <2>5. conn' \in [Conns -> ConnRecord] /\ \A d \in Conns : conn'[d].reader = "read" => conn[d].reader = "read"
    <3> DEFINE w == [conn[c] EXCEPT !.reader = "done", !.kill = FALSE, !.link = "down"]
    <3>1. conn' = [conn EXCEPT ![c] = w] /\ w.reader = "done"
      BY <1>0, <2>1, Zenon DEF ConnRecord
    <3>2. w \in ConnRecord
      BY <1>0, Zenon DEF ConnRecord
    <3> HIDE DEF w
    <3> QED
      BY <1>0, <3>1, <3>2
  <2>6. CTyped'
    BY <2>1, <2>4, <2>5 DEF CTyped
  <2>7. LoneReader'
    BY <2>1, <2>3, <2>5 DEF LoneReader
  <2> QED
    BY <2>4, <2>6, <2>7
<1>4. ASSUME conn' \in [Conns -> ConnRecord], \A d \in Conns : conn'[d].reader = conn[d].reader,
             UNCHANGED <<initiator, current, events, session>>
      PROVE  CInv'
  <2>1. Busy' = Busy
    BY <1>4 DEF Busy
  <2> QED
    BY <1>0, <1>4, <2>1, WiresKeep
<1>5. CASE recv(c)
  <2>1. Tail(conn[c].mailbox) \in Seq(Pushed)
    BY <1>0, <1>5, HeadTailProperties DEF recv
  <2>2. conn' \in [Conns -> ConnRecord] /\ \A d \in Conns : conn'[d].reader = conn[d].reader
    <3> DEFINE step == IF Head(conn[c].mailbox) = "msg" THEN "write" ELSE "shutdown"
               w == [conn[c] EXCEPT !.mailbox = Tail(@), !.writer = step]
    <3>1. conn' = [conn EXCEPT ![c] = w] /\ w.reader = conn[c].reader
      BY <1>0, <1>5 DEF recv, ConnRecord
    <3>2. w \in ConnRecord
      BY <1>0, <2>1, Zenon DEF ConnRecord
    <3> HIDE DEF w
    <3> QED
      BY <1>0, <3>1, <3>2
  <2> QED
    BY <1>4, <1>5, <2>2 DEF recv
<1>6. CASE senders_gone(c)
  <2>1. conn' \in [Conns -> ConnRecord] /\ \A d \in Conns : conn'[d].reader = conn[d].reader
    BY <1>0, <1>6, Zenon DEF senders_gone, ConnRecord
  <2> QED
    BY <1>4, <1>6, <2>1 DEF senders_gone
<1>7. CASE write_all(c)
  <2>1. conn' \in [Conns -> ConnRecord] /\ \A d \in Conns : conn'[d].reader = conn[d].reader
    BY <1>0, <1>7, Zenon DEF write_all, ConnRecord
  <2> QED
    BY <1>4, <1>7, <2>1 DEF write_all
<1>8. CASE writer_shutdown(c)
  <2>1. conn' \in [Conns -> ConnRecord] /\ \A d \in Conns : conn'[d].reader = conn[d].reader
    BY <1>0, <1>8, Words, ZenonT(30) DEF writer_shutdown, ConnRecord
  <2> QED
    BY <1>4, <1>8, <2>1 DEF writer_shutdown
<1>9. CASE PeerStops(c)
  <2>1. conn' \in [Conns -> ConnRecord] /\ \A d \in Conns : conn'[d].reader = conn[d].reader
    <3>1. PICK l \in {"silent", "down"} : conn' = [conn EXCEPT ![c].link = l]
      BY <1>9, Zenon DEF PeerStops
    <3> QED
      BY <1>0, <3>1, ZenonT(30) DEF ConnRecord
  <2> QED
    BY <1>4, <1>9, <2>1 DEF PeerStops
<1> QED
  BY <1>2, <1>3, <1>5, <1>6, <1>7, <1>8, <1>9 DEF TransportStep

\* A step of the session that takes no event.
LEMMA TimersKeep ==
  ASSUME CInv, KeepsSeen(session, session'), ~SessionGone, UNCHANGED <<initiator, current, conn, events>>
  PROVE  CInv'
<1>1. conn \in [Conns -> ConnRecord] /\ initiator \in LoopStates
  BY DEF CInv, CTyped
<1>2. Busy' = Busy /\ SessionGone' = SessionGone /\ Top' = Top
  BY DEF Busy, SessionGone, KeepsSeen, Live, Top
<1>3. NothingForNobody' /\ BelowTop' /\ Ranked'
  BY <1>2, OrderKept, TopType DEF CInv, KeepsSeen
<1>4. CTyped' /\ LoneReader'
  BY <1>2 DEF CInv, CTyped, LoneReader, KeepsSeen, Live
<1> QED
  BY <1>3, <1>4 DEF CInv

LEMMA SessionKeeps == CInv /\ SessionStep => CInv'
<1> SUFFICES ASSUME CInv, SessionStep PROVE CInv'
  OBVIOUS
<1> USE DEF CInv
<1>0. /\ session \in SessionRecord /\ initiator \in LoopStates /\ conn \in [Conns -> ConnRecord]
      /\ ~SessionGone => session \in Live /\ KeepsSeen(session, session)
  BY DEF CTyped, SessionGone, Live, KeepsSeen
<1>1. CASE handle_session_event
  <2>0. PICK s \in handle_schedule_check(session) :
           \E t \in on_event(s, Head(events)) : session' = [t EXCEPT !.seen = Rank(Head(events))]
    BY <1>1, Zenon DEF handle_session_event
  <2>1. PICK t \in on_event(s, Head(events)) : session' = [t EXCEPT !.seen = Rank(Head(events))]
    BY <2>0
  <2>2. ~SessionGone /\ events # << >> /\ events' = Tail(events) /\ UNCHANGED <<initiator, current, conn>>
    BY <1>1 DEF handle_session_event, Ready
  <2>3. Head(events) \in EventRecord
    BY <2>2, HeadTailProperties DEF CTyped
  <2>4. t \in Live
    BY <1>0, <2>2, <2>3, ScheduleCheckKeeps, OnEventKeeps DEF KeepsSeen
  <2>5. Rank(Head(events)) \in Nat
    BY <2>3, RankOf
  <2>6. session' \in SessionRecord /\ session'.seen = Rank(Head(events)) /\ session'.state # "Gone"
    BY <2>1, <2>4, <2>5 DEF Live, SessionRecord
  <2>7. Top' = Top /\ Busy' = Busy /\ ~SessionGone'
    BY <2>2, <2>6 DEF Top, Busy, SessionGone
  <2>8. events' \in Seq(EventRecord) /\ NothingForNobody' /\ BelowTop' /\ Ranked'
    BY <2>2, <2>6, <2>7, TakenInOrder
  <2>9. CTyped' /\ LoneReader'
    BY <2>2, <2>6, <2>7, <2>8 DEF CTyped, LoneReader
  <2> QED
    BY <2>8, <2>9
<1>2. CASE session_panics
  <2>1. NewSession \in SessionRecord /\ NewSession.seen = 0
    BY Words DEF NewSession, SessionRecord, LiveStates, Answers
  <2>2. session' \in SessionRecord /\ session'.seen = 0 /\ SessionGone' /\ events' = << >>
        /\ UNCHANGED <<initiator, current, conn>>
    BY <1>2, <2>1, Zenon DEF session_panics, SessionRecord, SessionGone, Answers
  <2>3. Top' = Top /\ Top \in Nat
    BY <2>2, TopType DEF Top, Busy
  <2>4. NothingForNobody' /\ BelowTop' /\ Ranked'
    BY <2>2, <2>3 DEF NothingForNobody, BelowTop, Ranked
  <2>5. CTyped' /\ LoneReader'
    BY <2>2 DEF CTyped, LoneReader
  <2> QED
    BY <2>4, <2>5
<1>3. CASE handle_outbound_message
  <2>1. KeepsSeen(session, session') /\ ~SessionGone
    BY <1>0, <1>3, PushKeeps, Words, DisconnectWriterKeeps, Zenon DEF handle_outbound_message, Idle, Ready
  <2> QED
    BY <1>3, <2>1, TimersKeep DEF handle_outbound_message
<1>4. CASE handle_admin_request
  <2>1. KeepsSeen(session, session') /\ ~SessionGone
    BY <1>0, <1>4, LogoutKeeps DEF handle_admin_request, Ready
  <2> QED
    BY <1>4, <2>1, TimersKeep DEF handle_admin_request
<1>5. CASE handle_heartbeat_timeout
  <2>1. KeepsSeen(session, session') /\ ~SessionGone
    BY <1>0, <1>5, PushKeeps, Words, Zenon DEF handle_heartbeat_timeout, Idle, Ready
  <2> QED
    BY <1>5, <2>1, TimersKeep DEF handle_heartbeat_timeout
<1>6. CASE handle_peer_timeout
  <2>1. ~SessionGone /\ KeepsSeen(session, logout_and_terminate(session)) /\ KeepsSeen(session, disconnect_writer(session))
        /\ KeepsSeen(session, Push(session, <<"msg">>))
    BY <1>0, <1>6, PushKeeps, Words, DisconnectWriterKeeps, Zenon DEF handle_peer_timeout, Idle, Ready
  <2>2. KeepsSeen(session, [Push(session, <<"msg">>) EXCEPT !.test = TRUE])
    BY <2>1, Zenon DEF KeepsSeen, Live, SessionRecord
  <2>3. KeepsSeen(session, session')
    BY <1>6, <2>1, <2>2 DEF handle_peer_timeout
  <2> QED
    BY <1>6, <2>1, <2>3, TimersKeep DEF handle_peer_timeout
<1>7. CASE schedule_check_timer
  <2>1. KeepsSeen(session, session') /\ ~SessionGone
    BY <1>0, <1>7, ScheduleCheckKeeps DEF schedule_check_timer, Idle, Ready
  <2> QED
    BY <1>7, <2>1, TimersKeep DEF schedule_check_timer
<1>8. CASE push
  <2>1. session.todo \in Seq(Pushed) /\ session.todo # << >>
    BY <1>0, <1>8 DEF push, SessionRecord
  <2>2. Tail(session.todo) \in Seq(Pushed) /\ Head(session.todo) \in Pushed
    BY <2>1, HeadTailProperties
  <2>3. session' \in SessionRecord /\ session'.seen = session.seen /\ session'.state = session.state
    BY <1>0, <1>8, <2>2, Zenon DEF push, SessionRecord
  <2>4. conn' \in [Conns -> ConnRecord] /\ \A d \in Conns : conn'[d].reader = conn[d].reader
    <3>1. CASE UNCHANGED conn
      BY <1>0, <3>1
    <3>2. CASE conn' = [conn EXCEPT ![session.to].mailbox = Append(@, Head(session.todo))]
      <4>1. \A d \in Conns : conn[d].mailbox \in Seq(Pushed) /\ Append(conn[d].mailbox, Head(session.todo)) \in Seq(Pushed)
        BY <1>0, <2>2, AppendProperties DEF ConnRecord
      <4> QED
        BY <1>0, <3>2, <4>1, ZenonT(30) DEF ConnRecord
    <3> QED
      BY <1>8, <3>1, <3>2 DEF push
  <2>5. Busy' = Busy /\ UNCHANGED <<initiator, current, events>>
    BY <1>8 DEF push, Busy
  <2> QED
    BY <1>0, <2>3, <2>4, <2>5, WiresKeep
<1> QED
  BY <1>1, <1>2, <1>3, <1>4, <1>5, <1>6, <1>7, <1>8 DEF SessionStep

-----------------------------------------------------------------------------
(* The tasks of the transport, the connection loop and the session never   *)
(* leave CInv: in particular LoneReader, the reader of a connection that   *)
(* establish_connection has left puts nothing into the channel.            *)
THEOREM ConnectionInvariant == ConnectionSpec => []CInv
<1>1. CInv /\ [CNext]_cvars => CInv'
  <2> SUFFICES ASSUME CInv, [CNext]_cvars PROVE CInv'
    OBVIOUS
  <2>1. CASE UNCHANGED cvars
    BY <2>1 DEF CInv, CTyped, LoneReader, NothingForNobody, BelowTop, Ranked, Top, Busy,
                SessionGone, cvars
  <2>2. CASE CNext
    BY <2>2, LoopKeeps, SessionKeeps, TransportKeeps DEF CNext
  <2> QED
    BY <2>1, <2>2
<1> QED
  BY <1>1, CInitInv, PTL DEF ConnectionSpec

(* establish_connection, run_reader, handle_session_event: a connection's  *)
(* events reach the session before the questions about what comes next,    *)
(* and those before the next connection's.                                 *)
THEOREM ConnectionOrder == ConnectionSpec => []EventsInOrder
<1>1. CInv => EventsInOrder
  <2> SUFFICES ASSUME CInv PROVE EventsInOrder
    OBVIOUS
  <2> DEFINE later == [i \in 1 .. Len(events) |-> Rank(events[i])]
             ranks == <<session.seen>> \o later
  <2>1. events \in Seq(EventRecord) /\ session.seen \in Nat /\ Len(events) \in Nat
    BY LenProperties DEF CInv, CTyped, SessionRecord
  <2>2. later \in Seq(Nat) /\ Len(later) = Len(events)
    BY <2>1, RankOf
  <2>3. <<session.seen>> \in Seq(Nat) /\ Len(<<session.seen>>) = 1
    BY <2>1
  <2>4. \A i \in 1 .. 1 + Len(events) :
           ranks[i] = IF i <= 1 THEN <<session.seen>>[i] ELSE later[i - 1]
    BY <2>2, <2>3, ConcatProperties
  <2>5. ASSUME NEW i \in 1 .. Len(events)
        PROVE  ranks[i] <= ranks[i + 1]
    <3>1. ranks[i + 1] = Rank(events[i])
      BY <2>1, <2>4
    <3>2. CASE i = 1
      <4>1. ranks[i] = session.seen
        BY <2>1, <2>4, <3>2
      <4> HIDE DEF ranks
      <4> QED
        BY <2>1, <3>1, <3>2, <4>1 DEF CInv, Ranked
    <3>3. CASE i # 1
      <4>1. ranks[i] = Rank(events[i - 1]) /\ i - 1 \in DOMAIN events /\ i \in DOMAIN events /\ i - 1 < i
        BY <2>1, <2>4, <3>3
      <4> HIDE DEF ranks
      <4> QED
        BY <3>1, <4>1 DEF CInv, Ranked
    <3> QED
      BY <3>2, <3>3
  <2> QED
    BY <2>5 DEF EventsInOrder
<1> QED
  BY <1>1, ConnectionInvariant, PTL

-----------------------------------------------------------------------------
(* The answer to a ResendRequest. *)

(* The inductive invariant.  The loop has dealt with begin .. next - 1; the *)
(* run it is skipping, if any, began at reset_start and was not yet told.   *)

Skipping == pc = "Loop" /\ reset_start # 0

NoHole == \A n \in DOMAIN log : begin <= n /\ n <= end => log[n] # "hole"

LoopRange ==
    /\ end <= Len(log)
    /\ pc = "Loop" => begin <= next /\ next <= end + 1
    /\ pc = "Done" => next > end

SkippedRun ==
    Skipping =>
        /\ begin <= reset_start /\ reset_start <= sequence_number /\ sequence_number < next
        /\ \A n \in DOMAIN log : reset_start <= n /\ n < next => log[n] # "app"

WrittenRange ==
    \A k \in DOMAIN written :
        /\ written[k].new <= end
        /\ written[k].seq < next
        /\ Skipping => written[k].seq < reset_start

AppSoFar ==
    pc \in {"Loop", "Done"} =>
        \A n \in DOMAIN log : begin <= n /\ n <= end /\ n < next /\ log[n] = "app" =>
            \E k \in DOMAIN written : written[k] = Again(n)

Abreast ==
    NoHole =>
        /\ ~gap
        /\ pc = "Loop" /\ reset_start = 0 => expected = IF next = 0 THEN 1 ELSE next
        /\ Skipping => expected = reset_start /\ sequence_number = next - 1
        /\ pc = "Done" => expected >= end

RInv ==
    /\ RTypeOK /\ LoopRange /\ SkippedRun /\ WrittenRange
    /\ OnlyAppAgain /\ FillsSkipNoApp /\ Ascending /\ AppSoFar /\ Abreast

-----------------------------------------------------------------------------
(* One lemma per action: it keeps RInv. *)

\* The parts of an entry of the answer are numbers.
LEMMA WrittenNumbers ==
  RTypeOK => \A k \in DOMAIN written : written[k].seq \in Nat /\ written[k].new \in Nat
<1> SUFFICES ASSUME RTypeOK, NEW k \in DOMAIN written
             PROVE  written[k].seq \in Nat /\ written[k].new \in Nat
  OBVIOUS
<1>1. written \in Seq(Entry)
  BY Zenon DEF RTypeOK
<1>2. k \in 1 .. Len(written)
  BY <1>1
<1>3. written[k] \in Entry
  BY <1>1, <1>2, ElementOfSeq, Zenon
<1> QED
  BY <1>3 DEF Entry

\* What appending to a sequence of entries gives.
LEMMA AppendEntry ==
  ASSUME NEW s \in Seq(Entry), NEW w \in Entry
  PROVE  /\ Append(s, w) \in Seq(Entry)
         /\ Len(s) \in Nat /\ Len(Append(s, w)) = Len(s) + 1
         /\ DOMAIN s = 1 .. Len(s) /\ DOMAIN Append(s, w) = 1 .. Len(s) + 1
         /\ \A k \in DOMAIN s : k # Len(s) + 1 /\ Append(s, w)[k] = s[k]
         /\ Append(s, w)[Len(s) + 1] = w
<1> DEFINE t == Append(s, w)
<1>1. t \in Seq(Entry) /\ Len(t) = Len(s) + 1
      /\ (\A k \in 1 .. Len(s) : t[k] = s[k]) /\ t[Len(s) + 1] = w
  BY AppendProperties
<1>2. Len(s) \in Nat /\ DOMAIN s = 1 .. Len(s) /\ DOMAIN t = 1 .. Len(t)
  BY <1>1
<1> QED
  BY <1>1, <1>2

\* No request is being answered at the start.
LEMMA InitHolds == RInit => RInv
<1> SUFFICES ASSUME RInit PROVE RInv
  OBVIOUS
<1> USE DEF RInit
<1>1. RTypeOK
  <2>1. log \in Seq(Kind) /\ written \in Seq(Entry)
    OBVIOUS
  <2>2. gap \in BOOLEAN
    BY Zenon
  <2> QED
    BY <2>1, <2>2 DEF RTypeOK
<1>2. LoopRange /\ SkippedRun /\ WrittenRange
  BY DEF LoopRange, SkippedRun, WrittenRange, Skipping
<1>3. OnlyAppAgain /\ FillsSkipNoApp /\ Ascending
  BY DEF OnlyAppAgain, FillsSkipNoApp, Ascending
<1>4. AppSoFar /\ Abreast
  BY DEF AppSoFar, Abreast, Skipping
<1> QED
  BY <1>1, <1>2, <1>3, <1>4 DEF RInv

\* A number without a stored message is passed over; the skipped run goes on.
LEMMA AbsentKeeps == RInv /\ Absent => RInv'
<1> SUFFICES ASSUME RInv, Absent PROVE RInv'
  OBVIOUS
<1> USE DEF RInv, Absent
<1>1. RTypeOK'
  BY DEF RTypeOK
<1>2. LoopRange'
  BY DEF RTypeOK, LoopRange
<1>3. SkippedRun'
  BY DEF RTypeOK, SkippedRun, Skipping, Kept
<1>4. WrittenRange'
  BY WrittenNumbers DEF RTypeOK, WrittenRange, Skipping
<1>5. OnlyAppAgain' /\ FillsSkipNoApp' /\ Ascending'
  BY DEF OnlyAppAgain, FillsSkipNoApp, Ascending, IsFill
<1>6. AppSoFar'
  BY DEF RTypeOK, AppSoFar, Kept
<1>7. Abreast'
  BY DEF RTypeOK, LoopRange, Abreast, NoHole, Skipping, Kept
<1> QED
  BY <1>1, <1>2, <1>3, <1>4, <1>5, <1>6, <1>7 DEF RInv

\* An admin message starts or extends the skipped run.
LEMMA SkipAdminKeeps == RInv /\ SkipAdmin => RInv'
<1> SUFFICES ASSUME RInv, SkipAdmin PROVE RInv'
  OBVIOUS
<1> USE DEF RInv, SkipAdmin
<1>1. RTypeOK'
  BY DEF RTypeOK
<1>2. LoopRange'
  BY DEF RTypeOK, LoopRange
<1>3. SkippedRun'
  BY DEF RTypeOK, LoopRange, SkippedRun, Skipping, Kept, ToSend
<1>4. WrittenRange'
  BY WrittenNumbers DEF RTypeOK, WrittenRange, Skipping
<1>5. OnlyAppAgain' /\ FillsSkipNoApp' /\ Ascending'
  BY DEF OnlyAppAgain, FillsSkipNoApp, Ascending, IsFill
<1>6. AppSoFar'
  BY DEF RTypeOK, AppSoFar, Kept, ToSend
<1>7. Abreast'
  BY DEF RTypeOK, LoopRange, Abreast, NoHole, Skipping, Kept
<1> QED
  BY <1>1, <1>2, <1>3, <1>4, <1>5, <1>6, <1>7 DEF RInv

\* A message added to the log while idle.
LEMMA PreparedKeeps ==
  ASSUME RInv, NEW kind \in Kind, Prepared(kind) PROVE RInv'
<1> USE DEF RInv, Prepared
<1>1. RTypeOK'
  BY DEF RTypeOK, NotAnswering
<1>2. \A n \in DOMAIN log : n \in DOMAIN log' /\ log'[n] = log[n]
  <2>1. log \in Seq(Kind)
    BY Zenon DEF RTypeOK
  <2> QED
    BY <2>1, AppendProperties
<1>3. LoopRange' /\ SkippedRun' /\ AppSoFar'
  BY <1>2 DEF RTypeOK, LoopRange, SkippedRun, Skipping, AppSoFar
<1>4. WrittenRange'
  BY WrittenNumbers DEF RTypeOK, WrittenRange, Skipping
<1>5. OnlyAppAgain' /\ Ascending'
  BY <1>2 DEF OnlyAppAgain, Ascending, IsFill
<1>6. FillsSkipNoApp'
  BY <1>2, WrittenNumbers DEF RTypeOK, LoopRange, WrittenRange, FillsSkipNoApp, IsFill
<1>7. Abreast'
  BY <1>2 DEF Abreast, NoHole, Skipping
<1> QED
  BY <1>1, <1>3, <1>4, <1>5, <1>6, <1>7 DEF RInv

\* A request starts with nothing written and expects its first number.
LEMMA ResendRequestedKeeps ==
  ASSUME RInv, NEW from \in Nat, NEW to \in Nat, ResendRequested(from, to) PROVE RInv'
<1> USE DEF RInv, ResendRequested
<1>1. RTypeOK'
  <2>1. written' \in Seq(Entry) /\ log' \in Seq(Kind)
    BY DEF RTypeOK
  <2>2. gap' \in BOOLEAN
    BY Zenon
  <2>3. pc' \in {"Idle", "Loop", "Done", "Failed", "Panicked"}
    BY DEF RTypeOK
  <2>4. begin' \in Nat /\ end' \in Nat /\ next' \in Nat /\ expected' \in Nat
    BY DEF RTypeOK
  <2> QED
    BY <2>1, <2>2, <2>3, <2>4 DEF RTypeOK
<1>2. LoopRange'
  BY DEF RTypeOK, LoopRange
<1>3. SkippedRun' /\ WrittenRange' /\ OnlyAppAgain' /\ FillsSkipNoApp' /\ Ascending'
  BY DEF SkippedRun, Skipping, WrittenRange, OnlyAppAgain, FillsSkipNoApp, Ascending
<1>4. AppSoFar'
  BY DEF RTypeOK, AppSoFar
<1>5. Abreast'
  BY DEF RTypeOK, Abreast, Skipping
<1> QED
  BY <1>1, <1>2, <1>3, <1>4, <1>5 DEF RInv

\* A failure ends the answer half way.
LEMMA FailsKeeps == RInv /\ Fails => RInv'
<1> SUFFICES ASSUME RInv, Fails PROVE RInv'
  OBVIOUS
<1> USE DEF RInv, Fails
<1>1. RTypeOK'
  BY DEF RTypeOK
<1>2. LoopRange' /\ SkippedRun' /\ AppSoFar'
  BY DEF LoopRange, SkippedRun, Skipping, AppSoFar
<1>3. WrittenRange'
  BY DEF WrittenRange, Skipping
<1>4. OnlyAppAgain' /\ FillsSkipNoApp' /\ Ascending'
  BY DEF OnlyAppAgain, FillsSkipNoApp, Ascending, IsFill
<1>5. Abreast'
  BY DEF Abreast, NoHole, Skipping
<1> QED
  BY <1>1, <1>2, <1>3, <1>4, <1>5 DEF RInv

\* The gap fill that precedes a message that cannot be encoded.
LEMMA EncodeFailsKeeps == RInv /\ EncodeFails => RInv'
<1> SUFFICES ASSUME RInv, EncodeFails PROVE RInv'
  OBVIOUS
<1> DEFINE fill == GapFill(reset_start, next)
<1> USE DEF RInv, EncodeFails
<1>1. fill \in Entry /\ written \in Seq(Entry)
  BY DEF RTypeOK, GapFill, Entry
<1>2. /\ written' \in Seq(Entry)
      /\ \A k \in DOMAIN written : k \in DOMAIN written' /\ written'[k] = written[k]
      /\ \A k \in DOMAIN written' : \/ k \in DOMAIN written /\ written'[k] = written[k]
                                    \/ k > Len(written) /\ written'[k] = fill
      /\ \A k \in DOMAIN written : k \in Nat /\ k <= Len(written)
      /\ DOMAIN written' = 1 .. Len(written) + 1 /\ Len(written) \in Nat
  BY <1>1, AppendEntry
<1>3. fill.seq = reset_start /\ fill.new = next /\ IsFill(fill)
  BY DEF RTypeOK, GapFill, IsFill, SkippedRun, Skipping
<1>4. RTypeOK'
  <2>1. expected' \in Nat
    BY <1>3 DEF RTypeOK, Accepted
  <2>2. gap' \in BOOLEAN
    BY Zenon
  <2> QED
    BY <1>2, <2>1, <2>2 DEF RTypeOK
<1>5. LoopRange' /\ SkippedRun' /\ AppSoFar'
  BY DEF RTypeOK, LoopRange, SkippedRun, Skipping, AppSoFar
<1>6. WrittenRange'
  BY <1>2, <1>3 DEF RTypeOK, WrittenRange, Skipping, LoopRange, SkippedRun
<1>7. OnlyAppAgain' /\ FillsSkipNoApp'
  <2>1. log' = log /\ \A n \in DOMAIN log : reset_start <= n /\ n < next => log[n] # "app"
    BY DEF SkippedRun, Skipping
  <2>2. \A k \in DOMAIN written' : \/ k \in DOMAIN written /\ written'[k] = written[k]
                                   \/ written'[k] = fill
    BY <1>2
  <2>3. OnlyAppAgain'
    BY <1>3, <2>1, <2>2, Zenon DEF OnlyAppAgain
  <2>4. FillsSkipNoApp'
    BY <1>3, <2>1, <2>2, Zenon DEF FillsSkipNoApp
  <2> QED
    BY <2>3, <2>4
<1>8. Ascending'
  BY <1>2, <1>3 DEF Ascending, WrittenRange, Skipping
<1>9. Abreast'
  BY <1>3 DEF RTypeOK, LoopRange, SkippedRun, Abreast, NoHole, Skipping, Accepted
<1> QED
  BY <1>4, <1>5, <1>6, <1>7, <1>8, <1>9 DEF RInv

\* The final gap fill covers the run skipped at the end.
LEMMA FinishKeeps == RInv /\ Finish => RInv'
<1> SUFFICES ASSUME RInv, Finish PROVE RInv'
  OBVIOUS
<1>1. CASE reset_start = 0
  <2> USE <1>1 DEF RInv, Finish
  <2>1. RTypeOK'
    BY DEF RTypeOK
  <2>2. LoopRange' /\ SkippedRun' /\ AppSoFar'
    BY DEF RTypeOK, LoopRange, SkippedRun, Skipping, AppSoFar
  <2>3. WrittenRange'
    BY DEF WrittenRange, Skipping
  <2>4. OnlyAppAgain' /\ FillsSkipNoApp' /\ Ascending'
    BY DEF OnlyAppAgain, FillsSkipNoApp, Ascending, IsFill
  <2>5. Abreast'
    BY DEF RTypeOK, Abreast, NoHole, Skipping
  <2> QED
    BY <2>1, <2>2, <2>3, <2>4, <2>5 DEF RInv
<1>2. CASE reset_start # 0
  <2> DEFINE fill == GapFill(reset_start, sequence_number)
  <2> USE <1>2 DEF RInv, Finish
  <2>1. fill \in Entry /\ written \in Seq(Entry)
    BY DEF RTypeOK, GapFill, Entry
  <2>2. /\ written' \in Seq(Entry)
        /\ \A k \in DOMAIN written : k \in DOMAIN written' /\ written'[k] = written[k]
        /\ \A k \in DOMAIN written' : \/ k \in DOMAIN written /\ written'[k] = written[k]
                                      \/ k > Len(written) /\ written'[k] = fill
        /\ \A k \in DOMAIN written : k \in Nat /\ k <= Len(written)
        /\ DOMAIN written' = 1 .. Len(written) + 1 /\ Len(written) \in Nat
    BY <2>1, AppendEntry
  <2>3. fill.seq = reset_start /\ fill.new = sequence_number /\ IsFill(fill)
    BY DEF RTypeOK, GapFill, IsFill, SkippedRun, Skipping
  <2>4. RTypeOK'
    <3>1. expected' \in Nat
      BY <2>3 DEF RTypeOK, Accepted
    <3>2. gap' \in BOOLEAN
      BY Zenon
    <3> QED
      BY <2>2, <3>1, <3>2 DEF RTypeOK
  <2>5. LoopRange' /\ SkippedRun'
    BY DEF RTypeOK, LoopRange, SkippedRun, Skipping
  <2>6. AppSoFar'
    BY <2>2 DEF RTypeOK, AppSoFar
  <2>7. WrittenRange'
    BY <2>2, <2>3, SMTT(20) DEF RTypeOK, WrittenRange, Skipping, LoopRange, SkippedRun
  <2>8. OnlyAppAgain'
    BY <2>2, <2>3 DEF OnlyAppAgain, IsFill
  <2>9. FillsSkipNoApp'
    BY <2>2, <2>3, SMTT(20) DEF RTypeOK, FillsSkipNoApp, IsFill, SkippedRun, Skipping
  <2>10. Ascending'
    <3>1. \A k \in DOMAIN written : written[k].seq < fill.seq
      BY <2>3 DEF WrittenRange, Skipping
    <3> HIDE DEF fill
    <3> SUFFICES ASSUME NEW j \in DOMAIN written', NEW k \in DOMAIN written', j < k
                 PROVE  written'[j].seq < written'[k].seq
      BY DEF Ascending
    <3>2. j \in DOMAIN written /\ written'[j] = written[j]
      BY <2>2
    <3>3. CASE k \in DOMAIN written /\ written'[k] = written[k]
      BY <3>2, <3>3 DEF Ascending
    <3>4. CASE written'[k] = fill
      BY <3>1, <3>2, <3>4, Zenon
    <3> QED
      BY <2>2, <3>3, <3>4, Zenon
  <2>11. Abreast'
    BY <2>3 DEF RTypeOK, LoopRange, SkippedRun, Abreast, NoHole, Skipping, Accepted
  <2> QED
    BY <2>4, <2>5, <2>6, <2>7, <2>8, <2>9, <2>10, <2>11 DEF RInv
<1> QED
  BY <1>1, <1>2

\* An application message is preceded by the gap fill for the run before it.
LEMMA SendAgainKeeps == RInv /\ SendAgain => RInv'
<1> SUFFICES ASSUME RInv, SendAgain PROVE RInv'
  OBVIOUS
<1> DEFINE fill   == GapFill(reset_start, next)
           filled == IF reset_start = 0 THEN written ELSE Append(written, fill)
           heard  == IF reset_start = 0 THEN expected ELSE Accepted(expected, fill)
           last   == Again(next)
<1>a. next \in Nat /\ next # 0 /\ next \in DOMAIN log /\ log[next] = "app"
  BY DEF RInv, RTypeOK, SendAgain, ToSend, Kept
<1>b. /\ fill \in Entry /\ last \in Entry /\ written \in Seq(Entry)
      /\ fill.seq = reset_start /\ fill.new = next /\ last.seq = next /\ last.new = 0
      /\ IsFill(fill) /\ ~IsFill(last)
  BY <1>a DEF RInv, RTypeOK, GapFill, Again, Entry, IsFill
<1>c. /\ filled \in Seq(Entry)
      /\ DOMAIN written = 1 .. Len(written) /\ DOMAIN filled = 1 .. Len(filled)
      /\ Len(written) \in Nat /\ Len(filled) \in Nat /\ Len(filled) >= Len(written)
      /\ \A k \in DOMAIN written : k \in DOMAIN filled /\ filled[k] = written[k]
      /\ \A k \in DOMAIN filled :
            \/ k \in DOMAIN written /\ filled[k] = written[k]
            \/ reset_start # 0 /\ k = Len(written) + 1 /\ filled[k] = fill
  BY <1>b, AppendEntry
<1>d. written' = Append(filled, last)
  BY DEF SendAgain
<1>e. /\ written' \in Seq(Entry)
      /\ DOMAIN written' = 1 .. Len(filled) + 1
      /\ \A k \in DOMAIN filled : k \in DOMAIN written' /\ written'[k] = filled[k]
      /\ written'[Len(filled) + 1] = last
  BY <1>b, <1>c, <1>d, AppendEntry
<1>f. \A k \in DOMAIN written' :
         \/ k \in DOMAIN written /\ written'[k] = written[k]
         \/ reset_start # 0 /\ k = Len(written) + 1 /\ k <= Len(filled) /\ written'[k] = fill
         \/ k = Len(filled) + 1 /\ written'[k] = last
  BY <1>c, <1>e
<1>g. \A k \in DOMAIN written : k \in DOMAIN written' /\ written'[k] = written[k]
  BY <1>c, <1>e
<1>h. Len(written) \in Nat /\ DOMAIN written = 1 .. Len(written)
  BY <1>c, Zenon
<1>i. Len(filled) \in Nat /\ DOMAIN written' = 1 .. Len(filled) + 1
  BY <1>c, <1>e, Zenon
<1> HIDE DEF fill, filled, heard, last
<1>1. RTypeOK'
  <2>1. expected' \in Nat
    BY <1>a, <1>b DEF RInv, RTypeOK, SendAgain, Accepted, GapFill, Again, IsFill
  <2>2. gap' \in BOOLEAN
    BY Zenon DEF SendAgain
  <2>3. pc' = pc /\ log' = log /\ begin' \in Nat /\ end' \in Nat /\ next' \in Nat
        /\ reset_start' \in Nat /\ sequence_number' \in Nat
    BY <1>a DEF RInv, RTypeOK, SendAgain
  <2> QED
    BY <1>e, <2>1, <2>2, <2>3 DEF RInv, RTypeOK
<1>2. LoopRange' /\ SkippedRun'
  BY <1>a DEF RInv, RTypeOK, SendAgain, LoopRange, SkippedRun, Skipping
<1>3. WrittenRange'
  <2>1. end' = end /\ next' = next + 1 /\ reset_start' = 0 /\ next <= end
    BY DEF SendAgain
  <2>2. begin \in Nat /\ end \in Nat /\ reset_start \in Nat /\ sequence_number \in Nat
    BY DEF RInv, RTypeOK
  <2>3. reset_start # 0 => reset_start < next
    BY <1>a, <2>2 DEF RInv, SkippedRun, Skipping, SendAgain
  <2>4. \A k \in DOMAIN written :
           written[k].new <= end /\ written[k].seq < next /\ written[k].seq \in Nat
    BY WrittenNumbers DEF RInv, WrittenRange
  <2>5. \A k \in DOMAIN written' : written'[k].new <= end /\ written'[k].seq < next + 1
    BY <1>a, <1>b, <1>f, <2>1, <2>2, <2>3, <2>4
  <2> QED
    BY <2>1, <2>5 DEF WrittenRange, Skipping
<1>4. OnlyAppAgain'
  BY <1>a, <1>b, <1>f DEF RInv, SendAgain, OnlyAppAgain, IsFill
<1>5. FillsSkipNoApp'
  BY <1>a, <1>b, <1>f DEF RInv, RTypeOK, SendAgain, FillsSkipNoApp, IsFill, SkippedRun, Skipping
<1>6. Ascending'
  <2>1. \A k \in DOMAIN written : written[k].seq < last.seq
    BY <1>b DEF RInv, WrittenRange
  <2>2. reset_start # 0 => fill.seq < last.seq /\ \A k \in DOMAIN written : written[k].seq < fill.seq
    BY <1>a, <1>b DEF RInv, RTypeOK, SendAgain, WrittenRange, SkippedRun, Skipping
  <2> SUFFICES ASSUME NEW j \in DOMAIN written', NEW k \in DOMAIN written', j < k
               PROVE  written'[j].seq < written'[k].seq
    BY DEF Ascending
  <2>3. CASE k \in DOMAIN written /\ written'[k] = written[k]
    <3>1. j \in DOMAIN written
      BY <1>h, <1>i, <2>3
    <3>2. written'[j] = written[j]
      BY <1>g, <3>1, Zenon
    <3>3. written[j].seq < written[k].seq
      BY <2>3, <3>1, Zenon DEF RInv, Ascending
    <3> QED
      BY <2>3, <3>2, <3>3, Zenon
  <2>4. CASE reset_start # 0 /\ k = Len(written) + 1 /\ written'[k] = fill
    <3>1. j \in DOMAIN written
      BY <1>h, <1>i, <2>4
    <3>2. written'[j] = written[j]
      BY <1>g, <3>1, Zenon
    <3> QED
      BY <2>2, <2>4, <3>1, <3>2, Zenon
  <2>5. CASE k = Len(filled) + 1 /\ written'[k] = last
    <3>1. j # Len(filled) + 1
      BY <1>i, <2>5
    <3> QED
      BY <1>f, <2>1, <2>2, <2>5, <3>1, Zenon
  <2> QED
    BY <1>f, <2>3, <2>4, <2>5, Zenon
<1>7. AppSoFar'
  <2>1. Len(filled) + 1 \in DOMAIN written' /\ written'[Len(filled) + 1] = Again(next)
    BY <1>c, <1>e DEF last
  <2>2. log' = log /\ begin' = begin /\ end' = end /\ next' = next + 1 /\ pc = "Loop"
    BY DEF SendAgain
  <2>3. ASSUME NEW n \in DOMAIN log, begin <= n, n <= end, n < next + 1, log[n] = "app"
        PROVE  \E k \in DOMAIN written' : written'[k] = Again(n)
    <3>1. CASE n = next
      BY <2>1, <3>1, Zenon
    <3>2. CASE n # next
      <4>1. n < next
        BY <1>a, <2>3, <3>2 DEF RInv, RTypeOK
      <4>2. PICK k \in DOMAIN written : written[k] = Again(n)
        BY <2>2, <2>3, <4>1 DEF RInv, AppSoFar
      <4> QED
        BY <1>g, <4>2, Zenon
    <3> QED
      BY <3>1, <3>2
  <2> QED
    BY <2>2, <2>3, Zenon DEF AppSoFar
<1>8. Abreast'
  <2> SUFFICES ASSUME NoHole PROVE ~gap' /\ expected' = next + 1
    BY <1>a DEF RInv, RTypeOK, SendAgain, Abreast, NoHole, Skipping
  <2>1. heard = next
    BY <1>a, <1>b DEF RInv, RTypeOK, SendAgain, Abreast, SkippedRun, Skipping, Accepted, heard
  <2>2. expected' = Accepted(heard, last)
    BY DEF SendAgain, heard, last, fill
  <2>3. ~gap /\ (reset_start # 0 => expected = reset_start)
    BY DEF RInv, SendAgain, Abreast, Skipping
  <2>4. gap' = (gap \/ (reset_start # 0 /\ reset_start > expected) \/ next > heard)
    BY DEF SendAgain, heard, fill
  <2>5. expected' = next + 1
    BY <1>a, <1>b, <2>1, <2>2 DEF Accepted
  <2>6. ~(reset_start # 0 /\ reset_start > expected) /\ ~(next > heard)
    BY <1>a, <2>1, <2>3 DEF RInv, RTypeOK
  <2>7. ~gap'
    BY <2>3, <2>4, <2>6, Zenon
  <2> QED
    BY <2>5, <2>7, Zenon
<1> QED
  BY <1>1, <1>2, <1>3, <1>4, <1>5, <1>6, <1>7, <1>8 DEF RInv

-----------------------------------------------------------------------------
(* The theorems *)

\* RInv is inductive: no step of the loop that answers a ResendRequest, and
\* nothing the session does in between, breaks it.
THEOREM Inductive == RInv /\ [RNext]_rvars => RInv'
<1> SUFFICES ASSUME RInv, [RNext]_rvars PROVE RInv'
  OBVIOUS
<1>1. ASSUME NEW kind \in Kind, Prepared(kind) PROVE RInv'
  BY <1>1, PreparedKeeps
<1>2. ASSUME NEW from \in 0 .. MaxLog + 2, NEW to \in 0 .. MaxLog + 2, ResendRequested(from, to)
      PROVE RInv'
  <2>1. from \in Nat /\ to \in Nat
    BY <1>2, ResendAssumption
  <2> QED
    BY <1>2, <2>1, ResendRequestedKeeps
<1>3. CASE Absent
  BY <1>3, AbsentKeeps
<1>4. CASE SkipAdmin
  BY <1>4, SkipAdminKeeps
<1>5. CASE SendAgain
  BY <1>5, SendAgainKeeps
<1>6. CASE Fails
  BY <1>6, FailsKeeps
<1>7. CASE Finish
  BY <1>7, FinishKeeps
<1>8. CASE EncodeFails
  BY <1>8, EncodeFailsKeeps
<1>9. CASE UNCHANGED rvars
  <2> USE <1>9 DEF rvars, RInv
  <2>1. RTypeOK' /\ LoopRange' /\ OnlyAppAgain' /\ FillsSkipNoApp' /\ Ascending'
    BY DEF RTypeOK, LoopRange, OnlyAppAgain, FillsSkipNoApp, Ascending, IsFill
  <2>2. SkippedRun' /\ WrittenRange' /\ AppSoFar' /\ Abreast'
    BY DEF SkippedRun, WrittenRange, AppSoFar, Abreast, NoHole, Skipping
  <2> QED
    BY <2>1, <2>2
<1> QED
  BY <1>1, <1>2, <1>3, <1>4, <1>5, <1>6, <1>7, <1>8, <1>9 DEF RNext

\* resend_messages keeps the types of its locals, for every request.
THEOREM ResendTypes == RSpec => []RTypeOK
<1>1. RInv => RTypeOK
  BY DEF RInv
<1> QED
  BY <1>1, InitHolds, Inductive, PTL DEF RSpec

\* resend_messages sends only application messages again.
THEOREM ResendOnlyApp == RSpec => []OnlyAppAgain
<1>1. RInv => OnlyAppAgain
  BY DEF RInv
<1> QED
  BY <1>1, InitHolds, Inductive, PTL DEF RSpec

\* A gap fill of resend_messages passes over no application message.
THEOREM ResendSafe == RSpec => []FillsSkipNoApp
<1>1. RInv => FillsSkipNoApp
  BY DEF RInv
<1> QED
  BY <1>1, InitHolds, Inductive, PTL DEF RSpec

\* What resend_messages writes has ascending numbers.
THEOREM ResendAscending == RSpec => []Ascending
<1>1. RInv => Ascending
  BY DEF RInv
<1> QED
  BY <1>1, InitHolds, Inductive, PTL DEF RSpec

\* A finished answer holds every application message of the range.
THEOREM ResendComplete == RSpec => []AppAllAgain
<1>1. RInv => AppAllAgain
  BY DEF RInv, RTypeOK, LoopRange, AppSoFar, AppAllAgain
<1> QED
  BY <1>1, InitHolds, Inductive, PTL DEF RSpec

\* Where the store has no hole the counterparty sees no gap in the answer, and
\* expects at least the last number of the range when it is finished.
THEOREM ResendCatchesUp == RSpec => []CatchesUp
<1>1. RInv => CatchesUp
  BY DEF RInv, Abreast, NoHole, CatchesUp
<1> QED
  BY <1>1, InitHolds, Inductive, PTL DEF RSpec
=============================================================================
