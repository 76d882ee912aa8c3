---------------------------- MODULE HandlesProofs ----------------------------
(***************************************************************************)
(* What the callers of a SessionHandle and of an Initiator are told is     *)
(* true, for any number of callers, any capacities and any number of       *)
(* calls.                                                                  *)
(*                                                                         *)
(* A caller's requests are in the channel in the order of its calls, after *)
(* all that are already in the store (InLine).  The request of its present *)
(* call is there only when it has been sent (OwnRequest), in the store     *)
(* only when it is no longer waited for (Unstored), and no longer in the   *)
(* channel when the caller has an answer (Answered).                       *)
(***************************************************************************)
EXTENDS Handles, SequenceTheorems, TLAPS

Ops == {"none", "send", "send_forget", "info", "reset", "set_target", "shutdown", "shutdown_and_wait"}
Outbound == {"send", "send_forget"}
Kinds == NotStored \cup {"none", "Ok", "Sent", "Persist", "Info", "InvalidState", "Store"}
ToldRecord == [kind : Kinds, number : Nat]

CallerRecord ==
    [op : Ops, reconnect : BOOLEAN, pc : {"idle", "sending", "waiting", "completing"}, n : Nat, told : ToldRecord]

OutboundRecord == [op : Outbound, from : Callers, n : Nat]

AdminRecord ==
    [op : {"reset"}] \cup [op : {"shutdown"}, reconnect : BOOLEAN]
    \cup [op : {"info", "set_target"}, from : Callers, n : Nat]

EngineRecord ==
    [status : {"Disconnected", "AwaitingLogon", "LoggedOn", "AwaitingLogout", "Gone"},
     reconnect : BOOLEAN, loop : {"await", "connected", "ask", "told", "untold"}, number : Nat]

EntryRecord == [from : Callers, n : Nat, number : Nat, late : BOOLEAN]

RequestsRecord == [outbound : Seq(OutboundRecord), admin : Seq(AdminRecord)]

HTyped ==
    /\ callers \in [Callers -> CallerRecord]
    /\ requests \in RequestsRecord
    /\ engine \in EngineRecord
    /\ stored \in Seq(EntryRecord)
    /\ shut \in BOOLEAN

\* Where a call may be, and that it has not been told anything yet.
Calling ==
    \A c \in Callers :
        /\ callers[c].pc = "waiting" => callers[c].op \in {"send", "info", "set_target"}
        /\ callers[c].pc = "completing" => callers[c].op = "shutdown_and_wait"
        /\ callers[c].pc # "idle" => callers[c].op # "none" /\ callers[c].told = Nothing

Queue == requests.outbound

\* One caller's requests are in line behind those stored.
InLine ==
    /\ \A i, j \in DOMAIN Queue : i < j /\ Queue[i].from = Queue[j].from => Queue[i].n < Queue[j].n
    /\ \A i \in DOMAIN stored, j \in DOMAIN Queue : stored[i].from = Queue[j].from => stored[i].n < Queue[j].n

\* No request is of a later call; one of the present call is what was asked.
OwnRequest ==
    \A i \in DOMAIN Queue :
        LET r == callers[Queue[i].from] IN
        /\ Queue[i].n <= r.n
        /\ Queue[i].n = r.n => Queue[i].op = r.op /\ r.pc # "sending"

\* A message that is not sent, or not answered, is not stored.
Unstored ==
    \A i \in DOMAIN stored :
        LET r == callers[stored[i].from] IN
        /\ stored[i].n <= r.n
        /\ r.pc = "sending" \/ (r.pc = "waiting" /\ r.op = "send") => stored[i].n < r.n

\* The request that was answered has left the channel.
Answered ==
    \A i \in DOMAIN Queue :
        LET r == callers[Queue[i].from] IN r.told.kind \in NotStored \cup {"Sent"} => Queue[i].n < r.n

Numbered == \A i \in DOMAIN stored : stored[i].number < engine.number

\* A session that has ended has no channels.
Closed == Gone => Queue = << >> /\ requests.admin = << >>

\* What the end of the loop means.
Ended ==
    /\ shut => Stopped
    /\ engine.loop = "told" => engine.status \in {"Disconnected", "Gone"}

HInv ==
    /\ HTyped /\ Calling /\ InLine /\ OwnRequest /\ Unstored /\ Answered /\ Numbered /\ Closed /\ Ended
    /\ AnswersAreTrue /\ QuietAfterShutdown

-----------------------------------------------------------------------------
(* Facts read off the invariant *)

LEMMA Typing ==
  ASSUME HTyped
  PROVE  /\ Queue \in Seq(OutboundRecord) /\ Len(Queue) \in Nat /\ DOMAIN Queue = 1 .. Len(Queue)
         /\ Len(stored) \in Nat /\ DOMAIN stored = 1 .. Len(stored)
         /\ requests.admin \in Seq(AdminRecord)
         /\ \A i \in DOMAIN Queue :
               Queue[i] \in OutboundRecord /\ Queue[i].op \in Outbound /\ Queue[i].from \in Callers /\ Queue[i].n \in Nat
         /\ \A i \in DOMAIN stored :
               stored[i] \in EntryRecord /\ stored[i].from \in Callers /\ stored[i].n \in Nat /\ stored[i].number \in Nat
         /\ \A c \in Callers :
               callers[c] \in CallerRecord /\ callers[c].n \in Nat /\ callers[c].op \in Ops
         /\ engine.number \in Nat
<1>1. Queue \in Seq(OutboundRecord) /\ requests.admin \in Seq(AdminRecord) /\ stored \in Seq(EntryRecord)
  BY DEF HTyped, Queue, RequestsRecord
<1>2. /\ Len(Queue) \in Nat /\ DOMAIN Queue = 1 .. Len(Queue)
      /\ Len(stored) \in Nat /\ DOMAIN stored = 1 .. Len(stored)
  BY <1>1, LenProperties
<1>3. \A i \in DOMAIN Queue : Queue[i] \in OutboundRecord
  BY <1>1, <1>2, ElementOfSeq
<1>4. \A i \in DOMAIN stored : stored[i] \in EntryRecord
  BY <1>1, <1>2, ElementOfSeq
<1> QED
  BY <1>1, <1>2, <1>3, <1>4, SMTT(20) DEF HTyped, OutboundRecord, EntryRecord, CallerRecord, EngineRecord

\* What a call is after its return
Returned(r, told) == IF Channel(r.op) = "outbound" THEN [r EXCEPT !.pc = "idle", !.told = told] ELSE AtRest(r.n)

LEMMA ReturnedFacts ==
  ASSUME NEW r \in CallerRecord, NEW told \in ToldRecord
  PROVE  /\ Returned(r, told) \in CallerRecord /\ Returned(r, told).pc = "idle" /\ Returned(r, told).n = r.n
         /\ r.op \in Outbound => Returned(r, told).op = r.op /\ Returned(r, told).told = told
         /\ r.op \notin Outbound => Returned(r, told).op = "none" /\ Returned(r, told).told = Nothing
<1>1. CASE r.op \in Outbound
  <2>1. Returned(r, told) = [r EXCEPT !.pc = "idle", !.told = told]
    BY <1>1 DEF Returned, Channel, Outbound
  <2> QED
    BY <1>1, <2>1, Zenon DEF CallerRecord
<1>2. CASE r.op \notin Outbound
  <2>1. Returned(r, told) = [op |-> "none", reconnect |-> FALSE, pc |-> "idle", n |-> r.n, told |-> Nothing]
    BY <1>2 DEF Returned, Channel, Outbound, AtRest
  <2>2. Nothing \in ToldRecord /\ r.n \in Nat
    BY DEF Nothing, Told, ToldRecord, Kinds, CallerRecord
  <2> QED
    BY <1>2, <2>1, <2>2 DEF CallerRecord, Ops
<1> QED
  BY <1>1, <1>2

LEMMA ReturnsWhat ==
  ASSUME NEW c, NEW told
  PROVE  Returns(c, told) <=> callers' = [callers EXCEPT ![c] = Returned(callers[c], told)]
BY DEF Returns, Returned

\* The words of the answers
LEMMA ToldTypes ==
  /\ Nothing \in ToldRecord /\ Nothing.kind = "none"
  /\ \A kind \in Kinds : Told(kind) \in ToldRecord /\ Told(kind).kind = kind
  /\ \A n \in Nat : SentAs(n) \in ToldRecord /\ SentAs(n).kind = "Sent" /\ SentAs(n).number = n
BY DEF Nothing, Told, SentAs, ToldRecord, Kinds

\* What is claimed of one caller, and of the store
TrueOf(c) ==
    LET r == callers[c] IN r.op \in {"send", "send_forget"} =>
         /\ r.told.kind = "Sent" =>
              \E i \in OfCall(c, r.n) : OfCall(c, r.n) = {i} /\ stored[i].number = r.told.number
         /\ r.told.kind \in NotStored => OfCall(c, r.n) = {}

StoredInOrder ==
    \A i, j \in DOMAIN stored : i < j =>
         /\ stored[i].from = stored[j].from => stored[i].n < stored[j].n
         /\ stored[i].number < stored[j].number

LEMMA AnswersSplit == AnswersAreTrue <=> (\A c \in Callers : TrueOf(c)) /\ StoredInOrder
BY DEF AnswersAreTrue, TrueOf, StoredInOrder

LEMMA AnswersSplitNext == AnswersAreTrue' <=> (\A c \in Callers : TrueOf(c)') /\ StoredInOrder'
BY DEF AnswersAreTrue, TrueOf, StoredInOrder

-----------------------------------------------------------------------------
(* A step that leaves the outbound channel as it is, of one caller *)

QueueKept == Queue' = Queue /\ requests' \in RequestsRecord /\ Closed'

LEMMA QueueUntouched ==
  ASSUME HInv, UNCHANGED requests, Gone' => Gone
  PROVE  QueueKept
BY DEF HInv, QueueKept, HTyped, Queue, Closed

\* What the caller's new state must agree with
Fits(c, r) ==
    /\ r \in CallerRecord /\ callers[c].n <= r.n
    /\ r.pc = "waiting" => r.op \in {"send", "info", "set_target"}
    /\ r.pc = "completing" => r.op = "shutdown_and_wait"
    /\ r.pc # "idle" => r.op # "none" /\ r.told = Nothing
    /\ \A i \in DOMAIN Queue : Queue[i].from = c =>
          /\ Queue[i].n = r.n => Queue[i].op = r.op /\ r.pc # "sending"
          /\ r.told.kind \in NotStored \cup {"Sent"} => Queue[i].n < r.n
    /\ \A i \in DOMAIN stored : stored[i].from = c =>
          (r.pc = "sending" \/ (r.pc = "waiting" /\ r.op = "send") => stored[i].n < r.n)
    /\ r.op \in Outbound => r.told.kind # "Sent"
    /\ r.op \in Outbound /\ r.told.kind \in NotStored => OfCall(c, r.n) = {}

LEMMA OneCaller ==
  ASSUME HInv, NEW c \in Callers, NEW r, Fits(c, r),
         callers' = [callers EXCEPT ![c] = r], QueueKept, UNCHANGED <<engine, stored>>,
         shut' \in BOOLEAN, shut' => Stopped
  PROVE  HInv'
<1> USE DEF HInv, Fits
<1>0. callers'[c] = r /\ r.n \in Nat /\ \A d \in Callers : d # c => callers'[d] = callers[d]
  BY DEF HTyped, CallerRecord
<1>1. HTyped'
  BY DEF HTyped, QueueKept
<1>2. Calling'
  BY <1>0 DEF Calling
<1>4. Queue' = Queue
  BY DEF QueueKept
<1>3. InLine' /\ Numbered' /\ Closed'
  BY <1>4 DEF InLine, Numbered, QueueKept
<1>5. OwnRequest'
  BY <1>0, <1>4, Typing DEF OwnRequest
<1>6. Unstored'
  BY <1>0, Typing DEF Unstored
<1>7. Answered'
  BY <1>0, <1>4, Typing DEF Answered
<1>8. Ended' /\ QuietAfterShutdown'
  BY DEF Ended, QuietAfterShutdown, Stopped
<1>9. AnswersAreTrue'
  <2>1. ASSUME NEW d \in Callers PROVE TrueOf(d)'
    <3>1. CASE d = c
      BY <1>0, <3>1 DEF TrueOf, OfCall, Outbound
    <3>2. CASE d # c
      <4>1. TrueOf(d)
        BY AnswersSplit
      <4> QED
        BY <1>0, <3>2, <4>1 DEF TrueOf, OfCall
    <3> QED
      BY <3>1, <3>2
  <2>2. StoredInOrder'
    BY AnswersSplit DEF StoredInOrder
  <2> QED
    BY <2>1, <2>2, AnswersSplitNext
<1> QED
  BY <1>1, <1>2, <1>3, <1>5, <1>6, <1>7, <1>8, <1>9

\* SessionHandle and Initiator: a new call.
LEMMA CallsKeeps ==
  ASSUME HInv, NEW c \in Callers, NEW op \in Ops \ {"none"}, NEW reconnect \in BOOLEAN, Calls(c, op, reconnect)
  PROVE  HInv'
<1> DEFINE r == [op |-> op, reconnect |-> reconnect, pc |-> "sending", n |-> callers[c].n + 1, told |-> Nothing]
<1>1. r \in CallerRecord
  BY Typing, ToldTypes DEF HInv, CallerRecord
<1>2. r.op = op /\ r.pc = "sending" /\ r.n = callers[c].n + 1 /\ r.told = Nothing
  OBVIOUS
<1>3. callers' = [callers EXCEPT ![c] = r] /\ UNCHANGED <<requests, engine, stored, shut>>
  BY DEF Calls
<1> HIDE DEF r
<1>4. callers[c].n \in Nat /\ shut \in BOOLEAN /\ (shut => Stopped)
  BY Typing DEF HInv, HTyped, Ended
<1>5. \A i \in DOMAIN Queue : Queue[i].from = c => Queue[i].n < r.n
  BY <1>2, <1>4, Typing DEF HInv, OwnRequest
<1>6. \A i \in DOMAIN stored : stored[i].from = c => stored[i].n < r.n
  BY <1>2, <1>4, Typing DEF HInv, Unstored
<1>7. \A i \in DOMAIN Queue : Queue[i].from = c => Queue[i].n # r.n
  BY <1>2, <1>4, <1>5, Typing DEF HInv
<1>8. r.told.kind = "none"
  BY <1>2, ToldTypes
<1>9. callers[c].n <= r.n
  BY <1>2, <1>4
<1>10. QueueKept
  BY <1>3, QueueUntouched DEF Gone
<1>11. Fits(c, r)
  BY <1>1, <1>2, <1>5, <1>6, <1>7, <1>8, <1>9 DEF Fits, NotStored
<1> QED
  BY <1>3, <1>4, <1>10, <1>11, OneCaller, Zenon

\* A call that returns without its answer.
LEMMA ReturnKeeps ==
  ASSUME HInv, NEW c \in Callers, NEW told \in ToldRecord, Returns(c, told),
         callers[c].pc # "idle", QueueKept, UNCHANGED <<engine, stored>>,
         shut' \in BOOLEAN, shut' => Stopped,
         \/ told.kind \notin NotStored \cup {"Sent"}
         \/ told.kind # "Sent" /\ Gone
         \/ callers[c].op \notin Outbound
  PROVE  HInv'
<1> USE DEF HInv
<1> DEFINE q == callers[c]
           r == Returned(callers[c], told)
<1>1. /\ q \in CallerRecord /\ q.n \in Nat
      /\ r \in CallerRecord /\ r.pc = "idle" /\ r.n = q.n /\ q.n <= r.n
      /\ q.op \in Outbound => r.op = q.op /\ r.told = told
      /\ q.op \notin Outbound => r.op = "none" /\ r.told = Nothing
  BY Typing, ReturnedFacts
<1>2. callers' = [callers EXCEPT ![c] = r]
  BY ReturnsWhat
<1> HIDE DEF r
<1>3. \A i \in DOMAIN Queue : Queue[i].from = c => (Queue[i].n = r.n => Queue[i].op = r.op)
  BY <1>1, Typing DEF OwnRequest
<1>4. \A i \in DOMAIN Queue : Queue[i].from = c => (r.told.kind \in NotStored \cup {"Sent"} => Queue[i].n < r.n)
  <2>1. CASE r.told.kind \notin NotStored \cup {"Sent"}
    BY <2>1
  <2>2. CASE Gone
    BY <2>2, Typing DEF Closed
  <2>3. CASE q.op \notin Outbound
    BY <1>1, <2>3, ToldTypes DEF NotStored
  <2> QED
    BY <1>1, <2>1, <2>2, <2>3
<1>5. r.op \in Outbound => r.told.kind # "Sent"
  BY <1>1 DEF Outbound
<1>6. ASSUME r.op \in Outbound, r.told.kind \in NotStored PROVE OfCall(c, r.n) = {}
  <2>1. q.op \in Outbound
    BY <1>1, <1>6 DEF Outbound
  <2>2. q.pc = "sending" \/ (q.pc = "waiting" /\ q.op = "send")
    BY <1>1, <2>1 DEF Calling, CallerRecord, Outbound
  <2>3. \A i \in DOMAIN stored : stored[i].from = c => stored[i].n < q.n
    BY <2>2 DEF Unstored
  <2> QED
    BY <1>1, <2>3, Typing DEF OfCall
<1>7. Fits(c, r)
  BY <1>1, <1>3, <1>4, <1>5, <1>6 DEF Fits
<1> HIDE DEF HInv
<1> QED
  BY <1>2, <1>7, OneCaller, Zenon

-----------------------------------------------------------------------------
(* A step of the session or of the loop *)

\* The number does not fall, a loop that has stopped stays so, and "told"
\* means what it says.
EngineStep(f) ==
    /\ f \in EngineRecord /\ engine.number <= f.number
    /\ Stopped => f.loop = engine.loop
    /\ f.loop = "told" => f.status \in {"Disconnected", "Gone"}

LEMMA EngineKeeps ==
  ASSUME HInv, EngineStep(engine'), QueueKept, UNCHANGED <<callers, stored, shut>>
  PROVE  HInv'
<1> USE DEF HInv
<1>1. HTyped'
  BY DEF HTyped, QueueKept, EngineStep
<1>2. Calling' /\ Unstored' /\ Closed'
  BY DEF Calling, Unstored, QueueKept
<1>3. Queue' = Queue
  BY DEF QueueKept
<1>4. InLine' /\ OwnRequest' /\ Answered'
  BY <1>3 DEF InLine, OwnRequest, Answered
<1>5. Numbered'
  BY Typing DEF Numbered, EngineStep, EngineRecord
<1>6. Ended' /\ QuietAfterShutdown'
  BY DEF Ended, QuietAfterShutdown, EngineStep, Stopped
<1>7. AnswersAreTrue'
  BY DEF AnswersAreTrue, OfCall
<1> QED
  BY <1>1, <1>2, <1>4, <1>5, <1>6, <1>7

LEMMA StatusFacts ==
  ASSUME NEW e \in EngineRecord, NEW reconnect \in BOOLEAN,
         NEW status \in {"Disconnected", "AwaitingLogon", "LoggedOn", "AwaitingLogout", "Gone"}
  PROVE  /\ Status(e, status, reconnect) \in EngineRecord
         /\ Status(e, status, reconnect).status = status
         /\ Status(e, status, reconnect).loop = e.loop
         /\ Status(e, status, reconnect).number = e.number
BY Zenon DEF Status, EngineRecord

LEMMA LoopFacts ==
  ASSUME NEW e \in EngineRecord, NEW loop \in {"await", "connected", "ask", "told", "untold"}
  PROVE  /\ [e EXCEPT !.loop = loop] \in EngineRecord
         /\ [e EXCEPT !.loop = loop].loop = loop
         /\ [e EXCEPT !.loop = loop].status = e.status
         /\ [e EXCEPT !.loop = loop].number = e.number
BY DEF EngineRecord

\* The text, the number and the store: the engine only gets on in its numbers.
Onward(e, f) == f \in EngineRecord /\ f.status = e.status /\ f.loop = e.loop /\ e.number <= f.number

LEMMA PreparedFacts ==
  ASSUME NEW e \in EngineRecord, NEW p \in prepare_message(e)
  PROVE  /\ Onward(e, p.engine)
         /\ p.filed \in BOOLEAN /\ (p.filed => p.engine.number = e.number + 1)
         /\ \/ p.told = SentAs(e.number) /\ p.filed
            \/ p.told = Told("Persist")
            \/ p.told = Told("SequenceNumber") /\ ~p.filed
<1> DEFINE f == [e EXCEPT !.number = @ + 1]
<1>1. Onward(e, f) /\ f.number = e.number + 1 /\ Onward(e, e)
  BY DEF Onward, EngineRecord
<1>2. \/ p = Result(Told("Persist"), e, FALSE) \/ p = Result(Told("SequenceNumber"), e, FALSE)
      \/ p = Result(SentAs(e.number), f, TRUE)
      \/ \E filed \in BOOLEAN : p = Result(Told("Persist"), f, filed)
  BY Zenon DEF prepare_message
<1> HIDE DEF f
<1>3. \/ p.told = Told("Persist") /\ p.engine = e /\ p.filed = FALSE
      \/ p.told = Told("SequenceNumber") /\ p.engine = e /\ p.filed = FALSE
      \/ p.told = SentAs(e.number) /\ p.engine = f /\ p.filed = TRUE
      \/ p.told = Told("Persist") /\ p.engine = f /\ p.filed \in BOOLEAN
  <2>1. ASSUME NEW told, NEW g, NEW filed \in BOOLEAN, p = Result(told, g, filed)
        PROVE  p.told = told /\ p.engine = g /\ p.filed = filed
    BY <2>1, Zenon DEF Result
  <2> QED
    BY <1>2, <2>1, Zenon
<1> QED
  BY <1>1, <1>3, Zenon

LEMMA LogoutFacts ==
  ASSUME NEW e \in EngineRecord, NEW reconnect \in BOOLEAN, NEW f \in initiate_graceful_logout(e, reconnect)
  PROVE  /\ f \in EngineRecord /\ e.number <= f.number /\ f.loop = e.loop
         /\ f.status = e.status \/ (f.status = "AwaitingLogout" /\ e.status \in {"AwaitingLogon", "LoggedOn"})
<1>0. e.number \in Nat
  BY DEF EngineRecord
<1>1. CASE f = e
  BY <1>0, <1>1
<1>2. ASSUME e.status \in {"AwaitingLogon", "LoggedOn"}, NEW p \in prepare_message(e),
             f = IF p.told.kind = "Sent" THEN Status(p.engine, "AwaitingLogout", reconnect) ELSE p.engine
      PROVE  /\ f \in EngineRecord /\ e.number <= f.number /\ f.loop = e.loop
             /\ f.status \in {e.status, "AwaitingLogout"}
  <2>1. Onward(e, p.engine)
    BY PreparedFacts
  <2> DEFINE g == Status(p.engine, "AwaitingLogout", reconnect)
  <2>2. g \in EngineRecord /\ g.loop = p.engine.loop /\ g.number = p.engine.number /\ g.status = "AwaitingLogout"
    BY <2>1, Zenon DEF Onward, Status, EngineRecord
  <2>3. f = g \/ f = p.engine
    BY <1>2
  <2> HIDE DEF g
  <2> QED
    BY <2>1, <2>2, <2>3 DEF Onward
<1> QED
  BY <1>1, <1>2 DEF initiate_graceful_logout

LEMMA LogoutStep ==
  ASSUME HInv, ~Gone, NEW reconnect \in BOOLEAN, NEW f \in initiate_graceful_logout(engine, reconnect)
  PROVE  EngineStep(f) /\ f.status # "Gone"
<1>1. engine \in EngineRecord
  BY DEF HInv, HTyped
<1>2. /\ f \in EngineRecord /\ engine.number <= f.number /\ f.loop = engine.loop
      /\ f.status = engine.status \/ (f.status = "AwaitingLogout" /\ engine.status \in {"AwaitingLogon", "LoggedOn"})
  BY <1>1, LogoutFacts
<1> QED
  BY <1>2 DEF EngineStep, HInv, Ended, Gone

LEMMA DisconnectedStep ==
  ASSUME engine \in EngineRecord, NEW r \in BOOLEAN
  PROVE  EngineStep(Status(engine, "Disconnected", r)) /\ Status(engine, "Disconnected", r).status # "Gone"
<1> DEFINE f == Status(engine, "Disconnected", r)
<1>1. /\ f \in EngineRecord /\ f.status = "Disconnected" /\ f.loop = engine.loop /\ f.number = engine.number
      /\ engine.number \in Nat
  BY Zenon DEF EngineRecord, Status
<1> HIDE DEF f
<1>2. EngineStep(f)
  BY <1>1 DEF EngineStep
<1> QED
  BY <1>1, <1>2 DEF f

\* The events of the loop, the peer and the schedule
LEMMA EventKeeps ==
  ASSUME HInv, NEW next, OnEvent(next), \A f \in next : EngineStep(f) /\ f.status # "Gone"
  PROVE  HInv'
<1>1. ~Gone' /\ EngineStep(engine') /\ UNCHANGED <<callers, requests, stored, shut>>
  BY DEF OnEvent, Gone
<1>2. QueueKept
  BY <1>1, QueueUntouched
<1> QED
  BY <1>1, <1>2, EngineKeeps

\* The session after register_writer
Joined(e, l) == Status([e EXCEPT !.loop = l], "AwaitingLogon", TRUE)

LEMMA JoinedFacts ==
  ASSUME NEW e \in EngineRecord, NEW l \in {"connected", "ask"}
  PROVE  /\ Joined(e, l) \in EngineRecord /\ Joined(e, l).status = "AwaitingLogon"
         /\ Joined(e, l).loop = l /\ Joined(e, l).number = e.number
BY Zenon DEF Joined, Status, EngineRecord

LEMMA EventsKeep ==
  ASSUME HInv,
         \/ on_connect \/ connect_fails \/ on_logon \/ on_disconnect \/ end_session
         \/ period_ends \/ should_reconnect \/ await_in_schedule
  PROVE  HInv'
<1>0. engine \in EngineRecord /\ engine.number \in Nat
  BY Typing DEF HInv, HTyped
<1>1. CASE on_connect
  <2> DEFINE next == {Joined(p.engine, l) : p \in prepare_message(engine), l \in {"connected", "ask"}}
  <2>1. ASSUME NEW f \in next PROVE EngineStep(f) /\ f.status # "Gone"
    <3>1. PICK p \in prepare_message(engine), l \in {"connected", "ask"} :
             f = Joined(p.engine, l)
      OBVIOUS
    <3>2. Onward(engine, p.engine)
      BY <1>0, PreparedFacts
    <3>3. f \in EngineRecord /\ f.status = "AwaitingLogon" /\ f.loop = l /\ engine.number <= f.number
      BY <3>1, <3>2, JoinedFacts DEF Onward
    <3> QED
      BY <1>1, <3>3 DEF EngineStep, on_connect, Stopped
  <2>2. OnEvent(next)
    BY <1>1 DEF on_connect, Joined
  <2> HIDE DEF next
  <2> QED
    BY <2>1, <2>2, EventKeeps
<1>2. CASE connect_fails
  <2> DEFINE f == [engine EXCEPT !.loop = "ask"]
  <2>1. EngineStep(f) /\ f.status = engine.status
    BY <1>0, <1>2 DEF EngineStep, connect_fails, Stopped, EngineRecord
  <2>2. OnEvent({f}) /\ ~Gone
    BY <1>2 DEF connect_fails, OnEvent
  <2> HIDE DEF f
  <2> QED
    BY <2>1, <2>2, EventKeeps DEF Gone
<1>3. CASE on_logon
  <2> DEFINE f == Status(engine, "LoggedOn", TRUE)
  <2>1. f \in EngineRecord /\ f.status = "LoggedOn" /\ f.loop = engine.loop /\ f.number = engine.number
    BY <1>0, Zenon DEF EngineRecord, Status
  <2>2. OnEvent({f}) /\ engine.loop = "connected"
    BY <1>3 DEF on_logon
  <2> HIDE DEF f
  <2>3. EngineStep(f)
    BY <1>0, <2>1, <2>2 DEF EngineStep
  <2> QED
    BY <2>1, <2>2, <2>3, EventKeeps
<1>4. CASE on_disconnect
  <2> DEFINE again == engine.status \in {"AwaitingLogout", "Disconnected"} => engine.reconnect
             f == Status([engine EXCEPT !.loop = "ask"], "Disconnected", again)
  <2>1. again \in BOOLEAN
    OBVIOUS
  <2>2. OnEvent({f})
    BY <1>4 DEF on_disconnect
  <2> HIDE DEF again
  <2>3. f \in EngineRecord /\ f.status = "Disconnected" /\ f.number = engine.number
    BY <1>0, <2>1, Zenon DEF EngineRecord, Status
  <2> HIDE DEF f
  <2>4. EngineStep(f)
    BY <1>0, <1>4, <2>3 DEF EngineStep, on_disconnect, Stopped
  <2> QED
    BY <2>2, <2>3, <2>4, EventKeeps
<1>5. CASE end_session
  <2> DEFINE next == {Status(engine, "Disconnected", r) : r \in BOOLEAN}
  <2>1. ASSUME NEW r \in BOOLEAN
        PROVE  EngineStep(Status(engine, "Disconnected", r)) /\ Status(engine, "Disconnected", r).status # "Gone"
    BY <1>0, DisconnectedStep
  <2>2. OnEvent(next) /\ \A f \in next : EngineStep(f) /\ f.status # "Gone"
    BY <1>5, <2>1 DEF end_session
  <2> HIDE DEF next
  <2> QED
    BY <2>2, EventKeeps
<1>6. CASE period_ends
  <2> DEFINE next == {Status(engine, "Disconnected", FALSE)} \cup initiate_graceful_logout(engine, TRUE)
  <2>1. OnEvent(next) /\ ~Gone
    BY <1>6, Zenon DEF period_ends, OnEvent
  <2>2. EngineStep(Status(engine, "Disconnected", FALSE)) /\ Status(engine, "Disconnected", FALSE).status # "Gone"
    BY <1>0, DisconnectedStep, Zenon
  <2>3. ASSUME NEW f \in initiate_graceful_logout(engine, TRUE)
        PROVE  EngineStep(f) /\ f.status # "Gone"
    BY <1>0, <2>1, <2>3, LogoutStep, Zenon
  <2> QED
    BY <2>1, <2>2, <2>3, EventKeeps, Zenon
<1>7. CASE should_reconnect
  <2> DEFINE f == [engine EXCEPT !.loop = IF is_connected(engine) \/ engine.reconnect THEN "await" ELSE "told"]
  <2>1. EngineStep(f) /\ f.status = engine.status
    BY <1>0, <1>7 DEF EngineStep, should_reconnect, Stopped, EngineRecord, is_connected
  <2>2. OnEvent({f}) /\ ~Gone
    BY <1>7 DEF should_reconnect, OnEvent
  <2> HIDE DEF f
  <2> QED
    BY <2>1, <2>2, EventKeeps DEF Gone
<1>8. CASE await_in_schedule
  <2> DEFINE f == [engine EXCEPT !.loop = "untold"]
  <2>1. EngineStep(f) /\ f.status = engine.status
    BY <1>0, <1>8 DEF EngineStep, await_in_schedule, Stopped, EngineRecord
  <2>2. OnEvent({f}) /\ ~Gone
    BY <1>8 DEF await_in_schedule, OnEvent
  <2> HIDE DEF f
  <2> QED
    BY <2>1, <2>2, EventKeeps DEF Gone
<1> QED
  BY <1>1, <1>2, <1>3, <1>4, <1>5, <1>6, <1>7, <1>8

LEMMA EndsKeep ==
  ASSUME HInv, session_panics \/ loop_ends
  PROVE  HInv'
<1>0. engine \in EngineRecord /\ engine.number \in Nat
  BY Typing DEF HInv, HTyped
<1>1. CASE session_panics
  <2>1. /\ Queue' = << >> /\ requests'.admin = << >> /\ requests' \in RequestsRecord
        /\ UNCHANGED <<callers, stored, shut>>
    BY <1>1, EmptySeq DEF session_panics, Queue, RequestsRecord
  <2>2. /\ engine' \in EngineRecord /\ engine'.number = engine.number /\ engine'.loop = engine.loop
        /\ engine'.status = "Gone"
    BY <1>0, <1>1 DEF session_panics, EngineRecord
  <2>3. HTyped' /\ Calling' /\ Unstored' /\ Closed'
    BY <2>1, <2>2 DEF HInv, HTyped, Calling, Unstored, Closed
  <2>4. InLine' /\ OwnRequest' /\ Answered'
    BY <2>1 DEF InLine, OwnRequest, Answered
  <2>5. Numbered' /\ Ended' /\ QuietAfterShutdown' /\ AnswersAreTrue'
    BY <2>1, <2>2 DEF HInv, Numbered, Ended, Stopped, QuietAfterShutdown, AnswersAreTrue, OfCall
  <2> QED
    BY <2>3, <2>4, <2>5 DEF HInv
<1>2. CASE loop_ends
  <2>1. EngineStep(engine') /\ engine'.status = engine.status /\ UNCHANGED <<callers, requests, stored, shut>>
    BY <1>0, <1>2 DEF loop_ends, EngineStep, EngineRecord, Gone
  <2>2. QueueKept
    BY <2>1, QueueUntouched DEF Gone
  <2> QED
    BY <2>1, <2>2, EngineKeeps
<1> QED
  BY <1>1, <1>2

-----------------------------------------------------------------------------
(* The channels *)

LEMMA Extended ==
  ASSUME NEW S, NEW s \in Seq(S), NEW e \in S
  PROVE  /\ Append(s, e) \in Seq(S) /\ DOMAIN Append(s, e) = DOMAIN s \cup {Len(s) + 1}
         /\ Append(s, e)[Len(s) + 1] = e /\ \A i \in DOMAIN s : i < Len(s) + 1 /\ Append(s, e)[i] = s[i]
         /\ Len(s) + 1 \notin DOMAIN s /\ DOMAIN s \subseteq Nat /\ Len(s) \in Nat
<1>1. Len(s) \in Nat /\ DOMAIN s = 1 .. Len(s)
  BY LenProperties
<1>2. /\ Append(s, e) \in Seq(S) /\ Len(Append(s, e)) = Len(s) + 1
      /\ \A i \in 1 .. Len(s) : Append(s, e)[i] = s[i]
      /\ Append(s, e)[Len(s) + 1] = e
  BY AppendProperties
<1>3. DOMAIN Append(s, e) = 1 .. Len(s) + 1
  BY <1>2, LenProperties
<1> QED
  BY <1>1, <1>2, <1>3

\* A message request goes into the channel: the caller waits for its number,
\* or returns.
LEMMA OutboundSent ==
  ASSUME HInv, NEW c \in Callers, mpsc_send(c), callers[c].op \in Outbound
  PROVE  HInv'
<1> USE DEF HInv
<1> DEFINE q == callers[c]
           e == [op |-> q.op, from |-> c, n |-> q.n]
           r == callers'[c]
           k == Len(Queue) + 1
<1>1. q \in CallerRecord /\ q.n \in Nat /\ q.pc = "sending" /\ ~Gone /\ q.told = Nothing /\ q.reconnect \in BOOLEAN
  BY Typing DEF mpsc_send, Queued, Calling, CallerRecord
<1>2. Channel(q.op) = "outbound" /\ Request(c) = e
  BY DEF Channel, Outbound, Request
<1>3. requests' = [requests EXCEPT !.outbound = Append(@, e)] /\ UNCHANGED <<engine, stored, shut>>
  BY <1>2, Zenon DEF mpsc_send, Queued
<1>4. e \in OutboundRecord /\ e.op = q.op /\ e.from = c /\ e.n = q.n
  BY <1>1 DEF OutboundRecord
<1> HIDE DEF e
<1>5. Queue' = Append(Queue, e) /\ requests'.admin = requests.admin
  BY <1>3 DEF Queue, HTyped, RequestsRecord
<1>6. /\ Queue' \in Seq(OutboundRecord) /\ DOMAIN Queue' = DOMAIN Queue \cup {k}
      /\ Queue'[k] = e /\ \A i \in DOMAIN Queue : i < k /\ Queue'[i] = Queue[i]
      /\ k \notin DOMAIN Queue /\ DOMAIN Queue \subseteq Nat /\ k \in Nat
  BY <1>4, <1>5, Typing, Extended
<1> HIDE DEF k
<1>7. requests' \in RequestsRecord
  BY <1>3, <1>5, <1>6, Zenon DEF Queue, HTyped, RequestsRecord
\* The caller
<1>8. /\ callers' = [callers EXCEPT ![c] = r] /\ r \in CallerRecord /\ r.n = q.n /\ r.op = q.op
      /\ \/ q.op = "send" /\ r.pc = "waiting" /\ r.told = Nothing
         \/ q.op = "send_forget" /\ r.pc = "idle" /\ r.told = Told("Ok")
  <2>1. CASE q.op = "send"
    <3>1. callers' = [callers EXCEPT ![c].pc = "waiting"]
      BY <2>1 DEF mpsc_send
    <3>2. callers' = [callers EXCEPT ![c] = [q EXCEPT !.pc = "waiting"]] /\ r = [q EXCEPT !.pc = "waiting"]
      BY <3>1 DEF HTyped
    <3> HIDE DEF q, r, HInv
    <3>3. r \in CallerRecord
      BY <1>1, <3>2 DEF CallerRecord
    <3>4. r.n = q.n /\ r.op = q.op /\ r.pc = "waiting" /\ r.told = q.told
      BY <1>1, <3>2 DEF CallerRecord
    <3> QED
      BY <1>1, <2>1, <3>2, <3>3, <3>4
  <2>2. CASE q.op = "send_forget"
    <3>1. Returns(c, Told("Ok"))
      BY <2>2 DEF mpsc_send
    <3>2. callers' = [callers EXCEPT ![c] = Returned(q, Told("Ok"))] /\ r = Returned(q, Told("Ok"))
      BY <3>1, ReturnsWhat DEF HTyped
    <3>3. Told("Ok") \in ToldRecord
      BY ToldTypes DEF Kinds
    <3>4. r \in CallerRecord /\ r.n = q.n /\ r.op = q.op /\ r.pc = "idle" /\ r.told = Told("Ok")
      BY <1>1, <3>2, <3>3, ReturnedFacts
    <3> QED
      BY <2>2, <3>2, <3>4, Zenon
  <2> QED
    BY <2>1, <2>2 DEF Outbound
<1> HIDE DEF r
<1>9. callers'[c] = r /\ \A d \in Callers : d # c => callers'[d] = callers[d]
  BY <1>8 DEF HTyped
<1>10. r.told.kind \notin NotStored \cup {"Sent"}
  BY <1>8, ToldTypes DEF NotStored, Kinds
<1>11. \A i \in DOMAIN Queue : Queue[i].from = c => Queue[i].n < q.n
  BY <1>1, Typing DEF OwnRequest
<1>12. \A i \in DOMAIN stored : stored[i].from = c => stored[i].n < q.n
  BY <1>1, Typing DEF Unstored
<1>13. HTyped'
  BY <1>3, <1>7, <1>8 DEF HTyped
<1>14. Calling'
  BY <1>8, <1>9 DEF Calling
<1>15. InLine'
  <2>1. ASSUME NEW i \in DOMAIN Queue', NEW j \in DOMAIN Queue', i < j, Queue'[i].from = Queue'[j].from
        PROVE  Queue'[i].n < Queue'[j].n
    <3>1. i \in DOMAIN Queue
      BY <1>6, <2>1
    <3>2. CASE j = k
      BY <1>4, <1>6, <1>11, <2>1, <3>1, <3>2
    <3>3. CASE j # k
      BY <1>6, <2>1, <3>1, <3>3 DEF InLine
    <3> QED
      BY <3>2, <3>3
  <2>2. ASSUME NEW i \in DOMAIN stored, NEW j \in DOMAIN Queue', stored[i].from = Queue'[j].from
        PROVE  stored[i].n < Queue'[j].n
    BY <1>4, <1>6, <1>12, <2>2 DEF InLine
  <2> QED
    BY <1>3, <2>1, <2>2 DEF InLine
<1>16. OwnRequest' /\ Answered'
  <2>1. ASSUME NEW i \in DOMAIN Queue'
        PROVE  LET z == callers'[Queue'[i].from] IN
               /\ Queue'[i].n <= z.n
               /\ Queue'[i].n = z.n => Queue'[i].op = z.op /\ z.pc # "sending"
               /\ z.told.kind \in NotStored \cup {"Sent"} => Queue'[i].n < z.n
    <3>1. CASE i = k
      BY <1>1, <1>4, <1>6, <1>8, <1>9, <1>10, <3>1, SMTT(20)
    <3>2. CASE i # k /\ Queue[i].from = c
      <4>1. Queue'[i] = Queue[i] /\ Queue[i].n \in Nat /\ Queue[i].n < q.n
        BY <1>6, <1>11, <3>2, Typing
      <4> QED
        BY <1>1, <1>8, <1>9, <3>2, <4>1
    <3>3. CASE i # k /\ Queue[i].from # c
      BY <1>6, <1>9, <3>3, Typing, ZenonT(30) DEF OwnRequest, Answered
    <3> QED
      BY <3>1, <3>2, <3>3
  <2> QED
    BY <2>1, SMTT(20) DEF OwnRequest, Answered
<1>17. Unstored'
  BY <1>3, <1>8, <1>9, <1>12, Typing DEF Unstored
<1>18. Numbered' /\ Closed' /\ Ended' /\ QuietAfterShutdown'
  BY <1>1, <1>3 DEF Numbered, Closed, Gone, Ended, QuietAfterShutdown, Stopped
<1>19. AnswersAreTrue'
  <2>1. ASSUME NEW d \in Callers PROVE TrueOf(d)'
    <3>1. CASE d = c
      BY <1>9, <1>10, <3>1 DEF TrueOf
    <3>2. CASE d # c
      BY <1>3, <1>9, <3>2, AnswersSplit DEF TrueOf, OfCall
    <3> QED
      BY <3>1, <3>2
  <2>2. StoredInOrder'
    BY <1>3, AnswersSplit DEF StoredInOrder
  <2> QED
    BY <2>1, <2>2, AnswersSplitNext
<1> QED
  BY <1>13, <1>14, <1>15, <1>16, <1>17, <1>18, <1>19

\* An admin request goes into its channel.
LEMMA AdminSent ==
  ASSUME HInv, NEW c \in Callers, mpsc_send(c), callers[c].op \notin Outbound
  PROVE  HInv'
<1> DEFINE q == callers[c]
<1>1. /\ q \in CallerRecord /\ q.n \in Nat /\ q.pc = "sending" /\ ~Gone /\ q.told = Nothing
      /\ q.op \in Ops \ (Outbound \cup {"none"}) /\ q.reconnect \in BOOLEAN
  BY Typing DEF HInv, mpsc_send, Queued, Calling, CallerRecord
<1>2. Channel(q.op) = "admin"
  BY DEF Channel, Outbound
<1>3. requests' = [requests EXCEPT !.admin = Append(@, Request(c))] /\ UNCHANGED <<engine, stored, shut>>
  BY <1>2, Zenon DEF mpsc_send, Queued
<1>4. Request(c) \in AdminRecord
  <2>1. CASE q.op = "reset"
    BY <2>1 DEF Request, AdminRecord
  <2>2. CASE q.op \in {"shutdown", "shutdown_and_wait"}
    <3>1. Request(c) = [op |-> "shutdown", reconnect |-> q.reconnect]
      BY <2>2 DEF Request
    <3> QED
      BY <1>1, <3>1 DEF AdminRecord
  <2>3. CASE q.op \in {"info", "set_target"}
    <3>1. Request(c) = [op |-> q.op, from |-> c, n |-> q.n]
      BY <2>3 DEF Request
    <3> QED
      BY <1>1, <2>3, <3>1 DEF AdminRecord
  <2> QED
    BY <1>1, <2>1, <2>2, <2>3 DEF Ops, Outbound
<1>5. QueueKept
  <2>1. requests \in RequestsRecord /\ requests.admin \in Seq(AdminRecord)
    BY Typing DEF HInv, HTyped
  <2>2. Append(requests.admin, Request(c)) \in Seq(AdminRecord)
    BY <1>4, <2>1, AppendProperties
  <2>3. requests' \in RequestsRecord /\ Queue' = Queue
    BY <1>3, <2>1, <2>2, Zenon DEF RequestsRecord, Queue
  <2> QED
    BY <1>1, <1>3, <2>3 DEF QueueKept, Closed, Gone
<1>6. shut' \in BOOLEAN /\ (shut' => Stopped)
  BY <1>3 DEF HInv, HTyped, Ended
<1>7. \A i \in DOMAIN Queue : Queue[i].from = c => Queue[i].n < q.n /\ Queue[i].n # q.n
  BY <1>1, Typing DEF HInv, OwnRequest
<1>8. CASE q.op \in {"info", "set_target"}
  <2> DEFINE r == [q EXCEPT !.pc = "waiting"]
  <2>1. callers' = [callers EXCEPT ![c] = r]
    <3>1. callers' = [callers EXCEPT ![c].pc = "waiting"]
      BY <1>8 DEF mpsc_send
    <3> QED
      BY <3>1 DEF HInv, HTyped
  <2>2. r \in CallerRecord /\ r.n = q.n /\ r.op = q.op /\ r.pc = "waiting" /\ r.told = Nothing /\ q.n <= r.n
    BY <1>1 DEF CallerRecord
  <2> HIDE DEF r
  <2>3. Fits(c, r)
    BY <1>1, <1>7, <1>8, <2>2, ToldTypes DEF Fits, Outbound, NotStored
  <2> QED
    BY <1>3, <1>5, <1>6, <2>1, <2>3, OneCaller, Zenon
<1>9. CASE q.op = "shutdown_and_wait"
  <2> DEFINE r == [q EXCEPT !.pc = "completing", !.reconnect = FALSE]
  <2>1. callers' = [callers EXCEPT ![c] = r]
    <3>1. callers' = [callers EXCEPT ![c].pc = "completing", ![c].reconnect = FALSE]
      BY <1>9 DEF mpsc_send
    <3> QED
      BY <1>1, <3>1, Zenon DEF HInv, HTyped
  <2>2. r \in CallerRecord /\ r.n = q.n /\ r.op = q.op /\ r.pc = "completing" /\ r.told = Nothing /\ q.n <= r.n
    <3> HIDE DEF q
    <3>1. r \in CallerRecord
      BY <1>1, Zenon DEF CallerRecord
    <3>2. r.n = q.n /\ r.op = q.op /\ r.pc = "completing" /\ r.told = q.told
      BY <1>1 DEF CallerRecord
    <3> QED
      BY <1>1, <3>1, <3>2
  <2> HIDE DEF r
  <2>3. Fits(c, r)
    BY <1>1, <1>7, <1>9, <2>2, ToldTypes DEF Fits, Outbound, NotStored
  <2> QED
    BY <1>3, <1>5, <1>6, <2>1, <2>3, OneCaller, Zenon
<1>10. CASE q.op \in {"reset", "shutdown"}
  <2>1. Returns(c, Told("Ok"))
    BY <1>10 DEF mpsc_send
  <2>2. Told("Ok") \in ToldRecord
    BY ToldTypes DEF Kinds
  <2> QED
    BY <1>1, <1>3, <1>5, <1>6, <2>1, <2>2, ReturnKeeps
<1> QED
  BY <1>1, <1>8, <1>9, <1>10 DEF Ops, Outbound

\* The remaining steps of a caller
LEMMA CallerKeeps ==
  ASSUME HInv, NEW c \in Callers, CallerStep(c)
  PROVE  HInv'
<1>0. shut \in BOOLEAN /\ (shut => Stopped)
  BY DEF HInv, HTyped, Ended
<1>1. ASSUME NEW op \in Ops \ {"none"}, NEW reconnect \in BOOLEAN, Calls(c, op, reconnect)
      PROVE  HInv'
  BY <1>1, CallsKeeps
<1>2. CASE InitiatorCalls(c) \/ HttpSessionController(c) \/ set_next_target_seq_num(c)
  <2>1. \E op \in Ops \ {"none"}, reconnect \in BOOLEAN : Calls(c, op, reconnect)
    BY <1>2, Zenon DEF InitiatorCalls, HttpSessionController, set_next_target_seq_num, send, send_forget,
                initiator_shutdown, get_session_info, request_reset_on_next_logon, handle_shutdown, Ops
  <2> QED
    BY <1>1, <2>1
<1>3. CASE mpsc_send(c)
  BY <1>3, OutboundSent, AdminSent
<1>4. ASSUME NEW told \in ToldRecord, Returns(c, told), callers[c].pc # "idle",
             UNCHANGED <<requests, engine, stored>>, shut' \in BOOLEAN, shut' => Stopped,
             \/ told.kind \notin NotStored \cup {"Sent"}
             \/ told.kind # "Sent" /\ Gone
             \/ callers[c].op \notin Outbound
      PROVE  HInv'
  <2>1. QueueKept
    BY <1>4, QueueUntouched DEF Gone
  <2> QED
    BY <1>4, <2>1, ReturnKeeps
<1>5. CASE session_gone(c)
  <2>1. Told("SessionGone") \in ToldRecord /\ Told("SessionGone").kind = "SessionGone"
    BY ToldTypes DEF Kinds, NotStored
  <2> QED
    BY <1>0, <1>4, <1>5, <2>1 DEF session_gone
<1>6. CASE wait_for_shutdown(c)
  <2>1. Told("Ok") \in ToldRecord /\ Told("Ok").kind = "Ok"
    BY ToldTypes DEF Kinds
  <2> QED
    BY <1>4, <1>6, <2>1 DEF wait_for_shutdown, NotStored
<1>7. CASE shutdown_timeout(c)
  <2>1. Told("SessionGone") \in ToldRecord
    BY ToldTypes DEF Kinds, NotStored
  <2>2. callers[c].op \notin Outbound /\ callers[c].pc # "idle"
    BY <1>7 DEF shutdown_timeout, HInv, Calling, Outbound
  <2> QED
    BY <1>0, <1>4, <1>7, <2>1, <2>2 DEF shutdown_timeout
<1>8. CASE cancel(c)
  <2>1. Nothing \in ToldRecord /\ Nothing.kind = "none"
    BY ToldTypes
  <2> QED
    BY <1>0, <1>4, <1>8, <2>1 DEF cancel, NotStored
<1> QED
  BY <1>2, <1>3, <1>5, <1>6, <1>7, <1>8 DEF CallerStep

-----------------------------------------------------------------------------
(* run_session *)

LEMMA AdminKeeps ==
  ASSUME HInv, handle_admin_request
  PROVE  HInv'
<1> DEFINE h == Head(requests.admin)
<1>1. /\ ~Gone /\ requests.admin # << >> /\ requests' = [requests EXCEPT !.admin = Tail(@)]
      /\ UNCHANGED <<stored, shut>>
  BY DEF handle_admin_request
<1>2. requests.admin \in Seq(AdminRecord) /\ requests \in RequestsRecord /\ engine \in EngineRecord
  BY Typing DEF HInv, HTyped
<1>3. h \in AdminRecord /\ Tail(requests.admin) \in Seq(AdminRecord)
  BY <1>1, <1>2, HeadTailProperties
<1>4. requests' \in RequestsRecord /\ Queue' = Queue
  BY <1>1, <1>2, <1>3, SMTT(20) DEF RequestsRecord, Queue
<1>5. ~Gone' => QueueKept
  BY <1>4 DEF QueueKept, Closed
<1>6. shut' \in BOOLEAN /\ (shut' => Stopped)
  BY <1>1 DEF HInv, HTyped, Ended
<1>7. ASSUME UNCHANGED <<callers, engine>> PROVE HInv'
  <2>1. EngineStep(engine')
    BY <1>2, <1>7 DEF EngineStep, EngineRecord, HInv, Ended
  <2> QED
    BY <1>1, <1>5, <1>7, <2>1, EngineKeeps DEF Gone
<1>8. ASSUME NEW kind \in {"Info", "Ok", "Store", "InvalidState"}, Replied(h, Told(kind)), UNCHANGED engine,
             h.from \in Callers
      PROVE  HInv'
  <2>1. CASE UNCHANGED callers
    BY <1>7, <1>8, <2>1
  <2>2. CASE Returns(h.from, Told(kind)) /\ callers[h.from].pc = "waiting"
    <3>1. Told(kind) \in ToldRecord /\ Told(kind).kind \notin NotStored \cup {"Sent"}
      BY ToldTypes DEF Kinds, NotStored
    <3> QED
      BY <1>1, <1>5, <1>6, <1>8, <2>2, <3>1, ReturnKeeps DEF Gone
  <2> QED
    BY <1>8, <2>1, <2>2 DEF Replied
<1> HIDE DEF h
<1>9. CASE h.op = "shutdown" /\ engine' \in initiate_graceful_logout(engine, h.reconnect) /\ UNCHANGED callers
  <2>1. h.reconnect \in BOOLEAN
    BY <1>3, <1>9 DEF AdminRecord
  <2>2. EngineStep(engine') /\ ~Gone'
    BY <1>1, <1>9, <2>1, LogoutStep DEF Gone
  <2> QED
    BY <1>1, <1>5, <1>9, <2>2, EngineKeeps
<1>10. CASE h.op = "info" /\ Replied(h, Told("Info")) /\ UNCHANGED engine
  <2>1. h.from \in Callers
    BY <1>3, <1>10 DEF AdminRecord
  <2> QED
    BY <1>8, <1>10, <2>1
<1>11. CASE h.op = "set_target" /\ (\E kind \in try_set_next_target_seq_num(engine) : Replied(h, Told(kind)))
            /\ UNCHANGED engine
  <2>1. h.from \in Callers
    BY <1>3, <1>11 DEF AdminRecord
  <2>2. try_set_next_target_seq_num(engine) \subseteq {"Info", "Ok", "Store", "InvalidState"}
    BY DEF try_set_next_target_seq_num
  <2> QED
    BY <1>8, <1>11, <2>1, <2>2
<1> QED
  BY <1>7, <1>9, <1>10, <1>11 DEF handle_admin_request, h

\* Taken from the channel, answered, and put into the store or not.
LEMMA SendFacts ==
  ASSUME NEW e \in EngineRecord, e.status # "Gone", NEW p \in send_app_message(e)
  PROVE  /\ Onward(e, p.engine)
         /\ p.filed \in BOOLEAN
         /\ p.filed => p.engine.number = e.number + 1 /\ e.status # "Disconnected"
         /\ \/ p.told = SentAs(e.number) /\ p.filed
            \/ p.told = Told("Persist")
            \/ p.told.kind \in NotStored /\ p.told \in ToldRecord /\ ~p.filed
<1>1. CASE ~is_connected(e)
  <2>1. p.told = Told("Disconnected") /\ p.engine = e /\ p.filed = FALSE
    <3>1. p = Result(Told("Disconnected"), e, FALSE)
      BY <1>1, Zenon DEF send_app_message
    <3> QED
      BY <3>1, Zenon DEF Result
  <2>2. Told("Disconnected") \in ToldRecord /\ Told("Disconnected").kind = "Disconnected"
    BY ToldTypes DEF Kinds, NotStored
  <2> QED
    <3>1. Onward(e, e) /\ "Disconnected" \in NotStored
      BY DEF Onward, EngineRecord, NotStored
    <3> QED
      BY <2>1, <2>2, <3>1, Zenon
<1>2. CASE is_connected(e) /\ p \in prepare_message(e)
  <2>1. \A kind \in NotStored : Told(kind) \in ToldRecord /\ Told(kind).kind \in NotStored
    BY ToldTypes DEF Kinds
  <2>2. "SequenceNumber" \in NotStored
    BY DEF NotStored
  <2>3. e.status # "Disconnected"
    BY <1>2 DEF is_connected
  <2> QED
    BY <1>2, <2>1, <2>2, <2>3, PreparedFacts
<1>3. CASE is_connected(e) /\ p \notin prepare_message(e)
  <2>1. \A kind \in NotStored : Told(kind) \in ToldRecord /\ Told(kind).kind \in NotStored
    BY ToldTypes DEF Kinds
  <2>2. PICK kind \in {"Dropped", "SessionTerminated"} : p.told = Told(kind) /\ p.engine = e /\ p.filed = FALSE
    <3>1. PICK kind \in {"Dropped", "SessionTerminated"} : p = Result(Told(kind), e, FALSE)
      BY <1>3, Zenon DEF send_app_message
    <3> QED
      BY <3>1, Zenon DEF Result
  <2>3. kind \in NotStored
    BY DEF NotStored
  <2> QED
    <3>1. Onward(e, e)
      BY DEF Onward, EngineRecord
    <3> QED
      BY <2>1, <2>2, <2>3, <3>1, Zenon
<1> QED
  BY <1>1, <1>2, <1>3 DEF send_app_message

LEMMA OutboundKeeps ==
  ASSUME HInv, handle_outbound_message
  PROVE  HInv'
<1> USE DEF HInv
<1> DEFINE k == Len(stored) + 1
<1>0. PICK h : h = Head(Queue)
  OBVIOUS
<1>1. /\ ~Gone /\ Queue # << >> /\ requests' = [requests EXCEPT !.outbound = Tail(@)] /\ UNCHANGED shut
      /\ requests \in RequestsRecord /\ engine \in EngineRecord /\ engine.number \in Nat
      /\ Queue \in Seq(OutboundRecord)
  BY Typing DEF handle_outbound_message, Queue, HTyped
<1>2. PICK p \in send_app_message(engine) :
         /\ engine' = p.engine
         /\ stored' = IF p.filed THEN Append(stored, Entry_(h, engine.number)) ELSE stored
         /\ IF h.op = "send" THEN Replied(h, p.told) ELSE UNCHANGED callers
  BY <1>0 DEF handle_outbound_message, Queue
\* The channel
<1>3. /\ Tail(Queue) \in Seq(OutboundRecord) /\ Len(Tail(Queue)) = Len(Queue) - 1 /\ Len(Queue) \in Nat \ {0}
      /\ h = Queue[1] /\ h \in OutboundRecord
      /\ \A i \in 1 .. Len(Tail(Queue)) : Tail(Queue)[i] = Queue[i + 1]
      /\ DOMAIN Tail(Queue) = 1 .. Len(Queue) - 1
  BY <1>0, <1>1, HeadTailProperties, EmptySeq, LenProperties
<1>4. Queue' = Tail(Queue) /\ requests' \in RequestsRecord /\ requests'.admin = requests.admin
  BY <1>1, <1>3, Zenon DEF RequestsRecord, Queue
<1>5. /\ 1 \in DOMAIN Queue /\ h = Queue[1]
      /\ \A i \in DOMAIN Queue' : i + 1 \in DOMAIN Queue /\ Queue'[i] = Queue[i + 1] /\ 1 < i + 1 /\ i \in Nat
  BY <1>3, <1>4, Typing
<1>6. h.from \in Callers /\ h.op \in Outbound /\ h.n \in Nat
  BY <1>3 DEF OutboundRecord
<1>7. \A i \in DOMAIN Queue' : Queue'[i].from = h.from => h.n < Queue'[i].n
  BY <1>5 DEF InLine
<1>8. \A i \in DOMAIN stored : stored[i].from = h.from => stored[i].n < h.n
  BY <1>5 DEF InLine
<1>9. /\ h.n <= callers[h.from].n
      /\ h.n = callers[h.from].n => h.op = callers[h.from].op /\ callers[h.from].pc # "sending"
      /\ callers[h.from].told.kind \in NotStored \cup {"Sent"} => h.n < callers[h.from].n
  BY <1>5 DEF OwnRequest, Answered
\* The answer and the engine
<1>10. /\ Onward(engine, engine') /\ p.told \in ToldRecord
       /\ p.filed \in BOOLEAN
       /\ p.filed => engine'.number = engine.number + 1 /\ engine.status # "Disconnected"
       /\ p.told.kind = "Sent" => p.filed /\ p.told.number = engine.number
       /\ p.told.kind \in NotStored => ~p.filed
  <2>1. /\ Onward(engine, p.engine) /\ p.filed \in BOOLEAN
        /\ p.filed => p.engine.number = engine.number + 1 /\ engine.status # "Disconnected"
        /\ \/ p.told = SentAs(engine.number) /\ p.filed
           \/ p.told = Told("Persist")
           \/ p.told.kind \in NotStored /\ p.told \in ToldRecord /\ ~p.filed
    BY <1>1, <1>2, SendFacts DEF Gone
  <2>2. /\ SentAs(engine.number) \in ToldRecord /\ SentAs(engine.number).kind = "Sent"
        /\ SentAs(engine.number).number = engine.number
        /\ Told("Persist") \in ToldRecord /\ Told("Persist").kind = "Persist"
    BY <1>1, ToldTypes DEF Kinds, SentAs, Told
  <2> QED
    BY <1>2, <2>1, <2>2 DEF NotStored
\* The store
<1>11. \/ /\ p.filed /\ stored' \in Seq(EntryRecord) /\ DOMAIN stored' = DOMAIN stored \cup {k}
          /\ stored'[k].from = h.from /\ stored'[k].n = h.n /\ stored'[k].number = engine.number
          /\ stored'[k].late = shut
          /\ \A i \in DOMAIN stored : i < k /\ stored'[i] = stored[i]
          /\ k \notin DOMAIN stored /\ DOMAIN stored \subseteq Nat /\ k \in Nat
       \/ ~p.filed /\ stored' = stored
  <2>1. CASE p.filed
    <3> DEFINE e == Entry_(h, engine.number)
    <3>1. /\ e \in EntryRecord /\ e.from = h.from /\ e.n = h.n /\ e.number = engine.number /\ e.late = shut
      BY <1>1, <1>6 DEF Entry_, EntryRecord, HTyped
    <3>2. stored' = Append(stored, e) /\ stored \in Seq(EntryRecord)
      BY <1>2, <2>1 DEF HTyped
    <3> HIDE DEF e
    <3>4. /\ Append(stored, e) \in Seq(EntryRecord) /\ DOMAIN Append(stored, e) = DOMAIN stored \cup {Len(stored) + 1}
          /\ Append(stored, e)[Len(stored) + 1] = e
          /\ \A i \in DOMAIN stored : i < Len(stored) + 1 /\ Append(stored, e)[i] = stored[i]
          /\ Len(stored) + 1 \notin DOMAIN stored /\ DOMAIN stored \subseteq Nat /\ Len(stored) \in Nat
      BY <3>1, <3>2, Extended
    <3> QED
      BY <2>1, <3>1, <3>2, <3>4
  <2>2. CASE ~p.filed
    BY <1>2, <2>2
  <2> QED
    BY <2>1, <2>2
<1> HIDE DEF k
\* The caller
<1> DEFINE replied == h.op = "send" /\ callers[h.from].pc = "waiting" /\ callers[h.from].n = h.n
           r == callers'[h.from]
<1>12. \/ ~replied /\ callers' = callers
       \/ /\ replied /\ callers' = [callers EXCEPT ![h.from] = r] /\ r \in CallerRecord
          /\ r.pc = "idle" /\ r.n = h.n /\ r.op = "send" /\ r.told = p.told
  <2>1. CASE ~replied
    BY <1>2, <2>1 DEF Replied
  <2>2. CASE replied
    <3>1. callers' = [callers EXCEPT ![h.from] = Returned(callers[h.from], p.told)]
      BY <1>2, <2>2, ReturnsWhat DEF Replied
    <3>2. r = Returned(callers[h.from], p.told)
      BY <1>6, <3>1 DEF HTyped
    <3>3. callers[h.from].op = "send" /\ callers[h.from] \in CallerRecord /\ callers[h.from].n = h.n
      BY <1>6, <1>9, <2>2, Typing, SMTT(20)
    <3>4. r \in CallerRecord /\ r.pc = "idle" /\ r.n = h.n /\ r.op = "send" /\ r.told = p.told
      BY <1>10, <3>2, <3>3, ReturnedFacts DEF Outbound
    <3> QED
      BY <2>2, <3>1, <3>2, <3>4, Zenon
  <2> QED
    BY <2>1, <2>2, SMTT(20)
<1> HIDE DEF r
<1>13. /\ \A c \in Callers : c # h.from => callers'[c] = callers[c]
       /\ callers'[h.from] = IF replied THEN r ELSE callers[h.from]
       /\ callers' \in [Callers -> CallerRecord]
       /\ \A c \in Callers : callers'[c].n = callers[c].n /\ callers'[c].op = callers[c].op
  BY <1>6, <1>9, <1>12 DEF HTyped
<1>20. HTyped'
  BY <1>1, <1>4, <1>10, <1>11, <1>13, SMTT(20) DEF HTyped, Onward
<1>21. Calling'
  BY <1>6, <1>12, <1>13 DEF Calling
<1>22. InLine'
  <2>1. \A i, j \in DOMAIN Queue' : i < j /\ Queue'[i].from = Queue'[j].from => Queue'[i].n < Queue'[j].n
    BY <1>5 DEF InLine
  <2>2. \A i \in DOMAIN stored', j \in DOMAIN Queue' :
           stored'[i].from = Queue'[j].from => stored'[i].n < Queue'[j].n
    BY <1>5, <1>7, <1>11, SMTT(20) DEF InLine
  <2> QED
    BY <2>1, <2>2 DEF InLine
<1>23. OwnRequest' /\ Answered'
  <2>1. ASSUME NEW i \in DOMAIN Queue'
        PROVE  LET z == callers'[Queue'[i].from] IN
               /\ Queue'[i].n <= z.n
               /\ Queue'[i].n = z.n => Queue'[i].op = z.op /\ z.pc # "sending"
               /\ z.told.kind \in NotStored \cup {"Sent"} => Queue'[i].n < z.n
    <3>1. i + 1 \in DOMAIN Queue /\ Queue'[i] = Queue[i + 1] /\ Queue'[i].from \in Callers /\ Queue'[i].n \in Nat
      BY <1>5, Typing, SMTT(20)
    <3>2. callers'[Queue'[i].from] = callers[Queue'[i].from]
      <4>1. CASE Queue'[i].from = h.from /\ replied
        <5>1. h.n < Queue'[i].n /\ Queue'[i].n <= callers[h.from].n /\ callers[h.from].n = h.n
          BY <1>7, <3>1, <4>1 DEF OwnRequest
        <5> QED
          BY <1>6, <3>1, <5>1
      <4> QED
        BY <1>12, <1>13, <3>1, <4>1
    <3> QED
      BY <3>1, <3>2, SMTT(20) DEF OwnRequest, Answered
  <2> QED
    BY <2>1 DEF OwnRequest, Answered
<1>24. Unstored'
  <2>1. ASSUME NEW i \in DOMAIN stored'
        PROVE  LET z == callers'[stored'[i].from] IN
               /\ stored'[i].n <= z.n
               /\ z.pc = "sending" \/ (z.pc = "waiting" /\ z.op = "send") => stored'[i].n < z.n
    <3>1. CASE i \in DOMAIN stored
      <4>1. stored'[i] = stored[i] /\ stored[i].from \in Callers /\ stored[i].n \in Nat
        BY <1>11, <3>1, Typing, Zenon
      <4>2. CASE callers'[stored[i].from] = callers[stored[i].from]
        BY <3>1, <4>1, <4>2, SMTT(20) DEF Unstored
      <4>3. CASE stored[i].from = h.from /\ callers'[h.from].pc = "idle"
        BY <1>13, <3>1, <4>1, <4>3, SMTT(20) DEF Unstored
      <4> QED
        BY <1>12, <1>13, <4>1, <4>2, <4>3, SMTT(20)
    <3>2. CASE i \notin DOMAIN stored
      <4>1. stored'[i].from = h.from /\ stored'[i].n = h.n
        BY <1>11, <3>2, SMTT(20)
      <4>2. h.n <= callers'[h.from].n /\ callers[h.from].n \in Nat
        BY <1>6, <1>9, <1>13, Typing, SMTT(20)
      <4>3. CASE replied
        BY <1>12, <1>13, <4>1, <4>2, <4>3, SMTT(20)
      <4>4. CASE ~replied
        <5>1. callers' = callers
          BY <1>12, <4>4
        <5>2. ASSUME callers[h.from].pc = "sending" \/ (callers[h.from].pc = "waiting" /\ callers[h.from].op = "send")
              PROVE  h.n # callers[h.from].n
          BY <1>9, <4>4, <5>2
        <5> QED
          BY <1>6, <4>1, <4>2, <5>1, <5>2, SMTT(20)
      <4> QED
        BY <4>3, <4>4
    <3> QED
      BY <3>1, <3>2, SMTT(20)
  <2> QED
    BY <2>1 DEF Unstored
<1>25. Numbered'
  <2>1. engine'.number \in Nat /\ engine.number <= engine'.number
    BY <1>10 DEF Onward, EngineRecord
  <2>2. CASE stored' = stored
    BY <1>1, <2>1, <2>2, Typing DEF Numbered
  <2>3. CASE p.filed
    <3>1. engine'.number = engine.number + 1
      BY <1>10, <2>3
    <3> QED
      BY <1>1, <1>11, <2>1, <2>3, <3>1, Typing DEF Numbered
  <2> QED
    BY <1>11, <2>2, <2>3
<1>26. Closed' /\ Ended'
  BY <1>1, <1>10 DEF Closed, Ended, Onward, Gone, Stopped
<1>27. QuietAfterShutdown'
  <2>1. engine'.loop = engine.loop
    BY <1>10 DEF Onward
  <2>2. CASE p.filed /\ shut
    <3>1. engine.loop = "untold"
      BY <1>1, <1>10, <2>2 DEF Ended, Stopped, Gone
    <3> QED
      BY <2>1, <3>1 DEF QuietAfterShutdown
  <2>3. CASE p.filed /\ ~shut
    BY <1>11, <2>1, <2>3 DEF QuietAfterShutdown
  <2>4. CASE ~p.filed
    BY <1>11, <2>1, <2>4 DEF QuietAfterShutdown
  <2> QED
    BY <2>2, <2>3, <2>4
<1>28. AnswersAreTrue'
  <2>1. StoredInOrder'
    <3>1. StoredInOrder
      BY AnswersSplit
    <3>2. CASE stored' = stored
      BY <3>1, <3>2 DEF StoredInOrder
    <3>3. CASE p.filed
      <4> SUFFICES ASSUME NEW i \in DOMAIN stored', NEW j \in DOMAIN stored', i < j
                   PROVE  /\ stored'[i].from = stored'[j].from => stored'[i].n < stored'[j].n
                          /\ stored'[i].number < stored'[j].number
        BY DEF StoredInOrder
      <4>1. i \in DOMAIN stored /\ stored'[i] = stored[i]
        BY <1>11, <3>3
      <4>2. CASE j \in DOMAIN stored
        BY <1>11, <3>1, <3>3, <4>1, <4>2 DEF StoredInOrder
      <4>3. CASE j = k
        BY <1>8, <1>11, <3>3, <4>1, <4>3, SMTT(20) DEF Numbered
      <4> QED
        BY <1>11, <3>3, <4>2, <4>3
    <3> QED
      BY <1>11, <3>2, <3>3
  <2>2. ASSUME NEW c \in Callers, callers'[c] = callers[c] PROVE TrueOf(c)'
    <3> DEFINE n == callers[c].n
    <3>1. TrueOf(c)
      BY AnswersSplit, SMTT(20)
    <3>2. ASSUME callers[c].told.kind \in NotStored \cup {"Sent"}
          PROVE  /\ OfCall(c, n)' = OfCall(c, n)
                 /\ \A i \in OfCall(c, n) : stored'[i] = stored[i]
      <4>1. ~(h.from = c /\ h.n = n)
        BY <1>6, <1>9, <3>2
      <4> QED
        BY <1>11, <2>2, <4>1 DEF OfCall
    <3> QED
      BY <2>2, <3>1, <3>2 DEF TrueOf
  <2>3. ASSUME replied PROVE TrueOf(h.from)'
    <3>1. callers'[h.from] = r /\ r.told = p.told /\ r.n = h.n
      BY <1>12, <1>13, <2>3
    <3>2. OfCall(h.from, h.n) = {}
      <4>1. \A i \in DOMAIN stored : stored[i].from = h.from => stored[i].n # h.n
        BY <1>6, <1>8, Typing
      <4> QED
        BY <4>1 DEF OfCall
    <3>3. CASE p.told.kind = "Sent"
      <4>1. OfCall(h.from, h.n)' = {k} /\ stored'[k].number = engine.number /\ p.told.number = engine.number
        BY <1>10, <1>11, <3>2, <3>3, SMTT(20) DEF OfCall
      <4> QED
        BY <3>1, <3>3, <4>1 DEF TrueOf, NotStored, OfCall
    <3>4. CASE p.told.kind \in NotStored
      <4>1. OfCall(h.from, h.n)' = {}
        BY <1>10, <1>11, <3>2, <3>4 DEF OfCall
      <4>2. p.told.kind # "Sent"
        BY <3>4 DEF NotStored
      <4> QED
        BY <3>1, <4>1, <4>2 DEF TrueOf, OfCall
    <3>5. CASE p.told.kind \notin NotStored \cup {"Sent"}
      BY <3>1, <3>5 DEF TrueOf
    <3> QED
      BY <3>3, <3>4, <3>5
  <2>4. \A c \in Callers : TrueOf(c)'
    BY <1>12, <1>13, <2>2, <2>3
  <2> QED
    BY <2>1, <2>4, AnswersSplitNext
<1> QED
  BY <1>20, <1>21, <1>22, <1>23, <1>24, <1>25, <1>26, <1>27, <1>28

-----------------------------------------------------------------------------
LEMMA HInitInv == HInit => HInv
<1> SUFFICES ASSUME HInit PROVE HInv
  OBVIOUS
<1>1. AtRest(0) \in CallerRecord /\ AtRest(0).pc = "idle" /\ AtRest(0).op = "none"
  BY ToldTypes DEF AtRest, CallerRecord, Ops
<1>2. callers \in [Callers -> CallerRecord] /\ \A c \in Callers : callers[c] = AtRest(0)
  BY <1>1 DEF HInit
<1>3. Queue = << >> /\ requests \in RequestsRecord /\ stored = << >> /\ shut = FALSE
  BY EmptySeq DEF HInit, Queue, RequestsRecord
<1>4. engine \in EngineRecord /\ engine.status = "Disconnected" /\ engine.loop = "await"
  BY DEF HInit, EngineRecord
<1>5. HTyped
  BY <1>2, <1>3, <1>4, EmptySeq, Zenon DEF HTyped
<1>6. Calling /\ InLine /\ OwnRequest /\ Unstored /\ Answered /\ Numbered
  <2>1. DOMAIN Queue = {} /\ DOMAIN stored = {}
    BY <1>3
  <2>2. Calling
    BY <1>1, <1>2, Zenon DEF Calling
  <2> QED
    BY <2>1, <2>2 DEF InLine, OwnRequest, Unstored, Answered, Numbered
<1>7. Closed /\ Ended /\ QuietAfterShutdown
  BY <1>3, <1>4 DEF Closed, Gone, Ended, QuietAfterShutdown
<1>8. AnswersAreTrue
  <2>1. DOMAIN stored = {}
    BY <1>3
  <2> QED
    BY <1>1, <1>2, <2>1 DEF AnswersAreTrue
<1> QED
  BY <1>5, <1>6, <1>7, <1>8 DEF HInv

(* The calls of SessionHandle and Initiator, the channels of session_ref.rs *)
(* and run_session keep HInv, whatever the callers do and however often.    *)
THEOREM HandlesInvariant == HandlesSpec => []HInv
<1>1. HInv /\ [HNext]_hvars => HInv'
  <2> SUFFICES ASSUME HInv, [HNext]_hvars PROVE HInv'
    OBVIOUS
  <2>1. CASE UNCHANGED hvars
    <3>1. UNCHANGED <<callers, requests, stored, shut>> /\ engine' = engine
      BY <2>1 DEF hvars
    <3>2. EngineStep(engine')
      BY <3>1 DEF EngineStep, HInv, HTyped, EngineRecord, Ended
    <3>3. QueueKept
      BY <3>1, QueueUntouched DEF Gone
    <3> QED
      BY <3>1, <3>2, <3>3, EngineKeeps
  <2>2. CASE HNext
    BY <2>2, CallerKeeps, OutboundKeeps, AdminKeeps, EventsKeep, EndsKeep DEF HNext
  <2> QED
    BY <2>1, <2>2
<1> QED
  BY <1>1, HInitInv, PTL DEF HandlesSpec

(* SessionHandle::send, handle_outbound_message: a caller told Sent has its *)
(* message in the store once, under the number it was told; one told of any *)
(* failure but Persist does not, and after Persist it may be there, once at *)
(* most; one caller's messages are stored in the order of its calls.        *)
THEOREM HandlesAnswers == HandlesSpec => []AnswersAreTrue
<1>1. HInv => AnswersAreTrue
  BY DEF HInv
<1> QED
  BY <1>1, HandlesInvariant, PTL

(* Initiator::shutdown: once it has returned Ok no message is stored, unless *)
(* the loop ended without the session's knowledge.                           *)
THEOREM HandlesQuiet == HandlesSpec => []QuietAfterShutdown
<1>1. HInv => QuietAfterShutdown
  BY DEF HInv
<1> QED
  BY <1>1, HandlesInvariant, PTL
=============================================================================
