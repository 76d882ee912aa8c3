------------------------ MODULE SessionSafetyProofs -------------------------
(***************************************************************************)
(* The safety invariants of module Session that are about more than one    *)
(* step: what is asked for and delivered, what a connection begins with,   *)
(* and when the connection loop stops.  SessionProofs says what each       *)
(* handler does to a session record; here each invariant is strengthened   *)
(* until those steps keep it.                                              *)
(***************************************************************************)
EXTENDS SessionProofs

-----------------------------------------------------------------------------
(* The resend requests written for one gap *)

\* The requests written since the target number last moved, in a step that has
\* come from o to s and started with a of them.
Tally(o, a, s) ==
    (IF s.resets \/ s.store.target # o.store.target THEN 0 ELSE a) + Cardinality(Of(s.out, "ResendRequest"))

\* How many there may be: what AwaitingResend has counted, if it is about the
\* number that is expected now, and none in a state that may open a gap.
Bounded(n, s) ==
    /\ s.state.st \in {"Active", "AwaitingLogon"} => n = 0
    /\ s.state.st = "AwaitingResend" =>
          /\ n <= s.state.attempts
          /\ s.state.begin # NextTarget(s) => n = 0
    /\ n <= MAX_RESEND_ATTEMPTS

\* ResendRequestsBounded, strengthened.
Asking == Bounded(hist.asked, session)

Quiet(s) == Of(s.out, "ResendRequest") = {}

Counted(o, a, s) == Sound(s) /\ Onward(o, s) /\ Bounded(Tally(o, a, s), s)

\* A change of state that opens no gap and closes none.
SameGap(a, b) ==
    /\ b.st \in {a.st, "Disconnected", "AwaitingLogout"} \/ (a.st = "AwaitingLogon" /\ b.st = "Active")
    /\ a.st = "AwaitingResend" /\ b.st = "AwaitingResend" => b.begin = a.begin /\ b.attempts = a.attempts

\* A handler that asks for nothing, delivering or not.
Unasking(s, t) ==
    /\ Moves(s, t)
    /\ Of(t.out, "ResendRequest") = Of(s.out, "ResendRequest")
    /\ SameGap(s.state, t.state)

\* The count of a session that has asked for nothing yet in this step.
LEMMA QuietTally ==
  ASSUME NEW o, NEW a \in Nat, NEW s, Quiet(s)
  PROVE  Tally(o, a, s) = IF s.resets \/ s.store.target # o.store.target THEN 0 ELSE a
  <1>1. Cardinality(Of(s.out, "ResendRequest")) = 0
    BY FS_EmptySet DEF Quiet
  <1> QED
    BY <1>1 DEF Tally

\* The numbers the bound compares.
LEMMA BoundTypes ==
  ASSUME NEW s, Sound(s)
  PROVE  /\ s.store.target \in Nat /\ s.resets \in BOOLEAN
         /\ s.state.st = "AwaitingResend" =>
               s.state.attempts \in 1 .. MAX_RESEND_ATTEMPTS /\ s.state.begin \in Nat
  <1>1. s.state \in State /\ s.store.target \in Nat /\ s.resets \in BOOLEAN
    BY FieldTypes DEF Sound, Session
  <1>2. s.state.st = "AwaitingResend" => s.state \in AwaitingResend
    BY <1>1, Variants
  <1> QED
    BY <1>1, <1>2 DEF Sound, Window, AwaitingResend

\* Asking for nothing keeps the bound.
LEMMA AskNothing ==
  ASSUME NEW o, NEW a \in Nat, NEW s, NEW t, Sound(o),
         Counted(o, a, s), Quiet(s), Unasking(s, t)
  PROVE  Counted(o, a, t) /\ Quiet(t)
  <1>1. Quiet(t)
    BY DEF Quiet, Unasking
  <1>2. Sound(s) /\ Sound(t) /\ Moves(o, s) /\ Moves(s, t)
    BY Weaker DEF Counted, Unasking, Moves
  <1>3. Onward(o, t)
    BY <1>2, Transitive DEF Moves
  <1>4. /\ Tally(o, a, s) = IF s.resets \/ s.store.target # o.store.target THEN 0 ELSE a
        /\ Tally(o, a, t) = IF t.resets \/ t.store.target # o.store.target THEN 0 ELSE a
    BY <1>1, QuietTally
  <1>5. o.store.target \in Nat /\ s.store.target \in Nat /\ t.store.target \in Nat
    BY <1>2, BoundTypes
  <1>6. CASE t.resets \/ t.store.target # o.store.target
    <2>1. Tally(o, a, t) = 0
      BY <1>4, <1>6
    <2> QED
      BY <1>1, <1>2, <1>3, <2>1, BoundTypes, SMTT(20) DEF Counted, Bounded, MAX_RESEND_ATTEMPTS
  <1>7. CASE ~t.resets /\ t.store.target = o.store.target
    <2>1. ~s.resets /\ s.store.target = t.store.target
      BY <1>2, <1>5, <1>7 DEF Moves, Onward
    <2>2. Tally(o, a, t) = Tally(o, a, s)
      BY <1>4, <1>7, <2>1
    <2>3. Bounded(Tally(o, a, s), s) /\ SameGap(s.state, t.state)
      BY DEF Counted, Unasking
    <2>4. NextTarget(t) = NextTarget(s)
      BY <2>1 DEF NextTarget
    <2> HIDE DEF Tally
    <2>5. Bounded(Tally(o, a, t), t)
      BY <2>2, <2>3, <2>4 DEF Bounded, SameGap
    <2> QED
      BY <1>1, <1>2, <1>3, <2>5 DEF Counted
  <1> QED
    BY <1>6, <1>7

\* A request is counted by the state it leads to.
LEMMA AskOnce ==
  ASSUME NEW o, NEW a \in Nat, NEW s, NEW t, Sound(o),
         Counted(o, a, s), Quiet(s), Requests(s, t)
  PROVE  Counted(o, a, t) /\ (t.err => Quiet(t))
  <1>1. t.err => Quiet(t)
    BY DEF Quiet, Requests
  <1>2. Sound(s) /\ Sound(t) /\ Moves(o, s) /\ Moves(s, t)
    BY Weaker, Zenon DEF Counted, Requests, Moves
  <1>3. Onward(o, t)
    BY <1>2, Transitive DEF Moves
  <1>4. Tally(o, a, s) = IF s.resets \/ s.store.target # o.store.target THEN 0 ELSE a
    BY QuietTally
  <1>5. Cardinality(Of(t.out, "ResendRequest")) \in {0, 1}
    <2>1. PICK k : Of(t.out, "ResendRequest") \subseteq Of(s.out, "ResendRequest") \cup {k}
      BY Zenon DEF Requests
    <2>2. Of(t.out, "ResendRequest") \in {{}, {k}}
      BY <2>1 DEF Quiet
    <2> QED
      BY <2>2, FS_EmptySet, FS_Singleton, Zenon
  <1>6. t.store.target = s.store.target /\ t.resets = s.resets
    BY DEF Requests
  <1>7. Tally(o, a, s) \in Nat /\ Tally(o, a, t) \in {Tally(o, a, s), Tally(o, a, s) + 1}
    BY <1>4, <1>5, <1>6 DEF Tally
  <1> HIDE DEF Tally
  <1>8. Bounded(Tally(o, a, s), s)
    BY DEF Counted
  <1>9. /\ s.state.st \in {"Active", "AwaitingLogon", "AwaitingResend"}
        /\ t.state.st = "AwaitingResend" /\ t.state.begin = NextTarget(s)
        /\ t.state.attempts = IF s.state.st = "AwaitingResend" /\ s.state.begin = NextTarget(s)
                              THEN s.state.attempts + 1 ELSE 1
    BY DEF Requests
  <1>10. NextTarget(t) = NextTarget(s)
    BY <1>6 DEF NextTarget
  <1>11. t.state.attempts \in 1 .. 3
    BY <1>2, <1>9, BoundTypes DEF MAX_RESEND_ATTEMPTS
  <1>12. s.state.st = "AwaitingResend" => s.state.attempts \in 1 .. 3
    BY <1>2, BoundTypes DEF MAX_RESEND_ATTEMPTS
  <1>13. Tally(o, a, t) <= t.state.attempts
    BY <1>7, <1>8, <1>9, <1>12 DEF Bounded
  <1>14. Bounded(Tally(o, a, t), t)
    BY <1>7, <1>9, <1>10, <1>11, <1>13, SMTT(20) DEF Bounded, MAX_RESEND_ATTEMPTS
  <1> QED
    BY <1>1, <1>2, <1>3, <1>14, SMTT(20) DEF Counted

\* The end of a gap: the requests were for a number that is past.
LEMMA AskReopens ==
  ASSUME NEW o, NEW a \in Nat, NEW s, NEW t, Sound(o), Counted(o, a, s), Reopens(s, t)
  PROVE  Counted(o, a, t) /\ (Quiet(s) => Quiet(t))
  <1>1. /\ t.out = s.out /\ t.store = s.store /\ t.resets = s.resets
        /\ s.state.st = "AwaitingResend" /\ t.state.st = "Active" /\ s.state.begin # NextTarget(s)
    BY Zenon DEF Reopens
  <1>2. Tally(o, a, t) = Tally(o, a, s)
    BY <1>1 DEF Tally
  <1>3. Sound(t) /\ Onward(o, t)
    BY <1>1, Weaker, Zenon DEF Reopens, Counted, Onward
  <1>4. Bounded(Tally(o, a, s), s)
    BY DEF Counted
  <1> HIDE DEF Tally
  <1>5. Tally(o, a, t) = 0
    BY <1>1, <1>2, <1>4 DEF Bounded
  <1>6. Bounded(Tally(o, a, t), t)
    BY <1>1, <1>5 DEF Bounded, MAX_RESEND_ATTEMPTS
  <1> QED
    BY <1>1, <1>3, <1>6 DEF Counted, Quiet

\* Whatever a message does keeps the bound.
LEMMA AskIncoming ==
  ASSUME NEW o, NEW a \in Nat, NEW s, NEW t, Sound(o),
         Counted(o, a, s), Quiet(s), Incoming(s, t)
  PROVE  Counted(o, a, t)
  <1>0. ASSUME NEW x, NEW y, Follows(x, y) \/ Delivers(x, y)
        PROVE  Unasking(x, y)
    BY <1>0, Weaker, Zenon DEF Unasking, SameGap, Milder, Follows, Calm, Delivers
  <1>1. PICK p, q, r : Handles(s, p, q, r, t)
    BY DEF Incoming
  <1>2. Counted(o, a, p) /\ Quiet(p)
    BY <1>0, <1>1, AskNothing DEF Handles
  <1>3. Counted(o, a, q) /\ (q.err => Quiet(q))
    <2>1. Results(p, q)
      BY <1>1 DEF Handles
    <2>2. CASE Follows(p, q) \/ Delivers(p, q)
      BY <1>0, <1>2, <2>2, AskNothing, SMTT(20)
    <2>3. CASE Requests(p, q)
      BY <1>2, <2>3, AskOnce, SMTT(20)
    <2> QED
      BY <2>1, <2>2, <2>3, SMTT(20) DEF Results
  <1>4. Counted(o, a, r) /\ (r.err => Quiet(r))
    <2>1. CASE r = q
      BY <1>3, <2>1
    <2>2. CASE Reopens(q, r)
      <3>1. r.err = q.err
        BY <2>2, Zenon DEF Reopens
      <3> QED
        BY <1>3, <2>2, <3>1, AskReopens, SMTT(20)
    <2> QED
      BY <1>1, <2>1, <2>2 DEF Handles
  <1>5. t = r \/ (r.err /\ Follows(r, t))
    BY <1>1 DEF Handles
  <1>6. CASE r.err /\ Follows(r, t)
    BY <1>0, <1>4, <1>6, AskNothing, SMTT(20)
  <1> QED
    BY <1>4, <1>5, <1>6

\* A step starts with what it was told, and has asked for nothing yet.
LEMMA AskBegun ==
  ASSUME SInv, Asking, NEW f \in Fault
  PROVE  Counted(begun(f), hist.asked, begun(f)) /\ Quiet(begun(f)) /\ hist.asked \in Nat
  <1>1. hist.asked \in Nat
    BY DEF SInv, TypeOK
  <1>2. Sound(begun(f)) /\ Moves(begun(f), begun(f))
    BY Begun, Reflexive, Weaker
  <1>3. Quiet(begun(f))
    <2>1. begun(f).out = << >>
      BY BegunFields, Zenon
    <2>2. DOMAIN << >> = {}
      OBVIOUS
    <2> QED
      BY <2>1, <2>2, Zenon DEF Quiet, Of
  <1>4. Tally(begun(f), hist.asked, begun(f)) = hist.asked
    <2>1. begun(f).resets = FALSE
      BY BegunFields, Zenon
    <2>2. PICK b : b = begun(f)
      OBVIOUS
    <2>3. Tally(b, hist.asked, b) = IF b.resets \/ b.store.target # b.store.target THEN 0 ELSE hist.asked
      BY <1>1, <1>3, <2>2, QuietTally, SMTT(20)
    <2> QED
      BY <2>1, <2>2, <2>3
  <1>5. Bounded(hist.asked, begun(f))
    BY BegunFields, Zenon DEF Asking, Bounded, NextTarget
  <1> QED
    BY <1>1, <1>2, <1>3, <1>4, <1>5, SMTT(20) DEF Counted, Moves

\* What was counted is what is observed.
LEMMA AskEnded ==
  ASSUME SInv, NEW f \in Fault, NEW s, Counted(begun(f), hist.asked, s), handled(s)
  PROVE  Asking'
  <1>1. session' = ended(s) /\ hist' = observe(hist, session, s, FALSE)
    BY DEF handled, concluded
  <1>2. hist'.asked = (IF s.resets \/ s.store.target # session.store.target THEN 0 ELSE hist.asked)
                         + Cardinality(Of(s.out, "ResendRequest"))
    BY <1>1 DEF observe, Count, Of
  <1>3. hist'.asked = Tally(begun(f), hist.asked, s)
    BY <1>2, BegunFields, Zenon DEF Tally
  <1>4. Sound(s) /\ Bounded(hist'.asked, s)
    BY <1>3 DEF Counted
  <1>5. session'.state = s.state /\ session'.store = s.store
    BY <1>1, <1>4, EndedFields, Zenon
  <1> QED
    BY <1>4, <1>5 DEF Asking, Bounded, NextTarget

\* The steps of the session task keep the bound.
LEMMA AskSession ==
  ASSUME SInv, Asking, SInv', SessionStep
  PROVE  Asking'
  <1>0. ASSUME NEW f \in FaultNow \cup {"none"}
        PROVE  /\ f \in Fault /\ Sound(begun(f)) /\ Sound(checked(f)) /\ Follows(begun(f), checked(f))
               /\ Counted(begun(f), hist.asked, begun(f)) /\ Quiet(begun(f)) /\ hist.asked \in Nat
    BY <1>0, StepBegins, AskBegun, SMTT(20)
  <1>1. CASE Ordinary
    <2>0. PICK f \in FaultNow \cup {"none"} : \E s : Incoming(begun(f), s) /\ handled(s)
      BY <1>1 DEF Ordinary
    <2>1. PICK s : Incoming(begun(f), s) /\ handled(s)
      BY <2>0
    <2>2. Counted(begun(f), hist.asked, s)
      BY <1>0, <2>1, AskIncoming
    <2> QED
      BY <1>0, <2>1, <2>2, AskEnded
  <1>2. CASE AwaitSchedule
    <2>1. PICK f \in FaultNow : handled(register_schedule_awaiter(checked(f)))
      BY <1>2 DEF AwaitSchedule
    <2> DEFINE c == checked(f)
               s == register_schedule_awaiter(c)
    <2>2. Counted(begun(f), hist.asked, c) /\ Quiet(c)
      <3>1. Unasking(begun(f), c)
        BY <1>0, Weaker, Zenon DEF Unasking, SameGap, Milder, Follows, Calm
      <3> QED
        BY <1>0, <3>1, AskNothing
    <2>3. Sound(c)
      BY <1>0
    <2> HIDE DEF c
    <2>4. Unasking(c, s)
      BY <2>3, RegisterAwaiter, Weaker, SMTT(20) DEF Unasking, SameGap
    <2>5. Counted(begun(f), hist.asked, s)
      BY <1>0, <2>2, <2>4, AskNothing, SMTT(20)
    <2> QED
      BY <1>0, <2>1, <2>5, AskEnded, SMTT(20) DEF c
  <1>3. CASE Connected
    <2>1. PICK f \in FaultNow : concluded(on_connect(checked(f)), TRUE)
      BY <1>3, Zenon DEF Connected
    <2> DEFINE s == on_connect(checked(f))
    <2>2. Of(s.out, "ResendRequest") = Of(begun(f).out, "ResendRequest") /\ Sound(s)
      BY <1>0, StepBegins, OnConnect, Weaker, Zenon DEF Follows, Calm
    <2>3. session' = ended(s) /\ hist' = observe(hist, session, s, TRUE)
      BY <2>1 DEF concluded
    <2> HIDE DEF s
    <2>4. hist'.asked = 0 + Cardinality(Of(s.out, "ResendRequest"))
      BY <2>3 DEF observe, Count, Of
    <2>5. hist'.asked = 0
      BY <1>0, <2>2, <2>4, FS_EmptySet, SMTT(20) DEF Quiet
    <2>6. Sound(session')
      BY <2>2, <2>3, Ended, SMTT(20) DEF Sound
    <2> QED
      BY <2>5, <2>6, BoundTypes DEF Asking, Bounded, MAX_RESEND_ATTEMPTS
  <1>4. CASE SetNextTarget
    <2>1. PICK f \in FaultNow, n \in Nat :
             /\ session' = ended(set_target(begun(f), n))
             /\ hist' = [hist EXCEPT !.last =
                           IF hist.last > set_target(begun(f), n).store.target
                           THEN set_target(begun(f), n).store.target ELSE hist.last]
      BY <1>4, SetNextTargetStep, ZenonT(30)
    <2>2. hist'.asked = hist.asked
      BY <2>1 DEF SInv, TypeOK
    <2>3. Sound(set_target(begun(f), n)) /\ set_target(begun(f), n).state = session.state
      <3>1. f \in Fault /\ Sound(begun(f))
        BY <1>0
      <3>2. begun(f).state = session.state
        BY <3>1, BegunFields, Zenon
      <3>3. Sound(set_target(begun(f), n)) /\ set_target(begun(f), n).state = begun(f).state
        BY <3>1, SetTarget
      <3> QED
        BY <3>2, <3>3
    <2>4. session'.state = session.state
      BY <2>1, <2>3, EndedFields, Zenon
    <2>5. session.state.st = "Disconnected"
      BY <1>4 DEF SetNextTarget
    <2> QED
      BY <2>2, <2>4, <2>5 DEF Asking, Bounded
  <1> QED
    BY <1>1, <1>2, <1>3, <1>4, StepShape, Zenon

\* No more than MAX_RESEND_ATTEMPTS requests are written while the same number
\* is expected, over handlers, replays, schedule checks and reconnects.
THEOREM SessionAsksBounded == Spec => []ResendRequestsBounded
  <1>1. Init => Asking
    <2> SUFFICES ASSUME Init PROVE Asking
      OBVIOUS
    <2>1. session.state.st = "Disconnected"
      BY DEF Init, NewSession
    <2>2. hist.asked = 0
      BY DEF Init
    <2> QED
      BY <2>1, <2>2 DEF Asking, Bounded, MAX_RESEND_ATTEMPTS
  <1>2. SInv /\ SInv' /\ Asking /\ [Next]_vars => Asking'
    <2> SUFFICES ASSUME SInv, SInv', Asking, [Next]_vars PROVE Asking'
      OBVIOUS
    <2>1. CASE SessionStep
      BY <2>1, AskSession
    <2>2. CASE DeadlinePasses
      <3>1. hist' = hist
        BY <2>2 DEF DeadlinePasses
      <3> QED
        BY <2>2, <3>1, DeadlineFields DEF Asking, Bounded
    <2>3. CASE InitiatorStep
      BY <2>3, InitiatorPhases DEF Asking, Bounded, NextTarget
    <2>4. CASE Tick \/ UNCHANGED vars
      BY <2>4 DEF Tick, vars, Asking, Bounded, NextTarget
    <2> QED
      BY <2>1, <2>2, <2>3, <2>4, SMTT(20) DEF Next
  <1>3. Asking => ResendRequestsBounded
    BY DEF Asking, Bounded, ResendRequestsBounded
  <1> QED
    BY <1>1, <1>2, <1>3, Invariance, PTL DEF Spec

-----------------------------------------------------------------------------
(* No message is delivered twice, as long as the store does not fail *)

\* NoRedelivery, strengthened: what was delivered was counted.
Delivering == ~hist.twice /\ hist.last <= session.store.target

\* What a step that started with the highest number l has delivered.
Upward(l, t) ==
    LET last == IF t.resets THEN 0 ELSE l
    IN  \/ Delivered(t) = {} /\ last <= t.store.target
        \/ Delivered(t) = {t.store.target} /\ t.store.target > last

\* A message is delivered with the number expected, and counted.
LEMMA DeliverIncoming ==
  ASSUME NEW l \in Nat, NEW s, NEW t, Sound(s), Clean(s), Delivered(s) = {},
         ~s.resets, l <= s.store.target, Incoming(s, t)
  PROVE  Upward(l, t)
  <1>1. PICK p, q, r : Handles(s, p, q, r, t)
    BY DEF Incoming
  <1>2. Follows(s, p) /\ Results(p, q) /\ (r = q \/ Reopens(q, r))
    BY <1>1 DEF Handles
  <1>3. Reaches(s, p) /\ Reaches(p, q) /\ Clean(p) /\ Clean(q)
    BY <1>2, Weaker, ResultsReach, ZenonT(30) DEF Reaches, Leads, Kept
  <1>4. /\ Delivered(r) = Delivered(q) /\ r.store = q.store /\ r.resets = q.resets /\ ~r.err
    <2>1. Reopens(q, r) => r.calls = q.calls /\ r.store = q.store /\ r.resets = q.resets /\ r.err = q.err
      BY Zenon DEF Reopens
    <2> QED
      BY <1>2, <1>3, <2>1, SameCalls, SMTT(20) DEF Clean
  <1>5. t = r
    BY <1>1, <1>4 DEF Handles
  <1>6. Moves(s, t) /\ Sound(t) /\ Sound(p)
    BY <1>3, IncomingReaches, Weaker
  <1>7. s.store.target \in Nat /\ p.store.target \in Nat /\ t.store.target \in Nat
    BY <1>6, BoundTypes
  <1>8. Delivered(p) = {}
    BY <1>2 DEF Follows, Calm
  <1>9. CASE Follows(p, q) \/ Requests(p, q)
    <2>1. Delivered(t) = {}
      BY <1>4, <1>5, <1>8, <1>9, Zenon DEF Follows, Calm, Requests
    <2>2. t.resets \/ t.store.target >= s.store.target
      BY <1>6 DEF Moves, Onward
    <2> QED
      BY <1>7, <2>1, <2>2, SMTT(20) DEF Upward
  <1>10. CASE Delivers(p, q)
    <2>1. Delivered(t) = {NextTarget(p)} /\ t.store.target = NextTarget(p) /\ t.resets = p.resets
      BY <1>3, <1>4, <1>5, <1>8, <1>10 DEF Delivers
    <2>2. p.resets \/ p.store.target >= s.store.target
      BY <1>2, Weaker DEF Moves, Onward
    <2> QED
      BY <1>7, <2>1, <2>2, SMTT(20) DEF Upward, NextTarget
  <1> QED
    BY <1>2, <1>9, <1>10, SMTT(20) DEF Results

\* The observation of such a step.
LEMMA DeliverEnded ==
  ASSUME SInv, ~hist.twice, NEW s, Sound(s), Upward(hist.last, s),
         NEW connecting \in BOOLEAN, concluded(s, connecting)
  PROVE  Delivering'
  <1> DEFINE last == IF s.resets THEN 0 ELSE hist.last
  <1>1. session' = ended(s) /\ hist' = observe(hist, session, s, connecting)
    BY DEF concluded
  <1>2. /\ hist'.last = Raised(last, Delivered(s))
        /\ hist'.twice = (hist.twice \/ \E n \in Delivered(s) : n <= last)
    BY <1>1 DEF observe
  <1>3. session'.store = s.store
    BY <1>1, EndedFields, ZenonT(30)
  <1>4. hist.last \in Nat /\ s.store.target \in Nat
    BY BoundTypes DEF SInv, TypeOK
  <1>5. last \in Nat
    BY <1>4
  <1>6. \/ Delivered(s) = {} /\ last <= s.store.target
        \/ Delivered(s) = {s.store.target} /\ s.store.target > last
    BY DEF Upward
  <1> HIDE DEF last
  <1>7. CASE Delivered(s) = {} /\ last <= s.store.target
    <2>1. Raised(last, Delivered(s)) = last
      BY <1>7 DEF Raised
    <2> QED
      BY <1>2, <1>3, <1>7, <2>1, Zenon DEF Delivering
  <1>8. CASE Delivered(s) = {s.store.target} /\ s.store.target > last
    <2>1. Raised(last, Delivered(s)) = s.store.target
      BY <1>8 DEF Raised
    <2>2. ~ \E n \in Delivered(s) : n <= last
      BY <1>4, <1>5, <1>8
    <2>3. ~hist'.twice
      BY <1>2, <2>2, ZenonT(30)
    <2>4. hist'.last <= session'.store.target
      BY <1>2, <1>3, <1>4, <2>1, SMTT(20)
    <2> QED
      BY <2>3, <2>4, SMTT(20) DEF Delivering
  <1> QED
    BY <1>6, <1>7, <1>8, SMTT(20)

\* A step that fails nothing starts clean.
LEMMA CleanBegun ==
  ASSUME SInv, Rested, Faults \subseteq {"none"}, NEW f \in FaultNow \cup {"none"}
  PROVE  /\ Clean(begun(f)) /\ Sound(begun(f)) /\ Delivered(begun(f)) = {}
         /\ ~begun(f).resets /\ begun(f).store = session.store /\ f \in Fault
         /\ Sound(checked(f)) /\ Follows(begun(f), checked(f)) /\ now \in Nat
  <1>1. f = "none"
    BY DEF FaultNow
  <1>2. /\ f \in Fault /\ Sound(begun(f)) /\ Sound(checked(f)) /\ Follows(begun(f), checked(f))
        /\ now \in Nat
    BY StepBegins
  <1>3. Clean(begun(f)) /\ ~begun(f).resets /\ begun(f).store = session.store
    BY <1>1, <1>2, BegunFields, ZenonT(30) DEF Clean, Rested
  <1>4. begun(f).calls = << >>
    BY <1>2, BegunFields, Zenon
  <1>5. DOMAIN << >> = {}
    OBVIOUS
  <1>6. Delivered(begun(f)) = {}
    BY <1>4, <1>5, Zenon DEF Delivered
  <1> QED
    BY <1>2, <1>3, <1>6, SMTT(20)

\* The steps of the session task deliver upwards.
LEMMA DeliverSession ==
  ASSUME SInv, Rested, Faults \subseteq {"none"}, Delivering, SessionStep
  PROVE  Delivering'
  <1>0. hist.last \in Nat /\ hist \in Hist /\ ~hist.twice /\ hist.last <= session.store.target
    BY DEF SInv, TypeOK, Hist, Delivering
  <1>a. ASSUME NEW f \in FaultNow, NEW s, Leads(begun(f), s), Delivered(s) = {},
               NEW connecting \in BOOLEAN, concluded(s, connecting)
        PROVE  Delivering'
    <2>1. Sound(begun(f)) /\ ~begun(f).resets /\ begun(f).store = session.store
      BY CleanBegun
    <2>2. Sound(s) /\ (s.resets \/ s.store.target >= session.store.target)
      BY <1>a, <2>1, Weaker, Zenon DEF Moves, Onward
    <2>3. s.store.target \in Nat /\ session.store.target \in Nat
      BY <2>1, <2>2, BoundTypes, SMTT(20)
    <2>4. Upward(hist.last, s)
      BY <1>0, <1>a, <2>2, <2>3, SMTT(20) DEF Upward
    <2> QED
      BY <1>0, <1>a, <2>2, <2>4, DeliverEnded, SMTT(20)
  <1>1. CASE Ordinary
    <2>0. PICK f \in FaultNow \cup {"none"} : \E s : Incoming(begun(f), s) /\ handled(s)
      BY <1>1 DEF Ordinary
    <2>1. PICK s : Incoming(begun(f), s) /\ handled(s)
      BY <2>0
    <2>2. /\ Clean(begun(f)) /\ Sound(begun(f)) /\ Delivered(begun(f)) = {}
          /\ ~begun(f).resets /\ begun(f).store = session.store
      BY CleanBegun
    <2>3. Upward(hist.last, s)
      BY <1>0, <2>1, <2>2, DeliverIncoming, SMTT(20)
    <2>4. Sound(s)
      BY <2>1, <2>2, IncomingReaches, Weaker, SMTT(20)
    <2> QED
      BY <1>0, <2>1, <2>3, <2>4, DeliverEnded, Zenon DEF handled
  <1>2. CASE AwaitSchedule
    <2>1. PICK f \in FaultNow : handled(register_schedule_awaiter(checked(f)))
      BY <1>2 DEF AwaitSchedule
    <2>2. /\ Sound(begun(f)) /\ Delivered(begun(f)) = {}
          /\ Sound(checked(f)) /\ Follows(begun(f), checked(f))
      BY CleanBegun, SMTT(20)
    <2>3. /\ Reaches(checked(f), register_schedule_awaiter(checked(f)))
          /\ Delivered(register_schedule_awaiter(checked(f))) = Delivered(checked(f))
      BY <2>2, RegisterAwaiter
    <2>4. Leads(begun(f), register_schedule_awaiter(checked(f)))
      BY <2>2, <2>3, Transitive, Weaker, SMTT(20)
    <2>5. Delivered(register_schedule_awaiter(checked(f))) = {}
      BY <2>2, <2>3 DEF Follows, Calm
    <2> QED
      BY <1>a, <2>1, <2>4, <2>5, Zenon DEF handled
  <1>3. CASE Connected
    <2>1. PICK f \in FaultNow : concluded(on_connect(checked(f)), TRUE)
      BY <1>3, Zenon DEF Connected
    <2>2. /\ Sound(begun(f)) /\ Delivered(begun(f)) = {} /\ now \in Nat
          /\ Sound(checked(f)) /\ Follows(begun(f), checked(f))
      BY CleanBegun
    <2>3. /\ Leads(checked(f), on_connect(checked(f)))
          /\ Delivered(on_connect(checked(f))) = Delivered(checked(f))
      BY <2>2, OnConnect, SMTT(20)
    <2>4. Leads(begun(f), on_connect(checked(f)))
      BY <2>2, <2>3, Transitive, Weaker
    <2>5. Delivered(on_connect(checked(f))) = {}
      BY <2>2, <2>3 DEF Follows, Calm
    <2> QED
      BY <1>a, <2>1, <2>4, <2>5, Zenon
  <1>4. CASE SetNextTarget
    <2>1. PICK f \in FaultNow, n \in Nat :
             /\ session' = ended(set_target(begun(f), n))
             /\ hist' = [hist EXCEPT !.last =
                           IF hist.last > set_target(begun(f), n).store.target
                           THEN set_target(begun(f), n).store.target ELSE hist.last]
      BY <1>4, SetNextTargetStep, ZenonT(30)
    <2>2. Sound(begun(f))
      BY CleanBegun
    <2> DEFINE s == set_target(begun(f), n)
    <2>3. Sound(s)
      BY <2>2, SetTarget
    <2>4. session'.store = s.store
      BY <2>1, <2>3, EndedFields, ZenonT(30)
    <2>5. s.store.target \in Nat
      BY <2>3, BoundTypes
    <2>6. hist' = [hist EXCEPT !.last = IF hist.last > s.store.target THEN s.store.target ELSE hist.last]
      BY <2>1
    <2> HIDE DEF s
    <2> QED
      BY <1>0, <2>4, <2>5, <2>6 DEF Delivering, Hist
  <1> QED
    BY <1>1, <1>2, <1>3, <1>4, StepShape, Zenon

\* With a store that does not fail, on_inbound_message is never called twice
\* for one number by a message that was verified: what is delivered is then the
\* number expected, and it is counted before anything else can be delivered.
\* (A message handled while Disconnected is not verified, and may repeat one.)
THEOREM SessionDeliversOnce ==
  ASSUME Faults \subseteq {"none"}
  PROVE  Spec => []NoRedelivery
  <1>1. Init => Delivering
    BY DEF Init, NewSession, Delivering
  <1>2. BInv /\ Delivering /\ [Next]_vars => Delivering'
    <2> SUFFICES ASSUME BInv, Delivering, [Next]_vars PROVE Delivering'
      OBVIOUS
    <2>0. SInv /\ Rested
      BY DEF BInv
    <2>1. CASE SessionStep
      BY <2>0, <2>1, DeliverSession
    <2>2. CASE DeadlinePasses
      <3>1. hist' = hist /\ session'.store = session.store
        BY <2>0, <2>2, DeadlineFields, SMTT(20) DEF DeadlinePasses
      <3> QED
        BY <3>1 DEF Delivering
    <2>3. CASE InitiatorStep
      BY <2>3, InitiatorPhases DEF Delivering
    <2>4. CASE Tick \/ UNCHANGED vars
      BY <2>4 DEF Tick, vars, Delivering
    <2> QED
      BY <2>1, <2>2, <2>3, <2>4, SMTT(20) DEF Next
  <1>3. Delivering => NoRedelivery
    BY DEF Delivering, NoRedelivery
  <1> QED
    BY <1>1, <1>2, <1>3, BaseInvariance, PTL DEF Spec

-----------------------------------------------------------------------------
(* The Logon is the first message of a connection, and the only Logon, as  *)
(* long as the store does not fail                                         *)

\* LogonFirst, strengthened: a writer is open only after the Logon.
Greeting == LogonFirst /\ (session.writer = "open" => hist.first = "Logon")

\* A handler other than on_connect writes no Logon, and nothing at all before
\* the writer is there.
LEMMA GreetWired ==
  ASSUME SInv, Greeting, NEW f \in Fault, NEW s, Sound(s), Wired(begun(f), s), handled(s)
  PROVE  Greeting'
  <1>1. session' = ended(s) /\ hist' = observe(hist, session, s, FALSE)
    BY DEF handled, concluded
  <1>2. begun(f).writer = session.writer /\ begun(f).out = << >>
    BY BegunFields, Zenon
  <1>3. /\ Of(s.out, "Logon") = Of(<< >>, "Logon")
        /\ session.writer # "open" => s.writer # "open" /\ s.out = << >>
    BY <1>2 DEF Wired
  <1>4. Of(<< >>, "Logon") = {}
    <2>1. DOMAIN << >> = {}
      BY SMTT(20)
    <2> QED
      BY <2>1, Zenon DEF Of
  <1>5. hist'.logons = hist.logons + Cardinality(Of(s.out, "Logon"))
    BY <1>1 DEF observe, Count, Of
  <1>6. hist'.logons <= 1
    <2>1. Cardinality(Of(s.out, "Logon")) = 0
      BY <1>3, <1>4, FS_EmptySet, ZenonT(30)
    <2>2. hist.logons \in Nat /\ hist.logons <= 1
      BY DEF Greeting, LogonFirst, SInv, TypeOK
    <2> QED
      BY <1>5, <2>1, <2>2
  <1>7. hist'.first = IF hist.first = "none" /\ s.out # << >> THEN Head(s.out).type ELSE hist.first
    BY <1>1 DEF observe
  <1>8. session'.writer = s.writer
    BY <1>1, EndedFields, Zenon
  <1>9. hist'.first = hist.first
    BY <1>3, <1>7 DEF Greeting
  <1> QED
    BY <1>3, <1>6, <1>8, <1>9, SMTT(20) DEF Greeting, LogonFirst

\* on_connect writes the Logon.
LEMMA GreetConnected ==
  ASSUME SInv, Rested, Between, Faults \subseteq {"none"}, Connected
  PROVE  Greeting'
  <1>1. PICK f \in FaultNow : concluded(on_connect(checked(f)), TRUE)
    BY Zenon DEF Connected
  <1> DEFINE s == on_connect(checked(f))
  <1>2. /\ f \in Fault /\ Clean(begun(f)) /\ Sound(begun(f)) /\ now \in Nat
        /\ Sound(checked(f)) /\ Follows(begun(f), checked(f))
    BY CleanBegun
  <1>3. session.state.st = "Disconnected"
    BY DEF Connected, Ready, Between
  <1>4. begun(f).writer = "none" /\ begun(f).out = << >>
    BY <1>2, <1>3, BegunFields, Zenon DEF Rested, Unplugged
  <1>5. checked(f).out = << >> /\ Clean(checked(f))
    BY <1>2, <1>4, Weaker, Zenon DEF Follows, Reaches, Leads, Wired, Kept
  <1>6. OneLogon(s.out) /\ Sound(s)
    BY <1>2, <1>5, OnConnect, Weaker, SMTT(20)
  <1>7. session' = ended(s) /\ hist' = observe(hist, session, s, TRUE)
    BY <1>1 DEF concluded
  <1> HIDE DEF s
  <1>8. PICK x : s.out = <<x>> /\ x.type = "Logon"
    BY <1>6, ZenonT(30) DEF OneLogon
  <1>9. hist'.logons = 0 + Cardinality(Of(s.out, "Logon"))
    BY <1>7 DEF observe, Count, Of
  <1>10. Of(s.out, "Logon") = {1}
    BY <1>8 DEF Of
  <1>11. hist'.logons = 1
    <2>1. Cardinality(Of(s.out, "Logon")) = 1
      BY <1>10, FS_Singleton, ZenonT(30)
    <2> QED
      BY <1>9, <2>1
  <1>12. hist'.first = IF s.out # << >> THEN Head(s.out).type ELSE "none"
    BY <1>7 DEF observe
  <1>13. hist'.first = "Logon"
    BY <1>8, <1>12
  <1> QED
    BY <1>11, <1>13 DEF Greeting, LogonFirst

\* The other steps of the session task.
LEMMA GreetSession ==
  ASSUME SInv, Rested, Between, Faults \subseteq {"none"}, Greeting, SessionStep
  PROVE  Greeting'
  <1>1. CASE Ordinary
    <2>0. PICK f \in FaultNow \cup {"none"} : \E s : Incoming(begun(f), s) /\ handled(s)
      BY <1>1 DEF Ordinary
    <2>1. PICK s : Incoming(begun(f), s) /\ handled(s)
      BY <2>0
    <2>2. f \in Fault /\ Reaches(begun(f), s)
      BY <2>1, StepBegins, IncomingReaches, SMTT(20)
    <2>3. Sound(s) /\ Wired(begun(f), s)
      BY <2>2, Weaker, Zenon DEF Reaches
    <2> QED
      BY <2>1, <2>2, <2>3, GreetWired, SMTT(20)
  <1>2. CASE AwaitSchedule
    <2>1. PICK f \in FaultNow : handled(register_schedule_awaiter(checked(f)))
      BY <1>2 DEF AwaitSchedule
    <2>2. f \in Fault /\ Sound(begun(f)) /\ Sound(checked(f)) /\ Follows(begun(f), checked(f))
      BY StepBegins, SMTT(20)
    <2>3. Reaches(checked(f), register_schedule_awaiter(checked(f)))
      BY <2>2, RegisterAwaiter, SMTT(20)
    <2>4. Reaches(begun(f), register_schedule_awaiter(checked(f)))
      BY <2>2, <2>3, Transitive, Weaker, SMTT(20)
    <2>5. /\ Sound(register_schedule_awaiter(checked(f)))
          /\ Wired(begun(f), register_schedule_awaiter(checked(f)))
      BY <2>4, Weaker, Zenon DEF Reaches
    <2> QED
      BY <2>1, <2>2, <2>5, GreetWired, SMTT(20)
  <1>3. CASE Connected
    BY <1>3, GreetConnected
  <1>4. CASE SetNextTarget
    <2>1. PICK f \in FaultNow, n \in Nat :
             /\ session' = ended(set_target(begun(f), n))
             /\ hist' = [hist EXCEPT !.last =
                           IF hist.last > set_target(begun(f), n).store.target
                           THEN set_target(begun(f), n).store.target ELSE hist.last]
      BY <1>4, SetNextTargetStep, Zenon
    <2>2. hist'.first = hist.first /\ hist'.logons = hist.logons
      BY <2>1 DEF SInv, TypeOK
    <2>3. f \in Fault /\ Sound(begun(f))
      BY StepBegins
    <2>4. Sound(set_target(begun(f), n)) /\ Wired(begun(f), set_target(begun(f), n))
      BY <2>3, SetTarget
    <2>5. begun(f).writer = session.writer
      BY <2>3, BegunFields, Zenon
    <2>6. session'.writer = set_target(begun(f), n).writer
      BY <2>1, <2>4, EndedFields, Zenon
    <2>7. session.writer # "open" => session'.writer # "open"
      BY <2>4, <2>5, <2>6, Zenon DEF Wired
    <2> QED
      BY <2>2, <2>7 DEF Greeting, LogonFirst
  <1> QED
    BY <1>1, <1>2, <1>3, <1>4, StepShape, Zenon

\* With a store that does not fail, the first message on a connection is the
\* Logon of on_connect and no other Logon follows, whatever the order of hang-
\* ups, timers, requests and schedule checks.
THEOREM SessionLogonFirst ==
  ASSUME Faults \subseteq {"none"}
  PROVE  Spec => []LogonFirst
  <1>1. Init => Greeting
    <2> SUFFICES ASSUME Init PROVE Greeting
      BY SMTT(20)
    <2>1. session.writer = "none"
      BY DEF Init, NewSession
    <2>2. hist.first = "none" /\ hist.logons = 0
      BY DEF Init
    <2> QED
      BY <2>1, <2>2 DEF Greeting, LogonFirst
  <1>2. BInv /\ Greeting /\ [Next]_vars => Greeting'
    <2> SUFFICES ASSUME BInv, Greeting, [Next]_vars PROVE Greeting'
      OBVIOUS
    <2>0. SInv /\ Rested /\ Between
      BY DEF BInv
    <2>1. CASE SessionStep
      BY <2>0, <2>1, GreetSession, SMTT(20)
    <2>2. CASE DeadlinePasses
      <3>1. hist' = hist /\ session'.writer = session.writer
        BY <2>0, <2>2, DeadlineFields, SMTT(20) DEF DeadlinePasses
      <3> QED
        BY <3>1 DEF Greeting, LogonFirst
    <2>3. CASE InitiatorStep
      BY <2>3, InitiatorPhases, SMTT(20) DEF Greeting, LogonFirst
    <2>4. CASE Tick \/ UNCHANGED vars
      BY <2>4 DEF Tick, vars, Greeting, LogonFirst
    <2> QED
      BY <2>1, <2>2, <2>3, <2>4 DEF Next
  <1>3. Greeting => LogonFirst
    BY DEF Greeting
  <1> QED
    BY <1>1, <1>2, <1>3, BaseInvariance, PTL DEF Spec

-----------------------------------------------------------------------------
(* The connection loop stops only when it is told to, unless the reader    *)
(* reports a hang-up before its writer is registered                       *)

\* A connection is up: the loop waits for the end of a reader that is there.
Live == initiator = "Run" /\ reader = "live"

\* StopsOnlyWhenTold, strengthened.  Without a connection the session is
\* disconnected and replays nothing; only a loop that waits has a responder in
\* the session, so the answer it gets is never Shutdown.
Ending ==
    /\ ~Live => session.panicked \/ (session.state.st = "Disconnected" /\ session.backlog = << >>)
    /\ initiator = "Register" => session.panicked \/ reader = "live"
    /\ Awaits(session.state) => session.panicked \/ (initiator = "Waiting" /\ session.answer = "none")
    /\ initiator = "Waiting" => session.panicked \/ session.answer \in {"none", "InSchedule"}
    /\ StopsOnlyWhenTold

\* No message registers a responder.
LEMMA IncomingAwaits ==
  ASSUME NEW s, NEW t, Incoming(s, t)
  PROVE  Awaits(t.state) => Awaits(s.state)
  <1>1. PICK p, q, r : Handles(s, p, q, r, t)
    BY DEF Incoming
  <1>2. ASSUME NEW x, NEW y, Follows(x, y) \/ Delivers(x, y)
        PROVE  Awaits(y.state) => Awaits(x.state)
    BY <1>2, Zenon DEF Follows, Calm, Delivers, Milder
  <1>3. Awaits(p.state) => Awaits(s.state)
    BY <1>1, <1>2 DEF Handles
  <1>4. Awaits(q.state) => Awaits(p.state)
    <2>1. Requests(p, q) => ~Awaits(q.state)
      BY DEF Requests, Awaits
    <2> QED
      BY <1>1, <1>2, <2>1, Zenon DEF Handles, Results
  <1>5. Awaits(r.state) => Awaits(q.state)
    <2>1. Reopens(q, r) => ~Awaits(r.state)
      BY DEF Reopens, Awaits
    <2> QED
      BY <1>1, <2>1, Zenon DEF Handles
  <1>6. Awaits(t.state) => Awaits(r.state)
    BY <1>1, <1>2, ZenonT(30) DEF Handles
  <1> QED
    BY <1>3, <1>4, <1>5, <1>6, SMTT(20)

\* Without a connection, what leaves the session idle keeps the invariant.
LEMMA EndIdle ==
  ASSUME SInv, Ending, ~Live, ~session.panicked, Idle(session, session'), reader' = reader,
         \/ initiator' = initiator
         \/ initiator = "ShouldReconnect" /\ initiator' = "AwaitSchedule"
         \/ initiator = "ShouldReconnect" /\ initiator' = "Stopped" /\ ~should_reconnect(session')
  PROVE  Ending'
  <1>1. session.state.st = "Disconnected" /\ session.backlog = << >>
    BY DEF Ending
  <1>2. session'.state.st = "Disconnected" /\ session'.backlog = << >>
    BY <1>1 DEF Idle
  <1>3. (initiator = "Register" => session.panicked \/ reader = "live")'
    BY DEF Ending
  <1>4. (Awaits(session.state) => session.panicked \/ (initiator = "Waiting" /\ session.answer = "none"))'
    BY <1>1 DEF Ending, Idle, Awaits
  <1>5. (initiator = "Waiting" => session.panicked \/ session.answer \in {"none", "InSchedule"})'
    BY DEF Ending, Idle
  <1>6. StopsOnlyWhenTold'
    <2>1. CASE initiator' = initiator
      <3>1. initiator = "Stopped" => ~session.state.reconnect
        BY <1>1 DEF Ending, StopsOnlyWhenTold, should_reconnect
      <3>2. initiator = "Stopped" => ~session'.state.reconnect
        BY <3>1, ZenonT(30) DEF Idle
      <3> QED
        BY <1>2, <2>1, <3>2, SMTT(20) DEF StopsOnlyWhenTold, should_reconnect
    <2> QED
      BY <2>1 DEF StopsOnlyWhenTold
  <1> QED
    BY <1>2, <1>3, <1>4, <1>5, <1>6, SMTT(20) DEF Ending

\* From a handler's record to the session's.
LEMMA IdleEnded ==
  ASSUME SInv, NEW f \in Fault, NEW s, Sound(s), Idle(begun(f), s), session' = ended(s)
  PROVE  Idle(session, session')
  <1>1. /\ begun(f).state = session.state /\ begun(f).answer = session.answer
        /\ begun(f).backlog = session.backlog
    BY BegunFields, Zenon
  <1>2. session'.state = s.state /\ session'.answer = s.answer /\ session'.backlog = s.backlog
    BY EndedFields, Zenon
  <1> QED
    BY <1>1, <1>2, SMTT(20) DEF Idle

\* The steps of the session task without a connection.
LEMMA EndSessionIdle ==
  ASSUME SInv, ~EarlyEof, Ending, ~Live, SessionStep, ~Connected, ~AwaitSchedule
  PROVE  Ending'
  <1>0. /\ ~session.panicked /\ session.state.st = "Disconnected" /\ session.backlog = << >>
        /\ session \in Session /\ now \in Nat
    BY StepPhases DEF Ending, SInv, TypeOK
  <1>a. ASSUME NEW f \in FaultNow
        PROVE  f \in Fault /\ Sound(begun(f)) /\ Sound(checked(f)) /\ begun(f).state.st = "Disconnected"
    BY <1>0, <1>a, StepBegins, BegunFields, Zenon
  <1>b. ASSUME NEW f \in FaultNow, handled(checked(f))
        PROVE  Idle(session, session')
    <2>1. session' = ended(checked(f))
      BY <1>b, SMTT(20) DEF handled, concluded
    <2>2. Idle(begun(f), checked(f))
      BY <1>0, <1>a, CheckBeside, SMTT(20) DEF checked
    <2> QED
      BY <1>a, <2>1, <2>2, IdleEnded, SMTT(20)
  <1>c. ASSUME NEW f \in FaultNow, handled(begun(f))
        PROVE  Idle(session, session')
    <2>1. session' = ended(begun(f))
      BY <1>c DEF handled, concluded
    <2>2. PICK b : b = begun(f)
      OBVIOUS
    <2>3. Idle(b, b)
      BY <1>a, <2>2, SMTT(20) DEF Idle
    <2> QED
      BY <1>a, <2>1, <2>2, <2>3, IdleEnded, SMTT(20)
  <1>1. CASE ShouldReconnect
    BY <1>0, <1>1, <1>b, EndIdle, SMTT(20) DEF ShouldReconnect
  <1>2. CASE ScheduleCheck
    BY <1>0, <1>2, <1>b, EndIdle, SMTT(20) DEF ScheduleCheck
  <1>3. CASE OutboundMessage
    <2>1. PICK d \in OutboundDecisions, f \in FaultNow : handled(handle_outbound_message(begun(f), d))
      BY <1>3, SMTT(20) DEF OutboundMessage
    <2>2. handle_outbound_message(begun(f), d) = begun(f)
      BY <1>a, SMTT(20) DEF handle_outbound_message, is_connected
    <2> QED
      BY <1>0, <1>3, <1>c, <2>1, <2>2, EndIdle, SMTT(20) DEF OutboundMessage
  <1>4. CASE Shutdown
    <2>1. PICK r \in AdminRequests, f \in FaultNow :
             handled(initiate_graceful_logout(begun(f), r.reconnect))
      BY <1>4 DEF Shutdown
    <2>2. initiate_graceful_logout(begun(f), r.reconnect) = begun(f)
      BY <1>a DEF initiate_graceful_logout
    <2> QED
      BY <1>0, <1>4, <1>c, <2>1, <2>2, EndIdle, SMTT(20) DEF Shutdown
  <1>5. CASE ResetOnNextLogon
    <2>1. handled([begun("none") EXCEPT !.reset_on_next_logon = TRUE])
      BY <1>5 DEF ResetOnNextLogon
    <2>2. "none" \in Fault
      BY DEF Fault
    <2> DEFINE b == begun("none")
               s == [b EXCEPT !.reset_on_next_logon = TRUE]
    <2>3. session' = ended(s)
      BY <2>1, Zenon DEF handled, concluded
    <2>4. Sound(b) /\ b.state.st = "Disconnected"
      BY <1>0, <2>2, Begun, BegunFields, Zenon
    <2> HIDE DEF b
    <2>5. Sound(s)
      BY <2>4, PutResetOnLogon, Weaker, Zenon
    <2>6. s.state = b.state /\ s.answer = b.answer /\ s.backlog = b.backlog
      BY <2>4, SMTT(20) DEF Sound, Session
    <2> HIDE DEF s
    <2>7. Idle(b, s)
      BY <2>4, <2>6, SMTT(20) DEF Idle
    <2>8. Idle(session, session')
      BY <2>2, <2>3, <2>5, <2>7, IdleEnded, SMTT(20) DEF b
    <2> QED
      BY <1>0, <1>5, <2>8, EndIdle, SMTT(20) DEF ResetOnNextLogon
  <1>6. CASE SetNextTarget
    <2>1. PICK f \in FaultNow, n \in Nat : session' = ended(set_target(begun(f), n))
      BY <1>6, SetNextTargetStep, ZenonT(30)
    <2> DEFINE b == begun(f)
               s == set_target(b, n)
    <2>2. f \in Fault /\ Sound(b) /\ b.state.st = "Disconnected"
      BY <1>a, SMTT(20)
    <2> HIDE DEF b
    <2>3. Sound(s) /\ s.state = b.state /\ s.answer = b.answer /\ s.backlog = b.backlog
      BY <2>2, SetTarget, SMTT(20)
    <2> HIDE DEF s
    <2>4. Idle(b, s)
      BY <2>2, <2>3, SMTT(20) DEF Idle
    <2>5. Idle(session, session')
      BY <2>1, <2>2, <2>3, <2>4, IdleEnded, SMTT(20) DEF b, s
    <2> QED
      BY <1>0, <1>6, <2>5, EndIdle DEF SetNextTarget
  <1>7. ~FixMessageReceived /\ ~ReplayBacklog /\ ~ReaderDisconnected /\ ~PeerTimeout /\ ~HeartbeatTimeout
    BY <1>0 DEF FixMessageReceived, ReplayBacklog, ReaderDisconnected, PeerTimeout, HeartbeatTimeout,
                Live
  <1> QED
    BY <1>1, <1>2, <1>3, <1>4, <1>5, <1>6, <1>7, SMTT(20) DEF SessionStep

\* The steps of the session task.
LEMMA EndSession ==
  ASSUME SInv, ~EarlyEof, Ending, SessionStep
  PROVE  Ending'
  <1>0. ~session.panicked /\ now \in Nat
    BY StepPhases, SMTT(20) DEF SInv, TypeOK
  <1>1. CASE AwaitSchedule
    <2>1. PICK f \in FaultNow : handled(register_schedule_awaiter(checked(f)))
      BY <1>1 DEF AwaitSchedule
    <2> DEFINE b == begun(f)
               c == checked(f)
               s == register_schedule_awaiter(c)
    <2>2. initiator = "AwaitSchedule" /\ initiator' = "Waiting" /\ reader' = reader /\ session' = ended(s)
      BY <1>1, <2>1, SMTT(20) DEF AwaitSchedule, handled, concluded
    <2>3. session.state.st = "Disconnected" /\ session.backlog = << >> /\ ~Awaits(session.state)
      BY <1>0, <2>2 DEF Ending, Live
    <2>4. /\ f \in Fault /\ Sound(b) /\ Sound(c)
          /\ b.state = session.state /\ b.backlog = session.backlog
      BY StepBegins, BegunFields, ZenonT(30)
    <2>5. Idle(b, c)
      BY <1>0, <2>3, <2>4, CheckBeside, SMTT(20) DEF checked
    <2> HIDE DEF b, c
    <2>6. c.state.st = "Disconnected" /\ c.backlog = << >> /\ ~c.state.awaiter
      BY <2>3, <2>4, <2>5, SMTT(20) DEF Idle, Awaits
    <2>7. Reaches(c, s) /\ s.state.st = "Disconnected" /\ s.backlog = << >> /\ s.answer = "none"
      BY <2>4, <2>6, RegisterAwaiter, SMTT(20)
    <2>8. Sound(s)
      BY <2>7, Weaker
    <2> HIDE DEF s
    <2>9. session'.state = s.state /\ session'.answer = s.answer /\ session'.backlog = s.backlog
      BY <2>2, <2>8, EndedFields, Zenon
    <2> QED
      BY <2>2, <2>7, <2>9, SMTT(20) DEF Ending, Live, StopsOnlyWhenTold
  <1>2. CASE Connected
    <2>1. PICK f \in FaultNow : concluded(on_connect(checked(f)), TRUE)
      BY <1>2, Zenon DEF Connected
    <2>2. session' = ended(on_connect(checked(f)))
      BY <2>1 DEF concluded
    <2>3. Sound(on_connect(checked(f))) /\ on_connect(checked(f)).state.st = "AwaitingLogon"
      BY <1>0, StepBegins, OnConnect, Weaker, Zenon
    <2>4. session'.state.st = "AwaitingLogon"
      BY <2>2, <2>3, EndedFields, Zenon
    <2>5. initiator' = "Run" /\ reader' = "live"
      BY <1>0, <1>2, SMTT(20) DEF Connected, Ending
    <2> QED
      BY <2>4, <2>5 DEF Ending, Live, Awaits, StopsOnlyWhenTold
  <1>3. CASE ReaderDisconnected
    <2>1. PICK f \in FaultNow : handled(on_disconnect(disconnect_writer(checked(f))))
      BY <1>3, SMTT(20) DEF ReaderDisconnected
    <2> DEFINE b == begun(f)
               c == checked(f)
               w == disconnect_writer(c)
               s == on_disconnect(w)
    <2>2. initiator = "Run" /\ initiator' = "Run" /\ session' = ended(s) /\ session.backlog = << >>
      BY <1>3, <2>1 DEF ReaderDisconnected, handled, concluded, Ready
    <2>3. /\ f \in Fault /\ Sound(b) /\ Sound(c) /\ Follows(b, c)
          /\ b.state = session.state /\ b.backlog = session.backlog
      BY StepBegins, BegunFields, ZenonT(30)
    <2>4. c.backlog = << >>
      BY <1>0, <2>2, <2>3, CheckBeside, SMTT(20) DEF checked
    <2> HIDE DEF b, c
    <2>5. Follows(c, w)
      BY <2>3, DisconnectWriter, SMTT(20)
    <2>6. w.backlog = << >> /\ Sound(w) /\ w \in Session
      BY <2>3, <2>4, <2>5, Weaker, SMTT(20) DEF disconnect_writer, Sound, Session
    <2> HIDE DEF w
    <2>7. Follows(w, s) /\ s.state.st = "Disconnected"
      BY <2>6, OnDisconnect
    <2>8. s.backlog = << >>
      <3>1. new_disconnected(w, TRUE).backlog = << >>
        BY <2>6, NewDisconnected, Zenon
      <3>2. w.state.st = "AwaitingLogout" => w.state.reconnect \in BOOLEAN
        BY <2>6, FieldTypes, Variants, SMTT(20) DEF AwaitingLogout
      <3>3. w.state.st = "AwaitingLogout" => new_disconnected(w, w.state.reconnect).backlog = << >>
        BY <3>2, <2>6, NewDisconnected, Zenon
      <3> QED
        BY <2>6, <3>1, <3>3, Zenon DEF on_disconnect
    <2>9. Sound(s) /\ (Awaits(s.state) => Awaits(session.state))
      BY <2>3, <2>5, <2>7, Weaker, ZenonT(30) DEF Follows, Calm, Milder
    <2> HIDE DEF s
    <2>10. session'.state = s.state /\ session'.answer = s.answer /\ session'.backlog = s.backlog
      BY <2>2, <2>9, EndedFields, Zenon
    <2>11. ~Awaits(session'.state)
      BY <1>0, <2>2, <2>9, <2>10, SMTT(20) DEF Ending
    <2> QED
      BY <2>2, <2>7, <2>8, <2>10, <2>11, SMTT(20) DEF Ending, StopsOnlyWhenTold
  <1>4. CASE Live /\ ~AwaitSchedule /\ ~Connected /\ ~ReaderDisconnected
    <2>1. Live' /\ ~Awaits(session.state)
      BY <1>0, <1>4, SMTT(20) DEF Ending, Live, SessionStep, FixMessageReceived, ReplayBacklog, ShouldReconnect,
             OutboundMessage, Shutdown, ResetOnNextLogon,
             SetNextTarget, PeerTimeout, HeartbeatTimeout, ScheduleCheck
    <2>2. ~Awaits(session'.state)
      <3>1. CASE Ordinary
        <4>0. PICK f \in FaultNow \cup {"none"} : \E s : Incoming(begun(f), s) /\ handled(s)
          BY <3>1 DEF Ordinary
        <4>1. PICK s : Incoming(begun(f), s) /\ handled(s)
          BY <4>0
        <4>2. f \in Fault /\ Sound(s)
          BY <4>1, StepBegins, IncomingReaches, Weaker
        <4>3. Awaits(s.state) => Awaits(begun(f).state)
          BY <4>1, IncomingAwaits
        <4>4. session' = ended(s)
          BY <4>1 DEF handled, concluded
        <4>5. session'.state = s.state /\ begun(f).state = session.state
          BY <4>2, <4>4, EndedFields, BegunFields, Zenon
        <4> QED
          BY <2>1, <4>3, <4>5, SMTT(20)
      <3>2. CASE SetNextTarget
        <4>1. PICK f \in FaultNow, n \in Nat : session' = ended(set_target(begun(f), n))
          BY <3>2, SetNextTargetStep, Zenon
        <4>2. f \in Fault /\ Sound(begun(f))
          BY StepBegins, SMTT(20)
        <4>3. Sound(set_target(begun(f), n)) /\ set_target(begun(f), n).state = begun(f).state
          BY <4>2, SetTarget
        <4>4. session'.state = begun(f).state
          BY <4>1, <4>3, EndedFields, Zenon
        <4>5. begun(f).state = session.state
          BY <4>2, BegunFields, Zenon
        <4> QED
          BY <2>1, <4>4, <4>5
      <3> QED
        BY <1>4, <3>1, <3>2, StepShape
    <2> QED
      BY <2>1, <2>2, SMTT(20) DEF Ending, Live, StopsOnlyWhenTold
  <1>5. CASE ~Live /\ ~AwaitSchedule /\ ~Connected
    BY <1>5, EndSessionIdle
  <1> QED
    BY <1>1, <1>2, <1>3, <1>4, <1>5, SMTT(20)

\* The connection loop stops only when the session rules out a reconnect, if no
\* reader reports the end of a connection whose writer the session does not
\* have yet.
THEOREM SessionStopsWhenTold ==
  ASSUME ~EarlyEof
  PROVE  Spec => []StopsOnlyWhenTold
  <1>1. Init => Ending
    <2> SUFFICES ASSUME Init PROVE Ending
      BY SMTT(20)
    <2>1. session.state = [st |-> "Disconnected", reconnect |-> TRUE, awaiter |-> FALSE]
      BY SMTT(20) DEF Init, NewSession
    <2>2. session.backlog = << >>
      BY DEF Init, NewSession
    <2>3. initiator = "AwaitSchedule"
      BY DEF Init
    <2>4. session.state.st = "Disconnected" /\ ~session.state.awaiter
      BY <2>1
    <2> QED
      BY <2>2, <2>3, <2>4, SMTT(20) DEF Ending, Live, Awaits, StopsOnlyWhenTold
  <1>2. SInv /\ Ending /\ [Next]_vars => Ending'
    <2> SUFFICES ASSUME SInv, Ending, [Next]_vars PROVE Ending'
      OBVIOUS
    <2>1. CASE SessionStep
      BY <2>1, EndSession, SMTT(20)
    <2>2. CASE DeadlinePasses
      <3>1. /\ session.state.st # "Disconnected" /\ session'.state.st # "Disconnected"
            /\ initiator' = initiator /\ reader' = reader /\ ~session.panicked
        BY <2>2, DeadlineFields, SMTT(20) DEF DeadlinePasses
      <3> QED
        BY <3>1 DEF Ending, Live, Awaits, StopsOnlyWhenTold
    <2>3. CASE InitiatorStep
      <3>1. session' = session
        BY <2>3, InitiatorPhases, SMTT(20)
      <3>2. CASE ScheduleAnswered
        BY <3>1, <3>2, SMTT(20) DEF ScheduleAnswered, Ending, Live, StopsOnlyWhenTold, should_reconnect
      <3>3. CASE ConnectSucceeds
        BY <3>1, <3>3, SMTT(20) DEF ConnectSucceeds, Ending, Live, StopsOnlyWhenTold, should_reconnect
      <3>4. CASE ConnectFails \/ ConnectionEnds
        BY <3>1, <3>4, SMTT(20) DEF ConnectFails, ConnectionEnds, Ending, Live, StopsOnlyWhenTold, should_reconnect
      <3>5. CASE SessionGone \/ ReaderEnds
        <4>1. session'.panicked
          BY <3>1, <3>5, SMTT(20) DEF SessionGone, ReaderEnds
        <4> QED
          BY <4>1 DEF Ending, StopsOnlyWhenTold
      <3> QED
        BY <2>3, <3>2, <3>3, <3>4, <3>5, SMTT(20) DEF InitiatorStep
    <2>4. CASE Tick \/ UNCHANGED vars
      BY <2>4 DEF Tick, vars, Ending, Live, StopsOnlyWhenTold, should_reconnect
    <2> QED
      BY <2>1, <2>2, <2>3, <2>4, SMTT(20) DEF Next
  <1>3. Ending => StopsOnlyWhenTold
    BY DEF Ending
  <1> QED
    BY <1>1, <1>2, <1>3, Invariance, PTL DEF Spec
=============================================================================
