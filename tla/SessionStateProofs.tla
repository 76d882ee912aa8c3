------------------------- MODULE SessionStateProofs -------------------------
(***************************************************************************)
(* What the operations of module SessionState do to a session record.      *)
(*                                                                         *)
(* A handler is a composition of operators on the session record, and so   *)
(* are the proofs about it.  Moves(s, t) says that t is a sound session    *)
(* whose target number has not fallen behind that of s unless the store    *)
(* was cleared.  Most operators do no more than Follows(s, t) allows: they *)
(* keep what the invariants of module Session are about as well.  The      *)
(* relations are transitive, and each operator gets one lemma.             *)
(***************************************************************************)
EXTENDS Session, SequenceTheorems, FiniteSetTheorems, TLAPS

\* ResendWindow, of any session record.
Window(s) ==
    s.state.st = "AwaitingResend" =>
        /\ s.state.begin < s.state.end
        /\ s.state.attempts \in 1 .. MAX_RESEND_ATTEMPTS
        /\ \A i \in DOMAIN s.state.queue :
              s.state.queue[i].type # "ResendRequest" => s.state.queue[i].seq > s.state.end

Sound(s) == s \in Session /\ Window(s)

Onward(s, t) == t.resets \/ (~s.resets /\ t.store.target >= s.store.target)

Moves(s, t) == Sound(t) /\ Onward(s, t)

\* No store call has failed, and none will.
Clean(s) == s.fault = "none" /\ ~s.err

\* A message with a number of its own is in the store, under that number.
Filed(s, m) ==
    m.type # "Resend" => m.seq \in DOMAIN s.store.log /\ s.store.log[m.seq] = kind_of(m.type)

\* WrittenIsStored, of any session record.
Stored(s) == ~s.resets => \A i \in DOMAIN s.out : Filed(s, s.out[i])

\* A state that holds the responder of AwaitSchedule.
Awaits(a) == a.st = "Disconnected" /\ a.awaiter

\* Whoever waits for the schedule is answered, or will be.
Posted(s) == s.answer # "none" \/ s.panicked \/ Awaits(s.state)

\* A disconnected session has no writer.
Unplugged(s) == s.state.st = "Disconnected" => s.writer = "none"

\* Whoever is told to connect, or will be, finds the session disconnected.
Invited(s) == s.answer \in {"none", "InSchedule"} => s.state.st = "Disconnected"

\* Where messages of one type are in a sequence.
Of(q, type) == {i \in DOMAIN q : q[i].type = type}

\* A sequence with one message more than another, at most.
OneMore(q, r) == \E k : \A type : Of(r, type) \subseteq Of(q, type) \cup {k}

\* What every operator keeps.
Kept(s, t) ==
    /\ s.panicked => t.panicked
    /\ Clean(s) => Clean(t)
    /\ Stored(s) => Stored(t)
    /\ Posted(s) => Posted(t)
    /\ Unplugged(s) => Unplugged(t)

\* What every operator but on_connect keeps: no Logon is written, nothing is
\* written without a writer, and there is no way out of Disconnected.
Wired(s, t) ==
    /\ Of(t.out, "Logon") = Of(s.out, "Logon")
    /\ s.writer # "open" => t.writer # "open" /\ t.out = s.out
    /\ s.state.st = "Disconnected" => t.state.st = "Disconnected"
    /\ Invited(s) => Invited(t)

\* The states an operator may go to that opens no gap and closes none.
Milder(a, b) ==
    /\ b.st \in {a.st, "Disconnected", "AwaitingLogout"} \/ (a.st = "AwaitingLogon" /\ b.st = "Active")
    /\ a.st = "AwaitingResend" /\ b.st = "AwaitingResend" => b.begin = a.begin /\ b.attempts = a.attempts
    /\ Awaits(b) => Awaits(a)

\* What an operator keeps that neither asks for a resend nor delivers a message.
Calm(s, t) ==
    /\ Of(t.out, "ResendRequest") = Of(s.out, "ResendRequest")
    /\ Delivered(t) = Delivered(s)
    /\ Milder(s.state, t.state)

Leads(s, t) == Moves(s, t) /\ Kept(s, t)
Reaches(s, t) == Leads(s, t) /\ Wired(s, t)
Follows(s, t) == Reaches(s, t) /\ Calm(s, t)

-----------------------------------------------------------------------------
(* The relations *)

\* The fields of a session have the types of the record they come from.
LEMMA FieldTypes ==
  ASSUME NEW s \in Session
  PROVE  /\ s.state \in State
         /\ s.store \in Store
         /\ s.store.log \in Seq(Kind) /\ s.store.target \in Nat
         /\ s.out \in Seq(Outbound) /\ s.calls \in Seq(Call) /\ s.backlog \in Seq(Message)
  BY DEF Session, Store

\* The stronger relations contain the weaker ones.
LEMMA Weaker ==
  ASSUME NEW s, NEW t
  PROVE  /\ Moves(s, t) => Sound(t)
         /\ Leads(s, t) => Moves(s, t) /\ Sound(t)
         /\ Reaches(s, t) => Leads(s, t) /\ Moves(s, t) /\ Sound(t)
         /\ Follows(s, t) => Reaches(s, t) /\ Leads(s, t) /\ Moves(s, t) /\ Sound(t)
  BY Zenon DEF Moves, Leads, Reaches, Follows

\* Milder states of milder states.
LEMMA MilderStill ==
  ASSUME NEW a, NEW b, NEW c, Milder(a, b), Milder(b, c),
         a.st = "Disconnected" => b.st = "Disconnected",
         b.st = "Disconnected" => c.st = "Disconnected"
  PROVE  Milder(a, c)
  BY DEF Milder

\* Each relation is transitive.
LEMMA Transitive ==
  ASSUME NEW s, NEW t, NEW u, Sound(s)
  PROVE  /\ Moves(s, t) /\ Moves(t, u) => Moves(s, u)
         /\ Leads(s, t) /\ Leads(t, u) => Leads(s, u)
         /\ Reaches(s, t) /\ Reaches(t, u) => Reaches(s, u)
         /\ Follows(s, t) /\ Follows(t, u) => Follows(s, u)
  <1>1. ASSUME Moves(s, t), Moves(t, u)
        PROVE  Moves(s, u)
    <2>1. s.store.target \in Nat /\ t.store.target \in Nat /\ u.store.target \in Nat
      BY <1>1, Zenon DEF Moves, Sound, Session, Store
    <2>2. t.store.target >= s.store.target /\ u.store.target >= t.store.target
             => u.store.target >= s.store.target
      BY <2>1
    <2> QED
      BY <1>1, <2>2, Zenon DEF Moves, Onward
  <1>2. Kept(s, t) /\ Kept(t, u) => Kept(s, u)
    BY Zenon DEF Kept
  <1>3. Wired(s, t) /\ Wired(t, u) => Wired(s, u)
    BY Zenon DEF Wired
  <1>4. Wired(s, t) /\ Wired(t, u) /\ Calm(s, t) /\ Calm(t, u) => Calm(s, u)
    BY MilderStill, Zenon DEF Calm, Wired
  <1> QED
    BY <1>1, <1>2, <1>3, <1>4, Zenon DEF Leads, Reaches, Follows

\* Deliveries are read off the callbacks.
LEMMA SameCalls ==
  ASSUME NEW s, NEW t, t.calls = s.calls
  PROVE  Delivered(t) = Delivered(s)
  BY DEF Delivered

\* A record that differs from a sound one in none of the fields that matter.
LEMMA Untouched ==
  ASSUME NEW s, NEW t \in Session, Sound(s),
         t.state = s.state, t.store = s.store, t.resets = s.resets,
         t.out = s.out, t.calls = s.calls, t.writer = s.writer, t.answer = s.answer,
         s.panicked => t.panicked, Clean(s) => Clean(t)
  PROVE  Follows(s, t)
  <1>1. Window(t)
    BY DEF Sound, Window
  <1>2. t.store.target >= s.store.target /\ s.resets \in BOOLEAN
    BY DEF Sound, Session, Store
  <1>3. Moves(s, t)
    BY <1>1, <1>2, Zenon DEF Moves, Onward, Sound
  <1>4. Kept(s, t)
    BY Zenon DEF Kept, Stored, Filed, Posted, Unplugged
  <1>5. Wired(s, t)
    BY Zenon DEF Wired, Invited
  <1>6. Calm(s, t)
    BY Zenon DEF Calm, Milder, Delivered
  <1> QED
    BY <1>3, <1>4, <1>5, <1>6 DEF Leads, Reaches, Follows

\* A session follows itself, when it is sound.
LEMMA Reflexive ==
  ASSUME NEW s, Sound(s)
  PROVE  Follows(s, s)
  BY Untouched DEF Sound

\* The assignments to single fields.  An error is new only if the store failed, ...
LEMMA PutErr ==
  ASSUME NEW s, NEW t, Sound(s), Follows(s, t), NEW b \in BOOLEAN, Clean(s) => ~b
  PROVE  Follows(s, [t EXCEPT !.err = b]) /\ [t EXCEPT !.err = b].state = t.state
  <1> DEFINE r == [t EXCEPT !.err = b]
  <1>1. t \in Session /\ Sound(t)
    BY Zenon DEF Follows, Reaches, Leads, Moves, Sound
  <1>2. r \in Session
    BY <1>1, Zenon DEF Session
  <1>3. /\ r.state = t.state /\ r.store = t.store /\ r.resets = t.resets
        /\ r.out = t.out /\ r.calls = t.calls /\ r.writer = t.writer /\ r.answer = t.answer
        /\ r.panicked = t.panicked /\ r.fault = t.fault /\ r.err = b
    BY <1>1, Zenon DEF Session
  <1> HIDE DEF r
  <1>4. Moves(t, r)
    <2>1. Window(r)
      BY <1>1, <1>3 DEF Sound, Window
    <2>2. r.store.target >= r.store.target /\ r.resets \in BOOLEAN
      BY <1>2 DEF Session, Store
    <2> QED
      BY <1>2, <1>3, <2>1, <2>2, Zenon DEF Moves, Onward, Sound
  <1>5. Moves(s, r)
    BY <1>4, Transitive, Weaker
  <1>6. Kept(s, r)
    <2>1. Clean(s) => Clean(t)
      BY DEF Follows, Reaches, Leads, Kept
    <2>2. Clean(s) => Clean(r)
      BY <1>3, <2>1, Zenon DEF Clean
    <2>3. Stored(t) => Stored(r)
      BY <1>3, Zenon DEF Stored, Filed
    <2>4. (Posted(t) => Posted(r)) /\ (Unplugged(t) => Unplugged(r))
      BY <1>3, Zenon DEF Posted, Unplugged
    <2> QED
      BY <1>3, <2>2, <2>3, <2>4, Zenon DEF Follows, Reaches, Leads, Kept
  <1>7. Wired(s, r)
    BY <1>3, Zenon DEF Follows, Reaches, Wired, Invited
  <1>8. Calm(s, r)
    <2>1. Delivered(r) = Delivered(t)
      BY <1>3, Zenon DEF Delivered
    <2> QED
      BY <1>3, <2>1, Zenon DEF Follows, Calm
  <1> QED
    BY <1>3, <1>5, <1>6, <1>7, <1>8, Zenon DEF Follows, Reaches, Leads, r

\* ... which is the case when a call of the store has just failed.
LEMMA Fails ==
  ASSUME NEW s, Sound(s), s.fault # "none"
  PROVE  Follows(s, [s EXCEPT !.err = TRUE]) /\ [s EXCEPT !.err = TRUE].state = s.state
  BY Reflexive, PutErr, Zenon DEF Clean

\* The task dies.
LEMMA PutPanicked ==
  ASSUME NEW s, Sound(s)
  PROVE  Follows(s, [s EXCEPT !.panicked = TRUE])
  <1>1. s \in Session
    BY DEF Sound
  <1>2. [s EXCEPT !.panicked = TRUE] \in Session
    BY <1>1, Zenon DEF Session
  <1> QED
    BY <1>1, <1>2, Untouched, Zenon DEF Session, Clean

\* The writer is told to stop.
LEMMA DisconnectWriter ==
  ASSUME NEW s, Sound(s)
  PROVE  LET t == disconnect_writer(s)
         IN  Follows(s, t) /\ t.state = s.state /\ t.store = s.store /\ t.resets = s.resets
  <1> SUFFICES ASSUME s.writer = "open"
               PROVE  LET t == disconnect_writer(s)
                      IN  Follows(s, t) /\ t.state = s.state /\ t.store = s.store /\ t.resets = s.resets
    BY Reflexive DEF disconnect_writer
  <1> DEFINE r == [s EXCEPT !.writer = "closed"]
  <1>1. s \in Session
    BY DEF Sound
  <1>2. r \in Session
    BY <1>1, Zenon DEF Session
  <1>3. /\ r.state = s.state /\ r.store = s.store /\ r.resets = s.resets
        /\ r.out = s.out /\ r.calls = s.calls /\ r.answer = s.answer
        /\ r.panicked = s.panicked /\ r.fault = s.fault /\ r.err = s.err /\ r.writer = "closed"
    BY <1>1, Zenon DEF Session
  <1>4. r = disconnect_writer(s)
    BY DEF disconnect_writer
  <1> HIDE DEF r
  <1>5. Moves(s, r)
    <2>1. Window(r)
      BY <1>3 DEF Sound, Window
    <2>2. r.store.target >= r.store.target /\ r.resets \in BOOLEAN
      BY <1>2 DEF Session, Store
    <2> QED
      BY <1>2, <1>3, <2>1, <2>2, Zenon DEF Moves, Onward, Sound
  <1>6. Kept(s, r)
    <2>1. Unplugged(s) => Unplugged(r)
      BY <1>3 DEF Unplugged
    <2> QED
      BY <1>3, <2>1, Zenon DEF Kept, Clean, Stored, Filed, Posted
  <1>7. Wired(s, r)
    BY <1>3 DEF Wired, Invited
  <1>8. Calm(s, r)
    BY <1>3, ZenonT(30) DEF Calm, Milder, Delivered
  <1> QED
    BY <1>3, <1>4, <1>5, <1>6, <1>7, <1>8, Zenon DEF Follows, Reaches, Leads

\* The messages left to replay.
LEMMA PutBacklog ==
  ASSUME NEW s, Sound(s), NEW q \in Seq(Message)
  PROVE  Follows(s, [s EXCEPT !.backlog = q])
  <1>1. s \in Session
    BY DEF Sound
  <1>2. [s EXCEPT !.backlog = q] \in Session
    BY <1>1, Zenon DEF Session
  <1> QED
    BY <1>1, <1>2, Untouched, Zenon DEF Session, Clean

\* The flag that the next Logon resets the numbers.
LEMMA PutResetOnLogon ==
  ASSUME NEW s, Sound(s), NEW b \in BOOLEAN
  PROVE  Follows(s, [s EXCEPT !.reset_on_next_logon = b])
  <1>1. s \in Session
    BY DEF Sound
  <1>2. [s EXCEPT !.reset_on_next_logon = b] \in Session
    BY <1>1, Zenon DEF Session
  <1> QED
    BY <1>1, <1>2, Untouched, ZenonT(30) DEF Session, Clean

\* A new store: its target number is not lower, and its log no shorter.
LEMMA PutStore ==
  ASSUME NEW s, Sound(s), NEW x \in Store, x.target >= s.store.target,
         \A n \in DOMAIN s.store.log : n \in DOMAIN x.log /\ x.log[n] = s.store.log[n]
  PROVE  Follows(s, [s EXCEPT !.store = x]) /\ [s EXCEPT !.store = x].state = s.state
  <1>1. s \in Session
    BY DEF Sound
  <1> DEFINE r == [s EXCEPT !.store = x]
  <1>2. r \in Session
    BY <1>1, SMTT(20) DEF Session
  <1>3. /\ r.state = s.state /\ r.store = x /\ r.resets = s.resets
        /\ r.out = s.out /\ r.calls = s.calls /\ r.writer = s.writer /\ r.answer = s.answer
        /\ r.panicked = s.panicked /\ r.fault = s.fault /\ r.err = s.err
    BY <1>1 DEF Session
  <1> HIDE DEF r
  <1>4. Moves(s, r)
    <2>1. Window(r)
      BY <1>3 DEF Sound, Window
    <2> QED
      BY <1>2, <1>3, <2>1, Zenon DEF Moves, Onward, Sound
  <1>5. Kept(s, r)
    <2>1. ASSUME NEW m, Filed(s, m)
          PROVE  Filed(r, m)
      BY <1>3, <2>1 DEF Filed
    <2>2. Stored(s) => Stored(r)
      BY <1>3, <2>1, Zenon DEF Stored
    <2> QED
      BY <1>3, <2>2, Zenon DEF Kept, Clean, Posted, Unplugged
  <1>6. Wired(s, r)
    BY <1>3, Zenon DEF Wired, Invited
  <1>7. Calm(s, r)
    <2>1. Milder(s.state, r.state)
      BY <1>3 DEF Milder
    <2>2. Delivered(r) = Delivered(s)
      BY <1>3, SameCalls
    <2> QED
      BY <1>3, <2>1, <2>2, Zenon DEF Calm
  <1> QED
    BY <1>3, <1>4, <1>5, <1>6, <1>7, Zenon DEF Follows, Reaches, Leads, r

\* A new state of the same variant, that keeps the window and whose awaiter
\* is the same.
LEMMA PutState ==
  ASSUME NEW s, Sound(s), NEW t \in State, Window([state |-> t]),
         t.st = s.state.st, Awaits(t) = Awaits(s.state)
  PROVE  /\ Reaches(s, [s EXCEPT !.state = t]) /\ [s EXCEPT !.state = t].state = t
         /\ Milder(s.state, t) => Follows(s, [s EXCEPT !.state = t])
  <1>1. s \in Session
    BY DEF Sound
  <1> DEFINE r == [s EXCEPT !.state = t]
  <1>2. r \in Session
    BY <1>1, Zenon DEF Session
  <1>3. /\ r.state = t /\ r.store = s.store /\ r.resets = s.resets
        /\ r.out = s.out /\ r.calls = s.calls /\ r.writer = s.writer /\ r.answer = s.answer
        /\ r.panicked = s.panicked /\ r.fault = s.fault /\ r.err = s.err
    BY <1>1, Zenon DEF Session
  <1> HIDE DEF r
  <1>4. Moves(s, r)
    <2>1. Window(r)
      BY <1>3 DEF Window
    <2>2. r.store.target >= r.store.target /\ r.resets \in BOOLEAN
      BY <1>2 DEF Session, Store
    <2> QED
      BY <1>2, <1>3, <2>1, <2>2, Zenon DEF Moves, Onward, Sound
  <1>5. Kept(s, r)
    BY <1>3, Zenon DEF Kept, Clean, Stored, Filed, Posted, Unplugged
  <1>6. Wired(s, r)
    BY <1>3, Zenon DEF Wired, Invited
  <1>7. Milder(s.state, t) => Calm(s, r)
    BY <1>3, ZenonT(30) DEF Calm, Delivered
  <1> QED
    BY <1>3, <1>4, <1>5, <1>6, <1>7, Zenon DEF Follows, Reaches, Leads, r

\* A callback is recorded; only on_inbound_message delivers something.
LEMMA Called ==
  ASSUME NEW s, Sound(s), NEW c \in Call
  PROVE  LET r == [s EXCEPT !.calls = Append(@, c)]
             b == c.cb = "on_inbound_message" /\ c.verified
         IN  /\ Reaches(s, r)
             /\ ~b => Follows(s, r)
             /\ b => Delivered(r) = Delivered(s) \cup {c.seq}
             /\ r.state = s.state /\ r.store = s.store /\ r.resets = s.resets /\ r.out = s.out
             /\ r.writer = s.writer
  <1> DEFINE q == Append(s.calls, c)
             r == [s EXCEPT !.calls = q]
             b == c.cb = "on_inbound_message" /\ c.verified
             D(z) == {z[i].seq : i \in {j \in DOMAIN z : z[j].cb = "on_inbound_message" /\ z[j].verified}}
  <1>1. s \in Session /\ s.calls \in Seq(Call)
    BY FieldTypes DEF Sound
  <1>2. /\ q \in Seq(Call)
        /\ Len(q) = Len(s.calls) + 1 /\ Len(s.calls) \in Nat
        /\ DOMAIN q = 1 .. Len(q) /\ DOMAIN s.calls = 1 .. Len(s.calls)
        /\ \A i \in DOMAIN s.calls : q[i] = s.calls[i]
        /\ q[Len(s.calls) + 1] = c
    BY <1>1, AppendProperties, LenProperties
  <1>3. [s EXCEPT !.calls = Append(@, c)] = r
    BY <1>1 DEF Session
  <1> HIDE DEF q
  <1>4. r \in Session
    BY <1>1, <1>2, Zenon DEF Session
  <1>5. /\ r.state = s.state /\ r.store = s.store /\ r.resets = s.resets
        /\ r.out = s.out /\ r.calls = q /\ r.writer = s.writer /\ r.answer = s.answer
        /\ r.panicked = s.panicked /\ r.fault = s.fault /\ r.err = s.err
    BY <1>1, Zenon DEF Session
  <1> HIDE DEF r
  <1>6. DOMAIN q = DOMAIN s.calls \cup {Len(s.calls) + 1}
    BY <1>2
  <1>7. ~b => D(q) = D(s.calls)
    BY <1>2, <1>6, Zenon
  <1>8. b => D(q) = D(s.calls) \cup {c.seq}
    <2> SUFFICES ASSUME b
                 PROVE  D(q) = D(s.calls) \cup {c.seq}
      OBVIOUS
    <2>1. Len(s.calls) + 1 \in DOMAIN q /\ q[Len(s.calls) + 1] = c
      BY <1>2, <1>6
    <2>2. c.seq \in D(q)
      BY <2>1, Zenon
    <2>3. D(s.calls) \subseteq D(q)
      BY <1>2, <1>6, Zenon
    <2>4. ASSUME NEW j \in DOMAIN q, q[j].cb = "on_inbound_message" /\ q[j].verified
          PROVE  q[j].seq \in D(s.calls) \cup {c.seq}
      BY <1>2, <1>6, <2>4, Zenon
    <2>5. D(q) \subseteq D(s.calls) \cup {c.seq}
      BY <2>4, Zenon
    <2> QED
      BY <2>2, <2>3, <2>5, Zenon
  <1>9. Delivered(r) = D(q) /\ Delivered(s) = D(s.calls)
    BY <1>5, Zenon DEF Delivered
  <1>10. Moves(s, r)
    <2>1. Window(r)
      BY <1>5 DEF Sound, Window
    <2>2. r.store.target >= r.store.target /\ r.resets \in BOOLEAN
      BY <1>4 DEF Session, Store
    <2> QED
      BY <1>4, <1>5, <2>1, <2>2, Zenon DEF Moves, Onward, Sound
  <1>11. Kept(s, r) /\ Wired(s, r)
    BY <1>5, Zenon DEF Kept, Clean, Stored, Filed, Posted, Unplugged, Wired, Invited
  <1>12. ~b => Calm(s, r)
    BY <1>5, <1>7, <1>9, Zenon DEF Calm, Milder
  <1> QED
    BY <1>3, <1>5, <1>8, <1>9, <1>10, <1>11, <1>12, Zenon DEF Follows, Reaches, Leads

-----------------------------------------------------------------------------
(* The store *)

\* increment_target moves the target number up, or fails.
LEMMA IncrementTarget ==
  ASSUME NEW s, Sound(s)
  PROVE  /\ Follows(s, increment_target(s)) /\ increment_target(s).state = s.state
         /\ increment_target(s).resets = s.resets
         /\ Clean(s) => increment_target(s).store.target = s.store.target + 1
  <1> DEFINE x == [s.store EXCEPT !.target = s.store.target + 1]
             r == [s EXCEPT !.store = x]
  <1>1. s \in Session /\ s.store \in Store
    BY FieldTypes DEF Sound
  <1>2. x \in Store /\ x.target >= s.store.target /\ x.log = s.store.log
        /\ x.target = s.store.target + 1
    BY <1>1 DEF Store
  <1>3. [s EXCEPT !.store.target = @ + 1] = r
    BY <1>1 DEF Session
  <1> HIDE DEF x
  <1>4. Follows(s, r) /\ r.state = s.state
    BY <1>2, PutStore
  <1>5. r.store = x /\ r.resets = s.resets /\ [s EXCEPT !.err = TRUE].resets = s.resets
    BY <1>1 DEF Session
  <1> HIDE DEF r
  <1>6. CASE s.fault = "increment_target"
    BY <1>5, <1>6, Fails DEF increment_target, Clean
  <1>7. CASE s.fault # "increment_target"
    BY <1>2, <1>3, <1>4, <1>5, <1>7, Zenon DEF increment_target
  <1> QED
    BY <1>6, <1>7

\* set_target with a number that is not lower; any number keeps the session
\* sound and leaves everything but the number alone.
LEMMA SetTarget ==
  ASSUME NEW s, Sound(s), NEW n \in Nat
  PROVE  LET t == set_target(s, n)
         IN  /\ Sound(t) /\ t.state = s.state /\ Kept(s, t) /\ Wired(s, t)
             /\ t.resets = s.resets /\ t.backlog = s.backlog /\ t.answer = s.answer
             /\ t.panicked = s.panicked
             /\ n >= s.store.target => Follows(s, t)
  <1> DEFINE x == [s.store EXCEPT !.target = n]
             r == [s EXCEPT !.store = x]
             e == [s EXCEPT !.err = TRUE]
  <1>1. s \in Session /\ s.store \in Store
    BY FieldTypes DEF Sound
  <1>2. x \in Store /\ x.target = n /\ x.log = s.store.log
    BY <1>1 DEF Store
  <1>3. [s EXCEPT !.store.target = n] = r
    BY <1>1 DEF Session
  <1>4. n >= s.store.target => Follows(s, r)
    BY <1>2, PutStore, Zenon
  <1> HIDE DEF x
  <1>5. r \in Session
    BY <1>1, <1>2, Zenon DEF Session
  <1>6. /\ r.state = s.state /\ r.store = x /\ r.resets = s.resets
        /\ r.out = s.out /\ r.calls = s.calls /\ r.writer = s.writer /\ r.answer = s.answer
        /\ r.panicked = s.panicked /\ r.fault = s.fault /\ r.err = s.err /\ r.backlog = s.backlog
    BY <1>1 DEF Session
  <1> HIDE DEF r
  <1>7. Sound(r)
    BY <1>5, <1>6 DEF Sound, Window
  <1>8. Kept(s, r) /\ Wired(s, r)
    BY <1>2, <1>6, Zenon DEF Kept, Clean, Stored, Filed, Posted, Unplugged, Wired, Invited
  <1>9. CASE s.fault = "set_target"
    <2>1. Follows(s, e) /\ e.state = s.state
      BY <1>9, Fails
    <2>2. e.resets = s.resets /\ e.backlog = s.backlog /\ e.answer = s.answer /\ e.panicked = s.panicked
      BY <1>1 DEF Session
    <2> HIDE DEF e
    <2> QED
      BY <1>9, <2>1, <2>2, Weaker, Zenon DEF set_target, Follows, Reaches, Leads, e
  <1>10. CASE s.fault # "set_target"
    BY <1>3, <1>4, <1>6, <1>7, <1>8, <1>10, Zenon DEF set_target
  <1> QED
    BY <1>9, <1>10

\* reset clears the store, or fails, or both.
LEMMA Reset ==
  ASSUME NEW s, Sound(s), NEW n \in Nat
  PROVE  Follows(s, reset(s, n)) /\ reset(s, n).state = s.state
  <1> DEFINE r == cleared(s, n)
  <1>1. s \in Session
    BY DEF Sound
  <1>2. << >> \in Seq(Kind)
    OBVIOUS
  <1>3. r \in Session
    BY <1>1, <1>2, Zenon DEF Session, Store, cleared
  <1>4. /\ r.state = s.state /\ r.resets = TRUE
        /\ r.out = s.out /\ r.calls = s.calls /\ r.writer = s.writer /\ r.answer = s.answer
        /\ r.panicked = s.panicked /\ r.fault = s.fault /\ r.err = s.err
    BY <1>1 DEF Session, cleared
  <1> HIDE DEF r
  <1>5. Moves(s, r)
    BY <1>3, <1>4 DEF Sound, Window, Moves, Onward
  <1>6. Kept(s, r) /\ Wired(s, r)
    BY <1>4, Zenon DEF Kept, Clean, Stored, Posted, Unplugged, Wired, Invited
  <1>7. Calm(s, r)
    BY <1>4, SameCalls, Zenon DEF Calm, Milder
  <1>8. Follows(s, r)
    BY <1>5, <1>6, <1>7, Zenon DEF Follows, Reaches, Leads
  <1>9. s.fault # "none" => Follows(s, [r EXCEPT !.err = TRUE]) /\ [r EXCEPT !.err = TRUE].state = r.state
    BY <1>8, PutErr, Zenon DEF Clean
  <1>10. s.fault # "none" => Follows(s, [s EXCEPT !.err = TRUE]) /\ [s EXCEPT !.err = TRUE].state = s.state
    BY Fails
  <1> QED
    BY <1>4, <1>8, <1>9, <1>10 DEF reset, r

-----------------------------------------------------------------------------
(* Sending *)

\* A message appended to a sequence of messages is one more of its type.
LEMMA AppendOf ==
  ASSUME NEW q \in Seq(Outbound), NEW m \in Outbound, NEW type
  PROVE  /\ m.type # type => Of(Append(q, m), type) = Of(q, type)
         /\ Of(Append(q, m), type) \subseteq Of(q, type) \cup {Len(q) + 1}
         /\ Append(q, m) \in Seq(Outbound)
         /\ \A i \in DOMAIN Append(q, m) : (i \in DOMAIN q /\ Append(q, m)[i] = q[i]) \/ Append(q, m)[i] = m
  <1> DEFINE r == Append(q, m)
  <1>1. /\ r \in Seq(Outbound)
        /\ Len(r) = Len(q) + 1 /\ Len(q) \in Nat
        /\ DOMAIN r = 1 .. Len(r) /\ DOMAIN q = 1 .. Len(q)
        /\ \A i \in DOMAIN q : r[i] = q[i]
        /\ r[Len(q) + 1] = m
    BY AppendProperties, LenProperties
  <1>2. DOMAIN r = DOMAIN q \cup {Len(q) + 1}
    BY <1>1
  <1> HIDE DEF r
  <1>3. \A i \in DOMAIN r : (i \in DOMAIN q /\ r[i] = q[i]) \/ r[i] = m
    BY <1>1, <1>2, Zenon
  <1>4. m.type # type => Of(r, type) = Of(q, type)
    BY <1>1, <1>2, Zenon DEF Of
  <1>5. Of(r, type) \subseteq Of(q, type) \cup {Len(q) + 1}
    BY <1>1, <1>2, Zenon DEF Of
  <1> QED
    BY <1>1, <1>3, <1>4, <1>5 DEF r

\* send_raw_message writes only through an open writer, and what it writes
\* has been stored.
LEMMA SendRaw ==
  ASSUME NEW s, Sound(s), NEW m \in Outbound, Filed(s, m)
  PROVE  LET t == send_raw_message(s, m)
         IN  /\ Leads(s, t)
             /\ m.type # "Logon" => Reaches(s, t)
             /\ m.type # "ResendRequest" => Calm(s, t)
             /\ OneMore(s.out, t.out)
             /\ t.state = s.state /\ t.store = s.store /\ t.resets = s.resets
             /\ t.calls = s.calls /\ t.err = s.err
  <1>1. s \in Session /\ s.out \in Seq(Outbound)
    BY FieldTypes DEF Sound
  <1>2. CASE s.writer # "open"
    <2>1. send_raw_message(s, m) = s
      BY <1>2 DEF send_raw_message
    <2>2. OneMore(s.out, s.out)
      BY Zenon DEF OneMore
    <2> QED
      BY <2>1, <2>2, Reflexive DEF Follows, Reaches
  <1>3. CASE s.writer = "open"
    <2> DEFINE q == Append(s.out, m)
               r == [s EXCEPT !.out = q]
    <2>1. r = send_raw_message(s, m)
      BY <1>1, <1>3 DEF send_raw_message, Session
    <2>2. /\ q \in Seq(Outbound)
          /\ \A type : Of(q, type) \subseteq Of(s.out, type) \cup {Len(s.out) + 1}
          /\ \A type : m.type # type => Of(q, type) = Of(s.out, type)
          /\ \A i \in DOMAIN q : (i \in DOMAIN s.out /\ q[i] = s.out[i]) \/ q[i] = m
      BY <1>1, AppendOf, Zenon
    <2> HIDE DEF q
    <2>3. r \in Session
      BY <1>1, <2>2, Zenon DEF Session
    <2>4. /\ r.state = s.state /\ r.store = s.store /\ r.resets = s.resets
          /\ r.out = q /\ r.calls = s.calls /\ r.writer = s.writer /\ r.answer = s.answer
          /\ r.panicked = s.panicked /\ r.fault = s.fault /\ r.err = s.err
      BY <1>1, Zenon DEF Session
    <2> HIDE DEF r
    <2>5. Moves(s, r)
      <3>1. Window(r)
        BY <2>4 DEF Sound, Window
      <3>2. r.store.target >= r.store.target /\ r.resets \in BOOLEAN
        BY <2>3 DEF Session, Store
      <3> QED
        BY <2>3, <2>4, <3>1, <3>2, Zenon DEF Moves, Onward, Sound
    <2>6. Stored(s) => Stored(r)
      <3>1. \A x : Filed(s, x) => Filed(r, x)
        BY <2>4, Zenon DEF Filed
      <3> QED
        BY <2>2, <2>4, <3>1, Zenon DEF Stored
    <2>7. Kept(s, r)
      BY <2>4, <2>6, Zenon DEF Kept, Clean, Posted, Unplugged
    <2>8. m.type # "Logon" => Wired(s, r)
      BY <1>3, <2>2, <2>4, Zenon DEF Wired, Invited
    <2>9. m.type # "ResendRequest" => Calm(s, r)
      <3>1. Milder(s.state, r.state)
        BY <2>4 DEF Milder
      <3>2. Delivered(r) = Delivered(s)
        BY <2>4, SameCalls
      <3> QED
        BY <2>2, <2>4, <3>1, <3>2, Zenon DEF Calm
    <2>10. OneMore(s.out, r.out)
      BY <2>2, <2>4, Zenon DEF OneMore
    <2> QED
      BY <2>1, <2>4, <2>5, <2>7, <2>8, <2>9, <2>10, Zenon DEF Reaches, Leads
  <1> QED
    BY <1>2, <1>3

\* prepare_message takes a number, files the message under it if it does not
\* fail, and leaves the rest alone.
LEMMA PrepareMessage ==
  ASSUME NEW s, Sound(s), NEW type \in MsgType
  PROVE  LET p == prepare_message(s, type)
         IN  /\ Follows(s, p)
             /\ p.state = s.state /\ p.resets = s.resets /\ p.calls = s.calls /\ p.out = s.out
             /\ p.writer = s.writer /\ p.store.target = s.store.target
             /\ ~p.err => \A begin, end : Filed(p, Fresh(s, type, begin, end))
  <1>1. s \in Session /\ s.store \in Store /\ s.store.log \in Seq(Kind) /\ s.store.target \in Nat
    BY FieldTypes DEF Sound
  <1> DEFINE log(k) == Append(s.store.log, k)
             x(k) == [s.store EXCEPT !.log = log(k)]
             r(k) == [s EXCEPT !.store = x(k)]
             Same(p) == /\ p.state = s.state /\ p.resets = s.resets /\ p.calls = s.calls /\ p.out = s.out
                        /\ p.writer = s.writer /\ p.store.target = s.store.target
  <1>2. ASSUME NEW k \in Kind
        PROVE  /\ log(k) \in Seq(Kind)
               /\ \A n \in DOMAIN s.store.log : n \in DOMAIN log(k) /\ log(k)[n] = s.store.log[n]
               /\ NextSender(s) \in DOMAIN log(k) /\ log(k)[NextSender(s)] = k
    BY <1>1, AppendProperties, LenProperties DEF NextSender
  <1> HIDE DEF log
  <1>3. ASSUME NEW k \in Kind
        PROVE  x(k) \in Store /\ x(k).target = s.store.target /\ x(k).log = log(k)
    <2>1. ASSUME NEW l \in Seq(Kind)
          PROVE  /\ [s.store EXCEPT !.log = l] \in Store
                 /\ [s.store EXCEPT !.log = l].target = s.store.target
                 /\ [s.store EXCEPT !.log = l].log = l
      BY <1>1 DEF Store
    <2> QED
      BY <1>2, <2>1, Zenon
  <1>4. ASSUME NEW k \in Kind
        PROVE  [s EXCEPT !.store.log = Append(@, k)] = r(k)
    BY <1>1 DEF Session, log
  <1>5. ASSUME NEW k \in Kind
        PROVE  [s EXCEPT !.store.log = Append(@, k), !.err = TRUE] = [r(k) EXCEPT !.err = TRUE]
    BY <1>1 DEF Session, log
  <1> HIDE DEF x
  <1>6. ASSUME NEW k \in Kind
        PROVE  Follows(s, r(k)) /\ r(k).store = x(k) /\ Same(r(k)) /\ r(k) \in Session
    <2>1. x(k).target >= s.store.target
      BY <1>1, <1>3
    <2>2. Follows(s, r(k))
      <3>1. \A n \in DOMAIN s.store.log : n \in DOMAIN x(k).log /\ x(k).log[n] = s.store.log[n]
        BY <1>2, <1>3
      <3>2. x(k) \in Store
        BY <1>3
      <3> QED
        BY <2>1, <3>1, <3>2, PutStore
    <2>3. /\ r(k).state = s.state /\ r(k).resets = s.resets /\ r(k).calls = s.calls /\ r(k).out = s.out
          /\ r(k).writer = s.writer /\ r(k).store = x(k)
      BY <1>1 DEF Session
    <2>4. r(k) \in Session
      BY <1>1, <1>3, Zenon DEF Session
    <2> QED
      BY <1>3, <2>2, <2>3, <2>4
  <1>7. kind_of(type) \in Kind /\ "hole" \in Kind
    BY DEF kind_of, Kind
  <1>8. ASSUME NEW k \in Kind, s.fault # "none"
        PROVE  /\ Follows(s, [r(k) EXCEPT !.err = TRUE])
               /\ Same([r(k) EXCEPT !.err = TRUE]) /\ [r(k) EXCEPT !.err = TRUE].err
    <2>1. Follows(s, r(k)) /\ Same(r(k)) /\ r(k) \in Session
      BY <1>6
    <2> HIDE DEF r
    <2>2. Follows(s, [r(k) EXCEPT !.err = TRUE])
      BY <1>8, <2>1, PutErr, Zenon DEF Clean
    <2> QED
      BY <2>1, <2>2 DEF Session
  <1>9. s.fault # "none" => /\ Follows(s, [s EXCEPT !.err = TRUE])
                            /\ Same([s EXCEPT !.err = TRUE]) /\ [s EXCEPT !.err = TRUE].err
    BY <1>1, Fails DEF Session
  <1>10. ASSUME NEW begin, NEW end
         PROVE  Filed(r(kind_of(type)), Fresh(s, type, begin, end))
    <2>1. Fresh(s, type, begin, end).type = type /\ Fresh(s, type, begin, end).seq = NextSender(s)
      BY DEF Fresh
    <2>2. r(kind_of(type)).store.log = log(kind_of(type))
      BY <1>3, <1>6, <1>7
    <2> HIDE DEF r
    <2> QED
      BY <1>2, <1>7, <2>1, <2>2 DEF Filed
  <1> HIDE DEF r, Same
  <1>11. CASE s.fault = "increment_sender"
    BY <1>9, <1>11, Zenon DEF prepare_message, Same
  <1>12. CASE s.fault = "add"
    <2>1. prepare_message(s, type) = [r("hole") EXCEPT !.err = TRUE]
      BY <1>5, <1>7, <1>12, Zenon DEF prepare_message
    <2> QED
      BY <1>7, <1>8, <1>12, <2>1, ZenonT(30) DEF Same
  <1>13. CASE s.fault = "add_late"
    <2>1. prepare_message(s, type) = [r(kind_of(type)) EXCEPT !.err = TRUE]
      BY <1>5, <1>7, <1>13, Zenon DEF prepare_message
    <2> QED
      BY <1>7, <1>8, <1>13, <2>1, ZenonT(30) DEF Same
  <1>14. CASE s.fault \notin {"increment_sender", "add", "add_late"}
    <2>1. prepare_message(s, type) = r(kind_of(type))
      BY <1>4, <1>7, <1>14 DEF prepare_message
    <2> QED
      BY <1>6, <1>7, <1>10, <2>1 DEF Same
  <1> QED
    BY <1>11, <1>12, <1>13, <1>14

\* What is written under a fresh number is an outbound message.
LEMMA FreshType ==
  ASSUME NEW s, Sound(s), NEW type \in MsgType, NEW begin \in Nat, NEW end \in Nat
  PROVE  Fresh(s, type, begin, end) \in Outbound /\ Fresh(s, type, begin, end).type = type
  <1>1. Len(s.store.log) \in Nat
    BY FieldTypes, LenProperties DEF Sound
  <1> QED
    BY <1>1 DEF Fresh, NextSender, Outbound

\* outbound::send_message leaves the state and the target number alone,
\* whether it fails or not; it writes nothing if it fails.
LEMMA OutboundSend ==
  ASSUME NEW s, Sound(s), NEW type \in MsgType \ {"Logon"}, NEW begin \in Nat, NEW end \in Nat
  PROVE  LET t == outbound_send(s, type, begin, end)
         IN  /\ Reaches(s, t)
             /\ type # "ResendRequest" \/ t.err => Follows(s, t)
             /\ OneMore(s.out, t.out)
             /\ t.state = s.state /\ t.store.target = s.store.target /\ t.resets = s.resets
             /\ t.calls = s.calls
  <1> DEFINE p == prepare_message(s, type)
             m == Fresh(s, type, begin, end)
             w == send_raw_message(p, m)
  <1>1. /\ Follows(s, p) /\ p.state = s.state /\ p.resets = s.resets /\ p.calls = s.calls
        /\ p.out = s.out /\ p.store.target = s.store.target
        /\ ~p.err => Filed(p, m)
    BY PrepareMessage
  <1>2. m \in Outbound /\ m.type = type
    BY FreshType
  <1>3. outbound_send(s, type, begin, end) = IF p.err THEN p ELSE w
    BY DEF outbound_send
  <1> HIDE DEF p, m
  <1>4. Sound(p) /\ Reaches(s, p)
    BY <1>1, Weaker
  <1>5. CASE p.err
    <2>1. OneMore(s.out, p.out)
      BY <1>1, Zenon DEF OneMore
    <2> QED
      BY <1>1, <1>3, <1>4, <1>5, <2>1, Zenon
  <1>6. CASE ~p.err
    <2>1. /\ Reaches(p, w)
          /\ type # "ResendRequest" => Calm(p, w)
          /\ OneMore(p.out, w.out)
          /\ w.state = p.state /\ w.store = p.store /\ w.resets = p.resets
          /\ w.calls = p.calls /\ w.err = p.err
      BY <1>1, <1>2, <1>4, <1>6, SendRaw
    <2> HIDE DEF w
    <2>2. Reaches(s, w)
      BY <1>4, <2>1, Transitive
    <2>3. type # "ResendRequest" => Follows(s, w)
      BY <1>1, <2>1, Transitive DEF Follows
    <2> QED
      BY <1>1, <1>3, <1>6, <2>1, <2>2, <2>3, Zenon
  <1> QED
    BY <1>5, <1>6

\* Answering a resend request moves no number.
LEMMA ResendMessages ==
  ASSUME NEW s, Sound(s), NEW begin \in Nat, NEW end \in Nat
  PROVE  Follows(s, resend_messages(s, begin, end))
  <1> DEFINE m == [type |-> "Resend", seq |-> begin, begin |-> begin, end |-> end]
  <1>1. m \in Outbound /\ m.type = "Resend"
    BY DEF Outbound
  <1> HIDE DEF m
  <1>2. Filed(s, m)
    BY <1>1 DEF Filed
  <1>3. Follows(s, send_raw_message(s, m))
    BY <1>1, <1>2, SendRaw DEF Follows
  <1> QED
    BY <1>3, PutPanicked, Fails DEF resend_messages, m

\* Each variant of SessionState has its own fields.
LEMMA Variants ==
  ASSUME NEW t \in State
  PROVE  /\ t.st = "Disconnected" => t \in Disconnected
         /\ t.st = "AwaitingLogon" => t \in AwaitingLogon
         /\ t.st = "Active" => t \in Active
         /\ t.st = "AwaitingResend" => t \in AwaitingResend
         /\ t.st = "AwaitingLogout" => t \in AwaitingLogout
  BY DEF State, Disconnected, AwaitingLogon, Active, AwaitingResend, AwaitingLogout

\* A state of another variant than Disconnected that keeps its variant.
LEMMA MilderSame ==
  ASSUME NEW a, NEW b, b.st = a.st, b.st \notin {"Disconnected", "AwaitingResend"}
  PROVE  Milder(a, b) /\ Awaits(b) = Awaits(a)
  BY DEF Milder, Awaits

\* send_message changes the state in one place: the Logon is marked as sent.
LEMMA SendMessage ==
  ASSUME NEW s, Sound(s), NEW type \in MsgType \ {"ResendRequest"}
  PROVE  LET t == send_message(s, type)
         IN  /\ Leads(s, t) /\ Calm(s, t)
             /\ type # "Logon" => Follows(s, t)
             /\ t.state.st = s.state.st
             /\ s.state.st # "AwaitingLogon" => t.state = s.state
             /\ t.store.target = s.store.target /\ t.resets = s.resets
             /\ Clean(s) /\ s.writer = "open" /\ type = "Logon"
                  /\ s.state.st = "AwaitingLogon" /\ ~s.state.logon_sent
                => t.out = Append(s.out, Fresh(s, type, 0, 0))
  <1> DEFINE p == prepare_message(s, type)
             m == Fresh(s, type, 0, 0)
             w == send_raw_message(p, m)
             l == [w EXCEPT !.state.logon_sent = TRUE]
             Fine(t) == /\ Leads(s, t) /\ Calm(s, t) /\ (type # "Logon" => Follows(s, t))
                        /\ t.state.st = s.state.st
                        /\ s.state.st # "AwaitingLogon" => t.state = s.state
                        /\ t.store.target = s.store.target /\ t.resets = s.resets
  <1>1. /\ Follows(s, p) /\ p.state = s.state /\ p.out = s.out /\ p.writer = s.writer
        /\ p.store.target = s.store.target /\ p.resets = s.resets
        /\ ~p.err => Filed(p, m)
    BY PrepareMessage
  <1>2. m \in Outbound /\ m.type = type
    BY FreshType
  <1>3. Clean(s) => ~p.err
    BY <1>1, SMTT(20) DEF Follows, Reaches, Leads, Kept, Clean
  <1>4. \/ p.err /\ send_message(s, type) = p
        \/ ~p.err /\ s.state.st # "AwaitingLogon" /\ send_message(s, type) \in {p, w}
        \/ ~p.err /\ s.state.st = "AwaitingLogon" /\ type # "Logon" /\ send_message(s, type) \in {p, w}
        \/ ~p.err /\ s.state.st = "AwaitingLogon" /\ type = "Logon" /\ s.state.logon_sent
              /\ send_message(s, type) = p
        \/ ~p.err /\ s.state.st = "AwaitingLogon" /\ type = "Logon" /\ ~s.state.logon_sent
              /\ send_message(s, type) = l
    <2> HIDE DEF p, w, l
    <2>1. is_logged_on(s) => s.state.st # "AwaitingLogon"
      BY DEF is_logged_on
    <2> QED
      BY <2>1 DEF send_message, p, w, l, m
  <1> HIDE DEF p, m
  <1>5. Sound(p) /\ p \in Session /\ Leads(s, p)
    BY <1>1, Weaker DEF Sound
  <1>6. Fine(p)
    BY <1>1, <1>5 DEF Follows
  <1>7. ~p.err => Fine(w) /\ w.state = s.state /\ Sound(w)
    <2> SUFFICES ASSUME ~p.err
                 PROVE  Fine(w) /\ w.state = s.state /\ Sound(w)
      OBVIOUS
    <2>1. /\ Leads(p, w) /\ (type # "Logon" => Reaches(p, w)) /\ Calm(p, w)
          /\ w.state = p.state /\ w.store = p.store /\ w.resets = p.resets
      BY <1>1, <1>2, <1>5, SendRaw
    <2> HIDE DEF w
    <2>2. Leads(s, w) /\ Sound(w)
      BY <1>5, <2>1, Transitive, Weaker
    <2>3. type # "Logon" => Follows(s, w)
      BY <1>1, <2>1, Transitive DEF Follows
    <2>4. Calm(s, w)
      <3>1. /\ Of(w.out, "ResendRequest") = Of(s.out, "ResendRequest")
            /\ Delivered(w) = Delivered(s)
        BY <1>1, <2>1, Zenon DEF Follows, Calm
      <3>2. Milder(s.state, w.state)
        BY <1>1, <2>1 DEF Follows, Calm
      <3> QED
        BY <3>1, <3>2 DEF Calm
    <2> QED
      BY <1>1, <2>1, <2>2, <2>3, <2>4, SMTT(20)
  <1>8. p.writer = "open" => w.out = Append(s.out, m)
    BY <1>1, <1>5 DEF send_raw_message, Session
  <1>9. ~p.err /\ s.state.st = "AwaitingLogon" /\ type = "Logon"
          => Fine(l) /\ l.out = w.out
    <2> HIDE DEF w
    <2> SUFFICES ASSUME ~p.err, s.state.st = "AwaitingLogon", type = "Logon"
                 PROVE  Fine(l) /\ l.out = w.out
      OBVIOUS
    <2> DEFINE t == [w.state EXCEPT !.logon_sent = TRUE]
    <2>1. Sound(w) /\ w \in Session /\ w.state \in State
      BY <1>7, FieldTypes DEF Sound
    <2>2. w.state \in AwaitingLogon
      BY <1>7, <2>1, Variants
    <2>3. t \in AwaitingLogon
      BY <2>2, Zenon DEF AwaitingLogon
    <2>4. t \in State /\ t.st = "AwaitingLogon"
      BY <2>3 DEF State, AwaitingLogon
    <2>5. l = [w EXCEPT !.state = t]
      BY <2>1 DEF Session
    <2> HIDE DEF t
    <2>6. Window([state |-> t])
      BY <2>4 DEF Window
    <2>7. Milder(w.state, t) /\ Awaits(t) = Awaits(w.state)
      BY <1>7, <2>4, MilderSame
    <2>8. Follows(w, l) /\ l.state = t
      <3>1. t.st = w.state.st
        BY <1>7, <2>4
      <3>2. Follows(w, [w EXCEPT !.state = t]) /\ [w EXCEPT !.state = t].state = t
        BY <2>1, <2>4, <2>6, <2>7, <3>1, PutState, SMTT(20)
      <3> QED
        BY <2>5, <3>2, Zenon
    <2>9. l.out = w.out /\ l.store = w.store /\ l.resets = w.resets
      BY <2>1, <2>5 DEF Session
    <2> HIDE DEF l
    <2>10. Leads(s, l)
      BY <1>7, <2>8, Transitive, Weaker, SMTT(20)
    <2>11. Calm(s, l)
      <3>1. /\ Of(l.out, "ResendRequest") = Of(s.out, "ResendRequest")
            /\ Delivered(l) = Delivered(s)
        BY <1>7, <2>8, Zenon DEF Follows, Calm
      <3>2. Milder(s.state, l.state)
        BY <2>4, <2>8, MilderSame
      <3> QED
        BY <3>1, <3>2 DEF Calm
    <2> QED
      BY <1>7, <2>4, <2>8, <2>9, <2>10, <2>11, SMTT(20)
  <1> HIDE DEF w, l, Fine
  <1>10. Fine(send_message(s, type))
    BY <1>4, <1>6, <1>7, <1>9, Zenon
  <1>11. Clean(s) /\ s.writer = "open" /\ type = "Logon"
             /\ s.state.st = "AwaitingLogon" /\ ~s.state.logon_sent
           => send_message(s, type).out = Append(s.out, m)
    BY <1>1, <1>3, <1>4, <1>8, <1>9, SMTT(20)
  <1> QED
    BY <1>10, <1>11 DEF Fine, m

\* logout_and_terminate sends, then closes the writer; its error is dropped.
LEMMA LogoutAndTerminate ==
  ASSUME NEW s, Sound(s)
  PROVE  Follows(s, logout_and_terminate(s))
  <1> DEFINE p == send_logout(s)
             q == [p EXCEPT !.err = s.err]
  <1>1. "Logout" \in MsgType \ {"ResendRequest"}
    BY DEF MsgType, AdminType
  <1>2. Follows(s, p)
    BY <1>1, SendMessage DEF send_logout
  <1>3. s.err \in BOOLEAN /\ (Clean(s) => ~s.err)
    BY DEF Sound, Session, Clean
  <1> HIDE DEF p
  <1>4. Follows(s, q) /\ Sound(q)
    BY <1>2, <1>3, PutErr, Weaker
  <1> HIDE DEF q
  <1>5. Follows(s, disconnect_writer(q))
    BY <1>4, DisconnectWriter, Transitive
  <1> QED
    BY <1>5 DEF logout_and_terminate, p, q

-----------------------------------------------------------------------------
(* Transitions *)

\* Any transition to a state that keeps the window and is not Disconnected.
\* If it drops the awaiter's responder, whoever waits learns of it.
LEMMA TransitionTo ==
  ASSUME NEW s, Sound(s), NEW t \in State, Window([state |-> t]), t.st # "Disconnected"
  PROVE  LET r == transition_to(s, t)
         IN  /\ Leads(s, r) /\ r.state = t /\ r.store = s.store /\ r.resets = s.resets
             /\ r.out = s.out /\ r.calls = s.calls /\ r.err = s.err /\ r.backlog = s.backlog
             /\ r.panicked = s.panicked
             /\ s.state.st # "Disconnected" => Reaches(s, r)
             /\ s.state.st # "Disconnected" /\ Milder(s.state, t) => Follows(s, r)
  <1> DEFINE r == transition_to(s, t)
  <1>1. s \in Session
    BY DEF Sound
  <1>2. r \in Session
    BY <1>1, Zenon DEF Session, transition_to
  <1>3. /\ r.state = t /\ r.store = s.store /\ r.resets = s.resets
        /\ r.out = s.out /\ r.calls = s.calls /\ r.writer = s.writer /\ r.backlog = s.backlog
        /\ r.panicked = s.panicked /\ r.fault = s.fault /\ r.err = s.err
        /\ r.answer = IF s.state.st = "Disconnected" /\ s.state.awaiter THEN "dropped" ELSE s.answer
    BY <1>1 DEF Session, transition_to
  <1> HIDE DEF r
  <1>4. Moves(s, r)
    <2>1. Window(r)
      BY <1>3 DEF Window
    <2>2. r.store.target >= r.store.target /\ r.resets \in BOOLEAN
      BY <1>2 DEF Session, Store
    <2> QED
      BY <1>2, <1>3, <2>1, <2>2, Zenon DEF Moves, Onward, Sound
  <1>5. Kept(s, r)
    <2>1. Posted(s) => Posted(r)
      BY <1>3 DEF Posted, Awaits
    <2>2. Unplugged(r)
      BY <1>3 DEF Unplugged
    <2> QED
      BY <1>3, <2>1, <2>2, Zenon DEF Kept, Clean, Stored, Filed
  <1>6. s.state.st # "Disconnected" => Wired(s, r)
    BY <1>3, Zenon DEF Wired, Invited
  <1>7. Milder(s.state, t) => Calm(s, r)
    BY <1>3, SameCalls, Zenon DEF Calm
  <1> QED
    BY <1>3, <1>4, <1>5, <1>6, <1>7, Zenon DEF Follows, Reaches, Leads, r

\* The transition to Disconnected gives up the writer, ...
LEMMA NewDisconnected ==
  ASSUME NEW s, Sound(s), NEW reconnect \in BOOLEAN
  PROVE  LET r == new_disconnected(s, reconnect)
         IN  /\ Follows(s, r) /\ r.backlog = s.backlog
             /\ r.state = [st |-> "Disconnected", reconnect |-> reconnect, awaiter |-> FALSE]
             /\ r.panicked = s.panicked
  <1> DEFINE t == [st |-> "Disconnected", reconnect |-> reconnect, awaiter |-> FALSE]
             r == new_disconnected(s, reconnect)
  <1>1. s \in Session
    BY DEF Sound
  <1>2. t \in State /\ t.st = "Disconnected" /\ ~Awaits(t)
    BY DEF State, Disconnected, Awaits
  <1>3. r = [transition_to(s, t) EXCEPT !.writer = "none"]
    BY DEF new_disconnected
  <1> HIDE DEF t
  <1>4. r \in Session
    BY <1>1, <1>2, <1>3, Zenon DEF Session, transition_to
  <1>5. /\ r.state = t /\ r.store = s.store /\ r.resets = s.resets
        /\ r.out = s.out /\ r.calls = s.calls /\ r.writer = "none" /\ r.backlog = s.backlog
        /\ r.panicked = s.panicked /\ r.fault = s.fault /\ r.err = s.err
        /\ r.answer = IF s.state.st = "Disconnected" /\ s.state.awaiter THEN "dropped" ELSE s.answer
    BY <1>1, <1>3 DEF Session, transition_to
  <1> HIDE DEF r
  <1>6. Moves(s, r)
    <2>1. Window(r)
      BY <1>2, <1>5 DEF Window
    <2>2. r.store.target >= r.store.target /\ r.resets \in BOOLEAN
      BY <1>4 DEF Session, Store
    <2> QED
      BY <1>4, <1>5, <2>1, <2>2, ZenonT(30) DEF Moves, Onward, Sound
  <1>7. Kept(s, r)
    <2>1. Posted(s) => Posted(r)
      BY <1>5 DEF Posted, Awaits
    <2>2. Unplugged(r)
      BY <1>5 DEF Unplugged
    <2> QED
      BY <1>5, <2>1, <2>2, Zenon DEF Kept, Clean, Stored, Filed
  <1>8. Wired(s, r)
    BY <1>2, <1>5 DEF Wired, Invited
  <1>9. Calm(s, r)
    <2>1. Milder(s.state, r.state)
      BY <1>2, <1>5, SMTT(20) DEF Milder
    <2> QED
      BY <1>5, <2>1, SameCalls, Zenon DEF Calm
  <1> QED
    BY <1>5, <1>6, <1>7, <1>8, <1>9, Zenon DEF Follows, Reaches, Leads, r, t

\* ... the one to Active follows if a Logon was awaited, ...
LEMMA NewActive ==
  ASSUME NEW s, Sound(s), s.state.st # "Disconnected"
  PROVE  LET r == new_active(s)
         IN  /\ Reaches(s, r) /\ r.state.st = "Active" /\ r.store = s.store /\ r.resets = s.resets
             /\ r.out = s.out /\ r.calls = s.calls /\ r.err = s.err
             /\ s.state.st = "AwaitingLogon" => Follows(s, r)
  <1> DEFINE t == [st |-> "Active", sent_test_request_id |-> 0, late |-> FALSE]
  <1>1. t \in State /\ Window([state |-> t]) /\ t.st = "Active"
    BY DEF State, Active, Window
  <1>2. s.state.st = "AwaitingLogon" => Milder(s.state, t)
    BY <1>1 DEF Milder, Awaits
  <1>3. new_active(s) = transition_to(s, t)
    BY SMTT(20) DEF new_active
  <1> HIDE DEF t
  <1> QED
    BY <1>1, <1>2, <1>3, TransitionTo, SMTT(20)

\* ... and the one to AwaitingResend needs a real gap.
LEMMA NewAwaitingResend ==
  ASSUME NEW s, Sound(s), NEW begin \in Nat, NEW end \in Nat, begin < end,
         s.state.st # "Disconnected"
  PROVE  LET r == new_awaiting_resend(s, begin, end)
         IN  /\ Reaches(s, r) /\ r.store = s.store /\ r.resets = s.resets
             /\ r.out = s.out /\ r.calls = s.calls /\ r.err = s.err
             /\ r.state.st = "AwaitingResend" /\ r.state.begin = begin /\ r.state.attempts = 1
  <1> DEFINE t == [st |-> "AwaitingResend", begin |-> begin, end |-> end,
                   attempts |-> 1, queue |-> << >>]
  <1>1. << >> \in Seq(Message)
    OBVIOUS
  <1>2. t \in State
    BY <1>1 DEF State, AwaitingResend
  <1>3. Window([state |-> t]) /\ t.st = "AwaitingResend" /\ t.begin = begin /\ t.attempts = 1
    BY DEF Window, MAX_RESEND_ATTEMPTS
  <1>4. new_awaiting_resend(s, begin, end) = transition_to(s, t)
    BY DEF new_awaiting_resend
  <1> HIDE DEF t
  <1> QED
    BY <1>2, <1>3, <1>4, TransitionTo

\* A hang-up ends in Disconnected, or changes nothing.
LEMMA OnDisconnect ==
  ASSUME NEW s, Sound(s)
  PROVE  Follows(s, on_disconnect(s)) /\ on_disconnect(s).state.st = "Disconnected"
  <1>1. s.state.st = "AwaitingLogout" => s.state.reconnect \in BOOLEAN
    BY FieldTypes, Variants, SMTT(20) DEF Sound, AwaitingLogout
  <1>2. ASSUME NEW b \in BOOLEAN
        PROVE  Follows(s, new_disconnected(s, b)) /\ new_disconnected(s, b).state.st = "Disconnected"
    <2>1. /\ Follows(s, new_disconnected(s, b))
          /\ new_disconnected(s, b).state = [st |-> "Disconnected", reconnect |-> b, awaiter |-> FALSE]
      BY NewDisconnected, Zenon
    <2> QED
      BY <2>1
  <1> QED
    BY <1>1, <1>2, Reflexive, Zenon DEF on_disconnect

\* A graceful logout ends in AwaitingLogout, or leaves the state when it cannot be sent.
LEMMA InitiateGracefulLogout ==
  ASSUME NEW s, Sound(s), NEW reconnect \in BOOLEAN
  PROVE  Follows(s, initiate_graceful_logout(s, reconnect))
  <1> SUFFICES ASSUME s.state.st \notin {"Disconnected", "AwaitingLogout"}
               PROVE  Follows(s, initiate_graceful_logout(s, reconnect))
    BY Reflexive DEF initiate_graceful_logout
  <1> DEFINE p == send_logout(s)
             q == [p EXCEPT !.err = s.err]
             t == [st |-> "AwaitingLogout", reconnect |-> reconnect, late |-> FALSE]
  <1>1. "Logout" \in MsgType \ {"ResendRequest"}
    BY SMTT(20) DEF MsgType, AdminType
  <1>2. Follows(s, p) /\ Sound(p) /\ p.state.st = s.state.st
    BY <1>1, SendMessage, Weaker DEF send_logout
  <1>3. s.err \in BOOLEAN /\ (Clean(s) => ~s.err)
    BY SMTT(20) DEF Sound, Session, Clean
  <1>4. t \in State /\ Window([state |-> t]) /\ t.st = "AwaitingLogout"
    BY DEF State, AwaitingLogout, Window
  <1> HIDE DEF p, t
  <1>5. Follows(s, q)
    BY <1>2, <1>3, PutErr, SMTT(20)
  <1>6. Milder(p.state, t)
    BY <1>4, SMTT(20) DEF Milder, Awaits
  <1>7. Follows(s, transition_to(p, t))
    BY <1>2, <1>4, <1>6, TransitionTo, Transitive
  <1> QED
    BY <1>5, <1>7 DEF initiate_graceful_logout, p, t

\* The peer timer belongs to Active and leaves the store alone.
LEMMA ResetPeerTimer ==
  ASSUME NEW s, Sound(s), NEW id \in Nat
  PROVE  Follows(s, reset_peer_timer(s, id)) /\ reset_peer_timer(s, id).store = s.store
         /\ reset_peer_timer(s, id).state.st = s.state.st
  <1> SUFFICES ASSUME s.state.st = "Active"
               PROVE  Follows(s, reset_peer_timer(s, id)) /\ reset_peer_timer(s, id).store = s.store
                      /\ reset_peer_timer(s, id).state.st = s.state.st
    BY Reflexive DEF reset_peer_timer
  <1> DEFINE t == [s.state EXCEPT !.late = FALSE, !.sent_test_request_id = id]
  <1>1. s \in Session /\ s.state \in Active
    BY FieldTypes, Variants DEF Sound
  <1>2. t \in State /\ t.st = "Active"
    BY <1>1, Zenon DEF Active, State
  <1>3. reset_peer_timer(s, id) = [s EXCEPT !.state = t]
    BY <1>1, Zenon DEF reset_peer_timer, Session, Active
  <1> HIDE DEF t
  <1>4. Window([state |-> t])
    BY <1>2 DEF Window
  <1>5. [s EXCEPT !.state = t].store = s.store
    BY <1>1 DEF Session
  <1>6. Milder(s.state, t) /\ Awaits(t) = Awaits(s.state)
    BY <1>2, MilderSame
  <1>7. Follows(s, [s EXCEPT !.state = t]) /\ [s EXCEPT !.state = t].state = t
    BY <1>2, <1>4, <1>6, PutState, SMTT(20)
  <1> QED
    BY <1>2, <1>3, <1>5, <1>7, Zenon

\* Registering the awaiter changes a Disconnected state only, and leaves an
\* answer or the promise of one.
LEMMA RegisterAwaiter ==
  ASSUME NEW s, Sound(s)
  PROVE  LET r == register_schedule_awaiter(s)
         IN  /\ Reaches(s, r) /\ Posted(r)
             /\ Of(r.out, "ResendRequest") = Of(s.out, "ResendRequest")
             /\ Delivered(r) = Delivered(s)
             /\ r.state.st = s.state.st /\ r.store = s.store /\ r.backlog = s.backlog
             /\ s.state.st = "AwaitingResend" => r.state = s.state
             /\ Awaits(r.state) => r.answer = "none" \/ Awaits(s.state)
             /\ s.state.st = "Disconnected" =>
                   /\ r.state.reconnect = s.state.reconnect
                   /\ ~s.state.awaiter => r.answer = "none"
             /\ s.state.st # "Disconnected" => r.answer = "Shutdown"
  <1> DEFINE r == register_schedule_awaiter(s)
             a == [s EXCEPT !.state.awaiter = TRUE, !.answer = "none"]
             b == [s EXCEPT !.answer = "Shutdown"]
             t == [s.state EXCEPT !.awaiter = TRUE]
             Rest(x) == /\ x.store = s.store /\ x.resets = s.resets
                        /\ x.out = s.out /\ x.calls = s.calls /\ x.writer = s.writer /\ x.backlog = s.backlog
                        /\ x.panicked = s.panicked /\ x.fault = s.fault /\ x.err = s.err
  <1>1. s \in Session /\ s.state \in State
    BY FieldTypes, SMTT(20) DEF Sound
  <1>2. CASE s.state.st = "Disconnected" /\ ~s.state.awaiter
    <2>1. r = a
      BY <1>2 DEF register_schedule_awaiter
    <2>2. s.state \in Disconnected
      BY <1>1, <1>2, Variants
    <2>3. t \in State /\ t.st = "Disconnected" /\ t.awaiter /\ t.reconnect = s.state.reconnect
      BY <2>2, Zenon DEF Disconnected, State
    <2>4. a = [[s EXCEPT !.state = t] EXCEPT !.answer = "none"]
      BY <1>1 DEF Session
    <2> HIDE DEF t, r
    <2>5. a \in Session
      BY <1>1, <2>3, <2>4, Zenon DEF Session
    <2>6. a.state = t /\ a.answer = "none" /\ Rest(a)
      BY <1>1, <2>4, Zenon DEF Session
    <2> HIDE DEF a
    <2>7. Moves(s, a)
      <3>1. Window(a)
        BY <2>3, <2>6 DEF Window
      <3>2. a.store.target >= a.store.target /\ a.resets \in BOOLEAN
        BY <2>5 DEF Session, Store
      <3> QED
        BY <2>5, <2>6, <3>1, <3>2, ZenonT(30) DEF Moves, Onward, Sound
    <2>8. Posted(a)
      BY <2>3, <2>6 DEF Posted, Awaits
    <2>9. Kept(s, a)
      BY <1>2, <2>3, <2>6, <2>8, Zenon DEF Kept, Clean, Stored, Filed, Unplugged
    <2>10. Wired(s, a)
      BY <2>3, <2>6, Zenon DEF Wired, Invited
    <2>11. Reaches(s, a)
      BY <2>7, <2>9, <2>10 DEF Reaches, Leads
    <2>12. Delivered(a) = Delivered(s)
      BY <2>6, SameCalls, SMTT(20)
    <2> QED
      BY <1>2, <2>1, <2>3, <2>6, <2>8, <2>11, <2>12, SMTT(20) DEF r
  <1>3. CASE ~(s.state.st = "Disconnected" /\ ~s.state.awaiter)
    <2>1. r = b
      BY <1>3 DEF register_schedule_awaiter
    <2> HIDE DEF t, r
    <2>2. b \in Session
      BY <1>1 DEF Session
    <2>3. b.state = s.state /\ b.answer = "Shutdown" /\ Rest(b)
      BY <1>1 DEF Session
    <2> HIDE DEF b
    <2>4. Moves(s, b)
      <3>1. Window(b)
        BY <2>3 DEF Window, Sound
      <3>2. b.store.target >= b.store.target /\ b.resets \in BOOLEAN
        BY <2>2 DEF Session, Store
      <3> QED
        BY <2>2, <2>3, <3>1, <3>2, ZenonT(30) DEF Moves, Onward, Sound
    <2>5. Posted(b)
      BY <2>3 DEF Posted
    <2>6. Kept(s, b)
      BY <2>3, <2>5, Zenon DEF Kept, Clean, Stored, Filed, Unplugged
    <2>7. Wired(s, b)
      BY <2>3, Zenon DEF Wired, Invited
    <2>8. Reaches(s, b)
      BY <2>4, <2>6, <2>7 DEF Reaches, Leads
    <2>9. Delivered(b) = Delivered(s)
      BY <2>3, SameCalls
    <2>10. s.state.st = "Disconnected" => s.state.awaiter
      BY <1>3
    <2>11. Awaits(b.state) => Awaits(s.state)
      BY <2>3, SMTT(20)
    <2> QED
      BY <2>1, <2>3, <2>5, <2>8, <2>9, <2>10, <2>11, SMTT(20) DEF r
  <1> QED
    BY <1>2, <1>3, SMTT(20)

\* Answering the awaiter.
LEMMA NotifyAwaiter ==
  ASSUME NEW s, Sound(s)
  PROVE  LET r == notify_schedule_awaiter(s)
         IN  /\ Follows(s, r) /\ r.backlog = s.backlog
             /\ s.state.st = "Disconnected" =>
                   /\ ~r.state.awaiter /\ r.state.reconnect = s.state.reconnect
                   /\ r.answer = IF s.state.awaiter THEN "InSchedule" ELSE s.answer
  <1>1. s \in Session /\ s.state \in State
    BY FieldTypes DEF Sound
  <1>2. CASE ~(s.state.st = "Disconnected" /\ s.state.awaiter)
    BY <1>2, Reflexive DEF notify_schedule_awaiter
  <1>3. CASE s.state.st = "Disconnected" /\ s.state.awaiter
    <2> DEFINE t == [s.state EXCEPT !.awaiter = FALSE]
               a == [s EXCEPT !.state.awaiter = FALSE, !.answer = "InSchedule"]
    <2>1. notify_schedule_awaiter(s) = a
      BY <1>3 DEF notify_schedule_awaiter
    <2>2. s.state \in Disconnected
      BY <1>1, <1>3, Variants
    <2>3. t \in State /\ t.st = "Disconnected" /\ ~t.awaiter /\ t.reconnect = s.state.reconnect
      BY <2>2, Zenon DEF Disconnected, State
    <2>4. a = [[s EXCEPT !.state = t] EXCEPT !.answer = "InSchedule"]
      BY <1>1 DEF Session
    <2> HIDE DEF t
    <2>5. a \in Session
      BY <1>1, <2>3, <2>4, Zenon DEF Session
    <2>6. /\ a.state = t /\ a.answer = "InSchedule" /\ a.store = s.store /\ a.resets = s.resets
          /\ a.out = s.out /\ a.calls = s.calls /\ a.writer = s.writer /\ a.backlog = s.backlog
          /\ a.panicked = s.panicked /\ a.fault = s.fault /\ a.err = s.err
      BY <1>1, <2>4, Zenon DEF Session
    <2> HIDE DEF a
    <2>7. Moves(s, a)
      <3>1. Window(a)
        BY <2>3, <2>6 DEF Window
      <3>2. a.store.target >= a.store.target /\ a.resets \in BOOLEAN
        BY <2>5 DEF Session, Store
      <3> QED
        BY <2>5, <2>6, <3>1, <3>2, Zenon DEF Moves, Onward, Sound
    <2>8. Posted(a)
      BY <2>6 DEF Posted
    <2>9. Kept(s, a)
      <3>1. (Stored(s) => Stored(a)) /\ (Clean(s) => Clean(a))
        BY <2>6, Zenon DEF Stored, Filed, Clean
      <3>2. Unplugged(s) => Unplugged(a)
        BY <1>3, <2>6, Zenon DEF Unplugged
      <3> QED
        BY <2>6, <2>8, <3>1, <3>2, Zenon DEF Kept
    <2>10. Wired(s, a)
      BY <2>3, <2>6, Zenon DEF Wired, Invited
    <2>11. Calm(s, a)
      <3>1. Milder(s.state, a.state)
        BY <1>3, <2>3, <2>6 DEF Milder, Awaits
      <3> QED
        BY <2>6, <3>1, SameCalls, Zenon DEF Calm
    <2>12. Follows(s, a)
      BY <2>7, <2>9, <2>10, <2>11 DEF Follows, Reaches, Leads
    <2> QED
      BY <1>3, <2>1, <2>3, <2>6, <2>12
  <1> QED
    BY <1>2, <1>3

-----------------------------------------------------------------------------
(* The schedule check and the responder of establish_connection *)

\* What sending and storing leave alone: the backlog and the answer to
\* AwaitSchedule.
Beside(s, t) == t.backlog = s.backlog /\ t.answer = s.answer

\* A message is stored and perhaps written.
LEMMA SendBeside ==
  ASSUME NEW s, Sound(s), NEW type \in MsgType \ {"ResendRequest"}
  PROVE  Beside(s, send_message(s, type))
  <1> DEFINE p == prepare_message(s, type)
             w == send_raw_message(p, Fresh(s, type, 0, 0))
             l == [w EXCEPT !.state.logon_sent = TRUE]
  <1>1. s \in Session
    BY DEF Sound
  <1>2. Beside(s, p)
    BY <1>1 DEF prepare_message, Beside, Session
  <1>3. Sound(p) /\ p \in Session
    BY PrepareMessage, Weaker DEF Sound
  <1> HIDE DEF p
  <1>4. Beside(s, w)
    BY <1>2, <1>3 DEF send_raw_message, Beside, Session
  <1>5. DOMAIN w = DOMAIN p
    BY <1>3, SMTT(20) DEF send_raw_message, Session
  <1>6. {"backlog", "answer", "state"} \subseteq DOMAIN w
    BY <1>3, <1>5 DEF Session
  <1> HIDE DEF w
  <1>7. Beside(s, l)
    BY <1>4, <1>6 DEF Beside
  <1>8. send_message(s, type) \in {p, w, l}
    BY DEF send_message, p, w
  <1> QED
    BY <1>2, <1>4, <1>7, <1>8, Zenon

\* A logout before the writer is closed.
LEMMA TerminateBeside ==
  ASSUME NEW s, Sound(s)
  PROVE  /\ Beside(s, logout_and_terminate(s))
         /\ s.state.st # "AwaitingLogon" => logout_and_terminate(s).state = s.state
  <1> DEFINE p == send_logout(s)
             q == [p EXCEPT !.err = s.err]
  <1>1. "Logout" \in MsgType \ {"ResendRequest"}
    BY DEF MsgType, AdminType
  <1>2. /\ Beside(s, p) /\ Leads(s, p)
        /\ s.state.st # "AwaitingLogon" => p.state = s.state
    BY <1>1, SendBeside, SendMessage, SMTT(20) DEF send_logout
  <1>3. p \in Session
    BY <1>2, Weaker DEF Sound
  <1> HIDE DEF p
  <1>4. q.backlog = p.backlog /\ q.answer = p.answer /\ q.state = p.state
    BY <1>3 DEF Session
  <1>5. q \in Session
    BY <1>3, Zenon DEF Session, Sound
  <1> HIDE DEF q
  <1>6. Beside(q, disconnect_writer(q)) /\ disconnect_writer(q).state = q.state
    BY <1>5 DEF disconnect_writer, Beside, Session
  <1>7. logout_and_terminate(s) = disconnect_writer(q)
    BY DEF logout_and_terminate, q, p
  <1> QED
    BY <1>2, <1>4, <1>6, <1>7, SMTT(20) DEF Beside

\* Clearing the store.
LEMMA ResetBeside ==
  ASSUME NEW s, Sound(s), NEW n \in Nat
  PROVE  Beside(s, reset(s, n)) /\ reset(s, n).state = s.state
  <1>1. s \in Session
    BY DEF Sound
  <1> DEFINE c == cleared(s, n)
  <1>2. c.backlog = s.backlog /\ c.answer = s.answer /\ DOMAIN c = DOMAIN s
    BY <1>1 DEF cleared, Session
  <1>3. {"backlog", "answer"} \subseteq DOMAIN s
    BY <1>1 DEF Session
  <1> HIDE DEF c
  <1>4. /\ Beside(s, [s EXCEPT !.err = TRUE]) /\ Beside(s, [c EXCEPT !.err = TRUE]) /\ Beside(s, c)
    BY <1>2, <1>3 DEF Beside
  <1>5. Beside(s, reset(s, n))
    BY <1>4 DEF reset, c
  <1> QED
    BY <1>5, Reset

\* What the schedule check may do to a disconnected session.
Idle(s, t) ==
    /\ t.state.st = "Disconnected" /\ t.backlog = s.backlog
    /\ t.state.reconnect => s.state.reconnect
    /\ t.state.awaiter => s.state.awaiter /\ t.answer = s.answer
    /\ t.answer \in {s.answer, "InSchedule"}

\* The end of a session period.
LEMMA EndPeriodBeside ==
  ASSUME NEW s, Sound(s), now \in Nat
  PROVE  LET t == end_period(s)
         IN  /\ t.backlog = s.backlog
             /\ s.state.st = "Disconnected" /\ ~s.state.awaiter =>
                   /\ t.state = s.state \/ t.state = [st |-> "Disconnected", reconnect |-> FALSE, awaiter |-> FALSE]
                   /\ t.answer = s.answer
  <1> DEFINE p == logout_and_terminate(s)
             q == reset(p, now)
             r == new_disconnected(q, FALSE)
             t == [r EXCEPT !.err = FALSE]
  <1>1. Sound(p) /\ Beside(s, p) /\ (s.state.st # "AwaitingLogon" => p.state = s.state)
    BY LogoutAndTerminate, TerminateBeside, Weaker, SMTT(20)
  <1> HIDE DEF p
  <1>2. Sound(q) /\ Beside(p, q) /\ q.state = p.state
    BY <1>1, Reset, ResetBeside, Weaker, SMTT(20)
  <1> HIDE DEF q
  <1>3. /\ Follows(q, r) /\ r.backlog = q.backlog
        /\ r.state = [st |-> "Disconnected", reconnect |-> FALSE, awaiter |-> FALSE]
    BY <1>2, NewDisconnected, Zenon
  <1>4. Sound(r) /\ r \in Session
    BY <1>3, Weaker, Zenon DEF Sound
  <1>5. q.state.st = "Disconnected" /\ ~q.state.awaiter => r.answer = q.answer
    <2>1. q \in Session
      BY <1>2 DEF Sound
    <2> QED
      BY <2>1 DEF new_disconnected, transition_to, Session
  <1> HIDE DEF r
  <1>6. t.backlog = r.backlog /\ t.state = r.state /\ t.answer = r.answer
    BY <1>4 DEF Session
  <1> HIDE DEF t
  <1>7. end_period(s) = IF q.err THEN t ELSE q
    BY DEF end_period, t, r, q, p
  <1>8. q.backlog = s.backlog /\ t.backlog = s.backlog
    BY <1>1, <1>2, <1>3, <1>6, SMTT(20) DEF Beside
  <1>9. ASSUME s.state.st = "Disconnected", ~s.state.awaiter
        PROVE  /\ q.state = s.state /\ q.answer = s.answer /\ t.answer = s.answer
               /\ t.state = [st |-> "Disconnected", reconnect |-> FALSE, awaiter |-> FALSE]
    <2>1. q.state = s.state /\ q.answer = s.answer
      BY <1>1, <1>2, <1>9 DEF Beside
    <2> QED
      BY <1>3, <1>5, <1>6, <1>9, <2>1, SMTT(20)
  <1> QED
    BY <1>7, <1>8, <1>9, Zenon

\* The schedule check leaves the backlog alone; a disconnected session stays so,
\* and goes from wanting a reconnect to not wanting one at most.
LEMMA CheckBeside ==
  ASSUME NEW s, Sound(s), now \in Nat
  PROVE  LET t == handle_schedule_check(s)
         IN  t.backlog = s.backlog /\ (s.state.st = "Disconnected" => Idle(s, t))
  <1> DEFINE n == notify_schedule_awaiter(s)
             l == initiate_graceful_logout(s, TRUE)
             p == logout_and_terminate(n)
             e == end_period(n)
  <1>1. /\ Follows(s, n) /\ n.backlog = s.backlog
        /\ s.state.st = "Disconnected" =>
              /\ ~n.state.awaiter /\ n.state.reconnect = s.state.reconnect
              /\ n.answer = IF s.state.awaiter THEN "InSchedule" ELSE s.answer
    BY NotifyAwaiter
  <1>2. Sound(n) /\ (s.state.st = "Disconnected" => n.state.st = "Disconnected")
    BY <1>1, Weaker, Zenon DEF Follows, Reaches, Wired
  <1> HIDE DEF n
  <1>3. s.state.st = "Disconnected" => Idle(s, n)
    BY <1>1, <1>2, SMTT(20) DEF Idle
  <1>4. p.backlog = s.backlog /\ (s.state.st = "Disconnected" => Idle(s, p))
    <2>1. Beside(n, p) /\ (n.state.st # "AwaitingLogon" => p.state = n.state)
      BY <1>2, TerminateBeside, SMTT(20)
    <2> QED
      BY <1>1, <1>2, <1>3, <2>1, SMTT(20) DEF Beside, Idle
  <1>5. e.backlog = s.backlog /\ (s.state.st = "Disconnected" => Idle(s, e))
    <2>1. /\ e.backlog = n.backlog
          /\ n.state.st = "Disconnected" /\ ~n.state.awaiter =>
                /\ e.state = n.state \/ e.state = [st |-> "Disconnected", reconnect |-> FALSE, awaiter |-> FALSE]
                /\ e.answer = n.answer
      BY <1>2, EndPeriodBeside, SMTT(20)
    <2> HIDE DEF e
    <2>2. ASSUME s.state.st = "Disconnected"
          PROVE  Idle(s, e)
      <3>1. e.answer = n.answer /\ e.backlog = s.backlog /\ ~n.state.awaiter /\ n.state.st = "Disconnected"
        BY <1>1, <1>2, <2>1, <2>2, SMTT(20)
      <3>2. e.state.st = "Disconnected" /\ ~e.state.awaiter /\ (e.state.reconnect => n.state.reconnect)
        BY <2>1, <3>1
      <3>3. (n.state.reconnect => s.state.reconnect) /\ n.answer \in {s.answer, "InSchedule"}
        BY <1>3, <2>2 DEF Idle
      <3> QED
        BY <3>1, <3>2, <3>3, SMTT(20) DEF Idle
    <2> QED
      BY <1>1, <2>1, <2>2, SMTT(20)
  <1>6. l.backlog = s.backlog /\ (s.state.st = "Disconnected" => Idle(s, l))
    <2>1. "Logout" \in MsgType \ {"ResendRequest"}
      BY SMTT(20) DEF MsgType, AdminType
    <2> DEFINE o == send_logout(s)
               a == [st |-> "AwaitingLogout", reconnect |-> TRUE, late |-> FALSE]
    <2>2. Beside(s, o) /\ Sound(o)
      BY <2>1, SendBeside, SendMessage, Weaker, SMTT(20) DEF send_logout
    <2>3. o \in Session
      BY <2>2 DEF Sound
    <2> HIDE DEF o
    <2>4. [o EXCEPT !.err = s.err].backlog = s.backlog /\ transition_to(o, a).backlog = s.backlog
      BY <2>2, <2>3 DEF Beside, transition_to, Session
    <2>5. l \in {s, [o EXCEPT !.err = s.err], transition_to(o, a)}
      BY DEF initiate_graceful_logout, o
    <2>6. s.state.st = "Disconnected" => l = s
      BY DEF initiate_graceful_logout
    <2> QED
      BY <2>4, <2>5, <2>6, Zenon DEF Idle
  <1>7. handle_schedule_check(s) \in {l, n, p, e}
    BY DEF handle_schedule_check, n
  <1> QED
    BY <1>1, <1>3, <1>4, <1>5, <1>6, <1>7, ZenonT(30)
=============================================================================
