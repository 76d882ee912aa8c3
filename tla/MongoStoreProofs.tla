-------------------------- MODULE MongoStoreProofs --------------------------
(***************************************************************************)
(* What module MongoStore says of the store in MongoDB, for every set of   *)
(* messages and every bound: a cleanup leaves no message without its meta  *)
(* document, and the store implements MessageStore whatever the cleanup    *)
(* does beside it.                                                         *)
(***************************************************************************)
EXTENDS MongoStore, WellFoundedInduction, TLAPS

-----------------------------------------------------------------------------
(* The inductive invariant *)

MetaRecord == [sender : 0 .. MaxSeq, target : 0 .. MaxSeq, old : BOOLEAN]

GTyped ==
    /\ created \in 0 .. MaxSequences
    /\ DOMAIN metas \subseteq 1 .. created /\ metas \in [DOMAIN metas -> MetaRecord]
    /\ docs \subseteq Doc
    /\ current \in [id : 0 .. MaxSequences, sender : 0 .. MaxSeq, target : 0 .. MaxSeq]
    /\ call \in [op : {"none", "sender", "target", "add", "reset"}, n : Nat]
    /\ cleaner \in [pc : {"none", "find", "messages", "metas"}, exclude : 0 .. MaxSequences,
                    ids : SUBSET (1 .. MaxSequences), own : BOOLEAN]
    /\ intact \in BOOLEAN

\* Ids are those of sequences that were created.
Drawn ==
    /\ current.id <= created
    /\ \A d \in docs : d.sequence_id <= created

\* Nothing in the database is later than i.
IsLatest(i) == i \in DOMAIN metas /\ \A j \in DOMAIN metas : j <= i

\* A call in progress is a process's; a reset has made its sequence, which is
\* empty and the latest.
Calling ==
    /\ call.op = "none" => call = Idle
    /\ call # Idle => current.id # 0
    /\ call.op \in {"sender", "target"} => call.n <= MaxSeq
    /\ call.op = "reset" =>
          /\ call.n = created /\ IsLatest(created)
          /\ metas[created].sender = 0 /\ metas[created].target = 0
          /\ \A d \in docs : d.sequence_id # created

\* A process has the latest sequence, unless it missed the answer to a reset.
Holds ==
    current.id # 0 /\ call.op # "reset" =>
        /\ current.id \in DOMAIN metas \cup stray
        /\ current.id \notin stray \/ intact => IsLatest(current.id)

\* A cleanup spares the sequence it excludes; one beside the process, all
\* later ones too, which it never finds old.
Cleaning ==
    /\ cleaner.pc = "none" => cleaner = NoCleanup
    /\ cleaner.ids \subseteq DOMAIN metas
    /\ cleaner.own =>
          current.id # 0 /\ call = Idle /\ cleaner.exclude = current.id /\ cleaner.exclude \notin cleaner.ids
    /\ cleaner.pc # "none" /\ ~cleaner.own =>
          /\ cleaner.exclude \in DOMAIN metas \cup {0}
          /\ \A i \in DOMAIN metas : i > cleaner.exclude => ~metas[i].old
          /\ \A i \in cleaner.ids : i < cleaner.exclude
    /\ cleaner.pc = "metas" => \A d \in docs : d.sequence_id \in cleaner.ids => d.sequence_id \in stray

\* The struct's sender number is the database's, once the answer has come.
Follows ==
    intact /\ current.id # 0 /\ call.op # "reset" =>
        metas[current.id].sender = IF call.op = "sender" THEN call.n ELSE current.sender

\* replace_one keeps one document for a number.
OneEach == \A d, e \in docs : SameKey(d, e) => d = e

GInv == GTyped /\ Drawn /\ Calling /\ Holds /\ Cleaning /\ Follows /\ OneEach /\ NoOrphans

-----------------------------------------------------------------------------
(* The latest sequence *)

\* A set of numbers with a bound has a greatest one.
LEMMA GreatestId ==
  ASSUME NEW n \in Nat, NEW S, S \subseteq 1 .. n, S # {}
  PROVE  \E m \in S : \A k \in S : k <= m
<1> DEFINE T == {n - x : x \in S}
<1>1. T \subseteq Nat /\ T # {}
  <2>1. PICK x \in S : TRUE
    BY Zenon
  <2>2. n - x \in T
    BY <2>1
  <2>3. \A y \in S : n - y \in Nat
    OBVIOUS
  <2> QED
    BY <2>2, <2>3
<1> HIDE DEF T
<1>2. PICK t \in T : \A y \in T : <<y, t>> \notin OpToRel(<, Nat)
  BY <1>1, NatLessThanWellFounded, WFMin, Zenon
<1>3. \A y \in T : ~(y < t)
  BY <1>1, <1>2, Zenon DEF OpToRel
<1>4. PICK m \in S : t = n - m
  BY DEF T
<1>5. \A k \in S : n - k \in T
  BY DEF T
<1> QED
  BY <1>3, <1>4, <1>5

\* What find_one finds first is the latest sequence, if there is one.
LEMMA LatestIs ==
  ASSUME GTyped
  PROVE  /\ metas # << >> => IsLatest(Latest)
         /\ metas = << >> => Latest = 0
         /\ metas = << >> <=> DOMAIN metas = {}
         /\ \A i : IsLatest(i) => Latest = i
<1>1. metas = << >> <=> DOMAIN metas = {}
  BY DEF GTyped
<1>2. created \in Nat /\ DOMAIN metas \subseteq 1 .. created
  BY MongoStoreAssumption DEF GTyped
<1>3. ASSUME metas # << >> PROVE IsLatest(Latest)
  <2>1. PICK m \in DOMAIN metas : \A k \in DOMAIN metas : k <= m
    BY <1>1, <1>2, <1>3, GreatestId, Zenon
  <2>2. Latest = CHOOSE i \in DOMAIN metas : \A j \in DOMAIN metas : j <= i
    BY <1>3 DEF Latest
  <2> QED
    BY <2>1, <2>2 DEF IsLatest
<1>4. metas = << >> => Latest = 0
  BY DEF Latest
<1>5. ASSUME NEW i, IsLatest(i) PROVE Latest = i
  <2>1. metas # << >>
    BY <1>1, <1>5 DEF IsLatest
  <2>2. IsLatest(Latest)
    BY <1>3, <2>1
  <2>3. i <= Latest /\ Latest <= i /\ i \in Nat /\ Latest \in Nat
    BY <1>2, <1>5, <2>2 DEF IsLatest
  <2> QED
    BY <2>3
<1> QED
  BY <1>1, <1>3, <1>4, <1>5

\* The parts of the state.
LEMMA GFields ==
  ASSUME GTyped
  PROVE  /\ current.id \in Nat /\ current.sender \in 0 .. MaxSeq /\ current.target \in 0 .. MaxSeq
         /\ current = [id |-> current.id, sender |-> current.sender, target |-> current.target]
         /\ call.op \in {"none", "sender", "target", "add", "reset"} /\ call.n \in Nat
         /\ call = [op |-> call.op, n |-> call.n]
         /\ cleaner.pc \in {"none", "find", "messages", "metas"} /\ cleaner.exclude \in Nat
         /\ cleaner.ids \subseteq Nat /\ cleaner.own \in BOOLEAN
         /\ created \in Nat /\ DOMAIN metas \subseteq Nat /\ 0 \notin DOMAIN metas
         /\ \A i \in DOMAIN metas : /\ metas[i].sender \in 0 .. MaxSeq /\ metas[i].target \in 0 .. MaxSeq
                                    /\ metas[i].old \in BOOLEAN /\ metas[i] \in MetaRecord
<1>1. created \in Nat /\ DOMAIN metas \subseteq Nat /\ 0 \notin DOMAIN metas
  BY MongoStoreAssumption DEF GTyped
<1>2. \A i \in DOMAIN metas : metas[i] \in MetaRecord
  BY DEF GTyped
<1>3. \A m \in MetaRecord : m.sender \in 0 .. MaxSeq /\ m.target \in 0 .. MaxSeq /\ m.old \in BOOLEAN
  BY DEF MetaRecord
<1>4. /\ current.id \in Nat /\ current.sender \in 0 .. MaxSeq /\ current.target \in 0 .. MaxSeq
      /\ current = [id |-> current.id, sender |-> current.sender, target |-> current.target]
  BY MongoStoreAssumption DEF GTyped
<1>5. /\ call.op \in {"none", "sender", "target", "add", "reset"} /\ call.n \in Nat
      /\ call = [op |-> call.op, n |-> call.n]
  BY DEF GTyped
<1>6. /\ cleaner.pc \in {"none", "find", "messages", "metas"} /\ cleaner.exclude \in Nat
      /\ cleaner.ids \subseteq Nat /\ cleaner.own \in BOOLEAN
  BY MongoStoreAssumption DEF GTyped
<1> QED
  BY <1>1, <1>2, <1>3, <1>4, <1>5, <1>6

LEMMA NoCleanupFields ==
  /\ NoCleanup.pc = "none" /\ NoCleanup.exclude = 0 /\ NoCleanup.ids = {} /\ NoCleanup.own = FALSE
  /\ NoCleanup \in [pc : {"none", "find", "messages", "metas"}, exclude : 0 .. MaxSequences,
                    ids : SUBSET (1 .. MaxSequences), own : BOOLEAN]
BY MongoStoreAssumption DEF NoCleanup

\* A call and its number.
LEMMA IdleIs ==
  ASSUME GTyped, Calling
  PROVE  call = Idle <=> call.op = "none"
BY DEF GTyped, Calling, Idle

LEMMA GInitKeeps == GInit => GInv
<1> SUFFICES ASSUME GInit PROVE GInv
  OBVIOUS
<1> USE DEF GInit
<1>1. GTyped
  BY MongoStoreAssumption, NoCleanupFields DEF GTyped, NoProcess, Idle
<1>2. Drawn /\ Calling /\ Holds /\ Follows /\ OneEach /\ NoOrphans
  BY DEF Drawn, Calling, Holds, Follows, OneEach, NoOrphans, NoProcess, Idle
<1>3. Cleaning
  BY NoCleanupFields DEF Cleaning
<1> QED
  BY <1>1, <1>2, <1>3 DEF GInv

-----------------------------------------------------------------------------
(* One lemma per step: it keeps GInv. *)

\* A sequence more: empty, and the latest.
LEMMA NewSequence ==
  ASSUME GTyped, new_sequence
  PROVE  /\ created' = created + 1 /\ created' \in 0 .. MaxSequences
         /\ DOMAIN metas' = DOMAIN metas \cup {created + 1}
         /\ metas' \in [DOMAIN metas' -> MetaRecord] /\ DOMAIN metas' \subseteq 1 .. created'
         /\ metas'[created + 1] = [sender |-> 0, target |-> 0, old |-> FALSE]
         /\ created + 1 \notin DOMAIN metas
         /\ \A i \in DOMAIN metas : metas'[i] = metas[i] /\ i < created + 1
<1> DEFINE fresh == [sender |-> 0, target |-> 0, old |-> FALSE]
<1>1. created' = created + 1 /\ created' \in 0 .. MaxSequences /\ created \in Nat
  BY MongoStoreAssumption DEF GTyped, new_sequence
<1>2. fresh \in MetaRecord
  BY MongoStoreAssumption DEF MetaRecord
<1>3. metas' = [i \in DOMAIN metas \cup {created + 1} |-> IF i = created + 1 THEN fresh ELSE metas[i]]
  BY DEF new_sequence, WithMeta
<1> HIDE DEF fresh
<1>4. \A i \in DOMAIN metas : i \in 1 .. created /\ metas[i] \in MetaRecord
  BY DEF GTyped
<1> QED
  BY <1>1, <1>2, <1>3, <1>4 DEF fresh

\* A process that finds no sequence makes one.
LEMMA OpenNewKeeps == ASSUME GInv, open_new PROVE GInv'
<1> USE DEF GInv, open_new
<1>1. new_sequence /\ UNCHANGED <<docs, current, call, cleaner, intact, stray>>
  OBVIOUS
<1>2. DOMAIN metas = {} /\ current.id = 0 /\ call = Idle
  BY LatestIs
<1>3. GTyped' /\ Drawn'
  BY <1>1, NewSequence, GFields DEF GTyped, Drawn, Doc
<1>4. Calling' /\ Holds' /\ Follows' /\ OneEach'
  BY <1>1, <1>2 DEF Calling, Holds, Follows, OneEach, Idle
<1>5. NoOrphans'
  BY <1>1, NewSequence DEF NoOrphans
<1>6. Cleaning'
  BY <1>1, <1>2, NewSequence, GFields DEF Cleaning
<1> QED
  BY <1>3, <1>4, <1>5, <1>6

\* A process that opens the store takes the latest sequence.
LEMMA OpenKeeps == ASSUME GInv, get_or_default_sequence PROVE GInv'
<1> USE DEF GInv, get_or_default_sequence
<1>1. IsLatest(Latest)
  BY LatestIs
<1>2. /\ current'.id = Latest /\ current'.sender = metas[Latest].sender
      /\ current'.target = metas[Latest].target
      /\ current' = [id |-> current'.id, sender |-> current'.sender, target |-> current'.target]
      /\ UNCHANGED <<metas, docs, call, cleaner, created, intact, stray>>
  BY DEF Meta
<1>3. current' \in [id : 0 .. MaxSequences, sender : 0 .. MaxSeq, target : 0 .. MaxSeq]
  BY <1>1, <1>2, GFields, MongoStoreAssumption DEF GTyped, IsLatest
<1>4. GTyped' /\ Drawn'
  BY <1>1, <1>2, <1>3 DEF GTyped, Drawn, IsLatest
<1>5. call = Idle /\ call' = Idle /\ call.op = "none"
  BY <1>2 DEF Idle
<1>6. Calling' /\ OneEach' /\ NoOrphans'
  BY <1>2, <1>5 DEF Calling, OneEach, NoOrphans, SameKey, Idle
<1>7. Holds'
  BY <1>1, <1>2 DEF Holds, IsLatest
<1>8. Cleaning'
  BY <1>2, <1>5 DEF Cleaning
<1>9. Follows'
  BY <1>2, <1>5 DEF Follows, Idle
<1> QED
  BY <1>4, <1>6, <1>7, <1>8, <1>9

\* update_one changes the meta document of that id, if there is one.
LEMMA UpdateOne ==
  ASSUME GTyped, NEW id, NEW meta \in MetaRecord, update_one(id, meta)
  PROVE  /\ DOMAIN metas' = DOMAIN metas /\ metas' \in [DOMAIN metas' -> MetaRecord]
         /\ \A i \in DOMAIN metas : metas'[i] = IF i = id THEN meta ELSE metas[i]
BY DEF GTyped, update_one

\* A new meta document with another number in it.
LEMMA NumbersType ==
  ASSUME GTyped, NEW id
  PROVE  /\ Numbers(id) \in MetaRecord
         /\ id \in DOMAIN metas => Numbers(id) = metas[id]
         /\ id \notin DOMAIN metas => Numbers(id).sender = 0 /\ Numbers(id).target = 0
BY GFields, MongoStoreAssumption DEF Numbers, MetaRecord

\* A call that changes a number of the struct's sequence.
LEMMA UpdateKeeps ==
  ASSUME GInv, Ready, NEW meta \in MetaRecord, update_one(current.id, meta),
         meta.old = Numbers(current.id).old,
         NEW op \in {"sender", "target"}, NEW n \in 0 .. MaxSeq, call' = [op |-> op, n |-> n],
         intact => meta.sender = IF op = "sender" THEN n ELSE current.sender,
         UNCHANGED <<docs, current, cleaner, created, intact, stray>>
  PROVE  GInv'
<1> USE DEF GInv, Ready
<1>1. /\ DOMAIN metas' = DOMAIN metas /\ metas' \in [DOMAIN metas' -> MetaRecord]
      /\ \A i \in DOMAIN metas : metas'[i] = IF i = current.id THEN meta ELSE metas[i]
  BY UpdateOne
<1>2. call'.op = op /\ call'.n = n /\ call.op = "none" /\ n \in Nat
  BY DEF Idle
<1>3. \A i \in DOMAIN metas : metas'[i].old = metas[i].old
  BY <1>1, NumbersType
<1>4. GTyped' /\ Drawn'
  BY <1>1, <1>2 DEF GTyped, Drawn
<1>5. Calling'
  BY <1>2, MongoStoreAssumption DEF Calling, Idle
<1>6. Holds'
  BY <1>1, <1>2 DEF Holds, IsLatest
<1>7. Cleaning'
  BY <1>1, <1>3 DEF Cleaning
<1>8. Follows'
  BY <1>1, <1>2 DEF Follows, Holds, IsLatest
<1>9. OneEach' /\ NoOrphans'
  BY <1>1 DEF OneEach, NoOrphans, SameKey
<1> QED
  BY <1>4, <1>5, <1>6, <1>7, <1>8, <1>9

LEMMA NumberCallsKeep ==
  ASSUME GInv, increment_sender_seq_number \/ increment_target_seq_number \/ set_target_seq_number
  PROVE  GInv'
<1> DEFINE old == Numbers(current.id)
<1>1. /\ old \in MetaRecord /\ old.sender \in 0 .. MaxSeq /\ old.target \in 0 .. MaxSeq
      /\ current.sender \in 0 .. MaxSeq /\ current.target \in 0 .. MaxSeq
      /\ Ready /\ intact => old.sender = current.sender
  <2>1. old \in MetaRecord
    BY NumbersType DEF GInv
  <2>2. old.sender \in 0 .. MaxSeq /\ old.target \in 0 .. MaxSeq
    BY <2>1 DEF MetaRecord
  <2>3. Ready /\ intact => old.sender = current.sender
    BY NumbersType DEF GInv, Ready, Follows, Holds, IsLatest, Idle
  <2> QED
    BY <2>1, <2>2, <2>3, GFields DEF GInv
<1>2. CASE increment_sender_seq_number
  <2> DEFINE meta == [old EXCEPT !.sender = @ + 1]
  <2>1. /\ Ready /\ update_one(current.id, meta)
        /\ call' = [op |-> "sender", n |-> current.sender + 1]
        /\ UNCHANGED <<docs, current, cleaner, created, intact, stray>>
        /\ current.sender < MaxSeq /\ old.sender < MaxSeq
    BY <1>2 DEF increment_sender_seq_number
  <2> HIDE DEF old
  <2>2. meta \in MetaRecord /\ meta.old = old.old /\ meta.sender = old.sender + 1
    BY <1>1, <2>1, MongoStoreAssumption DEF MetaRecord
  <2>3. current.sender + 1 \in 0 .. MaxSeq
    BY <1>1, <2>1, MongoStoreAssumption
  <2>4. intact => meta.sender = current.sender + 1
    BY <1>1, <2>1, <2>2
  <2> HIDE DEF meta
  <2> QED
    BY <2>1, <2>2, <2>3, <2>4, UpdateKeeps DEF old
<1>3. CASE increment_target_seq_number
  <2> DEFINE meta == [old EXCEPT !.target = @ + 1]
  <2>1. /\ Ready /\ update_one(current.id, meta)
        /\ call' = [op |-> "target", n |-> current.target + 1]
        /\ UNCHANGED <<docs, current, cleaner, created, intact, stray>>
        /\ current.target < MaxSeq /\ old.target < MaxSeq
    BY <1>3 DEF increment_target_seq_number
  <2> HIDE DEF old
  <2>2. meta \in MetaRecord /\ meta.old = old.old /\ meta.sender = old.sender
    BY <1>1, <2>1, MongoStoreAssumption DEF MetaRecord
  <2>3. current.target + 1 \in 0 .. MaxSeq
    BY <1>1, <2>1, MongoStoreAssumption
  <2>4. intact => meta.sender = current.sender
    BY <1>1, <2>1, <2>2
  <2> HIDE DEF meta
  <2> QED
    BY <2>1, <2>2, <2>3, <2>4, UpdateKeeps DEF old
<1>4. CASE set_target_seq_number
  <2>1. PICK n \in 0 .. MaxSeq :
           /\ update_one(current.id, [old EXCEPT !.target = n])
           /\ call' = [op |-> "target", n |-> n]
    BY <1>4 DEF set_target_seq_number
  <2> DEFINE meta == [old EXCEPT !.target = n]
  <2>2. Ready /\ UNCHANGED <<docs, current, cleaner, created, intact, stray>>
    BY <1>4 DEF set_target_seq_number
  <2> HIDE DEF old
  <2>3. meta \in MetaRecord /\ meta.old = old.old /\ meta.sender = old.sender
    BY <1>1 DEF MetaRecord
  <2>4. intact => meta.sender = current.sender
    BY <1>1, <2>2, <2>3
  <2>5. update_one(current.id, meta)
    BY <2>1
  <2> HIDE DEF meta
  <2> QED
    BY <2>1, <2>2, <2>3, <2>4, <2>5, UpdateKeeps DEF old
<1> QED
  BY <1>2, <1>3, <1>4

\* A message goes to the struct's sequence, in place of one with its number.
LEMMA AddKeeps == ASSUME GInv, add PROVE GInv'
<1> USE DEF GInv
<1>1. PICK c \in Content :
         docs' = {e \in docs : ~SameKey(e, [sequence_id |-> current.id,
                                            msg_seq_number |-> current.sender, data |-> c])}
                 \cup {[sequence_id |-> current.id, msg_seq_number |-> current.sender, data |-> c]}
  BY DEF add
<1> DEFINE d == [sequence_id |-> current.id, msg_seq_number |-> current.sender, data |-> c]
<1>2. d.sequence_id = current.id /\ d.msg_seq_number = current.sender
  OBVIOUS
<1>3. /\ Ready /\ current.sender > 0 /\ call' = [op |-> "add", n |-> 0]
      /\ UNCHANGED <<metas, current, cleaner, created, intact, stray>>
      /\ current.id # 0 /\ call.op = "none" /\ call'.op = "add"
  BY DEF add, Ready, Idle
<1>4. d \in Doc
  BY <1>3, GFields DEF GTyped, Drawn, Doc
<1>5. docs' = {e \in docs : ~SameKey(e, d)} \cup {d}
  BY <1>1
<1> HIDE DEF d
<1>6. GTyped' /\ Drawn'
  BY <1>2, <1>3, <1>4, <1>5 DEF GTyped, Drawn
<1>7. Calling' /\ Holds' /\ Follows'
  BY <1>3 DEF Calling, Holds, Follows, IsLatest, Idle
<1>8. OneEach'
  BY <1>5 DEF OneEach, SameKey
<1>9. NoOrphans'
  BY <1>2, <1>3, <1>5 DEF NoOrphans, Holds
<1>10. Cleaning'
  <2>1. ~cleaner.own
    BY <1>3 DEF Ready
  <2>2. cleaner.pc = "metas" /\ current.id \in cleaner.ids => current.id \in stray
    <3>1. current.id \notin stray => current.id \in DOMAIN metas /\ \A j \in DOMAIN metas : j <= current.id
      BY <1>3 DEF Holds, IsLatest
    <3>2. cleaner.pc = "metas" => /\ \A i \in cleaner.ids : i < cleaner.exclude
                                  /\ cleaner.exclude \in DOMAIN metas \cup {0}
      BY <2>1 DEF Cleaning
    <3> QED
      BY <3>1, <3>2, GFields
  <2>3. cleaner'.pc = "metas" => \A e \in docs' : e.sequence_id \in cleaner'.ids => e.sequence_id \in stray'
    BY <1>2, <1>3, <1>5, <2>2 DEF Cleaning
  <2> QED
    BY <1>3, <2>1, <2>3 DEF Cleaning
<1> QED
  BY <1>6, <1>7, <1>8, <1>9, <1>10

\* The database's part of a reset.
LEMMA ResetKeeps == ASSUME GInv, reset PROVE GInv'
<1> USE DEF GInv
<1>1. /\ Ready /\ new_sequence /\ call' = [op |-> "reset", n |-> created + 1]
      /\ UNCHANGED <<docs, current, cleaner, intact, stray>>
      /\ current.id # 0 /\ call.op = "none" /\ call'.op = "reset" /\ call'.n = created + 1
      /\ ~cleaner.own
  BY DEF reset, Ready, Idle
<1>2. GTyped' /\ Drawn'
  BY <1>1, NewSequence, GFields DEF GTyped, Drawn, Doc
<1>3. Calling'
  <2>1. IsLatest(created)'
    BY <1>1, NewSequence, GFields DEF IsLatest
  <2>2. \A d \in docs' : d.sequence_id # created'
    BY <1>1, NewSequence, GFields DEF Drawn, GTyped, Doc
  <2> QED
    BY <1>1, <2>1, <2>2, NewSequence DEF Calling, Idle
<1>4. Holds' /\ Follows' /\ OneEach'
  BY <1>1 DEF Holds, Follows, OneEach, SameKey
<1>5. NoOrphans'
  BY <1>1, NewSequence DEF NoOrphans
<1>6. Cleaning'
  BY <1>1, NewSequence, GFields DEF Cleaning
<1> QED
  BY <1>2, <1>3, <1>4, <1>5, <1>6

\* The answer, and the struct follows.
LEMMA AnsweredKeeps == ASSUME GInv, Answered PROVE GInv'
<1> USE DEF GInv
<1>1. /\ call # Idle /\ call.op \in {"sender", "target", "add", "reset"} /\ current.id # 0
      /\ call' = Idle /\ call'.op = "none"
      /\ intact' = (intact \/ call.op = "reset")
      /\ UNCHANGED <<metas, docs, cleaner, created, stray>>
      /\ ~cleaner.own
  BY IdleIs, GFields DEF Answered, Calling, Idle, Cleaning
<1>2. /\ call.op = "sender" => current' = [current EXCEPT !.sender = call.n]
      /\ call.op = "target" => current' = [current EXCEPT !.target = call.n]
      /\ call.op = "reset" => current' = [id |-> call.n, sender |-> 0, target |-> 0]
      /\ call.op = "add" => current' = current
  BY DEF Answered
<1>3. /\ current' \in [id : 0 .. MaxSequences, sender : 0 .. MaxSeq, target : 0 .. MaxSeq]
      /\ call.op # "reset" => current'.id = current.id
      /\ call.op = "reset" => current'.id = created /\ current'.sender = 0
      /\ call.op = "sender" => current'.sender = call.n
      /\ call.op \in {"target", "add"} => current'.sender = current.sender
  <2>1. call.op \in {"sender", "target"} => call.n \in 0 .. MaxSeq
    BY GFields, MongoStoreAssumption DEF Calling
  <2>2. call.op = "reset" => call.n = created /\ created \in 0 .. MaxSequences
    BY DEF Calling, GTyped
  <2> QED
    BY <1>1, <1>2, <2>1, <2>2, MongoStoreAssumption DEF GTyped
<1>4. GTyped' /\ Drawn'
  BY <1>1, <1>3, GFields DEF GTyped, Drawn, Idle
<1>5. Calling'
  BY <1>1 DEF Calling, Idle
<1>6. Holds' /\ Follows'
  BY <1>1, <1>3, Zenon DEF Holds, Follows, Calling, IsLatest
<1>7. Cleaning'
  BY <1>1 DEF Cleaning
<1>8. OneEach' /\ NoOrphans'
  BY <1>1 DEF OneEach, NoOrphans, SameKey
<1> QED
  BY <1>4, <1>5, <1>6, <1>7, <1>8

\* The answer is lost: the struct stays with what it has.
LEMMA AnswerLostKeeps == ASSUME GInv, AnswerLost PROVE GInv'
<1> USE DEF GInv
<1>1. /\ call # Idle /\ call.op \in {"sender", "target", "add", "reset"} /\ current.id # 0
      /\ call' = Idle /\ call'.op = "none" /\ intact' = FALSE
      /\ stray' = IF call.op = "reset" THEN stray \cup {current.id} ELSE stray
      /\ UNCHANGED <<metas, docs, current, cleaner, created>>
      /\ ~cleaner.own
  BY IdleIs, GFields DEF AnswerLost, Calling, Idle, Cleaning
<1>2. GTyped' /\ Drawn' /\ Calling'
  BY <1>1, Zenon DEF GTyped, Drawn, Calling, Idle
<1>3. Holds'
  BY <1>1 DEF Holds, IsLatest
<1>4. Follows' /\ OneEach' /\ NoOrphans'
  BY <1>1 DEF Follows, OneEach, NoOrphans, SameKey
<1>5. Cleaning'
  BY <1>1 DEF Cleaning
<1> QED
  BY <1>2, <1>3, <1>4, <1>5

\* The process dies.
LEMMA GCrashKeeps == ASSUME GInv, Crash PROVE GInv'
<1> USE DEF GInv, Crash
<1>1. current'.id = 0 /\ call'.op = "none" /\ call' = Idle
  BY DEF NoProcess, Idle
<1>2. GTyped' /\ Drawn'
  BY NoCleanupFields, MongoStoreAssumption, GFields DEF GTyped, Drawn, NoProcess, Idle
<1>3. Calling' /\ Holds' /\ Follows' /\ OneEach' /\ NoOrphans'
  BY <1>1 DEF Calling, Holds, Follows, OneEach, NoOrphans, SameKey
<1>4. Cleaning'
  BY NoCleanupFields, GFields DEF Cleaning
<1> QED
  BY <1>2, <1>3, <1>4

\* A sequence gets old while no cleanup is under way.
LEMMA AgeKeeps == ASSUME GInv, Age PROVE GInv'
<1> USE DEF GInv
<1>1. PICK i \in DOMAIN metas : metas' = [metas EXCEPT ![i].old = TRUE]
  BY Zenon DEF Age
<1>2. /\ DOMAIN metas' = DOMAIN metas /\ metas' \in [DOMAIN metas' -> MetaRecord]
      /\ \A j \in DOMAIN metas : metas'[j].sender = metas[j].sender /\ metas'[j].target = metas[j].target
  <2> DEFINE m == [metas[i] EXCEPT !.old = TRUE]
  <2>1. m \in MetaRecord /\ m.sender = metas[i].sender /\ m.target = metas[i].target
    BY GFields, Zenon DEF MetaRecord
  <2>2. metas' = [metas EXCEPT ![i] = m]
    BY <1>1
  <2> HIDE DEF m
  <2> QED
    BY <2>1, <2>2 DEF GTyped
<1>3. cleaner.pc = "none" /\ UNCHANGED <<docs, current, call, cleaner, created, intact, stray>>
  BY DEF Age
<1>4. cleaner = NoCleanup
  BY <1>3 DEF Cleaning
<1>5. GTyped' /\ Drawn'
  BY <1>2, <1>3 DEF GTyped, Drawn
<1>6. Calling' /\ Holds' /\ Follows'
  BY <1>2, <1>3, GFields DEF Calling, Holds, Follows, IsLatest
<1>7. Cleaning'
  BY <1>2, <1>3, <1>4, NoCleanupFields DEF Cleaning
<1>8. OneEach' /\ NoOrphans'
  BY <1>2, <1>3 DEF OneEach, NoOrphans, SameKey
<1> QED
  BY <1>5, <1>6, <1>7, <1>8

\* Only the cleanup's own variables change.
LEMMA OnlyCleaner ==
  ASSUME GInv, UNCHANGED <<metas, docs, current, call, created, intact, stray>>,
         cleaner' \in [pc : {"none", "find", "messages", "metas"}, exclude : 0 .. MaxSequences,
                       ids : SUBSET (1 .. MaxSequences), own : BOOLEAN],
         Cleaning'
  PROVE  GInv'
BY DEF GInv, GTyped, Drawn, Calling, Holds, Follows, OneEach, NoOrphans, IsLatest, SameKey

\* A cleanup begins, excluding the latest sequence or the struct's own.
LEMMA CleanupBegins == ASSUME GInv, cleanup_older_than PROVE GInv'
<1> USE DEF GInv
<1>1. cleaner.pc = "none" /\ UNCHANGED <<metas, docs, current, call, created, intact, stray>>
  BY DEF cleanup_older_than
<1>2. CASE cleaner' = [NoCleanup EXCEPT !.pc = "find", !.exclude = Latest]
  <2>1. /\ cleaner' = [pc |-> "find", exclude |-> Latest, ids |-> {}, own |-> FALSE]
        /\ cleaner'.pc = "find" /\ cleaner'.exclude = Latest /\ cleaner'.ids = {} /\ ~cleaner'.own
    BY <1>2, Zenon DEF NoCleanup
  <2>2. /\ Latest \in 0 .. MaxSequences /\ Latest \in DOMAIN metas \cup {0}
        /\ \A i \in DOMAIN metas : ~(i > Latest)
    BY LatestIs, GFields, MongoStoreAssumption DEF IsLatest, GTyped
  <2>3. Cleaning'
    BY <1>1, <2>1, <2>2 DEF Cleaning
  <2> QED
    BY <1>1, <2>1, <2>2, <2>3, OnlyCleaner
<1>3. CASE Ready /\ cleaner' = [NoCleanup EXCEPT !.pc = "find", !.exclude = current.id, !.own = TRUE]
  <2>1. /\ cleaner' = [pc |-> "find", exclude |-> current.id, ids |-> {}, own |-> TRUE]
        /\ cleaner'.pc = "find" /\ cleaner'.exclude = current.id /\ cleaner'.ids = {} /\ cleaner'.own
    BY <1>3, Zenon DEF NoCleanup
  <2>2. current.id \in 0 .. MaxSequences
    BY DEF GTyped
  <2>3. Cleaning'
    BY <1>1, <1>3, <2>1 DEF Cleaning, Ready
  <2> QED
    BY <1>1, <2>1, <2>2, <2>3, OnlyCleaner
<1> QED
  BY <1>2, <1>3 DEF cleanup_older_than

\* It finds the old sequences.
LEMMA FindOldKeeps == ASSUME GInv, find_old PROVE GInv'
<1> DEFINE ids == {i \in DOMAIN metas : metas[i].old /\ i # cleaner.exclude}
<1> USE DEF GInv
<1>1. /\ cleaner.pc = "find" /\ UNCHANGED <<metas, docs, current, call, created, intact, stray>>
      /\ cleaner' = IF ids = {} THEN NoCleanup ELSE [cleaner EXCEPT !.pc = "messages", !.ids = ids]
  BY DEF find_old
<1>2. CASE ids = {}
  <2>1. cleaner' = NoCleanup
    BY <1>1, <1>2
  <2>2. Cleaning'
    BY <1>1, <2>1, NoCleanupFields, Zenon DEF Cleaning
  <2> QED
    BY <1>1, <2>1, <2>2, NoCleanupFields, OnlyCleaner, Zenon
<1>3. CASE ids # {}
  <2>1. ids \subseteq DOMAIN metas /\ cleaner.exclude \notin ids /\ \A i \in ids : metas[i].old /\ i # cleaner.exclude
    OBVIOUS
  <2>2. ids \in SUBSET (1 .. MaxSequences)
    BY <2>1, MongoStoreAssumption DEF GTyped
  <2> HIDE DEF ids
  <2>3. cleaner' = [cleaner EXCEPT !.pc = "messages", !.ids = ids]
    BY <1>1, <1>3
  <2>4. /\ cleaner' \in [pc : {"none", "find", "messages", "metas"}, exclude : 0 .. MaxSequences,
                         ids : SUBSET (1 .. MaxSequences), own : BOOLEAN]
        /\ cleaner'.pc = "messages" /\ cleaner'.ids = ids
        /\ cleaner'.exclude = cleaner.exclude /\ cleaner'.own = cleaner.own
    BY <2>2, <2>3, Zenon DEF GTyped
  <2>5. ~cleaner.own => \A i \in ids : i < cleaner.exclude
    <3> SUFFICES ASSUME ~cleaner.own, NEW i \in ids PROVE i < cleaner.exclude
      OBVIOUS
    <3>1. ~(i > cleaner.exclude) /\ i # cleaner.exclude
      BY <1>1, <2>1 DEF Cleaning
    <3> QED
      BY <2>1, <3>1, GFields
  <2>6. Cleaning'
    BY <1>1, <2>1, <2>4, <2>5 DEF Cleaning
  <2> QED
    BY <1>1, <2>4, <2>6, OnlyCleaner
<1> QED
  BY <1>2, <1>3

LEMMA CleanupFailsKeeps == ASSUME GInv, CleanupFails PROVE GInv'
<1>1. UNCHANGED <<metas, docs, current, call, created, intact, stray>> /\ cleaner' = NoCleanup
  BY DEF CleanupFails
<1>2. Cleaning'
  BY <1>1, NoCleanupFields DEF Cleaning
<1> QED
  BY <1>1, <1>2, NoCleanupFields, OnlyCleaner

\* What a cleanup has found is older than the struct's sequence, and than the
\* one a pending reset has made.
LEMMA FoundIsOlder ==
  ASSUME GInv
  PROVE  /\ \A i \in cleaner.ids : i \in Nat
         /\ current.id # 0 /\ call.op # "reset" /\ (current.id \notin stray \/ intact) =>
               current.id \notin cleaner.ids
         /\ call.op = "reset" => created \notin cleaner.ids
         /\ cleaner.pc # "none" /\ intact /\ DOMAIN metas # {} => Latest \notin cleaner.ids
<1> USE DEF GInv
<1>1. cleaner.pc = "none" => cleaner.ids = {}
  BY NoCleanupFields DEF Cleaning
<1>2. \A i \in cleaner.ids : i \in Nat
  BY GFields
<1>3. ASSUME ~cleaner.own, NEW m, IsLatest(m) PROVE m \notin cleaner.ids
  BY <1>1, <1>3, GFields DEF Cleaning, IsLatest
<1>4. current.id # 0 /\ call.op # "reset" /\ (current.id \notin stray \/ intact) =>
         current.id \notin cleaner.ids
  BY <1>3 DEF Holds, Cleaning
<1>5. call.op = "reset" => created \notin cleaner.ids
  BY <1>3 DEF Calling, Cleaning, Idle
<1>6. cleaner.pc # "none" /\ intact /\ DOMAIN metas # {} => Latest \notin cleaner.ids
  <2> SUFFICES ASSUME cleaner.pc # "none", intact, DOMAIN metas # {} PROVE Latest \notin cleaner.ids
    OBVIOUS
  <2>1. IsLatest(Latest)
    BY LatestIs
  <2>2. cleaner.own => Latest = current.id /\ current.id \notin cleaner.ids
    BY LatestIs DEF Cleaning, Holds, Idle
  <2> QED
    BY <1>3, <2>1, <2>2
<1> QED
  BY <1>2, <1>4, <1>5, <1>6

\* It deletes the messages, then the meta documents.
LEMMA DeleteKeeps == ASSUME GInv, delete_many PROVE GInv'
<1> USE DEF GInv
<1>1. CASE cleaner.pc = "messages"
  <2>1. /\ docs' = {d \in docs : d.sequence_id \notin cleaner.ids}
        /\ cleaner' = [cleaner EXCEPT !.pc = "metas"]
        /\ UNCHANGED <<metas, current, call, created, intact, stray>>
    BY <1>1 DEF delete_many
  <2>2. /\ cleaner' \in [pc : {"none", "find", "messages", "metas"}, exclude : 0 .. MaxSequences,
                         ids : SUBSET (1 .. MaxSequences), own : BOOLEAN]
        /\ cleaner'.pc = "metas" /\ cleaner'.ids = cleaner.ids
        /\ cleaner'.exclude = cleaner.exclude /\ cleaner'.own = cleaner.own
    BY <2>1 DEF GTyped
  <2>3. GTyped' /\ Drawn'
    BY <2>1, <2>2 DEF GTyped, Drawn
  <2>4. Calling' /\ Holds' /\ Follows'
    BY <2>1 DEF Calling, Holds, Follows, IsLatest
  <2>5. Cleaning'
    BY <1>1, <2>1, <2>2 DEF Cleaning
  <2>6. OneEach' /\ NoOrphans'
    BY <2>1 DEF OneEach, NoOrphans, SameKey
  <2> QED
    BY <2>3, <2>4, <2>5, <2>6
<1>2. CASE cleaner.pc = "metas"
  <2>1. /\ metas' = [i \in DOMAIN metas \ cleaner.ids |-> metas[i]]
        /\ cleaner' = NoCleanup
        /\ UNCHANGED <<docs, current, call, created, intact, stray>>
    BY <1>2 DEF delete_many
  <2>2. GTyped' /\ Drawn'
    BY <2>1, NoCleanupFields DEF GTyped, Drawn
  <2>3. /\ DOMAIN metas' = DOMAIN metas \ cleaner.ids
        /\ \A i \in DOMAIN metas' : metas'[i] = metas[i]
    BY <2>1
  <2>4. Calling'
    BY <2>1, <2>3, FoundIsOlder DEF Calling, IsLatest
  <2>5. Holds' /\ Follows'
    BY <2>1, <2>3, FoundIsOlder DEF Holds, Follows, IsLatest
  <2>6. Cleaning'
    BY <2>1, NoCleanupFields DEF Cleaning
  <2>7. NoOrphans'
    BY <1>2, <2>1, <2>3 DEF NoOrphans, Cleaning
  <2>8. OneEach'
    BY <2>1 DEF OneEach, SameKey
  <2> QED
    BY <2>2, <2>4, <2>5, <2>6, <2>7, <2>8
<1> QED
  BY <1>1, <1>2 DEF delete_many

LEMMA GStutterKeeps == ASSUME GInv, UNCHANGED gvars PROVE GInv'
BY DEF GInv, gvars, GTyped, Drawn, Calling, Holds, Cleaning, Follows, OneEach, NoOrphans,
       IsLatest, SameKey

-----------------------------------------------------------------------------
(* The theorems *)

LEMMA GStepKeeps == ASSUME GInv, [GNext]_gvars PROVE GInv'
BY OpenNewKeeps, OpenKeeps, NumberCallsKeep, AddKeeps, ResetKeeps, AnsweredKeeps, AnswerLostKeeps,
   GCrashKeeps, AgeKeeps, CleanupBegins, FindOldKeeps, DeleteKeeps, CleanupFailsKeeps, GStutterKeeps,
   Zenon
   DEF GNext

\* GInv holds in every reachable state of the store.
THEOREM MongoInvariant == MongoSpec => []GInv
<1>1. GInit => GInv
  BY GInitKeeps
<1>2. GInv /\ [GNext]_gvars => GInv'
  BY GStepKeeps
<1> QED
  BY <1>1, <1>2, PTL DEF MongoSpec

\* A cleanup, whoever makes it and wherever it stops, leaves no message
\* without the meta document by which the next one finds it.
THEOREM MongoNoOrphans == MongoSpec => []NoOrphans
<1>1. GInv => NoOrphans
  BY DEF GInv
<1> QED
  BY <1>1, MongoInvariant, PTL

-----------------------------------------------------------------------------
(* The refinement *)

\* The variables of MessageStore as Abstract has them.
BMessages ==
    [n \in {d.msg_seq_number : d \in {d \in Stored(Latest) : intact}} |->
        (CHOOSE d \in Stored(Latest) : d.msg_seq_number = n).data]

BSender == IF intact THEN Numbers(Latest).sender ELSE 0

BTarget == IF intact THEN Numbers(Latest).target ELSE 0

BStatus ==
    CASE ~intact -> "damaged"
      [] intact /\ current.id # 0 -> "up"
      [] OTHER -> "down"

\* What the messages of one sequence say, by number.
Held(s) == [n \in {d.msg_seq_number : d \in s} |-> (CHOOSE d \in s : d.msg_seq_number = n).data]

NoneHeld == [n \in {} |-> 0]

LEMMA HeldNone == Held({}) = NoneHeld
BY DEF Held, NoneHeld

\* A message in place of the one with its number.
Replaced(s, d) == {e \in s : ~SameKey(e, d)} \cup {d}

With(f, k, v) == [n \in DOMAIN f \cup {k} |-> IF n = k THEN v ELSE f[n]]

LEMMA HeldAdd ==
  ASSUME NEW s, NEW d, NEW t, t = Replaced(s, d),
         \A e \in s : e.sequence_id = d.sequence_id,
         \A e, f \in s : SameKey(e, f) => e = f
  PROVE  Held(t) = With(Held(s), d.msg_seq_number, d.data)
<1> DEFINE k == d.msg_seq_number
<1>1. /\ \A e \in t : e = d \/ (e \in s /\ e.msg_seq_number # k)
      /\ d \in t
      /\ \A e \in s : e.msg_seq_number # k => e \in t
  BY DEF SameKey, Replaced
<1>2. DOMAIN Held(s) = {e.msg_seq_number : e \in s} /\ DOMAIN Held(t) = {e.msg_seq_number : e \in t}
  BY DEF Held
<1>3. DOMAIN Held(t) = DOMAIN Held(s) \cup {k}
  BY <1>1, <1>2
<1>4. Held(t)[k] = d.data
  <2>1. k \in {e.msg_seq_number : e \in t}
    BY <1>1
  <2>2. Held(t)[k] = (CHOOSE e \in t : e.msg_seq_number = k).data
    BY <2>1 DEF Held
  <2>3. (CHOOSE e \in t : e.msg_seq_number = k) = d
    BY <1>1
  <2> QED
    BY <2>2, <2>3, Zenon
<1>5. ASSUME NEW n \in DOMAIN Held(s), n # k PROVE Held(t)[n] = Held(s)[n]
  <2>1. PICK e \in s : e.msg_seq_number = n
    BY <1>2
  <2>2. e \in t /\ n \in {f.msg_seq_number : f \in t} /\ n \in {f.msg_seq_number : f \in s}
    BY <1>1, <1>5, <2>1
  <2>3. \A f \in s : f.msg_seq_number = n => f = e
    BY <2>1 DEF SameKey
  <2>4. \A f \in t : f.msg_seq_number = n => f = e
    BY <1>1, <1>5, <2>3
  <2>5. (CHOOSE f \in s : f.msg_seq_number = n) = e /\ (CHOOSE f \in t : f.msg_seq_number = n) = e
    BY <2>1, <2>2, <2>3, <2>4
  <2> QED
    BY <2>2, <2>5, Zenon DEF Held
<1>6. Held(t) = [n \in DOMAIN Held(t) |-> Held(t)[n]]
  BY DEF Held
<1> QED
  BY <1>3, <1>4, <1>5, <1>6 DEF With

\* What the mapped variables are.
MappedValues ==
    /\ intact => BMessages = Held(Stored(Latest))
    /\ ~intact => BMessages = NoneHeld /\ BSender = 0 /\ BTarget = 0 /\ BStatus = "damaged"
    /\ intact => BSender = Numbers(Latest).sender /\ BTarget = Numbers(Latest).target
    /\ intact /\ current.id # 0 => BStatus = "up"
    /\ intact /\ current.id = 0 => BStatus = "down"

LEMMA Mapped == MappedValues
<1>1. ~intact => BMessages = NoneHeld
  BY DEF BMessages, NoneHeld
<1>2. intact => {d \in Stored(Latest) : intact} = Stored(Latest)
  OBVIOUS
<1>3. intact => BMessages = Held(Stored(Latest))
  BY <1>2 DEF BMessages, Held
<1>4. /\ ~intact => BSender = 0 /\ BTarget = 0
      /\ intact => BSender = Numbers(Latest).sender /\ BTarget = Numbers(Latest).target
  BY DEF BSender, BTarget
<1>5. /\ ~intact => BStatus = "damaged"
      /\ intact /\ current.id # 0 => BStatus = "up"
      /\ intact /\ current.id = 0 => BStatus = "down"
  BY DEF BStatus
<1> QED
  BY <1>1, <1>3, <1>4, <1>5 DEF MappedValues

LEMMA MappedNext == MappedValues'
BY Mapped, PTL

\* Latest before and after a step.
LatestFact ==
    /\ metas # << >> => Latest \in DOMAIN metas /\ \A j \in DOMAIN metas : j <= Latest
    /\ metas = << >> => Latest = 0
    /\ metas = << >> <=> DOMAIN metas = {}
    /\ \A i \in DOMAIN metas : (\A j \in DOMAIN metas : j <= i) => Latest = i

LEMMA LatestNow == GInv => LatestFact
BY LatestIs DEF GInv, LatestFact, IsLatest

LEMMA LatestNext == GInv' => LatestFact'
BY LatestNow, PTL

LEMMA SameLatest ==
  ASSUME GInv, GInv', DOMAIN metas' = DOMAIN metas
  PROVE  Latest' = Latest
BY LatestNow, LatestNext DEF LatestFact

\* MessageStore's actions, written with the mapped variables.
LEMMA AbstractIncrement ==
  ASSUME BStatus = "up", BSender < MaxSeq, BSender' = BSender + 1,
         BMessages' = BMessages, BTarget' = BTarget, BStatus' = BStatus
  PROVE  Abstract!MNext
<1>1. Abstract!increment_sender_seq_number
  BY Zenon DEF Abstract!increment_sender_seq_number, BMessages, BSender, BTarget, BStatus
<1> QED
  BY <1>1 DEF Abstract!MNext

LEMMA AbstractSetTarget ==
  ASSUME BStatus = "up", BTarget' \in 0 .. MaxSeq,
         BMessages' = BMessages, BSender' = BSender, BStatus' = BStatus
  PROVE  Abstract!MNext
<1>1. Abstract!set_target_seq_number
  BY Zenon DEF Abstract!set_target_seq_number, BMessages, BSender, BTarget, BStatus
<1> QED
  BY <1>1 DEF Abstract!MNext

LEMMA AbstractAdd ==
  ASSUME BStatus = "up", NEW message \in Content,
         BMessages' = [n \in DOMAIN BMessages \cup {BSender} |->
                          IF n = BSender THEN message ELSE BMessages[n]],
         BSender' = BSender, BTarget' = BTarget, BStatus' = BStatus
  PROVE  Abstract!MNext
<1>1. Abstract!add
  BY Zenon DEF Abstract!add, BMessages, BSender, BTarget, BStatus
<1> QED
  BY <1>1 DEF Abstract!MNext

LEMMA AbstractReset ==
  ASSUME BStatus \in {"up", "damaged"}, BMessages' = NoneHeld, BSender' = 0, BTarget' = 0,
         BStatus' \in {"up", "damaged"}, BStatus # "damaged" \/ BStatus' # "damaged"
  PROVE  Abstract!MNext
<1>1. Abstract!reset \/ Abstract!Damage
  BY DEF Abstract!reset, Abstract!Damage, Abstract!Empty, NoneHeld, BMessages, BSender, BTarget, BStatus
<1> QED
  BY <1>1 DEF Abstract!MNext

LEMMA AbstractCrash ==
  ASSUME BStatus = "up", BStatus' = "down",
         BMessages' = BMessages, BSender' = BSender, BTarget' = BTarget
  PROVE  Abstract!MNext
<1>1. Abstract!Crash
  BY Zenon DEF Abstract!Crash, BMessages, BSender, BTarget, BStatus
<1> QED
  BY <1>1 DEF Abstract!MNext

LEMMA AbstractRestart ==
  ASSUME BStatus = "down", BStatus' = "up",
         BMessages' = BMessages, BSender' = BSender, BTarget' = BTarget
  PROVE  Abstract!MNext
<1>1. Abstract!Restart
  BY Zenon DEF Abstract!Restart, BMessages, BSender, BTarget, BStatus
<1> QED
  BY <1>1 DEF Abstract!MNext

BSame == UNCHANGED <<BMessages, BSender, BTarget, BStatus>>

\* While an answer is missing nothing is promised.
LEMMA DamagedStep ==
  ASSUME ~intact, ~intact'
  PROVE  BSame
BY Mapped, MappedNext DEF MappedValues, BSame

\* A step that leaves the latest sequence and its messages alone.
LEMMA SameMapped ==
  ASSUME GInv, intact, intact', Latest' = Latest, Stored(Latest)' = Stored(Latest),
         Numbers(Latest)'.sender = Numbers(Latest).sender,
         Numbers(Latest)'.target = Numbers(Latest).target
  PROVE  BMessages' = BMessages /\ BSender' = BSender /\ BTarget' = BTarget
BY Mapped, MappedNext DEF MappedValues

LEMMA SameStatus ==
  ASSUME intact, intact', current'.id = 0 <=> current.id = 0
  PROVE  BStatus' = BStatus
BY Mapped, MappedNext DEF MappedValues

\* A sequence that was just made holds nothing.
LEMMA FreshIsEmpty ==
  ASSUME GInv, GInv', new_sequence, docs' = docs, intact'
  PROVE  Latest' = created + 1 /\ BMessages' = NoneHeld /\ BSender' = 0 /\ BTarget' = 0
<1> USE DEF GInv
<1>1. /\ DOMAIN metas' = DOMAIN metas \cup {created + 1}
      /\ \A i \in DOMAIN metas : i < created + 1
      /\ metas'[created + 1].sender = 0 /\ metas'[created + 1].target = 0
      /\ created \in Nat
  BY NewSequence, GFields
<1>2. Latest' = created + 1
  <2>1. created + 1 \in DOMAIN metas' /\ \A j \in DOMAIN metas' : j <= created + 1
    BY <1>1, GFields
  <2> QED
    BY <2>1, LatestNext DEF LatestFact
<1>3. Stored(Latest)' = {}
  <2>1. \A d \in docs : d.sequence_id # created + 1
    BY <1>1 DEF Drawn, GTyped, Doc
  <2> QED
    BY <1>2, <2>1 DEF Stored
<1>4. Numbers(Latest)'.sender = 0 /\ Numbers(Latest)'.target = 0
  BY <1>1, <1>2 DEF Numbers
<1>5. BMessages' = NoneHeld
  BY <1>3, MappedNext, HeldNone DEF MappedValues
<1> QED
  BY <1>2, <1>4, <1>5, MappedNext DEF MappedValues

LEMMA OpenNewStep == ASSUME GInv, GInv', open_new PROVE BSame
<1>1. CASE ~intact
  BY <1>1, DamagedStep DEF open_new
<1>2. CASE intact
  <2>1. Latest = 0
    BY LatestNow DEF LatestFact, open_new
  <2>2. Stored(Latest) = {}
    BY <2>1 DEF Stored, GInv, GTyped, Doc
  <2>3. Numbers(Latest).sender = 0 /\ Numbers(Latest).target = 0
    BY <2>1, NumbersType, GFields DEF GInv
  <2>4. BMessages = NoneHeld /\ BSender = 0 /\ BTarget = 0
    BY <1>2, <2>2, <2>3, Mapped, HeldNone DEF MappedValues
  <2>5. BMessages' = NoneHeld /\ BSender' = 0 /\ BTarget' = 0
    BY <1>2, FreshIsEmpty DEF open_new
  <2>6. BStatus' = BStatus
    BY <1>2, SameStatus DEF open_new
  <2> QED
    BY <2>4, <2>5, <2>6 DEF BSame
<1> QED
  BY <1>1, <1>2 DEF GInv, GTyped

LEMMA OpenStep ==
  ASSUME GInv, GInv', get_or_default_sequence
  PROVE  Abstract!MNext \/ BSame
<1>1. CASE ~intact
  BY <1>1, DamagedStep DEF get_or_default_sequence
<1>2. CASE intact
  <2>1. Latest # 0 /\ current'.id = Latest
    BY LatestNow, GFields DEF LatestFact, get_or_default_sequence, Meta, GInv
  <2>2. BStatus = "down" /\ BStatus' = "up"
    BY <1>2, <2>1, Mapped, MappedNext DEF MappedValues, get_or_default_sequence
  <2>3. BMessages' = BMessages /\ BSender' = BSender /\ BTarget' = BTarget
    BY <1>2, SameLatest, SameMapped DEF get_or_default_sequence, Stored, Numbers
  <2> QED
    BY <2>2, <2>3, AbstractRestart
<1> QED
  BY <1>1, <1>2 DEF GInv, GTyped

\* The database's part of a call is where it takes effect.
LEMMA NumberSteps ==
  ASSUME GInv, GInv',
         increment_sender_seq_number \/ increment_target_seq_number \/ set_target_seq_number
  PROVE  Abstract!MNext \/ BSame
<1> DEFINE old == Numbers(current.id)
<1>1. Ready /\ UNCHANGED <<docs, current, cleaner, created, intact, stray>>
  BY DEF increment_sender_seq_number, increment_target_seq_number, set_target_seq_number
<1>2. CASE ~intact
  BY <1>1, <1>2, DamagedStep
<1>3. CASE intact
  <2>1. Latest = current.id /\ current.id \in DOMAIN metas /\ current.id # 0
    BY <1>1, <1>3, LatestIs DEF GInv, Holds, IsLatest, Ready, Idle
  <2>2. old \in MetaRecord /\ old = metas[current.id] /\ old.sender \in 0 .. MaxSeq /\ old.target \in 0 .. MaxSeq
    BY <2>1, NumbersType, GFields DEF GInv
  <2>3. \E meta \in MetaRecord :
           /\ update_one(current.id, meta)
           /\ \/ meta.sender = old.sender + 1 /\ meta.target = old.target /\ old.sender < MaxSeq
              \/ meta.sender = old.sender
    <3> HIDE DEF old
    <3>1. CASE increment_sender_seq_number
      <4> DEFINE meta == [old EXCEPT !.sender = @ + 1]
      <4>1. update_one(current.id, meta) /\ old.sender < MaxSeq
        BY <3>1 DEF increment_sender_seq_number, old
      <4>2. meta \in MetaRecord /\ meta.sender = old.sender + 1 /\ meta.target = old.target
        BY <2>2, <4>1, MongoStoreAssumption DEF MetaRecord
      <4> HIDE DEF meta
      <4> QED
        BY <4>1, <4>2
    <3>2. CASE increment_target_seq_number
      <4> DEFINE meta == [old EXCEPT !.target = @ + 1]
      <4>1. update_one(current.id, meta) /\ old.target < MaxSeq
        BY <3>2 DEF increment_target_seq_number, old
      <4>2. meta \in MetaRecord /\ meta.sender = old.sender
        BY <2>2, <4>1, MongoStoreAssumption DEF MetaRecord
      <4> HIDE DEF meta
      <4> QED
        BY <4>1, <4>2
    <3>3. CASE set_target_seq_number
      <4>1. PICK n \in 0 .. MaxSeq : update_one(current.id, [old EXCEPT !.target = n])
        BY <3>3 DEF set_target_seq_number, old
      <4>2. [old EXCEPT !.target = n] \in MetaRecord /\ [old EXCEPT !.target = n].sender = old.sender
        BY <2>2 DEF MetaRecord
      <4> QED
        BY <4>1, <4>2, Zenon
    <3> QED
      BY <3>1, <3>2, <3>3
  <2>4. PICK meta \in MetaRecord :
           /\ update_one(current.id, meta)
           /\ \/ meta.sender = old.sender + 1 /\ meta.target = old.target /\ old.sender < MaxSeq
              \/ meta.sender = old.sender
    BY <2>3
  <2>5. DOMAIN metas' = DOMAIN metas /\ metas'[current.id] = meta
    BY <2>1, <2>4, UpdateOne DEF GInv
  <2>6. Latest' = Latest
    BY <2>5, SameLatest
  <2>7. Stored(Latest)' = Stored(Latest)
    BY <1>1, <2>6 DEF Stored
  <2>8. Numbers(Latest) = old /\ Numbers(Latest)' = meta
    BY <2>1, <2>5, <2>6 DEF Numbers
  <2>9. /\ BStatus = "up" /\ BStatus' = BStatus /\ BMessages' = BMessages
        /\ BSender = old.sender /\ BTarget = old.target
        /\ BSender' = meta.sender /\ BTarget' = meta.target
    BY <1>1, <1>3, <2>1, <2>7, <2>8, Mapped, MappedNext DEF MappedValues
  <2>10. meta.target \in 0 .. MaxSeq
    BY DEF MetaRecord
  <2> HIDE DEF old
  <2> QED
    BY <2>4, <2>9, <2>10, AbstractIncrement, AbstractSetTarget
<1> QED
  BY <1>2, <1>3 DEF GInv, GTyped

LEMMA AddStep == ASSUME GInv, GInv', add PROVE Abstract!MNext \/ BSame
<1>1. PICK c \in Content :
         docs' = {e \in docs : ~SameKey(e, [sequence_id |-> current.id,
                                            msg_seq_number |-> current.sender, data |-> c])}
                 \cup {[sequence_id |-> current.id, msg_seq_number |-> current.sender, data |-> c]}
  BY DEF add
<1> DEFINE d == [sequence_id |-> current.id, msg_seq_number |-> current.sender, data |-> c]
<1>2. d.sequence_id = current.id /\ d.msg_seq_number = current.sender /\ d.data = c
  OBVIOUS
<1>3. docs' = {e \in docs : ~SameKey(e, d)} \cup {d}
  BY <1>1
<1>4. Ready /\ UNCHANGED <<metas, current, cleaner, created, intact, stray>>
  BY DEF add
<1> HIDE DEF d
<1>5. CASE ~intact
  BY <1>4, <1>5, DamagedStep
<1>6. CASE intact
  <2>1. Latest = current.id /\ current.id \in DOMAIN metas /\ current.id # 0
    BY <1>4, <1>6, LatestIs DEF GInv, Holds, IsLatest, Ready, Idle
  <2>2. Latest' = Latest
    BY <1>4, SameLatest
  <2>3. Numbers(Latest).sender = current.sender
    BY <1>4, <1>6, <2>1 DEF Numbers, GInv, Follows, Ready, Idle
  <2>4. Numbers(Latest)' = Numbers(Latest)
    BY <1>4, <2>2 DEF Numbers
  <2>5. Stored(Latest)' = Replaced(Stored(Latest), d)
    BY <1>2, <1>3, <2>1, <2>2 DEF Stored, Replaced
  <2>6. \A e \in Stored(Latest) : e \in docs /\ e.sequence_id = d.sequence_id
    BY <1>2, <2>1, SMTT(20) DEF Stored
  <2>7. \A e, f \in Stored(Latest) : SameKey(e, f) => e = f
    BY <2>6 DEF GInv, OneEach
  <2>8. Held(Stored(Latest)') = With(Held(Stored(Latest)), d.msg_seq_number, d.data)
    BY <2>5, <2>6, <2>7, HeldAdd
  <2>9. /\ BStatus = "up" /\ BStatus' = BStatus /\ BSender = current.sender
        /\ BSender' = BSender /\ BTarget' = BTarget
        /\ BMessages = Held(Stored(Latest)) /\ BMessages' = Held(Stored(Latest)')
    BY <1>4, <1>6, <2>1, <2>3, <2>4, Mapped, MappedNext DEF MappedValues
  <2>10. BMessages' = [n \in DOMAIN BMessages \cup {BSender} |-> IF n = BSender THEN c ELSE BMessages[n]]
    BY <1>2, <2>8, <2>9 DEF With
  <2> QED
    BY <2>9, <2>10, AbstractAdd
<1> QED
  BY <1>5, <1>6 DEF GInv, GTyped

LEMMA ResetStep == ASSUME GInv, GInv', reset PROVE Abstract!MNext \/ BSame
<1>1. new_sequence /\ Ready /\ UNCHANGED <<docs, current, cleaner, intact, stray>>
  BY DEF reset
<1>2. CASE ~intact
  BY <1>1, <1>2, DamagedStep
<1>3. CASE intact
  <2>1. BMessages' = NoneHeld /\ BSender' = 0 /\ BTarget' = 0
    BY <1>1, <1>3, FreshIsEmpty, SMTT(20)
  <2>2. BStatus = "up" /\ BStatus' = "up"
    BY <1>1, <1>3, Mapped, MappedNext DEF MappedValues, Ready
  <2> QED
    BY <2>1, <2>2, AbstractReset
<1> QED
  BY <1>2, <1>3 DEF GInv, GTyped

\* The answer shows nothing new, unless it ends the wait for one.
LEMMA AnsweredStep == ASSUME GInv, GInv', Answered PROVE Abstract!MNext \/ BSame
<1>1. /\ call # Idle /\ current.id # 0 /\ UNCHANGED <<metas, docs, cleaner, created, stray>>
      /\ intact' = (intact \/ call.op = "reset")
  BY DEF Answered, GInv, Calling
<1>2. current'.id # 0
  <2>1. created # 0 \/ call.op # "reset"
    BY GFields DEF GInv, Calling, IsLatest
  <2>2. /\ call.op = "reset" => current'.id = created
        /\ call.op # "reset" => current'.id = current.id
    BY GFields DEF Answered, GInv, Calling
  <2> QED
    BY <1>1, <2>1, <2>2, SMTT(20)
<1>3. Latest' = Latest
  BY <1>1, SameLatest
<1>4. Stored(Latest)' = Stored(Latest) /\ Numbers(Latest)' = Numbers(Latest)
  BY <1>1, <1>3 DEF Stored, Numbers
<1>5. CASE intact
  <2>1. BMessages' = BMessages /\ BSender' = BSender /\ BTarget' = BTarget
    BY <1>1, <1>3, <1>4, <1>5, SameMapped, Zenon
  <2>2. BStatus' = BStatus
    BY <1>1, <1>2, <1>5, SameStatus, Zenon
  <2> QED
    BY <2>1, <2>2 DEF BSame
<1>6. CASE ~intact /\ call.op # "reset"
  BY <1>1, <1>6, DamagedStep, Zenon
<1>7. CASE ~intact /\ call.op = "reset"
  <2>1. /\ Latest = created /\ created \in DOMAIN metas
        /\ metas[created].sender = 0 /\ metas[created].target = 0
        /\ \A d \in docs : d.sequence_id # created
    BY <1>7, LatestIs DEF GInv, Calling, IsLatest
  <2>2. Stored(Latest) = {}
    BY <2>1 DEF Stored
  <2>3. Numbers(Latest).sender = 0 /\ Numbers(Latest).target = 0
    BY <2>1 DEF Numbers
  <2>4. /\ BStatus = "damaged" /\ BStatus' = "up"
        /\ BMessages' = NoneHeld /\ BSender' = 0 /\ BTarget' = 0
    BY <1>1, <1>2, <1>4, <1>7, <2>2, <2>3, HeldNone, Mapped, MappedNext, Zenon DEF MappedValues
  <2> QED
    BY <2>4, AbstractReset
<1> QED
  BY <1>5, <1>6, <1>7 DEF GInv, GTyped

LEMMA AnswerLostStep == ASSUME GInv, GInv', AnswerLost PROVE Abstract!MNext
<1>1. current.id # 0 /\ intact /\ ~intact'
  BY DEF AnswerLost, GInv, Calling
<1>2. /\ BStatus = "up" /\ BStatus' = "damaged"
      /\ BMessages' = NoneHeld /\ BSender' = 0 /\ BTarget' = 0
  BY <1>1, Mapped, MappedNext DEF MappedValues
<1> QED
  BY <1>2, AbstractReset

LEMMA CrashStep == ASSUME GInv, GInv', Crash PROVE Abstract!MNext \/ BSame
<1>1. current.id # 0 /\ current'.id = 0 /\ UNCHANGED <<metas, docs, created, intact, stray>>
  BY DEF Crash, NoProcess
<1>2. CASE ~intact
  BY <1>1, <1>2, DamagedStep
<1>3. CASE intact
  <2>1. BMessages' = BMessages /\ BSender' = BSender /\ BTarget' = BTarget
    BY <1>1, <1>3, SameLatest, SameMapped DEF Stored, Numbers
  <2>2. BStatus = "up" /\ BStatus' = "down"
    BY <1>1, <1>3, Mapped, MappedNext DEF MappedValues
  <2> QED
    BY <2>1, <2>2, AbstractCrash
<1> QED
  BY <1>2, <1>3 DEF GInv, GTyped

\* A cleanup does nothing the session sees.
LEMMA CleanupSteps ==
  ASSUME GInv, GInv', Age \/ cleanup_older_than \/ find_old \/ delete_many \/ CleanupFails
  PROVE  BSame
<1>1. UNCHANGED <<current, call, created, intact, stray>>
  BY DEF Age, cleanup_older_than, find_old, delete_many, CleanupFails
<1>2. CASE ~intact
  BY <1>1, <1>2, DamagedStep
<1>3. CASE intact
  <2>1. /\ Latest' = Latest /\ Stored(Latest)' = Stored(Latest)
        /\ Numbers(Latest)'.sender = Numbers(Latest).sender
        /\ Numbers(Latest)'.target = Numbers(Latest).target
    <3>1. CASE cleanup_older_than \/ find_old \/ CleanupFails
      <4>1. UNCHANGED <<metas, docs>>
        BY <3>1 DEF cleanup_older_than, find_old, CleanupFails
      <4> QED
        BY <4>1, SameLatest DEF Stored, Numbers
    <3>2. CASE Age
      <4>1. PICK i \in DOMAIN metas : metas' = [metas EXCEPT ![i].old = TRUE]
        BY <3>2, Zenon DEF Age
      <4> DEFINE m == [metas[i] EXCEPT !.old = TRUE]
      <4>2. m.sender = metas[i].sender /\ m.target = metas[i].target
        BY GFields DEF GInv, MetaRecord
      <4>3. metas' = [metas EXCEPT ![i] = m]
        BY <4>1, SMTT(20)
      <4> HIDE DEF m
      <4>4. /\ DOMAIN metas' = DOMAIN metas
            /\ \A j \in DOMAIN metas : metas'[j].sender = metas[j].sender /\ metas'[j].target = metas[j].target
        BY <4>2, <4>3 DEF GInv, GTyped
      <4>5. Latest' = Latest
        BY <4>4, SameLatest
      <4>6. docs' = docs
        BY <3>2 DEF Age
      <4> QED
        BY <4>4, <4>5, <4>6 DEF Stored, Numbers
    <3>3. CASE delete_many /\ cleaner.pc = "messages"
      <4>1. docs' = {d \in docs : d.sequence_id \notin cleaner.ids} /\ metas' = metas
        BY <3>3 DEF delete_many
      <4>2. Latest' = Latest
        BY <4>1, SameLatest
      <4>3. Latest \notin cleaner.ids
        <5>1. DOMAIN metas # {} => Latest \notin cleaner.ids
          BY <1>3, <3>3, FoundIsOlder
        <5>2. DOMAIN metas = {} => cleaner.ids = {}
          BY DEF GInv, Cleaning
        <5> QED
          BY <5>1, <5>2, Zenon
      <4> QED
        BY <4>1, <4>2, <4>3 DEF Stored, Numbers
    <3>4. CASE delete_many /\ cleaner.pc = "metas"
      <4>1. metas' = [i \in DOMAIN metas \ cleaner.ids |-> metas[i]] /\ docs' = docs
        BY <3>4 DEF delete_many
      <4>2. CASE DOMAIN metas = {}
        <5>1. DOMAIN metas' = DOMAIN metas
          BY <4>1, <4>2
        <5>2. Latest' = Latest /\ Latest = 0
          BY <4>2, <5>1, SameLatest, LatestNow, SMTT(20) DEF LatestFact
        <5> QED
          BY <4>1, <4>2, <5>1, <5>2 DEF Stored, Numbers
      <4>3. CASE DOMAIN metas # {}
        <5>1. Latest \in DOMAIN metas /\ \A j \in DOMAIN metas : j <= Latest
          BY <4>3, LatestNow DEF LatestFact
        <5>2. Latest \notin cleaner.ids
          BY <1>3, <3>4, <4>3, FoundIsOlder
        <5>3. Latest \in DOMAIN metas' /\ (\A j \in DOMAIN metas' : j <= Latest) /\ metas'[Latest] = metas[Latest]
          BY <4>1, <5>1, <5>2
        <5>4. Latest' = Latest
          BY <5>3, LatestNext DEF LatestFact
        <5> QED
          BY <4>1, <5>1, <5>3, <5>4 DEF Stored, Numbers
      <4> QED
        BY <4>2, <4>3, SMTT(20)
    <3> QED
      BY <3>1, <3>2, <3>3, <3>4, SMTT(20) DEF delete_many
  <2>2. BMessages' = BMessages /\ BSender' = BSender /\ BTarget' = BTarget
    BY <1>1, <1>3, <2>1, SameMapped
  <2>3. BStatus' = BStatus
    BY <1>1, <1>3, SameStatus
  <2> QED
    BY <2>2, <2>3 DEF BSame
<1> QED
  BY <1>2, <1>3 DEF GInv, GTyped

\* MongoDbMessageStore does what the session expects of a store, whatever a
\* cleanup in another process does meanwhile.
THEOREM MongoImplements == MongoSpec => MongoImplementsStore
<1>1. GInit => Abstract!MInit
  <2> SUFFICES ASSUME GInit PROVE Abstract!MInit
    OBVIOUS
  <2>1. GInv
    BY GInitKeeps
  <2>2. Latest = 0 /\ Stored(Latest) = {} /\ Numbers(Latest).sender = 0 /\ Numbers(Latest).target = 0
    BY <2>1, LatestNow DEF LatestFact, GInit, Stored, Numbers
  <2>3. BMessages = NoneHeld /\ BSender = 0 /\ BTarget = 0 /\ BStatus = "down"
    BY <2>2, Mapped, HeldNone DEF MappedValues, GInit, NoProcess
  <2> QED
    BY <2>3, Zenon DEF Abstract!MInit, Abstract!Empty, NoneHeld, BMessages, BSender, BTarget, BStatus
<1>2. GInv /\ GInv' /\ [GNext]_gvars => [Abstract!MNext]_(Abstract!mvars)
  <2> SUFFICES ASSUME GInv, GInv', [GNext]_gvars
               PROVE  Abstract!MNext \/ UNCHANGED Abstract!mvars
    OBVIOUS
  <2>1. CASE GNext
    <3>1. Abstract!MNext \/ BSame
      BY <2>1, OpenNewStep, OpenStep, NumberSteps, AddStep, ResetStep, AnsweredStep, AnswerLostStep,
         CrashStep, CleanupSteps, Zenon
         DEF GNext
    <3> QED
      BY <3>1, Zenon DEF BSame, Abstract!mvars, BMessages, BSender, BTarget, BStatus
  <2>2. CASE UNCHANGED gvars
    <3>1. Latest' = Latest
      BY <2>2, SameLatest DEF gvars
    <3> QED
      BY <2>2, <3>1 DEF gvars, Abstract!mvars, Stored, Numbers
  <2> QED
    BY <2>1, <2>2
<1> QED
  BY <1>1, <1>2, MongoInvariant, PTL DEF MongoSpec, MongoImplementsStore, Abstract!MSpec
=============================================================================
