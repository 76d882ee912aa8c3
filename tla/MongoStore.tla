----------------------------- MODULE MongoStore -----------------------------
(***************************************************************************)
(* hotfix-store-mongodb: a sequence is a meta document with the two        *)
(* numbers and the messages that carry its id; a reset starts another, and *)
(* a process that opens the store takes the latest.  A call has two        *)
(* points, the database's change and the answer that lets the struct       *)
(* follow; the process may die, or the answer get lost, in between.        *)
(* cleanup_older_than runs beside it, in a process of its own.             *)
(*                                                                         *)
(* The database (external) applies one call at a time.  Ids are drawn in   *)
(* increasing order: ObjectIds order the sequences by the second they were *)
(* created in.                                                             *)
(***************************************************************************)
EXTENDS Integers, FiniteSets

CONSTANTS
    Content,          \* the encoded messages
    MaxSeq,           \* bound on the sequence numbers
    MaxSequences      \* bound on the sequences ever created

ASSUME MongoStoreAssumption == MaxSeq \in Nat /\ MaxSequences \in Nat

VARIABLES
    metas,            \* the meta documents: id -> numbers, and whether it is old
    docs,             \* the message documents
    current,          \* current_sequence; id 0 while there is no process
    call,             \* what the struct does when the answer comes
    cleaner,          \* cleanup_older_than: where it is, what it excludes and found, whose it is
    created,          \* sequences ever created
    intact,           \* FALSE while an answer is missing that the struct has not followed
    stray             \* sequences the struct went on with after a reset it did not hear of

gvars == <<metas, docs, current, call, cleaner, created, intact, stray>>

Doc == [sequence_id : 1 .. MaxSequences, msg_seq_number : 1 .. MaxSeq, data : Content]

NoProcess == [id |-> 0, sender |-> 0, target |-> 0]

Idle == [op |-> "none", n |-> 0]

NoCleanup == [pc |-> "none", exclude |-> 0, ids |-> {}, own |-> FALSE]

Latest == IF metas = << >> THEN 0 ELSE CHOOSE i \in DOMAIN metas : \A j \in DOMAIN metas : j <= i

Meta(id) == [id |-> id, sender |-> metas[id].sender, target |-> metas[id].target]

WithMeta(id, meta) == [i \in DOMAIN metas \cup {id} |-> IF i = id THEN meta ELSE metas[i]]

\* update_one: an id that is not there is no error.
update_one(id, meta) == metas' = IF id \in DOMAIN metas THEN [metas EXCEPT ![id] = meta] ELSE metas

Numbers(id) == IF id \in DOMAIN metas THEN metas[id] ELSE [sender |-> 0, target |-> 0, old |-> FALSE]

-----------------------------------------------------------------------------
(* new_inner *)

new_sequence ==
    /\ created < MaxSequences
    /\ created' = created + 1
    /\ metas' = WithMeta(created + 1, [sender |-> 0, target |-> 0, old |-> FALSE])

\* find_one found nothing.
open_new ==
    /\ current.id = 0 /\ call = Idle /\ metas = << >>
    /\ new_sequence
    /\ UNCHANGED <<docs, current, call, cleaner, intact, stray>>

\* A store that opens believes what it reads.
get_or_default_sequence ==
    /\ current.id = 0 /\ call = Idle /\ metas # << >>
    /\ current' = Meta(Latest)
    /\ UNCHANGED <<metas, docs, call, cleaner, created, intact, stray>>

-----------------------------------------------------------------------------
(* trait MessageStore.  First the database's part, *)

Ready == current.id # 0 /\ call = Idle /\ ~cleaner.own

increment_sender_seq_number ==
    /\ Ready /\ current.sender < MaxSeq /\ Numbers(current.id).sender < MaxSeq
    /\ update_one(current.id, [Numbers(current.id) EXCEPT !.sender = @ + 1])
    /\ call' = [op |-> "sender", n |-> current.sender + 1]
    /\ UNCHANGED <<docs, current, cleaner, created, intact, stray>>

increment_target_seq_number ==
    /\ Ready /\ current.target < MaxSeq /\ Numbers(current.id).target < MaxSeq
    /\ update_one(current.id, [Numbers(current.id) EXCEPT !.target = @ + 1])
    /\ call' = [op |-> "target", n |-> current.target + 1]
    /\ UNCHANGED <<docs, current, cleaner, created, intact, stray>>

set_target_seq_number ==
    /\ Ready
    /\ \E n \in 0 .. MaxSeq :
          /\ update_one(current.id, [Numbers(current.id) EXCEPT !.target = n])
          /\ call' = [op |-> "target", n |-> n]
    /\ UNCHANGED <<docs, current, cleaner, created, intact, stray>>

SameKey(d, e) == d.sequence_id = e.sequence_id /\ d.msg_seq_number = e.msg_seq_number

\* replace_one with upsert, under the number just taken.
add ==
    /\ Ready /\ current.sender > 0
    /\ \E c \in Content :
          LET d == [sequence_id |-> current.id, msg_seq_number |-> current.sender, data |-> c]
          IN  docs' = {e \in docs : ~SameKey(e, d)} \cup {d}
    /\ call' = [op |-> "add", n |-> 0]
    /\ UNCHANGED <<metas, current, cleaner, created, intact, stray>>

reset ==
    /\ Ready
    /\ new_sequence
    /\ call' = [op |-> "reset", n |-> created + 1]
    /\ UNCHANGED <<docs, current, cleaner, intact, stray>>

\* then the answer, and the struct's.
Answered ==
    /\ call # Idle
    /\ current' = CASE call.op = "sender" -> [current EXCEPT !.sender = call.n]
                    [] call.op = "target" -> [current EXCEPT !.target = call.n]
                    [] call.op = "reset"  -> [id |-> call.n, sender |-> 0, target |-> 0]
                    [] OTHER -> current
    /\ intact' = (intact \/ call.op = "reset")
    /\ call' = Idle
    /\ UNCHANGED <<metas, docs, cleaner, created, stray>>

\* The `?` of a call that was carried out: the struct stays behind.  Bound:
\* once between two resets.
AnswerLost ==
    /\ call # Idle /\ intact
    /\ intact' = FALSE
    /\ stray' = IF call.op = "reset" THEN stray \cup {current.id} ELSE stray
    /\ call' = Idle
    /\ UNCHANGED <<metas, docs, current, cleaner, created>>

\* The process dies, and a cleanup of its own with it.
Crash ==
    /\ current.id # 0
    /\ current' = NoProcess /\ call' = Idle
    /\ cleaner' = IF cleaner.own THEN NoCleanup ELSE cleaner
    /\ UNCHANGED <<metas, docs, created, intact, stray>>

-----------------------------------------------------------------------------
(* cleanup_older_than *)

\* creation_time falls behind the cutoff.  The age asked for is long against
\* a cleanup: what is created during one is not old for it.
Age ==
    /\ cleaner.pc = "none"
    /\ \E i \in DOMAIN metas : metas' = [metas EXCEPT ![i].old = TRUE]
    /\ UNCHANGED <<docs, current, call, cleaner, created, intact, stray>>

\* Mutant: the latest sequence is not left out.
find_latest_unused ==
    /\ cleaner.pc = "none"
    /\ cleaner' = [NoCleanup EXCEPT !.pc = "find"]
    /\ UNCHANGED <<metas, docs, current, call, created, intact, stray>>

\* The function of this name excludes the latest sequence; the method the
\* struct's own, and no other call is made while it borrows the struct.
cleanup_older_than ==
    /\ cleaner.pc = "none"
    /\ \/ cleaner' = [NoCleanup EXCEPT !.pc = "find", !.exclude = Latest]
       \/ Ready /\ cleaner' = [NoCleanup EXCEPT !.pc = "find", !.exclude = current.id, !.own = TRUE]
    /\ UNCHANGED <<metas, docs, current, call, created, intact, stray>>

find_old ==
    /\ cleaner.pc = "find"
    /\ LET ids == {i \in DOMAIN metas : metas[i].old /\ i # cleaner.exclude}
       IN  cleaner' = IF ids = {} THEN NoCleanup ELSE [cleaner EXCEPT !.pc = "messages", !.ids = ids]
    /\ UNCHANGED <<metas, docs, current, call, created, intact, stray>>

\* Mutant: the metas first.
delete_metas_first ==
    /\ cleaner.pc \in {"messages", "metas"}
    /\ IF cleaner.pc = "messages"
       THEN /\ metas' = [i \in DOMAIN metas \ cleaner.ids |-> metas[i]]
            /\ cleaner' = [cleaner EXCEPT !.pc = "metas"]
            /\ UNCHANGED docs
       ELSE /\ docs' = {d \in docs : d.sequence_id \notin cleaner.ids}
            /\ cleaner' = NoCleanup
            /\ UNCHANGED metas
    /\ UNCHANGED <<current, call, created, intact, stray>>

\* The two delete_many of cleanup_older_than_inner.
delete_many ==
    /\ cleaner.pc \in {"messages", "metas"}
    /\ IF cleaner.pc = "messages"
       THEN /\ docs' = {d \in docs : d.sequence_id \notin cleaner.ids}
            /\ cleaner' = [cleaner EXCEPT !.pc = "metas"]
            /\ UNCHANGED metas
       ELSE /\ metas' = [i \in DOMAIN metas \ cleaner.ids |-> metas[i]]
            /\ cleaner' = NoCleanup
            /\ UNCHANGED docs
    /\ UNCHANGED <<current, call, created, intact, stray>>

\* StoreError::Cleanup, or the end of the cleaning process.
CleanupFails ==
    /\ cleaner.pc # "none"
    /\ cleaner' = NoCleanup
    /\ UNCHANGED <<metas, docs, current, call, created, intact, stray>>

-----------------------------------------------------------------------------
GInit ==
    /\ metas = << >> /\ docs = {} /\ current = NoProcess /\ call = Idle
    /\ cleaner = NoCleanup /\ created = 0 /\ intact = TRUE /\ stray = {}

GNext ==
    \/ open_new \/ get_or_default_sequence
    \/ increment_sender_seq_number \/ increment_target_seq_number \/ set_target_seq_number
    \/ add \/ reset \/ Answered \/ AnswerLost \/ Crash
    \/ Age \/ cleanup_older_than \/ find_old \/ delete_many \/ CleanupFails

MongoSpec == GInit /\ [][GNext]_gvars

-----------------------------------------------------------------------------
(* Properties *)

\* cleanup_older_than_inner deletes "messages first": wherever a cleanup stops,
\* a message that is left has its meta document, by which the next one finds
\* it.  Not so when the store went on with a sequence it had unknowingly left.
NoOrphans == \A d \in docs : d.sequence_id \in DOMAIN metas \cup stray

Stored(id) == {d \in docs : d.sequence_id = id}

\* The store as its user sees it: the latest sequence, whoever holds it.
Abstract == INSTANCE MessageStore WITH
    messages <- [n \in {d.msg_seq_number : d \in {d \in Stored(Latest) : intact}} |->
                    (CHOOSE d \in Stored(Latest) : d.msg_seq_number = n).data],
    sender_seq_number <- IF intact THEN Numbers(Latest).sender ELSE 0,
    target_seq_number <- IF intact THEN Numbers(Latest).target ELSE 0,
    status <- CASE ~intact -> "damaged"
                [] intact /\ current.id # 0 -> "up"
                [] OTHER -> "down"

\* MongoDbMessageStore does what MessageStore says, and loses nothing in a crash:
\* a call counts when the database has carried it out, a reset opens an empty
\* sequence, and a cleanup at any moment leaves the session's own alone.
MongoImplementsStore == Abstract!MSpec
=============================================================================
