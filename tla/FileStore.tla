----------------------------- MODULE FileStore ------------------------------
(***************************************************************************)
(* hotfix-store/src/file.rs, one action for each change it makes to a file *)
(* on disk, so that the process can die between any two of them.  The one  *)
(* caller is the session task: calls do not overlap.                       *)
(*                                                                         *)
(* What write() has taken survives the process.  A message is one unit of  *)
(* the body file, a line one unit of the header file; a file that does not *)
(* exist and an empty one differ for `.session` only.                      *)
(***************************************************************************)
EXTENDS Integers, Sequences, FiniteSets

CONSTANTS
    Content,        \* the encoded messages
    MaxSeq,         \* bound on the sequence numbers
    MaxBody         \* bound on the messages ever written between two resets

ASSUME FileStoreAssumption ==
    /\ {"UnexpectedEof", "None"} \cap Content = {}
    /\ MaxSeq \in Nat /\ MaxBody \in Nat

VARIABLES
    body, header, seqnums, session,    \* the four files
    store,                             \* struct FileStore
    pc,                                \* the point a call has got to
    kept,                              \* the messages whose add returned Ok since the reset
    intact                             \* FALSE once an add failed or a reset was cut short

disk == <<body, header, seqnums, session>>
fvars == <<disk, store, pc, kept, intact>>

Numbers == [sender : 0 .. MaxSeq, target : 0 .. MaxSeq]
Line == [seq : 1 .. MaxSeq, offset : 0 .. MaxBody]

NoNumbers == [sender |-> 0, target |-> 0]

\* The seqnums file: missing or empty, cut off where it does not parse, or a
\* pair of numbers.
EmptyFile == [form |-> "empty", numbers |-> NoNumbers]
TornFile == [form |-> "torn", numbers |-> NoNumbers]
Holding(numbers) == [form |-> "numbers", numbers |-> numbers]

NoMessages == [n \in {} |-> 0]

\* Later lines for the same number win.
load_message_index(lines) ==
    [n \in {lines[i].seq : i \in DOMAIN lines} |->
        lines[CHOOSE i \in DOMAIN lines :
                 /\ lines[i].seq = n
                 /\ \A j \in DOMAIN lines : lines[j].seq = n => j <= i].offset]

\* What read_messages finds in the body file at an index's offsets; a read
\* beyond the end of the file fails.
read_messages(index) ==
    [n \in DOMAIN index |->
        IF index[n] < Len(body) THEN body[index[n] + 1] ELSE "UnexpectedEof"]

\* The numbers a restart would read.
read_initial_seqnums == seqnums.numbers

\* The struct as new_inner fills it in: the files its handles refer to are the
\* ones on disk (`linked`), nothing waits in a BufWriter.
Files == {"body", "header", "seqnums"}
Closed == [numbers |-> NoNumbers, index |-> NoMessages, offset |-> 0,
           body_buf |-> << >>, header_buf |-> << >>, linked |-> Files,
           given |-> NoNumbers, message |-> "None"]      \* the arguments of the call

\* A write through a handle whose file was removed leaves the disk alone.
Through(file, old, new) == IF file \in store.linked THEN new ELSE old

-----------------------------------------------------------------------------
(* FileStore::new *)

\* get_or_create_session_time creates the file before it writes the time.
CreateSessionFile ==
    /\ pc = "down" /\ session = "none"
    /\ session' = "empty" /\ pc' = "creating"
    /\ UNCHANGED <<body, header, seqnums, store, kept, intact>>

WriteSessionFile ==
    /\ pc = "creating"
    /\ session' = "time" /\ pc' = "opening"
    /\ UNCHANGED <<body, header, seqnums, store, kept, intact>>

\* Mutant: the body's length is not taken for the offset.
new_inner_from_start ==
    /\ pc = "opening" \/ (pc = "down" /\ session = "time")
    /\ seqnums # TornFile
    /\ seqnums' = EmptyFile
    /\ store' = [Closed EXCEPT !.numbers = read_initial_seqnums,
                               !.index = load_message_index(header)]
    /\ pc' = "idle"
    /\ UNCHANGED <<body, header, session, kept, intact>>

\* Reads the numbers, then opens their file with truncate(true).
new_inner ==
    /\ pc = "opening" \/ (pc = "down" /\ session = "time")
    /\ seqnums # TornFile
    /\ seqnums' = EmptyFile
    /\ store' = [Closed EXCEPT !.numbers = read_initial_seqnums,
                               !.index = load_message_index(header),
                               !.offset = Len(body)]
    /\ pc' = "idle"
    /\ UNCHANGED <<body, header, session, kept, intact>>

\* A file whose content does not parse: StoreError::Initialization.
NewFails ==
    /\ pc = "down" /\ session # "none"
    /\ session = "empty" \/ seqnums = TornFile
    /\ pc' = "failed"
    /\ UNCHANGED <<disk, store, kept, intact>>

-----------------------------------------------------------------------------
(* write_seqnums_with: set_len(0), then the digits *)

Truncate(numbers, next) ==
    /\ pc = "idle"
    /\ numbers \in Numbers
    /\ seqnums' = Through("seqnums", seqnums, EmptyFile)
    /\ store' = [store EXCEPT !.given = numbers]
    /\ pc' = next
    /\ UNCHANGED <<body, header, session, kept, intact>>

increment_sender_seq_number ==
    Truncate([store.numbers EXCEPT !.sender = @ + 1], "numbers_add")

increment_target_seq_number ==
    Truncate([store.numbers EXCEPT !.target = @ + 1], "numbers")

set_target_seq_number ==
    \E n \in 0 .. MaxSeq : Truncate([store.numbers EXCEPT !.target = n], "numbers")

\* write! to a File writes the padding, the digits and the separator one by
\* one.  What is left may be no number, one number, or the target's padding,
\* which reads as a zero.  The struct keeps the old numbers.
WriteNumbersFails ==
    /\ pc \in {"numbers", "numbers_add"}
    /\ seqnums' \in Through("seqnums", {seqnums},
                            {EmptyFile, TornFile, Holding([store.given EXCEPT !.target = 0])})
    /\ store' = [store EXCEPT !.given = NoNumbers]
    /\ pc' = "idle"
    /\ UNCHANGED <<body, header, session, kept, intact>>

\* prepare_message goes on to add the message under the number taken.
WriteNumbers ==
    /\ pc \in {"numbers", "numbers_add"}
    /\ seqnums' = Through("seqnums", seqnums, Holding(store.given))
    /\ store' = [store EXCEPT !.numbers = store.given, !.given = NoNumbers]
    /\ pc' = IF pc = "numbers_add" THEN "adding" ELSE "idle"
    /\ UNCHANGED <<body, header, session, kept, intact>>

-----------------------------------------------------------------------------
(* write_message.  A BufWriter keeps what a failing flush has not written, *)
(* and writes it before what comes next.                                   *)

\* The bound on the two files, and on what the struct believes of them.
BodyRoom ==
    /\ Len(body) + Len(store.body_buf) < MaxBody
    /\ Len(header) + Len(store.header_buf) < MaxBody
    /\ store.offset < MaxBody

WriteBody ==
    /\ pc = "adding"
    /\ BodyRoom
    /\ \E message \in Content :
          /\ body' = Through("body", body, body \o store.body_buf \o <<message>>)
          /\ store' = [store EXCEPT !.body_buf = << >>, !.message = message]
    /\ pc' = "indexing"
    /\ UNCHANGED <<header, seqnums, session, kept, intact>>

WriteBodyFails ==
    /\ pc = "adding"
    /\ BodyRoom
    /\ \E message \in Content : store' = [store EXCEPT !.body_buf = Append(@, message)]
    /\ pc' = "idle" /\ intact' = FALSE
    /\ UNCHANGED <<disk, kept>>

NewLine == [seq |-> store.numbers.sender, offset |-> store.offset]

\* Mutants: the offset stays; the line break is counted too.
WriteHeader_same_offset ==
    /\ pc = "indexing"
    /\ header' = Through("header", header, header \o store.header_buf \o <<NewLine>>)
    /\ store' = [store EXCEPT !.header_buf = << >>, !.message = "None",
                              !.index = [n \in DOMAIN @ \cup {NewLine.seq} |->
                                            IF n = NewLine.seq THEN store.offset ELSE @[n]]]
    /\ kept' = [n \in DOMAIN kept \cup {NewLine.seq} |->
                   IF n = NewLine.seq THEN store.message ELSE kept[n]]
    /\ pc' = "idle"
    /\ UNCHANGED <<body, seqnums, session, intact>>

WriteHeader_far ==
    /\ pc = "indexing"
    /\ header' = Through("header", header, header \o store.header_buf \o <<NewLine>>)
    /\ store' = [store EXCEPT !.header_buf = << >>, !.message = "None",
                              !.index = [n \in DOMAIN @ \cup {NewLine.seq} |->
                                            IF n = NewLine.seq THEN store.offset ELSE @[n]],
                              !.offset = @ + 2]
    /\ kept' = [n \in DOMAIN kept \cup {NewLine.seq} |->
                   IF n = NewLine.seq THEN store.message ELSE kept[n]]
    /\ pc' = "idle"
    /\ UNCHANGED <<body, seqnums, session, intact>>

\* The message, its line, the index and the offset: add returns Ok.
WriteHeader ==
    /\ pc = "indexing"
    /\ header' = Through("header", header, header \o store.header_buf \o <<NewLine>>)
    /\ store' = [store EXCEPT !.header_buf = << >>, !.message = "None",
                              !.index = [n \in DOMAIN @ \cup {NewLine.seq} |->
                                            IF n = NewLine.seq THEN store.offset ELSE @[n]],
                              !.offset = @ + 1]
    /\ kept' = [n \in DOMAIN kept \cup {NewLine.seq} |->
                   IF n = NewLine.seq THEN store.message ELSE kept[n]]
    /\ pc' = "idle"
    /\ UNCHANGED <<body, seqnums, session, intact>>

WriteHeaderFails ==
    /\ pc = "indexing"
    /\ store' = [store EXCEPT !.header_buf = Append(@, NewLine), !.message = "None"]
    /\ pc' = "idle" /\ intact' = FALSE
    /\ UNCHANGED <<disk, kept>>

-----------------------------------------------------------------------------
(* perform_reset.  The buffers it flushes first go with their files; the    *)
(* handles of the removed files stay open until new ones replace them.     *)

RemoveBody ==
    /\ pc = "idle"
    /\ body' = << >> /\ kept' = NoMessages
    /\ store' = [store EXCEPT !.linked = @ \ {"body"}, !.body_buf = << >>, !.header_buf = << >>]
    /\ pc' = "removing_header"
    /\ UNCHANGED <<header, seqnums, session, intact>>

\* Mutant: the index file is forgotten.
RemoveHeader_kept ==
    /\ pc = "removing_header"
    /\ pc' = "removing_seqnums"
    /\ UNCHANGED <<disk, store, kept, intact>>

RemoveHeader ==
    /\ pc = "removing_header"
    /\ header' = << >>
    /\ store' = [store EXCEPT !.linked = @ \ {"header"}]
    /\ pc' = "removing_seqnums"
    /\ UNCHANGED <<body, seqnums, session, kept, intact>>

RemoveSeqnums ==
    /\ pc = "removing_seqnums"
    /\ seqnums' = EmptyFile
    /\ store' = [store EXCEPT !.linked = @ \ {"seqnums"}]
    /\ pc' = "removing_session"
    /\ UNCHANGED <<body, header, session, kept, intact>>

\* The in-memory state is cleared with it.
RemoveSession ==
    /\ pc = "removing_session"
    /\ session' = "none"
    /\ store' = [Closed EXCEPT !.linked = {}]
    /\ pc' = "recreating"
    /\ UNCHANGED <<body, header, seqnums, kept, intact>>

RecreateSession ==
    /\ pc = "recreating"
    /\ session' = "empty" /\ pc' = "rewriting"
    /\ UNCHANGED <<body, header, seqnums, store, kept, intact>>

RewriteSession ==
    /\ pc = "rewriting"
    /\ session' = "time" /\ pc' = "reopening"
    /\ UNCHANGED <<body, header, seqnums, store, kept, intact>>

\* The other three files are created empty: reset returns Ok.
Reopen ==
    /\ pc = "reopening"
    /\ store' = Closed /\ pc' = "idle" /\ intact' = TRUE
    /\ UNCHANGED <<disk, kept>>

Resetting == pc \in {"removing_header", "removing_seqnums", "removing_session",
                    "recreating", "rewriting", "reopening"}

\* A `?` of perform_reset: the store goes on with what it has.
ResetFails ==
    /\ Resetting
    /\ pc' = "idle" /\ intact' = FALSE
    /\ UNCHANGED <<disk, store, kept>>

-----------------------------------------------------------------------------
Up == pc \notin {"down", "creating", "opening", "failed"}

\* The process dies, at any point.
Crash ==
    /\ Up \/ pc \in {"creating", "opening"}
    /\ store' = Closed /\ pc' = "down"
    /\ intact' = (intact /\ ~Resetting)
    /\ UNCHANGED <<disk, kept>>

FInit ==
    /\ body = << >> /\ header = << >> /\ seqnums = EmptyFile /\ session = "none"
    /\ store = Closed /\ pc = "down" /\ kept = NoMessages /\ intact = TRUE

FNext ==
    \/ CreateSessionFile \/ WriteSessionFile \/ new_inner \/ NewFails
    \/ increment_sender_seq_number \/ increment_target_seq_number \/ set_target_seq_number
    \/ WriteNumbers \/ WriteNumbersFails
    \/ WriteBody \/ WriteBodyFails \/ WriteHeader \/ WriteHeaderFails
    \/ RemoveBody \/ RemoveHeader \/ RemoveSeqnums \/ RemoveSession
    \/ RecreateSession \/ RewriteSession \/ Reopen \/ ResetFails
    \/ Crash

FSpec == FInit /\ [][FNext]_fvars

-----------------------------------------------------------------------------
(* Properties *)

\* The files hold what their formats allow, and the struct numbers, offsets
\* and handles; the offset never runs ahead of the bound on the body.
FTypeOK ==
    /\ body \in Seq(Content) /\ Len(body) <= MaxBody
    /\ header \in Seq(Line)
    /\ seqnums \in {EmptyFile, TornFile} \cup {Holding(n) : n \in Numbers}
    /\ session \in {"none", "empty", "time"}
    /\ store.numbers \in Numbers /\ store.given \in Numbers
    /\ store.message \in Content \cup {"None"}
    /\ DOMAIN store.index \subseteq 1 .. MaxSeq
    /\ \A n \in DOMAIN store.index : store.index[n] \in 0 .. MaxBody
    /\ store.offset \in 0 .. MaxBody
    /\ store.body_buf \in Seq(Content) /\ store.header_buf \in Seq(Line)
    /\ store.linked \subseteq Files
    /\ pc \in {"down", "creating", "opening", "failed", "idle", "numbers", "numbers_add", "adding",
              "indexing"} \/ Resetting
    /\ DOMAIN kept \subseteq 1 .. MaxSeq /\ \A n \in DOMAIN kept : kept[n] \in Content
    /\ intact \in BOOLEAN

\* While no add has failed and no reset was cut short, get_slice returns for
\* each number the message last added under it, and no other: the offset
\* write_message takes for granted is the one the message really has.
ReadsBack ==
    intact /\ Up /\ ~Resetting => read_messages(store.index) = kept

\* The same of what a new process would find on disk, wherever the process
\* dies: a message without its line, written again under the same number
\* after the numbers were lost, or neither.
Recoverable ==
    intact /\ ~Resetting => read_messages(load_message_index(header)) = kept

\* The store as its user sees it.  A reset takes effect with its first step.
Abstract == INSTANCE MessageStore WITH
    messages <- IF intact /\ ~Resetting THEN read_messages(load_message_index(header)) ELSE NoMessages,
    sender_seq_number <- CASE ~intact \/ Resetting -> 0
                           [] intact /\ ~Resetting /\ Up -> store.numbers.sender
                           [] OTHER -> read_initial_seqnums.sender,
    target_seq_number <- CASE ~intact \/ Resetting -> 0
                           [] intact /\ ~Resetting /\ Up -> store.numbers.target
                           [] OTHER -> read_initial_seqnums.target,
    status <- CASE ~intact -> "damaged"
                [] intact /\ Up -> "up"
                [] intact /\ pc = "failed" -> "broken"
                [] OTHER -> "down"

\* FileStore does what MessageStore says: each call takes effect at once or not
\* at all, a crash spares the messages, and the numbers it may cost are those
\* MessageStore allows.
ImplementsStore == Abstract!MSpec

\* `.seqnums`: "Stores sender and target sequence numbers", in "a file-based
\* message store for persistence": opening the store must not take from the
\* disk the numbers it reads there.
OpenKeepsNumbers == [][new_inner => read_initial_seqnums' = store'.numbers]_fvars
=============================================================================
