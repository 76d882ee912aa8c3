-------------------------- MODULE FileStoreProofs ---------------------------
(***************************************************************************)
(* What module FileStore says of the store in files, for every set of      *)
(* messages and every bound: what was added is read back, now and by a     *)
(* later process, and the store implements MessageStore.                   *)
(***************************************************************************)
EXTENDS FileStore, SequenceTheorems, WellFoundedInduction, TLAPS

-----------------------------------------------------------------------------
(* The inductive invariant: FTypeOK, made precise where the steps need it, *)
(* the agreement of the struct with the files, and the point a call or a   *)
(* reset has got to.                                                       *)

\* The functions from sequence numbers to S: the index, and what is kept.
Partial(S) == UNION {[D -> S] : D \in SUBSET (1 .. MaxSeq)}

StoreRecord ==
    [numbers : Numbers, index : Partial(0 .. MaxBody), offset : 0 .. MaxBody,
     body_buf : Seq(Content), header_buf : Seq(Line), linked : SUBSET Files,
     given : Numbers, message : Content \cup {"None"}]

Typed ==
    /\ body \in Seq(Content) /\ Len(body) <= MaxBody
    /\ header \in Seq(Line)
    /\ seqnums \in {EmptyFile, TornFile} \cup {Holding(n) : n \in Numbers}
    /\ session \in {"none", "empty", "time"}
    /\ store \in StoreRecord
    /\ pc \in {"down", "creating", "opening", "failed", "idle", "numbers", "numbers_add", "adding",
              "indexing", "removing_header", "removing_seqnums", "removing_session",
              "recreating", "rewriting", "reopening"}
    /\ kept \in Partial(Content)
    /\ intact \in BOOLEAN

\* An add has a number to add under, and room for its message.
Underway ==
    /\ pc = "numbers_add" => store.given.sender >= 1
    /\ pc \in {"adding", "indexing"} => store.numbers.sender >= 1
    /\ pc = "indexing" => store.message \in Content /\ store.offset < MaxBody

\* The length of the part of the body file that has its lines.
Indexed == IF pc = "indexing" THEN Len(body) - 1 ELSE Len(body)

\* The lines are those of what is kept, and point into the body file.
Lines ==
    intact /\ ~Resetting =>
        /\ \A i \in DOMAIN header : header[i].offset < Len(body)
        /\ Recoverable

\* A running store knows its files: nothing waits in a buffer, every handle is
\* good, index and offset are those a new process would come to.
InStep ==
    intact /\ Up /\ ~Resetting =>
        /\ store.body_buf = << >> /\ store.header_buf = << >> /\ store.linked = Files
        /\ store.index = load_message_index(header)
        /\ store.offset = Indexed
        /\ \A i \in DOMAIN header : header[i].offset < Indexed
        /\ pc = "indexing" => Len(body) >= 1 /\ body[Len(body)] = store.message

\* What a reset has removed so far.
Removed ==
    /\ Resetting => body = << >> /\ kept = NoMessages
    /\ Resetting /\ pc # "removing_header" => header = << >>
    /\ Resetting /\ pc \notin {"removing_header", "removing_seqnums"} => seqnums = EmptyFile

\* The numbers on disk are those of the struct, none, or those of a write that
\* was cut short; the ones being written are one call ahead.
Recorded ==
    intact /\ Up /\ ~Resetting =>
        /\ \/ seqnums.numbers \in {store.numbers, NoNumbers}
           \/ /\ seqnums.numbers.target = 0
              /\ seqnums.numbers.sender \in {store.numbers.sender, store.numbers.sender + 1}
        /\ pc = "numbers" => store.given.sender = store.numbers.sender
        /\ pc = "numbers_add" =>
              /\ store.given.sender = store.numbers.sender + 1
              /\ store.given.target = store.numbers.target

FInv == Typed /\ Underway /\ Lines /\ InStep /\ Removed /\ Recorded

-----------------------------------------------------------------------------
(* Numbers, partial functions and the index *)

\* A set of numbers with a bound has a greatest one.
LEMMA Greatest ==
  ASSUME NEW n \in Nat, NEW S, S \subseteq 1 .. n, S # {}
  PROVE  \E m \in S : \A k \in S : k <= m
<1> DEFINE T == {n - x : x \in S}
<1>1. T \subseteq Nat /\ T # {}
  <2>1. PICK x \in S : TRUE
    BY Zenon
  <2>2. n - x \in T
    BY <2>1
  <2>3. \A y \in S : n - y \in Nat
    OBVIOUS
  <2> QED
    BY <2>2, <2>3
<1>2. IsWellFoundedOn(OpToRel(<, Nat), Nat)
  BY NatLessThanWellFounded, Zenon
<1> HIDE DEF T
<1>3. PICK t \in T : \A y \in T : <<y, t>> \notin OpToRel(<, Nat)
  BY <1>1, <1>2, WFMin, Zenon
<1>4. \A y \in T : ~(y < t)
  <2> SUFFICES ASSUME NEW y \in T PROVE ~(y < t)
    OBVIOUS
  <2>1. <<y, t>> \in Nat \X Nat
    BY <1>1
  <2> QED
    BY <1>3, <2>1 DEF OpToRel
<1>5. PICK m \in S : t = n - m
  BY DEF T
<1>6. ASSUME NEW k \in S PROVE k <= m
  <2>1. n - k \in T
    BY DEF T
  <2> QED
    BY <1>4, <1>5, <2>1
<1> QED
  BY <1>6

\* Membership in the partial functions.
LEMMA PartialIntro ==
  ASSUME NEW S, NEW D, D \subseteq 1 .. MaxSeq, NEW f \in [D -> S]
  PROVE  f \in Partial(S)
BY Zenon DEF Partial

LEMMA PartialElim ==
  ASSUME NEW S, NEW f \in Partial(S)
  PROVE  /\ DOMAIN f \subseteq 1 .. MaxSeq
         /\ f \in [DOMAIN f -> S]
         /\ \A n \in DOMAIN f : f[n] \in S
<1>1. PICK D \in SUBSET (1 .. MaxSeq) : f \in [D -> S]
  BY DEF Partial
<1> QED
  BY <1>1

\* A sequence of lines, its numbers and its offsets.
LEMMA LineTypes ==
  ASSUME NEW lines \in Seq(Line)
  PROVE  /\ DOMAIN lines = 1 .. Len(lines) /\ Len(lines) \in Nat
         /\ \A i \in DOMAIN lines : lines[i].seq \in 1 .. MaxSeq /\ lines[i].offset \in 0 .. MaxBody
<1>1. DOMAIN lines = 1 .. Len(lines) /\ Len(lines) \in Nat
  BY LenProperties
<1>2. \A i \in DOMAIN lines : lines[i] \in Line
  BY <1>1, ElementOfSeq
<1> QED
  BY <1>1, <1>2 DEF Line

\* load_message_index takes for each number the last line that has it.
LEMMA IndexIsLast ==
  ASSUME NEW lines \in Seq(Line), NEW n, NEW k \in DOMAIN lines, lines[k].seq = n,
         \A j \in DOMAIN lines : lines[j].seq = n => j <= k
  PROVE  /\ n \in DOMAIN load_message_index(lines)
         /\ load_message_index(lines)[n] = lines[k].offset
<1> DEFINE Last(i) == lines[i].seq = n /\ \A j \in DOMAIN lines : lines[j].seq = n => j <= i
<1> DEFINE c == CHOOSE i \in DOMAIN lines : Last(i)
<1>1. Last(k)
  OBVIOUS
<1>2. c \in DOMAIN lines /\ Last(c)
  BY <1>1
<1>3. c = k
  <2>1. c <= k /\ k <= c
    BY <1>1, <1>2
  <2> QED
    BY <2>1, <1>2, LineTypes
<1>4. n \in {lines[i].seq : i \in DOMAIN lines}
  OBVIOUS
<1>5. load_message_index(lines)[n] = lines[c].offset
  BY <1>4 DEF load_message_index
<1> QED
  BY <1>3, <1>4, <1>5 DEF load_message_index

LEMMA IndexHasLast ==
  ASSUME NEW lines \in Seq(Line), NEW n \in DOMAIN load_message_index(lines)
  PROVE  \E k \in DOMAIN lines :
            /\ lines[k].seq = n
            /\ \A j \in DOMAIN lines : lines[j].seq = n => j <= k
<1> DEFINE S == {i \in DOMAIN lines : lines[i].seq = n}
<1>1. S \subseteq 1 .. Len(lines) /\ Len(lines) \in Nat
  BY LineTypes
<1>2. S # {}
  BY DEF load_message_index
<1> HIDE DEF S
<1>3. PICK k \in S : \A j \in S : j <= k
  BY <1>1, <1>2, Greatest, Zenon
<1> QED
  BY <1>3 DEF S

\* An index holds offsets, and no others than those of the lines.
LEMMA IndexType ==
  ASSUME NEW lines \in Seq(Line)
  PROVE  /\ load_message_index(lines) \in Partial(0 .. MaxBody)
         /\ \A n \in DOMAIN load_message_index(lines) :
               \E i \in DOMAIN lines : load_message_index(lines)[n] = lines[i].offset
<1> DEFINE f == load_message_index(lines)
           D == {lines[i].seq : i \in DOMAIN lines}
<1>1. DOMAIN f = D /\ f = [n \in D |-> f[n]]
  BY DEF load_message_index
<1>2. D \subseteq 1 .. MaxSeq
  BY LineTypes
<1>3. \A n \in DOMAIN f : \E i \in DOMAIN lines : f[n] = lines[i].offset
  BY IndexHasLast, IndexIsLast
<1>4. \A n \in D : f[n] \in 0 .. MaxBody
  BY <1>1, <1>3, LineTypes, Zenon
<1> HIDE DEF f, D
<1>5. f \in [D -> 0 .. MaxBody]
  BY <1>1, <1>4
<1>6. f \in Partial(0 .. MaxBody)
  BY <1>2, <1>5, PartialIntro, Zenon
<1> QED
  BY <1>3, <1>6 DEF f

\* An empty index file, and a line more.
LEMMA IndexEmpty == load_message_index(<< >>) = NoMessages
BY DEF load_message_index, NoMessages

LEMMA IndexAppend ==
  ASSUME NEW lines \in Seq(Line), NEW line \in Line
  PROVE  load_message_index(Append(lines, line)) =
            [n \in DOMAIN load_message_index(lines) \cup {line.seq} |->
                IF n = line.seq THEN line.offset ELSE load_message_index(lines)[n]]
<1> DEFINE more == Append(lines, line)
           f == load_message_index(lines)
           g == load_message_index(more)
<1>1. /\ more \in Seq(Line) /\ Len(more) = Len(lines) + 1
      /\ \A i \in 1 .. Len(lines) : more[i] = lines[i]
      /\ more[Len(lines) + 1] = line
  BY AppendProperties
<1>2. /\ DOMAIN lines = 1 .. Len(lines) /\ Len(lines) \in Nat
      /\ DOMAIN more = 1 .. Len(lines) + 1
  BY <1>1, LineTypes
<1>3. DOMAIN f = {lines[i].seq : i \in DOMAIN lines} /\ DOMAIN g = {more[i].seq : i \in DOMAIN more}
  BY DEF load_message_index
<1> HIDE DEF more
<1>4. DOMAIN g = DOMAIN f \cup {line.seq}
  <2> HIDE DEF f, g
  <2>1. ASSUME NEW n \in DOMAIN g PROVE n \in DOMAIN f \cup {line.seq}
    <3>1. PICK i \in DOMAIN more : n = more[i].seq
      BY <1>3
    <3> QED
      BY <1>1, <1>2, <1>3, <3>1
  <2>2. ASSUME NEW n \in DOMAIN f PROVE n \in DOMAIN g
    <3>1. PICK i \in DOMAIN lines : n = lines[i].seq
      BY <1>3
    <3>2. i \in DOMAIN more /\ n = more[i].seq
      BY <1>1, <1>2, <3>1
    <3> QED
      BY <1>3, <3>2
  <2>3. line.seq \in DOMAIN g
    BY <1>1, <1>2, <1>3
  <2> QED
    BY <2>1, <2>2, <2>3, Zenon
<1>5. g[line.seq] = line.offset
  <2>1. Len(lines) + 1 \in DOMAIN more /\ \A j \in DOMAIN more : j <= Len(lines) + 1
    BY <1>2
  <2> QED
    BY <1>1, <2>1, IndexIsLast
<1>6. ASSUME NEW n \in DOMAIN f, n # line.seq PROVE g[n] = f[n]
  <2>1. PICK k \in DOMAIN lines :
           /\ lines[k].seq = n
           /\ \A j \in DOMAIN lines : lines[j].seq = n => j <= k
    BY IndexHasLast
  <2>2. f[n] = lines[k].offset
    BY <2>1, IndexIsLast
  <2>3. k \in DOMAIN more /\ more[k].seq = n /\ \A j \in DOMAIN more : more[j].seq = n => j <= k
    BY <1>1, <1>2, <1>6, <2>1
  <2>4. g[n] = more[k].offset
    BY <1>1, <2>3, IndexIsLast
  <2> QED
    BY <1>1, <1>2, <2>2, <2>4
<1>7. g = [n \in DOMAIN g |-> g[n]]
  BY DEF load_message_index
<1> HIDE DEF f, g
<1> QED
  BY <1>4, <1>5, <1>6, <1>7 DEF f, g, more

-----------------------------------------------------------------------------
(* One lemma per step: it keeps FInv. *)

LEMMA StoreFields ==
  ASSUME NEW s \in StoreRecord
  PROVE  /\ s.numbers \in Numbers /\ s.index \in Partial(0 .. MaxBody) /\ s.offset \in 0 .. MaxBody
         /\ s.body_buf \in Seq(Content) /\ s.header_buf \in Seq(Line) /\ s.linked \in SUBSET Files
         /\ s.given \in Numbers /\ s.message \in Content \cup {"None"}
BY DEF StoreRecord

LEMMA NumberFields ==
  ASSUME NEW n \in Numbers
  PROVE  n.sender \in 0 .. MaxSeq /\ n.target \in 0 .. MaxSeq
BY DEF Numbers

LEMMA NoMessagesType == ASSUME NEW S PROVE NoMessages \in Partial(S)
<1>1. {} \subseteq 1 .. MaxSeq /\ NoMessages \in [{} -> S]
  BY DEF NoMessages
<1> QED
  BY <1>1, PartialIntro, Zenon

LEMMA ClosedType ==
  /\ NoNumbers \in Numbers /\ Closed \in StoreRecord
  /\ \A linked \in SUBSET Files : [Closed EXCEPT !.linked = linked] \in StoreRecord
<1>1. NoNumbers \in Numbers
  BY FileStoreAssumption DEF NoNumbers, Numbers
<1>2. NoMessages \in Partial(0 .. MaxBody)
  BY NoMessagesType
<1>3. << >> \in Seq(Content) /\ << >> \in Seq(Line) /\ Files \in SUBSET Files /\ 0 \in 0 .. MaxBody
  BY EmptySeq, FileStoreAssumption
<1>4. Closed \in StoreRecord
  BY <1>1, <1>2, <1>3 DEF Closed, StoreRecord
<1>5. ASSUME NEW linked \in SUBSET Files PROVE [Closed EXCEPT !.linked = linked] \in StoreRecord
  BY <1>4, Zenon DEF StoreRecord
<1> QED
  BY <1>1, <1>4, <1>5, Zenon

\* The initial state: no file, no process.
LEMMA FInitKeeps == FInit => FInv
<1> SUFFICES ASSUME FInit PROVE FInv
  OBVIOUS
<1> USE DEF FInit
<1>1. Typed
  BY ClosedType, NoMessagesType, EmptySeq, FileStoreAssumption DEF Typed
<1>2. Underway /\ InStep /\ Removed /\ Recorded
  BY DEF Underway, InStep, Removed, Recorded, Up, Resetting
<1>3. Lines
  BY IndexEmpty DEF Lines, Recoverable, read_messages, NoMessages
<1> QED
  BY <1>1, <1>2, <1>3 DEF FInv

\* Creating and writing `.session`, a store that does not open: only the file
\* and the point reached change.
LEMMA SessionFileKeeps ==
  ASSUME FInv, CreateSessionFile \/ WriteSessionFile \/ NewFails
  PROVE  FInv'
<1> USE DEF CreateSessionFile, WriteSessionFile, NewFails, FInv, disk
<1>1. Typed'
  BY DEF Typed
<1>2. Underway' /\ InStep' /\ Removed' /\ Recorded'
  BY DEF Underway, InStep, Removed, Recorded, Up, Resetting
<1>3. Lines'
  BY Zenon DEF Lines, Recoverable, read_messages, Resetting
<1> QED
  BY <1>1, <1>2, <1>3

\* The numbers a seqnums file holds.
LEMMA SeqnumsFields ==
  Typed => seqnums.numbers \in Numbers
BY ClosedType DEF Typed, EmptyFile, TornFile, Holding

\* The struct as new_inner fills it in.
Opened(numbers, index, offset) ==
    [Closed EXCEPT !.numbers = numbers, !.index = index, !.offset = offset]

LEMMA OpenedType ==
  ASSUME NEW numbers \in Numbers, NEW index \in Partial(0 .. MaxBody), NEW offset \in 0 .. MaxBody,
         NEW s, s = Opened(numbers, index, offset)
  PROVE  /\ s.numbers = numbers /\ s.index = index /\ s.offset = offset
         /\ s.body_buf = << >> /\ s.header_buf = << >> /\ s.linked = Files
         /\ s.given = NoNumbers /\ s.message = "None"
         /\ s \in StoreRecord
<1>1. s = [numbers |-> numbers, index |-> index, offset |-> offset, body_buf |-> << >>,
           header_buf |-> << >>, linked |-> Files, given |-> NoNumbers, message |-> "None"]
  BY Zenon DEF Closed, Opened
<1>2. /\ NoNumbers \in Numbers /\ << >> \in Seq(Content) /\ << >> \in Seq(Line)
      /\ Files \in SUBSET Files /\ "None" \in Content \cup {"None"}
  BY ClosedType, EmptySeq
<1>3. s \in StoreRecord
  BY ONLY <1>1, <1>2, numbers \in Numbers, index \in Partial(0 .. MaxBody), offset \in 0 .. MaxBody
     DEF StoreRecord
<1>4. /\ s.numbers = numbers /\ s.index = index /\ s.offset = offset
      /\ s.body_buf = << >> /\ s.header_buf = << >> /\ s.linked = Files
      /\ s.given = NoNumbers /\ s.message = "None"
  BY ONLY <1>1
<1> QED
  BY <1>3, <1>4

\* A process that opens the store takes index, offset and numbers from the files.
LEMMA NewInnerKeeps == ASSUME FInv, new_inner PROVE FInv'
<1>1. /\ store'.numbers = seqnums.numbers
      /\ store'.index = load_message_index(header)
      /\ store'.offset = Len(body)
      /\ store'.body_buf = << >> /\ store'.header_buf = << >> /\ store'.linked = Files
      /\ store'.given = NoNumbers /\ store'.message = "None"
      /\ store' \in StoreRecord
  <2>1. Len(body) \in 0 .. MaxBody
    BY LenProperties, FileStoreAssumption DEF FInv, Typed
  <2>2. load_message_index(header) \in Partial(0 .. MaxBody)
    BY IndexType DEF FInv, Typed
  <2>3. seqnums.numbers \in Numbers
    BY SeqnumsFields DEF FInv
  <2>4. store' = Opened(seqnums.numbers, load_message_index(header), Len(body))
    BY Zenon DEF new_inner, read_initial_seqnums, Opened
  <2> QED
    BY <2>1, <2>2, <2>3, <2>4, OpenedType
<1> USE DEF FInv, new_inner
<1>2. Typed'
  BY <1>1 DEF Typed
<1>3. Underway' /\ Removed' /\ ~Resetting
  BY DEF Underway, Removed, Resetting
<1>4. Lines'
  BY <1>3 DEF Lines, Recoverable, read_messages, Resetting
<1>5. InStep'
  BY <1>1, <1>3 DEF InStep, Lines, Resetting, Indexed
<1>6. Recorded'
  BY <1>1 DEF Recorded, EmptyFile, Resetting
<1> QED
  BY <1>2, <1>3, <1>4, <1>5, <1>6

\* Truncating the seqnums file, for any of the three calls.
LEMMA TruncateKeeps ==
  ASSUME FInv, NEW numbers, NEW next, Truncate(numbers, next),
         \/ /\ next = "numbers" /\ numbers.sender = store.numbers.sender
         \/ /\ next = "numbers_add" /\ numbers.sender = store.numbers.sender + 1
            /\ numbers.target = store.numbers.target
  PROVE  FInv'
<1> USE DEF FInv, Truncate
<1>1. /\ store' \in StoreRecord /\ store'.given = numbers
      /\ store'.numbers = store.numbers /\ store'.index = store.index /\ store'.offset = store.offset
      /\ store'.body_buf = store.body_buf /\ store'.header_buf = store.header_buf
      /\ store'.linked = store.linked /\ store'.message = store.message
  BY Zenon DEF Typed, StoreRecord
<1>2. Typed'
  BY <1>1 DEF Typed, Through
<1>3. Underway' /\ Removed' /\ ~Resetting
  BY <1>1, StoreFields, NumberFields DEF Underway, Removed, Resetting, Typed
<1>4. Lines'
  BY <1>3 DEF Lines, Recoverable, read_messages, Resetting
<1>5. InStep'
  BY <1>1, <1>3 DEF InStep, Resetting, Up, Indexed
<1>6. Recorded'
  BY <1>1, <1>3 DEF Recorded, InStep, Through, EmptyFile, Files, Up, Resetting
<1> QED
  BY <1>2, <1>3, <1>4, <1>5, <1>6

LEMMA CallsKeep ==
  ASSUME FInv,
         increment_sender_seq_number \/ increment_target_seq_number \/ set_target_seq_number
  PROVE  FInv'
<1>1. store.numbers \in Numbers
  BY StoreFields DEF FInv, Typed
<1>2. CASE increment_sender_seq_number
  <2> DEFINE new == [store.numbers EXCEPT !.sender = @ + 1]
  <2>1. new.sender = store.numbers.sender + 1 /\ new.target = store.numbers.target
    BY <1>1 DEF Numbers
  <2>2. Truncate(new, "numbers_add")
    BY <1>2 DEF increment_sender_seq_number
  <2> HIDE DEF new
  <2> QED
    BY <2>1, <2>2, TruncateKeeps
<1>3. CASE increment_target_seq_number
  <2> DEFINE new == [store.numbers EXCEPT !.target = @ + 1]
  <2>1. new.sender = store.numbers.sender
    BY <1>1 DEF Numbers
  <2>2. Truncate(new, "numbers")
    BY <1>3 DEF increment_target_seq_number
  <2> HIDE DEF new
  <2> QED
    BY <2>1, <2>2, TruncateKeeps
<1>4. CASE set_target_seq_number
  <2>1. PICK n \in 0 .. MaxSeq : Truncate([store.numbers EXCEPT !.target = n], "numbers")
    BY <1>4 DEF set_target_seq_number
  <2> DEFINE new == [store.numbers EXCEPT !.target = n]
  <2>2. new.sender = store.numbers.sender
    BY <1>1 DEF Numbers
  <2> HIDE DEF new
  <2>3. Truncate(new, "numbers")
    BY <2>1 DEF new
  <2> QED
    BY <2>2, <2>3, TruncateKeeps
<1> QED
  BY <1>2, <1>3, <1>4

\* The digits arrive, or some of them.
LEMMA WriteNumbersKeeps == ASSUME FInv, WriteNumbers PROVE FInv'
<1> USE DEF FInv, WriteNumbers
<1>1. /\ store' \in StoreRecord /\ store'.given = NoNumbers
      /\ store'.numbers = store.given /\ store'.index = store.index /\ store'.offset = store.offset
      /\ store'.body_buf = store.body_buf /\ store'.header_buf = store.header_buf
      /\ store'.linked = store.linked /\ store'.message = store.message
  <2>1. store.given \in Numbers /\ NoNumbers \in Numbers
    BY StoreFields, ClosedType DEF Typed
  <2> QED
    BY <2>1, Zenon DEF Typed, StoreRecord
<1>2. store.given \in Numbers
  BY StoreFields DEF Typed
<1>3. Typed'
  BY <1>1, <1>2 DEF Typed, Through
<1>4. Underway' /\ Removed' /\ ~Resetting
  BY <1>1 DEF Underway, Removed, Resetting
<1>5. Lines'
  BY <1>4 DEF Lines, Recoverable, read_messages, Resetting
<1>6. InStep'
  BY <1>1, <1>4 DEF InStep, Resetting, Up, Indexed
<1>7. Recorded'
  BY <1>1, <1>4 DEF Recorded, InStep, Through, Holding, Files, Up, Resetting
<1> QED
  BY <1>3, <1>4, <1>5, <1>6, <1>7

LEMMA WriteNumbersFailsKeeps == ASSUME FInv, WriteNumbersFails PROVE FInv'
<1> USE DEF FInv, WriteNumbersFails
<1> DEFINE cut == [store.given EXCEPT !.target = 0]
<1>1. /\ store' \in StoreRecord /\ store'.given = NoNumbers
      /\ store'.numbers = store.numbers /\ store'.index = store.index /\ store'.offset = store.offset
      /\ store'.body_buf = store.body_buf /\ store'.header_buf = store.header_buf
      /\ store'.linked = store.linked /\ store'.message = store.message
  BY ClosedType, Zenon DEF Typed, StoreRecord
<1>2. cut \in Numbers /\ cut.sender = store.given.sender /\ cut.target = 0
  <2>1. store.given \in Numbers
    BY StoreFields DEF Typed
  <2> QED
    BY <2>1, FileStoreAssumption DEF Numbers
<1>3. seqnums' \in {seqnums, EmptyFile, TornFile, Holding(cut)}
  BY DEF Through
<1>4. "seqnums" \in store.linked => seqnums' \in {EmptyFile, TornFile, Holding(cut)}
  BY DEF Through
<1> HIDE DEF cut
<1>5. Typed'
  BY <1>1, <1>2, <1>3 DEF Typed
<1>6. Underway' /\ Removed' /\ ~Resetting
  BY <1>1 DEF Underway, Removed, Resetting
<1>7. Lines'
  BY <1>6 DEF Lines, Recoverable, read_messages, Resetting
<1>8. InStep'
  BY <1>1, <1>6 DEF InStep, Resetting, Up, Indexed
<1>9. Recorded'
  BY <1>1, <1>2, <1>4, <1>6 DEF Recorded, InStep, EmptyFile, TornFile, Holding, Files, Up, Resetting
<1> QED
  BY <1>5, <1>6, <1>7, <1>8, <1>9

\* The message goes to the end of the body file.
LEMMA WriteBodyKeeps == ASSUME FInv, WriteBody PROVE FInv'
<1> USE DEF FInv, WriteBody
<1>1. PICK message \in Content :
         /\ body' = Through("body", body, body \o store.body_buf \o <<message>>)
         /\ store' = [store EXCEPT !.body_buf = << >>, !.message = message]
  BY Zenon
<1>2. /\ store' \in StoreRecord /\ store'.body_buf = << >> /\ store'.message = message
      /\ store'.numbers = store.numbers /\ store'.index = store.index /\ store'.offset = store.offset
      /\ store'.header_buf = store.header_buf /\ store'.linked = store.linked
      /\ store'.given = store.given
  <2>1. << >> \in Seq(Content)
    BY EmptySeq
  <2> QED
    BY <1>1, <2>1, Zenon DEF Typed, StoreRecord
<1> DEFINE long == body \o store.body_buf \o <<message>>
<1>3. /\ long \in Seq(Content) /\ Len(long) = Len(body) + Len(store.body_buf) + 1
      /\ Len(body) \in Nat /\ Len(store.body_buf) \in Nat
      /\ \A i \in 1 .. Len(body) : long[i] = body[i]
      /\ long[Len(long)] = message
  <2>1. body \in Seq(Content) /\ store.body_buf \in Seq(Content) /\ <<message>> \in Seq(Content)
    BY StoreFields DEF Typed
  <2> DEFINE first == body \o store.body_buf
  <2>2. /\ first \in Seq(Content) /\ Len(first) = Len(body) + Len(store.body_buf)
        /\ \A i \in 1 .. Len(body) + Len(store.body_buf) :
              first[i] = IF i <= Len(body) THEN body[i] ELSE store.body_buf[i - Len(body)]
    BY <2>1, ConcatProperties
  <2>3. Len(body) \in Nat /\ Len(store.body_buf) \in Nat /\ Len(<<message>>) = 1 /\ <<message>>[1] = message
    BY <2>1, LenProperties
  <2> HIDE DEF first
  <2>4. /\ first \o <<message>> \in Seq(Content) /\ Len(first \o <<message>>) = Len(first) + 1
        /\ \A i \in 1 .. Len(first) + 1 :
              (first \o <<message>>)[i] = IF i <= Len(first) THEN first[i] ELSE <<message>>[i - Len(first)]
    BY <2>1, <2>2, <2>3, ConcatProperties
  <2>5. \A i \in 1 .. Len(body) : (first \o <<message>>)[i] = body[i]
    BY <2>2, <2>3, <2>4
  <2>6. (first \o <<message>>)[Len(first) + 1] = message
    BY <2>2, <2>3, <2>4
  <2> QED
    BY <2>2, <2>3, <2>4, <2>5, <2>6 DEF first
<1> HIDE DEF long
<1>4. body' \in {body, long} /\ ("body" \in store.linked => body' = long)
  BY <1>1 DEF Through, long
<1>5. Typed'
  <2>1. body' \in Seq(Content) /\ Len(body') <= MaxBody
    BY <1>3, <1>4, FileStoreAssumption DEF Typed, BodyRoom
  <2> QED
    BY <1>2, <2>1 DEF Typed
<1>6. Underway' /\ Removed' /\ ~Resetting
  BY <1>2 DEF Underway, Removed, Resetting, BodyRoom
<1>7. intact => /\ store.body_buf = << >> /\ body' = long /\ Len(body') = Len(body) + 1
                /\ \A i \in DOMAIN header : header[i].offset < Len(body)
                /\ \A i \in DOMAIN header : header[i].offset \in 0 .. MaxBody
  BY <1>3, <1>4, <1>6, LineTypes DEF InStep, Up, Indexed, Files, Typed
<1>8. Lines'
  <2> SUFFICES ASSUME intact
               PROVE  /\ \A i \in DOMAIN header : header[i].offset < Len(body')
                      /\ (read_messages(load_message_index(header)) = kept)'
    BY <1>6 DEF Lines, Recoverable, Resetting
  <2>1. \A n \in DOMAIN load_message_index(header) :
           load_message_index(header)[n] \in Nat /\ load_message_index(header)[n] < Len(body)
    BY <1>7, IndexType DEF Typed
  <2>2. read_messages(load_message_index(header)) = kept
    BY <1>6 DEF Lines, Recoverable
  <2>3. \A n \in Nat : n < Len(body) => n < Len(body') /\ body'[n + 1] = body[n + 1]
    BY <1>3, <1>7, SMTT(20)
  <2>4. [n \in DOMAIN load_message_index(header) |->
            IF load_message_index(header)[n] < Len(body')
            THEN body'[load_message_index(header)[n] + 1] ELSE "UnexpectedEof"] =
        [n \in DOMAIN load_message_index(header) |->
            IF load_message_index(header)[n] < Len(body)
            THEN body[load_message_index(header)[n] + 1] ELSE "UnexpectedEof"]
    BY <2>1, <2>3
  <2> QED
    BY <1>7, <1>3, <2>2, <2>4, SMTT(20) DEF read_messages
<1>9. InStep'
  BY <1>2, <1>3, <1>6, <1>7 DEF InStep, Indexed, Resetting, Up
<1>10. Recorded'
  BY <1>2, <1>6 DEF Recorded, Resetting, Up
<1> QED
  BY <1>5, <1>6, <1>8, <1>9, <1>10

\* A body or a line that stays in its buffer: nothing is promised until a reset.
LEMMA AddFailsKeeps == ASSUME FInv, WriteBodyFails \/ WriteHeaderFails PROVE FInv'
<1> USE DEF FInv
<1>1. /\ store' \in StoreRecord /\ store'.numbers = store.numbers
      /\ pc' = "idle" /\ intact' = FALSE /\ UNCHANGED <<disk, kept>> /\ ~Resetting
  <2>1. CASE WriteBodyFails
    <3>1. PICK message \in Content : store' = [store EXCEPT !.body_buf = Append(@, message)]
      BY <2>1, Zenon DEF WriteBodyFails
    <3>2. Append(store.body_buf, message) \in Seq(Content)
      BY StoreFields, AppendProperties DEF Typed
    <3>3. store' \in StoreRecord /\ store'.numbers = store.numbers
      BY <3>1, <3>2, Zenon DEF Typed, StoreRecord
    <3> QED
      BY <2>1, <3>3 DEF WriteBodyFails, Resetting
  <2>2. CASE WriteHeaderFails
    <3>1. NewLine \in Line
      BY <2>2, StoreFields, NumberFields DEF WriteHeaderFails, NewLine, Line, Typed, Underway
    <3>2. Append(store.header_buf, NewLine) \in Seq(Line)
      BY <3>1, StoreFields, AppendProperties DEF Typed
    <3>3. store' = [store EXCEPT !.header_buf = Append(store.header_buf, NewLine), !.message = "None"]
      BY <2>2, Zenon DEF WriteHeaderFails
    <3>4. store' \in StoreRecord /\ store'.numbers = store.numbers
      BY <3>2, <3>3, Zenon DEF Typed, StoreRecord
    <3> QED
      BY <2>2, <3>4 DEF WriteHeaderFails, Resetting
  <2> QED
    BY <2>1, <2>2, Zenon
<1>2. Typed'
  BY <1>1, Zenon DEF Typed, disk
<1>3. Underway' /\ Lines' /\ InStep' /\ Removed' /\ Recorded'
  BY <1>1 DEF Underway, Lines, InStep, Removed, Recorded, Resetting
<1> QED
  BY <1>2, <1>3

\* A message more in what is kept, or in what the index reads.
LEMMA PartialMore ==
  ASSUME NEW S, NEW f \in Partial(S), NEW k \in 1 .. MaxSeq, NEW v \in S
  PROVE  [n \in DOMAIN f \cup {k} |-> IF n = k THEN v ELSE f[n]] \in Partial(S)
<1> DEFINE g == [n \in DOMAIN f \cup {k} |-> IF n = k THEN v ELSE f[n]]
           D == DOMAIN f \cup {k}
<1>1. D \subseteq 1 .. MaxSeq /\ g \in [D -> S]
  BY PartialElim
<1> HIDE DEF g, D
<1> QED
  BY <1>1, PartialIntro DEF g

\* The line goes to the index file: the add is done.
LEMMA WriteHeaderKeeps == ASSUME FInv, WriteHeader PROVE FInv'
<1> DEFINE more == [n \in DOMAIN store.index \cup {NewLine.seq} |->
                       IF n = NewLine.seq THEN store.offset ELSE store.index[n]]
<1> USE DEF FInv
<1>1. /\ NewLine \in Line /\ NewLine.seq = store.numbers.sender /\ NewLine.offset = store.offset
      /\ NewLine.seq \in 1 .. MaxSeq /\ store.offset + 1 \in 0 .. MaxBody /\ store.message \in Content
      /\ store.offset \in 0 .. MaxBody
  BY StoreFields, NumberFields, FileStoreAssumption
     DEF WriteHeader, NewLine, Line, Typed, Underway
<1>2. /\ store' = [store EXCEPT !.header_buf = << >>, !.message = "None", !.index = more,
                                !.offset = store.offset + 1]
      /\ pc = "indexing" /\ pc' = "idle"
      /\ header' = Through("header", header, header \o store.header_buf \o <<NewLine>>)
      /\ kept' = [n \in DOMAIN kept \cup {NewLine.seq} |->
                     IF n = NewLine.seq THEN store.message ELSE kept[n]]
      /\ UNCHANGED <<body, seqnums, session, intact>>
  BY Zenon DEF WriteHeader
<1>3. more \in Partial(0 .. MaxBody)
  <2>1. store.index \in Partial(0 .. MaxBody)
    BY StoreFields DEF Typed
  <2> QED
    BY <1>1, <2>1, PartialMore, Zenon
<1>4. kept' \in Partial(Content)
  BY <1>1, <1>2, PartialMore, Zenon DEF Typed
<1> HIDE DEF more
<1>5. /\ store' \in StoreRecord /\ store'.header_buf = << >> /\ store'.message = "None"
      /\ store'.index = more /\ store'.offset = store.offset + 1
      /\ store'.numbers = store.numbers /\ store'.given = store.given
      /\ store'.body_buf = store.body_buf /\ store'.linked = store.linked
  <2>1. << >> \in Seq(Line)
    BY EmptySeq
  <2> QED
    BY <1>1, <1>2, <1>3, <2>1, Zenon DEF Typed, StoreRecord
<1>6. header' \in Seq(Line)
  <2>1. header \in Seq(Line) /\ store.header_buf \in Seq(Line) /\ <<NewLine>> \in Seq(Line)
    BY <1>1, StoreFields DEF Typed
  <2>2. header \o store.header_buf \o <<NewLine>> \in Seq(Line)
    BY <2>1, ConcatProperties
  <2> QED
    BY <1>2, <2>1, <2>2 DEF Through
<1>7. Typed'
  BY <1>2, <1>4, <1>5, <1>6 DEF Typed
<1>8. Underway' /\ Removed' /\ ~Resetting /\ ~Resetting' /\ Up
  BY <1>2 DEF Underway, Removed, Resetting, Up
<1>9. ASSUME intact
      PROVE  /\ header' = Append(header, NewLine)
             /\ store.index = load_message_index(header) /\ more = load_message_index(header')
             /\ store.offset = Len(body) - 1 /\ Len(body) \in Nat
             /\ body[store.offset + 1] = store.message
             /\ \A i \in DOMAIN header : header[i].offset \in Nat /\ header[i].offset < Len(body) - 1
             /\ \A i \in DOMAIN header' : header'[i].offset \in Nat /\ header'[i].offset < Len(body)
  <2>1. /\ store.body_buf = << >> /\ store.header_buf = << >> /\ store.linked = Files
        /\ store.index = load_message_index(header)
        /\ store.offset = Len(body) - 1 /\ body[Len(body)] = store.message
        /\ \A i \in DOMAIN header : header[i].offset < Len(body) - 1
    BY <1>2, <1>8, <1>9 DEF InStep, Indexed
  <2>2. header \o << >> = header /\ Append(header, NewLine) = header \o <<NewLine>>
    BY <1>1, ConcatEmptySeq, AppendIsConcat DEF Typed
  <2>3. header' = Append(header, NewLine)
    BY <1>2, <2>1, <2>2 DEF Through, Files
  <2>4. more = load_message_index(header')
    <3>1. header \in Seq(Line)
      BY DEF Typed
    <3>2. load_message_index(Append(header, NewLine)) =
             [n \in DOMAIN load_message_index(header) \cup {NewLine.seq} |->
                 IF n = NewLine.seq THEN NewLine.offset ELSE load_message_index(header)[n]]
      BY <1>1, <3>1, IndexAppend, Zenon
    <3> QED
      BY ONLY <1>1, <2>1, <2>3, <3>2 DEF more
  <2>5. Len(body) \in Nat
    BY LenProperties DEF Typed
  <2>6. \A i \in DOMAIN header : header[i].offset \in Nat
    BY LineTypes, FileStoreAssumption DEF Typed
  <2>7. \A i \in DOMAIN header' : header'[i].offset \in Nat /\ header'[i].offset < Len(body)
    <3>1. /\ Len(header') = Len(header) + 1 /\ header'[Len(header) + 1] = NewLine
          /\ \A i \in 1 .. Len(header) : header'[i] = header[i]
      BY <1>1, <2>3, AppendProperties DEF Typed
    <3>2. DOMAIN header = 1 .. Len(header) /\ DOMAIN header' = 1 .. Len(header') /\ Len(header) \in Nat
      BY <1>6, LineTypes DEF Typed
    <3> QED
      BY <1>1, <2>1, <2>5, <2>6, <3>1, <3>2
  <2>8. body[store.offset + 1] = store.message
    BY <2>1, <2>5
  <2> QED
    BY <2>1, <2>3, <2>4, <2>5, <2>6, <2>7, <2>8
<1>10. Lines'
  <2> SUFFICES ASSUME intact
               PROVE  read_messages(load_message_index(header))' = kept'
    BY <1>2, <1>8, <1>9 DEF Lines, Recoverable
  <2> DEFINE old == load_message_index(header)
             new == load_message_index(header')
  <2>1. kept = [n \in DOMAIN old |-> body[old[n] + 1]]
    <3>1. read_messages(old) = kept
      BY <1>8 DEF Lines, Recoverable
    <3>2. \A n \in DOMAIN old : old[n] < Len(body)
      BY <1>9, IndexType DEF Typed
    <3> QED
      BY <3>1, <3>2 DEF read_messages
  <2>2. new = [n \in DOMAIN old \cup {NewLine.seq} |-> IF n = NewLine.seq THEN store.offset ELSE old[n]]
    BY <1>9 DEF more
  <2>3. \A n \in DOMAIN new : new[n] < Len(body)
    BY <1>6, <1>9, IndexType DEF Typed
  <2> HIDE DEF old, new
  <2>4. [n \in DOMAIN new |-> IF new[n] < Len(body) THEN body[new[n] + 1] ELSE "UnexpectedEof"] =
        [n \in DOMAIN new |-> body[new[n] + 1]]
    BY <2>3
  <2>5. [n \in DOMAIN new |-> body[new[n] + 1]] = kept'
    BY <1>2, <1>9, <2>1, <2>2
  <2> QED
    BY <1>2, <2>4, <2>5 DEF read_messages, new
<1>11. InStep'
  BY <1>2, <1>5, <1>8, <1>9 DEF InStep, Indexed
<1>12. Recorded'
  BY <1>2, <1>5, <1>8 DEF Recorded
<1> QED
  BY <1>7, <1>8, <1>10, <1>11, <1>12

\* The steps of a reset: each file goes, the struct forgets.
LEMMA RemovesKeep ==
  ASSUME FInv, RemoveBody \/ RemoveHeader \/ RemoveSeqnums
  PROVE  FInv'
<1> USE DEF FInv
<1>1. /\ store' \in StoreRecord
      /\ Resetting'
      /\ Typed'
  <2>1. CASE RemoveBody
    <3>1. << >> \in Seq(Content) /\ << >> \in Seq(Line) /\ Len(<< >>) = 0 /\ 0 <= MaxBody
      BY EmptySeq, FileStoreAssumption
    <3>2. store' \in StoreRecord
      BY <2>1, <3>1, Zenon DEF RemoveBody, Typed, StoreRecord
    <3>3. kept' \in Partial(Content)
      BY <2>1, NoMessagesType DEF RemoveBody
    <3> QED
      BY <2>1, <3>1, <3>2, <3>3 DEF RemoveBody, Typed, Resetting
  <2>2. CASE RemoveHeader
    <3>1. << >> \in Seq(Line)
      BY EmptySeq
    <3>2. store' \in StoreRecord
      BY <2>2 DEF RemoveHeader, Typed, StoreRecord
    <3> QED
      BY <2>2, <3>1, <3>2 DEF RemoveHeader, Typed, Resetting
  <2>3. CASE RemoveSeqnums
    <3>1. store' \in StoreRecord
      BY <2>3, Zenon DEF RemoveSeqnums, Typed, StoreRecord
    <3> QED
      BY <2>3, <3>1 DEF RemoveSeqnums, Typed, Resetting
  <2> QED
    BY <2>1, <2>2, <2>3
<1>2. Underway' /\ Lines' /\ InStep' /\ Recorded'
  BY <1>1 DEF Underway, Lines, InStep, Recorded, Resetting
<1>3. Removed'
  BY DEF Removed, RemoveBody, RemoveHeader, RemoveSeqnums, Resetting
<1> QED
  BY <1>1, <1>2, <1>3

LEMMA RecreatesKeep ==
  ASSUME FInv, RemoveSession \/ RecreateSession \/ RewriteSession
  PROVE  FInv'
<1> USE DEF FInv
<1>1. Resetting' /\ UNCHANGED <<body, header, seqnums, kept, intact>> /\ store' \in StoreRecord
  <2>1. RemoveSession => store' \in StoreRecord
    BY ClosedType DEF RemoveSession
  <2> QED
    BY <2>1 DEF RemoveSession, RecreateSession, RewriteSession, Resetting, Typed
<1>2. Typed'
  BY <1>1 DEF Typed, RemoveSession, RecreateSession, RewriteSession
<1>3. Underway' /\ Lines' /\ InStep' /\ Recorded'
  BY <1>1 DEF Underway, Lines, InStep, Recorded, Resetting
<1>4. Removed'
  BY <1>1 DEF Removed, RemoveSession, RecreateSession, RewriteSession, Resetting
<1> QED
  BY <1>2, <1>3, <1>4

\* A reset that is done, or given up.
LEMMA ReopenKeeps == ASSUME FInv, Reopen PROVE FInv'
<1> USE DEF FInv, Reopen
<1>1. /\ store'.index = NoMessages /\ store'.offset = 0
      /\ store'.body_buf = << >> /\ store'.header_buf = << >> /\ store'.linked = Files
      /\ store'.numbers = NoNumbers
  BY DEF Closed
<1>2. body' = << >> /\ header' = << >> /\ kept' = NoMessages /\ ~Resetting'
  BY DEF Removed, Resetting, disk
<1>3. Typed'
  BY ClosedType DEF Typed, disk
<1>4. Underway' /\ Removed'
  BY <1>2 DEF Underway, Removed
<1>5. Lines'
  <2>1. load_message_index(header') = NoMessages
    BY <1>2, IndexEmpty
  <2> QED
    BY <1>2, <2>1 DEF Lines, Recoverable, read_messages, NoMessages
<1>6. InStep'
  BY <1>1, <1>2, IndexEmpty DEF InStep, Indexed
<1>7. Recorded'
  <2>1. seqnums' = EmptyFile
    BY DEF Removed, Resetting, disk
  <2> QED
    BY <1>1, <2>1 DEF Recorded, EmptyFile
<1> QED
  BY <1>3, <1>4, <1>5, <1>6, <1>7

LEMMA ResetFailsKeeps == ASSUME FInv, ResetFails PROVE FInv'
BY Zenon DEF FInv, ResetFails, Typed, Underway, Lines, InStep, Removed, Recorded, Resetting, disk

\* The process dies: what is on disk stays.
LEMMA FCrashKeeps == ASSUME FInv, Crash PROVE FInv'
<1> USE DEF FInv, Crash
<1>1. Typed'
  BY ClosedType DEF Typed, disk
<1>2. Underway' /\ InStep' /\ Removed' /\ Recorded'
  BY DEF Underway, InStep, Removed, Recorded, Up, Resetting
<1>3. Lines'
  BY Zenon DEF Lines, Recoverable, read_messages, Resetting, disk
<1> QED
  BY <1>1, <1>2, <1>3

LEMMA FStutterKeeps == ASSUME FInv, UNCHANGED fvars PROVE FInv'
BY DEF FInv, fvars, disk, Typed, Underway, Lines, InStep, Removed, Recorded, Up, Resetting,
       Indexed, Recoverable, read_messages

-----------------------------------------------------------------------------
(* The theorems *)

\* Every step keeps the invariant.
LEMMA FStepKeeps == ASSUME FInv, [FNext]_fvars PROVE FInv'
BY SessionFileKeeps, NewInnerKeeps, CallsKeep, WriteNumbersKeeps, WriteNumbersFailsKeeps,
   WriteBodyKeeps, AddFailsKeeps, WriteHeaderKeeps, RemovesKeep, RecreatesKeep, ReopenKeeps,
   ResetFailsKeeps, FCrashKeeps, FStutterKeeps, Zenon
   DEF FNext

\* FInv holds in every reachable state of the store.
THEOREM FileStoreInvariant == FSpec => []FInv
<1>1. FInit => FInv
  BY FInitKeeps
<1>2. FInv /\ [FNext]_fvars => FInv'
  BY FStepKeeps
<1> QED
  BY <1>1, <1>2, PTL DEF FSpec

\* The files and the struct keep their types, and the offset write_message
\* counts stays within the bound.
THEOREM FileStoreTypes == FSpec => []FTypeOK
<1>1. FInv => FTypeOK
  <2> SUFFICES ASSUME FInv PROVE FTypeOK
    OBVIOUS
  <2>1. Typed
    BY DEF FInv
  <2>2. /\ DOMAIN store.index \subseteq 1 .. MaxSeq
        /\ \A n \in DOMAIN store.index : store.index[n] \in 0 .. MaxBody
        /\ DOMAIN kept \subseteq 1 .. MaxSeq /\ \A n \in DOMAIN kept : kept[n] \in Content
    BY <2>1, StoreFields, PartialElim, Zenon DEF Typed
  <2>3. store.linked \subseteq Files
    BY <2>1, StoreFields DEF Typed
  <2>4. /\ store.numbers \in Numbers /\ store.given \in Numbers
        /\ store.message \in Content \cup {"None"} /\ store.offset \in 0 .. MaxBody
        /\ store.body_buf \in Seq(Content) /\ store.header_buf \in Seq(Line)
    BY <2>1, StoreFields DEF Typed
  <2> QED
    BY <2>1, <2>2, <2>3, <2>4 DEF FTypeOK, Typed, Resetting
<1> QED
  BY <1>1, FileStoreInvariant, PTL

\* Whatever has crashed or failed in the sequence numbers' file, get_slice
\* returns what was added, as long as no add has failed and no reset was cut
\* short.
THEOREM FileStoreReadsBack == FSpec => []ReadsBack
<1>1. FInv => ReadsBack
  BY DEF FInv, ReadsBack, InStep, Lines, Recoverable
<1> QED
  BY <1>1, FileStoreInvariant, PTL

\* A process that opens the files reads what was added, wherever the one
\* before it died.
THEOREM FileStoreRecovers == FSpec => []Recoverable
<1>1. FInv => Recoverable
  BY DEF FInv, Recoverable, Lines
<1> QED
  BY <1>1, FileStoreInvariant, PTL

-----------------------------------------------------------------------------
(* The refinement *)

\* The variables of MessageStore as Abstract has them.
AMessages ==
    IF intact /\ ~Resetting THEN read_messages(load_message_index(header)) ELSE NoMessages

ASender ==
    CASE ~intact \/ Resetting -> 0
      [] intact /\ ~Resetting /\ Up -> store.numbers.sender
      [] OTHER -> read_initial_seqnums.sender

ATarget ==
    CASE ~intact \/ Resetting -> 0
      [] intact /\ ~Resetting /\ Up -> store.numbers.target
      [] OTHER -> read_initial_seqnums.target

AStatus ==
    CASE ~intact -> "damaged"
      [] intact /\ Up -> "up"
      [] intact /\ pc = "failed" -> "broken"
      [] OTHER -> "down"

\* What they are in a state that satisfies the invariant.
MappedValues ==
    /\ AMessages = IF intact THEN kept ELSE NoMessages
    /\ ~intact \/ Resetting => ASender = 0 /\ ATarget = 0
    /\ intact /\ ~Resetting /\ Up => ASender = store.numbers.sender /\ ATarget = store.numbers.target
    /\ intact /\ ~Up => ASender = seqnums.numbers.sender /\ ATarget = seqnums.numbers.target
    /\ ~intact => AStatus = "damaged"
    /\ intact /\ Up => AStatus = "up"
    /\ intact /\ pc = "failed" => AStatus = "broken"
    /\ intact /\ ~Up /\ pc # "failed" => AStatus = "down"

LEMMA Mapped == FInv => MappedValues
<1> SUFFICES ASSUME FInv PROVE MappedValues
  OBVIOUS
<1>1. AMessages = IF intact THEN kept ELSE NoMessages
  BY DEF FInv, Typed, Lines, Removed, Recoverable, AMessages
<1>2. ~intact \/ Resetting => ASender = 0 /\ ATarget = 0
  BY DEF ASender, ATarget
<1>3. intact /\ ~Resetting /\ Up => ASender = store.numbers.sender /\ ATarget = store.numbers.target
  BY DEF ASender, ATarget
<1>4. intact /\ ~Up => ASender = seqnums.numbers.sender /\ ATarget = seqnums.numbers.target
  BY DEF ASender, ATarget, Up, Resetting, read_initial_seqnums
<1>5. /\ ~intact => AStatus = "damaged"
      /\ intact /\ Up => AStatus = "up"
      /\ intact /\ pc = "failed" => AStatus = "broken"
      /\ intact /\ ~Up /\ pc # "failed" => AStatus = "down"
  BY DEF AStatus, Up
<1> QED
  BY <1>1, <1>2, <1>3, <1>4, <1>5 DEF MappedValues

LEMMA MappedNext == FInv' => MappedValues'
BY Mapped, PTL

LEMMA AbstractVars == Abstract!mvars = <<AMessages, ASender, ATarget, AStatus>>
BY DEF Abstract!mvars, AMessages, ASender, ATarget, AStatus

LEMMA AbstractInit ==
    AMessages = NoMessages /\ ASender = 0 /\ ATarget = 0 /\ AStatus = "down" => Abstract!MInit
BY DEF Abstract!MInit, Abstract!Empty, AMessages, ASender, ATarget, AStatus, NoMessages

\* MessageStore's actions, written with them.
LEMMA AbstractIncrement ==
  ASSUME AStatus = "up", ASender < MaxSeq, ASender' = ASender + 1,
         AMessages' = AMessages, ATarget' = ATarget, AStatus' = AStatus
  PROVE  Abstract!MNext
<1>1. Abstract!increment_sender_seq_number
  BY DEF Abstract!increment_sender_seq_number, AMessages, ASender, ATarget, AStatus
<1> QED
  BY <1>1 DEF Abstract!MNext

LEMMA AbstractSetTarget ==
  ASSUME AStatus = "up", ATarget' \in 0 .. MaxSeq,
         AMessages' = AMessages, ASender' = ASender, AStatus' = AStatus
  PROVE  Abstract!MNext
<1>1. Abstract!set_target_seq_number
  BY DEF Abstract!set_target_seq_number, AMessages, ASender, ATarget, AStatus
<1> QED
  BY <1>1 DEF Abstract!MNext

LEMMA AbstractAdd ==
  ASSUME AStatus = "up", NEW message \in Content,
         AMessages' = [n \in DOMAIN AMessages \cup {ASender} |->
                          IF n = ASender THEN message ELSE AMessages[n]],
         ASender' = ASender, ATarget' = ATarget, AStatus' = AStatus
  PROVE  Abstract!MNext
<1>1. Abstract!add
  BY DEF Abstract!add, AMessages, ASender, ATarget, AStatus
<1> QED
  BY <1>1 DEF Abstract!MNext

LEMMA AbstractReset ==
  ASSUME AStatus \in {"up", "damaged"}, AMessages' = NoMessages, ASender' = 0, ATarget' = 0,
         AStatus' \in {"up", "damaged"}, AStatus # "damaged" \/ AStatus' # "damaged"
  PROVE  Abstract!MNext
<1>1. Abstract!reset \/ Abstract!Damage
  BY DEF Abstract!reset, Abstract!Damage, Abstract!Empty, NoMessages, AMessages, ASender, ATarget, AStatus
<1> QED
  BY <1>1 DEF Abstract!MNext

LEMMA AbstractCrash ==
  ASSUME AStatus = "up", AStatus' = "down", AMessages' = AMessages,
         \/ ASender' = ASender /\ ATarget' = ATarget
         \/ ASender' = 0 /\ ATarget' = 0
         \/ ASender' \in {ASender, ASender + 1} /\ ATarget' = 0
  PROVE  Abstract!MNext
<1>1. Abstract!Crash
  BY DEF Abstract!Crash, AMessages, ASender, ATarget, AStatus
<1> QED
  BY <1>1 DEF Abstract!MNext

LEMMA AbstractRestart ==
  ASSUME AStatus = "down", AStatus' \in {"up", "broken"},
         AMessages' = AMessages, ASender' = ASender, ATarget' = ATarget
  PROVE  Abstract!MNext
<1>1. Abstract!Restart
  BY DEF Abstract!Restart, AMessages, ASender, ATarget, AStatus
<1> QED
  BY <1>1 DEF Abstract!MNext

\* Each step of the file store is a step of MessageStore, or none.
ASame == UNCHANGED <<AMessages, ASender, ATarget, AStatus>>

\* A call that truncates, a body without its line, a file of a reset: nothing
\* the caller sees.
LEMMA QuietSteps ==
  ASSUME FInv, FInv',
         \/ CreateSessionFile \/ WriteSessionFile
         \/ increment_sender_seq_number \/ increment_target_seq_number \/ set_target_seq_number
         \/ WriteNumbersFails \/ WriteBody
         \/ RemoveHeader \/ RemoveSeqnums \/ RemoveSession \/ RecreateSession \/ RewriteSession
  PROVE  ASame
<1> USE Mapped, MappedNext DEF MappedValues, Up, Resetting
<1>1. CASE CreateSessionFile \/ WriteSessionFile
  BY <1>1, SMTT(20) DEF CreateSessionFile, WriteSessionFile, ASame, FInv, Typed
<1>2. CASE increment_sender_seq_number \/ increment_target_seq_number \/ set_target_seq_number
  <2>1. /\ pc = "idle" /\ pc' \in {"numbers", "numbers_add"}
        /\ store'.numbers = store.numbers /\ UNCHANGED <<kept, intact>>
    BY <1>2, Zenon DEF increment_sender_seq_number, increment_target_seq_number, set_target_seq_number,
                Truncate, FInv, Typed, StoreRecord
  <2> QED
    BY <2>1 DEF ASame, FInv, Typed
<1>3. CASE WriteNumbersFails \/ WriteBody
  <2>1. /\ pc \in {"numbers", "numbers_add", "adding"} /\ pc' \in {"idle", "indexing"}
        /\ store'.numbers = store.numbers /\ UNCHANGED <<kept, intact>>
    BY <1>3, Zenon DEF WriteNumbersFails, WriteBody, FInv, Typed, StoreRecord
  <2> QED
    BY <2>1 DEF ASame, FInv, Typed
<1>4. CASE RemoveHeader \/ RemoveSeqnums \/ RemoveSession \/ RecreateSession \/ RewriteSession
  BY <1>4 DEF RemoveHeader, RemoveSeqnums, RemoveSession, RecreateSession, RewriteSession,
              ASame, FInv, Typed
<1> QED
  BY <1>1, <1>2, <1>3, <1>4, SMTT(20)

\* Opening the store, or failing to.
LEMMA RestartSteps ==
  ASSUME FInv, FInv', new_inner \/ NewFails
  PROVE  Abstract!MNext \/ ASame
<1> USE Mapped, MappedNext DEF MappedValues, Up, Resetting
<1>1. /\ UNCHANGED <<kept, intact>> /\ pc \in {"down", "opening"} /\ pc' \in {"idle", "failed"}
      /\ pc' = "idle" => store'.numbers = seqnums.numbers
      /\ pc' = "failed" => seqnums' = seqnums
  <2>1. CASE new_inner
    <3>1. store' = Opened(seqnums.numbers, load_message_index(header), Len(body))
      BY <2>1, Zenon DEF new_inner, read_initial_seqnums, Opened
    <3>2. store'.numbers = seqnums.numbers
      BY <3>1 DEF Opened, Closed
    <3> QED
      BY <2>1, <3>2 DEF new_inner
  <2>2. CASE NewFails
    BY <2>2 DEF NewFails, disk
  <2> QED
    BY <2>1, <2>2
<1>2. AMessages' = AMessages /\ ASender' = ASender /\ ATarget' = ATarget
  BY <1>1 DEF FInv, Typed
<1>3. intact => AStatus = "down" /\ AStatus' \in {"up", "broken"}
  BY <1>1
<1>4. ~intact => AStatus' = AStatus
  BY <1>1
<1> QED
  BY <1>2, <1>3, <1>4, AbstractRestart DEF ASame, FInv, Typed

\* The numbers count once they are written.
LEMMA WriteNumbersStep ==
  ASSUME FInv, FInv', WriteNumbers
  PROVE  Abstract!MNext \/ ASame
<1> USE Mapped, MappedNext DEF MappedValues, Up, Resetting
<1>1. /\ UNCHANGED <<kept, intact>> /\ pc \in {"numbers", "numbers_add"} /\ pc' \in {"idle", "adding"}
      /\ store'.numbers = store.given
  BY DEF WriteNumbers, FInv, Typed, StoreRecord
<1>2. CASE ~intact
  BY <1>1, <1>2 DEF ASame
<1>3. CASE intact /\ pc = "numbers"
  <2>1. store.given.sender = store.numbers.sender
    BY <1>3 DEF FInv, Recorded
  <2>2. store.given.target \in 0 .. MaxSeq
    BY StoreFields, NumberFields DEF FInv, Typed
  <2> QED
    BY <1>1, <1>3, <2>1, <2>2, AbstractSetTarget, SMTT(20)
<1>4. CASE intact /\ pc = "numbers_add"
  <2>1. store.given.sender = store.numbers.sender + 1 /\ store.given.target = store.numbers.target
    BY <1>4 DEF FInv, Recorded
  <2>2. store.given.sender \in 0 .. MaxSeq /\ store.numbers.sender \in 0 .. MaxSeq
    BY StoreFields, NumberFields DEF FInv, Typed
  <2>3. store.numbers.sender < MaxSeq
    BY <2>1, <2>2, FileStoreAssumption
  <2> QED
    BY <1>1, <1>4, <2>1, <2>3, AbstractIncrement, SMTT(20)
<1> QED
  BY <1>1, <1>2, <1>3, <1>4 DEF FInv, Typed

\* A message counts once its line is written.
LEMMA WriteHeaderStep ==
  ASSUME FInv, FInv', WriteHeader
  PROVE  Abstract!MNext \/ ASame
<1> USE Mapped, MappedNext DEF MappedValues, Up, Resetting
<1>1. /\ pc = "indexing" /\ pc' = "idle" /\ intact' = intact
      /\ kept' = [n \in DOMAIN kept \cup {NewLine.seq} |->
                     IF n = NewLine.seq THEN store.message ELSE kept[n]]
  BY Zenon DEF WriteHeader
<1>2. NewLine.seq = store.numbers.sender /\ store'.numbers = store.numbers /\ store.message \in Content
  BY <1>1, Zenon DEF WriteHeader, NewLine, FInv, Typed, Underway, StoreRecord
<1>3. CASE ~intact
  BY <1>1, <1>3 DEF ASame
<1>4. CASE intact
  <2>1. /\ AStatus = "up" /\ AStatus' = AStatus /\ ASender = NewLine.seq
        /\ ASender' = ASender /\ ATarget' = ATarget
        /\ AMessages = kept /\ AMessages' = kept'
    BY <1>1, <1>2, <1>4
  <2>2. AMessages' = [n \in DOMAIN AMessages \cup {ASender} |->
                         IF n = ASender THEN store.message ELSE AMessages[n]]
    BY <1>1, <2>1
  <2> QED
    BY <1>2, <2>1, <2>2, AbstractAdd
<1> QED
  BY <1>3, <1>4

\* A failed add and a reset, done or not.
LEMMA ResetSteps ==
  ASSUME FInv, FInv',
         WriteBodyFails \/ WriteHeaderFails \/ RemoveBody \/ Reopen \/ ResetFails
  PROVE  Abstract!MNext \/ ASame
<1> USE Mapped, MappedNext DEF MappedValues, Up, Resetting
<1>1. AStatus \in {"up", "damaged"} /\ AStatus' \in {"up", "damaged"}
  BY DEF WriteBodyFails, WriteHeaderFails, RemoveBody, Reopen, ResetFails, FInv, Typed
<1>2. AMessages' = NoMessages /\ ASender' = 0 /\ ATarget' = 0
  <2>1. CASE WriteBodyFails \/ WriteHeaderFails \/ ResetFails
    BY <2>1 DEF WriteBodyFails, WriteHeaderFails, ResetFails
  <2>2. CASE RemoveBody
    BY <2>2 DEF RemoveBody, FInv, Typed
  <2>3. CASE Reopen
    BY <2>3, Zenon DEF Reopen, Closed, NoNumbers, FInv, Typed, Removed
  <2> QED
    BY <2>1, <2>2, <2>3
<1>3. CASE AStatus = "damaged" /\ AStatus' = "damaged"
  <2>1. ~intact /\ ~intact'
    BY <1>3, <1>1, SMTT(20) DEF WriteBodyFails, WriteHeaderFails, RemoveBody, Reopen, ResetFails, FInv, Typed
  <2> QED
    BY <1>2, <1>3, <2>1 DEF ASame
<1> QED
  BY <1>1, <1>2, <1>3, AbstractReset, SMTT(20)

\* The process dies.
LEMMA CrashStep ==
  ASSUME FInv, FInv', Crash
  PROVE  Abstract!MNext \/ ASame
<1> USE Mapped, MappedNext DEF MappedValues, Up, Resetting
<1>1. pc' = "down" /\ intact' = (intact /\ ~Resetting) /\ UNCHANGED <<disk, kept>>
  BY DEF Crash
<1>2. CASE ~intact
  BY <1>1, <1>2, Zenon DEF ASame
<1>3. CASE intact /\ Resetting
  <2>1. AStatus = "up" /\ AStatus' = "damaged" /\ AMessages' = NoMessages /\ ASender' = 0 /\ ATarget' = 0
    BY <1>1, <1>3, Zenon
  <2> QED
    BY <2>1, AbstractReset
<1>4. CASE intact /\ ~Resetting /\ ~Up
  BY <1>1, <1>4, Zenon DEF Crash, ASame, disk
<1>5. CASE intact /\ ~Resetting /\ Up
  <2>1. /\ AStatus = "up" /\ AStatus' = "down" /\ AMessages' = AMessages
        /\ ASender = store.numbers.sender /\ ATarget = store.numbers.target
        /\ ASender' = seqnums.numbers.sender /\ ATarget' = seqnums.numbers.target
    BY <1>1, <1>5, Zenon DEF disk
  <2>2. \/ seqnums.numbers \in {store.numbers, NoNumbers}
        \/ /\ seqnums.numbers.target = 0
           /\ seqnums.numbers.sender \in {store.numbers.sender, store.numbers.sender + 1}
    BY <1>5 DEF FInv, Recorded
  <2> QED
    BY <2>1, <2>2, AbstractCrash DEF NoNumbers
<1> QED
  BY <1>2, <1>3, <1>4, <1>5, SMTT(20) DEF FInv, Typed

\* file.rs does what the session expects of a store (ImplementsStore): every
\* call takes effect at one moment or not at all, and a crash spares the messages.
THEOREM FileStoreImplements == FSpec => ImplementsStore
<1>1. FInit => Abstract!MInit
  <2> SUFFICES ASSUME FInit PROVE Abstract!MInit
    OBVIOUS
  <2>1. FInv
    BY FInitKeeps
  <2> QED
    BY <2>1, Mapped, AbstractInit DEF MappedValues, FInit, Up, Resetting, EmptyFile, NoNumbers
<1>2. FInv /\ FInv' /\ [FNext]_fvars => [Abstract!MNext]_(Abstract!mvars)
  <2> SUFFICES ASSUME FInv, FInv', [FNext]_fvars
               PROVE  Abstract!MNext \/ UNCHANGED Abstract!mvars
    OBVIOUS
  <2>1. CASE FNext
    <3>1. Abstract!MNext \/ ASame
      BY <2>1, QuietSteps, RestartSteps, WriteNumbersStep, WriteHeaderStep, ResetSteps, CrashStep, Zenon
         DEF FNext
    <3> QED
      BY <3>1, AbstractVars DEF ASame, Abstract!mvars, AMessages, ASender, ATarget, AStatus
  <2>2. CASE UNCHANGED fvars
    BY <2>2 DEF fvars, disk, Abstract!mvars, read_messages, read_initial_seqnums, Up, Resetting
  <2> QED
    BY <2>1, <2>2
<1> QED
  BY <1>1, <1>2, FileStoreInvariant, PTL DEF FSpec, ImplementsStore, Abstract!MSpec
=============================================================================
