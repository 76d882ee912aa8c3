# Formal model of the hotfix FIX engine

TLA+ modules for hotfix, a FIX engine (initiator side): the session layer, the
tasks that keep it connected, the handles through which an application uses it,
the answer to resend requests, the schedule, the message stores, and the way
messages are framed, built, encoded and read. TLC checks them on small instances,
TLAPS proves the safety properties of the session, the connection, the handles, the
answer to resend requests, the schedule and both stores for every value of the
constants, and of dates, times, months, offsets from UTC and checksums that they are read
as they are written.

## The system and its parts

hotfix runs a FIX session as a handful of tokio tasks that talk over channels.

| Part | State | Operations | Talks to |
|---|---|---|---|
| session task (`session.rs`) | `SessionState`, writer, store, flag to reset at the next logon | one handler for each event, request and timer of `run_session` | everything below |
| session states (`session/state/*`) | Disconnected, AwaitingLogon, Active, AwaitingResend, AwaitingLogout, each with its own data | transitions | session task |
| verification (`message/verification.rs`) | none | which checks a message needs, and their order | inbound handlers |
| inbound handlers (`session/inbound.rs`) | none of their own | one for each message type and each failed check | store, writer |
| outbound (`session/outbound.rs`, `ctx.rs`) | none of their own | number, store and write a message; answer a ResendRequest | store, writer |
| connection loop (`initiator.rs`) | where it is between two questions | wait for the schedule, connect, register the writer, wait for the end, ask whether to reconnect | session task |
| reader, writer, connection (`transport/`) | socket halves, mailbox of ten messages, watchdog | deliver messages, report the end once, close by force | peer, session task |
| handles (`session_ref.rs`, `session_handle.rs`) | bounded channels | send, shutdown, reset, set the next number | session task |
| schedule (`session_schedule.rs`) | none | is a time inside a period, are two times in the same one | session task |
| stores (`hotfix-store`, `hotfix-store-mongodb`) | messages by number, the two numbers, creation time | the operations of trait `MessageStore` | session task |
| messages, dictionary, macros | none at run time | parsing, building, encoding | reader, session task |
| web API, dashboard, CLI | none | forward requests | handles |

What makes it hard: the peer may send anything at any time, resends and
duplicates included; a gap is filled while new messages queue behind it; the
connection may end between any two steps, even before the session has its
writer; timers keep running in states that nobody waits in; the schedule may
reset the store under a session that remembers the old numbers; any store call
may fail between two others; the process may die between any two writes to the
files of the store or two requests to its database; a full mailbox stops the
session, a full channel its callers; and every message passes an encoder, a
stream cut anywhere, a framer and a builder before its number is looked at.

## Modules

| Module | Models | How |
|---|---|---|
| `Verification` | `message/verification.rs` | messages as records of what the session reads, `for_message`, `check_sequence_number`, `verify_message` as operators |
| `SessionState` | `session/state.rs`, `session/state/*`, `ctx.rs`, the writer and the store as the session uses them | operators from a session record to a session record |
| `Inbound` | `session/inbound.rs`, `on_incoming`, `process_message` and the handlers of `session.rs` | operators on the same record |
| `Session` | `run_session`, `establish_connection`, timers, admin requests, clock | variables and one action for each handler |
| `MCSession` | | the finite instances |
| `SessionStateProofs` | | what each operator of `SessionState` does to a session record |
| `SessionProofs` | | the same for `Inbound` and the handlers; the first five theorems about `Session` |
| `SessionSafetyProofs` | | the other four theorems about `Session` |
| `Resend` | `outbound::resend_messages`, one stored message a step | variables and actions |
| `MessageStore` | the contract of the store, from the trait and the in-memory store | abstract specification |
| `FileStore` | `hotfix-store/src/file.rs` | one action for each change to a file; refines `MessageStore` |
| `FileStoreProofs` | | theorems about `FileStore`, the refinement included |
| `MongoStore` | `hotfix-store-mongodb/src/lib.rs` | one action for each request to the database and for its answer; refines `MessageStore` |
| `MCResend` | | the finite instance of `Resend` and `MongoStore` |
| `MongoStoreProofs` | | theorems about `MongoStore`, the refinement included |
| `Connection` | `transport/`, `establish_connection`, `session_ref.rs`, and of the session what these see | reader, writer, watchdog, loop and session as processes joined by bounded channels |
| `ConnectionAndResendProofs` | | theorems about `Connection` and `Resend` |
| `Handles` | `session_handle.rs`, `Initiator`'s calls, `HttpSessionController`, `SendError` | callers, two bounded channels, the session as they see it |
| `MCFileStore` | | the finite instance of `FileStore` and `Handles` |
| `HandlesProofs` | | theorems about `Handles` |
| `Schedule` | `session_schedule.rs`, the schedule options of `config.rs` | operators on ticks of a short week; a clock |
| `FixedTypes` | `encoding/field_types/`: dates, times, timestamps, months, offsets, checksums, Booleans; their conversions to chrono | one operator for each conversion, on bytes |
| `FieldTypes` | `encoding/field_types/`: integers, tags, several values; the derived enumerations | extends `FixedTypes`; values written, altered, read and written again |
| `Numerals` | the standard library's formatting of integers | one recursive operator, for `FieldTypes` and `MessageBuilder` |
| `Framing` | `message/parser.rs`, `run_reader` | operators on bytes; a stream read in pieces |
| `Dictionary` | `hotfix-dictionary`: `quickfix.rs`, `dictionary.rs`, `layout.rs` | operators from a document to a dictionary |
| `MessageBuilder` | `hotfix-message`: `encoder.rs`, `builder.rs`, `field_map.rs` | operators; recursive for nested groups |
| `Messages` | `message.rs`, `message/*.rs`, `prepare_message_for_resend` | what is generated, encoded, altered on the way, built, sent again |
| `MCData` | | the finite instances of the eight modules above |
| `DataProofs` | | theorems about `Schedule` and `FixedTypes` |

**Handlers as operators.** A handler of the session runs to its end before the
next event is looked at, so a handler is one step. It is written as an operator
that takes the session record and returns the new one, in the order of the calls
in the code: `s` after the first call is the argument of the second. The record
holds the state, the writer (`none`, `open`, `closed`), the store (the kind of
message stored under each number, the target number, the creation time), the
backlog being replayed, and what the handler produced: `out` (messages
written), `calls` (application callbacks), `resets`. `err` is set by a call
that fails; callers test it where the code has a `?` and clear it where the code
takes the error: where it only logs, and in `settled`, where `handle_session_event`
answers a failed message with `logout_and_terminate`. `panicked` stands for
the end of the task.

**Store failures.** In a handler the calls of one store operation may fail; which
operation is chosen when the handler begins (`fault`). What was done before the
failure stays done. A failing reset may have cleared the store or not, and a failing `add` may
have stored its message or not (a lost answer of the database, bytes left in the file
store's buffer). When the error has ended the handling of a message, the store may work again or go on failing
for the Logout that follows.

**Data.** A message has a type, a number, PossDupFlag, the parser's verdict, the
first header check it would fail, and the fields the session reads. The verdict may also be
that the parser panics, which ends the task. All
application types are one. Strings, times and encodings are left out. The clock
is even inside a session period and odd between two.

**Sent messages.** `store.log` has an entry for each number taken: `app`,
`admin`, or `hole` where the number was taken and the message not stored.

**The connection loop** is the variable `initiator`: it waits for the schedule,
connects, registers the writer, runs until the reader is gone and asks whether to
reconnect. Each question and each answer is a step of its own. Messages are
received while it runs (`Run`); with `EarlyEof` the peer can hang up before the
writer is registered.

**Resend.** `Session` treats the answer to a ResendRequest as one write.
`Resend` opens it up: the slice read from the store, the run of skipped
administrative messages, the gap fill that closes it, the message sent again, and
the two ways it can fail half way. It carries a counterparty that
applies to the answer the rules this program applies to its own input.

**FileStore.** What `write` has taken survives the process; power failures are
not modelled. A message is one unit of the body file, a line one unit of the
header file. `.seqnums` is truncated and then written piece by piece, so a crash
can leave nothing, something unparseable, or a target that reads as zero. A failed
flush leaves its bytes in the `BufWriter`; after it the store is `damaged` until a
complete reset. The removal of each file is a step; the reopening of the three
files at the end of a reset is one, as nothing is read or lost in between.

**MongoStore.** The database is external: a request is applied or not, and its
answer arrives or is lost; the store reports an error in both of the last cases.
`reset` inserts a meta document and then changes over to it, so a lost answer leaves
a newer sequence that the next start will find while the store goes on with the old one
(then `stray`). `cleanup_older_than` runs in the same or in another process, in
three requests, and may stop after each.

**Connection** opens up what `Session` takes in one step: the event channel with its
senders (reader, loop), the writer's mailbox, `write_all`, the reader's kill signal, the ten second
watchdog and the forced close. The session is reduced to its state, whether a
reconnect is allowed, the connection whose writer it holds and the messages it still
has to push (`todo`); while it waits for room nothing else of it runs. What the peer
sends is only told apart by what it makes the session do. The `todo!()` of
`on_test_request` is `session_panics`. Store failures are left to `Session`.

**Handles.** A caller is in at most one call, waiting for room or for the answer,
and may give up (its future is dropped) in either. `send`, `send_forget`,
`get_session_info`, `request_reset_on_next_logon`, `set_next_target_seq_num` and `shutdown` differ in
the channel they use and in what they wait for; `Initiator::shutdown` also waits five seconds
for the loop. The session handles requests in the order of each channel, may
fail to take a number or to store (and then have stored all the same), may be told to drop by the application, and may end or panic
with requests waiting, which closes the channels and fails every answer. Resets
of the store are left to `Session`.

**Schedule.** A day has `Day` ticks, a week `Week` days; a zone has an offset that
changes once. Weekdays, the turn of the week, `weekly_seconds`, the conversion of local
times to instants and its failure at skipped or repeated times are those of the
code. The store is created at one tick and compared with a later one.

**Data on the wire.** In `Framing`, `FixedTypes` and `FieldTypes` a message or value is a
sequence of bytes. In `MessageBuilder` a message is a sequence of fields, each of length one: BodyLength
counts fields, and the checksum sums them. A field has the bytes of its tag, which are written in decimal and read by
`tag_from_bytes`, for which every byte is a digit and which wraps (a release build), and data that is a
number, no number, or not even text. The builder reads layouts
out of the dictionary that `Dictionary` imports from a small document with a
component, a group and a group inside it. `Messages` sets fields and groups in any
order, encodes, lets another sequence of fields arrive (one dropped, repeated,
moved, with other bytes for its tag or with other data), builds, and resends.

`PROJECT.json` has, for each definition, the lines it stands for.

## What is checked

| Run | Configuration | Properties | Result |
|---|---|---|---|
| `session_inbound` | `MCSession_inbound.cfg` | `TypeOK`, `NoRedelivery`, `ResendWindow`, `ResendRequestsBounded`, `LogonFirst`, `TargetNeverLowered` | hold, 408 thousand states |
| `session_events` | `MCSession_events.cfg` | `AwaiterKept`, `StopsOnlyWhenTold`, `WrittenIsStored` | hold, 379 thousand states |
| `session_liveness` | `MCSession_liveness.cfg` | `ClosedEnds`, `HandshakeEnds`, `ScheduleWaitEnds` | hold, 14 thousand states |
| `resend` | `MCResend.cfg` | `RTypeOK`, `OnlyAppAgain`, `FillsSkipNoApp`, `Ascending`, `AppAllAgain`, `CatchesUp`, `AnswerEnds`; `NoOrphans`, `MongoImplementsStore` | hold, 366 thousand states |
| `file_store` | `MCFileStore.cfg` | `FTypeOK`, `ReadsBack`, `Recoverable`, `ImplementsStore`; `AnswersAreTrue`, `QuietAfterShutdown` | hold, 1.6 million states |
| `connection` | `MCConnection.cfg` | `EventsInOrder`, `SessionUnblocks`, `SilentPeerDropped`, `ShutdownCompletes` | hold, 76 thousand states |
| `data` | `MCData.cfg` | `PeriodsAreActiveRuns`, `FailsOnlyAtClockChange`, `OpensAgain`; `ReadsWhatWasWritten`, `RewriteKeepsValue`; `FramesAsSent`; `MessageReadsBack`, `NothingLost`, `ResentIsTheSame` | hold, 665 thousand states |
| `early_eof`, `period`, `terminate`, `resend_fill`, `file_store_open` | one cfg each | one each | violated, see Findings |

What the passing properties say:

- `NoRedelivery`: the application never gets the same verified number twice,
  whatever resends, duplicates, gap fills and reconnects happen (until a reset).
- `ResendWindow`: the awaited gap is real, asked for at most three times, and the
  queue holds only what lies beyond it.
- `ResendRequestsBounded`: the same bound as the counterparty sees it.
- `LogonFirst`: the Logon is the first message on a connection, and the only one.
- `TargetNeverLowered`: only a reset or an operator lowers the target number.
- `AwaiterKept`: the wake-up the connection loop waits for is never lost.
- `StopsOnlyWhenTold`: the loop ends only if the session rules out a reconnect.
- `WrittenIsStored`: what is written under a fresh number can be resent, the Logout that
  follows a failure of the store included.
- `OnlyAppAgain`, `FillsSkipNoApp`, `Ascending`, `AppAllAgain`, `CatchesUp`: an answer
  to a ResendRequest is exactly the application messages asked for, in order, with
  gap fills that hide none and leave no gap.
- `ReadsBack`, `Recoverable`: the file store returns what was added, now and after
  a crash at any point but in the middle of a reset. `ImplementsStore`: it refines `MessageStore`.
- `AnswersAreTrue`: a caller told `Sent` has its message stored under that number,
  once; a caller told anything else but `Persist` may send again, for it is not stored. (After `Persist` it may be
  stored or not.) One caller's messages are stored in
  the order of its calls. `QuietAfterShutdown`: after an `Ok` of
  `Initiator::shutdown` nothing of any handle is stored any more.
- `EventsInOrder`: the events of a connection, the questions of the loop after it and
  the events of the next one reach the session in that order. `SessionUnblocks`: a
  session that waits for the mailbox gets on, unless the `write_all` it waits for never returns.
  `SilentPeerDropped`: a peer that falls silent loses the connection, unless a resend is awaited.
  `ShutdownCompletes`: an accepted shutdown ends the loop. Both also name that `write_all` as their exception, and without
  it TLC finds each of the three violated.
- `PeriodsAreActiveRuns`: two times are in the same period exactly if the schedule was
  active all the time between them. `FailsOnlyAtClockChange`: the comparison has an
  answer unless the clocks change within a week and a day of the store's creation.
  `OpensAgain`: no accepted schedule stays closed for more than two weeks.
- `ReadsWhatWasWritten`, `RewriteKeepsValue`: values survive writing and reading; accepted
  bytes, canonical or not, keep their value when written again, with one exact exception: an
  offset from UTC of 2080 hours or more, which only bytes that are no digits make, has a first digit that wraps.
- `FramesAsSent`: the same messages for every way to cut the stream.
- `MessageReadsBack`: a message is read back as it was exactly if it follows its
  layout. `NothingLost`: a message accepted as valid, altered or not, holds the fields
  that arrived, with the tags `tag_from_bytes` makes of them. `ResentIsTheSame`: a resend changes what it should and nothing else.
- `NoOrphans`, `MongoImplementsStore`: wherever a cleanup stops, no message is left that
  the next cleanup cannot find; the store refines `MessageStore`.

`MCFileStore`, `MCResend` and `MCData` hold independent parts. A variable `part` chooses one and
the variables of the others keep their first values, so the state spaces add and do not multiply.

Each property has a mutant: a definition with a plausible mistake, kept next to the correct
one and marked as such, for which TLC finds the property violated.

`NoRedelivery` and `LogonFirst` are checked for a store that works. With failing
store calls they do not hold: a message whose `increment_target` fails is delivered
again when it is resent, and a Logon that was not stored is not written.

### Bounds

- `MaxSender`, `MaxTarget` bound the numbers. A gap, its resend, a message beyond it
  and a second gap need target numbers up to 4; three resend requests, a Logon and
  a Logout need sender numbers up to 5. `session_inbound` has these; the other runs
  ask about the loop and the timers and need fewer.
- `MaxQueue` is 2 in `session_inbound`: a replay can be interrupted by another gap
  with a message still in the queue.
- `MaxNow` counts half periods: 2 is inside, outside, inside again. The liveness run
  has 4 and one instant at which periods cannot be compared.
- `MaxLog` is 5: a run of two administrative messages before, between and after
  application messages, with a hole. Requests range up to two beyond it.
- `MaxSeq` 2, `MaxBody` 3, two contents: a number written again after the numbers
  were lost, with a different content, and an orphaned body before it.
- `PeerMessages` are the sets in `MCSession`. `session_inbound` has every message type
  with several numbers, every parser verdict and every header flaw. `session_events` has a Logon, a Logout
  and application messages under two numbers, which are in sequence after the Logon, after a gap once the numbers were
  reset or set back, and too low when they come twice. Messages that wait for the end of a
  resend are left to `session_inbound`; the three invariants of `session_events` are proved for every set of messages.

- `EventCap` 2 and `MailboxCap` 1 are the smallest capacities with a channel that is
  full, not full and empty, while two senders wait; `MaxConns` 2 lets events of one connection
  meet those of the next.
- `OutboundCap` and `AdminCap` are 1; one caller makes two calls and one makes
  one, so a call can wait behind another's, and follow one that was given up.
  `MaxNumber` 3 numbers every message of these.
- `Day` 4, `Week` 3, `Horizon` 14: all schedules of a week of three days, compared over more
  than a week, in zones whose clock goes forward or back in between, and in one where it does
  so more than a week and a day after some creation times, when the comparison may not fail. The
  code's seven and 86400 enter as these constants only.
- `IntWidth` 8, `UsizeWidth` 16: overflow happens after a few digits. `MaxAltered` 2: two
  bytes of a written value are replaced by any of sixteen that the readers tell apart. `TagWidth` 16,
  32 in the code: a tag of five digits wraps around to MsgType.
- `Streams` are pairs and triples of messages, one with a body that looks like a
  header and one with a body that ends like a message; reads have every length.
- `MaxOps` 3: three fields or groups set by an application, in any order.
- `MaxSequences` 3, one number and one content: a sequence abandoned, one in use
  and one created by a reset whose answer was lost.

Deadlock is not checked: the connection loop may stop, a caller may be done, and a
bound may be reached.

### Fairness

`session_liveness` assumes weak fairness of: the steps of the replay loop; the
session's answers to the connection loop; the timers (the peer deadline passes, the
timer fires, the schedule is checked, the clock moves up to its bound); the connection loop; and
the end of the reader once the writer was told to disconnect. The last is what
`run_until_disconnect` does with its ten second limit, and what `connection` checks
in detail; it rests on `write_all` coming to an end, which has no time limit of its own, as `connection` shows. The timers are polled after
the channels in a biased `select!`, so their fairness assumes that the channels run
empty from time to time; a peer that sends without pause is outside the assumption.
Nothing is assumed of the peer, the application or the users of the handles.
`Resend` assumes that its loop goes on.

`connection` assumes:
- weak fairness of the writer, of the session's handlers and of its pushes: tasks
  that are ready are run. Nothing is assumed of `write_all`: it has no timeout, and a peer that keeps the
  connection and does not read may hold it for ever. The three liveness properties say what is left then: each holds
  or a writer stays in `write_all` for good;
- strong fairness of the loop's steps and of the reader's report of the end: they
  compete for room in the event channel, whose waiters are served in order, and the reader's
  `select!` is not biased;
- strong fairness of the peer timer: the application pauses now and then.
  `ShutdownCompletes` also exempts a session that is never idle from some time on, since a peer that talks
  without pause can keep it from its timers for ever.

Two cases are exempt, because the code does otherwise. A wrong BeginString or CompID, or
a fatal error, during a Logout without reconnect disconnects with reconnect
(`overruled`). And when the session task dies while connected, the loop waits for the
reader until the peer closes.

### Findings

Five of the runs check what a comment, doc or test says and find it violated.

- `early_eof`: `connect()` starts the reader before the session has the writer. If the
  peer hangs up in between, the session handles the end before the beginning, waits
  for a Logon on a dead connection, and answers `AwaitSchedule` with `Shutdown`: the
  connection loop ends although nothing unrecoverable happened
  (`session/event.rs:29`).
- `period`: a change of period resets the store but not the state. In AwaitingResend
  the next message of the old connection has a gap that begins below the awaited one,
  which is taken for a resend gone wrong and rules out the reconnect
  (`session.rs:655`).
- `terminate`: after an unanswered TestRequest the deadline stays in the past, so
  the session terminates again and again, with a new Logout in the store each
  time, until the reader reports the end (`state.rs:307`).
- `resend_fill`: the gap fill that ends an answer names the last skipped message as
  NewSeqNo, not the one after it (`resend_tests.rs:211`). `CatchesUp` says what is
  still true: the counterparty is at most one number short.
- `file_store_open`: opening the file store truncates the sequence numbers on disk;
  they come back with the next increment only (`file.rs:1`, `file.rs:23`).

Further things the models show about the code, for which there is no run of their own:

- `SendOutcome::Sent` is documented as "Message was persisted and sent"
  (`session/error.rs:29`). In AwaitingLogon and AwaitingLogout an application message is
  stored and answered with `Sent` but not handed to the writer (`state.rs:172`, `175`); it
  reaches the peer only if asked for again. `AnswersAreTrue` is about the store.
- `Initiator::shutdown` with reconnect, or while disconnected, does not end the
  loop; it answers `SessionGone` after five seconds although the task runs. If the
  loop ends as in `early_eof`, sends are still answered with `Sent` afterwards, which is
  why `QuietAfterShutdown` is about a loop the session told to stop.
- `write_all` in the writer task has no timeout (`socket_writer.rs:35`). While it waits for a peer that does not
  read, the mailbox fills, the session blocks in its next push with timers, admin requests and shutdown
  behind it, and the watchdog of the connection waits for the writer to end.
- An `expect` of the builder "never fails as we've verified the integrity of the header" (`builder.rs:180`); a MsgType
  that is not UTF-8 makes it fail, and the session task, which builds the message, ends in a panic.
- The lossy reading of a signed integer takes the sign for a digit (`primitives.rs:21`). The
  checksum `256` reads as 0. Digits of milliseconds are not checked. A SendingTime that is
  no instant (31 February, second 60) skips the accuracy check (`verification.rs:132`).
- In the builder, a repeated tag overwrites the first silently, the count
  of a group is not compared with its entries, and required fields of the message
  itself are not checked. `set_groups` without its count field encodes a message with a
  wrong BodyLength. `MessageReadsBack` and `NothingLost` name these as their exceptions.
- "Delete messages first to avoid orphaned meta documents" (`hotfix-store-mongodb/src/lib.rs:249`):
  it is orphaned messages that the order avoids; a cleanup that stops half way
  leaves metas without messages, which the next one removes.

## What is proved

The theorems hold for every value of the constants: any messages, faults and
requests, any number of callers, connections, sequences and numbers, any capacities,
both build profiles. Their assumptions, evaluated by TLC in every run, are:

- `SessionAssumption`, `OverflowChecksAssumption`: the constants have their types;
- `ResendAssumption`, `MongoStoreAssumption`, `FileStoreAssumption`: bounds are natural numbers, and
  no message is one of the two values that stand for its absence;
- `CapacitiesAssumption`, `ChannelsAssumption`: tokio's bounded channels have room for at least one message;
- `ScheduleAssumption`: a day and a week are not empty, the clock is past the epoch, offsets are numbers, and the
  clocks of a zone are never changed by more than a day (in the time zone database the largest change is one of 24
  hours, over the date line).

| Property | Theorem | Hypothesis | Inductive invariant |
|---|---|---|---|
| `TypeOK` | `SessionTypes` | | `SInv` |
| `ResendWindow` | `SessionWindow` | | `SInv` |
| `TargetNeverLowered` | `SessionTarget` | | `SInv` |
| `AwaiterKept` | `SessionKeepsAwaiter` | | `BInv` |
| `WrittenIsStored` | `SessionStoresWritten` | | `BInv` |
| `ResendRequestsBounded` | `SessionAsksBounded` | | `BInv /\ Asking` |
| `NoRedelivery` (verified messages) | `SessionDeliversOnce` | store calls do not fail | `BInv /\ Delivering` |
| `LogonFirst` | `SessionLogonFirst` | store calls do not fail | `BInv /\ Greeting` |
| `StopsOnlyWhenTold` | `SessionStopsWhenTold` | `~EarlyEof` | `SInv /\ Ending` |
| `RTypeOK`, `OnlyAppAgain`, `FillsSkipNoApp`, `Ascending`, `AppAllAgain`, `CatchesUp` | `ResendTypes`, `ResendOnlyApp`, `ResendSafe`, `ResendAscending`, `ResendComplete`, `ResendCatchesUp` | | `RInv` |
| `FTypeOK`, `ReadsBack`, `Recoverable`, `ImplementsStore` | `FileStoreTypes`, `FileStoreReadsBack`, `FileStoreRecovers`, `FileStoreImplements` | | `FInv` |
| `NoOrphans`, `MongoImplementsStore` | `MongoNoOrphans`, `MongoImplements` | | `GInv` |
| `EventsInOrder` | `ConnectionOrder` | | `CInv` |
| `AnswersAreTrue`, `QuietAfterShutdown` | `HandlesAnswers`, `HandlesQuiet` | | `HInv` |
| `PeriodsAreActiveRuns`, `FailsOnlyAtClockChange`, `OpensAgain` | `SchedulePeriods`, `ScheduleAnswers`, `ScheduleOpens` | | `ClockInv` |

The hypotheses are those of the runs, and needed. With failing store calls `NoRedelivery` and
`LogonFirst` do not hold (see above); with `EarlyEof` run `early_eof` has the counterexample
to `StopsOnlyWhenTold`. That the theorem holds without it says that this race is the only way the
loop can stop by mistake.

**The session.** A handler is a composition of operators on the session record, and so is its
proof. `Follows(s, t)` says what one operator may do on the way from `s` to `t`: `t` is well
typed and satisfies the window, its target number is no lower unless the store was cleared (`Moves`);
what is written and fresh is stored, a responder that is waited for is still there or
answered, a disconnected session has no writer (`Kept`); no Logon is written, nothing is written
without a writer, and Disconnected is not left (`Wired`, for all but `on_connect`); no resend is
asked for, nothing is delivered and no gap is opened (`Calm`). It is transitive; weaker relations (`Leads`, `Reaches`, `Moves`)
are for the operators that write, deliver or connect. Each operator has one lemma
in `SessionStateProofs` or `SessionProofs`, each action one step in each of the inductive proofs.

- `SInv == TypeOK /\ ResendWindow`. The window needs the types, as a queue of
  anything but messages would say nothing.
- `BInv` adds what is true between two steps: no error is pending, a disconnected session has no
  writer, what is written is stored, whoever waits for the schedule has a responder in the session
  or an answer, and from the answer to the registration of the writer the session
  stays disconnected. The last two tie the loop to the session: without them
  a schedule check, a reset or a late disconnect might lose the wake-up.
- `Asking` relates the history of the ResendRequests written to what AwaitingResend has counted: no
  more than `attempts` for the number that is expected, none if the gap begins elsewhere or
  in a state that may open one. `ResendRequestsBounded` alone says nothing of the state that counts.
- `Delivering`: the last number delivered lies at or below the target number, as each
  delivery goes with an increment and only a reset moves the number back, or an operator, who
  moves the history back with it.
- `Greeting`: while the writer is open the first message was a Logon.
- `Ending`: without a connection the session is disconnected and replays nothing; it has a
  responder only while the loop waits for it, and then the answer is not `Shutdown`.

**The answer to a ResendRequest.** `RInv` adds where the loop is (`LoopRange`), that the run
being skipped holds no application message (`SkippedRun`), that what was written lies
before the cursor and before that run (`WrittenRange`), that every application message
behind the cursor was sent again (`AppSoFar`), and what the counterparty expects
meanwhile (`Abreast`).

**The file store.** `FInv`: every line of the header file points into the body file, the
index is the one a new process would read, the offset is the length of the part of the body that has
its lines, buffers are empty and handles good while the store is undamaged
(`Lines`, `InStep`); how far a reset has got (`Removed`); the numbers on disk are the
struct's, none, or those of a write cut short (`Recorded`). `ReadsBack` is not inductive without the offset:
a wrong one shows only with the next message. The refinement maps a damaged store to "damaged" and, while no process
runs, the numbers to those a start would read; each action is then one of
`MessageStore`'s or leaves the mapped variables as they are.

**The MongoDB store.** `GInv`: ids are drawn in order (`Drawn`), the process has the latest
sequence (`Holds`), a reset's new sequence is empty until the process changes over (`Calling`), the
struct's number is the database's up to the call in progress (`Follows`), one document for each
number (`OneEach`), and a cleanup never has in its list the sequence in use or a later one
(`Cleaning`), which is what makes it safe beside a running process.

**The connection.** `CInv`: a reader that reads is that of the current connection, and the
loop is then inside it (`LoneReader`). So whoever sends next sends at the highest rank there is
(`Top`), which never falls; the channel is ascending and bounded by it.

**The handles.** `HInv`: a caller's requests are in the channel in the order of its calls, behind what
is stored (`InLine`); the request of its present call is there only once sent (`OwnRequest`), not yet in
the store while it waits (`Unstored`), and gone from the channel once answered (`Answered`).
A call that was given up leaves its request behind, which is why the present call has a number.

**The schedule.** `ClockInv` says what the history variable `unbroken` stands for: every local time from the
store's creation to the clock is active, those that a clock put forward leaves out included (`AllActive`), and the
schedule is one that `try_from` returns (`TryFrom`). Daily, weekday and weekly schedules are then one
thing: a cycle of a day or of a week in which the session opens once and closes once. `CheckSchedule` shows that the three
checks of the code, each with its case for a session that spans midnight or the turn of the week, say that the
local time is between the last opening and the next closing; `SingleDayBounds` and `WeeklyBounds` that
the two bounds calculations give that opening and that closing. `Once` carries this over to instants: a local time that
`construct_utc` accepts splits the instants into those whose local time is before it and those whose local time is
not, although local time goes back where the clocks do. `ScheduleAnswers` follows, since a local
time that is missing or comes twice is near the change, and `ScheduleOpens` by an
opening in the week before the change or in the week after it.

**Dates, times, months, offsets and checksums** have no state, and their theorems no invariant. They are about every
value and, where they say "accepted", every sequence of bytes.

| Theorem | Says |
|---|---|
| `FieldsReadBack` | dates, times and timestamps are read as they were written, dates also by the reading without checks |
| `DatesAreCanonical` | bytes accepted as a date are the ones it is written with |
| `MonthsAreCanonical` | bytes accepted as a month and year, with a day or a week, are the ones it is written with |
| `TimesKeepValue` | the value of an accepted time or timestamp survives being written and read again |
| `InstantsComeBack` | a timestamp that chrono takes comes back as it was |
| `OffsetsReadBack` | offsets of whole minutes below a hundred hours are read as they were written, also without checks |
| `CheckSumsReadBack` | checksums are read as they were written |

The argument is from the digits up: a number below a hundred is one pair of digits and no other (`TwoDigits`, `TwoOnce`),
four digits are two pairs, and bytes keep their places in what they are joined to (`Joined`). These theorems are what
`ReadsWhatWasWritten` and `RewriteKeepsValue` say of these types, for all years and milliseconds where the run
takes a few.

### Only model-checked

- Liveness (`ClosedEnds`, `HandshakeEnds`, `ScheduleWaitEnds`, `AnswerEnds`, `SessionUnblocks`,
  `SilentPeerDropped`, `ShutdownCompletes`): it rests on fairness and `ENABLED`, which are
  out of the prover's reach.
- `FramesAsSent`, `MessageReadsBack`, `NothingLost`, `ResentIsTheSame`: they are about what recursive
  definitions compute, which needs induction over the data; the prover has none.
- `ReadsWhatWasWritten` and `RewriteKeepsValue` as a whole. Integers, tags and several values are written and
  read by recursion over their digits and items. Booleans have two values, both in the run, and an enumeration is its bytes.
- The properties of the five runs that find a violation.

## What is not modelled

- Field types that the code does not finish or leaves to libraries: TzTime and
  TzTimestamp, decimals and floats.
- The dictionary's table of data types, abbreviations and listings, which
  nothing reads at run time; the text that code generation and the derive macros
  produce (what it does is in `FieldTypes` and `Dictionary`).
- TLS and TCP set-up: external libraries; to the session a stream that opens or does not.
- The HTTP layer of the web API, the dashboard and the CLI: they have no state, and
  their requests are those of the handles. Deserialisation and defaults of the configuration.
- Wording, logging, metrics.
- More than one store operation failing in the same handler; power failures and
  corrupted disks; two processes that write to the same database sequence.
- A counterparty that is itself a FIX engine: the peer is unconstrained. That a
  message is never lost by an increment of the target without a look at the number needs one.

## Plan

1. **Counterparty**: the session composed with a peer that numbers, stores and
   resends by the same rules over a connection that breaks. Properties: every application
   message is delivered exactly once if connections last long enough; which
   messages the unconditional increments of the target can lose. An abstract
   specification, an ordered queue between two applications, that it implements.
2. **Lifecycle**: an abstract specification of connect, log on, log out, reconnect or
   stop, and `Session` and `Connection` as its implementations.
3. **Theorems**: the steps of the abstract specifications above.
