------------------------------- MODULE Framing -------------------------------
(***************************************************************************)
(* Cutting what a socket delivers into messages.                           *)
(*                                                                         *)
(* A message begins with two fields, the second of which says how many     *)
(* bytes follow it before the checksum.  A read returns any number of      *)
(* bytes, so a message arrives in any number of pieces, and one read may   *)
(* hold several messages.                                                  *)
(***************************************************************************)
EXTENDS Integers, Sequences, SequencesExt, FiniteSetsExt

CONSTANTS Streams,    \* the sequences of messages a peer may send
          UsizeWidth  \* width of a length; small, as TLC's numbers are

VARIABLES sent,       \* the messages the peer sends
          unread,     \* the bytes of them not read yet
          buffer,     \* Parser.buffer
          delivered   \* the messages handed to the session

pvars == <<sent, unread, buffer, delivered>>

Separator == 1
Equals == 61
Zero == 48
FIELD_CHECKSUM_LEN_IN_BYTES == 7
Flat(messages) == FoldLeft(LAMBDA all, b : all \o b, <<>>, messages)

-----------------------------------------------------------------------------
\* The first place of a byte behind a position, 0 if there is none.
find_byte(data, byte, after) ==
    LET places == {i \in after + 1 .. Len(data) : data[i] = byte}
    IN  IF after < 0 \/ places = {} THEN -1 ELSE Min(places)

\* Behind an absent byte nothing is found.
field_1(data) ==
    LET equals_0 == find_byte(data, Equals, 0)
        end_0    == find_byte(data, Separator, equals_0)
        equals_1 == find_byte(data, Equals, end_0)
    IN  [start |-> equals_1, end |-> find_byte(data, Separator, equals_1)]

nominal_body_len(digits) ==
    FoldLeft(LAMBDA n, b : ((n * 10) + ((b - Zero) % 256)) % 2^UsizeWidth, 0, digits)

\* Mutant: the length of the checksum is left out.
message_length_without_checksum(data) ==
    LET f == field_1(data)
    IN  f.end + nominal_body_len(SubSeq(data, f.start + 1, f.end - 1))

message_length(data) ==
    LET f == field_1(data)
    IN  (f.end + nominal_body_len(SubSeq(data, f.start + 1, f.end - 1))
            + FIELD_CHECKSUM_LEN_IN_BYTES) % 2^UsizeWidth

HasHeader(data) == field_1(data).end > 0

RECURSIVE Parser_parse(_, _)
Parser_parse(messages, data) ==
    IF ~HasHeader(data) \/ message_length(data) > Len(data)
    THEN [messages |-> messages, buffer |-> data]
    ELSE Parser_parse(Append(messages, SubSeq(data, 1, message_length(data))),
                      SubSeq(data, message_length(data) + 1, Len(data)))

-----------------------------------------------------------------------------
PInit ==
    /\ sent \in Streams /\ unread = Flat(sent)
    /\ buffer = <<>> /\ delivered = <<>>

\* One turn of the reader's loop: a read, and every message it completes.
run_reader ==
    /\ unread # <<>>
    /\ \E n \in 1 .. Len(unread) :
           LET result == Parser_parse(<<>>, buffer \o SubSeq(unread, 1, n))
           IN  /\ unread' = SubSeq(unread, n + 1, Len(unread))
               /\ buffer' = result.buffer
               /\ delivered' = delivered \o result.messages
    /\ UNCHANGED sent

PNext == run_reader
FramingSpec == PInit /\ [][PNext]_pvars

(* However the stream is cut into reads, the session is handed exactly the *)
(* messages that were sent, in order and each as soon as its last byte is  *)
(* read: what is buffered is a beginning of the next message, and not all  *)
(* of it.                                                                  *)
FramesAsSent ==
    /\ delivered = SubSeq(sent, 1, Len(delivered))
    /\ Flat(delivered) \o buffer \o unread = Flat(sent)
    /\ buffer # <<>> => Len(buffer) < Len(sent[Len(delivered) + 1])
=============================================================================
