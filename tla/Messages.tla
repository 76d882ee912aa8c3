------------------------------ MODULE Messages ------------------------------
(***************************************************************************)
(* Messages on their way out and back: what the engine and an application  *)
(* write, what is encoded, what the peer's (or our own) builder makes of   *)
(* it, and what a resend makes of the stored bytes.                        *)
(***************************************************************************)
EXTENDS MessageBuilder

CONSTANTS EngineMessages,   \* outbound messages of the engine, see below
          AppMsgTypes,      \* message types of the application
          AppFields,        \* fields an application may set
          AppGroups,        \* entries an application may set
          MaxOps,           \* bound: fields and groups it sets in one message
          OtherTags         \* texts of tags that may turn up on the wire

VARIABLES m,        \* the message being written
          ops,      \* how many fields and groups the application set
          wire,     \* the encoded message, <<>> before that
          changed,  \* the bytes are not those that were encoded
          resent    \* the resent message, <<>> before that

mvars == <<m, ops, wire, changed, resent>>

MSG_SEQ_NUM == 34
POSS_DUP_FLAG == 43
SENDER_COMP_ID == 49
SENDING_TIME == 52
TARGET_COMP_ID == 56
ORIG_SENDING_TIME == 122

Absent == -2      \* an optional field that is not there
Yes == 89
No == 78
SentAt == 1       \* utc_now when a message is generated, and when it is resent
ResentAt == 2

-----------------------------------------------------------------------------
(* The engine's messages: their type and the fields they write, in order.  *)

Outbound(type, fields) ==
    [type |-> type, fields |-> SelectSeq(fields, LAMBDA f : f.data # Absent)]

Reset == [flag |-> Yes, next |-> Absent]
NoReset(next) == [flag |-> No, next |-> next]
Logon(heartbeat_interval, config) ==
    Outbound(65, <<Field(98, 48), Field(108, heartbeat_interval),
                   Field(141, config.flag), Field(789, config.next)>>)
Heartbeat(test_req_id) == Outbound(48, <<Field(112, test_req_id)>>)
TestRequest(test_req_id) == Outbound(49, <<Field(112, test_req_id)>>)
ResendRequest(begin, end) == Outbound(50, <<Field(7, begin), Field(16, end)>>)
Reject(ref_seq_num, ref_tag_id, ref_msg_type, reason, text) ==
    Outbound(51, <<Field(45, ref_seq_num), Field(371, ref_tag_id), Field(372, ref_msg_type),
                   Field(373, reason), Field(58, text)>>)
SequenceReset(gap_fill, new_seq_no) ==
    Outbound(52, <<Field(123, gap_fill), Field(36, new_seq_no),
                   Field(ORIG_SENDING_TIME, SentAt), Field(POSS_DUP_FLAG, Yes)>>)
Logout(text) == Outbound(53, <<Field(58, text)>>)
BusinessReject(ref_msg_type, reason, ref_seq_num, text) ==
    Outbound(106, <<Field(372, ref_msg_type), Field(380, reason),
                    Field(45, ref_seq_num), Field(58, text)>>)

is_admin(type) == type \in {65, 48, 49, 50, 51, 52, 53}

generate_message(msg_seq_num, message) ==
    FoldLeft(LAMBDA msg, f : set(msg, f.tag, f.data), NewMessage(1, message.type),
             <<Field(SENDER_COMP_ID, 1), Field(TARGET_COMP_ID, 2), Field(MSG_SEQ_NUM, msg_seq_num),
               Field(SENDING_TIME, SentAt)>> \o message.fields)

-----------------------------------------------------------------------------
(* A resend.  An invalid message counts as one that could be read.         *)

into_message(parsed) == parsed.msg
CanResend(parsed) == parsed.outcome \in {"Valid", "Invalid"}

\* Mutant: the sending time is refreshed before it is kept as the original one.
prepare_refreshing_first(msg) ==
    LET refreshed == store_field(msg.header, Field(SENDING_TIME, ResentAt))
    IN  [msg EXCEPT !.header =
            IF SENDING_TIME \notin Tags(msg.header) THEN msg.header
            ELSE IF /\ {POSS_DUP_FLAG, ORIG_SENDING_TIME} \subseteq Tags(msg.header)
                    /\ Raw(msg.header, POSS_DUP_FLAG) = Yes
            THEN refreshed
            ELSE store_field(store_field(refreshed,
                     Field(ORIG_SENDING_TIME, Raw(refreshed, SENDING_TIME))), Field(POSS_DUP_FLAG, Yes))]

prepare_message_for_resend(msg) ==
    LET h       == msg.header
        popped  == pop(h, SENDING_TIME)
        again   == POSS_DUP_FLAG \in Tags(h) /\ Raw(h, POSS_DUP_FLAG) = Yes /\ ORIG_SENDING_TIME \in Tags(h)
        refresh == store_field(popped, Field(SENDING_TIME, ResentAt))
        first   == store_field(store_field(store_field(popped,
                       Field(ORIG_SENDING_TIME, Raw(h, SENDING_TIME))),
                       Field(SENDING_TIME, ResentAt)), Field(POSS_DUP_FLAG, Yes))
    IN  [msg EXCEPT !.header =
            IF SENDING_TIME \notin Tags(h) THEN h
            ELSE IF again THEN refresh
            ELSE IF Raw(h, SENDING_TIME) = Unparsable THEN popped   \* sent without it
            ELSE first]

resend(bytes) == encode(prepare_message_for_resend(into_message(build(bytes))))

-----------------------------------------------------------------------------
(* One message: generated, encoded, perhaps changed on its way, and resent *)
(* from the stored bytes.                                                  *)

MInitial == generate_message(1, Outbound(0, <<>>))

MsgInit ==
    /\ m = MInitial /\ ops = 0
    /\ wire = <<>> /\ changed = FALSE /\ resent = <<>>

SendEngine ==
    /\ m = MInitial
    /\ \E x \in EngineMessages :
           LET done == encoded(generate_message(1, x))
           IN  m' = done.msg /\ wire' = done.bytes
    /\ UNCHANGED <<ops, changed, resent>>

\* The application's write: it sets fields and groups, in any order.
StartApp ==
    /\ m = MInitial
    /\ \E type \in AppMsgTypes : m' = generate_message(1, Outbound(type, <<>>))
    /\ UNCHANGED <<ops, wire, changed, resent>>

Writing == m # MInitial /\ wire = <<>> /\ ops < MaxOps

SetField ==
    /\ Writing
    /\ \E f \in AppFields : m' = set(m, f.tag, f.data)
    /\ ops' = ops + 1
    /\ UNCHANGED <<wire, changed, resent>>

SetGroups ==
    /\ Writing
    /\ \E entries \in AppGroups : m' = [m EXCEPT !.body = set_groups(@, entries)]
    /\ ops' = ops + 1
    /\ UNCHANGED <<wire, changed, resent>>

Encode ==
    /\ m # MInitial /\ wire = <<>>
    /\ m' = encoded(m).msg
    /\ wire' = encode(m)
    /\ UNCHANGED <<ops, changed, resent>>

\* Another sequence of fields arrives: one is missing, there twice, in
\* another place, or has another tag or data that is no text.  Its sender
\* counted and summed it.  Or one was changed on its way.
Reseal(fields) ==
    LET sized == [fields EXCEPT ![2].data = Len(fields) - 3]
    IN  [sized EXCEPT ![Len(sized)].data = compute(Front(sized))]

Change ==
    /\ wire # <<>> /\ ~changed /\ resent = <<>>
    /\ \E i \in 3 .. Len(wire) - 1 :
           \/ wire' = Reseal(RemoveAt(wire, i))
           \/ \E j \in i .. Len(wire) - 1 : wire' = Reseal(InsertAt(wire, j, wire[i]))
           \/ \E t \in OtherTags : wire' = Reseal([wire EXCEPT ![i].text = t])
           \/ wire' = Reseal([wire EXCEPT ![i].data = NotText])
           \/ wire' = [wire EXCEPT ![i].data = 3]
    /\ changed' = TRUE
    /\ UNCHANGED <<m, ops, resent>>

Resends(parsed) == CanResend(parsed) /\ ~is_admin(Raw(into_message(parsed).header, MSG_TYPE))

Resend ==
    /\ wire # <<>> /\ ~changed /\ resent = <<>>
    /\ Resends(build(wire))
    /\ resent' = resend(wire)
    /\ UNCHANGED <<m, ops, wire, changed>>

MsgNext == SendEngine \/ StartApp \/ SetField \/ SetGroups \/ Encode \/ Change \/ Resend
MessagesSpec == MsgInit /\ [][MsgNext]_mvars

-----------------------------------------------------------------------------
(* Which messages can be read back, said of the specification's elements   *)
(* rather than of what the builder derives from them.                      *)

TagNamed(name) == Xml.fields[CHOOSE i \in DOMAIN Xml.fields : Xml.fields[i].name = name].number
NodeOf(nodes, has(_)) == nodes[CHOOSE i \in DOMAIN nodes : has(nodes[i])]

RECURSIVE Inlined(_)
Inlined(nodes) ==
    Concat([i \in DOMAIN nodes |->
        IF nodes[i].element # "component" THEN <<nodes[i]>>
        ELSE Inlined(NodeOf(Xml.components, LAMBDA c : c.name = nodes[i].name).children)])

Opens(map, i) == map.fields[i].tag \in DOMAIN map.groups

RECURSIVE Follows(_, _, _)
Follows(map, nodes, in_group) ==
    LET layout  == Inlined(nodes)
        tags    == [i \in DOMAIN layout |-> TagNamed(layout[i].name)]
        Known   == {i \in DOMAIN map.fields : map.fields[i].tag \in ToSet(tags)}
        At(i)   == CHOOSE k \in DOMAIN tags : tags[k] = map.fields[i].tag
        Groups  == {k \in DOMAIN layout : layout[k].element = "group"}
    IN  /\ \A i \in DOMAIN map.fields \ Known :
               /\ should_accept_unknown_user_defined(map.fields[i].tag)
               /\ i > 1 => ~Opens(map, i - 1)
        /\ DOMAIN map.groups = Tags(map) \cap {tags[k] : k \in Groups}
        /\ \A k \in Groups : tags[k] \in DOMAIN map.groups =>
               \A e \in ToSet(map.groups[tags[k]]) : Follows(e.map, layout[k].children, TRUE)
        /\ in_group =>
               /\ map.fields # <<>> /\ map.fields[1].tag = tags[1]
               /\ \A i, j \in Known : i < j => At(i) < At(j)
               /\ \A k \in DOMAIN tags : layout[k].required = "Y" => tags[k] \in Tags(map)

Conforms(msg) ==
    /\ \E i \in DOMAIN Xml.message_section : Xml.message_section[i].msgtype = Raw(msg.header, MSG_TYPE)
    /\ Follows(msg.body,
               NodeOf(Xml.message_section, LAMBDA n : n.msgtype = Raw(msg.header, MSG_TYPE)).children, FALSE)

Same(a, b) == ToSet(a.fields) = ToSet(b.fields) /\ a.groups = b.groups
SameMessage(a, b) == \A part \in {"header", "body", "trailer"} : Same(a[part], b[part])

(* A message that is encoded is read back as it was, with every field and  *)
(* group in its place, exactly when it follows its layout: every field of  *)
(* the body belongs to the message, a group is there if and only if its    *)
(* count is, and its entries begin with the delimiter, keep the declared   *)
(* order and have their required fields; a user-defined field the builder  *)
(* lets pass does not follow a group.                                      *)
MessageReadsBack ==
    LET ReadsAs(parsed) == parsed.outcome = "Valid" /\ SameMessage(parsed.msg, m)
    IN  wire # <<>> /\ ~changed => (Conforms(m) <=> ReadsAs(build(wire)))

(* Whatever sequence of fields arrives, a message the builder accepts has  *)
(* no field that did not arrive, where a field's tag is the number         *)
(* tag_from_bytes makes of its text.  Where only declared fields of a      *)
(* group were repeated, it also has every field that came before the first *)
(* checksum, and encoding it, with the tags in decimal, gives a message    *)
(* that is read as the same.                                               *)
RECURSIVE AllFields(_)
AllFields(map) ==
    ToSet(map.fields)
        \cup UNION {UNION {AllFields(map.groups[t][i].map) : i \in DOMAIN map.groups[t]} :
                    t \in DOMAIN map.groups}

FieldsOf(msg) == AllFields(msg.header) \cup AllFields(msg.body) \cup AllFields(msg.trailer)
BeforeChecksum(fields) ==
    1 .. (CHOOSE i \in DOMAIN fields :
              fields[i].tag = CHECK_SUM /\ \A j \in 1 .. i - 1 : fields[j].tag # CHECK_SUM) - 1
\* No tag of the message itself, and no tag that is let pass, arrived twice.
Once(arrived, msg, fields) ==
    \A t \in Tags(msg.header) \cup Tags(msg.body) \cup Tags(msg.trailer)
              \cup {f.tag : f \in {g \in fields : should_accept_unknown_user_defined(g.tag)}} :
        Cardinality({i \in BeforeChecksum(arrived) : arrived[i].tag = t}) <= 1

NothingLost ==
    LET ReadsAs(parsed, msg) == parsed.outcome = "Valid" /\ SameMessage(parsed.msg, msg)
        ReadsAgain(again) == ReadsAs(build(again.bytes), again.msg)
        Has(arrived, msg, fields) ==
            /\ fields \subseteq ToSet(arrived)
            /\ Once(arrived, msg, fields) =>
                   /\ \A i \in BeforeChecksum(arrived) : arrived[i] \in fields
                   /\ ReadsAgain(encoded(msg))
        Kept(arrived, parsed) ==
            parsed.outcome = "Valid" => Has(arrived, parsed.msg, FieldsOf(parsed.msg))
    IN  wire # <<>> => Kept(parse_fields(wire), build(wire))

(* A message that can be read back is resent as itself: the same body,     *)
(* sequence number and other header fields, now a possible duplicate that  *)
(* names the time it was first sent, in a message that can again be read.  *)
(* (A sending time the application wrote over with no time is lost.)       *)
ResentIsTheSame ==
    LET times  == {POSS_DUP_FLAG, ORIG_SENDING_TIME, SENDING_TIME, BODY_LENGTH}
        again  == {POSS_DUP_FLAG, ORIG_SENDING_TIME} \subseteq Tags(m.header)
                      /\ Raw(m.header, POSS_DUP_FLAG) = Yes
        Duplicate(header) ==
            /\ {f \in ToSet(header.fields) : f.tag \notin times}
                   = {f \in ToSet(m.header.fields) : f.tag \notin times}
            /\ Raw(header, POSS_DUP_FLAG) = Yes
            /\ Raw(header, SENDING_TIME) = ResentAt
            /\ Raw(header, ORIG_SENDING_TIME) =
                   Raw(m.header, IF again THEN ORIG_SENDING_TIME ELSE SENDING_TIME)
        Again(parsed) ==
            parsed.outcome = "Valid" /\ Same(parsed.msg.body, m.body) /\ Duplicate(parsed.msg.header)
    IN  resent # <<>> /\ Conforms(m) /\ Raw(m.header, SENDING_TIME) # Unparsable => Again(build(resent))
=============================================================================
