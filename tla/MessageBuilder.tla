--------------------------- MODULE MessageBuilder ---------------------------
(***************************************************************************)
(* Messages: setting their fields, encoding them, and building them from   *)
(* what arrives.                                                           *)
(*                                                                         *)
(* A field is [tag, data] with numbers for data.  On the wire it is        *)
(* [text, data], with the bytes of the tag, and a message is a sequence of *)
(* such fields, each of length one: BodyLength counts fields.  The         *)
(* checksum is a sum over the fields, so that, as in the code, it does not *)
(* depend on their order.  Data that is no number is Unparsable, and data  *)
(* that is not even UTF-8 is NotText.                                      *)
(***************************************************************************)
EXTENDS Dictionary, Numerals

CONSTANTS validate_user_defined_fields,   \* of the configuration
          TagWidth                        \* bits of a tag: 32 in the code

BEGIN_STRING == 8
BODY_LENGTH == 9
CHECK_SUM == 10
MSG_TYPE == 35
USER_DEFINED_TAG_MIN == 5000
Unparsable == -1
NotText == -3

Field(tag, data) == [tag |-> tag, data |-> data]

-----------------------------------------------------------------------------
(* A part of a message: fields in the order of their first insertion, and  *)
(* groups of entries by the tag that counts them.                          *)

EmptyMap == [fields |-> <<>>, groups |-> Empty]
Tags(map) == {map.fields[i].tag : i \in DOMAIN map.fields}
Raw(map, tag) == map.fields[CHOOSE i \in DOMAIN map.fields : map.fields[i].tag = tag].data

store_field(map, field) ==
    IF field.tag \in Tags(map)
    THEN [map EXCEPT !.fields = [i \in DOMAIN @ |-> IF @[i].tag = field.tag THEN field ELSE @[i]]]
    ELSE [map EXCEPT !.fields = Append(@, field)]

pop(map, tag) == [map EXCEPT !.fields = SelectSeq(@, LAMBDA f : f.tag # tag)]

RepeatingGroup(start_tag, delimiter_tag, map) ==
    [start_tag |-> start_tag, delimiter_tag |-> delimiter_tag, map |-> map]

\* No entries, or entries of different groups, leave the part as it is.
set_groups(map, entries) ==
    LET tags == {<<entries[i].start_tag, entries[i].delimiter_tag>> : i \in DOMAIN entries}
    IN  IF \E t \in tags : tags = {t}
        THEN [map EXCEPT !.groups = (entries[1].start_tag :> entries) @@ @]
        ELSE map

\* Mutant: the fields of groups are not counted.
calculate_length_without_groups(map, skip) ==
    Len(SelectSeq(map.fields, LAMBDA f : f.tag \notin skip))

RECURSIVE calculate_length(_, _)
calculate_length(map, skip) ==
    Len(SelectSeq(map.fields, LAMBDA f : f.tag \notin skip))
        + MapThenSumSet(LAMBDA t : MapThenSumSet(LAMBDA i : calculate_length(map.groups[t][i].map, {}),
                                                 DOMAIN map.groups[t]),
                        DOMAIN map.groups)

NewMessage(begin_string, msg_type) ==
    [header |-> store_field(store_field(EmptyMap, Field(BEGIN_STRING, begin_string)),
                            Field(MSG_TYPE, msg_type)),
     body |-> EmptyMap, trailer |-> EmptyMap]

set(m, tag, data) == [m EXCEPT ![location(dictionary, tag)] = store_field(@, Field(tag, data))]

-----------------------------------------------------------------------------
(* Encoding.  A group is written behind the field that counts its entries. *)

OnWire(f) == [text |-> Decimal(f.tag), data |-> f.data]

RECURSIVE write(_, _)
write(map, pre_fields) ==
    LET write_field(f) ==
            <<OnWire(f)>> \o (IF f.tag \notin DOMAIN map.groups THEN <<>>
                              ELSE Concat([i \in DOMAIN map.groups[f.tag] |-> write(map.groups[f.tag][i].map, <<>>)]))
        first == SelectSeq([i \in DOMAIN pre_fields |->
                              IF pre_fields[i] \in Tags(map) THEN Field(pre_fields[i], Raw(map, pre_fields[i]))
                              ELSE Field(0, 0)], LAMBDA f : f.tag # 0)
        rest  == SelectSeq(map.fields, LAMBDA f : ~Contains(pre_fields, f.tag))
        all   == first \o rest
    IN  Concat([i \in DOMAIN all |-> write_field(all[i])])

compute(bytes) ==
    FoldLeft(LAMBDA sum, f : (FoldLeft(LAMBDA s, b : s + b, sum, f.text) + f.data) % 256, 0, bytes)

\* The message as encode leaves it: with its length and checksum set.
Sized(m) ==
    set(m, BODY_LENGTH, calculate_length(m.header, {BEGIN_STRING, BODY_LENGTH})
                          + calculate_length(m.body, {}) + calculate_length(m.trailer, {CHECK_SUM}))
Written(m) ==
    write(m.header, <<BEGIN_STRING, BODY_LENGTH, MSG_TYPE>>) \o write(m.body, <<>>) \o write(m.trailer, <<>>)
Summed(m, bytes, sum) == [msg |-> set(m, CHECK_SUM, sum), bytes |-> Append(bytes, OnWire(Field(CHECK_SUM, sum)))]
Sealed(m, bytes) == Summed(m, bytes, compute(bytes))
WithLength(m) == Sealed(m, Written(m))
encoded(m) == WithLength(Sized([m EXCEPT !.trailer = pop(@, CHECK_SUM)]))

encode(m) == encoded(m).bytes

-----------------------------------------------------------------------------
(* Building a message from what arrives.  The parser holds the position of *)
(* the field in hand; there is none behind the last one, nor where the tag *)
(* comes out as 0.  The outcome is Valid with the message, Invalid with a  *)
(* reason, Garbled, or a Panic.                                            *)

\* Any byte counts as a digit, and the sum wraps, as in a release build: 3x is
\* tag 102, and a tag of eleven digits may be any tag.  (With overflow checks
\* the bytes below 0 and the tags that do not fit are a panic.)
tag_from_bytes(text) == FoldLeft(LAMBDA tag, b : (tag * 10 + b - 48) % 2 ^ TagWidth, 0, text)

parse_fields(bytes) ==
    [i \in DOMAIN bytes |-> Field(tag_from_bytes(bytes[i].text), bytes[i].data)]

HasField(fields, pos) == pos \in DOMAIN fields /\ fields[pos].tag # 0
Is(fields, pos, tag) == HasField(fields, pos) /\ fields[pos].tag = tag
Outcome(kind, reason, m) == [outcome |-> kind, reason |-> reason, msg |-> m]
NoMessage == [header |-> EmptyMap, body |-> EmptyMap, trailer |-> EmptyMap]
Valid(m) == Outcome("Valid", "", m)
Garbled(reason) == Outcome("Garbled", reason, NoMessage)
Invalid(reason, header) == Outcome("Invalid", reason, [NoMessage EXCEPT !.header = header])

Stop(reason) == [ok |-> FALSE, reason |-> reason]
Malformed == Stop("Malformed")
Panic == Outcome("Panic", "MsgType", NoMessage)

verify_integrity(bytes, fields) ==
    LET n == IF Is(fields, 2, BODY_LENGTH) THEN fields[2].data ELSE Unparsable
        last == Len(fields)
    IN  CASE ~Is(fields, 1, BEGIN_STRING) -> "InvalidBeginString"
          [] Is(fields, 1, BEGIN_STRING) /\ (n = Unparsable \/ last # 2 + n + 1) -> "InvalidBodyLength"
          [] OTHER ->
                IF \/ ~Is(fields, last, CHECK_SUM)
                   \/ /\ fields[last].data # Unparsable
                      /\ fields[last].data # compute(SubSeq(bytes, 1, last - 1))
                THEN "InvalidChecksum"
                ELSE IF ~Is(fields, 3, MSG_TYPE) THEN "InvalidMsgType" ELSE "Ok"

RECURSIVE build_header(_, _, _)
build_header(header, fields, pos) ==
    IF ~HasField(fields, pos) THEN Malformed @@ [header |-> header]
    ELSE IF fields[pos].tag \in header_tags
         THEN build_header(store_field(header, fields[pos]), fields, pos + 1)
         ELSE IF Raw(header, MSG_TYPE) = NotText THEN Stop("Panic")   \* an expect
         ELSE IF Raw(header, MSG_TYPE) \notin DOMAIN message_specification
              THEN Stop("InvalidMsgType") @@ [header |-> header]
              ELSE [ok |-> TRUE, header |-> header, pos |-> pos]

should_accept_unknown_user_defined(tag) ==
    /\ ~validate_user_defined_fields
    /\ tag >= USER_DEFINED_TAG_MIN
    /\ tag \notin DOMAIN dictionary.fields_by_tags

TagsOf(spec) == {spec.fields[i].tag : i \in DOMAIN spec.fields}
delimiter_tag(spec) == spec.fields[1].tag
position(spec, tag) == CHOOSE i \in DOMAIN spec.fields :
                           spec.fields[i].tag = tag /\ \A j \in 1 .. i - 1 : spec.fields[j].tag # tag

\* The entries so far, the last one still open, the next position of its
\* layout and the field in hand.
RECURSIVE parse_entries(_, _, _, _, _)
\* The last field stored opens a nested group.
with_nested(fields, spec, entries, next, nested) ==
    IF ~nested.ok THEN nested
    ELSE parse_entries(fields, nested.pos, spec,
             [entries EXCEPT ![Len(entries)].map = set_groups(@, nested.entries)], next)

with_field(fields, pos, spec, entries, next) ==
    IF fields[pos].tag \notin DOMAIN spec.nested_groups
    THEN parse_entries(fields, pos + 1, spec, entries, next)
    ELSE with_nested(fields, spec, entries, next,
             parse_entries(fields, pos + 1, spec.nested_groups[fields[pos].tag], <<>>, 1))

parse_entries(fields, pos, spec, entries, next) ==
    LET tag    == fields[pos].tag
        stored == [entries EXCEPT ![Len(entries)].map = store_field(@, fields[pos])]
        fresh  == RepeatingGroup(spec.number_of_entries_tag, delimiter_tag(spec),
                                 store_field(EmptyMap, fields[pos]))
    IN  CASE ~HasField(fields, pos) -> Malformed
          [] HasField(fields, pos) /\ tag = delimiter_tag(spec) ->
                parse_entries(fields, pos + 1, spec, Append(entries, fresh), 2)
          [] HasField(fields, pos) /\ tag # delimiter_tag(spec) /\ entries = <<>> ->
                Stop("InvalidOrderInGroup")
          [] HasField(fields, pos) /\ tag \in TagsOf(spec) \ {delimiter_tag(spec)} /\ entries # <<>> ->
                IF position(spec, tag) < next THEN Stop("InvalidOrderInGroup")
                ELSE with_field(fields, pos, spec, stored, position(spec, tag) + 1)
          [] OTHER ->
                IF should_accept_unknown_user_defined(tag)
                THEN parse_entries(fields, pos + 1, spec, stored, next)
                ELSE [ok |-> TRUE, entries |-> entries, pos |-> pos]

parse_groups(fields, pos, spec) == parse_entries(fields, pos, spec, <<>>, 1)

RECURSIVE has_required_fields(_, _)
has_required_fields(entries, spec) ==
    \A i \in DOMAIN entries :
        /\ \A j \in DOMAIN spec.fields :
               spec.fields[j].is_required => spec.fields[j].tag \in Tags(entries[i].map)
        /\ \A t \in DOMAIN spec.nested_groups \cap DOMAIN entries[i].map.groups :
               has_required_fields(entries[i].map.groups[t], spec.nested_groups[t])

RECURSIVE build_body(_, _, _, _)
\* A group of the body, and the check of the fields it requires.
with_groups(spec, group, body, fields, groups) ==
    IF ~groups.ok THEN groups
    ELSE IF ~has_required_fields(groups.entries, group) THEN Stop("RequiredFieldMissing")
    ELSE build_body(spec, set_groups(body, groups.entries), fields, groups.pos)

build_body(spec, body, fields, pos) ==
    LET tag    == fields[pos].tag
        stored == store_field(body, fields[pos])
    IN  CASE ~HasField(fields, pos) -> Malformed
          [] HasField(fields, pos) /\ tag \in TagsOf(spec) /\ tag \in DOMAIN spec.groups ->
                with_groups(spec, spec.groups[tag], stored, fields,
                            parse_groups(fields, pos + 1, spec.groups[tag]))
          [] HasField(fields, pos) /\ tag \in TagsOf(spec) /\ tag \notin DOMAIN spec.groups ->
                build_body(spec, stored, fields, pos + 1)
          [] HasField(fields, pos) /\ tag \notin TagsOf(spec) ->
                IF should_accept_unknown_user_defined(tag)
                THEN build_body(spec, stored, fields, pos + 1)
                ELSE IF tag \notin trailer_tags THEN Stop("InvalidField")
                ELSE [ok |-> TRUE, body |-> body, pos |-> pos]

\* Mutant: only the checksum is kept.
build_trailer_checksum(trailer, fields, pos) == trailer

RECURSIVE build_trailer(_, _, _)
build_trailer(trailer, fields, pos) ==
    IF ~HasField(fields, pos) \/ Is(fields, pos, CHECK_SUM) THEN trailer
    ELSE build_trailer(store_field(trailer, fields[pos]), fields, pos + 1)

\* What is left of an invalid message is its header.
parser_error_to_parsed_message(reason, header) ==
    IF reason = "Malformed" THEN Garbled("Malformed") ELSE Invalid(reason, header)

with_body(fields, header, body) ==
    IF ~body.ok THEN parser_error_to_parsed_message(body.reason, header)
    ELSE Valid([header |-> header, body |-> body.body,
                trailer |-> build_trailer(store_field(EmptyMap, fields[Len(fields)]), fields, body.pos)])

with_header(fields, header) ==
    IF ~header.ok /\ header.reason = "Panic" THEN Panic
    ELSE IF ~header.ok THEN parser_error_to_parsed_message(header.reason, header.header)
    ELSE with_body(fields, header.header,
             build_body(message_specification[Raw(header.header, MSG_TYPE)], EmptyMap, fields, header.pos))

build_fields(bytes, fields) ==
    IF verify_integrity(bytes, fields) # "Ok" THEN Garbled(verify_integrity(bytes, fields))
    ELSE with_header(fields, build_header(FoldLeft(store_field, EmptyMap, SubSeq(fields, 1, 3)), fields, 4))

build(bytes) == build_fields(bytes, parse_fields(bytes))
=============================================================================
