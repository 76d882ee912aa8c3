------------------------------- MODULE MCData -------------------------------
(***************************************************************************)
(* The parts that stand alone, one at a time: the schedule, the values of  *)
(* fields, framing and messages.  The variables of the parts that are not  *)
(* in question stay as they are.                                           *)
(***************************************************************************)
EXTENDS Schedule, FieldTypes, Framing, Messages

VARIABLE part

\* Zones: UTC, a clock put forward, a clock put back, and one put back more
\* than a week and a day after the first creation times.
MCTimezones ==
    {UTC, [before |-> 1, after |-> 2, at |-> 40], [before |-> 2, after |-> 1, at |-> 41],
     [before |-> 2, after |-> 1, at |-> 46]}

-----------------------------------------------------------------------------
MCDates == {Date(0, 1, 1), Date(2024, 2, 31), Date(9999, 12, 31)}
MCTimes == {from_hmsm(0, 0, 0, 0), from_hmsm(23, 59, 60, 999), from_hmsm(9, 10, 5, 42)}
MonthYear(year, month, week, n) ==
    [ok |-> TRUE, year |-> year, month |-> month, week |-> week, day_or_week |-> n]
Ints(ns) == {Int_(n) : n \in ns}

\* The ends of every range, and values that need leading zeros.
MCValues ==
    [k \in {"date", "time", "timestamp", "monthyear", "tz", "checksum", "unsigned", "signed",
            "tag", "bool", "enum", "chars", "strings"} |->
        CASE k = "date" -> MCDates
          [] k = "time" -> MCTimes
          [] k = "timestamp" -> {Timestamp(Date(2024, 2, 29), from_hmsm(9, 10, 5, 42)),
                                 Timestamp(Date(9999, 12, 31), from_hmsm(23, 59, 60, 999))}
          [] k = "monthyear" -> {MonthYear(2024, 12, TRUE, 5), MonthYear(1, 0, FALSE, 31)}
          [] k = "tz" -> {Tz(60 * n) : n \in {0, 270, -60, -30, 99 * 60 + 59}}
          [] k = "checksum" -> {CheckSum(n) : n \in {0, 9, 10, 99, 100, 255}}
          [] k = "unsigned" -> Ints({0, 9, 10, 255})
          [] k = "signed" -> Ints({-128, -1, 0, 10, 127})
          [] k = "tag" -> Ints({1, 10, 255})
          [] k = "bool" -> {Bool(TRUE), Bool(FALSE)}
          [] k = "enum" -> {Variant(<<65>>), Variant(<<65, 69>>), Variant(<<48>>)}
          [] k = "chars" -> {Several(<<>>), Several(<<<<65>>, <<66>>>>), Several(<<<<65>>, <<66>>, <<67>>>>)}
          [] k = "strings" -> {Several(<<>>), Several(<<<<65>>, <<66, 67>>>>)}]

\* Space + - . 0 1 2 5 9 : A N Y Z w, and the last byte
MCSampleBytes == {32, 43, 45, 46, 48, 49, 50, 53, 57, 58, 65, 78, 89, 90, 119, 255}

-----------------------------------------------------------------------------
\* Messages without a body, with one that looks like a header, and with one
\* that ends like a message.
RawMessage(digits, body) ==
    <<56, 61, 70, 1, 57, 61>> \o digits \o <<1>> \o body \o <<49, 48, 61, 48, 48, 48, 1>>
MCRawMessages ==
    {RawMessage(<<48>>, <<>>), RawMessage(<<51>>, <<57, 61, 1>>),
     RawMessage(<<49, 50>>, <<51, 53, 61, 65, 1, 49, 48, 61, 48, 48, 48, 1>>)}
MCStreams == {<<a, b>> : a, b \in MCRawMessages} \cup {<<a, a, a>> : a \in MCRawMessages}

-----------------------------------------------------------------------------
\* The session messages, and one of an application with a component that
\* holds a group that holds a group, and one that holds a required field.
FieldNode(name, number) == [element |-> "field", name |-> name, number |-> number]
Node(element, name, required, children) ==
    [element |-> element, name |-> name, required |-> required, children |-> children]
Opt(name) == Node("field", name, "N", <<>>)
Req(name) == Node("field", name, "Y", <<>>)
Msg(type, children) ==
    [element |-> "message", name |-> "m", required |-> "", children |-> children, msgtype |-> type]
Opts(names) == [i \in DOMAIN names |-> Opt(names[i])]
MCXml ==
    [fields |-> <<FieldNode("BeginString", 8), FieldNode("BodyLength", 9), FieldNode("MsgType", 35), FieldNode("MsgSeqNum", 34),
        FieldNode("SenderCompID", 49), FieldNode("TargetCompID", 56), FieldNode("SendingTime", 52), FieldNode("PossDupFlag", 43),
        FieldNode("OrigSendingTime", 122), FieldNode("CheckSum", 10), FieldNode("SignatureLength", 93),
        FieldNode("EncryptMethod", 98), FieldNode("HeartBtInt", 108), FieldNode("ResetSeqNumFlag", 141), FieldNode("NextExpectedMsgSeqNum", 789),
        FieldNode("TestReqID", 112), FieldNode("BeginSeqNo", 7), FieldNode("EndSeqNo", 16), FieldNode("RefSeqNum", 45), FieldNode("RefTagID", 371),
        FieldNode("RefMsgType", 372), FieldNode("SessionRejectReason", 373), FieldNode("Text", 58), FieldNode("GapFillFlag", 123),
        FieldNode("NewSeqNo", 36), FieldNode("BusinessRejectReason", 380), FieldNode("ClOrdID", 11), FieldNode("Symbol", 55),
        FieldNode("NoPartyIDs", 453), FieldNode("PartyID", 448), FieldNode("PartyRole", 452), FieldNode("PartyIDSource", 447),
        FieldNode("NoPartySubIDs", 802), FieldNode("PartySubID", 523), FieldNode("PartySubIDType", 803)>>,
     components |-> <<
        Node("component", "Parties", "",
          <<Node("group", "NoPartyIDs", "N",
              <<Opt("PartyID"), Opt("PartyIDSource"), Req("PartyRole"),
                Node("group", "NoPartySubIDs", "N", <<Opt("PartySubID"), Opt("PartySubIDType")>>)>>)>>),
        Node("component", "Instrument", "", <<Req("Symbol")>>)>>,
     message_section |-> <<
        Msg(65, Opts(<<"EncryptMethod", "HeartBtInt", "ResetSeqNumFlag", "NextExpectedMsgSeqNum">>)),
        Msg(48, Opts(<<"TestReqID">>)), Msg(49, Opts(<<"TestReqID">>)), Msg(50, Opts(<<"BeginSeqNo", "EndSeqNo">>)),
        Msg(51, Opts(<<"RefSeqNum", "RefTagID", "RefMsgType", "SessionRejectReason", "Text">>)),
        Msg(52, Opts(<<"GapFillFlag", "NewSeqNo">>)), Msg(53, Opts(<<"Text">>)),
        Msg(106, Opts(<<"RefSeqNum", "RefMsgType", "BusinessRejectReason", "Text">>)),
        Msg(68, <<Req("ClOrdID"), Node("component", "Parties", "N", <<>>), Node("component", "Instrument", "N", <<>>)>>)>>,
     header |-> Node("header", "", "", Opts(<<"BeginString", "BodyLength", "MsgType", "MsgSeqNum", "SenderCompID",
                     "TargetCompID", "SendingTime", "PossDupFlag", "OrigSendingTime">>)),
     trailer |-> Node("trailer", "", "", Opts(<<"SignatureLength", "CheckSum">>))]

MCEngineMessages == {Logon(30, Reset), Logon(30, NoReset(Absent)), Logon(30, NoReset(1)),
    Heartbeat(1), Heartbeat(Absent), TestRequest(1), ResendRequest(1, 2), Logout(1), Logout(Absent),
    SequenceReset(Yes, 3), Reject(1, Absent, Absent, 1, 1), Reject(1, 2, 3, Absent, Absent),
    BusinessReject(1, 2, Absent, Absent), BusinessReject(1, 2, 3, 4)}
MCAppFields == {Field(11, 1), Field(11, 2), Field(55, 1), Field(58, 1), Field(453, 1), Field(5001, 1),
                Field(43, Yes), Field(122, 0), Field(93, 1), Field(52, Unparsable)}
Entry(start, delimiter, fields, groups) ==
    RepeatingGroup(start, delimiter, [fields |-> fields, groups |-> groups])
Sub == <<Entry(802, 523, <<Field(523, 1), Field(803, 2)>>, Empty)>>
Role(x) == Field(452, x)
\* Entries that follow the layout, with and without a nested group and an
\* unknown field, and entries that do not: no count for the nested group, no
\* required field, fields out of order, no delimiter.
MCAppGroups ==
    {<<>>,
     <<Entry(453, 448, <<Field(448, 1), Role(1)>>, Empty)>>,
     <<Entry(453, 448, <<Field(448, 1), Field(447, 1), Role(1)>>, Empty), Entry(453, 448, <<Field(448, 2), Role(2)>>, Empty)>>,
     <<Entry(453, 448, <<Field(448, 1), Role(1), Field(802, 1)>>, 802 :> Sub), Entry(453, 448, <<Field(448, 2), Role(2)>>, Empty)>>,
     <<Entry(453, 448, <<Field(448, 1), Role(1)>>, 802 :> Sub)>>,
     <<Entry(453, 448, <<Field(448, 1), Role(1), Field(802, 1), Field(5001, 2)>>, 802 :> Sub)>>,
     <<Entry(453, 448, <<Field(448, 1), Role(1), Field(5001, 2)>>, Empty)>>,
     <<Entry(453, 448, <<Field(448, 1), Field(447, 1)>>, Empty)>>,
     <<Entry(453, 448, <<Field(448, 1), Role(1), Field(447, 1)>>, Empty)>>,
     <<Entry(453, 448, <<Role(1), Field(448, 1)>>, Empty)>>}
\* Tags of every part of a message, no tag at all, 3x, a byte below 0, and
\* one that wraps around to 35.
MCOtherTags ==
    {Decimal(t) : t \in {10, 35, 55, 93, 448, 453, 5001}}
        \cup {<<>>, <<51, 120>>, <<47>>, Decimal(2 ^ TagWidth + 35)}
MCAppMsgTypes == {68}

-----------------------------------------------------------------------------
IdleSchedule == schedule = NonStop /\ creation_time = FirstTick /\ now = FirstTick /\ unbroken = TRUE
IdleFields == ftype = "bool" /\ item = Bool(TRUE) /\ octets = <<89>> /\ altered = 0
IdleFraming == sent = <<>> /\ unread = <<>> /\ buffer = <<>> /\ delivered = <<>>

DInit ==
    /\ \/ part = "schedule" /\ SInit /\ IdleFields /\ IdleFraming
       \/ part = "fields" /\ IdleSchedule /\ FInit /\ IdleFraming
       \/ part = "framing" /\ IdleSchedule /\ IdleFields /\ PInit
       \/ part = "messages" /\ IdleSchedule /\ IdleFields /\ IdleFraming
    /\ MsgInit

DNext ==
    /\ \/ part = "schedule" /\ SNext /\ UNCHANGED <<fvars, pvars, mvars>>
       \/ part = "fields" /\ FNext /\ UNCHANGED <<svars, pvars, mvars>>
       \/ part = "framing" /\ PNext /\ UNCHANGED <<svars, fvars, mvars>>
       \/ part = "messages" /\ MsgNext /\ UNCHANGED <<svars, fvars, pvars>>
    /\ UNCHANGED part

DataSpec == DInit /\ [][DNext]_<<part, svars, fvars, pvars, mvars>>
=============================================================================
