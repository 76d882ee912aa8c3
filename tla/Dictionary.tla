----------------------------- MODULE Dictionary -----------------------------
(***************************************************************************)
(* The data dictionary: reading a QuickFIX specification, and what the     *)
(* message builder and the code generator take from it.                    *)
(*                                                                         *)
(* A specification is a record of sequences of XML elements.  An element   *)
(* <field number=...> is [element, name, number]; an element of a layout   *)
(* is [element, name, required, children], with required = "" where the    *)
(* attribute is missing, and the element of a message also has a msgtype,  *)
(* a number here.                                                          *)
(* Reading fails (Failed) where the code returns an error or panics.       *)
(***************************************************************************)
EXTENDS Integers, Sequences, SequencesExt, TLC

CONSTANT Xml              \* the specification that is read

Empty == <<>>             \* the empty map
NoMsgType == 0            \* the attribute is missing
Failed == [ok |-> FALSE]

-----------------------------------------------------------------------------
(* Reading.  Elements are added one after the other, so the last one with  *)
(* a name, a number or a message type is the one that stays.               *)

Indexed(nodes, key(_), value(_)) ==
    [k \in {key(nodes[i]) : i \in DOMAIN nodes} |->
        value(nodes[CHOOSE i \in DOMAIN nodes :
                        key(nodes[i]) = k /\ \A j \in DOMAIN nodes : j > i => key(nodes[j]) # k])]

import_field(node) == node.element = "field" /\ node.name # "" /\ node.number >= 0
field_tags_by_name(xml) == Indexed(xml.fields, LAMBDA n : n.name, LAMBDA n : n.number)
fields_by_tags(xml) == Indexed(xml.fields, LAMBDA n : n.number, LAMBDA n : n.name)

\* What an element of a layout becomes, given the tags by name.
RECURSIVE import_layout_item(_, _)
import_layout_item(tags, node) ==
    LET items == [i \in DOMAIN node.children |-> import_layout_item(tags, node.children[i])]
        Item(kind, fields) == [ok |-> TRUE, kind |-> kind, required |-> node.required = "Y"] @@ fields
    IN  CASE node.name = "" \/ node.required = "" -> Failed
          [] node.element = "field" /\ node.name \in DOMAIN tags ->
                Item("Field", [tag |-> tags[node.name]])
          [] node.element = "component" ->
                Item("Component", [name |-> node.name])   \* a reference: it has "required"
          [] /\ node.element = "group"
             /\ node.name \in DOMAIN tags
             /\ \A i \in DOMAIN items : items[i].ok ->
                Item("Group", [tag |-> tags[node.name], items |-> items])
          [] OTHER -> Failed

import_layout(tags, node) ==
    [i \in DOMAIN node.children |-> import_layout_item(tags, node.children[i])]
AllOk(items) == \A i \in DOMAIN items : items[i].ok

\* An element with "required" refers to a component, and is passed over.
import_component(tags, nodes) ==
    Indexed(SelectSeq(nodes, LAMBDA n : n.required = ""),
            LAMBDA n : n.name, LAMBDA n : import_layout(tags, n))
import_message(tags, nodes) ==
    Indexed(nodes, LAMBDA n : n.msgtype, LAMBDA n : import_layout(tags, n))

from_quickfix_spec(xml) ==
    LET tags       == field_tags_by_name(xml)
        components == ("StandardTrailer" :> import_layout(tags, xml.trailer))
                        @@ ("StandardHeader" :> import_layout(tags, xml.header))
                        @@ import_component(tags, xml.components)
        by_msgtype == import_message(tags, xml.message_section)
    IN  IF /\ \A i \in DOMAIN xml.fields : import_field(xml.fields[i])
           /\ \A i \in DOMAIN xml.components : xml.components[i].name # ""
           /\ \A i \in DOMAIN xml.message_section :
                  xml.message_section[i].name # "" /\ xml.message_section[i].msgtype # NoMsgType
           /\ \A c \in DOMAIN components : AllOk(components[c])
           /\ \A t \in DOMAIN by_msgtype : AllOk(by_msgtype[t])
        THEN [ok |-> TRUE,
              dict |-> [fields_by_tags |-> fields_by_tags(xml), components_by_name |-> components,
                        messages_by_msgtype |-> by_msgtype]]
        ELSE Failed

-----------------------------------------------------------------------------
(* What the message builder takes from a dictionary: for every message the *)
(* fields of its layout with the components replaced by their own layout,  *)
(* and its groups, each with its fields and nested groups.  The components *)
(* a layout names must exist; whether a component itself is required makes *)
(* no difference to its fields.                                            *)

Concat(seqs) == FoldLeft(LAMBDA all, s : all \o s, <<>>, seqs)

RECURSIVE Resolves(_, _)
Resolves(dict, items) ==
    \A i \in DOMAIN items :
        CASE items[i].kind = "Component" ->
                /\ items[i].name \in DOMAIN dict.components_by_name
                /\ Resolves(dict, dict.components_by_name[items[i].name])
          [] items[i].kind = "Group" -> Resolves(dict, items[i].items)
          [] items[i].kind = "Field" -> TRUE

RECURSIVE extract_fields(_, _)
extract_fields(dict, items) ==
    Concat([i \in DOMAIN items |->
        IF items[i].kind = "Component"
        THEN extract_fields(dict, dict.components_by_name[items[i].name])
        ELSE <<[tag |-> items[i].tag, is_required |-> items[i].required]>>])

RECURSIVE extract_groups(_, _)
extract_groups(dict, items) ==
    FoldLeft(LAMBDA groups, item :
        CASE item.kind = "Component" ->
                extract_groups(dict, dict.components_by_name[item.name]) @@ groups
          [] item.kind = "Group" ->
                (item.tag :> [number_of_entries_tag |-> item.tag,
                              fields |-> extract_fields(dict, item.items),
                              nested_groups |-> extract_groups(dict, item.items)]) @@ groups
          [] item.kind = "Field" -> groups,
        Empty, items)

build_message_specifications(dict) ==
    [t \in DOMAIN dict.messages_by_msgtype |->
        [fields |-> extract_fields(dict, dict.messages_by_msgtype[t]),
         groups |-> extract_groups(dict, dict.messages_by_msgtype[t])]]

\* Only the fields of the component itself: a group of it is not one of its tags.
get_tags_for_component(dict, name) ==
    LET items == dict.components_by_name[name]
    IN  {items[i].tag : i \in {j \in DOMAIN items : items[j].kind = "Field"}}

(* The part of a message that a generated field definition belongs to. *)
location(dict, tag) ==
    CASE tag \in get_tags_for_component(dict, "StandardHeader") -> "header"
      [] tag \in get_tags_for_component(dict, "StandardTrailer")
            \ get_tags_for_component(dict, "StandardHeader") -> "trailer"
      [] OTHER -> "body"

dictionary == from_quickfix_spec(Xml).dict
header_tags == get_tags_for_component(dictionary, "StandardHeader")
trailer_tags == get_tags_for_component(dictionary, "StandardTrailer")
message_specification == build_message_specifications(dictionary)
=============================================================================
