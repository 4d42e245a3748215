----------------------------- MODULE XmlStruct ------------------------------
(***************************************************************************)
(* vs_xml_parser_new.c: reading XML into a C structure by a description of *)
(* its fields (xml2struct), and writing a structure as XML (struct2xml).   *)
(* expat calls start_xml, end_xml and chardatahandle; the parser keeps one *)
(* node per sub-structure met so far, and where in the outer structure the *)
(* sub-structure lies.  A document is what expat reports of it; a          *)
(* structure is a row of cells, one per leaf field; every tag carries a    *)
(* value of its own, its number, so that a value in a wrong cell is seen.  *)
(* Beside the parser a reader with a stack does what the description says. *)
(***************************************************************************)
EXTENDS Naturals, Sequences, SequencesExt, FiniteSets, FiniteSetsExt, TLC

CONSTANTS Rep,            \* elements of the arrays (the test has 3 and 8)
          MaxTags,        \* bound: tags of a document
          MaxFilled,      \* bounds: units of a structure to be written that
          MaxEmpty,       \* are filled, or else are not
          Roots           \* descriptions of the structures asked for

ASSUME XmlAssumption == Rep \in Nat \ {0, 1} /\ {MaxTags, MaxFilled, MaxEmpty} \subseteq Nat

VARIABLES root,           \* description of the structure asked for
          parser,         \* PARSER_FUN_PARAM: nodes in order of creation, the one worked on,
                          \* only_struct_index of the leaf arrays, the cells (0: untouched), ret_err
          tags,           \* number of tags so far
          open,           \* what the description says of each open tag
          reader,         \* a reader with a stack, for comparison
          written, mode,  \* the cells given to struct2xml, and how; <<>>: any document
          feed            \* what struct2xml has written and is still to be read

vars == <<root, parser, tags, open, reader, written, mode, feed>>

-----------------------------------------------------------------------------
(* Descriptions. *)

Leaf(name, rep) == [name |-> name, rep |-> rep, sub |-> "none"]
Sub(name, rep, sub) == [name |-> name, rep |-> rep, sub |-> sub]

(* The test's descriptions, find_sub_strcut_desc. *)
TestDesc == [
    Record |-> <<Leaf("BeginTime", 0), Leaf("EndTime", 0)>>,
    StoreRecord |-> <<Leaf("DevType", 0), Leaf("ID", 0), Sub("Record", Rep, "Record")>>,
    test_xml |-> <<Leaf("ID", Rep), Sub("StoreRecord", Rep, "StoreRecord"),
                   Sub("StoreRecord2", Rep, "StoreRecord")>>]

(* The daemon's: all_xml_find_desc.                                        *)
ProtocolDesc ==
    LET Leaves(names) == [i \in DOMAIN names |-> Leaf(names[i], 0)]
        Account(name) == Sub(name, 0, "s_opera_passwd")
        Asking(names) == <<Account("passwd")>> \o Leaves(names)
    IN  [s_member_node |-> Leaves(<<"ID", "name", "srcaddr", "srcmac", "srcport", "proto",
                                    "destaddr", "destmac", "destport">>),
         s_xml_test |-> Leaves(<<"DestAddr", "DestMac", "DestPort">>),
         s_opera_passwd |-> Leaves(<<"username", "password">>),
         s_passwd_set_req |-> <<Account("passwd"), Account("passwd_new")>>,
         s_passwd_del_req |-> Asking(<<"username">>),
         s_time_syn_req |-> Asking(<<"time_current">>),
         s_ip_get_res |-> Leaves(<<"ip_inner", "ip_outer">>),
         s_ip_set_req |-> Asking(<<"ip_inner", "ip_outer">>),
         s_hb_get_res |-> Leaves(<<"enabled", "pri_sec">>),
         s_hb_set_req |-> Asking(<<"enabled", "pri_sec">>),
         s_ip_rt_get_res |-> Leaves(<<"hb_rt_ip">>),
         s_ip_rt_set_req |-> Asking(<<"hb_rt_ip">>),
         s_rtv_str_req |-> Asking(<<"flag_start">>)]

Desc == TestDesc @@ ProtocolDesc

IsStruct(f) == f.sub # "none"
Times(f) == IF f.rep > 1 THEN f.rep ELSE 1
FieldNo(d, name) ==
    LET found == {i \in DOMAIN Desc[d] : Desc[d][i].name = name}
    IN  IF found = {} THEN 0 ELSE Min(found)

(* Cells of a field, and where field i of a structure begins.              *)
Size(f) == CASE f.sub = "none" -> 1
             [] f.sub \in {"Record", "s_opera_passwd"} -> 2
             [] f.sub = "StoreRecord" -> 2 + 2 * Rep
Offsets == [d \in DOMAIN Desc |->
               [i \in 1..(Len(Desc[d]) + 1) |->
                   FoldLeft(+, 0, [k \in 1..(i - 1) |-> Times(Desc[d][k]) * Size(Desc[d][k])])]]
Offset(d, i) == Offsets[d][i]

AllCells == 0..(Offset("test_xml", 4) - 1)

-----------------------------------------------------------------------------
(* The parser.  A field number 0 stands for -1, "not found"; memset makes  *)
(* that of a new node 1, the first field.                                  *)

NewNode(d, name, offset, parent, inParent, loop) ==
    [desc |-> d, name |-> name, offset |-> offset, parent |-> parent, inParent |-> inParent,
     loop |-> loop, count |-> 0, field |-> 1, gotten |-> FALSE,
     next |-> 0, firstPrev |-> 0, subfirst |-> 0]

Fresh(d) == [nodes |-> <<[NewNode(d, "", 0, 0, 0, 0) EXCEPT !.field = 0]>>, current |-> 1,
          index |-> [e \in DOMAIN Desc |-> [i \in DOMAIN Desc[e] |-> 0]],
          out |-> [c \in AllCells |-> 0], err |-> {}]

(* find_xml_value: v into field i of the current structure, or into the    *)
(* next element of a leaf array; nothing is stored for a structure.        *)
FindXmlValue(s, i, v) ==
    LET node == s.nodes[s.current]
        f == Desc[node.desc][i]
        at == node.offset + Offset(node.desc, i)
        k == s.index[node.desc][i]
    IN  IF IsStruct(f) THEN s
        ELSE IF f.rep <= 1 THEN [s EXCEPT !.out[at] = v]
        ELSE IF k >= f.rep THEN [s EXCEPT !.index[node.desc][i] = @ + 1, !.err = @ \cup {"array less"}]
        ELSE [s EXCEPT !.index[node.desc][i] = @ + 1, !.out[at + k] = v]

Attributes(s, attrs) ==
    LET Put(t, a) == LET i == FieldNo(t.nodes[t.current].desc, a[1])
                     IN  IF i = 0 THEN t ELSE FindXmlValue(t, i, a[2])
    IN  FoldLeft(Put, s, attrs)

Siblings_FirstOnly(ns, p) == IF p = 0 THEN <<>> ELSE <<p>>
RECURSIVE Siblings(_, _)
Siblings(ns, p) == IF p = 0 THEN <<>> ELSE <<p>> \o Siblings(ns, ns[p].next)

NotFound(s) == [s EXCEPT !.nodes[s.current].field = 0]

(* Rule 2: search whether the structure is there already, if so append.    *)
EnterStruct(s, i, el) ==
    LET up == s.nodes[s.current]
        f == Desc[up.desc][i]
        sibs == Siblings(s.nodes, up.subfirst)
        same == {k \in DOMAIN sibs : s.nodes[sibs[k]].name = el}
        prev == sibs[Max(same)]
        new == Len(s.nodes) + 1
        first == IF sibs = <<>> THEN new ELSE s.nodes[sibs[1]].firstPrev
        loop == IF same = {} THEN 1 ELSE s.nodes[prev].loop + 1
        node == NewNode(f.sub, el,
                        IF same = {} THEN up.offset + Offset(up.desc, i)
                        ELSE s.nodes[prev].offset + Size(f),
                        s.current, i, loop)
        after == IF same # {} THEN prev ELSE IF sibs = <<>> THEN 0 ELSE Last(sibs)
        linked == [k \in 1..new |->
                     IF k = new THEN [node EXCEPT !.firstPrev = first]
                     ELSE IF k = after THEN [s.nodes[k] EXCEPT !.next = new]
                     ELSE IF k = s.current /\ sibs = <<>> THEN [s.nodes[k] EXCEPT !.subfirst = new]
                     ELSE s.nodes[k]]
    IN  IF same # {} /\ s.nodes[s.nodes[prev].firstPrev].count >= f.rep
        THEN [NotFound(s) EXCEPT !.err = @ \cup {"array less"}]
        ELSE [s EXCEPT !.nodes = [linked EXCEPT ![first].count = loop], !.current = new]

StartXml(s, el, attrs) ==
    LET i == FieldNo(s.nodes[s.current].desc, el)
        at == [s EXCEPT !.nodes[s.current] = [@ EXCEPT !.field = i, !.gotten = FALSE]]
    IN  IF i = 0 \/ ~IsStruct(Desc[s.nodes[s.current].desc][i]) THEN Attributes(at, attrs)
        ELSE LET in == EnterStruct(at, i, el)
             IN  IF in.current = s.current THEN in ELSE Attributes(in, attrs)

EndXml(s) ==
    LET node == s.nodes[s.current]
    IN  IF node.field = 0 \/ node.parent = 0 THEN s ELSE [s EXCEPT !.current = node.parent]

CharDataHandle(s, v) ==
    LET node == s.nodes[s.current]
    IN  IF node.field = 0 \/ node.parent # 0 \/ node.gotten THEN s
        ELSE [FindXmlValue(s, node.field, v) EXCEPT !.nodes[s.current].gotten = TRUE]

(* One callback of expat.                                                  *)
Callback(s, event) ==
    CASE event.kind = "start" -> StartXml(s, event.el, event.attrs)
      [] event.kind = "text"  -> CharDataHandle(s, event.value)
      [] event.kind = "end"   -> EndXml(s)

StartTag(el, attrs) == [kind |-> "start", el |-> el, attrs |-> attrs]
Text(v) == [kind |-> "text", value |-> v]
EndTag == [kind |-> "end"]

-----------------------------------------------------------------------------
(* struct2xml: the callbacks the text it writes will cause.  Fields are    *)
(* attributes up to the first one that has to be an element; a sub-        *)
(* structure is written under the name of its description, not of its      *)
(* field, and one without any value not at all.                            *)

FirstElement_ArraysAsAttributes(d) ==
    Min({i \in DOMAIN Desc[d] : IsStruct(Desc[d][i])} \cup {Len(Desc[d]) + 1})
FirstElement(d) ==
    IF mode \cap {"FULL_CLOSE", "LIST_SHOW"} # {} THEN 1
    ELSE Min({i \in DOMAIN Desc[d] : IsStruct(Desc[d][i]) \/ Desc[d][i].rep > 1}
             \cup {Len(Desc[d]) + 1})

(* One value, unless it is an empty one that is not to be shown.           *)
LeafXml(f, v, attribute) ==
    IF v = 0 /\ "SHOW_INT_0" \notin mode THEN <<>>
    ELSE IF attribute THEN <<<<f.name, v>>>>
    ELSE <<StartTag(f.name, <<>>), Text(v), EndTag>>

RECURSIVE MakeXmlString(_, _, _)
MakeXmlString(cells, d, offset) ==
    LET At(i, j) == offset + Offset(d, i) + j * Size(Desc[d][i])
        Attribute(i) == LeafXml(Desc[d][i], cells[At(i, 0)], TRUE)
        Element(i, j) == IF IsStruct(Desc[d][i]) THEN MakeXmlString(cells, Desc[d][i].sub, At(i, j))
                         ELSE LeafXml(Desc[d][i], cells[At(i, j)], FALSE)
        Elements(i) == FoldLeft(LAMBDA t, j : t \o Element(i, j), <<>>,
                                [k \in 1..Times(Desc[d][i]) |-> k - 1])
        All(Of(_), from, to) == FoldLeft(LAMBDA t, i : t \o Of(i), <<>>,
                                         [k \in 1..(to - from + 1) |-> from + k - 1])
        attrs == All(Attribute, 1, FirstElement(d) - 1)
        inside == All(Elements, FirstElement(d), Len(Desc[d]))
    IN  IF attrs = <<>> /\ inside = <<>> THEN <<>>
        ELSE <<StartTag(d, attrs)>> \o inside \o <<EndTag>>

Struct2Xml(cells) ==
    IF "HAVE_TITLE" \in mode
    THEN <<StartTag("Message", <<>>)>> \o MakeXmlString(cells, root, 0) \o <<EndTag>>
    ELSE MakeXmlString(cells, root, 0)

(* The structures to be written: any elements of any arrays may be filled, *)
(* StoreRecord2 too, as in the test.  A unit is an element of an array of  *)
(* leaves, or all other leaves of a structure; few units are filled, or    *)
(* all but a few.                                                          *)
RECURSIVE Units(_, _)
Units(d, offset) ==
    LET Cells(i) == {offset + Offset(d, i) + k * Size(Desc[d][i]) : k \in 0..(Times(Desc[d][i]) - 1)}
        single == {i \in DOMAIN Desc[d] : ~IsStruct(Desc[d][i]) /\ Desc[d][i].rep <= 1}
        arrays == {i \in DOMAIN Desc[d] : ~IsStruct(Desc[d][i])} \ single
    IN  ({UNION {Cells(i) : i \in single}} \ {{}})
        \cup UNION {{{c} : c \in Cells(i)} : i \in arrays}
        \cup UNION {UNION {Units(Desc[d][i].sub, at) : at \in Cells(i)} :
                       i \in {k \in DOMAIN Desc[d] : IsStruct(Desc[d][k])}}
Filled(units) == [c \in AllCells |-> IF c \in UNION units THEN c + 1 ELSE 0]
Structures(d) ==
    LET units == Units(d, 0)
        UpTo(n) == UNION {kSubset(k, units) : k \in 0..n}
    IN  {Filled(few) : few \in UpTo(MaxFilled)} \cup {Filled(units \ few) : few \in UpTo(MaxEmpty)}

-----------------------------------------------------------------------------
(* The reader: a frame for every open structure, with the elements of each *)
(* field so far and the fields in the order in which they were met.        *)

Frame(d, offset) == [desc |-> d, offset |-> offset, count |-> [i \in DOMAIN Desc[d] |-> 0], met |-> <<>>]
Top == Last(reader.frames)
Depth == Len(reader.frames)

Meaning(i) == IF i = 0 THEN "unknown"
              ELSE IF ~IsStruct(Desc[Top.desc][i]) THEN "leaf"
              ELSE IF Top.count[i] < Times(Desc[Top.desc][i]) THEN "struct" ELSE "excess"

(* v into field i of the innermost structure.                              *)
Store(r, i, v) ==
    LET top == Last(r.frames)
        n == top.count[i]
        counted == [r EXCEPT !.frames[Len(r.frames)].count[i] = @ + 1]
    IN  IF Desc[top.desc][i].rep > 1 /\ n >= Desc[top.desc][i].rep THEN [r EXCEPT !.less = TRUE]
        ELSE [counted EXCEPT !.cells[top.offset + Offset(top.desc, i)
                                     + (IF Desc[top.desc][i].rep > 1 THEN n ELSE 0)] = v]
StoreAll(r, attrs) ==
    LET Put(t, a) == LET i == FieldNo(Last(t.frames).desc, a[1]) IN IF i = 0 THEN t ELSE Store(t, i, a[2])
    IN  FoldLeft(Put, r, attrs)

Entered(r, i) ==
    LET top == Last(r.frames)
        new == Frame(Desc[top.desc][i].sub,
                     top.offset + Offset(top.desc, i) + top.count[i] * Size(Desc[top.desc][i]))
        met == IF top.met # <<>> /\ Last(top.met) = i THEN top.met ELSE Append(top.met, i)
    IN  [r EXCEPT !.frames = Append([@ EXCEPT ![Len(@)].count[i] = @ + 1, ![Len(@)].met = met], new)]

ReadStart(i, attrs) ==
    CASE Meaning(i) = "struct" -> [StoreAll(Entered(reader, i), attrs) EXCEPT !.waiting = 0]
      [] Meaning(i) = "leaf"   -> [StoreAll(reader, attrs) EXCEPT !.waiting = i]
      [] Meaning(i) = "excess" -> [reader EXCEPT !.waiting = 0, !.less = TRUE]
      [] OTHER                 -> [StoreAll(reader, attrs) EXCEPT !.waiting = 0]

(* The documents xml2struct is made for.  There is a tag around them; in a *)
(* sub-structure there are only the sub-structures of its description that *)
(* have room; fields that return after another one do so once, and with as *)
(* much room as that one; an element without a text is followed by a tag.  *)
RegularStart(i) ==
    /\ open = <<>> <=> tags = 0
    /\ tags = 0 => i = 0
    /\ tags # 0 => Last(open) \notin {"leaf", "excess"}
    /\ Depth > 1 => Meaning(i) = "struct"
    /\ Meaning(i) \in {"struct", "excess"} /\ Top.met # <<>> /\ Last(Top.met) # i =>
           /\ Len(Top.met) < 3
           /\ i \in Range(Top.met) =>
                  (Meaning(i) = "excess" <=> Top.count[Last(Top.met)] >= Times(Desc[Top.desc][Last(Top.met)]))

-----------------------------------------------------------------------------
FieldNames(d) == {Desc[d][i].name : i \in DOMAIN Desc[d]}
Parts(d) == {Desc[d][i].sub : i \in DOMAIN Desc[d]} \ {"none"}
Names == LET used == {root} \cup Parts(root) \cup UNION {Parts(d) : d \in Parts(root)}
         IN  {"Message"} \cup UNION {FieldNames(d) : d \in used}
Blank == MaxTags + 1      \* the text between two tags
LeavesOf(d) == SelectSeq(Desc[d], LAMBDA f : ~IsStruct(f))
AttributesFor(i, v) ==
    LET d == IF Meaning(i) = "struct" THEN Desc[Top.desc][i].sub ELSE Top.desc
    IN  {<<>>, [k \in DOMAIN LeavesOf(d) |-> <<LeavesOf(d)[k].name, v>>]}

Init ==
    /\ root \in Roots /\ parser = Fresh(root)
    /\ tags = 0 /\ open = <<>>
    /\ reader = [frames |-> <<Frame(root, 0)>>, cells |-> [c \in AllCells |-> 0],
                 less |-> FALSE, waiting |-> 0]
    /\ \/ written = <<>> /\ mode = {} /\ feed = <<>>
       \/ /\ written \in Structures(root)
          /\ mode \in {{"ATTRIB_SHOW"}, {"ATTRIB_SHOW", "HAVE_TITLE"}}
          /\ feed = Struct2Xml(written)

Start(el) ==
    LET i == FieldNo(Top.desc, el)
    IN  /\ written = <<>> /\ tags < MaxTags /\ RegularStart(i)
        /\ \E attrs \in AttributesFor(i, tags + 1) :
              /\ parser' = Callback(parser, StartTag(el, attrs))
              /\ reader' = ReadStart(i, attrs)
        /\ open' = Append(open, Meaning(i))
        /\ tags' = tags + 1
        /\ UNCHANGED <<root, written, mode, feed>>

TextOrBlank(v) ==
    /\ written = <<>> /\ open # <<>>
    /\ reader.waiting # 0 => Last(open) = "leaf" /\ v # Blank
    /\ parser' = Callback(parser, Text(v))
    /\ reader' = IF reader.waiting = 0 THEN reader
                 ELSE [Store(reader, reader.waiting, v) EXCEPT !.waiting = 0]
    /\ UNCHANGED <<root, tags, open, written, mode, feed>>

End ==
    /\ written = <<>> /\ open # <<>>
    /\ parser' = Callback(parser, EndTag)
    /\ reader' = IF Last(open) = "struct" THEN [reader EXCEPT !.frames = Front(@), !.waiting = 0] ELSE reader
    /\ open' = Front(open)
    /\ UNCHANGED <<root, tags, written, mode, feed>>

ReadWritten ==
    /\ feed # <<>>
    /\ parser' = Callback(parser, Head(feed))
    /\ feed' = Tail(feed)
    /\ UNCHANGED <<root, tags, open, reader, written, mode>>

Next ==
    \/ \E el \in Names : Start(el)
    \/ \E v \in {tags, Blank} : TextOrBlank(v)
    \/ End
    \/ ReadWritten

Spec == Init /\ [][Next]_vars

-----------------------------------------------------------------------------
(* Of such a document every value is in the cell of the field, of the      *)
(* element and of the structure it was written for, no other cell is       *)
(* touched, and too many elements of an array are an error: although the   *)
(* parser has no stack, and finds its place from the siblings before.      *)
ReadsAsWritten ==
    written = <<>> => /\ parser.out = reader.cells
                      /\ parser.err = IF reader.less THEN {"array less"} ELSE {}

(* A field's elements that are not empty, each as the sequence of its      *)
(* cells; and a structure's cells after writing and reading.  A field is   *)
(* given the elements written under its name, in order and without gaps:   *)
(* a sub-structure goes by the name of its description when it is written  *)
(* and by that of its field when it is read.                               *)
RECURSIVE Elements(_, _, _, _), ReadBack(_, _, _)
Elements(cells, d, offset, i) ==
    LET f == Desc[d][i]
        Element(k) == LET at == offset + Offset(d, i) + (k - 1) * Size(f)
                      IN  IF IsStruct(f) THEN ReadBack(cells, f.sub, at) ELSE <<cells[at]>>
    IN  SelectSeq([k \in 1..Times(f) |-> Element(k)], LAMBDA e : Range(e) # {0})
WrittenAs(cells, d, offset, name) ==
    FlattenSeq([k \in DOMAIN Desc[d] |->
        IF (IF IsStruct(Desc[d][k]) THEN Desc[d][k].sub ELSE Desc[d][k].name) = name
        THEN Elements(cells, d, offset, k) ELSE <<>>])
ReadBack(cells, d, offset) ==
    LET Field(f) ==
            LET given == FlattenSeq(WrittenAs(cells, d, offset, f.name))
                room == Times(f) * Size(f)
            IN  SubSeq(given \o [n \in 1..room |-> 0], 1, room)
    IN  FlattenSeq([i \in DOMAIN Desc[d] |-> Field(Desc[d][i])])

TooMany == \E i \in DOMAIN Desc[root] :
    Len(WrittenAs(written, root, 0, Desc[root][i].name)) > Times(Desc[root][i])

WasRead == written # <<>> /\ feed = <<>>

(* What struct2xml writes with attributes, xml2struct reads back: the      *)
(* values of a field in their order, the gaps in its arrays closed, where  *)
(* sub-structure and description have one name.  StoreRecord2 comes back   *)
(* as further StoreRecords, too many of them being an error, and the       *)
(* accounts of the daemon's requests do not come back at all (Roots are    *)
(* the descriptions whose fields have other names than an account's).      *)
RoundTrip ==
    WasRead =>
        LET read == ReadBack(written, root, 0)
        IN  /\ parser.out = [c \in AllCells |-> IF c < Len(read) THEN read[c + 1] ELSE 0]
            /\ parser.err = IF TooMany THEN {"array less"} ELSE {}

(* The XML generated from a structure is that structure's (the test prints *)
(* it as such): every field gets its own elements back.                    *)
FieldsKeepTheirValues ==
    WasRead => \A i \in DOMAIN Desc[root] :
        Elements(parser.out, root, 0, i) = Elements(written, root, 0, i)
=============================================================================
