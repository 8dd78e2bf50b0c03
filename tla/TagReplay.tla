------------------------------ MODULE TagReplay ------------------------------
(***************************************************************************)
(* Two users of an element's namespaces: one that makes any call, and the  *)
(* pair testbuilder | gotester, which takes a start tag apart into the     *)
(* commands that should write it again (testbuilder.c, xml_elem_start).    *)
(*                                                                         *)
(*   src     the start tag that expat has read, or Free for the user that  *)
(*           makes calls of its own,                                       *)
(*   script  the calls that are still to be made.                          *)
(***************************************************************************)
EXTENDS Namespaces, SequencesExt

ASSUME TagReplayAssumption == "free" \notin NsPrefixes

VARIABLES src, script

vars == <<elem, tag, err, refused, src, script>>

Free == [prefix |-> "free", atts |-> <<>>]

Att(prefix, name, value) == [prefix |-> prefix, name |-> name, value |-> value]

(* An attribute xmlns:p has a URI for its value; expat refuses a start tag *)
(* that has an attribute twice.                                            *)
Atts == [prefix : {"xmlns"}, name : NsPrefixes, value : URIs]
        \cup [prefix : NsPrefixes \cup {Empty}, name : Names, value : {Empty}]

Distinct(atts) == \A i, j \in DOMAIN atts :
  atts[i].prefix = atts[j].prefix /\ atts[i].name = atts[j].name => i = j

StartTags == {t \in [prefix : NsPrefixes \cup {Empty}, atts : UNION {[1 .. n -> Atts] : n \in 0 .. MaxAttrs}] : Distinct(t.atts)}

Call(op, prefix, name, uri, value) == [op |-> op, prefix |-> prefix, name |-> name, uri |-> uri, value |-> value]

-----------------------------------------------------------------------------
(* xml_elem_start. *)

IsNs(a) == a.prefix = "xmlns"

(* The attribute that declares a prefix. *)
NsAt(t, prefix) == {i \in DOMAIN t.atts : IsNs(t.atts[i]) /\ t.atts[i].name = prefix}

NsURI(t, prefix) == t.atts[CHOOSE i \in NsAt(t, prefix) : TRUE].value

(* The element's own prefix has its URI from there. *)
ElemURI(t) == IF NsAt(t, t.prefix) = {} THEN Empty ELSE NsURI(t, t.prefix)

(* ctx->ns and ctx->as *)
NsOf(t) == At(t.atts, {i \in DOMAIN t.atts : IsNs(t.atts[i]) /\ t.atts[i].name # t.prefix})

AsOf(t) == At(t.atts, {i \in DOMAIN t.atts : ~IsNs(t.atts[i])})

(* The first attribute with a prefix claims its declaration. *)
Claimed(t, i) ==
  LET as == AsOf(t)
      prefix == as[i].prefix
  IN IF prefix = t.prefix \/ NsAt(t, prefix) = {} \/ (\E j \in 1 .. i - 1 : as[j].prefix = prefix) THEN Empty
     ELSE NsURI(t, prefix)

(* mutant: a claimed declaration is not crossed out *)
UnclaimedKeepsAll(t) == NsOf(t)

Unclaimed(t) ==
  At(NsOf(t), {j \in DOMAIN NsOf(t) : \A i \in DOMAIN AsOf(t) : AsOf(t)[i].prefix # NsOf(t)[j].name})

XmlElemStart(t) ==
  LET as == AsOf(t)
  IN <<Call("start", t.prefix, "e", ElemURI(t), Empty)>>
     \o [i \in DOMAIN as |-> Call("attr", as[i].prefix, as[i].name, Claimed(t, i), as[i].value)]
     \o [i \in DOMAIN Unclaimed(t) |-> Call("attr", "xmlns", Unclaimed(t)[i].name, Empty, Unclaimed(t)[i].value)]

-----------------------------------------------------------------------------

Attribute(c) == [prefix |-> c.prefix, name |-> c.name, uri |-> c.uri, value |-> c.value]

(* gotester's commands: StartElem, WriteAttr. *)
Play == script # <<>> /\ script' = Tail(script) /\ UNCHANGED src
  /\ LET c == Head(script)
     IN \/ c.op = "start" /\ Start(c.prefix, c.uri, <<>>)
        \/ c.op = "attr" /\ WriteAttr(Attribute(c))

(* What follows the tag makes Writer.Next or node.end open the element. *)
OpenNow == script = <<>> /\ Opened /\ UNCHANGED <<src, script>>

(* One good name is enough, but for that of a declaration which the user   *)
(* writes itself, and one value: namespaces do not depend on them.         *)
FreeAttrs ==
  [prefix : AnyPrefix \ {"xmlns"}, name : {CHOOSE n \in Names : TRUE, "bad"}, uri : AnyURI, value : {Empty}]
  \cup [prefix : {"xmlns"}, name : NsPrefixes, uri : AnyURI, value : {Empty}]

FreeStart == src = Free
  /\ \E p \in AnyPrefix, u \in AnyURI, attrs \in {<<>>} \cup {<<a>> : a \in FreeAttrs} : Start(p, u, attrs)
  /\ UNCHANGED <<src, script>>

FreeAttr == src = Free /\ Len(tag) + Len(elem.namespaces) < MaxAttrs + 1
  /\ \E a \in FreeAttrs : WriteAttr(a)
  /\ UNCHANGED <<src, script>>

Init == TagInit /\ \/ src = Free /\ script = <<>>
                   \/ src \in StartTags /\ script = XmlElemStart(src)

Next == Play \/ OpenNow \/ FreeStart \/ FreeAttr

Spec == Init /\ [][Next]_vars

-----------------------------------------------------------------------------
(* Properties. *)

(* Every part of the state has its type, and a namespace is registered for *)
(* a prefix once.                                                          *)
TypeOK ==
  /\ elem \in [state : States, prefix : AnyPrefix, uri : AnyURI,
               namespaces : Seq([prefix : AnyPrefix, uri : URIs, written : BOOLEAN])]
  /\ \A i, j \in DOMAIN elem.namespaces : elem.namespaces[i].prefix = elem.namespaces[j].prefix => i = j
  /\ err \in BOOLEAN /\ refused \in BOOLEAN

(* Where the Writer itself declares a prefix. *)
Declarations(prefix) ==
  {i \in DOMAIN tag : tag[i].prefix = "xmlns" /\ tag[i].name = prefix /\ tag[i].by = "writer"}

(* In a finished start tag, the Writer declares each prefix that was given *)
(* a URI with that URI, and only once: with the element, for the first     *)
(* attribute that brings it, or when the tag ends (attr.go:80-98,          *)
(* elem.go:74-107).  It does so whatever the user declares: a prefix is in *)
(* the tag twice when one attribute is xmlns:p and another has a URI for p.*)
PrefixesBound ==
  elem.state = "opened" =>
    \A i \in DOMAIN tag : tag[i].prefix # Empty /\ tag[i].given # Empty =>
      \E d \in DOMAIN tag : Declarations(tag[i].prefix) = {d} /\ tag[d].value = tag[i].given

(* A start tag that cannot be finished is the work of a call that returned *)
(* an error before: opening the element finds no name that is not one.     *)
OnlyRefusalTears == elem.state = "torn" => err /\ refused

(* A start tag that was taken apart and written again has the attributes   *)
(* it had, each once, and no call is refused on the way.                   *)
TagRebuilt ==
  src # Free => ~err /\ (elem.state = "opened" =>
    /\ elem.prefix = src.prefix /\ Len(tag) = Len(src.atts)
    /\ {Att(tag[i].prefix, tag[i].name, tag[i].value) : i \in DOMAIN tag} = Range(src.atts))
=============================================================================
