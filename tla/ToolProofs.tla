----------------------------- MODULE ToolProofs -----------------------------
(***************************************************************************)
(* Proofs about the C programs around testbuilder: normaliser, indexer and *)
(* encfixer, for every document, set of files and list of lines.           *)
(*                                                                         *)
(* normaliser.  The form in which an element ends is decided from the flag *)
(* self_close and from the state of libxml2's innermost node.  Matches     *)
(* relates the nodes to the document's open elements: a node is still in   *)
(* its start tag just when nothing has come in its element, which is       *)
(* possible for the innermost only.  The flag may be set for an element    *)
(* with content (the one before it was empty), but never clear for one     *)
(* without.                                                                *)
(*                                                                         *)
(* indexer.  A list of lines is done from its front, so the names in the   *)
(* database are those of the lines that are no longer to be done: that is  *)
(* Accounted, which holds at every step and gives FirstOfEachName at the   *)
(* end.                                                                    *)
(* A query is right because a hash of a file that parsed is that of all of *)
(* its text (Hashed), although a row is also written for files that did    *)
(* not.  Inside a file the counters tell of the first k events of its      *)
(* text, and what expat has still to report of the buffer are the next     *)
(* ones (Reached): a buffer's end is only where the text goes on (Cut).    *)
(*                                                                         *)
(* encfixer.  Its parser and XML's reading of a declaration stay alike     *)
(* character by character (Alike), or the parser has given up: so it finds *)
(* the attributes that XML does, in their order, and stops where XML does. *)
(* What encfixer has written and what it has still to read then make up    *)
(* what is to come out (Result).                                           *)
(***************************************************************************)
EXTENDS EncTools, Indexer, Normaliser, Lemmas

-----------------------------------------------------------------------------
(* normaliser. *)

XmlNode == [state : ElemStates, name : Tags]

Element == [name : Tags, empty : BOOLEAN]

Xml == [nodes : Seq(XmlNode), ok : {TRUE}]

Matches(x, open) ==
  /\ x \in Xml /\ open \in Seq(Element) /\ Len(x.nodes) = Len(open)
  /\ \A i \in 1 .. Len(open) :
       x.nodes[i].name = open[i].name /\ (x.nodes[i].state = "NAME" <=> open[i].empty)
  /\ \A i \in 2 .. Len(open) : ~open[i].empty

Filled(open) == \A i \in 1 .. Len(open) : ~open[i].empty

Fields(d) ==
  d = [xml |-> d.xml, self_close |-> d.self_close, cap |-> d.cap, open |-> d.open, given |-> d.given,
       wrote |-> d.wrote, at |-> d.at]

NInv ==
  /\ Fields(nz)
  /\ Matches(nz.xml, nz.open)
  /\ nz.at = "content" => nz.open # <<>>
  /\ nz.open # <<>> /\ nz.open[1].empty => nz.self_close
  /\ ShortIffEmpty /\ DecimalsAlike

-----------------------------------------------------------------------------
(* The writer and the document move together. *)

(* libxml2's state is that of the innermost node.                          *)
LEMMA StateFacts ==
  ASSUME NEW x, NEW open, Matches(x, open)
  PROVE  /\ open = <<>> <=> x.nodes = <<>>
         /\ open = <<>> => State(x) = "empty"
         /\ open # <<>> => /\ State(x) = x.nodes[1].state /\ State(x) \in ElemStates
                           /\ x.nodes[1] \in XmlNode /\ open[1] \in Element /\ Len(open) >= 1
                           /\ State(x) = "NAME" <=> open[1].empty
                           /\ x.nodes[1].name = open[1].name
<1>1. open = <<>> <=> x.nodes = <<>>
  BY EmptySeq, LenProperties DEF Matches, Xml
<1>2. ASSUME open # <<>>
      PROVE  Len(open) \in Nat /\ Len(open) >= 1 /\ x.nodes[1] \in XmlNode /\ open[1] \in Element
  BY <1>1, <1>2, EmptySeq, LenProperties, ElementOfSeq DEF Matches, Xml
<1> QED BY <1>1, <1>2 DEF State, Matches, XmlNode

(* Content settles the innermost node, and its element is not empty.       *)
LEMMA Settling ==
  ASSUME NEW x, NEW open, Matches(x, open)
  PROVE  Matches(Settled(x), NowFilled(open)) /\ Filled(NowFilled(open))
<1>1. CASE open = <<>>
  <2>1. Settled(x) = x /\ NowFilled(open) = <<>>
    BY <1>1, StateFacts DEF Settled, NowFilled
  <2> QED BY <1>1, <2>1 DEF Filled
<1>2. CASE open # <<>>
  <2> DEFINE e == [open[1] EXCEPT !.empty = FALSE]
             n == [x.nodes[1] EXCEPT !.state = "TEXT"]
             o == NowFilled(open)
  <2>1. /\ x.nodes # <<>> /\ State(x) = x.nodes[1].state /\ State(x) \in {"NAME", "TEXT"}
        /\ x.nodes[1] \in XmlNode /\ open[1] \in Element /\ Len(open) >= 1 /\ x.nodes[1].name = open[1].name
    BY <1>2, StateFacts DEF ElemStates
  <2>2. e \in Element /\ e.name = open[1].name /\ e.empty = FALSE
    BY <2>1 DEF Element
  <2>3. n \in XmlNode /\ n.name = x.nodes[1].name /\ n.state = "TEXT"
    BY <2>1 DEF XmlNode, ElemStates
  <2>4. x.nodes \in Seq(XmlNode) /\ open \in Seq(Element) /\ x \in Xml /\ Len(open) \in Nat
    BY LenProperties DEF Matches, Xml
  <2>5. o = <<e>> \o Tail(open)
    BY <1>2 DEF NowFilled
  <2> HIDE DEF e, n, o
  <2>6. o \in Seq(Element) /\ Len(o) = Len(open) /\ o[1] = e /\ \A i \in 2 .. Len(open) : o[i] = open[i]
    BY <1>2, <2>2, <2>4, <2>5, FirstReplaced
  <2>7. /\ Settled(x) \in Xml /\ Len(Settled(x).nodes) = Len(x.nodes)
        /\ Settled(x).nodes[1].name = x.nodes[1].name /\ Settled(x).nodes[1].state = "TEXT"
        /\ \A i \in 2 .. Len(x.nodes) : Settled(x).nodes[i] = x.nodes[i]
    <3>1. CASE State(x) = "TEXT"
      BY <2>1, <2>4, <3>1 DEF Settled
    <3>2. CASE State(x) = "NAME"
      <4> DEFINE t == [x.nodes EXCEPT ![1] = n]
      <4>1. Settled(x) = [x EXCEPT !.nodes[1].state = "TEXT"]
        BY <3>2 DEF Settled
      <4>2. [x EXCEPT !.nodes[1].state = "TEXT"] = [x EXCEPT !.nodes = t]
        BY Zenon DEF n
      <4>3. t \in Seq(XmlNode) /\ Len(t) = Len(x.nodes) /\ t[1] = n /\ \A i \in 2 .. Len(x.nodes) : t[i] = x.nodes[i]
        BY <2>1, <2>3, <2>4, FirstReplaced
      <4> HIDE DEF t
      <4>4. [x EXCEPT !.nodes = t] \in Xml /\ [x EXCEPT !.nodes = t].nodes = t
        BY <2>4, <4>3 DEF Xml
      <4> QED BY <2>3, <4>1, <4>2, <4>3, <4>4
    <3> QED BY <2>1, <3>1, <3>2
  <2>8. ASSUME NEW i \in 1 .. Len(o)
        PROVE  Settled(x).nodes[i].name = o[i].name /\ Settled(x).nodes[i].state # "NAME" /\ ~o[i].empty
    <3>1. CASE i = 1
      BY <2>1, <2>2, <2>6, <2>7, <3>1
    <3>2. CASE i # 1
      <4>1. i \in 2 .. Len(open) /\ i \in 2 .. Len(x.nodes) /\ i \in 1 .. Len(open)
        BY <2>4, <2>6, <3>2 DEF Matches
      <4>2. o[i] = open[i] /\ Settled(x).nodes[i] = x.nodes[i]
        BY <2>6, <2>7, <4>1
      <4> QED BY <4>1, <4>2 DEF Matches
    <3> QED BY <3>1, <3>2
  <2>9. Len(Settled(x).nodes) = Len(o)
    BY <2>6, <2>7 DEF Matches
  <2> QED BY <2>4, <2>6, <2>7, <2>8, <2>9 DEF Matches, Filled, o
<1> QED BY <1>1, <1>2

(* A start tag in an element that is no longer empty.                      *)
LEMMA Starting ==
  ASSUME NEW x, NEW open, Matches(x, open), NEW name \in Tags
  PROVE  Matches(StartElement(x, name), <<[name |-> name, empty |-> TRUE]>> \o NowFilled(open))
<1> DEFINE y == Settled(x)
           o == NowFilled(open)
           n == [state |-> "NAME", name |-> name]
           e == [name |-> name, empty |-> TRUE]
           ns == <<n>> \o y.nodes
           es == <<e>> \o o
<1>1. Matches(y, o) /\ Filled(o)
  BY Settling
<1>2. StartElement(x, name) = PushNode(y, "NAME", name)
  <2>1. State(x) # "NAME" => y = x
    BY StateFacts DEF Settled, ElemStates
  <2> QED BY <2>1 DEF StartElement
<1>3. n \in XmlNode /\ e \in Element
  BY DEF XmlNode, Element, ElemStates
<1>4. y \in Xml /\ y.nodes \in Seq(XmlNode) /\ o \in Seq(Element) /\ Len(y.nodes) = Len(o) /\ Len(o) \in Nat
  BY <1>1, LenProperties DEF Matches, Xml
<1> HIDE DEF y, o
<1>5. /\ ns \in Seq(XmlNode) /\ Len(ns) = Len(o) + 1 /\ ns[1] = n
      /\ \A i \in 2 .. Len(o) + 1 : ns[i] = y.nodes[i - 1]
  BY <1>3, <1>4, FirstAdded
<1>6. /\ es \in Seq(Element) /\ Len(es) = Len(o) + 1 /\ es[1] = e
      /\ \A i \in 2 .. Len(o) + 1 : es[i] = o[i - 1]
  BY <1>3, <1>4, FirstAdded
<1>7. PushNode(y, "NAME", name) \in Xml /\ PushNode(y, "NAME", name).nodes = ns
  <2>1. PushNode(y, "NAME", name) = [y EXCEPT !.nodes = ns]
    BY DEF PushNode
  <2> HIDE DEF ns
  <2> QED BY <1>4, <1>5, <2>1 DEF Xml
<1>8. ASSUME NEW i \in 1 .. Len(o) + 1
      PROVE  ns[i].name = es[i].name /\ (ns[i].state = "NAME" <=> es[i].empty) /\ (i # 1 => ~es[i].empty)
  <2>1. CASE i = 1
    BY <1>5, <1>6, <2>1
  <2>2. CASE i # 1
    <3>1. i - 1 \in 1 .. Len(o) /\ i \in 2 .. Len(o) + 1
      BY <1>4, <2>2
    <3>2. ns[i] = y.nodes[i - 1] /\ es[i] = o[i - 1]
      BY <1>5, <1>6, <3>1
    <3> QED BY <1>1, <3>1, <3>2 DEF Matches, Filled
  <2> QED BY <2>1, <2>2
<1> HIDE DEF ns, es
<1> QED BY <1>2, <1>4, <1>5, <1>6, <1>7, <1>8 DEF Matches, es, o, e

(* An end tag is never refused; what it leaves is not empty.               *)
LEMMA Ending ==
  ASSUME NEW x, NEW open, Matches(x, open), open # <<>>
  PROVE  Matches(EndIn(x, ElemStates), Tail(open)) /\ Filled(Tail(open))
<1>1. x.nodes # <<>> /\ State(x) \in ElemStates
  BY StateFacts
<1>2. EndIn(x, ElemStates) = [x EXCEPT !.nodes = Tail(x.nodes)]
  BY <1>1 DEF EndIn, PopNode
<1>3. x.nodes \in Seq(XmlNode) /\ open \in Seq(Element) /\ x \in Xml /\ Len(x.nodes) = Len(open) /\ Len(open) \in Nat
  BY LenProperties DEF Matches, Xml
<1> DEFINE ns == Tail(x.nodes)
           es == Tail(open)
<1>4. ns \in Seq(XmlNode) /\ Len(ns) = Len(open) - 1 /\ \A i \in 1 .. Len(ns) : ns[i] = x.nodes[i + 1]
  BY <1>1, <1>3, FirstDropped
<1>5. es \in Seq(Element) /\ Len(es) = Len(open) - 1 /\ \A i \in 1 .. Len(es) : es[i] = open[i + 1]
  BY <1>3, FirstDropped
<1> HIDE DEF ns, es
<1>6. EndIn(x, ElemStates) \in Xml /\ EndIn(x, ElemStates).nodes = ns
  BY <1>2, <1>3, <1>4 DEF Xml, ns
<1>7. ASSUME NEW i \in 1 .. Len(es)
      PROVE  ns[i].name = es[i].name /\ (ns[i].state = "NAME" <=> es[i].empty) /\ ~es[i].empty
  <2>1. i + 1 \in 2 .. Len(open) /\ i + 1 \in 1 .. Len(open)
    BY <1>3, <1>5
  <2>2. ns[i] = x.nodes[i + 1] /\ es[i] = open[i + 1]
    BY <1>4, <1>5
  <2> QED BY <2>1, <2>2 DEF Matches
<1> QED BY <1>4, <1>5, <1>6, <1>7 DEF Matches, Filled, es

-----------------------------------------------------------------------------
(* The handlers keep the invariant. *)

(* The invariant is kept by a start tag,                                   *)
LEMMA ReadStartKeeps == ASSUME NInv, ReadStart PROVE NInv'
<1>1. PICK name \in Tags, attlen \in 0 .. MaxAtts :
        nz' = [ElemStart(nz, name, attlen) EXCEPT
                 !.open = <<[name |-> name, empty |-> TRUE]>> \o NowFilled(@),
                 !.given = [is |-> "start", name |-> name, atts |-> attlen], !.at = "content"]
  BY DEF ReadStart
<1> DEFINE es == <<[name |-> name, empty |-> TRUE]>> \o NowFilled(nz.open)
<1>2. /\ nz'.xml = StartElement(nz.xml, name) /\ nz'.self_close = TRUE /\ nz'.open = es
      /\ nz'.given = [is |-> "start", name |-> name, atts |-> attlen]
      /\ nz'.wrote = [is |-> "start", name |-> name, atts |-> 0] /\ nz'.at = "content" /\ Fields(nz')
  <2>1. ElemStart(nz, name, attlen).open = nz.open
    BY DEF NInv, Fields, ElemStart
  <2> QED BY <1>1, <2>1 DEF NInv, Fields, ElemStart
<1>3. Matches(nz'.xml, nz'.open)
  BY <1>2, Starting DEF NInv
<1>4. nz'.open # <<>>
  <2>1. NowFilled(nz.open) \in Seq(Element)
    BY Settling DEF NInv, Matches
  <2>2. [name |-> name, empty |-> TRUE] \in Element
    BY DEF Element
  <2> QED BY <1>2, <2>1, <2>2, FirstAdded
<1>5. ShortIffEmpty' /\ DecimalsAlike'
  BY <1>2 DEF ShortIffEmpty, DecimalsAlike
<1> QED BY <1>2, <1>3, <1>4, <1>5 DEF NInv

(* by an end tag,                                                          *)
LEMMA ReadEndKeeps == ASSUME NInv, ReadEnd PROVE NInv'
<1>1. /\ nz'.xml = EndIn(nz.xml, ElemStates) /\ nz'.open = Tail(nz.open)
      /\ nz'.given = [is |-> "end", empty |-> nz.open[1].empty]
      /\ nz'.wrote = [is |-> "end", short |-> nz.self_close /\ State(nz.xml) = "NAME"]
      /\ nz'.at = (IF Len(nz.open) = 1 THEN "epilog" ELSE nz.at) /\ Fields(nz')
  <2>1. nz' = [ElemEnd(nz) EXCEPT !.open = Tail(@), !.given = [is |-> "end", empty |-> nz.open[1].empty],
                                  !.at = IF Len(nz.open) = 1 THEN "epilog" ELSE @]
    BY DEF ReadEnd
  <2>2. ElemEnd(nz).open = nz.open /\ ElemEnd(nz).at = nz.at
    BY DEF NInv, Fields, ElemEnd
  <2> QED BY <2>1, <2>2 DEF NInv, Fields, ElemEnd
<1>2. Matches(nz.xml, nz.open) /\ nz.open # <<>> /\ (nz.open[1].empty => nz.self_close)
  BY DEF NInv, ReadEnd
<1>3. Matches(nz'.xml, nz'.open) /\ Filled(nz'.open)
  BY <1>1, <1>2, Ending
<1>4. ShortIffEmpty'
  <2>1. State(nz.xml) = "NAME" <=> nz.open[1].empty
    BY <1>2, StateFacts
  <2>2. nz'.wrote.short = (nz.self_close /\ State(nz.xml) = "NAME") /\ nz'.given.empty = nz.open[1].empty
    BY <1>1
  <2> QED BY Zenon, <1>2, <2>1, <2>2 DEF ShortIffEmpty
<1>5. DecimalsAlike'
  BY <1>1 DEF DecimalsAlike
<1>6. /\ nz'.at = "content" => nz'.open # <<>>
      /\ nz'.open # <<>> /\ nz'.open[1].empty => nz'.self_close
  <2>1. nz.open \in Seq(Element) /\ nz'.open \in Seq(Element) /\ Len(nz'.open) = Len(nz.open) - 1
        /\ Len(nz.open) \in Nat /\ nz.at = "content"
    <3>1. nz.open \in Seq(Element)
      BY <1>2 DEF Matches
    <3>2. nz'.open = Tail(nz.open) /\ nz.open # <<>>
      BY <1>1, <1>2
    <3>3. nz'.open \in Seq(Element) /\ Len(nz'.open) = Len(nz.open) - 1
      BY <3>1, <3>2, FirstDropped
    <3>4. Len(nz.open) \in Nat
      BY <3>1, LenProperties
    <3> QED BY <3>1, <3>3, <3>4 DEF ReadEnd
  <2>2. nz'.open = <<>> <=> Len(nz'.open) = 0
    BY <2>1, EmptySeq
  <2>3. nz'.at = "content" => Len(nz.open) # 1
    BY <1>1
  <2>4. nz'.open # <<>> => 1 \in 1 .. Len(nz'.open)
    BY <2>1, <2>2, LenProperties
  <2>5. nz'.at = "content" => nz'.open # <<>>
    BY <2>1, <2>2, <2>3
  <2>6. nz'.open # <<>> /\ nz'.open[1].empty => nz'.self_close
    BY Zenon, <1>3, <2>4 DEF Filled
  <2> QED BY <2>5, <2>6
<1> QED BY <1>1, <1>3, <1>4, <1>5, <1>6 DEF NInv

(* What is not a tag: it fills the innermost element and is written as it  *)
(* is, or as a reference.                                                  *)
LEMMA DefaultKeeps ==
  ASSUME NInv, NEW piece, NEW given, piece.is # "end",
         nz' = [Default(nz, piece) EXCEPT !.open = NowFilled(@), !.given = given],
         piece.is = "ref" => DecimalsAlike'
  PROVE  NInv'
<1>1. /\ nz'.xml = Settled(nz.xml) /\ nz'.open = NowFilled(nz.open) /\ nz'.wrote = piece
      /\ nz'.at = nz.at /\ Fields(nz')
  <2>1. Default(nz, piece).open = nz.open
    BY DEF NInv, Fields, Default
  <2> QED BY <2>1 DEF NInv, Fields, Default, WriteRaw
<1>2. Matches(nz'.xml, nz'.open) /\ Filled(nz'.open)
  BY <1>1, Settling DEF NInv
<1>3. nz'.open # <<>> /\ nz'.open[1].empty => nz'.self_close
  <2>1. nz'.open # <<>> => 1 \in 1 .. Len(nz'.open)
    BY <1>2, StateFacts, LenProperties DEF Matches
  <2> QED BY Zenon, <1>2, <2>1 DEF Filled
<1>4. nz'.at = "content" => nz'.open # <<>>
  <2>1. ASSUME nz.open # <<>> PROVE nz'.open # <<>>
    <3>1. nz.open \in Seq(Element) /\ [nz.open[1] EXCEPT !.empty = FALSE] \in Element
      <4>1. Matches(nz.xml, nz.open)
        BY DEF NInv
      <4>2. nz.open \in Seq(Element) /\ nz.open[1] \in Element
        BY <2>1, <4>1, StateFacts DEF Matches
      <4> QED BY <4>2 DEF Element
    <3>2. nz'.open = <<[nz.open[1] EXCEPT !.empty = FALSE]>> \o Tail(nz.open)
      BY <1>1, <2>1 DEF NowFilled
    <3>3. Tail(nz.open) \in Seq(Element)
      BY <2>1, <3>1, FirstDropped
    <3> QED BY <3>1, <3>2, <3>3, FirstAdded
  <2> QED BY <1>1, <2>1 DEF NInv
<1>5. ShortIffEmpty' /\ DecimalsAlike'
  BY <1>1 DEF ShortIffEmpty, DecimalsAlike
<1> QED BY <1>1, <1>2, <1>3, <1>4, <1>5 DEF NInv

(* by text, comments and instructions,                                     *)
LEMMA ReadOtherKeeps == ASSUME NInv, ReadOther PROVE NInv'
<1>1. Nothing.is # "end" /\ Nothing.is # "ref"
  BY DEF Nothing
<1> QED BY <1>1, DefaultKeeps DEF ReadOther

(* and by a character reference.                                           *)
LEMMA ReadRefKeeps == ASSUME NInv, ReadRef PROVE NInv'
<1>1. PICK r \in CharRefs :
        nz' = [Default(nz, [is |-> "ref", as |-> WrittenRef(r)]) EXCEPT
                 !.open = NowFilled(@), !.given = [is |-> "ref", ref |-> r]]
  BY DEF ReadRef
<1> DEFINE piece == [is |-> "ref", as |-> WrittenRef(r)]
<1>2. nz'.wrote = piece /\ nz'.given = [is |-> "ref", ref |-> r]
  BY <1>1 DEF NInv, Fields, Default
<1>3. r.base \in {"dec", "hex"} /\ r.value \in Nat /\ r.digits \in Nat \ {0}
      /\ (r.base = "dec" /\ r.digits = 1 => r.value < 10)
  BY NormaliserAssumption
<1>4. /\ WrittenRef(r).value = r.value
      /\ WrittenRef(r).base = "hex" \/ (r.base = "dec" /\ r.value < 10 /\ r.digits = 1)
      /\ WrittenRef(r).base = "hex" /\ r.base = "dec" => WrittenRef(r).form = "printed"
      /\ r.base = "hex" => WrittenRef(r).form = r.form
  BY <1>3 DEF WrittenRef, RefLength, Reference
<1>5. DecimalsAlike' /\ piece.is = "ref"
  BY <1>2, <1>4 DEF DecimalsAlike
<1> HIDE DEF piece
<1>6. nz' = [Default(nz, piece) EXCEPT !.open = NowFilled(@), !.given = [is |-> "ref", ref |-> r]]
  BY <1>1 DEF piece
<1>7. piece.is # "end"
  BY <1>5
<1> QED BY <1>5, <1>6, <1>7, DefaultKeeps

(* It holds initially and is kept by every event of the parser.            *)
LEMMA NInvInductive ==
  /\ nz = NormaliserIdle => NInv
  /\ NInv /\ [NormaliserNext]_nz => NInv'
<1>1. nz = NormaliserIdle => NInv
  <2> SUFFICES ASSUME nz = NormaliserIdle PROVE NInv
    OBVIOUS
  <2>1. Matches(nz.xml, nz.open)
    BY DEF NormaliserIdle, NewTextWriter, Matches, Xml
  <2> QED BY <2>1 DEF NInv, Fields, NormaliserIdle, Nothing, ShortIffEmpty, DecimalsAlike
<1>2. ASSUME NInv, nz' = [nz EXCEPT !.at = nz'.at], nz'.at # "content" PROVE NInv'
  BY <1>2 DEF NInv, Fields, ShortIffEmpty, DecimalsAlike
<1>3. ASSUME NInv, StartNormaliser \/ ReadFails \/ ReadDone PROVE NInv'
  <2>1. PICK at \in {"prolog", "failed", "done"} : nz' = [nz EXCEPT !.at = at]
    BY <1>3 DEF StartNormaliser, ReadFails, ReadDone
  <2>2. nz'.at = at
    BY <1>3, <2>1 DEF NInv, Fields
  <2> QED BY <1>2, <1>3, <2>1, <2>2
<1>4. ASSUME NInv, UNCHANGED nz PROVE NInv'
  BY <1>4 DEF NInv, ShortIffEmpty, DecimalsAlike
<1>5. ASSUME NInv, NormaliserNext PROVE NInv'
  BY <1>3, <1>5, ReadStartKeeps, ReadEndKeeps, ReadOtherKeeps, ReadRefKeeps DEF NormaliserNext
<1> QED BY <1>1, <1>4, <1>5

-----------------------------------------------------------------------------
(* The theorems. *)

(* An element ends in the short form if and only if nothing is in it, for  *)
(* every document and at every depth.                                      *)
THEOREM EmptyElementsAlike == NormaliserSpec => []ShortIffEmpty
<1>1. NInv => ShortIffEmpty
  BY DEF NInv
<1> QED BY <1>1, NInvInductive, PTL DEF NormaliserSpec

(* A decimal reference of more than one digit comes out in the one         *)
(* hexadecimal form of its character, however many zeros it has; one that  *)
(* was hexadecimal comes out as it was spelt, and neither changes its      *)
(* character (normaliser.c:183-211).                                       *)
THEOREM DecimalReferencesAlike == NormaliserSpec => []DecimalsAlike
<1>1. NInv => DecimalsAlike
  BY DEF NInv
<1> QED BY <1>1, NInvInductive, PTL DEF NormaliserSpec

(* The array that the attributes are collected in grows until they fit:    *)
(* every turn but the last doubles it, so as many turns as there are       *)
(* attributes are enough, wherever it starts.                              *)
LEMMA GrowingFits ==
  ASSUME NEW cap \in Nat \ {0}, NEW attlen \in Nat
  PROVE  Grown(cap, attlen) \in Nat \ {0} /\ attlen <= Grown(cap, attlen)
<1> DEFINE Caps == Nat \ {0}
           step == [k \in 1 .. attlen |-> [n \in Caps |-> GrownOnce(n, attlen)]]
           after == CHOOSE f : f = [k \in 0 .. attlen |-> IF k = 0 THEN cap ELSE GrownOnce(f[k - 1], attlen)]
<1>1. Grown(cap, attlen) = after[attlen]
  BY DEF Grown
<1>2. \A n \in Caps : GrownOnce(n, attlen) \in Caps
  BY DEF GrownOnce
<1>3. step \in [1 .. attlen -> [Caps -> Caps]] /\ cap \in Caps
  BY <1>2
<1>4. \A k \in 1 .. attlen, n \in Caps : step[k][n] = GrownOnce(n, attlen)
  OBVIOUS
<1>5. PICK g \in [0 .. attlen -> Caps] : g[0] = cap /\ \A k \in 1 .. attlen : g[k] = step[k][g[k - 1]]
  <2>1. Recursions(attlen, Caps, cap, step) # {}
    <3> HIDE DEF step, Caps
    <3> QED
      BY <1>3, RecursionUpTo
  <2> HIDE DEF step, Caps
  <2> QED
    BY <2>1 DEF Recursions
<1> HIDE DEF step
<1>6. \A k \in 0 .. attlen : g[k] = IF k = 0 THEN cap ELSE GrownOnce(g[k - 1], attlen)
  <2> TAKE k \in 0 .. attlen
  <2>1. CASE k # 0
    <3>1. k \in 1 .. attlen /\ g[k - 1] \in Caps
      BY <2>1
    <3> QED
      BY <1>4, <1>5, <2>1, <3>1
  <2> QED
    BY <1>5, <2>1
<1>7. g = [k \in 0 .. attlen |-> IF k = 0 THEN cap ELSE GrownOnce(g[k - 1], attlen)]
  BY <1>6
<1>8. after = [k \in 0 .. attlen |-> IF k = 0 THEN cap ELSE GrownOnce(after[k - 1], attlen)]
  BY <1>7, Zenon
<1> HIDE DEF after
<1> DEFINE S == {k \in 0 .. attlen : after[k] \in Caps /\ (after[k] >= attlen \/ after[k] > k)}
<1>9. 0 \in S
  BY <1>8
<1>10. ASSUME NEW k \in 0 .. attlen - 1, k \in S PROVE k + 1 \in S
  <2>1. after[k + 1] = GrownOnce(after[k], attlen) /\ k + 1 \in 0 .. attlen
    BY <1>8, <1>10
  <2>2. after[k] \in Nat /\ after[k] > 0 /\ (after[k] >= attlen \/ after[k] > k)
    BY <1>10
  <2>3. after[k + 1] \in Nat /\ after[k + 1] > 0 /\ (after[k + 1] >= attlen \/ after[k + 1] > k + 1)
    <3>1. PICK a : a = after[k]
      OBVIOUS
    <3>2. a \in Nat /\ a > 0 /\ (a >= attlen \/ a > k) /\ attlen \in Nat /\ k \in Nat
      BY <2>2, <3>1
    <3>3. GrownOnce(a, attlen) = IF a < attlen THEN a * 2 ELSE a
      BY DEF GrownOnce
    <3>4. PICK b : b = GrownOnce(a, attlen)
      OBVIOUS
    <3>5. b \in Nat /\ b > 0 /\ (b >= attlen \/ b > k + 1)
      BY <3>2, <3>3, <3>4
    <3> QED BY <2>1, <3>1, <3>4, <3>5
  <2> QED
    BY <2>1, <2>3
<1>11. attlen \in S
  <2> HIDE DEF S
  <2>1. 0 .. attlen \subseteq S
    BY <1>9, <1>10, InductionUpTo
  <2> QED
    BY <2>1
<1> QED
  BY <1>1, <1>11

(* What the array has to hold, and the flags.                              *)
Roomy(d) ==
  /\ d.cap \in Nat \ {0} /\ d.self_close \in BOOLEAN
  /\ d.given.is = "start" => d.given.atts <= d.cap

Places == {"idle", "prolog", "content", "epilog", "done", "failed"}

(* It holds initially and is kept by every event of the parser.            *)
LEMMA RoomyInductive ==
  /\ nz = NormaliserIdle => Roomy(nz) /\ nz.at \in Places
  /\ NInv /\ Roomy(nz) /\ nz.at \in Places /\ [NormaliserNext]_nz => Roomy(nz') /\ nz'.at \in Places
<1>1. nz = NormaliserIdle => Roomy(nz) /\ nz.at \in Places
  BY NormaliserAssumption DEF Roomy, Places, NormaliserIdle, Nothing
<1> SUFFICES ASSUME NInv, Roomy(nz), nz.at \in Places, [NormaliserNext]_nz PROVE Roomy(nz') /\ nz'.at \in Places
  BY <1>1
<1>2. Fields(nz)
  BY DEF NInv
<1>3. CASE UNCHANGED nz
  BY <1>3
<1>4. CASE StartNormaliser \/ ReadFails \/ ReadDone
  <2>1. PICK at \in {"prolog", "failed", "done"} : nz' = [nz EXCEPT !.at = at]
    BY <1>4 DEF StartNormaliser, ReadFails, ReadDone
  <2>2. nz'.at = at /\ nz'.cap = nz.cap /\ nz'.self_close = nz.self_close /\ nz'.given = nz.given
    BY <1>2, <2>1 DEF Fields
  <2> QED
    BY <2>2 DEF Roomy, Places
<1>5. CASE ReadStart
  <2>1. PICK name \in Tags, attlen \in 0 .. MaxAtts :
          nz' = [ElemStart(nz, name, attlen) EXCEPT
                   !.open = <<[name |-> name, empty |-> TRUE]>> \o NowFilled(@),
                   !.given = [is |-> "start", name |-> name, atts |-> attlen], !.at = "content"]
    BY <1>5 DEF ReadStart
  <2>2. /\ nz'.cap = Grown(nz.cap, attlen) /\ nz'.self_close = TRUE /\ nz'.at = "content"
        /\ nz'.given = [is |-> "start", name |-> name, atts |-> attlen]
    BY <1>2, <2>1 DEF Fields, ElemStart
  <2>3. attlen \in Nat /\ nz.cap \in Nat \ {0}
    BY NormaliserAssumption DEF Roomy
  <2>4. Grown(nz.cap, attlen) \in Nat \ {0} /\ attlen <= Grown(nz.cap, attlen)
    BY <2>3, GrowingFits
  <2>5. nz'.given.atts = attlen
    BY <2>2
  <2>6. nz'.given.atts <= nz'.cap /\ nz'.cap \in Nat \ {0}
    BY <2>2, <2>4, <2>5, Zenon
  <2> QED
    BY <2>2, <2>6 DEF Roomy, Places
<1>6. CASE ReadEnd
  <2>1. nz' = [ElemEnd(nz) EXCEPT !.open = Tail(@), !.given = [is |-> "end", empty |-> nz.open[1].empty],
                                  !.at = IF Len(nz.open) = 1 THEN "epilog" ELSE @]
    BY <1>6 DEF ReadEnd
  <2>2. /\ nz'.cap = nz.cap /\ nz'.self_close = FALSE /\ nz'.at \in {"epilog", nz.at}
        /\ nz'.given = [is |-> "end", empty |-> nz.open[1].empty]
    BY <1>2, <2>1 DEF Fields, ElemEnd
  <2>3. nz'.given.is = "end"
    BY <2>2
  <2> QED
    BY <2>2, <2>3 DEF Roomy, Places
<1>7. CASE ReadOther \/ ReadRef
  <2>1. PICK piece, given :
          /\ given.is # "start"
          /\ nz' = [Default(nz, piece) EXCEPT !.open = NowFilled(@), !.given = given]
    <3>1. CASE ReadOther
      <4>1. Nothing.is # "start"
        BY DEF Nothing
      <4> QED
        BY <3>1, <4>1 DEF ReadOther
    <3>2. CASE ReadRef
      <4>1. PICK r \in CharRefs :
              nz' = [Default(nz, [is |-> "ref", as |-> WrittenRef(r)]) EXCEPT
                       !.open = NowFilled(@), !.given = [is |-> "ref", ref |-> r]]
        BY <3>2 DEF ReadRef
      <4>2. [is |-> "ref", ref |-> r].is # "start"
        OBVIOUS
      <4> QED
        BY <4>1, <4>2
    <3> QED
      BY <1>7, <3>1, <3>2
  <2>2. nz'.cap = nz.cap /\ nz'.self_close = FALSE /\ nz'.at = nz.at /\ nz'.given = given
    BY <1>2, <2>1 DEF Fields, Default
  <2> QED
    BY <2>1, <2>2 DEF Roomy
<1> QED
  BY <1>3, <1>4, <1>5, <1>6, <1>7 DEF NormaliserNext

(* What is open in libxml2 has the names of what is open in the document.  *)
LEMMA NamesMatch ==
  ASSUME NInv
  PROVE  /\ nz.xml.ok
         /\ [i \in DOMAIN nz.xml.nodes |-> nz.xml.nodes[i].name] = [i \in DOMAIN nz.open |-> nz.open[i].name]
<1>1. /\ nz.xml \in Xml /\ nz.open \in Seq(Element) /\ Len(nz.xml.nodes) = Len(nz.open)
      /\ \A i \in 1 .. Len(nz.open) : nz.xml.nodes[i].name = nz.open[i].name
  BY DEF NInv, Matches
<1>2. nz.xml.ok = TRUE /\ nz.xml.nodes \in Seq(XmlNode)
  BY <1>1 DEF Xml
<1>3. DOMAIN nz.xml.nodes = 1 .. Len(nz.open) /\ DOMAIN nz.open = 1 .. Len(nz.open)
  BY <1>1, <1>2, LenProperties
<1> QED
  BY <1>1, <1>2, <1>3

(* The array always has room for the attributes of a start tag, libxml2    *)
(* refuses no call, and its open nodes are the document's open elements,   *)
(* for every document and every size that the array starts from.           *)
THEOREM NormaliserTypeCorrect == NormaliserSpec => []NormaliserTypeOK
<1> DEFINE RInv == NInv /\ Roomy(nz) /\ nz.at \in Places
<1>1. nz = NormaliserIdle => RInv
  BY NInvInductive, RoomyInductive
<1>2. RInv /\ [NormaliserNext]_nz => RInv'
  BY NInvInductive, RoomyInductive
<1>3. RInv => NormaliserTypeOK
  BY NamesMatch DEF NormaliserTypeOK, Roomy, Places
<1> QED
  BY <1>1, <1>2, <1>3, PTL DEF NormaliserSpec

-----------------------------------------------------------------------------
(* indexer. *)

Paths == DOMAIN Content

(* What the database keeps of the paths of its rows, and what it would of  *)
(* those among the first k lines that can be read.                         *)
Names(rows) == {Stored[r.file] : r \in rows}

NamesTo(lines, k) == {Stored[lines[i]] : i \in {j \in 1 .. k : Content[lines[j]].readable}}

(* What is still to be done of the lines when k of them are. *)
Behind(todo, lines, k) ==
  /\ k \in 0 .. Len(lines) /\ Len(todo) = Len(lines) - k
  /\ \A i \in 1 .. Len(todo) : todo[i] = lines[i + k]

(* d has the fields of ix. *)
Typed(d) ==
  /\ d = [exists |-> d.exists, rows |-> d.rows, given |-> d.given, todo |-> d.todo, phase |-> d.phase,
          n |-> d.n, left |-> d.left, cur |-> d.cur, err |-> d.err, asked |-> d.asked, found |-> d.found,
          exit |-> d.exit]
  /\ d.exists \in BOOLEAN /\ d.given \in Seq(Paths) /\ d.todo \in Seq(Paths)
  /\ d.phase \in {"idle", "lines", "read", "parse", "insert"} /\ d.n \in Nat

(* Inside a file: it can be read, and how many of its buffers were. *)
InFile(d) ==
  /\ d.phase \in {"read", "parse", "insert"} =>
       d.todo # <<>> /\ Content[Head(d.todo)].readable /\ d.n <= Len(Content[Head(d.todo)].buffers)
  /\ d.phase = "read" => d.n < Len(Content[Head(d.todo)].buffers)
  /\ d.phase = "insert" /\ d.err = "OK" => d.n = Len(Content[Head(d.todo)].buffers)
  /\ d.phase = "idle" => d.todo = <<>>

(* A row's file is the first that was named under its name. *)
FirstFiled(rows, lines) == \A r \in rows : \E i \in 1 .. Len(lines) : r.file = lines[i] /\ IsFirst(lines, i)

Upto(d, k) == Behind(d.todo, d.given, k) /\ Names(d.rows) = NamesTo(d.given, k) /\ FirstFiled(d.rows, d.given)

Accounted(d) ==
  /\ d.exists => \E k : Upto(d, k)
  /\ ~d.exists => d.rows = {} /\ d.phase = "idle"
  /\ \A r, s \in d.rows : Stored[r.file] = Stored[s.file] => r = s

Hashed(d) ==
  \A r \in d.rows : r.file \in Paths /\ (r.status = "OK" => r.hash = Content[r.file].buffers)

Answered(d) ==
  d.asked = "each once" =>
    LET parsed == {r \in d.rows : r.status = "OK"}
        Listed(r) == {s \in parsed : /\ Stored[s.file] \in d.found
                                     /\ Content[s.file].buffers = Content[r.file].buffers}
    IN /\ d.found \subseteq {Stored[r.file] : r \in parsed}
       /\ \A r \in parsed : Cardinality(Listed(r)) = 1

IInv == Typed(ix) /\ InFile(ix) /\ Accounted(ix) /\ Hashed(ix)

-----------------------------------------------------------------------------
(* The first line of a list and the others.                                *)
LEMMA HeadAndTail ==
  ASSUME NEW t \in Seq(Paths), t # <<>>
  PROVE  /\ Head(t) \in Paths /\ Head(t) = t[1]
         /\ Tail(t) \in Seq(Paths) /\ Len(Tail(t)) = Len(t) - 1 /\ Len(t) >= 1
         /\ \A i \in 1 .. Len(t) - 1 : Tail(t)[i] = t[i + 1]
BY EmptySeq, LenProperties, HeadTailProperties

(* When one more line is done, its name is with the others if its file can *)
(* be read.                                                                *)
LEMMA OneMoreLine ==
  ASSUME NEW t \in Seq(Paths), t # <<>>, NEW lines \in Seq(Paths), NEW k, Behind(t, lines, k)
  PROVE  /\ Behind(Tail(t), lines, k + 1) /\ lines[k + 1] = Head(t)
         /\ NamesTo(lines, k + 1) =
              NamesTo(lines, k) \cup (IF Content[Head(t)].readable THEN {Stored[Head(t)]} ELSE {})
<1>1. /\ Head(t) = t[1] /\ Len(t) \in Nat /\ Len(t) >= 1 /\ Len(lines) \in Nat /\ k \in 0 .. Len(lines)
      /\ Len(t) = Len(lines) - k /\ \A i \in 1 .. Len(t) : t[i] = lines[i + k]
  BY HeadAndTail, LenProperties DEF Behind
<1>2. lines[k + 1] = Head(t)
  <2>1. 1 \in 1 .. Len(t) /\ 1 + k = k + 1
    BY <1>1
  <2> QED BY <1>1, <2>1
<1>3. Behind(Tail(t), lines, k + 1)
  <2> DEFINE u == Tail(t)
  <2>1. Len(u) = Len(t) - 1 /\ \A i \in 1 .. Len(t) - 1 : u[i] = t[i + 1]
    BY HeadAndTail
  <2> HIDE DEF u
  <2>2. k + 1 \in 0 .. Len(lines) /\ Len(u) = Len(lines) - (k + 1)
    BY <1>1, <2>1
  <2>3. ASSUME NEW i \in 1 .. Len(u) PROVE u[i] = lines[i + (k + 1)]
    <3>1. i \in 1 .. Len(t) - 1 /\ i + 1 \in 1 .. Len(t) /\ (i + 1) + k = i + (k + 1)
      BY <1>1, <2>1
    <3> QED BY <1>1, <2>1, <3>1
  <2> QED BY <2>2, <2>3 DEF Behind, u
<1>4. 1 .. k + 1 = (1 .. k) \cup {k + 1}
  BY <1>1
<1>5. CASE Content[Head(t)].readable
  <2>1. {j \in 1 .. k + 1 : Content[lines[j]].readable} = {j \in 1 .. k : Content[lines[j]].readable} \cup {k + 1}
    BY <1>2, <1>4, <1>5
  <2> QED BY <1>2, <1>3, <1>5, <2>1 DEF NamesTo
<1>6. CASE ~Content[Head(t)].readable
  <2>1. {j \in 1 .. k + 1 : Content[lines[j]].readable} = {j \in 1 .. k : Content[lines[j]].readable}
    BY <1>2, <1>4, <1>6
  <2> QED BY <1>2, <1>3, <1>6, <2>1 DEF NamesTo
<1> QED BY <1>5, <1>6

-----------------------------------------------------------------------------
(* The invariant is kept when the tool is started on a list of files,      *)
LEMMA StartIndexKeeps == ASSUME IInv, StartIndex PROVE IInv'
<1>1. PICK lines \in Inputs :
        ix' = IF ix.exists THEN [ix EXCEPT !.exit = "ERR_DB_EXISTS", !.asked = "nothing"]
              ELSE [ix EXCEPT !.exists = TRUE, !.given = lines, !.todo = lines, !.phase = "lines"]
  BY DEF StartIndex
<1>2. CASE ix.exists
  BY <1>1, <1>2 DEF IInv, Typed, InFile, Accounted, Upto, Hashed
<1>3. CASE ~ix.exists
  <2>1. lines \in Seq(Paths)
    BY IndexerInputs DEF Paths
  <2>2. /\ Typed(ix') /\ ix'.exists /\ ix'.given = lines /\ ix'.todo = lines /\ ix'.phase = "lines"
        /\ ix'.rows = {}
    BY <1>1, <1>3, <2>1 DEF IInv, Typed, Accounted
  <2>3. Len(lines) \in Nat
    BY <2>1, LenProperties
  <2>4. Behind(lines, lines, 0)
    BY <2>3 DEF Behind
  <2>5. Names({}) = {} /\ NamesTo(lines, 0) = {} /\ FirstFiled({}, lines)
    <3>1. {j \in 1 .. 0 : Content[lines[j]].readable} = {}
      OBVIOUS
    <3> QED BY <3>1 DEF Names, NamesTo, FirstFiled
  <2>6. Upto(ix', 0)
    BY <2>2, <2>4, <2>5 DEF Upto
  <2> QED BY <2>2, <2>6 DEF IInv, InFile, Accounted, Hashed
<1> QED BY <1>2, <1>3

(* A step that touches neither the lists nor the rows.                     *)
LEMMA SameLists ==
  ASSUME IInv, ix.exists, Typed(ix'), InFile(ix'),
         ix'.rows = ix.rows, ix'.exists = ix.exists, ix'.given = ix.given, ix'.todo = ix.todo
  PROVE  IInv'
BY DEF IInv, Accounted, Upto, Hashed

(* when a line is taken off the list,                                      *)
LEMMA NextLineKeeps == ASSUME IInv, NextLine PROVE IInv'
<1> DEFINE path == Head(ix.todo)
<1>1. ix.phase = "lines" /\ ix.todo # <<>> /\ ix.todo \in Seq(Paths) /\ ix.exists
  BY DEF NextLine, IInv, Typed, Accounted
<1>2. path \in Paths /\ Tail(ix.todo) \in Seq(Paths)
  BY <1>1, HeadAndTail
<1>3. Content[path].readable \in BOOLEAN /\ Content[path].buffers \in Seq(ToSet(Content[path].buffers)) \ {<<>>}
  BY <1>2, IndexerInputs DEF Paths
<1>4. CASE Content[path].readable
  <2>1. ix' = [ix EXCEPT !.err = "OK", !.cur = CurrentZero, !.n = 0, !.phase = "read"]
    BY <1>4 DEF NextLine, Now, Opened
  <2>2. 0 < Len(Content[path].buffers)
    BY <1>3, EmptySeq
  <2>3. /\ ix'.phase = "read" /\ ix'.n = 0 /\ ix'.todo = ix.todo /\ ix'.rows = ix.rows
        /\ ix'.given = ix.given /\ ix'.exists = ix.exists /\ Typed(ix')
    BY <2>1 DEF IInv, Typed
  <2>4. InFile(ix')
    BY <1>1, <1>3, <1>4, <2>2, <2>3, EmptySeq DEF InFile
  <2> QED BY <1>1, <2>3, <2>4, SameLists
<1>5. CASE ~Content[path].readable
  <2>1. ix' = [ix EXCEPT !.err = "ERR_OPEN", !.todo = Tail(@)]
    BY <1>5 DEF NextLine, Now
  <2>2. PICK k : Upto(ix, k)
    BY <1>1 DEF IInv, Accounted
  <2>3. Typed(ix')
    BY <1>1, <1>2, <2>1 DEF IInv, Typed
  <2>4. InFile(ix')
    BY <1>1, <2>1 DEF IInv, Typed, InFile
  <2>5. Accounted(ix')
    <3>1. /\ ix'.todo = Tail(ix.todo) /\ ix'.given = ix.given /\ ix'.rows = ix.rows /\ ix'.exists
          /\ ix.given \in Seq(Paths)
      BY <1>1, <2>1 DEF IInv, Typed
    <3>2. Behind(Tail(ix.todo), ix.given, k + 1) /\ NamesTo(ix.given, k + 1) = NamesTo(ix.given, k)
      <4>1. Behind(ix.todo, ix.given, k)
        BY <2>2 DEF Upto
      <4>2. /\ Behind(Tail(ix.todo), ix.given, k + 1)
            /\ NamesTo(ix.given, k + 1) =
                 NamesTo(ix.given, k) \cup (IF Content[path].readable THEN {Stored[path]} ELSE {})
        BY Zenon, <1>1, <3>1, <4>1, OneMoreLine
      <4> QED BY <1>5, <4>2
    <3>3. Upto(ix', k + 1)
      BY <2>2, <3>1, <3>2 DEF Upto
    <3> QED BY <3>1, <3>3 DEF IInv, Accounted
  <2> QED BY <1>1, <2>1, <2>3, <2>4, <2>5 DEF IInv, Typed, Hashed
<1> QED BY <1>3, <1>4, <1>5

(* Reading and parsing touch neither the lists nor the rows.               *)
LEMMA ParsingKeeps ==
  ASSUME IInv, ReadBuffer \/ Callback \/ ParseFails \/ ParseReturns
  PROVE  IInv'
<1> DEFINE buffers == Content[Head(ix.todo)].buffers
<1>1. Head(ix.todo) \in Paths /\ Len(buffers) \in Nat
  <2>1. ix.phase \in {"read", "parse"}
    BY DEF ReadBuffer, Callback, ParseFails, ParseReturns
  <2>2. ix.todo \in Seq(Paths) /\ ix.todo # <<>>
    BY <2>1 DEF IInv, Typed, InFile
  <2>3. Head(ix.todo) \in Paths
    BY <2>2, HeadAndTail
  <2> QED BY <2>3, IndexerInputs, LenProperties DEF Paths
<1>2. ix.exists /\ ix.todo # <<>> /\ Content[Head(ix.todo)].readable /\ ix.n <= Len(buffers) /\ ix.n \in Nat
  BY DEF ReadBuffer, Callback, ParseFails, ParseReturns, IInv, Typed, InFile, Accounted
<1>3. CASE ReadBuffer
  <2>0. PICK m \in Nat : m = ix.n + 1
    BY <1>2
  <2>1. PICK left, cur : ix' = [ix EXCEPT !.n = m, !.left = left, !.phase = "parse", !.cur = cur]
    <3>1. ix' = [ix EXCEPT !.n = ix.n + 1, !.left = Now.buffers[ix.n + 1], !.phase = "parse",
                           !.cur = [ix.cur EXCEPT !.raw = IF ix.n = 0 THEN Now.raw ELSE ix.cur.raw]]
      BY <1>3, Zenon DEF ReadBuffer
    <3> QED BY <2>0, <3>1
  <2>2. /\ ix'.phase = "parse" /\ ix'.n = m /\ ix'.todo = ix.todo /\ ix'.rows = ix.rows
        /\ ix'.given = ix.given /\ ix'.exists = ix.exists /\ Typed(ix')
    BY <1>2, <2>1 DEF IInv, Typed
  <2>3. ix.n < Len(buffers)
    BY <1>3 DEF ReadBuffer, IInv, InFile
  <2>4. InFile(ix')
    BY <1>1, <1>2, <2>0, <2>2, <2>3 DEF InFile
  <2> QED BY <1>2, <2>2, <2>4, SameLists
<1>4. CASE Callback
  BY <1>1, <1>4 DEF Callback, IInv, Typed, InFile, Accounted, Upto, Hashed
<1>5. CASE ParseFails
  BY <1>1, <1>5 DEF ParseFails, IInv, Typed, InFile, Accounted, Upto, Hashed
<1>6. CASE ParseReturns
  <2>1. /\ ix'.n = ix.n /\ ix'.todo = ix.todo /\ ix'.rows = ix.rows
        /\ ix'.given = ix.given /\ ix'.exists = ix.exists /\ Typed(ix')
    BY <1>2, <1>6 DEF ParseReturns, IInv, Typed
  <2>2. IF ix.n < Len(buffers) THEN ix'.phase = "read" ELSE ix'.phase = "insert"
    BY <1>6 DEF ParseReturns, Now, IInv, Typed
  <2>3. InFile(ix')
    BY <1>1, <1>2, <2>1, <2>2 DEF InFile
  <2> QED BY <1>2, <2>1, <2>3, SameLists
<1> QED BY <1>3, <1>4, <1>5, <1>6

(* A row takes its path from the lines still to be done to the database.   *)
LEMMA InsertKeeps == ASSUME IInv, Insert PROVE IInv'
<1> DEFINE path == Head(ix.todo)
           row == [file |-> path, hash |-> Hash(Now.buffers, ix.n), status |-> ix.err, cur |-> ix.cur]
           new == IF \E r \in ix.rows : Stored[r.file] = Stored[row.file] THEN {} ELSE {row}
<1>1. /\ ix.phase = "insert" /\ ix.todo # <<>> /\ ix.todo \in Seq(Paths) /\ ix.exists
      /\ Content[path].readable
  BY DEF Insert, IInv, Typed, InFile, Accounted
<1>2. path \in Paths /\ Tail(ix.todo) \in Seq(Paths)
  BY <1>1, HeadAndTail
<1>3. ix' = [ix EXCEPT !.rows = ix.rows \cup new, !.phase = "lines", !.todo = Tail(ix.todo)]
  BY DEF Insert, AfterRow, IInv, Typed
<1>4. Names(ix.rows \cup new) = Names(ix.rows) \cup {Stored[path]}
  <2>1. row.file = path
    OBVIOUS
  <2>2. CASE \E r \in ix.rows : Stored[r.file] = Stored[row.file]
    <3>1. new = {} /\ Stored[path] \in Names(ix.rows)
      BY <2>1, <2>2 DEF Names
    <3>2. ix.rows \cup new = ix.rows
      BY <3>1
    <3> QED BY <3>1, <3>2
  <2>3. CASE ~\E r \in ix.rows : Stored[r.file] = Stored[row.file]
    <3>1. new = {row}
      BY <2>3
    <3> HIDE DEF new, row
    <3> QED BY <2>1, <3>1 DEF Names
  <2> QED BY <2>2, <2>3
<1>5. PICK k : Upto(ix, k)
  BY <1>1 DEF IInv, Accounted
<1>6. Typed(ix')
  BY <1>1, <1>2, <1>3 DEF IInv, Typed
<1>7. InFile(ix')
  BY <1>1, <1>3 DEF IInv, Typed, InFile
<1>8. Accounted(ix')
  <2>1. ix'.rows = ix.rows \cup new /\ ix'.todo = Tail(ix.todo) /\ ix'.given = ix.given /\ ix'.exists
    BY <1>1, <1>3 DEF IInv, Typed
  <2>2. row.file = path
    OBVIOUS
  <2>3. new \subseteq {row} /\ (new # {} => \A r \in ix.rows : Stored[r.file] # Stored[path])
    BY <2>2
  <2> HIDE DEF row, new
  <2>4. ix.given \in Seq(Paths) /\ Behind(ix.todo, ix.given, k)
    BY <1>5 DEF IInv, Typed, Upto
  <2>5. /\ Behind(Tail(ix.todo), ix.given, k + 1) /\ ix.given[k + 1] = path
        /\ NamesTo(ix.given, k + 1) = NamesTo(ix.given, k) \cup {Stored[path]}
    BY <1>1, <2>4, OneMoreLine
  <2>6. Names(ix'.rows) = NamesTo(ix'.given, k + 1)
    BY <1>4, <1>5, <2>1, <2>5 DEF Upto
  <2>7. ASSUME new # {} PROVE k + 1 \in 1 .. Len(ix.given) /\ IsFirst(ix.given, k + 1)
    <3>1. k \in Nat /\ k + 1 \in 1 .. Len(ix.given)
      BY <2>4, <2>5, LenProperties DEF Behind
    <3>2. ASSUME NEW j \in 1 .. (k + 1) - 1, Content[ix.given[j]].readable
          PROVE  Stored[ix.given[j]] # Stored[ix.given[k + 1]]
      <4>1. j \in 1 .. k
        BY <3>1
      <4>2. Stored[ix.given[j]] \in Names(ix.rows)
        BY <1>5, <3>2, <4>1 DEF Upto, NamesTo
      <4>3. PICK r \in ix.rows : Stored[r.file] = Stored[ix.given[j]]
        BY <4>2 DEF Names
      <4> QED BY <2>3, <2>5, <2>7, <4>3
    <3> QED BY <1>1, <2>5, <3>1, <3>2 DEF IsFirst
  <2>8. FirstFiled(ix'.rows, ix'.given)
    BY <1>5, <2>1, <2>2, <2>3, <2>5, <2>7 DEF Upto, FirstFiled
  <2>9. Upto(ix', k + 1)
    BY <2>1, <2>5, <2>6, <2>8 DEF Upto
  <2>10. ASSUME NEW r \in ix.rows \cup new, NEW s \in ix.rows \cup new, Stored[r.file] = Stored[s.file] PROVE r = s
    BY <2>2, <2>3, <2>10 DEF IInv, Accounted
  <2> QED BY <2>1, <2>9, <2>10 DEF Accounted
<1>9. Hashed(ix')
  <2>1. ix.err = "OK" => Hash(Now.buffers, ix.n) = Content[path].buffers
    <3>1. Content[path].buffers \in Seq(ToSet(Content[path].buffers))
      BY <1>2, IndexerInputs DEF Paths
    <3> QED BY <1>1, <3>1, SubSeqFull DEF Hash, Now, IInv, InFile
  <2>2. row.file = path /\ row.hash = Hash(Now.buffers, ix.n) /\ row.status = ix.err
    OBVIOUS
  <2>3. ix'.rows = ix.rows \cup new
    BY <1>3 DEF IInv, Typed
  <2> QED BY <1>2, <2>1, <2>2, <2>3 DEF IInv, Hashed
<1> QED BY <1>6, <1>7, <1>8, <1>9 DEF IInv

(* when the list is at its end,                                            *)
LEMMA IndexEndsKeeps == ASSUME IInv, IndexEnds PROVE IInv'
BY DEF IndexEnds, IInv, Typed, InFile, Accounted, Upto, Hashed

(* and by a query.                                                         *)
LEMMA QueryKeeps == ASSUME IInv, Query PROVE IInv'
<1>1. CASE ~ix.exists
  BY <1>1 DEF Query, IInv, Typed, InFile, Accounted, Upto, Hashed
<1>2. CASE ix.exists
  <2>1. PICK found, asked : ix' = [ix EXCEPT !.found = found, !.exit = "OK", !.asked = asked]
    BY <1>2 DEF Query
  <2> QED BY <2>1 DEF IInv, Typed, InFile, Accounted, Upto, Hashed
<1> QED BY <1>1, <1>2 DEF IInv, Typed

(* It holds before anything is indexed.                                    *)
LEMMA InitIInv == ASSUME ix = IndexerIdle PROVE IInv
<1>1. <<>> \in Seq(Paths)
  BY EmptySeq
<1>2. ix.rows = {} /\ ix.exists = FALSE /\ ix.phase = "idle" /\ ix.todo = <<>> /\ ix.given = <<>> /\ ix.n = 0
  BY DEF IndexerIdle
<1>3. Typed(ix)
  BY <1>1, <1>2 DEF Typed, IndexerIdle
<1> QED BY <1>2, <1>3 DEF IInv, InFile, Accounted, Hashed

(* Every step of the commands keeps the inductive invariant.               *)
LEMMA Invariance == IndexSpec => []IInv
<1>1. ix = IndexerIdle => IInv
  BY InitIInv
<1>2. IInv /\ [IndexNext]_ix => IInv'
  <2>1. ASSUME IInv, IndexNext PROVE IInv'
    BY <2>1, StartIndexKeeps, NextLineKeeps, ParsingKeeps, InsertKeeps, IndexEndsKeeps, QueryKeeps DEF IndexNext
  <2>2. ASSUME IInv, UNCHANGED ix PROVE IInv'
    BY <2>2 DEF IInv
  <2> QED BY <2>1, <2>2
<1> QED BY <1>1, <1>2, PTL DEF IndexSpec

(* Whatever the files hold, however often one is named and whichever lines *)
(* fail: when the command is done each name that the database can keep of  *)
(* a file that could be read has one row, that of the file named first     *)
(* (cmd_index, xml_index; the column file is a number where a path is one).*)
THEOREM RowsAreComplete == IndexSpec => []FirstOfEachName
<1>1. IInv => FirstOfEachName
  <2> SUFFICES ASSUME IInv, ix.exists, ix.phase = "idle"
      PROVE /\ {Stored[r.file] : r \in ix.rows} = {Stored[p] : p \in {q \in ToSet(ix.given) : Content[q].readable}}
            /\ \A r, s \in ix.rows : Stored[r.file] = Stored[s.file] => r = s
            /\ \A r \in ix.rows : \E i \in 1 .. Len(ix.given) : r.file = ix.given[i] /\ IsFirst(ix.given, i)
    BY DEF FirstOfEachName
  <2>1. PICK k : Upto(ix, k)
    BY DEF IInv, Accounted
  <2>2. ix.todo = <<>> /\ Len(ix.given) \in Nat /\ DOMAIN ix.given = 1 .. Len(ix.given)
    BY LenProperties DEF IInv, InFile, Typed
  <2>3. k = Len(ix.given)
    <3>1. Len(ix.todo) = 0
      BY <2>2
    <3> QED BY <2>1, <2>2, <3>1 DEF Upto, Behind
  <2>4. {Stored[r.file] : r \in ix.rows} = NamesTo(ix.given, Len(ix.given))
    BY <2>1, <2>3 DEF Upto, Names
  <2>5. NamesTo(ix.given, Len(ix.given)) = {Stored[p] : p \in {q \in ToSet(ix.given) : Content[q].readable}}
    BY <2>2 DEF NamesTo, ToSet
  <2> QED BY <2>1, <2>4, <2>5 DEF IInv, Accounted, Upto, FirstFiled
<1> QED BY <1>1, Invariance, PTL

-----------------------------------------------------------------------------
(* A query's answer: one file of each group of equal texts.                *)
LEMMA QueryAnswers == ASSUME IInv, Query, ix.exists, ix'.asked = "each once" PROVE Answered(ix')
<1> DEFINE ok == {r \in ix.rows : r.status = "OK"}
           Same(r) == {s \in ok : /\ Stored[s.file] \in ix'.found
                                  /\ Content[s.file].buffers = Content[r.file].buffers}
<1>1. PICK g \in Groups(ok) : ix' = [ix EXCEPT !.found = {Stored[r.file] : r \in g}, !.exit = "OK", !.asked = "each once"]
  <2>0. PICK errors \in BOOLEAN, dupes \in BOOLEAN : \E rows \in Answers(errors, dupes) :
          ix' = [ix EXCEPT !.found = {Stored[r.file] : r \in rows}, !.exit = "OK",
                           !.asked = IF errors \/ dupes THEN "more" ELSE "each once"]
    BY DEF Query
  <2>1. PICK rows \in Answers(errors, dupes) :
          ix' = [ix EXCEPT !.found = {Stored[r.file] : r \in rows}, !.exit = "OK",
                           !.asked = IF errors \/ dupes THEN "more" ELSE "each once"]
    BY <2>0
  <2>2. ix'.asked = IF errors \/ dupes THEN "more" ELSE "each once"
    BY <2>1 DEF IInv, Typed
  <2>3. errors = FALSE /\ dupes = FALSE
    BY <2>2
  <2>4. Answers(FALSE, FALSE) = Groups(ok)
    BY DEF Answers
  <2> QED BY <2>1, <2>3, <2>4
<1>2. ix'.found = {Stored[r.file] : r \in g} /\ ix'.rows = ix.rows
  BY <1>1 DEF IInv, Typed
<1>3. /\ g \subseteq ok /\ {r.hash : r \in g} = {r.hash : r \in ok}
      /\ \A r, s \in g : r.hash = s.hash => r = s
  BY DEF Groups
<1>4. ASSUME NEW r \in ok PROVE \E s : Same(r) = {s}
  <2>1. PICK s \in g : s.hash = r.hash
    <3>1. r.hash \in {t.hash : t \in g}
      BY <1>3
    <3> QED BY <3>1
  <2>2. \A t \in ok : t.hash = Content[t.file].buffers
    BY DEF IInv, Hashed
  <2>3. s \in Same(r)
    BY <1>2, <1>3, <2>1, <2>2
  <2>4. ASSUME NEW q \in Same(r) PROVE q = s
    <3>1. q \in ok /\ Stored[q.file] \in ix'.found /\ Content[q.file].buffers = Content[r.file].buffers
      OBVIOUS
    <3>2. PICK t \in g : Stored[t.file] = Stored[q.file]
      BY <1>2, <3>1
    <3>3. t = q
      BY <1>3, <3>1, <3>2 DEF IInv, Accounted
    <3>4. q.hash = s.hash
      BY <2>1, <2>2, <3>1
    <3> QED BY <1>3, <3>3, <3>4
  <2> HIDE DEF Same
  <2>5. Same(r) = {s}
    BY <2>3, <2>4
  <2> QED BY <2>5
<1>5. ix'.found \subseteq {Stored[r.file] : r \in ok}
  BY <1>2, <1>3
<1>6. \A r \in ok : Cardinality(Same(r)) = 1
  <2> HIDE DEF Same
  <2> QED BY <1>4, FS_Singleton
<1> QED BY <1>2, <1>5, <1>6 DEF Answered

(* Whatever was indexed, and in which order, a query without options lists *)
(* every distinct text of a row that parsed once, and no other             *)
(* (cmd_query).                                                            *)
THEOREM QueriesAreExact == IndexSpec => []QueryListsEachOnce
<1> DEFINE QInv == Answered(ix) /\ (ix.asked = "each once" => ix.phase = "idle" /\ ix.exists)
<1>1. ix = IndexerIdle => QInv
  BY DEF IndexerIdle, Answered
<1>2. IInv /\ QInv /\ [IndexNext]_ix => QInv'
  <2>1. ASSUME IInv, QInv, StartIndex PROVE QInv'
    <3>1. CASE ix.exists
      <4>1. ix'.asked = "nothing"
        BY <2>1, <3>1 DEF StartIndex, IInv, Typed
      <4> QED BY <4>1 DEF Answered
    <3>2. CASE ~ix.exists
      <4>1. ix'.asked # "each once"
        BY <2>1, <3>2 DEF StartIndex, IInv, Typed
      <4> QED BY <4>1 DEF Answered
    <3> QED BY <3>1, <3>2
  <2>2. ASSUME IInv, QInv, NextLine \/ ReadBuffer \/ Callback \/ ParseFails \/ ParseReturns \/ Insert \/ IndexEnds
        PROVE  ix'.asked # "each once"
    <3>1. CASE NextLine
      BY <2>2, <3>1 DEF NextLine, Opened, IInv, Typed
    <3>2. CASE ReadBuffer \/ Callback \/ ParseFails \/ ParseReturns
      BY <2>2, <3>2 DEF ReadBuffer, Callback, ParseFails, ParseReturns, IInv, Typed
    <3>3. CASE Insert
      BY <2>2, <3>3 DEF Insert, AfterRow, IInv, Typed
    <3>4. CASE IndexEnds
      BY <2>2, <3>4 DEF IndexEnds, IInv, Typed
    <3> QED BY <2>2, <3>1, <3>2, <3>3, <3>4
  <2>3. ASSUME IInv, QInv, Query PROVE QInv'
    <3>1. CASE ~ix.exists
      <4>1. ix'.asked # "each once"
        BY <2>3, <3>1 DEF Query, IInv, Typed
      <4> QED BY <4>1 DEF Answered
    <3>2. CASE ix.exists
      <4>1. ix'.asked = "each once" => Answered(ix')
        BY <2>3, <3>2, QueryAnswers
      <4>2. ix'.phase = "idle" /\ ix'.exists
        <5>1. PICK found, asked : ix' = [ix EXCEPT !.found = found, !.exit = "OK", !.asked = asked]
          BY <2>3, <3>2 DEF Query
        <5>2. ix'.phase = ix.phase /\ ix'.exists = ix.exists
          BY <2>3, <5>1 DEF IInv, Typed
        <5> QED BY <2>3, <3>2, <5>2 DEF Query
      <4> QED BY <4>1, <4>2 DEF Answered
    <3>3. ix.exists \in BOOLEAN
      BY <2>3 DEF IInv, Typed
    <3> QED BY <3>1, <3>2, <3>3
  <2>4. ASSUME QInv, UNCHANGED ix PROVE QInv'
    BY <2>4
  <2> QED BY <2>1, <2>2, <2>3, <2>4 DEF IndexNext, Answered
<1>3. QInv => QueryListsEachOnce
  BY DEF Answered, QueryListsEachOnce
<1> QED BY <1>1, <1>2, <1>3, Invariance, PTL DEF IndexSpec

-----------------------------------------------------------------------------
(* indexer: how a text is cut into buffers.                                *)

(* The buffers end where ends says, if together they are the sequence all. *)
Cut(buffers, all, ends) ==
  /\ ends \in [0 .. Len(buffers) -> 0 .. Len(all)] /\ ends[0] = 0 /\ ends[Len(buffers)] = Len(all)
  /\ \A m \in 1 .. Len(buffers) :
       ends[m] = ends[m - 1] + Len(buffers[m]) /\ \A i \in 1 .. Len(buffers[m]) : all[ends[m - 1] + i] = buffers[m][i]

(* What has been put together of the buffers, after each of them.          *)
LEMMA FlattenSteps ==
  ASSUME NEW E, NEW buffers \in Seq(Seq(E)), buffers # <<>>
  PROVE  \E f \in [1 .. Len(buffers) -> Seq(E)] :
           /\ f[1] = buffers[1] /\ \A i \in 2 .. Len(buffers) : f[i] = f[i - 1] \o buffers[i]
           /\ FlattenSeq(buffers) = f[Len(buffers)]
<1> DEFINE N == Len(buffers)
           Good(f) == f = [i \in 1 .. N |-> IF i = 1 THEN buffers[i] ELSE f[i - 1] \o buffers[i]]
           flatten == CHOOSE f : Good(f)
           step == [i \in 1 .. N |-> [s \in Seq(E) |-> IF i = 1 THEN buffers[1] ELSE s \o buffers[i]]]
<1>1. N \in Nat /\ N >= 1 /\ \A i \in 1 .. N : buffers[i] \in Seq(E)
  BY EmptySeq, LenProperties, ElementOfSeq
<1>2. \A i \in 1 .. N, s \in Seq(E) : (IF i = 1 THEN buffers[1] ELSE s \o buffers[i]) \in Seq(E)
  BY <1>1, ConcatProperties
<1>3. step \in [1 .. N -> [Seq(E) -> Seq(E)]]
  BY <1>2
<1>4. FlattenSeq(buffers) = flatten[N]
  BY <1>1 DEF FlattenSeq
<1> HIDE DEF N
<1>5. PICK g \in [0 .. N -> Seq(E)] : g[0] = <<>> /\ \A i \in 1 .. N : g[i] = step[i][g[i - 1]]
  <2>1. <<>> \in Seq(E)
    BY EmptySeq
  <2>2. Recursions(N, Seq(E), <<>>, step) # {}
    <3> HIDE DEF step
    <3> QED BY <1>1, <1>3, <2>1, RecursionUpTo
  <2> QED BY <2>2 DEF Recursions
<1>6. \A i \in 1 .. N : g[i - 1] \in Seq(E) /\ g[i] = IF i = 1 THEN buffers[1] ELSE g[i - 1] \o buffers[i]
  <2> TAKE i \in 1 .. N
  <2>1. i - 1 \in 0 .. N
    BY <1>1
  <2>2. g[i - 1] \in Seq(E) /\ g[i] = step[i][g[i - 1]]
    BY <1>5, <2>1
  <2> QED BY <2>2
<1> HIDE DEF step
<1> DEFINE h == [i \in 1 .. N |-> g[i]]
<1>7. Good(h)
  <2>1. \A i \in 1 .. N : h[i] = IF i = 1 THEN buffers[i] ELSE h[i - 1] \o buffers[i]
    BY <1>1, <1>6
  <2> QED BY <2>1
<1> HIDE DEF h
<1>8. Good(flatten)
  <2> HIDE DEF Good
  <2> QED BY <1>7
<1> HIDE DEF flatten
<1>9. /\ DOMAIN flatten = 1 .. N
      /\ \A i \in 1 .. N : flatten[i] = IF i = 1 THEN buffers[i] ELSE flatten[i - 1] \o buffers[i]
  BY <1>8
<1>10. \A i \in 1 .. N : flatten[i] \in Seq(E)
  <2> DEFINE S == {i \in 0 .. N : i = 0 \/ flatten[i] \in Seq(E)}
  <2>1. 0 \in S
    BY <1>1
  <2>2. ASSUME NEW i \in 0 .. N - 1, i \in S PROVE i + 1 \in S
    <3>1. i + 1 \in 1 .. N /\ (i + 1) - 1 = i /\ (i + 1 = 1 <=> i = 0)
      BY <1>1
    <3>2. flatten[i + 1] = IF i = 0 THEN buffers[i + 1] ELSE flatten[i] \o buffers[i + 1]
      BY <1>9, <3>1
    <3>3. buffers[i + 1] \in Seq(E)
      BY <1>1, <3>1
    <3>4. i # 0 => flatten[i] \o buffers[i + 1] \in Seq(E)
      BY <2>2, <3>3, ConcatProperties
    <3>5. flatten[i + 1] \in Seq(E)
      BY <3>2, <3>3, <3>4
    <3> QED BY <3>1, <3>5
  <2>3. 0 .. N \subseteq S
    <3> HIDE DEF S
    <3> QED BY <1>1, <2>1, <2>2, InductionUpTo
  <2> QED BY <1>1, <2>3
<1>11. flatten \in [1 .. N -> Seq(E)]
  BY <1>8, <1>9, <1>10
<1>12. flatten[1] = buffers[1] /\ \A i \in 2 .. N : flatten[i] = flatten[i - 1] \o buffers[i]
  <2>1. 1 \in 1 .. N /\ \A i \in 2 .. N : i \in 1 .. N /\ i # 1
    BY <1>1
  <2> QED BY <1>9, <2>1
<1> QED BY <1>4, <1>11, <1>12 DEF N

(* The first part of a sequence, or all of it.                             *)
Begins(s, t) == Len(s) <= Len(t) /\ \A i \in 1 .. Len(s) : t[i] = s[i]

(* There are such ends.                                                    *)
LEMMA CutExists ==
  ASSUME NEW E, NEW buffers \in Seq(Seq(E)), buffers # <<>>
  PROVE  FlattenSeq(buffers) \in Seq(E) /\ \E ends : Cut(buffers, FlattenSeq(buffers), ends)
<1> DEFINE N == Len(buffers)
<1>1. N \in Nat /\ N >= 1 /\ \A i \in 1 .. N : buffers[i] \in Seq(E) /\ Len(buffers[i]) \in Nat
  BY EmptySeq, LenProperties, ElementOfSeq
<1>2. PICK f \in [1 .. N -> Seq(E)] :
        /\ f[1] = buffers[1] /\ \A i \in 2 .. N : f[i] = f[i - 1] \o buffers[i]
        /\ FlattenSeq(buffers) = f[N]
  BY FlattenSteps
<1> HIDE DEF N
<1> DEFINE all == f[N]
           ends == [m \in 0 .. N |-> IF m = 0 THEN 0 ELSE Len(f[m])]
<1>3. \A i \in 1 .. N : f[i] \in Seq(E) /\ Len(f[i]) \in Nat
  BY LenProperties
<1>4. ASSUME NEW i \in 2 .. N
      PROVE  /\ Len(f[i]) = Len(f[i - 1]) + Len(buffers[i]) /\ Begins(f[i - 1], f[i])
             /\ \A j \in 1 .. Len(buffers[i]) : f[i][Len(f[i - 1]) + j] = buffers[i][j]
  <2>1. i \in 1 .. N /\ i - 1 \in 1 .. N
    BY <1>1
  <2> DEFINE s == f[i - 1]
             t == buffers[i]
  <2>2. s \in Seq(E) /\ t \in Seq(E) /\ Len(s) \in Nat /\ Len(t) \in Nat
    BY <1>1, <1>3, <2>1
  <2>3. f[i] = s \o t
    BY <1>2
  <2> HIDE DEF s, t
  <2>4. /\ Len(s \o t) = Len(s) + Len(t)
        /\ \A k \in 1 .. Len(s) + Len(t) : (s \o t)[k] = IF k <= Len(s) THEN s[k] ELSE t[k - Len(s)]
    BY <2>2, ConcatProperties
  <2>5. \A j \in 1 .. Len(t) : (s \o t)[Len(s) + j] = t[j]
    BY <2>2, <2>4
  <2>6. Begins(s, s \o t)
    BY <2>2, <2>4 DEF Begins
  <2> QED BY <2>3, <2>4, <2>5, <2>6 DEF s, t
<1>5. \A m \in 1 .. N : Begins(f[m], all)
  <2> DEFINE S == {k \in 0 .. N - 1 : Begins(f[N - k], all)}
  <2>1. 0 \in S
    <3>1. N - 0 = N /\ 0 \in 0 .. N - 1 /\ Len(all) \in Nat
      BY <1>1, <1>3
    <3>2. Begins(all, all)
      BY <3>1 DEF Begins
    <3> QED BY <3>1, <3>2
  <2>2. ASSUME NEW k \in 0 .. (N - 1) - 1, k \in S PROVE k + 1 \in S
    <3> DEFINE m == N - k
    <3>1. m \in 2 .. N /\ m - 1 = N - (k + 1) /\ k + 1 \in 0 .. N - 1 /\ m \in 1 .. N /\ m - 1 \in 1 .. N
      BY <1>1
    <3>2. Begins(f[m - 1], f[m]) /\ Begins(f[m], all)
      BY <1>4, <3>1, <2>2
    <3>3. Len(f[m - 1]) \in Nat /\ Len(f[m]) \in Nat /\ Len(all) \in Nat
      BY <1>1, <1>3, <3>1
    <3> HIDE DEF m, all
    <3>4. Begins(f[m - 1], all)
      BY <3>2, <3>3 DEF Begins
    <3> QED BY <3>1, <3>4
  <2>3. 0 .. N - 1 \subseteq S
    <3>1. N - 1 \in Nat
      BY <1>1
    <3> HIDE DEF S
    <3> QED BY <3>1, <2>1, <2>2, InductionUpTo
  <2>4. ASSUME NEW m \in 1 .. N PROVE Begins(f[m], all)
    <3>1. N - m \in 0 .. N - 1 /\ N - (N - m) = m
      BY <1>1
    <3>2. N - m \in S
      BY <2>3, <3>1
    <3>3. Begins(f[N - (N - m)], all)
      BY <3>2
    <3> QED BY <3>1, <3>3
  <2> QED BY <2>4
<1>6. all \in Seq(E) /\ Len(all) \in Nat /\ \A m \in 1 .. N : Len(f[m]) <= Len(all)
  BY <1>1, <1>3, <1>5 DEF Begins
<1>7. ends \in [0 .. N -> 0 .. Len(all)] /\ ends[0] = 0 /\ ends[N] = Len(all)
  BY <1>1, <1>3, <1>6
<1>8. ASSUME NEW m \in 1 .. N
      PROVE  /\ ends[m] = ends[m - 1] + Len(buffers[m])
             /\ \A i \in 1 .. Len(buffers[m]) : all[ends[m - 1] + i] = buffers[m][i]
  <2>0. m \in 0 .. N /\ m - 1 \in 0 .. N /\ ends[m] = Len(f[m]) /\ Len(f[m]) \in Nat /\ Len(buffers[m]) \in Nat
    BY <1>1, <1>3
  <2>1. CASE m = 1
    <3>1. ends[m - 1] = 0 /\ f[m] = buffers[m]
      BY <1>1, <1>2, <2>1
    <3>2. Begins(f[m], all)
      BY <1>5
    <3>3. \A i \in 1 .. Len(buffers[m]) : all[0 + i] = buffers[m][i]
      BY <2>0, <3>1, <3>2 DEF Begins
    <3> HIDE DEF ends, all
    <3> QED BY <2>0, <3>1, <3>3
  <2>2. CASE m # 1
    <3>1. m \in 2 .. N /\ ends[m - 1] = Len(f[m - 1]) /\ Len(f[m - 1]) \in Nat
      BY <1>1, <1>3, <2>2
    <3>2. /\ Len(f[m]) = Len(f[m - 1]) + Len(buffers[m])
          /\ \A j \in 1 .. Len(buffers[m]) : f[m][Len(f[m - 1]) + j] = buffers[m][j]
      BY <1>4, <3>1
    <3>3. Begins(f[m], all)
      BY <1>5
    <3> HIDE DEF ends, all
    <3>4. \A j \in 1 .. Len(buffers[m]) : all[Len(f[m - 1]) + j] = buffers[m][j]
      <4> TAKE j \in 1 .. Len(buffers[m])
      <4>1. Len(f[m - 1]) + j \in 1 .. Len(f[m])
        BY <2>0, <3>1, <3>2
      <4>2. all[Len(f[m - 1]) + j] = f[m][Len(f[m - 1]) + j]
        BY <3>3, <4>1 DEF Begins
      <4> QED BY <3>2, <4>2
    <3> QED BY <2>0, <3>1, <3>2, <3>4
  <2> QED BY <2>1, <2>2
<1> HIDE DEF ends, all
<1>9. Cut(buffers, all, ends)
  BY <1>7, <1>8 DEF Cut, N
<1>10. FlattenSeq(buffers) = all
  BY <1>2 DEF all
<1> QED BY <1>6, <1>9, <1>10

-----------------------------------------------------------------------------
(* indexer: what the handlers count.                                       *)

(* The fields of struct current.                                           *)
Shape(cur) == cur = [count |-> cur.count, encoding |-> cur.encoding, raw |-> cur.raw] /\ cur.count \in [Counters -> Nat]

(* What the reference says, and the depth, which is no part of a row.      *)
Told(cur, events, n) == Shape(cur) /\ Tells(cur, events, n) /\ cur.count["depth"] = Open(events, n)

(* What is assumed of the events of a file.                                *)
Sound(events) ==
  /\ Len(events) \in Nat
  /\ \A i \in 1 .. Len(events) : events[i].is \in {"start", "comment"} => events[i].size \in Nat
  /\ \A n \in 0 .. Len(events) : Open(events, n) >= 0

(* The counters that are not those of CounterOf or of the references.      *)
Own == {"elems", "nselems", "attrs", "nsattrs", "comments", "comment_bytes", "comment_max", "depth", "max_depth"}

(* The counters of the kinds are different, and none is another's.         *)
LEMMA CounterNames ==
  /\ Own \subseteq Counters /\ References \subseteq Counters
  /\ \A e \in DOMAIN CounterOf : CounterOf[e] \in Counters /\ CounterOf[e] \notin Own /\ CounterOf[e] \notin References
  /\ \A e, f \in DOMAIN CounterOf : CounterOf[e] = CounterOf[f] => e = f
<1>1. DOMAIN CounterOf = {"pi", "cdata", "public", "system", "element", "attlist", "entity", "notation"}
  BY DEF CounterOf
<1>2. /\ CounterOf["pi"] = "pis" /\ CounterOf["cdata"] = "cdatas" /\ CounterOf["public"] = "dtds_public"
      /\ CounterOf["system"] = "dtds_system" /\ CounterOf["element"] = "dtd_elems"
      /\ CounterOf["attlist"] = "dtd_attlists" /\ CounterOf["entity"] = "dtd_entities"
      /\ CounterOf["notation"] = "notations"
  BY DEF CounterOf
<1> HIDE DEF CounterOf
<1>3. \A e, f \in DOMAIN CounterOf : CounterOf[e] = CounterOf[f] => e = f
  BY <1>1, <1>2
<1>4. \A e \in DOMAIN CounterOf : CounterOf[e] \in Counters /\ CounterOf[e] \notin Own /\ CounterOf[e] \notin References
  BY <1>1, <1>2 DEF Own, Counters, References
<1>5. Own \subseteq Counters /\ References \subseteq Counters
  BY DEF Own, Counters, References
<1> QED BY <1>3, <1>4, <1>5

(* Kinds without a counter of their own are the others.                    *)
LEMMA OwnKinds == {"start", "end", "decl", "comment", "error"} \cap DOMAIN CounterOf = {}
BY DEF CounterOf

(* One counter is increased, or raised.                                    *)
Counted(cur, k, to, new) ==
  /\ Shape(new) /\ new.encoding = cur.encoding /\ new.raw = cur.raw
  /\ \A x \in Counters : new.count[x] = IF x = k THEN to ELSE cur.count[x]

(* Nothing else changes with it.                                           *)
LEMMA BumpFacts ==
  ASSUME NEW cur, Shape(cur), NEW k \in Counters, NEW by \in Nat
  PROVE  Counted(cur, k, cur.count[k] + by, Bump(cur, k, by))
<1> DEFINE new == [cur.count EXCEPT ![k] = cur.count[k] + by]
<1>1. new \in [Counters -> Nat] /\ \A x \in Counters : new[x] = IF x = k THEN cur.count[k] + by ELSE cur.count[x]
  BY DEF Shape
<1>2. Bump(cur, k, by) = [count |-> new, encoding |-> cur.encoding, raw |-> cur.raw]
  BY DEF Bump, Shape
<1> HIDE DEF new
<1> QED BY <1>1, <1>2 DEF Shape, Counted

(* Nor here.                                                               *)
LEMMA RaiseFacts ==
  ASSUME NEW cur, Shape(cur), NEW k \in Counters, NEW to \in Nat
  PROVE  Counted(cur, k, IF cur.count[k] < to THEN to ELSE cur.count[k], Raise(cur, k, to))
<1> DEFINE new == [cur.count EXCEPT ![k] = IF cur.count[k] < to THEN to ELSE cur.count[k]]
<1>1. /\ new \in [Counters -> Nat]
      /\ \A x \in Counters : new[x] = IF x = k THEN IF cur.count[k] < to THEN to ELSE cur.count[k] ELSE cur.count[x]
  BY DEF Shape
<1>2. Raise(cur, k, to) = [count |-> new, encoding |-> cur.encoding, raw |-> cur.raw]
  BY DEF Raise, Shape
<1> HIDE DEF new
<1> QED BY <1>1, <1>2 DEF Shape, Counted

-----------------------------------------------------------------------------
(* indexer: the reference, an event further.                               *)

(* The next event is of the kind or not,                                   *)
LEMMA WhereGrows ==
  ASSUME NEW events, NEW kind, NEW n \in Nat
  PROVE  /\ IsFiniteSet(Where(events, kind, n)) /\ Cardinality(Where(events, kind, n)) \in Nat
         /\ IF events[n + 1].is = kind
            THEN /\ Where(events, kind, n + 1) = Where(events, kind, n) \cup {n + 1}
                 /\ Cardinality(Where(events, kind, n + 1)) = Cardinality(Where(events, kind, n)) + 1
            ELSE Where(events, kind, n + 1) = Where(events, kind, n)
<1> DEFINE W == Where(events, kind, n)
<1>1. IsFiniteSet(W) /\ Cardinality(W) \in Nat
  <2>1. IsFiniteSet(1 .. n)
    BY FS_Interval
  <2> QED BY <2>1, FS_Subset, FS_CardinalityType DEF Where
<1>2. Where(events, kind, n + 1) = IF events[n + 1].is = kind THEN W \cup {n + 1} ELSE W
  <2>1. 1 .. n + 1 = 1 .. n \cup {n + 1}
    OBVIOUS
  <2> QED BY <2>1 DEF Where
<1>3. Cardinality(W \cup {n + 1}) = Cardinality(W) + 1
  <2>1. n + 1 \notin W
    BY DEF Where
  <2> HIDE DEF W
  <2> QED BY <1>1, <2>1, FS_AddElement
<1> QED BY <1>1, <1>2, <1>3

(* Nothing is among the first none.                                        *)
LEMMA WhereEmpty ==
  ASSUME NEW events, NEW kind
  PROVE  Where(events, kind, 0) = {} /\ Cardinality(Where(events, kind, 0)) = 0
<1>1. Where(events, kind, 0) = {}
  BY DEF Where
<1> QED BY <1>1, FS_EmptySet

(* and opens an element, closes one, or neither.                           *)
LEMMA OpenGrows ==
  ASSUME NEW events, NEW n \in Nat
  PROVE  /\ Open(events, n) \in Int
         /\ events[n + 1].is = "start" => Open(events, n + 1) = Open(events, n) + 1
         /\ events[n + 1].is = "end" => Open(events, n + 1) = Open(events, n) - 1
         /\ events[n + 1].is \notin {"start", "end"} => Open(events, n + 1) = Open(events, n)
<1>1. "start" # "end"
  OBVIOUS
<1>2. Cardinality(Where(events, "start", n)) \in Nat /\ Cardinality(Where(events, "end", n)) \in Nat
  BY WhereGrows
<1>3. IF events[n + 1].is = "start"
      THEN Cardinality(Where(events, "start", n + 1)) = Cardinality(Where(events, "start", n)) + 1
      ELSE Cardinality(Where(events, "start", n + 1)) = Cardinality(Where(events, "start", n))
  BY WhereGrows
<1>4. IF events[n + 1].is = "end"
      THEN Cardinality(Where(events, "end", n + 1)) = Cardinality(Where(events, "end", n)) + 1
      ELSE Cardinality(Where(events, "end", n + 1)) = Cardinality(Where(events, "end", n))
  BY WhereGrows
<1> QED BY <1>1, <1>2, <1>3, <1>4 DEF Open

(* The sizes are added up one by one.                                      *)
LEMMA SizesGrow ==
  ASSUME NEW events, Sound(events), NEW kind \in {"start", "comment"}
  PROVE  /\ Sizes(events, kind)[0] = 0
         /\ \A n \in 1 .. Len(events) :
              Sizes(events, kind)[n] = Sizes(events, kind)[n - 1] + (IF events[n].is = kind THEN events[n].size ELSE 0)
         /\ \A n \in 0 .. Len(events) : Sizes(events, kind)[n] \in Nat
<1> DEFINE N == Len(events)
           size == [i \in 1 .. N |-> IF events[i].is = kind THEN events[i].size ELSE 0]
           Good(f) == f = [n \in 0 .. N |->
             IF n = 0 THEN 0 ELSE f[n - 1] + (IF events[n].is = kind THEN events[n].size ELSE 0)]
           sum == CHOOSE f : Good(f)
           step == [i \in 1 .. N |-> [s \in Nat |-> s + size[i]]]
<1>1. N \in Nat /\ \A i \in 1 .. N : size[i] \in Nat /\ size[i] = IF events[i].is = kind THEN events[i].size ELSE 0
  BY DEF Sound
<1>2. Sizes(events, kind) = sum
  BY DEF Sizes
<1> HIDE DEF N, size
<1>3. step \in [1 .. N -> [Nat -> Nat]]
  BY <1>1
<1>4. PICK g \in [0 .. N -> Nat] : g[0] = 0 /\ \A i \in 1 .. N : g[i] = step[i][g[i - 1]]
  <2>2. Recursions(N, Nat, 0, step) # {}
    <3> HIDE DEF step
    <3> QED BY <1>1, <1>3, RecursionUpTo
  <2> QED BY <2>2 DEF Recursions
<1>5. \A i \in 1 .. N : g[i] = g[i - 1] + size[i]
  <2> TAKE i \in 1 .. N
  <2>1. i - 1 \in 0 .. N
    BY <1>1
  <2>2. g[i - 1] \in Nat /\ g[i] = step[i][g[i - 1]]
    BY <1>4, <2>1
  <2> QED BY <2>2
<1>6. Good(g)
  <2>1. \A n \in 0 .. N : g[n] = IF n = 0 THEN 0 ELSE g[n - 1] + (IF events[n].is = kind THEN events[n].size ELSE 0)
    BY <1>1, <1>4, <1>5
  <2> QED BY <2>1
<1>7. Good(sum)
  <2> HIDE DEF Good
  <2> QED BY <1>6
<1> HIDE DEF sum
<1>8. /\ DOMAIN sum = 0 .. N /\ sum[0] = 0
      /\ \A n \in 1 .. N : sum[n] = sum[n - 1] + (IF events[n].is = kind THEN events[n].size ELSE 0)
  BY <1>1, <1>7
<1>9. \A n \in 0 .. N : sum[n] \in Nat
  <2> DEFINE S == {n \in 0 .. N : sum[n] \in Nat}
  <2>1. 0 \in S
    BY <1>1, <1>8
  <2>2. ASSUME NEW n \in 0 .. N - 1, n \in S PROVE n + 1 \in S
    <3>1. n + 1 \in 1 .. N /\ (n + 1) - 1 = n /\ n + 1 \in 0 .. N
      BY <1>1
    <3>2. sum[n + 1] = sum[n] + size[n + 1]
      BY <1>1, <1>8, <3>1
    <3>3. sum[n] \in Nat /\ size[n + 1] \in Nat
      BY <1>1, <2>2, <3>1
    <3>4. sum[n + 1] \in Nat
      BY <3>2, <3>3
    <3> QED BY <3>1, <3>4
  <2>3. 0 .. N \subseteq S
    <3> HIDE DEF S
    <3> QED BY <1>1, <2>1, <2>2, InductionUpTo
  <2> QED BY <2>3
<1> QED BY <1>2, <1>8, <1>9 DEF N

(* The largest, when a number is added.                                    *)
LEMMA LargestGrows ==
  ASSUME NEW S, S \subseteq Int, NEW m, IsLargest(m, S), NEW x \in Int
  PROVE  IsLargest(IF m < x THEN x ELSE m, S \cup {x})
BY DEF IsLargest

(* What an event e makes of the counters.                                  *)
Moved(cur, e, new) ==
  /\ Shape(new) /\ new.raw = cur.raw
  /\ new.encoding = IF e.is = "decl" THEN e.encoding ELSE cur.encoding
  /\ new.count["elems"] + new.count["nselems"]
       = cur.count["elems"] + cur.count["nselems"] + (IF e.is = "start" THEN 1 ELSE 0)
  /\ new.count["attrs"] + new.count["nsattrs"]
       = cur.count["attrs"] + cur.count["nsattrs"] + (IF e.is = "start" THEN e.size ELSE 0)
  /\ new.count["depth"] = cur.count["depth"] + (IF e.is = "start" THEN 1 ELSE IF e.is = "end" THEN -1 ELSE 0)
  /\ new.count["max_depth"]
       = IF e.is = "start" /\ cur.count["max_depth"] < cur.count["depth"] + 1 THEN cur.count["depth"] + 1
         ELSE cur.count["max_depth"]
  /\ new.count["comment_bytes"] = cur.count["comment_bytes"] + (IF e.is = "comment" THEN e.size ELSE 0)
  /\ new.count["comment_max"]
       = IF e.is = "comment" /\ cur.count["comment_max"] < e.size THEN e.size ELSE cur.count["comment_max"]
  /\ \A k \in DOMAIN CounterOf :
       new.count[CounterOf[k]] = cur.count[CounterOf[k]] + (IF e.is = k THEN 1 ELSE 0)

(* Stated, for Zenon does not know numbers.                                *)
LEMMA OneIsNatural == 1 \in Nat
OBVIOUS

(* What the handler of a start does,                                       *)
LEMMA StartMoves ==
  ASSUME NEW cur, Shape(cur), NEW e, e.is = "start", e.size \in Nat
  PROVE  Moved(cur, e, CountStart(cur, e))
<1> DEFINE elems == IF e.ns THEN "nselems" ELSE "elems"
           attrs == IF e.ns THEN "nsattrs" ELSE "attrs"
           a == Bump(cur, elems, 1)
           b == Bump(a, attrs, e.size)
           d == Bump(b, "depth", 1)
           new == Raise(d, "max_depth", d.count["depth"])
<1>1. /\ elems \in Own /\ attrs \in Own /\ elems \in Counters /\ attrs \in Counters
      /\ "depth" \in Counters /\ "max_depth" \in Counters
  BY CounterNames DEF Own
<1>2. CountStart(cur, e) = new
  BY DEF CountStart
<1>3. elems \in {"elems", "nselems"} /\ attrs \in {"attrs", "nsattrs"}
  OBVIOUS
<1> HIDE DEF elems, attrs, a
<1>4. Counted(cur, elems, cur.count[elems] + 1, a)
  BY <1>1, Zenon, BumpFacts, OneIsNatural DEF a
<1> HIDE DEF b
<1>5. Counted(a, attrs, a.count[attrs] + e.size, b)
  <2>1. Shape(a)
    BY <1>4 DEF Counted
  <2> QED BY <1>1, <2>1, Zenon, BumpFacts DEF b
<1> HIDE DEF d
<1>6. Counted(b, "depth", b.count["depth"] + 1, d)
  <2>1. Shape(b)
    BY <1>5 DEF Counted
  <2> QED BY <1>1, <2>1, Zenon, BumpFacts, OneIsNatural DEF d
<1> HIDE DEF new
<1>7. Shape(d) /\ d.count["depth"] \in Nat
  BY <1>1, <1>6 DEF Shape, Counted
<1>8. Counted(d, "max_depth",
              IF d.count["max_depth"] < d.count["depth"] THEN d.count["depth"] ELSE d.count["max_depth"], new)
  BY <1>1, <1>7, Zenon, RaiseFacts DEF new
<1> USE DEF Counted
<1>9. /\ cur.count \in [Counters -> Nat] /\ a.count \in [Counters -> Nat] /\ b.count \in [Counters -> Nat]
      /\ d.count \in [Counters -> Nat]
  BY <1>4, <1>5, <1>6 DEF Shape
<1>10. /\ "elems" \in Counters /\ "nselems" \in Counters /\ "attrs" \in Counters /\ "nsattrs" \in Counters
       /\ "comment_bytes" \in Counters /\ "comment_max" \in Counters
  BY CounterNames DEF Own
<1>11. new.count["elems"] + new.count["nselems"] = cur.count["elems"] + cur.count["nselems"] + 1
  BY <1>1, <1>3, <1>4, <1>5, <1>6, <1>8, <1>9, <1>10
<1>12. new.count["attrs"] + new.count["nsattrs"] = cur.count["attrs"] + cur.count["nsattrs"] + e.size
  BY <1>1, <1>3, <1>4, <1>5, <1>6, <1>8, <1>9, <1>10
<1>13. /\ new.count["depth"] = cur.count["depth"] + 1
       /\ new.count["max_depth"] = IF cur.count["max_depth"] < cur.count["depth"] + 1 THEN cur.count["depth"] + 1
                                   ELSE cur.count["max_depth"]
       /\ new.count["comment_bytes"] = cur.count["comment_bytes"] /\ new.count["comment_max"] = cur.count["comment_max"]
  BY <1>1, <1>3, <1>4, <1>5, <1>6, <1>8, <1>9, <1>10
<1>14. ASSUME NEW k \in DOMAIN CounterOf PROVE new.count[CounterOf[k]] = cur.count[CounterOf[k]]
  <2>1. CounterOf[k] \in Counters /\ CounterOf[k] \notin Own
    BY CounterNames
  <2>2. CounterOf[k] # elems /\ CounterOf[k] # attrs /\ CounterOf[k] # "depth" /\ CounterOf[k] # "max_depth"
    BY <1>1, <2>1 DEF Own
  <2> QED BY <1>4, <1>5, <1>6, <1>8, <2>1, <2>2
<1>15. \A k \in DOMAIN CounterOf : cur.count[CounterOf[k]] \in Nat /\ e.is # k
  BY <1>9, CounterNames, OwnKinds
<1>16. e.is # "decl" /\ e.is # "end" /\ e.is # "comment" /\ cur.count["comment_bytes"] \in Nat
  BY <1>9, <1>10
<1>17. Shape(new) /\ new.encoding = cur.encoding /\ new.raw = cur.raw
  BY <1>4, <1>5, <1>6, <1>8
<1>18. /\ cur.count["comment_max"] \in Nat /\ cur.count["depth"] \in Nat
       /\ \A k \in DOMAIN CounterOf : new.count[CounterOf[k]] = cur.count[CounterOf[k]] + (IF e.is = k THEN 1 ELSE 0)
  BY <1>1, <1>9, <1>10, <1>14, <1>15
<1> HIDE DEF Counted
<1>19. Moved(cur, e, new)
  BY <1>11, <1>12, <1>13, <1>16, <1>17, <1>18 DEF Moved
<1> QED BY <1>2, <1>19

(* that of a comment,                                                      *)
LEMMA CommentMoves ==
  ASSUME NEW cur, Shape(cur), NEW e, e.is = "comment", e.size \in Nat
  PROVE  Moved(cur, e, CountComment(cur, e))
<1> DEFINE a == Bump(cur, "comments", 1)
           b == Bump(a, "comment_bytes", e.size)
           new == Raise(b, "comment_max", e.size)
<1>1. CountComment(cur, e) = new
  BY DEF CountComment
<1>2. "comments" \in Counters /\ "comment_bytes" \in Counters /\ "comment_max" \in Counters
  BY CounterNames DEF Own
<1> HIDE DEF a
<1>4. Counted(cur, "comments", cur.count["comments"] + 1, a)
  BY <1>2, Zenon, BumpFacts, OneIsNatural DEF a
<1> HIDE DEF b
<1>5. Counted(a, "comment_bytes", a.count["comment_bytes"] + e.size, b)
  <2>1. Shape(a)
    BY <1>4 DEF Counted
  <2> QED BY <1>2, <2>1, Zenon, BumpFacts DEF b
<1> HIDE DEF new
<1>6. Counted(b, "comment_max", IF b.count["comment_max"] < e.size THEN e.size ELSE b.count["comment_max"], new)
  <2>1. Shape(b)
    BY <1>5 DEF Counted
  <2> QED BY <1>2, <2>1, Zenon, RaiseFacts DEF new
<1> USE DEF Counted
<1>7. cur.count \in [Counters -> Nat]
  BY DEF Shape
<1>8. /\ "elems" \in Counters /\ "nselems" \in Counters /\ "attrs" \in Counters /\ "nsattrs" \in Counters
      /\ "depth" \in Counters /\ "max_depth" \in Counters
  BY CounterNames DEF Own
<1>9. /\ new.count["elems"] = cur.count["elems"] /\ new.count["nselems"] = cur.count["nselems"]
      /\ new.count["attrs"] = cur.count["attrs"] /\ new.count["nsattrs"] = cur.count["nsattrs"]
      /\ new.count["depth"] = cur.count["depth"] /\ new.count["max_depth"] = cur.count["max_depth"]
      /\ new.count["comment_bytes"] = cur.count["comment_bytes"] + e.size
      /\ new.count["comment_max"] = IF cur.count["comment_max"] < e.size THEN e.size ELSE cur.count["comment_max"]
  BY <1>2, <1>4, <1>5, <1>6, <1>8
<1>10. ASSUME NEW k \in DOMAIN CounterOf PROVE new.count[CounterOf[k]] = cur.count[CounterOf[k]]
  <2>1. CounterOf[k] \in Counters /\ CounterOf[k] \notin Own
    BY CounterNames
  <2>2. CounterOf[k] # "comments" /\ CounterOf[k] # "comment_bytes" /\ CounterOf[k] # "comment_max"
    BY <2>1 DEF Own
  <2> QED BY <1>4, <1>5, <1>6, <2>1, <2>2
<1>11. \A k \in DOMAIN CounterOf : cur.count[CounterOf[k]] \in Nat /\ e.is # k
  BY <1>7, CounterNames, OwnKinds
<1>12. e.is # "decl" /\ e.is # "end" /\ e.is # "start" /\ \A x \in Counters : cur.count[x] \in Nat
  BY <1>7
<1>13. Shape(new) /\ new.encoding = cur.encoding /\ new.raw = cur.raw
  BY <1>4, <1>5, <1>6
<1>14. \A k \in DOMAIN CounterOf : new.count[CounterOf[k]] = cur.count[CounterOf[k]] + (IF e.is = k THEN 1 ELSE 0)
  BY <1>10, <1>11
<1> HIDE DEF Counted
<1>15. Moved(cur, e, new)
  BY <1>2, <1>8, <1>9, <1>12, <1>13, <1>14 DEF Moved
<1> QED BY <1>1, <1>15

(* those that only count,                                                  *)
LEMMA OneMoves ==
  ASSUME NEW cur, Shape(cur), NEW e, e.is \notin {"start", "end", "decl", "comment"},
         NEW k \in Counters, k \notin Own,
         \A x \in DOMAIN CounterOf : CounterOf[x] = k <=> e.is = x
  PROVE  Moved(cur, e, Bump(cur, k, 1))
<1> DEFINE new == Bump(cur, k, 1)
<1>1. Shape(new) /\ new.encoding = cur.encoding /\ new.raw = cur.raw
      /\ \A x \in Counters : new.count[x] = IF x = k THEN cur.count[k] + 1 ELSE cur.count[x]
  BY BumpFacts DEF Counted
<1> HIDE DEF new
<1>2. \A x \in Counters : cur.count[x] \in Nat
  BY DEF Shape
<1>3. \A x \in Own : x \in Counters /\ new.count[x] = cur.count[x] /\ cur.count[x] \in Nat
  BY <1>1, <1>2, CounterNames
<1>4. /\ "elems" \in Own /\ "nselems" \in Own /\ "attrs" \in Own /\ "nsattrs" \in Own /\ "depth" \in Own
      /\ "max_depth" \in Own /\ "comment_bytes" \in Own /\ "comment_max" \in Own
  BY DEF Own
<1>5. \A x \in DOMAIN CounterOf : new.count[CounterOf[x]] = cur.count[CounterOf[x]] + (IF e.is = x THEN 1 ELSE 0)
  <2> TAKE x \in DOMAIN CounterOf
  <2>1. CounterOf[x] \in Counters
    BY CounterNames
  <2> QED BY <1>1, <1>2, <2>1
<1>6. new.encoding = cur.encoding /\ new.raw = cur.raw /\ Shape(new)
  BY <1>1
<1>7. e.is # "start" /\ e.is # "end" /\ e.is # "decl" /\ e.is # "comment"
  OBVIOUS
<1>8. Moved(cur, e, new)
  BY <1>3, <1>4, <1>5, <1>6, <1>7 DEF Moved
<1> QED BY <1>8 DEF new

(* those that count nothing,                                               *)
LEMMA NoneMoves ==
  ASSUME NEW cur, Shape(cur), NEW e, e.is \notin {"start", "end", "decl", "comment"}, e.is \notin DOMAIN CounterOf
  PROVE  Moved(cur, e, cur)
<1>1. \A x \in Counters : cur.count[x] \in Nat
  BY DEF Shape
<1>2. \A x \in DOMAIN CounterOf : cur.count[CounterOf[x]] \in Nat /\ e.is # x
  BY <1>1, CounterNames
<1>3. /\ "elems" \in Counters /\ "nselems" \in Counters /\ "attrs" \in Counters /\ "nsattrs" \in Counters
      /\ "depth" \in Counters /\ "max_depth" \in Counters /\ "comment_bytes" \in Counters /\ "comment_max" \in Counters
  BY CounterNames DEF Own
<1>4. e.is # "start" /\ e.is # "end" /\ e.is # "decl" /\ e.is # "comment"
  OBVIOUS
<1> QED BY <1>1, <1>2, <1>3, <1>4 DEF Moved

(* that of the declaration,                                                *)
LEMMA DeclMoves ==
  ASSUME NEW cur, Shape(cur), NEW e, e.is = "decl"
  PROVE  Moved(cur, e, [cur EXCEPT !.encoding = e.encoding])
<1> DEFINE new == [cur EXCEPT !.encoding = e.encoding]
<1>1. Shape(new) /\ new.encoding = e.encoding /\ new.raw = cur.raw /\ new.count = cur.count
  BY DEF Shape
<1> HIDE DEF new
<1>2. \A x \in Counters : cur.count[x] \in Nat
  BY DEF Shape
<1>3. \A x \in DOMAIN CounterOf : cur.count[CounterOf[x]] \in Nat /\ e.is # x
  BY <1>2, CounterNames, OwnKinds
<1>4. /\ "elems" \in Counters /\ "nselems" \in Counters /\ "attrs" \in Counters /\ "nsattrs" \in Counters
      /\ "depth" \in Counters /\ "max_depth" \in Counters /\ "comment_bytes" \in Counters /\ "comment_max" \in Counters
  BY CounterNames DEF Own
<1>5. Moved(cur, e, new)
  BY <1>1, <1>2, <1>3, <1>4 DEF Moved
<1> QED BY <1>5 DEF new

(* and that of an end.                                                     *)
LEMMA EndMoves ==
  ASSUME NEW cur, Shape(cur), NEW e, e.is = "end", cur.count["depth"] >= 1
  PROVE  Moved(cur, e, CountEnd(cur))
<1> DEFINE count == [cur.count EXCEPT !["depth"] = cur.count["depth"] - 1]
           new == CountEnd(cur)
<1>1. \A x \in Counters : cur.count[x] \in Nat
  BY DEF Shape
<1>2. /\ "elems" \in Counters /\ "nselems" \in Counters /\ "attrs" \in Counters /\ "nsattrs" \in Counters
      /\ "depth" \in Counters /\ "max_depth" \in Counters /\ "comment_bytes" \in Counters /\ "comment_max" \in Counters
  BY CounterNames DEF Own
<1>3. /\ count \in [Counters -> Nat]
      /\ \A x \in Counters : count[x] = IF x = "depth" THEN cur.count[x] - 1 ELSE cur.count[x]
  BY <1>1, <1>2 DEF Shape
<1>4. new = [count |-> count, encoding |-> cur.encoding, raw |-> cur.raw]
  BY DEF CountEnd, Shape
<1> HIDE DEF new, count
<1>5. Shape(new) /\ new.encoding = cur.encoding /\ new.raw = cur.raw
      /\ \A x \in Counters : new.count[x] = IF x = "depth" THEN cur.count[x] - 1 ELSE cur.count[x]
  BY <1>3, <1>4 DEF Shape
<1>6. \A x \in DOMAIN CounterOf :
        new.count[CounterOf[x]] = cur.count[CounterOf[x]] /\ cur.count[CounterOf[x]] \in Nat /\ e.is # x
  <2> TAKE x \in DOMAIN CounterOf
  <2>1. CounterOf[x] \in Counters /\ CounterOf[x] # "depth"
    BY CounterNames DEF Own
  <2>2. e.is # x
    BY OwnKinds
  <2> QED BY <1>1, <1>5, <2>1, <2>2
<1>7. Moved(cur, e, new)
  BY <1>1, <1>2, <1>5, <1>6 DEF Moved
<1> QED BY <1>7 DEF new

(* Every handler moves the counters so.                                    *)
LEMMA HandledMoves ==
  ASSUME NEW cur, Shape(cur), NEW e, e.is \in {"start", "comment"} => e.size \in Nat,
         e.is = "end" => cur.count["depth"] >= 1
  PROVE  Moved(cur, e, Handled(cur, e))
<1>1. CASE e.is = "start"
  <2>1. Handled(cur, e) = CountStart(cur, e)
    BY <1>1, OwnKinds DEF Handled
  <2> QED BY <1>1, <2>1, StartMoves
<1>2. CASE e.is = "end"
  <2>1. Handled(cur, e) = CountEnd(cur)
    BY <1>2, OwnKinds DEF Handled
  <2> QED BY <1>2, <2>1, EndMoves
<1>3. CASE e.is = "decl"
  <2>1. Handled(cur, e) = [cur EXCEPT !.encoding = e.encoding]
    BY <1>3, OwnKinds DEF Handled
  <2> QED BY <1>3, <2>1, DeclMoves
<1>4. CASE e.is = "comment"
  <2>1. Handled(cur, e) = CountComment(cur, e)
    BY <1>4, OwnKinds DEF Handled
  <2> QED BY <1>4, <2>1, CommentMoves
<1>5. CASE e.is \notin {"start", "end", "decl", "comment"} /\ e.is \in DOMAIN CounterOf
  <2>1. Handled(cur, e) = Bump(cur, CounterOf[e.is], 1)
    BY <1>5 DEF Handled
  <2>2. /\ CounterOf[e.is] \in Counters /\ CounterOf[e.is] \notin Own
        /\ \A x \in DOMAIN CounterOf : CounterOf[x] = CounterOf[e.is] <=> e.is = x
    BY <1>5, CounterNames
  <2> QED BY <1>5, <2>1, <2>2, OneMoves
<1>6. CASE e.is \notin {"start", "end", "decl", "comment"} /\ e.is \notin DOMAIN CounterOf
  <2>1. Handled(cur, e) = CountDefault(cur, e)
    BY <1>6 DEF Handled
  <2>2. CASE e.is \in References /\ e.size > 3
    <3>1. CountDefault(cur, e) = Bump(cur, e.is, 1)
      BY <2>2 DEF CountDefault
    <3>2. /\ e.is \in Counters /\ e.is \notin Own
          /\ \A x \in DOMAIN CounterOf : CounterOf[x] = e.is <=> e.is = x
      <4>1. e.is \notin Own
        BY <2>2 DEF References, Own
      <4> QED BY <1>6, <2>2, <4>1, CounterNames
    <3> QED BY <1>6, <2>1, <3>1, <3>2, OneMoves
  <2>3. CASE ~(e.is \in References /\ e.size > 3)
    <3>1. CountDefault(cur, e) = cur
      BY <2>3 DEF CountDefault
    <3> QED BY <1>6, <2>1, <3>1, NoneMoves
  <2> QED BY <2>2, <2>3
<1> QED BY <1>1, <1>2, <1>3, <1>4, <1>5, <1>6

(* The levels that were open, and the lengths of comments.                 *)
Depths(events, n) == {0} \cup {Open(events, i) : i \in 1 .. n}

Lengths(events, n) == {0} \cup {events[i].size : i \in Where(events, "comment", n)}

(* One more of the one,                                                    *)
LEMMA DepthsGrow ==
  ASSUME NEW events, NEW n \in Nat
  PROVE  Depths(events, n) \subseteq Int /\ 0 \in Depths(events, n)
         /\ Depths(events, n + 1) = Depths(events, n) \cup {Open(events, n + 1)}
<1>1. \A i \in 1 .. n : Open(events, i) \in Int
  BY OpenGrows
<1>2. 1 .. n + 1 = 1 .. n \cup {n + 1}
  OBVIOUS
<1> QED BY <1>1, <1>2 DEF Depths

(* and perhaps of the other.                                               *)
LEMMA LengthsGrow ==
  ASSUME NEW events, Sound(events), NEW n \in 0 .. Len(events) - 1
  PROVE  Lengths(events, n) \subseteq Int /\ 0 \in Lengths(events, n)
         /\ Lengths(events, n + 1) =
              IF events[n + 1].is = "comment" THEN Lengths(events, n) \cup {events[n + 1].size} ELSE Lengths(events, n)
<1>1. Len(events) \in Nat /\ \A i \in Where(events, "comment", n) : events[i].size \in Nat
  BY DEF Where, Sound
<1>2. IF events[n + 1].is = "comment"
      THEN Where(events, "comment", n + 1) = Where(events, "comment", n) \cup {n + 1}
      ELSE Where(events, "comment", n + 1) = Where(events, "comment", n)
  BY <1>1, WhereGrows
<1> QED BY <1>1, <1>2 DEF Lengths

(* Nothing is told of nothing.                                             *)
LEMMA NothingTold ==
  ASSUME NEW events, Sound(events)
  PROVE  Told(CurrentZero, events, 0)
<1>1. /\ \A k \in Counters : CurrentZero.count[k] = 0
      /\ CurrentZero.encoding = "NULL" /\ Shape(CurrentZero)
  BY DEF CurrentZero, Shape
<1>2. /\ "elems" \in Counters /\ "nselems" \in Counters /\ "attrs" \in Counters /\ "nsattrs" \in Counters
      /\ "depth" \in Counters /\ "max_depth" \in Counters /\ "comment_bytes" \in Counters /\ "comment_max" \in Counters
  BY CounterNames DEF Own
<1>3. \A kind : Where(events, kind, 0) = {} /\ Cardinality(Where(events, kind, 0)) = 0
  BY WhereEmpty
<1>4. Open(events, 0) = 0
  BY <1>3 DEF Open
<1>5. Sizes(events, "start")[0] = 0 /\ Sizes(events, "comment")[0] = 0
  BY SizesGrow
<1>6. IsLargest(0, {0} \cup {Open(events, i) : i \in 1 .. 0})
  BY DEF IsLargest
<1>7. IsLargest(0, {0} \cup {events[i].size : i \in Where(events, "comment", 0)})
  BY <1>3 DEF IsLargest
<1>8. \A k \in DOMAIN CounterOf : CurrentZero.count[CounterOf[k]] = Cardinality(Where(events, k, 0))
  BY <1>1, <1>3, CounterNames
<1>9. Tells(CurrentZero, events, 0)
  BY <1>1, <1>2, <1>3, <1>5, <1>6, <1>7, <1>8 DEF Tells
<1> QED BY <1>1, <1>2, <1>4, <1>9 DEF Told

(* The counters keep up with the events.                                   *)
LEMMA StillTold ==
  ASSUME NEW events, Sound(events), NEW n \in 0 .. Len(events) - 1,
         NEW cur, Told(cur, events, n), NEW new, Moved(cur, events[n + 1], new)
  PROVE  Told(new, events, n + 1)
<1> DEFINE e == events[n + 1]
<1>1. n \in Nat /\ n + 1 \in 1 .. Len(events) /\ (n + 1) - 1 = n /\ n \in 0 .. Len(events) /\ n + 1 \in Nat
  BY DEF Sound
<1>2. \A x \in Counters : cur.count[x] \in Nat
  BY DEF Told, Shape
<1>3. /\ "elems" \in Counters /\ "nselems" \in Counters /\ "attrs" \in Counters /\ "nsattrs" \in Counters
      /\ "depth" \in Counters /\ "max_depth" \in Counters /\ "comment_bytes" \in Counters /\ "comment_max" \in Counters
  BY CounterNames DEF Own
<1>4. e.is \in {"start", "comment"} => e.size \in Nat
  BY <1>1 DEF Sound
<1>5. /\ Open(events, n) \in Int
      /\ Open(events, n + 1) = Open(events, n) + (IF e.is = "start" THEN 1 ELSE IF e.is = "end" THEN -1 ELSE 0)
  BY <1>1, OpenGrows
<1>6. new.count["depth"] = Open(events, n + 1)
  BY <1>5 DEF Told, Moved
<1>7. \A kind : Cardinality(Where(events, kind, n + 1))
                  = Cardinality(Where(events, kind, n)) + (IF e.is = kind THEN 1 ELSE 0)
  <2> TAKE kind
  <2> HIDE DEF e
  <2>1. /\ Cardinality(Where(events, kind, n)) \in Nat
        /\ IF e.is = kind THEN Cardinality(Where(events, kind, n + 1)) = Cardinality(Where(events, kind, n)) + 1
           ELSE Cardinality(Where(events, kind, n + 1)) = Cardinality(Where(events, kind, n))
    BY <1>1, WhereGrows DEF e
  <2> QED BY <2>1
<1>8. new.count["elems"] + new.count["nselems"] = Cardinality(Where(events, "start", n + 1))
  <2>1. cur.count["elems"] + cur.count["nselems"] = Cardinality(Where(events, "start", n))
    BY DEF Told, Tells
  <2> QED BY <1>7, <2>1 DEF Moved
<1>9. new.count["attrs"] + new.count["nsattrs"] = Sizes(events, "start")[n + 1]
  <2>1. cur.count["attrs"] + cur.count["nsattrs"] = Sizes(events, "start")[n]
    BY DEF Told, Tells
  <2>2. Sizes(events, "start")[n + 1] = Sizes(events, "start")[n] + (IF e.is = "start" THEN e.size ELSE 0)
    BY <1>1, SizesGrow
  <2> QED BY <2>1, <2>2 DEF Moved
<1>10. new.count["comment_bytes"] = Sizes(events, "comment")[n + 1]
  <2>1. cur.count["comment_bytes"] = Sizes(events, "comment")[n]
    BY DEF Told, Tells
  <2>2. Sizes(events, "comment")[n + 1] = Sizes(events, "comment")[n] + (IF e.is = "comment" THEN e.size ELSE 0)
    BY <1>1, SizesGrow
  <2> QED BY <2>1, <2>2 DEF Moved
<1>11. IsLargest(new.count["max_depth"], Depths(events, n + 1))
  <2> DEFINE m == cur.count["max_depth"]
             x == Open(events, n + 1)
             S == Depths(events, n)
  <2>1. IsLargest(m, S) /\ m \in Nat /\ cur.count["depth"] = Open(events, n)
    BY <1>2, <1>3 DEF Told, Tells, Depths
  <2>2. S \subseteq Int /\ 0 \in S /\ Depths(events, n + 1) = S \cup {x} /\ x \in Int
    BY <1>1, <1>5, DepthsGrow
  <2>3. IsLargest(IF m < x THEN x ELSE m, S \cup {x})
    <3> HIDE DEF m, x, S
    <3> QED BY <2>1, <2>2, LargestGrows
  <2>4. Open(events, n) <= m
    <3>1. Open(events, n) \in S
      <4>1. CASE n = 0
        <5>1. Open(events, 0) = 0
          BY WhereEmpty DEF Open
        <5> QED BY <4>1, <5>1 DEF Depths
      <4>2. CASE n # 0
        BY <1>1, <4>2 DEF Depths
      <4> QED BY <4>1, <4>2
    <3> QED BY <2>1, <3>1 DEF IsLargest
  <2>5. new.count["max_depth"] = IF m < x THEN x ELSE m
    BY <1>5, <2>1, <2>4 DEF Moved
  <2> QED BY <2>2, <2>3, <2>5
<1>12. IsLargest(new.count["comment_max"], Lengths(events, n + 1))
  <2> DEFINE m == cur.count["comment_max"]
             S == Lengths(events, n)
  <2>1. IsLargest(m, S) /\ m \in Nat
    BY <1>2, <1>3 DEF Told, Tells, Lengths
  <2>2. S \subseteq Int /\ Lengths(events, n + 1) = IF e.is = "comment" THEN S \cup {e.size} ELSE S
    BY LengthsGrow
  <2>3. CASE e.is = "comment"
    <3>1. new.count["comment_max"] = IF m < e.size THEN e.size ELSE m
      BY <2>3 DEF Moved
    <3>2. e.size \in Int
      BY <1>4, <2>3
    <3> HIDE DEF m, S, e
    <3>3. IsLargest(IF m < e.size THEN e.size ELSE m, S \cup {e.size})
      BY <2>1, <2>2, <3>2, LargestGrows
    <3> QED BY <2>2, <2>3, <3>1, <3>3
  <2>4. CASE e.is # "comment"
    <3>1. new.count["comment_max"] = m
      BY <2>4 DEF Moved
    <3> QED BY <2>1, <2>2, <2>4, <3>1
  <2> QED BY <2>3, <2>4
<1>13. \A k \in DOMAIN CounterOf : new.count[CounterOf[k]] = Cardinality(Where(events, k, n + 1))
  <2> TAKE k \in DOMAIN CounterOf
  <2>1. cur.count[CounterOf[k]] = Cardinality(Where(events, k, n))
    BY DEF Told, Tells
  <2>2. new.count[CounterOf[k]] = cur.count[CounterOf[k]] + (IF e.is = k THEN 1 ELSE 0)
    BY DEF Moved
  <2> QED BY <1>7, <2>1, <2>2
<1>14. /\ \A i \in Where(events, "decl", n + 1) :
            (\A j \in Where(events, "decl", n + 1) : j <= i) => new.encoding = events[i].encoding
       /\ Where(events, "decl", n + 1) = {} => new.encoding = "NULL"
  <2> DEFINE W == Where(events, "decl", n)
  <2>1. /\ \A i \in W : (\A j \in W : j <= i) => cur.encoding = events[i].encoding
        /\ W = {} => cur.encoding = "NULL"
    BY DEF Told, Tells
  <2>2. W \subseteq 1 .. n
    BY DEF Where
  <2>3. CASE e.is = "decl"
    <3>1. Where(events, "decl", n + 1) = W \cup {n + 1} /\ new.encoding = e.encoding
      BY <1>1, <2>3, WhereGrows DEF Moved
    <3>2. ASSUME NEW i \in W, \A j \in W \cup {n + 1} : j <= i PROVE FALSE
      <4>1. i \in 1 .. n
        BY <2>2
      <4>2. n + 1 <= i
        <5> HIDE DEF W
        <5> QED BY <3>2
      <4> QED BY <1>1, <4>1, <4>2
    <3> QED BY <3>1, <3>2
  <2>4. CASE e.is # "decl"
    <3>1. Where(events, "decl", n + 1) = W /\ new.encoding = cur.encoding
      BY <1>1, <2>4, WhereGrows DEF Moved
    <3> QED BY <2>1, <3>1
  <2> QED BY <2>3, <2>4
<1>15. Tells(new, events, n + 1)
  BY <1>8, <1>9, <1>10, <1>11, <1>12, <1>13, <1>14, Zenon DEF Tells, Depths, Lengths
<1>16. Shape(new)
  BY DEF Moved
<1> QED BY <1>6, <1>15, <1>16 DEF Told

(* An event that expat reports.                                            *)
LEMMA EventTold ==
  ASSUME NEW events, Sound(events), NEW n \in 0 .. Len(events) - 1, NEW cur, Told(cur, events, n)
  PROVE  Told(Handled(cur, events[n + 1]), events, n + 1) /\ Handled(cur, events[n + 1]).raw = cur.raw
<1> DEFINE e == events[n + 1]
<1>1. n \in Nat /\ n + 1 \in 1 .. Len(events) /\ n + 1 \in 0 .. Len(events)
  BY DEF Sound
<1>2. e.is \in {"start", "comment"} => e.size \in Nat
  BY <1>1 DEF Sound
<1>3. e.is = "end" => cur.count["depth"] >= 1
  <2>1. Open(events, n) \in Int /\ (e.is = "end" => Open(events, n + 1) = Open(events, n) - 1)
    BY <1>1, OpenGrows
  <2>2. Open(events, n + 1) >= 0
    BY <1>1 DEF Sound
  <2> QED BY <2>1, <2>2 DEF Told
<1>4. Shape(cur)
  BY DEF Told
<1>5. Moved(cur, e, Handled(cur, e))
  BY <1>2, <1>3, <1>4, HandledMoves
<1> QED BY <1>5, StillTold DEF Moved

(* The elements that are open were counted, and so the deepest of them.    *)
LEMMA ToldIsTyped ==
  ASSUME NEW events, Sound(events), NEW n \in 0 .. Len(events), NEW cur, Told(cur, events, n)
  PROVE  cur.count \in [Counters -> Nat] /\ cur.count["depth"] <= cur.count["max_depth"]
<1>1. n \in Nat
  BY DEF Sound
<1>2. Open(events, n) \in Depths(events, n)
  <2>1. CASE n = 0
    <3>1. Open(events, 0) = 0
      BY WhereEmpty DEF Open
    <3> QED BY <2>1, <3>1 DEF Depths
  <2>2. CASE n # 0
    BY <1>1, <2>2 DEF Depths
  <2> QED BY <2>1, <2>2
<1>3. IsLargest(cur.count["max_depth"], Depths(events, n)) /\ cur.count["depth"] = Open(events, n)
  BY DEF Told, Tells, Depths
<1> QED BY <1>2, <1>3 DEF Told, Shape, IsLargest

(* A file's events, where its buffers end among them, and what they are of.*)
Text(p) == FlattenSeq(Content[p].buffers)

EndsOf(p) == CHOOSE ends : Cut(Content[p].buffers, Text(p), ends)

EventsOf(p) == UNION {ToSet(b) : b \in ToSet(Content[p].buffers)}

(* d is in the file of the first line, of which k events were reported.    *)
Reached(d, k) ==
  LET p == Head(d.todo)
  IN /\ k \in 0 .. Len(Text(p)) /\ Told(d.cur, Text(p), k) /\ \A i \in 1 .. k : Text(p)[i].is # "error"
     /\ d.n > 0 => d.cur.raw = Content[p].raw
     /\ d.phase = "read" => d.err = "OK" /\ k = EndsOf(p)[d.n]
     /\ d.phase = "parse" =>
          /\ d.err = "OK" /\ d.n > 0 /\ d.left \in Seq(EventsOf(p)) /\ k + Len(d.left) = EndsOf(p)[d.n]
          /\ \A i \in 1 .. Len(d.left) : d.left[i] = Text(p)[k + i]
     /\ d.phase = "insert" =>
          /\ d.n > 0 /\ Reports(Text(p), k) /\ d.err # "ERR_OPEN"
          /\ d.err = "OK" <=> ~Content[p].stops /\ k = Len(Text(p))

(* A row as it should be.                                                  *)
Rightly(r) ==
  \E n \in 0 .. Len(Text(r.file)) :
    /\ Reports(Text(r.file), n) /\ Tells(r.cur, Text(r.file), n) /\ r.cur.raw = Content[r.file].raw
    /\ r.status = "OK" <=> ~Content[r.file].stops /\ n = Len(Text(r.file))

Busy(d) == d.phase \in {"read", "parse", "insert"}

Counting(d) ==
  /\ Shape(d.cur) /\ d.cur.count["depth"] <= d.cur.count["max_depth"]
  /\ d.err \in {"OK", "ERR_OPEN", "ERR_PARSE_FAIL", "ERR_PARSE_STOPPED"}
  /\ Busy(d) => \E k : Reached(d, k)

Rows(d) == \A r \in d.rows : r.status # "ERR_OPEN" /\ Rightly(r)

TInv == Counting(ix) /\ Rows(ix)

-----------------------------------------------------------------------------
(* What the assumptions say of a file.                                     *)
LEMMA TextFacts ==
  ASSUME NEW p \in Paths
  PROVE  /\ Len(Content[p].buffers) \in Nat
         /\ \A m \in 1 .. Len(Content[p].buffers) : Content[p].buffers[m] \in Seq(EventsOf(p))
         /\ Sound(Text(p)) /\ Cut(Content[p].buffers, Text(p), EndsOf(p))
<1> DEFINE buffers == Content[p].buffers
           E == EventsOf(p)
<1>1. /\ buffers \in Seq(ToSet(buffers)) /\ buffers # <<>>
      /\ \A b \in ToSet(buffers) :
           b \in Seq(ToSet(b)) /\ \A e \in ToSet(b) : e.is \in {"start", "comment"} => e.size \in Nat
      /\ \A n \in 0 .. Len(FlattenSeq(buffers)) : Open(FlattenSeq(buffers), n) >= 0
  BY IndexerInputs DEF Paths
<1>2. Len(buffers) \in Nat /\ \A m \in 1 .. Len(buffers) : buffers[m] \in ToSet(buffers)
  BY <1>1, LenProperties, ElementOfSeq
<1>3. ASSUME NEW b \in ToSet(buffers) PROVE b \in Seq(E)
  <2>1. b \in Seq(ToSet(b)) /\ ToSet(b) \subseteq E
    BY <1>1 DEF EventsOf
  <2>2. Len(b) \in Nat /\ b \in [1 .. Len(b) -> ToSet(b)]
    BY <2>1, LenProperties
  <2>3. b \in [1 .. Len(b) -> E]
    BY <2>1, <2>2
  <2> QED BY <2>2, <2>3, SeqDef
<1>4. buffers \in Seq(Seq(E))
  <2> HIDE DEF buffers, E
  <2>1. buffers \in [1 .. Len(buffers) -> Seq(E)]
    BY <1>1, <1>2, <1>3, LenProperties
  <2> QED BY <1>2, <2>1, SeqDef
<1>5. Text(p) \in Seq(E) /\ \E ends : Cut(buffers, Text(p), ends)
  <2> HIDE DEF buffers, E
  <2>1. FlattenSeq(buffers) \in Seq(E) /\ \E ends : Cut(buffers, FlattenSeq(buffers), ends)
    BY <1>1, <1>4, CutExists
  <2>2. Text(p) = FlattenSeq(buffers)
    BY DEF Text, buffers
  <2> QED BY <2>1, <2>2
<1>6. Cut(buffers, Text(p), EndsOf(p))
  <2>1. EndsOf(p) = CHOOSE ends : Cut(buffers, Text(p), ends)
    BY DEF EndsOf
  <2> QED BY <1>5, <2>1
<1>7. Sound(Text(p))
  <2>1. Len(Text(p)) \in Nat /\ \A i \in 1 .. Len(Text(p)) : Text(p)[i] \in E
    BY <1>5, LenProperties, ElementOfSeq
  <2>2. \A e \in E : e.is \in {"start", "comment"} => e.size \in Nat
    BY <1>1 DEF EventsOf
  <2> QED BY <1>1, <2>1, <2>2 DEF Sound, Text
<1> QED BY <1>2, <1>3, <1>6, <1>7

(* Inside a file.                                                          *)
LEMMA InsideFile ==
  ASSUME Typed(ix), InFile(ix), Busy(ix)
  PROVE  Head(ix.todo) \in Paths /\ ix.todo \in Seq(Paths) /\ ix.todo # <<>>
<1>1. ix.todo \in Seq(Paths) /\ ix.todo # <<>>
  BY DEF Typed, InFile, Busy
<1> QED BY <1>1, HeadAndTail

(* Counters that told what was read have their type.                       *)
LEMMA ReachedCounts ==
  ASSUME NEW d, Head(d.todo) \in Paths, NEW k, Reached(d, k),
         d.err \in {"OK", "ERR_OPEN", "ERR_PARSE_FAIL", "ERR_PARSE_STOPPED"}
  PROVE  Counting(d)
<1> DEFINE p == Head(d.todo)
<1>1. Sound(Text(p)) /\ k \in 0 .. Len(Text(p)) /\ Told(d.cur, Text(p), k)
  BY TextFacts DEF Reached
<1>2. d.cur.count["depth"] <= d.cur.count["max_depth"]
  BY <1>1, ToldIsTyped
<1>3. Shape(d.cur)
  BY <1>1 DEF Told
<1> QED BY <1>2, <1>3 DEF Counting

-----------------------------------------------------------------------------
(* A line is taken off the list,                                           *)
LEMMA NextLineTells == ASSUME IInv, TInv, NextLine PROVE TInv'
<1> DEFINE p == Head(ix.todo)
<1>1. ix.phase = "lines" /\ ix.todo # <<>> /\ ix.todo \in Seq(Paths) /\ Typed(ix)
  BY DEF NextLine, IInv, Typed
<1>2. p \in Paths
  BY <1>1, HeadAndTail
<1>3. CASE Content[p].readable
  <2>1. ix' = [ix EXCEPT !.err = "OK", !.cur = CurrentZero, !.n = 0, !.phase = "read"]
    BY <1>3 DEF NextLine, Now, Opened
  <2>2. /\ ix'.err = "OK" /\ ix'.cur = CurrentZero /\ ix'.n = 0 /\ ix'.phase = "read"
        /\ ix'.todo = ix.todo /\ ix'.rows = ix.rows
    BY <1>1, <2>1 DEF Typed
  <2>3. Sound(Text(p)) /\ EndsOf(p)[0] = 0 /\ Len(Text(p)) \in Nat
    BY <1>2, TextFacts DEF Cut, Sound
  <2>4. Told(CurrentZero, Text(p), 0)
    BY <2>3, NothingTold
  <2>5. Reached(ix', 0)
    BY <2>2, <2>3, <2>4 DEF Reached
  <2>6. Counting(ix')
    BY <1>2, <2>2, <2>5, ReachedCounts
  <2> QED BY <2>2, <2>6 DEF TInv, Rows
<1>4. CASE ~Content[p].readable
  <2>1. ix' = [ix EXCEPT !.err = "ERR_OPEN", !.todo = Tail(ix.todo)]
    BY <1>4 DEF NextLine, Now
  <2>2. ix'.err = "ERR_OPEN" /\ ix'.phase = "lines" /\ ix'.rows = ix.rows /\ ix'.cur = ix.cur
    BY <1>1, <2>1 DEF Typed
  <2> QED BY <2>2 DEF TInv, Counting, Busy, Rows
<1> QED BY <1>2, <1>3, <1>4, IndexerInputs DEF Paths

(* a buffer is read,                                                       *)
LEMMA ReadBufferTells == ASSUME IInv, TInv, ReadBuffer PROVE TInv'
<1> DEFINE p == Head(ix.todo)
           N == Len(Content[p].buffers)
<1>1. ix.phase = "read" /\ Typed(ix) /\ InFile(ix) /\ Busy(ix) /\ ix.n \in Nat /\ ix.n < N
  BY DEF ReadBuffer, IInv, Typed, InFile, Busy
<1>2. p \in Paths
  BY <1>1, InsideFile
<1>3. PICK k : Reached(ix, k)
  BY <1>1 DEF TInv, Counting
<1>4. PICK m, left : m = ix.n + 1 /\ left = Content[p].buffers[ix.n + 1]
  OBVIOUS
<1>5. m \in 1 .. N /\ N \in Nat /\ m - 1 = ix.n
  BY <1>1, <1>2, <1>4, TextFacts
<1>6. PICK cur : cur = [ix.cur EXCEPT !.raw = IF ix.n = 0 THEN Content[p].raw ELSE ix.cur.raw]
  OBVIOUS
<1>7. ix' = [ix EXCEPT !.n = m, !.left = left, !.phase = "parse", !.cur = cur]
  <2>1. ix' = [ix EXCEPT !.n = ix.n + 1, !.left = Now.buffers[ix.n + 1], !.phase = "parse",
                         !.cur = [ix.cur EXCEPT !.raw = IF ix.n = 0 THEN Now.raw ELSE ix.cur.raw]]
    BY Zenon DEF ReadBuffer
  <2> QED BY <1>4, <1>6, <2>1 DEF Now
<1>8. /\ ix'.n = m /\ ix'.left = left /\ ix'.phase = "parse" /\ ix'.cur = cur /\ ix'.todo = ix.todo
      /\ ix'.rows = ix.rows /\ ix'.err = ix.err
  BY <1>1, <1>7 DEF Typed
<1>9. /\ left \in Seq(EventsOf(p)) /\ EndsOf(p)[m] = EndsOf(p)[ix.n] + Len(left) /\ Len(left) \in Nat
      /\ \A i \in 1 .. Len(left) : Text(p)[EndsOf(p)[ix.n] + i] = left[i]
  BY <1>2, <1>4, <1>5, TextFacts, LenProperties DEF Cut
<1>10. Shape(ix.cur)
  BY DEF TInv, Counting
<1>11. /\ cur.count = ix.cur.count /\ cur.encoding = ix.cur.encoding
       /\ cur.raw = IF ix.n = 0 THEN Content[p].raw ELSE ix.cur.raw
       /\ Shape(cur)
  BY <1>6, <1>10 DEF Shape
<1>12. Told(ix.cur, Text(p), k) /\ k = EndsOf(p)[ix.n] /\ ix.err = "OK" /\ (ix.n > 0 => ix.cur.raw = Content[p].raw)
       /\ k \in 0 .. Len(Text(p)) /\ \A i \in 1 .. k : Text(p)[i].is # "error"
  BY <1>1, <1>3 DEF Reached
<1>13. Told(cur, Text(p), k)
  BY <1>11, <1>12 DEF Told, Tells
<1>14. cur.raw = Content[p].raw
  BY <1>1, <1>11, <1>12
<1>15. Reached(ix', k)
  BY <1>5, <1>8, <1>9, <1>12, <1>13, <1>14 DEF Reached
<1>16. Counting(ix')
  BY <1>2, <1>8, <1>12, <1>15, ReachedCounts
<1> QED BY <1>8, <1>16 DEF TInv, Rows

(* an event is reported,                                                   *)
LEMMA CallbackTells == ASSUME IInv, TInv, Callback PROVE TInv'
<1> DEFINE p == Head(ix.todo)
<1>1. ix.phase = "parse" /\ Typed(ix) /\ InFile(ix) /\ Busy(ix) /\ ix.left # <<>> /\ Head(ix.left).is # "error"
  BY DEF Callback, IInv, Typed, InFile, Busy
<1>2. p \in Paths
  BY <1>1, InsideFile
<1>3. PICK k : Reached(ix, k)
  BY <1>1 DEF TInv, Counting
<1>4. PICK cur, left : cur = Handled(ix.cur, Head(ix.left)) /\ left = Tail(ix.left)
  OBVIOUS
<1>5. ix' = [ix EXCEPT !.cur = cur, !.left = left]
  BY <1>4 DEF Callback
<1>6. /\ ix'.n = ix.n /\ ix'.left = left /\ ix'.phase = "parse" /\ ix'.cur = cur /\ ix'.todo = ix.todo
      /\ ix'.rows = ix.rows /\ ix'.err = ix.err
  BY <1>1, <1>5 DEF Typed
<1>7. /\ Told(ix.cur, Text(p), k) /\ ix.err = "OK" /\ ix.n > 0 /\ ix.cur.raw = Content[p].raw
      /\ k \in 0 .. Len(Text(p)) /\ \A i \in 1 .. k : Text(p)[i].is # "error"
      /\ ix.left \in Seq(EventsOf(p)) /\ k + Len(ix.left) = EndsOf(p)[ix.n]
      /\ \A i \in 1 .. Len(ix.left) : ix.left[i] = Text(p)[k + i]
  BY <1>1, <1>3 DEF Reached
<1>8. Sound(Text(p)) /\ Len(Text(p)) \in Nat /\ k \in Nat /\ EndsOf(p)[ix.n] \in 0 .. Len(Text(p))
  <2>1. ix.n \in 0 .. Len(Content[p].buffers)
    BY <1>1, <1>2, TextFacts DEF Typed, InFile, Busy
  <2> QED BY <1>2, <1>7, <2>1, TextFacts DEF Cut, Sound
<1>9. /\ left \in Seq(EventsOf(p)) /\ Len(left) \in Nat /\ Len(ix.left) = Len(left) + 1 /\ Head(ix.left) = ix.left[1]
      /\ \A i \in 1 .. Len(left) : left[i] = ix.left[i + 1]
  <2>1. ix.left \in Seq(EventsOf(p)) /\ ix.left # <<>>
    BY <1>1, <1>7
  <2>2. /\ Tail(ix.left) \in Seq(EventsOf(p)) /\ Len(Tail(ix.left)) = Len(ix.left) - 1 /\ Len(ix.left) >= 1
        /\ \A i \in 1 .. Len(Tail(ix.left)) : Tail(ix.left)[i] = ix.left[i + 1]
    BY <2>1, FirstDropped
  <2>3. Head(ix.left) = ix.left[1] /\ Len(ix.left) \in Nat
    BY <2>1, HeadTailProperties, LenProperties
  <2> QED BY <1>4, <2>2, <2>3
<1>10. Head(ix.left) = Text(p)[k + 1] /\ k \in 0 .. Len(Text(p)) - 1
  BY <1>7, <1>8, <1>9
<1>11. Told(cur, Text(p), k + 1) /\ cur.raw = ix.cur.raw
  BY <1>4, <1>7, <1>8, <1>10, EventTold
<1>12. k + 1 \in 0 .. Len(Text(p)) /\ \A i \in 1 .. k + 1 : Text(p)[i].is # "error"
  <2>1. \A i \in 1 .. k + 1 : i \in 1 .. k \/ i = k + 1
    BY <1>8
  <2> QED BY <1>1, <1>7, <1>8, <1>10, <2>1
<1>13. k + 1 + Len(left) = EndsOf(p)[ix.n]
  BY <1>7, <1>8, <1>9
<1>14. \A i \in 1 .. Len(left) : left[i] = Text(p)[k + 1 + i]
  <2> TAKE i \in 1 .. Len(left)
  <2>1. i + 1 \in 1 .. Len(ix.left) /\ k + (i + 1) = k + 1 + i
    BY <1>8, <1>9
  <2>2. ix.left[i + 1] = Text(p)[k + (i + 1)]
    BY <1>7, <2>1
  <2> QED BY <1>9, <2>1, <2>2
<1>15. Reached(ix', k + 1)
  BY <1>6, <1>7, <1>9, <1>11, <1>12, <1>13, <1>14 DEF Reached
<1>16. Counting(ix')
  BY <1>2, <1>6, <1>7, <1>15, ReachedCounts
<1> QED BY <1>6, <1>16 DEF TInv, Rows

(* or an error,                                                            *)
LEMMA ParseFailsTells == ASSUME IInv, TInv, ParseFails PROVE TInv'
<1> DEFINE p == Head(ix.todo)
<1>1. ix.phase = "parse" /\ Typed(ix) /\ InFile(ix) /\ Busy(ix) /\ ix.left # <<>> /\ Head(ix.left).is = "error"
  BY DEF ParseFails, IInv, Typed, InFile, Busy
<1>2. p \in Paths
  BY <1>1, InsideFile
<1>3. PICK k : Reached(ix, k)
  BY <1>1 DEF TInv, Counting
<1>4. ix' = [ix EXCEPT !.err = "ERR_PARSE_FAIL", !.left = <<>>, !.phase = "insert"]
  BY DEF ParseFails
<1>5. /\ ix'.n = ix.n /\ ix'.phase = "insert" /\ ix'.cur = ix.cur /\ ix'.todo = ix.todo
      /\ ix'.rows = ix.rows /\ ix'.err = "ERR_PARSE_FAIL"
  BY <1>1, <1>4 DEF Typed
<1>6. /\ Told(ix.cur, Text(p), k) /\ ix.n > 0 /\ ix.cur.raw = Content[p].raw
      /\ k \in 0 .. Len(Text(p)) /\ \A i \in 1 .. k : Text(p)[i].is # "error"
      /\ ix.left \in Seq(EventsOf(p)) /\ k + Len(ix.left) = EndsOf(p)[ix.n]
      /\ \A i \in 1 .. Len(ix.left) : ix.left[i] = Text(p)[k + i]
  BY <1>1, <1>3 DEF Reached
<1>7. Len(Text(p)) \in Nat /\ k \in Nat /\ EndsOf(p)[ix.n] \in 0 .. Len(Text(p))
  <2>1. ix.n \in 0 .. Len(Content[p].buffers)
    BY <1>1, <1>2, TextFacts DEF Typed, InFile, Busy
  <2> QED BY <1>2, <1>6, <2>1, TextFacts DEF Cut, Sound
<1>8. Len(ix.left) \in Nat /\ Len(ix.left) >= 1 /\ Head(ix.left) = ix.left[1]
  BY <1>1, <1>6, HeadTailProperties, LenProperties, EmptySeq
<1>9. Text(p)[k + 1].is = "error" /\ k < Len(Text(p))
  BY <1>1, <1>6, <1>7, <1>8
<1>10. Reports(Text(p), k) /\ k # Len(Text(p))
  BY <1>6, <1>7, <1>9 DEF Reports
<1>11. Reached(ix', k)
  BY <1>5, <1>6, <1>10 DEF Reached
<1>12. Counting(ix')
  BY <1>2, <1>5, <1>11, ReachedCounts
<1> QED BY <1>5, <1>12 DEF TInv, Rows

(* the buffer is at its end,                                               *)
LEMMA ParseReturnsTells == ASSUME IInv, TInv, ParseReturns PROVE TInv'
<1> DEFINE p == Head(ix.todo)
           N == Len(Content[p].buffers)
<1>1. ix.phase = "parse" /\ Typed(ix) /\ InFile(ix) /\ Busy(ix) /\ ix.left = <<>> /\ ix.n \in Nat /\ ix.n <= N
  BY DEF ParseReturns, IInv, Typed, InFile, Busy
<1>2. p \in Paths
  BY <1>1, InsideFile
<1>3. PICK k : Reached(ix, k)
  BY <1>1 DEF TInv, Counting
<1>4. /\ Told(ix.cur, Text(p), k) /\ ix.n > 0 /\ ix.cur.raw = Content[p].raw /\ ix.err = "OK"
      /\ k \in 0 .. Len(Text(p)) /\ \A i \in 1 .. k : Text(p)[i].is # "error"
      /\ k + Len(ix.left) = EndsOf(p)[ix.n]
  BY <1>1, <1>3 DEF Reached
<1>5. k = EndsOf(p)[ix.n] /\ Len(Text(p)) \in Nat /\ N \in Nat /\ EndsOf(p)[N] = Len(Text(p))
  BY <1>1, <1>2, <1>4, TextFacts, EmptySeq DEF Cut, Sound
<1>6. CASE ix.n < N
  <2>1. ix' = [ix EXCEPT !.phase = "read"]
    BY <1>6 DEF ParseReturns, Now
  <2>2. /\ ix'.n = ix.n /\ ix'.phase = "read" /\ ix'.cur = ix.cur /\ ix'.todo = ix.todo
        /\ ix'.rows = ix.rows /\ ix'.err = ix.err
    BY <1>1, <2>1 DEF Typed
  <2>3. Reached(ix', k)
    BY <1>4, <1>5, <2>2 DEF Reached
  <2>4. Counting(ix')
    BY <1>2, <1>4, <2>2, <2>3, ReachedCounts
  <2> QED BY <2>2, <2>4 DEF TInv, Rows
<1>7. CASE ~(ix.n < N)
  <2>0. PICK err : err = IF Content[p].stops THEN "ERR_PARSE_STOPPED" ELSE ix.err
    OBVIOUS
  <2>1. ix' = [ix EXCEPT !.phase = "insert", !.err = err]
    BY <1>7, <2>0 DEF ParseReturns, Now
  <2>2. /\ ix'.n = ix.n /\ ix'.phase = "insert" /\ ix'.cur = ix.cur /\ ix'.todo = ix.todo
        /\ ix'.rows = ix.rows /\ ix'.err = err
    BY <1>1, <2>1 DEF Typed
  <2>3. k = Len(Text(p))
    <3>1. ix.n = N
      BY <1>1, <1>5, <1>7
    <3> QED BY <1>5, <3>1
  <2>4. Reports(Text(p), k)
    BY <1>4, <1>5, <2>3 DEF Reports
  <2>5. err # "ERR_OPEN" /\ (err = "OK" <=> ~Content[p].stops) /\ err \in {"OK", "ERR_PARSE_STOPPED"}
    BY <1>4, <2>0
  <2>6. Reached(ix', k)
    BY <1>4, <2>2, <2>3, <2>4, <2>5 DEF Reached
  <2>7. Counting(ix')
    BY <1>2, <2>2, <2>5, <2>6, ReachedCounts
  <2> QED BY <2>2, <2>7 DEF TInv, Rows
<1> QED BY <1>6, <1>7

(* and a row is made of the counters.                                      *)
LEMMA InsertTells == ASSUME IInv, TInv, Insert PROVE TInv'
<1> DEFINE p == Head(ix.todo)
           row == [file |-> p, hash |-> Hash(Now.buffers, ix.n), status |-> ix.err, cur |-> ix.cur]
           new == IF \E r \in ix.rows : Stored[r.file] = Stored[row.file] THEN {} ELSE {row}
<1>1. ix.phase = "insert" /\ Typed(ix) /\ InFile(ix) /\ Busy(ix)
  BY DEF Insert, IInv, Typed, InFile, Busy
<1>2. p \in Paths
  BY <1>1, InsideFile
<1>3. PICK k : Reached(ix, k)
  BY <1>1 DEF TInv, Counting
<1>4. ix' = [ix EXCEPT !.rows = ix.rows \cup new, !.phase = "lines", !.todo = Tail(ix.todo)]
  BY DEF Insert, AfterRow, IInv, Typed
<1>5. ix'.phase = "lines" /\ ix'.cur = ix.cur /\ ix'.err = ix.err /\ ix'.rows = ix.rows \cup new
  BY <1>1, <1>4 DEF Typed
<1>6. row.file = p /\ row.status = ix.err /\ row.cur = ix.cur
  OBVIOUS
<1>7. new \subseteq {row}
  OBVIOUS
<1> HIDE DEF new, row
<1>8. Rightly(row) /\ row.status # "ERR_OPEN"
  <2>1. /\ Told(ix.cur, Text(p), k) /\ ix.cur.raw = Content[p].raw /\ k \in 0 .. Len(Text(p))
        /\ Reports(Text(p), k) /\ ix.err # "ERR_OPEN"
        /\ ix.err = "OK" <=> ~Content[p].stops /\ k = Len(Text(p))
    BY <1>1, <1>3 DEF Reached
  <2>2. Tells(ix.cur, Text(p), k)
    BY <2>1 DEF Told
  <2> QED BY <1>6, <2>1, <2>2 DEF Rightly
<1> QED BY <1>5, <1>7, <1>8 DEF TInv, Counting, Busy, Rows

(* The other steps leave the counters and the rows alone.                  *)
LEMMA OthersTell == ASSUME IInv, TInv, StartIndex \/ IndexEnds \/ Query PROVE TInv'
<1>1. Typed(ix)
  BY DEF IInv
<1>2. ix'.cur = ix.cur /\ ix'.err = ix.err /\ ix'.rows = ix.rows /\ ~Busy(ix')
  <2>1. CASE StartIndex
    <3>1. PICK lines \in Inputs :
            ix' = IF ix.exists THEN [ix EXCEPT !.exit = "ERR_DB_EXISTS", !.asked = "nothing"]
                  ELSE [ix EXCEPT !.exists = TRUE, !.given = lines, !.todo = lines, !.phase = "lines"]
      BY <2>1 DEF StartIndex
    <3> QED BY <1>1, <2>1, <3>1 DEF StartIndex, Typed, Busy
  <2>2. CASE IndexEnds
    BY <1>1, <2>2 DEF IndexEnds, Typed, Busy
  <2>3. CASE Query
    <3>1. CASE ~ix.exists
      BY <1>1, <2>3, <3>1 DEF Query, Typed, Busy
    <3>2. CASE ix.exists
      <4>1. PICK found, asked : ix' = [ix EXCEPT !.found = found, !.exit = "OK", !.asked = asked]
        BY <2>3, <3>2 DEF Query
      <4> QED BY <1>1, <2>3, <4>1 DEF Query, Typed, Busy
    <3> QED BY <1>1, <3>1, <3>2 DEF Typed
  <2> QED BY <2>1, <2>2, <2>3
<1> QED BY <1>2 DEF TInv, Counting, Rows

(* Nothing has been counted at first.                                      *)
LEMMA InitTells == ASSUME ix = IndexerIdle PROVE TInv
<1>1. ix.cur = CurrentZero /\ ix.err = "OK" /\ ix.rows = {} /\ ~Busy(ix)
  BY DEF IndexerIdle, Busy
<1>2. "depth" \in Counters /\ "max_depth" \in Counters
  BY CounterNames DEF Own
<1>3. Shape(CurrentZero) /\ CurrentZero.count["depth"] <= CurrentZero.count["max_depth"]
  BY <1>2 DEF CurrentZero, Shape
<1> QED BY <1>1, <1>3 DEF TInv, Counting, Rows

(* Every step of the commands keeps this invariant too.                    *)
LEMMA TellingInvariance == IndexSpec => []TInv
<1>1. ix = IndexerIdle => TInv
  BY InitTells
<1>2. IInv /\ TInv /\ [IndexNext]_ix => TInv'
  <2>1. ASSUME IInv, TInv, IndexNext PROVE TInv'
    BY <2>1, NextLineTells, ReadBufferTells, CallbackTells, ParseFailsTells, ParseReturnsTells, InsertTells,
       OthersTell DEF IndexNext
  <2>2. ASSUME TInv, UNCHANGED ix PROVE TInv'
    BY <2>2 DEF TInv
  <2> QED BY <2>1, <2>2
<1> QED BY <1>1, <1>2, Invariance, PTL DEF IndexSpec

(* However many files are indexed, whatever they hold and however they     *)
(* fail: no counter is below zero, and no element is open below the        *)
(* deepest level.                                                          *)
THEOREM IndexTypeCorrect == IndexSpec => []IndexTypeOK
<1>1. IInv /\ TInv => IndexTypeOK
  BY DEF IInv, TInv, Typed, Hashed, Counting, Rows, Shape, IndexTypeOK, Paths
<1> QED BY <1>1, Invariance, TellingInvariance, PTL

(* However many files are indexed and however each is cut into buffers:    *)
(* every row has the counts of its own file, up to where expat gave up,    *)
(* and nothing of the files before it.                                     *)
THEOREM RowsTellTheirFiles == IndexSpec => []RowTellsFile
<1>1. TInv => RowTellsFile
  BY DEF TInv, Rows, Rightly, Text, RowTellsFile
<1> QED BY <1>1, TellingInvariance, PTL

-----------------------------------------------------------------------------
(* encfixer. *)

FixerExits == {"idle", "first", "running", "ok", "failed"}

(* f has the fields of fx. *)
FixerNames == {"file", "forced", "delete", "left", "out", "eof", "exit"}

FixerFields(f) == f = [name \in FixerNames |-> f[name]]

(* A buffer and what is left when it is read are what was left before, and *)
(* a buffer that is not full is the last.                                  *)
LEMMA ChunkFacts ==
  ASSUME NEW S, NEW t \in Seq(S)
  PROVE  LET b == Chunk(t)
             u == SubSeq(t, Len(b) + 1, Len(t))
         IN /\ b \in Seq(S) /\ u \in Seq(S) /\ b \o u = t
            /\ Len(b) < ReadSize => u = <<>>
<1> DEFINE n == IF Len(t) < ReadSize THEN Len(t) ELSE ReadSize
           b == SubSeq(t, 1, n)
           u == SubSeq(t, n + 1, Len(t))
<1>1. Len(t) \in Nat /\ n \in 0 .. Len(t) /\ (n < ReadSize => n = Len(t))
  BY LenProperties, EncAssumption
<1>2. Chunk(t) = b
  BY DEF Chunk
<1> HIDE DEF n
<1>3. \A i \in 1 .. Len(t) : t[i] \in S
  BY ElementOfSeq
<1>4. b \in Seq(S) /\ Len(b) = n
  <2>1. \A i \in 1 .. n : t[i] \in S
    BY <1>1, <1>3
  <2> QED
    BY <1>1, <2>1, SubSeqProperties
<1>5. u \in Seq(S)
  <2>1. \A i \in n + 1 .. Len(t) : t[i] \in S
    BY <1>1, <1>3
  <2> QED
    BY <1>1, <2>1, SubSeqProperties
<1>6. b \o u = t
  <2>1. 1 \in 1 .. Len(t) + 1 /\ n \in 1 - 1 .. Len(t) /\ Len(t) \in n .. Len(t)
    BY <1>1
  <2>2. b \o u = SubSeq(t, 1, Len(t))
    BY <2>1, ConcatAdjacentSubSeq
  <2> QED
    BY <2>2, SubSeqFull
<1>7. n < ReadSize => u = <<>>
  BY <1>1, SubSeqEmpty
<1> HIDE DEF b, u
<1> QED
  BY <1>2, <1>4, <1>5, <1>6, <1>7 DEF u

-----------------------------------------------------------------------------
(* The parser of a declaration and XML's reading of it, in step. *)

ParserStates == {"START", "NAME", "QUOTE", "VAL"}

XmlStates == {"SPACE", "NAME", "EQ", "OPEN", "VALUE", "END", "BAD"}

Pairs(S) == Seq(S) \X Seq(S)

Parsers(S) == [state : ParserStates, name : Seq(S), val : Seq(S), quote : Quotes, atts : Seq(Pairs(S)),
               rc : {0, 1}, read : Nat, done : BOOLEAN]

XmlReaders(S) == [state : XmlStates, name : Seq(S), val : Seq(S), quote : Quotes, atts : Seq(Pairs(S)),
                  plain : BOOLEAN, read : Nat]

(* A turn keeps the parser's fields typed.                                 *)
LEMMA TurnTyped ==
  ASSUME NEW S, NEW p \in Parsers(S), NEW ch \in S
  PROVE  Turn(p, ch) \in Parsers(S)
<1>1. /\ p.state \in ParserStates /\ p.name \in Seq(S) /\ p.val \in Seq(S) /\ p.quote \in Quotes
      /\ p.atts \in Seq(Pairs(S)) /\ p.rc \in {0, 1} /\ p.read \in Nat /\ p.done \in BOOLEAN
  BY DEF Parsers
<1>2. /\ Append(p.name, ch) \in Seq(S) /\ Append(p.val, ch) \in Seq(S)
      /\ Append(p.atts, <<p.name, p.val>>) \in Seq(Pairs(S))
      /\ <<>> \in Seq(S) /\ <<ch>> \in Seq(S) /\ Append(<<>>, ch) \in Seq(S)
  BY <1>1 DEF Pairs
<1>3. ASSUME NEW q \in Parsers(S) PROVE [q EXCEPT !.read = @ + 1] \in Parsers(S)
  <2>1. q.read \in Nat
    BY DEF Parsers
  <2>2. \A n : n = q.read + 1 => n \in Nat
    BY <2>1
  <2>3. \A n \in Nat : [q EXCEPT !.read = n] \in Parsers(S)
    BY DEF Parsers
  <2> QED BY <2>2, <2>3
<1>4. InQuote(p, ch) \in Parsers(S)
  BY <1>1, <1>2 DEF InQuote, Parsers, ParserStates, Quotes
<1>5. InVal(p, ch) \in Parsers(S)
  BY <1>1, <1>2 DEF InVal, Parsers, ParserStates
<1>6. ASSUME NEW q \in Parsers(S), Append(q.name, ch) \in Seq(S) PROVE InName(q, ch) \in Parsers(S)
  BY <1>6 DEF InName, Parsers, ParserStates
<1>7. AtStart(p, ch) \in Parsers(S)
  <2>1. /\ [p EXCEPT !.name = <<>>, !.state = "NAME"] \in Parsers(S)
        /\ [p EXCEPT !.name = <<>>, !.state = "NAME"].name = <<>>
    BY <1>2 DEF Parsers, ParserStates
  <2>2. [p EXCEPT !.done = TRUE] \in Parsers(S)
    BY DEF Parsers
  <2> QED BY <1>2, <1>6, <2>1, <2>2 DEF AtStart
<1>8. InName(p, ch) \in Parsers(S)
  BY <1>2, <1>6
<1> QED BY <1>1, <1>3, <1>4, <1>5, <1>7, <1>8 DEF Turn, ParserStates

(* And so does XML's reading.                                              *)
LEMMA XmlTurnTyped ==
  ASSUME NEW S, NEW x \in XmlReaders(S), NEW ch \in S
  PROVE  XmlTurn(x, ch) \in XmlReaders(S)
<1>1. /\ x.state \in XmlStates /\ x.name \in Seq(S) /\ x.val \in Seq(S) /\ x.quote \in Quotes
      /\ x.atts \in Seq(Pairs(S)) /\ x.read \in Nat /\ x.plain \in BOOLEAN
  BY DEF XmlReaders
<1>2. /\ Append(x.name, ch) \in Seq(S) /\ Append(x.val, ch) \in Seq(S)
      /\ Append(x.atts, <<x.name, x.val>>) \in Seq(Pairs(S))
      /\ <<>> \in Seq(S) /\ <<ch>> \in Seq(S)
  BY <1>1 DEF Pairs
<1>3. ASSUME NEW y \in XmlReaders(S) PROVE [y EXCEPT !.read = @ + 1] \in XmlReaders(S)
  <2>1. y.read \in Nat
    BY DEF XmlReaders
  <2>2. \A n : n = y.read + 1 => n \in Nat
    BY <2>1
  <2>3. \A n \in Nat : [y EXCEPT !.read = n] \in XmlReaders(S)
    BY DEF XmlReaders
  <2> QED BY <2>2, <2>3
<1>4. XmlBad(x) \in XmlReaders(S)
  BY DEF XmlBad, XmlReaders, XmlStates
<1>5. XmlSpace(x, ch) \in XmlReaders(S)
  BY <1>1, <1>2, <1>4 DEF XmlSpace, XmlReaders, XmlStates
<1>6. XmlName(x, ch) \in XmlReaders(S)
  BY <1>1, <1>2, <1>4 DEF XmlName, XmlReaders, XmlStates
<1>7. XmlEq(x, ch) \in XmlReaders(S)
  BY <1>1, <1>2, <1>4 DEF XmlEq, XmlReaders, XmlStates
<1>8. XmlOpen(x, ch) \in XmlReaders(S)
  BY <1>1, <1>2, <1>4 DEF XmlOpen, XmlReaders, XmlStates, Quotes
<1>9. XmlValue(x, ch) \in XmlReaders(S)
  BY <1>1, <1>2 DEF XmlValue, XmlReaders, XmlStates
<1> QED BY <1>1, <1>3, <1>5, <1>6, <1>7, <1>8, <1>9 DEF XmlTurn

-----------------------------------------------------------------------------
(* Runs. *)

ParserRun(P, in, S) ==
  /\ P \in [0 .. Len(in) -> Parsers(S)] /\ P[0] = ParserAtStart
  /\ \A i \in 1 .. Len(in) : P[i] = Turn(P[i - 1], in[i])

XmlRun(X, in, S) ==
  /\ X \in [0 .. Len(in) -> XmlReaders(S)] /\ X[0] = XmlAtStart
  /\ \A i \in 1 .. Len(in) : X[i] = XmlTurn(X[i - 1], in[i])

Concluded(p) == [p EXCEPT !.rc = IF p.state # "START" THEN 1 ELSE @]

(* AttsParse is what the parser is after its last turn.                    *)
LEMMA ParserRuns ==
  ASSUME NEW S, NEW in \in Seq(S)
  PROVE  \E P : ParserRun(P, in, S) /\ AttsParse(in) = Concluded(P[Len(in)])
<1> DEFINE N == Len(in)
           V == Parsers(S)
           step == [i \in 1 .. N |-> [p \in V |-> Turn(p, in[i])]]
           after == CHOOSE f : f = [i \in 0 .. Len(in) |->
                      IF i = 0 THEN {ParserAtStart} ELSE {Turn(p, in[i]) : p \in f[i - 1]}]
           last == after[Len(in)]
<1>1. N \in Nat /\ \A i \in 1 .. N : in[i] \in S
  BY LenProperties, ElementOfSeq
<1>2. ParserAtStart \in V
  BY DEF ParserAtStart, Parsers, ParserStates, Quotes, Pairs
<1>3. step \in [1 .. N -> [V -> V]]
  BY <1>1, TurnTyped
<1>4. PICK P : P \in [0 .. N -> V] /\ P[0] = ParserAtStart /\ \A i \in 1 .. N : P[i] = step[i][P[i - 1]]
  <2>1. Recursions(N, V, ParserAtStart, step) # {}
    <3> HIDE DEF step, V, N
    <3> QED BY <1>1, <1>2, <1>3, RecursionUpTo
  <2> QED BY <2>1, Zenon DEF Recursions
<1>5. \A i \in 1 .. N : P[i] = Turn(P[i - 1], in[i])
  <2> SUFFICES ASSUME NEW i \in 1 .. N PROVE P[i] = Turn(P[i - 1], in[i])
    OBVIOUS
  <2>1. i - 1 \in 0 .. N
    BY <1>1
  <2>2. P[i - 1] \in V
    BY <1>4, <2>1
  <2>3. P[i] = step[i][P[i - 1]]
    BY <1>4
  <2> HIDE DEF V
  <2> QED BY <2>2, <2>3
<1>6. AttsParse(in) = CHOOSE q \in {Concluded(p) : p \in last} : TRUE
  BY DEF AttsParse, Concluded
<1> DEFINE g == [i \in 0 .. N |-> {P[i]}]
<1> HIDE DEF step, V
<1>7. g = [i \in 0 .. N |-> IF i = 0 THEN {ParserAtStart} ELSE {Turn(p, in[i]) : p \in g[i - 1]}]
  <2>1. ASSUME NEW i \in 0 .. N
        PROVE  {P[i]} = IF i = 0 THEN {ParserAtStart} ELSE {Turn(p, in[i]) : p \in g[i - 1]}
    <3>1. CASE i = 0
      BY <1>4, <3>1
    <3>2. CASE i # 0
      <4>1. i \in 1 .. N /\ i - 1 \in 0 .. N
        BY <1>1, <3>2
      <4>2. g[i - 1] = {P[i - 1]}
        BY <4>1
      <4>3. P[i] = Turn(P[i - 1], in[i])
        BY <1>5, <4>1
      <4> HIDE DEF g
      <4> QED BY <3>2, <4>2, <4>3
    <3> QED BY <3>1, <3>2
  <2> QED BY <2>1, Zenon
<1>8. after = [i \in 0 .. N |-> IF i = 0 THEN {ParserAtStart} ELSE {Turn(p, in[i]) : p \in after[i - 1]}]
  <2> HIDE DEF g
  <2> QED BY <1>7, Zenon DEF N
<1> HIDE DEF after, g
<1>9. \A i \in 0 .. N : after[i] = IF i = 0 THEN {ParserAtStart} ELSE {Turn(p, in[i]) : p \in after[i - 1]}
  BY <1>8
<1> DEFINE T == {i \in 0 .. N : after[i] = {P[i]}}
<1>10. 0 \in T
  <2>1. 0 \in 0 .. N
    BY <1>1
  <2>2. after[0] = {P[0]}
    BY <1>4, <1>9, <2>1
  <2> QED BY <2>1, <2>2
<1>11. ASSUME NEW i \in 0 .. N - 1, i \in T PROVE i + 1 \in T
  <2>1. i + 1 \in 0 .. N /\ i + 1 \in 1 .. N /\ (i + 1) - 1 = i /\ i + 1 # 0
    BY <1>1
  <2>2. after[i] = {P[i]} /\ P[i + 1] = Turn(P[i], in[i + 1])
    BY <1>5, <1>11, <2>1
  <2>3. after[i + 1] = {Turn(p, in[i + 1]) : p \in after[i]}
    BY <1>9, <2>1
  <2> QED BY <2>1, <2>2, <2>3
<1>12. N \in T
  <2> HIDE DEF T
  <2>1. \A i \in 0 .. N - 1 : i \in T => i + 1 \in T
    BY <1>11
  <2>2. 0 .. N \subseteq T
    BY <1>1, <1>10, <2>1, InductionUpTo
  <2> QED BY <1>1, <2>2
<1>13. last = {P[N]}
  BY <1>12
<1>14. AttsParse(in) = Concluded(P[N])
  <2> HIDE DEF last
  <2>1. {Concluded(p) : p \in last} = {Concluded(P[N])}
    BY <1>13
  <2> QED BY <1>6, <2>1
<1>15. ParserRun(P, in, S)
  BY <1>4, <1>5 DEF ParserRun, V
<1> QED BY <1>14, <1>15

(* XmlRead is what XML has read after the last character.                  *)
LEMMA XmlRuns ==
  ASSUME NEW S, NEW in \in Seq(S)
  PROVE  \E X : XmlRun(X, in, S) /\ XmlRead(in) = X[Len(in)]
<1> DEFINE N == Len(in)
           V == XmlReaders(S)
           step == [i \in 1 .. N |-> [p \in V |-> XmlTurn(p, in[i])]]
           after == CHOOSE f : f = [i \in 0 .. Len(in) |->
                      IF i = 0 THEN {XmlAtStart} ELSE {XmlTurn(x, in[i]) : x \in f[i - 1]}]
           last == after[Len(in)]
<1>1. N \in Nat /\ \A i \in 1 .. N : in[i] \in S
  BY LenProperties, ElementOfSeq
<1>2. XmlAtStart \in V
  BY DEF XmlAtStart, XmlReaders, XmlStates, Quotes, Pairs
<1>3. step \in [1 .. N -> [V -> V]]
  BY <1>1, XmlTurnTyped
<1>4. PICK P : P \in [0 .. N -> V] /\ P[0] = XmlAtStart /\ \A i \in 1 .. N : P[i] = step[i][P[i - 1]]
  <2>1. Recursions(N, V, XmlAtStart, step) # {}
    <3> HIDE DEF step, V, N
    <3> QED BY <1>1, <1>2, <1>3, RecursionUpTo
  <2> QED BY <2>1, Zenon DEF Recursions
<1>5. \A i \in 1 .. N : P[i] = XmlTurn(P[i - 1], in[i])
  <2> SUFFICES ASSUME NEW i \in 1 .. N PROVE P[i] = XmlTurn(P[i - 1], in[i])
    OBVIOUS
  <2>1. i - 1 \in 0 .. N
    BY <1>1
  <2>2. P[i - 1] \in V
    BY <1>4, <2>1
  <2>3. P[i] = step[i][P[i - 1]]
    BY <1>4
  <2> HIDE DEF V
  <2> QED BY <2>2, <2>3
<1>6. XmlRead(in) = CHOOSE x \in last : TRUE
  BY DEF XmlRead
<1> DEFINE g == [i \in 0 .. N |-> {P[i]}]
<1> HIDE DEF step, V
<1>7. g = [i \in 0 .. N |-> IF i = 0 THEN {XmlAtStart} ELSE {XmlTurn(p, in[i]) : p \in g[i - 1]}]
  <2>1. ASSUME NEW i \in 0 .. N
        PROVE  {P[i]} = IF i = 0 THEN {XmlAtStart} ELSE {XmlTurn(p, in[i]) : p \in g[i - 1]}
    <3>1. CASE i = 0
      BY <1>4, <3>1
    <3>2. CASE i # 0
      <4>1. i \in 1 .. N /\ i - 1 \in 0 .. N
        BY <1>1, <3>2
      <4>2. g[i - 1] = {P[i - 1]}
        BY <4>1
      <4>3. P[i] = XmlTurn(P[i - 1], in[i])
        BY <1>5, <4>1
      <4> HIDE DEF g
      <4> QED BY <3>2, <4>2, <4>3
    <3> QED BY <3>1, <3>2
  <2> QED BY <2>1, Zenon
<1>8. after = [i \in 0 .. N |-> IF i = 0 THEN {XmlAtStart} ELSE {XmlTurn(p, in[i]) : p \in after[i - 1]}]
  <2> HIDE DEF g
  <2> QED BY <1>7, Zenon DEF N
<1> HIDE DEF after, g
<1>9. \A i \in 0 .. N : after[i] = IF i = 0 THEN {XmlAtStart} ELSE {XmlTurn(p, in[i]) : p \in after[i - 1]}
  BY <1>8
<1> DEFINE T == {i \in 0 .. N : after[i] = {P[i]}}
<1>10. 0 \in T
  <2>1. 0 \in 0 .. N
    BY <1>1
  <2>2. after[0] = {P[0]}
    BY <1>4, <1>9, <2>1
  <2> QED BY <2>1, <2>2
<1>11. ASSUME NEW i \in 0 .. N - 1, i \in T PROVE i + 1 \in T
  <2>1. i + 1 \in 0 .. N /\ i + 1 \in 1 .. N /\ (i + 1) - 1 = i /\ i + 1 # 0
    BY <1>1
  <2>2. after[i] = {P[i]} /\ P[i + 1] = XmlTurn(P[i], in[i + 1])
    BY <1>5, <1>11, <2>1
  <2>3. after[i + 1] = {XmlTurn(p, in[i + 1]) : p \in after[i]}
    BY <1>9, <2>1
  <2> QED BY <2>1, <2>2, <2>3
<1>12. N \in T
  <2> HIDE DEF T
  <2>1. \A i \in 0 .. N - 1 : i \in T => i + 1 \in T
    BY <1>11
  <2>2. 0 .. N \subseteq T
    BY <1>1, <1>10, <2>1, InductionUpTo
  <2> QED BY <1>1, <2>2
<1>13. last = {P[N]}
  BY <1>12
<1>14. XmlRead(in) = P[N]
  <2> HIDE DEF last
  <2> QED BY <1>6, <1>13
<1>15. XmlRun(P, in, S)
  BY <1>4, <1>5 DEF XmlRun, V
<1> QED BY <1>14, <1>15

-----------------------------------------------------------------------------
(* The two readings of a declaration. *)

(* A name that the parser has read wrongly: it is not one of the known.    *)
Odd(name) == name = <<>> \/ \E i \in DOMAIN name : name[i] \in White

NameLike(p, x) == p.name = x.name \/ (~x.plain /\ Odd(p.name))

AttsLike(a, b, plain) ==
  /\ Len(a) = Len(b)
  /\ \A i \in 1 .. Len(a) : a[i][2] = b[i][2] /\ (a[i][1] = b[i][1] \/ (~plain /\ Odd(a[i][1])))

(* The parser has given up, at a layout that is not the plain one; *)
GaveUp(p, x) == p.done /\ p.rc = 1 /\ ~x.plain

(* or is where XML's reading is, d characters further.                     *)
At(p, x) ==
  \/ x.state = "END" /\ p.state = "START"
  \/ x.state = "SPACE" /\ p.state = "START"
  \/ x.state = "SPACE" /\ p.state = "NAME" /\ ~x.plain /\ Odd(p.name)
  \/ x.state = "NAME" /\ p.state = "NAME" /\ NameLike(p, x)
  \/ x.state = "EQ" /\ p.state = "START" /\ ~x.plain
  \/ x.state = "EQ" /\ p.state = "NAME" /\ ~x.plain /\ Odd(p.name)
  \/ x.state = "OPEN" /\ p.state = "QUOTE" /\ NameLike(p, x)
  \/ x.state = "VALUE" /\ p.state = "VAL" /\ NameLike(p, x) /\ p.quote = x.quote /\ p.val = x.val

OnTrack(p, x, d) ==
  /\ p.rc = 0 /\ p.read = x.read + d
  /\ p.done <=> x.state = "END"
  /\ AttsLike(p.atts, x.atts, x.plain)
  /\ p.state = "NAME" => p.name # <<>>
  /\ At(p, x)

Alike(p, x, d) == x.state = "BAD" \/ GaveUp(p, x) \/ OnTrack(p, x, d)

(* A name that is odd stays odd as it grows.                               *)
LEMMA OddStays ==
  ASSUME NEW S, NEW name \in Seq(S), NEW ch \in S
  PROVE  /\ name # <<>> /\ Odd(name) => Odd(Append(name, ch))
         /\ ch \in White => Odd(Append(name, ch))
<1>1. /\ Append(name, ch) \in Seq(S) /\ Len(Append(name, ch)) = Len(name) + 1 /\ Len(name) \in Nat
      /\ Append(name, ch)[Len(name) + 1] = ch
      /\ \A i \in 1 .. Len(name) : Append(name, ch)[i] = name[i]
  BY AppendProperties, LenProperties
<1>2. DOMAIN Append(name, ch) = 1 .. Len(name) + 1 /\ DOMAIN name = 1 .. Len(name)
  BY <1>1, LenProperties
<1>3. \A i \in 1 .. Len(name) : i \in 1 .. Len(name) + 1
  BY <1>1
<1>4. Len(name) + 1 \in 1 .. Len(name) + 1
  BY <1>1
<1> QED BY <1>1, <1>2, <1>3, <1>4, Zenon DEF Odd

(* One more attribute on both sides.                                       *)
LEMMA AttsLikeGrow ==
  ASSUME NEW S, NEW a \in Seq(Pairs(S)), NEW b \in Seq(Pairs(S)), NEW plain,
         NEW n \in Seq(S), NEW m \in Seq(S), NEW v \in Seq(S),
         AttsLike(a, b, plain), n = m \/ (~plain /\ Odd(n))
  PROVE  AttsLike(Append(a, <<n, v>>), Append(b, <<m, v>>), plain)
<1> DEFINE c == Append(a, <<n, v>>)
           e == Append(b, <<m, v>>)
<1>1. <<n, v>> \in Pairs(S) /\ <<m, v>> \in Pairs(S) /\ Len(a) \in Nat /\ Len(a) = Len(b)
  BY LenProperties DEF Pairs, AttsLike
<1>2. /\ Len(c) = Len(a) + 1 /\ c[Len(a) + 1] = <<n, v>> /\ \A i \in 1 .. Len(a) : c[i] = a[i]
      /\ Len(e) = Len(b) + 1 /\ e[Len(b) + 1] = <<m, v>> /\ \A i \in 1 .. Len(b) : e[i] = b[i]
  BY <1>1, AppendProperties
<1> HIDE DEF c, e
<1>3. ASSUME NEW i \in 1 .. Len(c)
      PROVE  c[i][2] = e[i][2] /\ (c[i][1] = e[i][1] \/ (~plain /\ Odd(c[i][1])))
  <2>1. CASE i = Len(a) + 1
    <3>1. c[i] = <<n, v>> /\ e[i] = <<m, v>>
      BY <1>1, <1>2, <2>1
    <3> QED BY <3>1
  <2>2. CASE i # Len(a) + 1
    <3>1. i \in 1 .. Len(a) /\ c[i] = a[i] /\ e[i] = b[i]
      BY <1>1, <1>2, <2>2
    <3> QED BY <3>1 DEF AttsLike
  <2> QED BY <2>1, <2>2
<1>4. Len(c) = Len(e)
  BY <1>1, <1>2
<1>5. AttsLike(c, e, plain)
  BY <1>3, <1>4 DEF AttsLike
<1> QED BY <1>5 DEF c, e

(* Where the layout turns out not to be plain, less is asked.              *)
LEMMA AttsLikeWeaker ==
  ASSUME NEW a, NEW b, NEW plain, AttsLike(a, b, plain)
  PROVE  AttsLike(a, b, FALSE)
  BY Zenon DEF AttsLike

-----------------------------------------------------------------------------
(* Turns, field by field. *)

Goes(p, q) == ~q.done /\ q.rc = p.rc /\ q.read = p.read + 1

(* The parser's turn, by its state and the character.                      *)
LEMMA ParserTurns ==
  ASSUME NEW S, NEW p \in Parsers(S), NEW ch \in S, ~p.done
  PROVE  LET q == Turn(p, ch)
         IN /\ p.state = "START" /\ ch = "?" =>
                 q.done /\ q.rc = p.rc /\ q.read = p.read /\ q.state = "START" /\ q.atts = p.atts
            /\ p.state = "START" /\ ch = Blank => Goes(p, q) /\ q.state = "START" /\ q.atts = p.atts
            /\ p.state = "START" /\ ch = "=" => Goes(p, q) /\ q.state = "QUOTE" /\ q.atts = p.atts /\ q.name = <<>>
            /\ p.state = "START" /\ ch \notin {"?", Blank, "="} =>
                 Goes(p, q) /\ q.state = "NAME" /\ q.atts = p.atts /\ q.name = <<ch>>
            /\ p.state = "NAME" /\ ch = "?" => q.done /\ q.rc = 1
            /\ p.state = "NAME" /\ ch = Blank => Goes(p, q) /\ q.state = "START" /\ q.atts = p.atts
            /\ p.state = "NAME" /\ ch = "=" => Goes(p, q) /\ q.state = "QUOTE" /\ q.atts = p.atts /\ q.name = p.name
            /\ p.state = "NAME" /\ ch \notin {"?", Blank, "="} =>
                 Goes(p, q) /\ q.state = "NAME" /\ q.atts = p.atts /\ q.name = Append(p.name, ch)
            /\ p.state = "QUOTE" /\ ch \in Quotes =>
                 Goes(p, q) /\ q.state = "VAL" /\ q.atts = p.atts /\ q.name = p.name /\ q.quote = ch /\ q.val = <<>>
            /\ p.state = "QUOTE" /\ ch \notin Quotes => q.done /\ q.rc = 1
            /\ p.state = "VAL" /\ ch = p.quote =>
                 Goes(p, q) /\ q.state = "START" /\ q.atts = Append(p.atts, <<p.name, p.val>>)
            /\ p.state = "VAL" /\ ch # p.quote =>
                 Goes(p, q) /\ q.state = "VAL" /\ q.atts = p.atts /\ q.name = p.name /\ q.quote = p.quote
                 /\ q.val = Append(p.val, ch)
<1> DEFINE q == Turn(p, ch)
<1>1. /\ p.state \in ParserStates /\ p.name \in Seq(S) /\ p.val \in Seq(S) /\ p.quote \in Quotes
      /\ p.atts \in Seq(Pairs(S)) /\ p.rc \in {0, 1} /\ p.read \in Nat /\ p.done = FALSE
  BY DEF Parsers
<1>2. Append(<<>>, ch) = <<ch>>
  OBVIOUS
<1>3. CASE p.state = "START"
  <2> DEFINE n == [p EXCEPT !.name = <<>>, !.state = "NAME"]
  <2>1. CASE ch = "?"
    <3>1. q = [p EXCEPT !.done = TRUE]
      <4>1. AtStart(p, ch) = [p EXCEPT !.done = TRUE]
        BY <2>1 DEF AtStart, Blank
      <4>2. [p EXCEPT !.done = TRUE].done
        BY DEF Parsers
      <4> QED BY <1>1, <1>3, <4>1, <4>2, Zenon DEF Turn
    <3> QED BY <1>3, <2>1, <3>1 DEF Parsers, Blank
  <2>2. CASE ch = Blank
    <3>1. q = [p EXCEPT !.read = @ + 1]
      BY <1>1, <1>3, <2>2 DEF Turn, AtStart, Parsers, Blank
    <3> QED BY <1>1, <1>3, <2>2, <3>1 DEF Parsers, Blank, Goes
  <2>3. CASE ch = "="
    <3>1. AtStart(p, ch) = [n EXCEPT !.state = "QUOTE"] /\ ~AtStart(p, ch).done
      BY <1>1, <1>3, <2>3 DEF AtStart, InName, Parsers, Blank
    <3>2. q = [[n EXCEPT !.state = "QUOTE"] EXCEPT !.read = @ + 1]
      BY <1>1, <1>3, <3>1, Zenon DEF Turn
    <3> QED BY <1>1, <1>3, <2>3, <3>2 DEF Parsers, Blank, Goes
  <2>4. CASE ch \notin {"?", Blank, "="}
    <3>1. AtStart(p, ch) = [n EXCEPT !.name = Append(@, ch)] /\ ~AtStart(p, ch).done
      BY <1>1, <1>3, <2>4 DEF AtStart, InName, Parsers, Blank
    <3>2. q = [[n EXCEPT !.name = Append(@, ch)] EXCEPT !.read = @ + 1]
      BY <1>1, <1>3, <3>1, Zenon DEF Turn
    <3> QED BY <1>1, <1>2, <1>3, <2>4, <3>2 DEF Parsers, Blank, Goes
  <2> QED BY <2>1, <2>2, <2>3, <2>4
<1>4. CASE p.state = "NAME"
  <2>1. CASE ch = "?"
    BY <1>1, <1>4, <2>1 DEF Turn, InName, Parsers, Blank
  <2>2. CASE ch = Blank
    BY <1>1, <1>4, <2>2 DEF Turn, InName, Parsers, Blank, Goes
  <2>3. CASE ch = "="
    BY <1>1, <1>4, <2>3 DEF Turn, InName, Parsers, Blank, Goes
  <2>4. CASE ch \notin {"?", Blank, "="}
    BY <1>1, <1>4, <2>4 DEF Turn, InName, Parsers, Blank, Goes
  <2> QED BY <2>1, <2>2, <2>3, <2>4
<1>5. CASE p.state = "QUOTE"
  <2>1. CASE ch \in Quotes
    BY <1>1, <1>5, <2>1 DEF Turn, InQuote, Parsers, Goes
  <2>2. CASE ch \notin Quotes
    BY <1>1, <1>5, <2>2 DEF Turn, InQuote, Parsers
  <2> QED BY <1>5, <2>1, <2>2
<1>6. CASE p.state = "VAL"
  <2>1. CASE ch = p.quote
    BY <1>1, <1>6, <2>1 DEF Turn, InVal, Parsers, Goes
  <2>2. CASE ch # p.quote
    BY <1>1, <1>6, <2>2 DEF Turn, InVal, Parsers, Goes
  <2> QED BY <1>6, <2>1, <2>2
<1> QED BY <1>1, <1>3, <1>4, <1>5, <1>6 DEF ParserStates

Moves(x, y) == y.read = x.read + 1

(* XML's turn, likewise.                                                   *)
LEMMA XmlTurns ==
  ASSUME NEW S, NEW x \in XmlReaders(S), NEW ch \in S
  PROVE  LET y == XmlTurn(x, ch)
         IN /\ x.state \in {"END", "BAD"} => y = x
            /\ x.state = "SPACE" =>
                 \/ ch = "?" /\ y.state = "END" /\ y.read = x.read /\ y.atts = x.atts /\ (y.plain <=> x.plain)
                 \/ ch = Blank /\ Moves(x, y) /\ y.state = "SPACE" /\ y.atts = x.atts /\ (y.plain <=> x.plain)
                 \/ ch \in White \ {Blank} /\ Moves(x, y) /\ y.state = "SPACE" /\ y.atts = x.atts /\ ~y.plain
                 \/ ch \notin White \cup {"?", "="} /\ Moves(x, y) /\ y.state = "NAME" /\ y.atts = x.atts
                    /\ (y.plain <=> x.plain) /\ y.name = <<ch>>
                 \/ y.state = "BAD"
            /\ x.state = "NAME" =>
                 \/ ch = "=" /\ Moves(x, y) /\ y.state = "OPEN" /\ y.atts = x.atts /\ (y.plain <=> x.plain)
                    /\ y.name = x.name
                 \/ ch \in White /\ Moves(x, y) /\ y.state = "EQ" /\ y.atts = x.atts /\ ~y.plain
                 \/ ch \notin White \cup {"?", "="} /\ Moves(x, y) /\ y.state = "NAME" /\ y.atts = x.atts
                    /\ (y.plain <=> x.plain) /\ y.name = Append(x.name, ch)
                 \/ y.state = "BAD"
            /\ x.state = "EQ" =>
                 \/ ch = "=" /\ Moves(x, y) /\ y.state = "OPEN" /\ y.atts = x.atts /\ (y.plain <=> x.plain)
                 \/ ch \in White /\ Moves(x, y) /\ y.state = "EQ" /\ y.atts = x.atts /\ (y.plain <=> x.plain)
                 \/ y.state = "BAD"
            /\ x.state = "OPEN" =>
                 \/ ch \in Quotes /\ Moves(x, y) /\ y.state = "VALUE" /\ y.atts = x.atts /\ (y.plain <=> x.plain)
                    /\ y.name = x.name /\ y.quote = ch /\ y.val = <<>>
                 \/ ch \in White /\ Moves(x, y) /\ y.state = "OPEN" /\ y.atts = x.atts /\ ~y.plain
                 \/ y.state = "BAD"
            /\ x.state = "VALUE" =>
                 \/ ch = x.quote /\ Moves(x, y) /\ y.state = "SPACE" /\ y.atts = Append(x.atts, <<x.name, x.val>>)
                    /\ (y.plain <=> x.plain)
                 \/ ch # x.quote /\ Moves(x, y) /\ y.state = "VALUE" /\ y.atts = x.atts /\ (y.plain <=> x.plain)
                    /\ y.name = x.name /\ y.quote = x.quote /\ y.val = Append(x.val, ch)
<1>1. /\ x.state \in XmlStates /\ x.name \in Seq(S) /\ x.val \in Seq(S) /\ x.quote \in Quotes
      /\ x.atts \in Seq(Pairs(S)) /\ x.read \in Nat /\ x.plain \in BOOLEAN
  BY DEF XmlReaders
<1>2. CASE x.state \in {"END", "BAD"}
  BY <1>2 DEF XmlTurn
<1>3. CASE x.state = "SPACE"
  <2>1. CASE ch = "?"
    <3>1. XmlSpace(x, ch) = [x EXCEPT !.state = "END"]
      BY <2>1 DEF XmlSpace, Blank, White, Quotes
    <3>2. XmlTurn(x, ch) = [x EXCEPT !.state = "END"]
      BY <1>1, <1>3, <3>1 DEF XmlTurn, XmlReaders
    <3> QED BY <1>1, <1>3, <2>1, <3>2 DEF XmlReaders, Moves, Blank, White, Quotes
  <2>2. CASE ch = Blank
    <3>1. XmlSpace(x, ch) = x
      BY <2>2 DEF XmlSpace, Blank, White, Quotes
    <3>2. XmlTurn(x, ch) = [x EXCEPT !.read = @ + 1]
      BY <1>1, <1>3, <3>1 DEF XmlTurn, XmlReaders
    <3> QED BY <1>1, <1>3, <2>2, <3>2 DEF XmlReaders, Moves, Blank, White, Quotes
  <2>3. CASE ch \in White \ {Blank}
    <3>1. XmlSpace(x, ch) = [x EXCEPT !.plain = FALSE]
      BY <2>3 DEF XmlSpace, Blank, White, Quotes
    <3>2. XmlTurn(x, ch) = [[x EXCEPT !.plain = FALSE] EXCEPT !.read = @ + 1]
      BY <1>1, <1>3, <3>1 DEF XmlTurn, XmlReaders
    <3> QED BY <1>1, <1>3, <2>3, <3>2 DEF XmlReaders, Moves, Blank, White, Quotes
  <2>4. CASE ch \in Quotes \cup {"="}
    BY <1>1, <1>3, <2>4 DEF XmlTurn, XmlSpace, XmlReaders, XmlBad, Blank, White, Quotes
  <2>5. CASE ch \notin White \cup Quotes \cup {"=", "?"}
    BY <1>1, <1>3, <2>5 DEF XmlTurn, XmlSpace, XmlReaders, Moves, Blank, White
  <2> QED BY <2>1, <2>2, <2>3, <2>4, <2>5
<1>4. CASE x.state = "NAME"
  <2>1. CASE ch = "="
    <3>1. XmlName(x, ch) = [x EXCEPT !.state = "OPEN"]
      BY <2>1 DEF XmlName, Blank, White, Quotes
    <3>2. XmlTurn(x, ch) = [[x EXCEPT !.state = "OPEN"] EXCEPT !.read = @ + 1]
      BY <1>1, <1>4, <3>1 DEF XmlTurn, XmlReaders
    <3> QED BY <1>1, <1>4, <2>1, <3>2 DEF XmlReaders, Moves, Blank, White, Quotes
  <2>2. CASE ch \in White
    <3>1. XmlName(x, ch) = [x EXCEPT !.state = "EQ", !.plain = FALSE]
      BY <2>2 DEF XmlName, Blank, White, Quotes
    <3>2. XmlTurn(x, ch) = [[x EXCEPT !.state = "EQ", !.plain = FALSE] EXCEPT !.read = @ + 1]
      BY <1>1, <1>4, <3>1 DEF XmlTurn, XmlReaders
    <3> QED BY <1>1, <1>4, <2>2, <3>2 DEF XmlReaders, Moves, Blank, White, Quotes
  <2>3. CASE ch \in Quotes \cup {"?"}
    BY <1>1, <1>4, <2>3 DEF XmlTurn, XmlName, XmlReaders, XmlBad, White, Quotes
  <2>4. CASE ch \notin White \cup Quotes \cup {"=", "?"}
    BY <1>1, <1>4, <2>4 DEF XmlTurn, XmlName, XmlReaders, Moves, White
  <2> QED BY <2>1, <2>2, <2>3, <2>4
<1>5. CASE x.state = "EQ"
  <2>1. CASE ch = "="
    BY <1>1, <1>5, <2>1 DEF XmlTurn, XmlEq, XmlReaders, Moves, White
  <2>2. CASE ch \in White
    BY <1>1, <1>5, <2>2 DEF XmlTurn, XmlEq, XmlReaders, Moves, White
  <2>3. CASE ch \notin White \cup {"="}
    BY <1>1, <1>5, <2>3 DEF XmlTurn, XmlEq, XmlReaders, XmlBad
  <2> QED BY <2>1, <2>2, <2>3
<1>6. CASE x.state = "OPEN"
  <2>1. CASE ch \in Quotes
    <3>1. XmlOpen(x, ch) = [x EXCEPT !.quote = ch, !.val = <<>>, !.state = "VALUE"]
      BY <2>1 DEF XmlOpen, Blank, White, Quotes
    <3>2. XmlTurn(x, ch) = [[x EXCEPT !.quote = ch, !.val = <<>>, !.state = "VALUE"] EXCEPT !.read = @ + 1]
      BY <1>1, <1>6, <3>1 DEF XmlTurn, XmlReaders
    <3> QED BY <1>1, <1>6, <2>1, <3>2 DEF XmlReaders, Moves, Blank, White, Quotes
  <2>2. CASE ch \in White
    BY <1>1, <1>6, <2>2 DEF XmlTurn, XmlOpen, XmlReaders, Moves, White, Quotes
  <2>3. CASE ch \notin White \cup Quotes
    BY <1>1, <1>6, <2>3 DEF XmlTurn, XmlOpen, XmlReaders, XmlBad
  <2> QED BY <2>1, <2>2, <2>3
<1>7. CASE x.state = "VALUE"
  BY <1>1, <1>7 DEF XmlTurn, XmlValue, XmlReaders, Moves
<1> QED BY <1>1, <1>2, <1>3, <1>4, <1>5, <1>6, <1>7 DEF XmlStates

-----------------------------------------------------------------------------
(* Turn by turn they stay alike. *)

(* If the parser and XML agree they do so after the next character,        *)
(* whatever it is: the only ones at which the parser takes something else  *)
(* are white space other than a blank, and white space at an "=".          *)
LEMMA AlikeKept ==
  ASSUME NEW S, NEW p \in Parsers(S), NEW x \in XmlReaders(S), NEW ch \in S, NEW d \in Nat, Alike(p, x, d)
  PROVE  Alike(Turn(p, ch), XmlTurn(x, ch), d)
<1> DEFINE q == Turn(p, ch)
           y == XmlTurn(x, ch)
<1>0. /\ p.state \in ParserStates /\ p.name \in Seq(S) /\ p.val \in Seq(S) /\ p.quote \in Quotes
      /\ p.atts \in Seq(Pairs(S)) /\ p.rc \in {0, 1} /\ p.read \in Nat /\ p.done \in BOOLEAN
  BY DEF Parsers
<1>1. /\ x.state \in XmlStates /\ x.name \in Seq(S) /\ x.val \in Seq(S) /\ x.quote \in Quotes
      /\ x.atts \in Seq(Pairs(S)) /\ x.read \in Nat /\ x.plain \in BOOLEAN
  BY DEF XmlReaders
<1>2. p.done => q = p
  BY DEF Turn
<1>3. Odd(<<>>) /\ (ch \in White => Odd(<<ch>>))
  <2>1. 1 \in DOMAIN <<ch>> /\ <<ch>>[1] = ch
    OBVIOUS
  <2> QED BY <2>1, Zenon DEF Odd
<1>4. /\ p.name # <<>> /\ Odd(p.name) => Odd(Append(p.name, ch))
      /\ ch \in White => Odd(Append(p.name, ch))
  BY <1>0, OddStays
<1>9. Append(p.name, ch) # <<>> /\ <<ch>> # <<>>
  BY <1>0
<1>5. CASE y.state = "BAD"
  BY <1>5 DEF Alike
<1>6. CASE GaveUp(p, x)
  <2>1. ~y.plain \/ y.state = "BAD"
    BY <1>1, <1>6, XmlTurns DEF GaveUp, XmlStates
  <2> QED BY <1>2, <1>5, <1>6, <2>1 DEF GaveUp, Alike
<1>7. CASE y.state # "BAD" /\ OnTrack(p, x, d) /\ x.state = "END"
  <2>1. y = x /\ p.done
    BY <1>7, XmlTurns DEF OnTrack
  <2> QED BY <1>2, <1>7, <2>1 DEF Alike
<1>8. CASE y.state # "BAD" /\ OnTrack(p, x, d) /\ x.state # "END"
  <2>1. /\ ~p.done /\ p.rc = 0 /\ p.read = x.read + d /\ AttsLike(p.atts, x.atts, x.plain)
        /\ p.state = "NAME" => p.name # <<>>
    BY <1>8 DEF OnTrack
  <2>2. AttsLike(p.atts, x.atts, FALSE)
    BY <2>1, AttsLikeWeaker
  <2>3. x.state # "BAD"
    BY <1>8, XmlTurns
  <2> SUFFICES Alike(q, y, d)
    OBVIOUS
  <2> HIDE DEF q, y
  <2>4. ASSUME Goes(p, q), Moves(x, y), y.state # "END", q.state # "NAME" \/ q.name # <<>>, At(q, y),
               AttsLike(q.atts, y.atts, y.plain)
        PROVE  Alike(q, y, d)
    <3>1. q.read = y.read + d
      BY <2>1, <2>4, <1>0, <1>1 DEF Goes, Moves
    <3> QED BY <2>1, <2>4, <3>1 DEF Goes, OnTrack, Alike
  <2>5. ASSUME Goes(p, q), Moves(x, y), y.state # "END", q.state # "NAME" \/ q.name # <<>>, At(q, y),
               q.atts = p.atts, y.atts = x.atts, (y.plain <=> x.plain) \/ ~y.plain
        PROVE  Alike(q, y, d)
    <3>1. AttsLike(q.atts, y.atts, y.plain)
      BY <2>1, <2>2, <2>5 DEF AttsLike
    <3> QED BY <2>4, <2>5, <3>1
  <2>6. CASE x.state = "SPACE" /\ p.state = "START"
    <3>1. CASE ch = "?"
      <4>1. q.done /\ q.rc = p.rc /\ q.read = p.read /\ q.state = "START" /\ q.atts = p.atts
        BY <2>1, <2>6, <3>1, ParserTurns DEF q
      <4>2. y.state = "END" /\ y.read = x.read /\ y.atts = x.atts /\ (y.plain <=> x.plain)
        BY <1>8, <2>6, <3>1, XmlTurns DEF y, Blank, White
      <4>3. AttsLike(q.atts, y.atts, y.plain)
        BY <2>1, <4>1, <4>2 DEF AttsLike
      <4> QED BY <2>1, <4>1, <4>2, <4>3 DEF Alike, OnTrack, At
    <3>2. CASE ch = Blank
      <4>1. Goes(p, q) /\ q.state = "START" /\ q.atts = p.atts
        BY <2>1, <2>6, <3>2, ParserTurns DEF q
      <4>2. Moves(x, y) /\ y.state = "SPACE" /\ y.atts = x.atts /\ (y.plain <=> x.plain)
        BY <1>8, <2>6, <3>2, XmlTurns DEF y, Blank, White
      <4>3. At(q, y)
        BY <4>1, <4>2 DEF At
      <4> QED BY <2>5, <4>1, <4>2, <4>3
    <3>3. CASE ch \in White \ {Blank}
      <4>1. Goes(p, q) /\ q.state = "NAME" /\ q.atts = p.atts /\ q.name = <<ch>>
        BY <2>1, <2>6, <3>3, ParserTurns DEF q, White, Blank
      <4>2. Moves(x, y) /\ y.state = "SPACE" /\ y.atts = x.atts /\ ~y.plain
        BY <1>8, <2>6, <3>3, XmlTurns DEF y, Blank, White
      <4>3. At(q, y)
        BY <1>3, <3>3, <4>1, <4>2 DEF At
      <4> QED BY <1>9, <2>5, <4>1, <4>2, <4>3
    <3>4. CASE ch \notin White \cup {"?"}
      <4>1. Moves(x, y) /\ y.state = "NAME" /\ y.atts = x.atts /\ (y.plain <=> x.plain) /\ y.name = <<ch>> /\ ch # "="
        BY <1>8, <2>6, <3>4, XmlTurns DEF y, Blank, White
      <4>2. Goes(p, q) /\ q.state = "NAME" /\ q.atts = p.atts /\ q.name = <<ch>>
        BY <2>1, <2>6, <3>4, <4>1, ParserTurns DEF q, White, Blank
      <4>3. At(q, y)
        BY <4>1, <4>2 DEF At, NameLike
      <4> QED BY <1>9, <2>5, <4>1, <4>2, <4>3
    <3> QED BY <3>1, <3>2, <3>3, <3>4
  <2>7. CASE x.state = "SPACE" /\ p.state = "NAME" /\ ~x.plain /\ Odd(p.name)
    <3>1. CASE ch = "?"
      <4>1. q.done /\ q.rc = 1
        BY <2>1, <2>7, <3>1, ParserTurns DEF q
      <4>2. ~y.plain
        BY <1>8, <2>7, <3>1, XmlTurns DEF y, Blank, White
      <4> QED BY <4>1, <4>2 DEF Alike, GaveUp
    <3>2. CASE ch = Blank
      <4>1. Goes(p, q) /\ q.state = "START" /\ q.atts = p.atts
        BY <2>1, <2>7, <3>2, ParserTurns DEF q
      <4>2. Moves(x, y) /\ y.state = "SPACE" /\ y.atts = x.atts /\ (y.plain <=> x.plain)
        BY <1>8, <2>7, <3>2, XmlTurns DEF y, Blank, White
      <4>3. At(q, y)
        BY <4>1, <4>2 DEF At
      <4> QED BY <2>5, <4>1, <4>2, <4>3
    <3>3. CASE ch \in White \ {Blank}
      <4>1. Goes(p, q) /\ q.state = "NAME" /\ q.atts = p.atts /\ q.name = Append(p.name, ch)
        BY <2>1, <2>7, <3>3, ParserTurns DEF q, White, Blank
      <4>2. Moves(x, y) /\ y.state = "SPACE" /\ y.atts = x.atts /\ ~y.plain
        BY <1>8, <2>7, <3>3, XmlTurns DEF y, Blank, White
      <4>3. At(q, y)
        BY <1>4, <3>3, <4>1, <4>2 DEF At
      <4> QED BY <1>9, <2>5, <4>1, <4>2, <4>3
    <3>4. CASE ch \notin White \cup {"?"}
      <4>1. Moves(x, y) /\ y.state = "NAME" /\ y.atts = x.atts /\ (y.plain <=> x.plain) /\ y.name = <<ch>> /\ ch # "="
        BY <1>8, <2>7, <3>4, XmlTurns DEF y, Blank, White
      <4>2. Goes(p, q) /\ q.state = "NAME" /\ q.atts = p.atts /\ q.name = Append(p.name, ch)
        BY <2>1, <2>7, <3>4, <4>1, ParserTurns DEF q, White, Blank
      <4>3. At(q, y)
        BY <1>4, <2>1, <2>7, <4>1, <4>2 DEF At, NameLike
      <4> QED BY <1>9, <2>5, <4>1, <4>2, <4>3
    <3> QED BY <3>1, <3>2, <3>3, <3>4
  <2>8. CASE x.state = "NAME" /\ p.state = "NAME" /\ NameLike(p, x)
    <3>1. CASE ch = "="
      <4>1. Goes(p, q) /\ q.state = "QUOTE" /\ q.atts = p.atts /\ q.name = p.name
        BY <2>1, <2>8, <3>1, ParserTurns DEF q
      <4>2. Moves(x, y) /\ y.state = "OPEN" /\ y.atts = x.atts /\ (y.plain <=> x.plain) /\ y.name = x.name
        BY <1>8, <2>8, <3>1, XmlTurns DEF y, White
      <4>3. At(q, y)
        BY <2>8, <4>1, <4>2 DEF At, NameLike
      <4> QED BY <2>5, <4>1, <4>2, <4>3
    <3>2. CASE ch \in White
      <4>1. Goes(p, q) /\ q.atts = p.atts /\ (q.state = "START" \/ (q.state = "NAME" /\ q.name = Append(p.name, ch)))
        <5>1. CASE ch = Blank
          <6>1. Goes(p, q) /\ q.state = "START" /\ q.atts = p.atts
            BY <2>1, <2>8, <5>1, ParserTurns DEF q
          <6> QED BY <6>1
        <5>2. CASE ch # Blank
          <6>1. ch \notin {"?", Blank, "="}
            BY <3>2, <5>2 DEF White
          <6> QED BY <2>1, <2>8, <6>1, ParserTurns DEF q
        <5> QED BY <5>1, <5>2
      <4>2. Moves(x, y) /\ y.state = "EQ" /\ y.atts = x.atts /\ ~y.plain
        BY <1>8, <2>8, <3>2, XmlTurns DEF y, Blank, White
      <4>3. At(q, y)
        BY <1>4, <3>2, <4>1, <4>2 DEF At
      <4> QED BY <1>9, <2>5, <4>1, <4>2, <4>3
    <3>3. CASE ch \notin White \cup {"="}
      <4>1. /\ Moves(x, y) /\ y.state = "NAME" /\ y.atts = x.atts /\ (y.plain <=> x.plain)
            /\ y.name = Append(x.name, ch)
            /\ ch # "?"
        BY <1>8, <2>8, <3>3, XmlTurns DEF y, White
      <4>2. Goes(p, q) /\ q.state = "NAME" /\ q.atts = p.atts /\ q.name = Append(p.name, ch)
        BY <2>1, <2>8, <3>3, <4>1, ParserTurns DEF q, White, Blank
      <4>3. At(q, y)
        BY <1>4, <2>1, <2>8, <4>1, <4>2 DEF At, NameLike
      <4> QED BY <1>9, <2>5, <4>1, <4>2, <4>3
    <3> QED BY <3>1, <3>2, <3>3
  <2>9. CASE x.state = "EQ" /\ ~x.plain /\ (p.state = "START" \/ (p.state = "NAME" /\ Odd(p.name)))
    <3>1. CASE ch = "="
      <4>1. Goes(p, q) /\ q.state = "QUOTE" /\ q.atts = p.atts /\ (q.name = <<>> \/ (q.name = p.name /\ Odd(p.name)))
        BY <2>1, <2>9, <3>1, ParserTurns DEF q
      <4>2. Moves(x, y) /\ y.state = "OPEN" /\ y.atts = x.atts /\ (y.plain <=> x.plain)
        BY <1>8, <2>9, <3>1, XmlTurns DEF y, White
      <4>3. Odd(q.name)
        BY <1>3, <4>1, Zenon
      <4>4. At(q, y)
        BY <2>9, <4>1, <4>2, <4>3 DEF At, NameLike
      <4> QED BY <2>5, <4>1, <4>2, <4>4
    <3>2. CASE ch \in White
      <4>1. /\ Goes(p, q) /\ q.atts = p.atts
            /\ \/ q.state = "START"
               \/ q.state = "NAME" /\ (q.name = <<ch>> \/ q.name = Append(p.name, ch))
        BY <2>1, <2>9, <3>2, ParserTurns DEF q, White, Blank
      <4>2. Moves(x, y) /\ y.state = "EQ" /\ y.atts = x.atts /\ (y.plain <=> x.plain)
        BY <1>8, <2>9, <3>2, XmlTurns DEF y, Blank, White
      <4>3. At(q, y)
        BY <1>3, <1>4, <2>9, <3>2, <4>1, <4>2 DEF At
      <4> QED BY <1>9, <2>5, <4>1, <4>2, <4>3
    <3>3. CASE ch \notin White \cup {"="}
      BY <1>8, <2>9, <3>3, XmlTurns DEF y
    <3> QED BY <3>1, <3>2, <3>3
  <2>10. CASE x.state = "OPEN" /\ p.state = "QUOTE" /\ NameLike(p, x)
    <3>1. CASE ch \in Quotes
      <4>1. Goes(p, q) /\ q.state = "VAL" /\ q.atts = p.atts /\ q.name = p.name /\ q.quote = ch /\ q.val = <<>>
        BY <2>1, <2>10, <3>1, ParserTurns DEF q
      <4>2. /\ Moves(x, y) /\ y.state = "VALUE" /\ y.atts = x.atts /\ (y.plain <=> x.plain)
            /\ y.name = x.name /\ y.quote = ch /\ y.val = <<>>
        BY <1>8, <2>10, <3>1, XmlTurns DEF y, White, Quotes
      <4>3. At(q, y)
        BY <2>10, <4>1, <4>2 DEF At, NameLike
      <4> QED BY <2>5, <4>1, <4>2, <4>3
    <3>2. CASE ch \notin Quotes
      <4>1. q.done /\ q.rc = 1
        BY <2>1, <2>10, <3>2, ParserTurns DEF q
      <4>2. ~y.plain
        BY <1>8, <2>10, <3>2, XmlTurns DEF y
      <4> QED BY <4>1, <4>2 DEF Alike, GaveUp
    <3> QED BY <3>1, <3>2
  <2>11. CASE x.state = "VALUE" /\ p.state = "VAL" /\ NameLike(p, x) /\ p.quote = x.quote /\ p.val = x.val
    <3>1. CASE ch = p.quote
      <4>1. Goes(p, q) /\ q.state = "START" /\ q.atts = Append(p.atts, <<p.name, p.val>>)
        BY <2>1, <2>11, <3>1, ParserTurns DEF q
      <4>2. Moves(x, y) /\ y.state = "SPACE" /\ y.atts = Append(x.atts, <<x.name, x.val>>) /\ (y.plain <=> x.plain)
        BY <1>8, <2>11, <3>1, XmlTurns DEF y
      <4>3. AttsLike(q.atts, y.atts, y.plain)
        <5>1. AttsLike(Append(p.atts, <<p.name, p.val>>), Append(x.atts, <<x.name, p.val>>), x.plain)
          BY <1>0, <1>1, <2>1, <2>11, AttsLikeGrow DEF NameLike
        <5> QED BY <2>11, <4>1, <4>2, <5>1 DEF AttsLike
      <4>4. At(q, y)
        BY <4>1, <4>2 DEF At
      <4> QED BY <2>4, <4>1, <4>2, <4>3, <4>4
    <3>2. CASE ch # p.quote
      <4>1. Goes(p, q) /\ q.state = "VAL" /\ q.atts = p.atts /\ q.name = p.name /\ q.quote = p.quote
            /\ q.val = Append(p.val, ch)
        BY <2>1, <2>11, <3>2, ParserTurns DEF q
      <4>2. /\ Moves(x, y) /\ y.state = "VALUE" /\ y.atts = x.atts /\ (y.plain <=> x.plain)
            /\ y.name = x.name /\ y.quote = x.quote /\ y.val = Append(x.val, ch)
        BY <1>8, <2>11, <3>2, XmlTurns DEF y
      <4>3. At(q, y)
        BY <2>11, <4>1, <4>2 DEF At, NameLike
      <4> QED BY <2>5, <4>1, <4>2, <4>3
    <3> QED BY <3>1, <3>2
  <2>12. \/ x.state = "SPACE" /\ p.state = "START"
         \/ x.state = "SPACE" /\ p.state = "NAME" /\ ~x.plain /\ Odd(p.name)
         \/ x.state = "NAME" /\ p.state = "NAME" /\ NameLike(p, x)
         \/ x.state = "EQ" /\ ~x.plain /\ (p.state = "START" \/ (p.state = "NAME" /\ Odd(p.name)))
         \/ x.state = "OPEN" /\ p.state = "QUOTE" /\ NameLike(p, x)
         \/ x.state = "VALUE" /\ p.state = "VAL" /\ NameLike(p, x) /\ p.quote = x.quote /\ p.val = x.val
    BY <1>8 DEF OnTrack, At
  <2> QED BY <2>6, <2>7, <2>8, <2>9, <2>10, <2>11, <2>12, Zenon
<1> QED BY <1>5, <1>6, <1>7, <1>8, XmlTurns DEF Alike

-----------------------------------------------------------------------------
(* Both of them on the same text. *)

(* So they agree after any part of a text, read from its start or from a   *)
(* blank before it.                                                        *)
LEMMA Lockstep ==
  ASSUME NEW S, NEW t \in Seq(S), NEW in \in Seq(S), NEW d \in {0, 1}, NEW n \in 0 .. Len(t), Len(in) = n + d,
         \A i \in 1 .. n : in[i + d] = t[i], d = 1 => in[1] = Blank,
         NEW P, NEW X, ParserRun(P, in, S), XmlRun(X, t, S)
  PROVE  Alike(P[n + d], X[n], d)
<1> DEFINE T == {i \in 0 .. n : Alike(P[i + d], X[i], d)}
<1>1. Len(t) \in Nat /\ n \in Nat /\ d \in Nat
  BY LenProperties
<1>2. /\ P \in [0 .. Len(in) -> Parsers(S)] /\ P[0] = ParserAtStart
      /\ \A i \in 1 .. Len(in) : P[i] = Turn(P[i - 1], in[i])
  BY DEF ParserRun
<1>3. /\ X \in [0 .. Len(t) -> XmlReaders(S)] /\ X[0] = XmlAtStart
      /\ \A i \in 1 .. Len(t) : X[i] = XmlTurn(X[i - 1], t[i])
  BY DEF XmlRun
<1>4. 0 \in T
  <2>1. /\ X[0].state = "SPACE" /\ X[0].read = 0 /\ X[0].atts = <<>>
        /\ P[0].state = "START" /\ P[0].read = 0 /\ P[0].atts = <<>> /\ P[0].rc = 0 /\ ~P[0].done
    BY <1>2, <1>3 DEF ParserAtStart, XmlAtStart
  <2>2. P[d].state = "START" /\ P[d].read = d /\ P[d].atts = <<>> /\ P[d].rc = 0 /\ ~P[d].done
    <3>1. CASE d = 0
      BY <2>1, <3>1
    <3>2. CASE d = 1
      <4>1. P[1] = Turn(P[0], Blank) /\ Blank \in S /\ P[0] \in Parsers(S)
        <5>1. 1 \in 1 .. Len(in) /\ 0 \in 0 .. Len(in) /\ in[1] = Blank
          BY <1>1, <3>2
        <5> QED BY <1>2, <5>1, ElementOfSeq
      <4>2. PICK p \in Parsers(S) : p = P[0]
        BY <4>1
      <4>3. PICK q : q = Turn(p, Blank)
        OBVIOUS
      <4>4. Goes(p, q) /\ q.state = "START" /\ q.atts = p.atts
        BY <2>1, <4>1, <4>2, <4>3, ParserTurns
      <4>5. q = P[1]
        BY <4>1, <4>2, <4>3
      <4> QED BY <2>1, <3>2, <4>2, <4>4, <4>5 DEF Goes
    <3> QED BY <3>1, <3>2
  <2>3. AttsLike(P[d].atts, X[0].atts, X[0].plain)
    <3>1. P[d].atts = <<>> /\ X[0].atts = <<>> /\ 1 .. Len(<<>>) = {}
      BY <2>1, <2>2
    <3> QED BY <3>1 DEF AttsLike
  <2>4. Alike(P[d], X[0], d)
    BY <2>1, <2>2, <2>3 DEF Alike, OnTrack, At
  <2> QED BY <1>1, <2>4
<1>5. ASSUME NEW i \in 0 .. n - 1, i \in T PROVE i + 1 \in T
  <2>1. /\ i + 1 \in 0 .. n /\ i + 1 \in 1 .. Len(t) /\ i \in 0 .. Len(t) /\ (i + 1) - 1 = i
        /\ i + d \in 0 .. Len(in) /\ (i + 1) + d \in 1 .. Len(in) /\ ((i + 1) + d) - 1 = i + d
    <3>1. i + 1 \in 0 .. n /\ i + 1 \in 1 .. Len(t) /\ i \in 0 .. Len(t) /\ (i + 1) - 1 = i
      BY <1>1
    <3>2. i + d \in 0 .. n + d /\ (i + 1) + d \in 1 .. n + d /\ ((i + 1) + d) - 1 = i + d
      BY <1>1
    <3> QED BY <3>1, <3>2
  <2>2. PICK p \in Parsers(S), x \in XmlReaders(S), ch \in S : p = P[i + d] /\ x = X[i] /\ ch = t[i + 1]
    BY <1>2, <1>3, <2>1, ElementOfSeq
  <2>3. in[(i + 1) + d] = ch
    <3>1. i + 1 \in 1 .. n
      BY <1>1
    <3> QED BY <2>2, <3>1
  <2>4. P[(i + 1) + d] = Turn(p, ch)
    BY <1>2, <2>1, <2>2, <2>3
  <2>5. X[i + 1] = XmlTurn(x, ch)
    BY <1>3, <2>1, <2>2
  <2>6. Alike(p, x, d)
    BY <1>5, <2>2
  <2>7. Alike(Turn(p, ch), XmlTurn(x, ch), d)
    BY <1>1, <2>6, AlikeKept
  <2> QED BY <2>1, <2>4, <2>5, <2>7
<1>6. n \in T
  <2> HIDE DEF T
  <2>1. \A i \in 0 .. n - 1 : i \in T => i + 1 \in T
    BY <1>5
  <2>2. 0 .. n \subseteq T
    BY <1>1, <1>4, <2>1, InductionUpTo
  <2> QED BY <1>1, <2>2
<1> QED BY <1>6

(* y is read after x, of the same text. *)
Later(x, y) ==
  y.state # "BAD" =>
    /\ x.state # "BAD" /\ (x.state = "END" => y = x)
    /\ y.plain => x.plain
    /\ x.read <= y.read
    /\ Len(x.atts) <= Len(y.atts) /\ \A i \in 1 .. Len(x.atts) : y.atts[i] = x.atts[i]

(* One more character is later still.                                      *)
LEMMA LaterKept ==
  ASSUME NEW S, NEW x \in XmlReaders(S), NEW y \in XmlReaders(S), NEW ch \in S, Later(x, y)
  PROVE  Later(x, XmlTurn(y, ch))
<1> SUFFICES ASSUME XmlTurn(y, ch).state # "BAD" PROVE Later(x, XmlTurn(y, ch))
  BY DEF Later
<1>1. PICK z : z = XmlTurn(y, ch)
  OBVIOUS
<1>2. y.state \in XmlStates
      /\ y.atts \in Seq(Pairs(S)) /\ x.atts \in Seq(Pairs(S)) /\ x.read \in Nat /\ y.read \in Nat
      /\ y.name \in Seq(S) /\ y.val \in Seq(S)
  BY DEF XmlReaders
<1>3. CASE y.state = "END"
  <2>1. z = y
    BY <1>1, <1>3, XmlTurns
  <2> QED BY <1>1, <2>1
<1>4. CASE y.state # "END"
  <2>1. y.state # "BAD"
    BY XmlTurns
  <2>2. x.state # "BAD" /\ x.state # "END" /\ (y.plain => x.plain) /\ x.read <= y.read
        /\ Len(x.atts) <= Len(y.atts) /\ \A i \in 1 .. Len(x.atts) : y.atts[i] = x.atts[i]
    BY <1>4, <2>1 DEF Later
  <2>3. (z.read = y.read \/ z.read = y.read + 1) /\ (z.plain => y.plain)
    BY <1>1, <1>2, <1>4, <2>1, XmlTurns DEF XmlStates, Moves
  <2>4. z.atts = y.atts \/ z.atts = Append(y.atts, <<y.name, y.val>>)
    BY <1>1, <1>2, <1>4, <2>1, XmlTurns DEF XmlStates
  <2>5. Len(x.atts) <= Len(z.atts) /\ \A i \in 1 .. Len(x.atts) : z.atts[i] = x.atts[i]
    <3>1. CASE z.atts = y.atts
      BY <2>2, <3>1
    <3>2. CASE z.atts = Append(y.atts, <<y.name, y.val>>)
      <4>1. <<y.name, y.val>> \in Pairs(S) /\ Len(x.atts) \in Nat /\ Len(y.atts) \in Nat
        BY <1>2, LenProperties DEF Pairs
      <4>2. Len(z.atts) = Len(y.atts) + 1 /\ \A i \in 1 .. Len(y.atts) : z.atts[i] = y.atts[i]
        BY <1>2, <3>2, <4>1, AppendProperties
      <4>3. \A i \in 1 .. Len(x.atts) : i \in 1 .. Len(y.atts)
        BY <2>2, <4>1
      <4> QED BY <2>2, <4>1, <4>2, <4>3
    <3> QED BY <2>4, <3>1, <3>2
  <2>6. x.read <= z.read
    BY <1>2, <2>2, <2>3
  <2> QED BY <1>1, <2>2, <2>3, <2>5, <2>6 DEF Later
<1> QED BY <1>3, <1>4

(* What has been read of a part of a text is where the reading of all of   *)
(* it passes.                                                              *)
LEMMA Laters ==
  ASSUME NEW S, NEW t \in Seq(S), NEW X, XmlRun(X, t, S), NEW n \in 0 .. Len(t)
  PROVE  Later(X[n], X[Len(t)])
<1> DEFINE N == Len(t)
           T == {j \in 0 .. N - n : Later(X[n], X[n + j])}
<1>1. N \in Nat /\ n \in Nat /\ N - n \in Nat
  BY LenProperties
<1>2. /\ X \in [0 .. N -> XmlReaders(S)]
      /\ \A i \in 1 .. N : X[i] = XmlTurn(X[i - 1], t[i])
  BY DEF XmlRun
<1>3. 0 \in T
  <2>1. X[n] \in XmlReaders(S) /\ n + 0 = n /\ 0 \in 0 .. N - n
    BY <1>1, <1>2
  <2>2. PICK x \in XmlReaders(S) : x = X[n]
    BY <2>1
  <2>3. x.read \in Nat /\ Len(x.atts) \in Nat
    BY LenProperties DEF XmlReaders
  <2>4. Later(x, x)
    BY <2>3 DEF Later
  <2> QED BY <2>1, <2>2, <2>4
<1>4. ASSUME NEW j \in 0 .. (N - n) - 1, j \in T PROVE j + 1 \in T
  <2>1. j + 1 \in 0 .. N - n /\ n + j \in 0 .. N /\ n + (j + 1) \in 1 .. N /\ (n + (j + 1)) - 1 = n + j
    BY <1>1
  <2>2. PICK x \in XmlReaders(S), y \in XmlReaders(S), ch \in S : x = X[n] /\ y = X[n + j] /\ ch = t[n + (j + 1)]
    BY <1>1, <1>2, <2>1, ElementOfSeq
  <2>3. X[n + (j + 1)] = XmlTurn(y, ch)
    BY <1>2, <2>1, <2>2
  <2>4. Later(x, y)
    BY <1>4, <2>2
  <2>5. Later(x, XmlTurn(y, ch))
    BY <2>4, LaterKept
  <2> QED BY <2>1, <2>2, <2>3, <2>5
<1>5. N - n \in T
  <2> HIDE DEF T
  <2>1. \A j \in 0 .. (N - n) - 1 : j \in T => j + 1 \in T
    BY <1>4
  <2>2. PICK m \in Nat : m = N - n
    BY <1>1
  <2>3. 0 .. m \subseteq T
    BY <1>3, <2>1, <2>2, InductionUpTo
  <2> QED BY <2>2, <2>3
<1>6. n + (N - n) = N
  BY <1>1
<1> QED BY <1>5, <1>6

(* Where it is.                                                            *)
Placed(x, i) == (x.state \notin {"END", "BAD"} => x.read = i) /\ (x.state = "END" => x.read < i)

(* XML's reading is at the last character it was given, or has ended       *)
(* before it.                                                              *)
LEMMA Placings ==
  ASSUME NEW S, NEW t \in Seq(S), NEW X, XmlRun(X, t, S), NEW n \in 0 .. Len(t)
  PROVE  Placed(X[n], n)
<1> DEFINE N == Len(t)
           T == {i \in 0 .. N : Placed(X[i], i)}
<1>1. N \in Nat
  BY LenProperties
<1>2. /\ X \in [0 .. N -> XmlReaders(S)] /\ X[0] = XmlAtStart
      /\ \A i \in 1 .. N : X[i] = XmlTurn(X[i - 1], t[i])
  BY DEF XmlRun
<1>3. 0 \in T
  <2>1. Placed(X[0], 0)
    BY <1>2 DEF Placed, XmlAtStart
  <2> QED BY <1>1, <2>1
<1>4. ASSUME NEW i \in 0 .. N - 1, i \in T PROVE i + 1 \in T
  <2>1. i + 1 \in 0 .. N /\ i \in 0 .. N /\ i + 1 \in 1 .. N /\ (i + 1) - 1 = i
    BY <1>1
  <2>2. PICK x \in XmlReaders(S), ch \in S : x = X[i] /\ ch = t[i + 1]
    BY <1>2, <2>1, ElementOfSeq
  <2>3. PICK y : y = XmlTurn(x, ch)
    OBVIOUS
  <2>4. X[i + 1] = y
    BY <1>2, <2>1, <2>2, <2>3
  <2>5. x.state \in XmlStates /\ x.read \in Nat /\ i \in Nat /\ Placed(x, i)
    BY <1>4, <2>2 DEF XmlReaders
  <2>6. Placed(y, i + 1)
    <3>1. CASE x.state \in {"END", "BAD"}
      <4>1. y = x
        BY <2>3, <3>1, XmlTurns
      <4> QED BY <2>5, <3>1, <4>1 DEF Placed
    <3>2. CASE x.state \notin {"END", "BAD"}
      <4>1. x.read = i
        BY <2>5, <3>2 DEF Placed
      <4>2. \/ y.state = "BAD" \/ (y.state = "END" /\ y.read = x.read)
            \/ (y.state # "END" /\ y.read = x.read + 1)
        BY <2>3, <2>5, <3>2, XmlTurns DEF XmlStates, Moves
      <4> QED BY <2>5, <4>1, <4>2 DEF Placed
    <3> QED BY <3>1, <3>2
  <2> QED BY <2>1, <2>4, <2>6
<1>5. n \in T
  <2> HIDE DEF T
  <2>1. \A i \in 0 .. N - 1 : i \in T => i + 1 \in T
    BY <1>4
  <2>2. 0 .. N \subseteq T
    BY <1>1, <1>3, <2>1, InductionUpTo
  <2> QED BY <2>2
<1> QED BY <1>5

-----------------------------------------------------------------------------
(* What the parser makes of the first n characters of a declaration, which *)
(* all together are read as x.                                             *)

ReadRight(p, x, d, n) ==
  /\ p.rc = 0 =>
       /\ Len(p.atts) <= Len(x.atts)
       /\ \A i \in 1 .. Len(p.atts) :
            p.atts[i][2] = x.atts[i][2] /\ (p.atts[i][1] = x.atts[i][1] \/ (~x.plain /\ Odd(p.atts[i][1])))
  /\ x.read < n =>
       \/ p.rc = 1 /\ ~x.plain
       \/ p.rc = 0 /\ Len(p.atts) = Len(x.atts) /\ p.read = x.read + d

(* If XML can read the declaration to its end, the parser finds the first  *)
(* of its attributes in a part of it, all of them if the part reaches up   *)
(* to "?>", or gives up, which it does not in the plain layout.            *)
LEMMA ReadRightly ==
  ASSUME NEW S, NEW t \in Seq(S), NEW in \in Seq(S), NEW d \in {0, 1}, NEW n \in 0 .. Len(t), Len(in) = n + d,
         \A i \in 1 .. n : in[i + d] = t[i], d = 1 => in[1] = Blank,
         XmlRead(t).state = "END"
  PROVE  LET p == AttsParse(in)
             x == XmlRead(t)
         IN /\ ReadRight(p, x, d, n)
            /\ p.rc \in {0, 1} /\ p.atts \in Seq(Pairs(S))
            /\ x.atts \in Seq(Pairs(S)) /\ x.read \in Nat /\ x.read < Len(t)
<1>1. PICK P : ParserRun(P, in, S) /\ AttsParse(in) = Concluded(P[Len(in)])
  BY ParserRuns
<1>2. PICK X : XmlRun(X, t, S) /\ XmlRead(t) = X[Len(t)]
  BY XmlRuns
<1>3. Len(t) \in Nat /\ n \in Nat /\ d \in Nat /\ Len(t) \in 0 .. Len(t)
  BY LenProperties
<1>4. PICK q \in Parsers(S) : q = P[n + d]
  <2>1. n + d \in 0 .. Len(in) /\ P \in [0 .. Len(in) -> Parsers(S)]
    BY <1>1, <1>3 DEF ParserRun
  <2> QED BY <2>1
<1>5. PICK y \in XmlReaders(S) : y = X[n]
  BY <1>2 DEF XmlRun
<1>6. PICK x \in XmlReaders(S) : x = X[Len(t)]
  BY <1>2, <1>3 DEF XmlRun
<1>7. x = XmlRead(t) /\ x.state = "END"
  BY <1>2, <1>6
<1>8. PICK p : p = AttsParse(in)
  OBVIOUS
<1>9. p.rc = (IF q.state # "START" THEN 1 ELSE q.rc) /\ p.atts = q.atts /\ p.read = q.read
  <2>1. p = [q EXCEPT !.rc = IF q.state # "START" THEN 1 ELSE q.rc]
    BY <1>1, <1>4, <1>8 DEF Concluded
  <2> QED BY <2>1 DEF Parsers
<1>10. /\ q.rc \in {0, 1} /\ q.atts \in Seq(Pairs(S)) /\ q.read \in Nat
       /\ x.atts \in Seq(Pairs(S)) /\ y.atts \in Seq(Pairs(S)) /\ x.read \in Nat /\ y.read \in Nat
  BY DEF Parsers, XmlReaders
<1>11. Alike(q, y, d)
  BY <1>1, <1>2, <1>4, <1>5, Lockstep
<1>12. Later(y, x)
  BY <1>2, <1>5, <1>6, Laters
<1>13. Placed(y, n) /\ Placed(x, Len(t))
  BY <1>2, <1>3, <1>5, <1>6, Placings
<1>14. /\ y.state # "BAD" /\ (y.state = "END" => x = y) /\ (x.plain => y.plain) /\ y.read <= x.read
       /\ Len(y.atts) <= Len(x.atts) /\ \A i \in 1 .. Len(y.atts) : x.atts[i] = y.atts[i]
  BY <1>7, <1>12 DEF Later
<1>15. GaveUp(q, y) \/ OnTrack(q, y, d)
  BY <1>11, <1>14 DEF Alike
<1>16. /\ Len(q.atts) \in Nat /\ Len(y.atts) \in Nat
  BY <1>10, LenProperties
<1>17. p.rc = 0 => OnTrack(q, y, d)
  BY <1>9, <1>15 DEF GaveUp
<1>18. ASSUME p.rc = 0
       PROVE  /\ Len(p.atts) <= Len(x.atts)
              /\ \A i \in 1 .. Len(p.atts) :
                   p.atts[i][2] = x.atts[i][2] /\ (p.atts[i][1] = x.atts[i][1] \/ (~x.plain /\ Odd(p.atts[i][1])))
  <2>1. Len(p.atts) = Len(y.atts)
    BY <1>9, <1>17, <1>18 DEF OnTrack, AttsLike
  <2>2. ASSUME NEW i \in 1 .. Len(p.atts)
        PROVE  p.atts[i][2] = x.atts[i][2] /\ (p.atts[i][1] = x.atts[i][1] \/ (~x.plain /\ Odd(p.atts[i][1])))
    <3>1. x.atts[i] = y.atts[i]
      BY <1>14, <2>1, <2>2
    <3>2. p.atts[i][2] = y.atts[i][2] /\ (p.atts[i][1] = y.atts[i][1] \/ (~y.plain /\ Odd(p.atts[i][1])))
      BY <1>9, <1>17, <1>18, <2>2 DEF OnTrack, AttsLike
    <3> QED BY <1>14, <3>1, <3>2
  <2> QED BY <1>14, <2>1, <2>2
<1>19. ASSUME x.read < n
       PROVE  \/ p.rc = 1 /\ ~x.plain
              \/ p.rc = 0 /\ Len(p.atts) = Len(x.atts) /\ p.read = x.read + d
  <2>1. y.state = "END" /\ x = y
    BY <1>3, <1>10, <1>13, <1>14, <1>19 DEF Placed
  <2>2. CASE GaveUp(q, y)
    BY <1>9, <2>1, <2>2 DEF GaveUp
  <2>3. CASE OnTrack(q, y, d)
    <3>1. q.state = "START" /\ q.rc = 0 /\ q.read = y.read + d /\ Len(q.atts) = Len(y.atts)
      BY <2>1, <2>3 DEF OnTrack, At, AttsLike
    <3> QED BY <1>9, <2>1, <3>1
  <2> QED BY <1>15, <2>2, <2>3
<1>20. ReadRight(p, x, d, n)
  BY <1>18, <1>19, Zenon DEF ReadRight
<1>21. p.rc \in {0, 1} /\ p.atts \in Seq(Pairs(S)) /\ x.read < Len(t)
  BY <1>7, <1>9, <1>10, <1>13 DEF Placed
<1> QED BY <1>7, <1>8, <1>10, <1>20, <1>21

-----------------------------------------------------------------------------
(* encfixer and encextractor, with what is parsed. *)

Alphabet(file) == ToSet(file.text) \cup {Blank, "=", "dq", "utf"}

(* The names of a declaration's attributes hold no white space.            *)
LEMMA KnownNotOdd == \A name \in Known : ~Odd(name) /\ DOMAIN name = {1}
<1>1. \A w : DOMAIN <<w>> = {1} /\ <<w>> # <<>> /\ <<w>>[1] = w
  OBVIOUS
<1>2. "version" \notin White /\ "standalone" \notin White /\ "encoding" \notin White
  BY DEF White
<1>3. ASSUME NEW w, w \notin White PROVE ~Odd(<<w>>)
  BY <1>1, <1>3 DEF Odd
<1> QED BY <1>1, <1>2, <1>3 DEF Known

(* encfixer writes all attributes if it knows all their names.             *)
LEMMA UpToAll ==
  ASSUME NEW S, NEW atts \in Seq(Pairs(S))
  PROVE  UpTo(atts) = atts <=> \A i \in 1 .. Len(atts) : atts[i][1] \in Known
<1> DEFINE bad == {i \in DOMAIN atts : atts[i][1] \notin Known}
<1>1. Len(atts) \in Nat /\ DOMAIN atts = 1 .. Len(atts)
  BY LenProperties
<1>2. CASE bad = {}
  BY <1>1, <1>2 DEF UpTo
<1>3. CASE bad # {}
  <2>1. bad \subseteq Nat
    BY <1>1
  <2>2. \E i \in bad : \A j \in bad : i <= j
    <3> HIDE DEF bad
    <3> QED BY <1>3, <2>1, LeastNatural
  <2> DEFINE k == CHOOSE i \in bad : \A j \in bad : i <= j
  <2>3. k \in bad
    <3> HIDE DEF bad
    <3> QED BY <2>2
  <2>4. UpTo(atts) = SubSeq(atts, 1, k - 1)
    BY <1>3 DEF UpTo
  <2>5. k \in 1 .. Len(atts) /\ atts[k][1] \notin Known
    BY <1>1, <2>3
  <2> HIDE DEF k
  <2>6. Len(SubSeq(atts, 1, k - 1)) = k - 1
    <3>1. \A i \in 1 .. k - 1 : atts[i] \in Pairs(S)
      BY <1>1, <2>5, ElementOfSeq
    <3>2. k \in Int /\ k >= 1
      BY <2>5
    <3> QED BY <3>1, <3>2, SubSeqProperties
  <2>7. UpTo(atts) # atts
    BY <1>1, <2>4, <2>5, <2>6
  <2> QED BY <2>5, <2>7
<1> QED BY <1>2, <1>3

(* The same attributes, one for one. *)
LEMMA SameAtts ==
  ASSUME NEW S, NEW a \in Seq(Pairs(S)), NEW b \in Seq(Pairs(S)), Len(a) = Len(b),
         \A i \in 1 .. Len(a) : a[i][1] = b[i][1] /\ a[i][2] = b[i][2]
  PROVE  a = b
<1>1. \A i \in 1 .. Len(a) : a[i] \in Pairs(S) /\ b[i] \in Pairs(S)
  BY ElementOfSeq
<1>2. ASSUME NEW i \in 1 .. Len(a) PROVE a[i] = b[i]
  <2>1. a[i] = <<a[i][1], a[i][2]>> /\ b[i] = <<b[i][1], b[i][2]>>
    BY <1>1 DEF Pairs
  <2> QED BY <2>1
<1> QED BY <1>2, SeqEqual

(* A buffer is the beginning of the text. *)
LEMMA ChunkBegins ==
  ASSUME NEW S, NEW t \in Seq(S)
  PROVE  LET b == Chunk(t)
         IN /\ b \in Seq(S) /\ Len(b) = (IF Len(t) < ReadSize THEN Len(t) ELSE ReadSize) /\ Len(b) \in 0 .. Len(t)
            /\ \A i \in 1 .. Len(b) : b[i] = t[i]
            /\ b = SubSeq(t, 1, Len(b))
<1> DEFINE n == IF Len(t) < ReadSize THEN Len(t) ELSE ReadSize
           b == SubSeq(t, 1, n)
<1>1. Len(t) \in Nat /\ n \in 0 .. Len(t)
  BY LenProperties, EncAssumption
<1>2. Chunk(t) = b
  BY DEF Chunk
<1> HIDE DEF n
<1>3. b \in Seq(S) /\ Len(b) = n /\ \A i \in 1 .. n : b[i] = t[i]
  <2>1. \A i \in 1 .. n : t[i] \in S
    BY <1>1, ElementOfSeq
  <2> QED BY <1>1, <2>1, SubSeqProperties
<1> QED BY <1>1, <1>2, <1>3 DEF n

(* A file is made of its alphabet.                                         *)
LEMMA FileTyped ==
  ASSUME NEW file \in Files
  PROVE  file.text \in Seq(Alphabet(file)) /\ Blank \in Alphabet(file)
<1>1. file.text \in Seq(ToSet(file.text))
  BY EncFiles
<1>2. PICK t, C : t = file.text /\ C = ToSet(file.text)
  OBVIOUS
<1>3. PICK D : D = Alphabet(file)
  OBVIOUS
<1>4. C \subseteq D /\ Blank \in D /\ t \in Seq(C)
  BY <1>1, <1>2, <1>3 DEF Alphabet
<1>5. t \in Seq(D)
  BY <1>4
<1> QED BY <1>2, <1>3, <1>4, <1>5

(* The buffer that is read first, parsed from its start; *)
LEMMA FixerReads ==
  ASSUME NEW file \in Files, file.declared
  PROVE  LET p == AttsParse(Chunk(file.text))
             x == XmlRead(file.text)
         IN /\ ReadRight(p, x, 0, Len(Chunk(file.text)))
            /\ p.rc \in {0, 1} /\ p.atts \in Seq(Pairs(Alphabet(file)))
            /\ x.atts \in Seq(Pairs(Alphabet(file))) /\ x.read \in Nat /\ x.read < Len(file.text)
<1>1. PICK S : S = Alphabet(file)
  OBVIOUS
<1>2. PICK t \in Seq(S) : t = file.text
  BY <1>1, FileTyped
<1>3. PICK b : b = Chunk(t)
  OBVIOUS
<1>4. b \in Seq(S) /\ Len(b) \in 0 .. Len(t) /\ \A i \in 1 .. Len(b) : b[i] = t[i]
  BY <1>3, ChunkBegins
<1>5. PICK n \in 0 .. Len(t) : n = Len(b)
  BY <1>4
<1>6. n \in Nat /\ n + 0 = n /\ \A i \in 1 .. n : i + 0 = i
  BY <1>5, LenProperties
<1>7. Len(b) = n + 0 /\ \A i \in 1 .. n : b[i + 0] = t[i]
  BY <1>4, <1>5, <1>6
<1>8. XmlRead(t).state = "END"
  BY <1>2, EncDeclarations
<1>9. /\ ReadRight(AttsParse(b), XmlRead(t), 0, n)
      /\ AttsParse(b).rc \in {0, 1} /\ AttsParse(b).atts \in Seq(Pairs(S))
      /\ XmlRead(t).atts \in Seq(Pairs(S)) /\ XmlRead(t).read \in Nat /\ XmlRead(t).read < Len(t)
  BY <1>4, <1>7, <1>8, ReadRightly
<1> QED BY <1>1, <1>2, <1>3, <1>5, <1>9

(* and from the blank before it. *)
LEMMA ExtractorReads ==
  ASSUME NEW file \in Files, file.declared
  PROVE  LET p == AttsParse(<<Blank>> \o Chunk(file.text))
             x == XmlRead(file.text)
         IN /\ ReadRight(p, x, 1, Len(Chunk(file.text)))
            /\ p.rc \in {0, 1} /\ p.atts \in Seq(Pairs(Alphabet(file)))
            /\ x.atts \in Seq(Pairs(Alphabet(file))) /\ x.read \in Nat /\ x.read < Len(file.text)
<1>1. PICK S : S = Alphabet(file)
  OBVIOUS
<1>2. PICK t \in Seq(S) : t = file.text
  BY <1>1, FileTyped
<1>3. PICK b : b = Chunk(t)
  OBVIOUS
<1>4. b \in Seq(S) /\ Len(b) \in 0 .. Len(t) /\ \A i \in 1 .. Len(b) : b[i] = t[i]
  BY <1>3, ChunkBegins
<1>5. PICK n \in 0 .. Len(t) : n = Len(b)
  BY <1>4
<1>6. PICK in : in = <<Blank>> \o b
  OBVIOUS
<1>7. in \in Seq(S) /\ Len(in) = n + 1 /\ in[1] = Blank /\ \A i \in 1 .. n : in[i + 1] = t[i]
  <2>1. Blank \in S /\ <<Blank>> \in Seq(S) /\ Len(<<Blank>>) = 1 /\ <<Blank>>[1] = Blank
    BY <1>1, FileTyped
  <2>2. /\ in \in Seq(S) /\ Len(in) = Len(<<Blank>>) + Len(b)
        /\ \A i \in 1 .. Len(<<Blank>>) + Len(b) :
             in[i] = IF i <= Len(<<Blank>>) THEN <<Blank>>[i] ELSE b[i - Len(<<Blank>>)]
    BY <1>4, <1>6, <2>1, ConcatProperties
  <2>3. Len(in) = 1 + n /\ \A i \in 1 .. 1 + n : in[i] = IF i <= 1 THEN <<Blank>>[i] ELSE b[i - 1]
    BY <1>5, <2>1, <2>2
  <2>4. n \in Nat
    BY <1>5, LenProperties
  <2>5. Len(in) = n + 1 /\ in[1] = Blank
    BY <2>1, <2>3, <2>4
  <2>6. ASSUME NEW i \in 1 .. n PROVE in[i + 1] = t[i]
    <3>1. i + 1 \in 1 .. 1 + n /\ ~(i + 1 <= 1) /\ (i + 1) - 1 = i
      BY <2>4
    <3>2. in[i + 1] = b[(i + 1) - 1]
      BY <2>3, <3>1
    <3> QED BY <1>4, <1>5, <3>1, <3>2
  <2> QED BY <2>2, <2>5, <2>6
<1>8. XmlRead(t).state = "END"
  BY <1>2, EncDeclarations
<1>9. /\ ReadRight(AttsParse(in), XmlRead(t), 1, n)
      /\ AttsParse(in).rc \in {0, 1} /\ AttsParse(in).atts \in Seq(Pairs(S))
      /\ XmlRead(t).atts \in Seq(Pairs(S)) /\ XmlRead(t).read \in Nat /\ XmlRead(t).read < Len(t)
  BY <1>7, <1>8, ReadRightly
<1> QED BY <1>1, <1>2, <1>3, <1>5, <1>6, <1>9

-----------------------------------------------------------------------------

(* If a holds the first attributes of b, misread names apart, it has the   *)
(* value that b has for a known name or none: the misread ones are not     *)
(* known.                                                                  *)
LEMMA ValueTrue ==
  ASSUME NEW S, NEW a \in Seq(Pairs(S)), NEW b \in Seq(Pairs(S)), NEW name, <<name>> \in Known, NEW plain,
         Len(a) <= Len(b),
         \A i \in 1 .. Len(a) : a[i][2] = b[i][2] /\ (a[i][1] = b[i][1] \/ (~plain /\ Odd(a[i][1]))),
         \A i, j \in DOMAIN b : b[i][1] = b[j][1] => i = j
  PROVE  ValueOf(a, name) \in {ValueOf(b, name), <<"NULL">>}
<1> DEFINE A == {i \in DOMAIN a : a[i][1] = <<name>>}
           B == {i \in DOMAIN b : b[i][1] = <<name>>}
           least(s) == CHOOSE i \in s : \A j \in s : i <= j
<1>1. Len(a) \in Nat /\ DOMAIN a = 1 .. Len(a) /\ Len(b) \in Nat /\ DOMAIN b = 1 .. Len(b)
  BY LenProperties
<1>2. CASE A = {}
  BY <1>2 DEF ValueOf
<1>3. CASE A # {}
  <2>1. A \subseteq Nat
    BY <1>1
  <2>2. \E i \in A : \A j \in A : i <= j
    <3> HIDE DEF A
    <3> QED BY <1>3, <2>1, LeastNatural
  <2>3. PICK k : k = least(A)
    OBVIOUS
  <2>4. k \in A
    <3> HIDE DEF A
    <3> QED BY <2>2, <2>3
  <2>5. ValueOf(a, name) = a[k][2]
    BY <1>3, <2>3 DEF ValueOf
  <2>6. k \in 1 .. Len(a) /\ a[k][1] = <<name>>
    BY <1>1, <2>4
  <2>7. b[k][1] = <<name>> /\ a[k][2] = b[k][2]
    <3>1. ~Odd(a[k][1])
      BY <2>6, KnownNotOdd
    <3>2. a[k][2] = b[k][2] /\ (a[k][1] = b[k][1] \/ (~plain /\ Odd(a[k][1])))
      BY <2>6
    <3> QED BY <2>6, <3>1, <3>2
  <2>8. k \in DOMAIN b /\ k \in Nat
    BY <1>1, <2>6
  <2>9. B = {k}
    BY <2>7, <2>8
  <2>10. least(B) = k
    <3> HIDE DEF B
    <3>1. \A i : (i \in B /\ \A j \in B : i <= j) <=> i = k
      BY <2>8, <2>9
    <3> QED BY <3>1, Zenon
  <2>11. ValueOf(b, name) = b[k][2]
    <3>1. B # {}
      BY <2>9
    <3> QED BY <2>10, <3>1, Zenon DEF ValueOf
  <2> QED BY <2>5, <2>7, <2>11
<1> QED BY <1>2, <1>3

(* encextractor's answer for a file.                                       *)
LEMMA ExtractedTrue ==
  ASSUME NEW file \in Files
  PROVE  /\ Extracted(file) \in {Declares(file), <<"NULL">>}
         /\ XmlRead(file.text).plain /\ Fits(file) => Extracted(file) = Declares(file)
<1>1. CASE ~file.declared
  BY <1>1 DEF Extracted, RawEncoding, Declares
<1>2. CASE file.declared
  <2>1. PICK S, x, n : S = Alphabet(file) /\ x = XmlRead(file.text) /\ n = Len(Chunk(file.text))
    OBVIOUS
  <2>2. PICK p : p = AttsParse(<<Blank>> \o Chunk(file.text))
    OBVIOUS
  <2>3. /\ ReadRight(p, x, 1, n) /\ p.rc \in {0, 1} /\ p.atts \in Seq(Pairs(S)) /\ x.atts \in Seq(Pairs(S))
        /\ x.read \in Nat /\ x.read < Len(file.text)
    BY <1>2, <2>1, <2>2, ExtractorReads
  <2>4. PICK name : name = "encoding"
    OBVIOUS
  <2>5. Extracted(file) = IF p.rc = 0 THEN ValueOf(p.atts, name) ELSE <<"NULL">>
    BY <1>2, <2>2, <2>4 DEF Extracted, RawEncoding
  <2>6. Declares(file) = ValueOf(x.atts, name)
    BY <1>2, <2>1, <2>4 DEF Declares
  <2>7. <<name>> \in Known
    BY <2>4 DEF Known
  <2>8. \A i, j \in DOMAIN x.atts : x.atts[i][1] = x.atts[j][1] => i = j
    BY <1>2, <2>1, EncDeclarations
  <2>9. p.rc = 0 => ValueOf(p.atts, name) \in {ValueOf(x.atts, name), <<"NULL">>}
    <3> SUFFICES ASSUME p.rc = 0 PROVE ValueOf(p.atts, name) \in {ValueOf(x.atts, name), <<"NULL">>}
      OBVIOUS
    <3>1. /\ Len(p.atts) <= Len(x.atts)
          /\ \A i \in 1 .. Len(p.atts) :
               p.atts[i][2] = x.atts[i][2] /\ (p.atts[i][1] = x.atts[i][1] \/ (~x.plain /\ Odd(p.atts[i][1])))
      BY <2>3, Zenon DEF ReadRight
    <3> QED BY <2>3, <2>7, <2>8, <3>1, ValueTrue
  <2>10. ASSUME x.plain, Fits(file) PROVE Extracted(file) = Declares(file)
    <3>1. x.read < n
      <4>1. PICK t \in Seq(S) : t = file.text
        BY <2>1, FileTyped
      <4>2. n = (IF Len(t) < ReadSize THEN Len(t) ELSE ReadSize)
        BY <2>1, <4>1, ChunkBegins
      <4>3. x.read < ReadSize /\ x.read < Len(t)
        BY <2>1, <2>3, <2>10, <4>1 DEF Fits
      <4> QED BY <4>2, <4>3
    <3>2. p.rc = 0 /\ Len(p.atts) = Len(x.atts)
      BY <2>3, <2>10, <3>1 DEF ReadRight
    <3>3. \A i \in 1 .. Len(p.atts) : p.atts[i][1] = x.atts[i][1] /\ p.atts[i][2] = x.atts[i][2]
      BY <2>3, <2>10, <3>2, Zenon DEF ReadRight
    <3>4. p.atts = x.atts
      BY <2>3, <3>2, <3>3, SameAtts
    <3> QED BY <2>5, <2>6, <3>2, <3>4
  <2>11. Extracted(file) \in {Declares(file), <<"NULL">>}
    BY <2>5, <2>6, <2>9
  <2> QED BY <2>1, <2>10, <2>11
<1> QED BY <1>1, <1>2

-----------------------------------------------------------------------------
(* encfixer's declaration. *)

(* An attribute is printed as characters,                                  *)
LEMMA PrintedTyped ==
  ASSUME NEW f, NEW W, {Blank, "=", "dq"} \subseteq W, f.forced \in Seq(W), NEW a \in Pairs(W)
  PROVE  Printed(f, a) \in Seq(W)
<1>1. PICK sp, eq, dq : sp = Blank /\ eq = "=" /\ dq = "dq"
  OBVIOUS
<1>2. <<sp>> \in Seq(W) /\ <<eq, dq>> \in Seq(W) /\ <<dq>> \in Seq(W) /\ <<>> \in Seq(W)
  BY <1>1
<1>3. a[1] \in Seq(W) /\ a[2] \in Seq(W)
  BY DEF Pairs
<1>4. ASSUME NEW v \in Seq(W) PROVE <<sp>> \o a[1] \o <<eq, dq>> \o v \o <<dq>> \in Seq(W)
  <2>1. <<sp>> \o a[1] \in Seq(W)
    BY <1>2, <1>3, ConcatProperties
  <2>2. <<sp>> \o a[1] \o <<eq, dq>> \in Seq(W)
    BY <1>2, <2>1, ConcatProperties
  <2>3. <<sp>> \o a[1] \o <<eq, dq>> \o v \in Seq(W)
    BY <2>2, ConcatProperties
  <2> QED BY <1>2, <2>3, ConcatProperties
<1>5. Printed(f, a) = <<>> \/ \E v \in Seq(W) : Printed(f, a) = <<sp>> \o a[1] \o <<eq, dq>> \o v \o <<dq>>
  <2>1. PICK encoding : encoding = (a[1] = <<"encoding">>)
    OBVIOUS
  <2> DEFINE v == IF encoding /\ f.forced # <<>> THEN f.forced ELSE a[2]
  <2>2. v \in Seq(W)
    BY <1>3
  <2>3. Printed(f, a) = <<>> \/ Printed(f, a) = <<sp>> \o a[1] \o <<eq, dq>> \o v \o <<dq>>
    BY <1>1, <2>1, Zenon DEF Printed
  <2> HIDE DEF v
  <2> QED BY <2>2, <2>3, Zenon
<1> QED BY <1>2, <1>4, <1>5

(* and so are all of them,                                                 *)
LEMMA PrintedAllTyped ==
  ASSUME NEW f, NEW W, {Blank, "=", "dq"} \subseteq W, f.forced \in Seq(W), NEW atts \in Seq(Pairs(W))
  PROVE  PrintedAll(f, atts) \in Seq(W)
<1> DEFINE bs == [i \in DOMAIN atts |-> Printed(f, atts[i])]
<1>1. Len(atts) \in Nat /\ DOMAIN atts = 1 .. Len(atts) /\ \A i \in 1 .. Len(atts) : atts[i] \in Pairs(W)
  BY LenProperties, ElementOfSeq
<1>2. PICK n \in Nat : n = Len(atts)
  BY <1>1
<1>3. bs \in [1 .. n -> Seq(W)]
  BY <1>1, <1>2, PrintedTyped
<1> HIDE DEF bs
<1>4. bs \in Seq(Seq(W)) /\ Len(bs) = n
  BY <1>3
<1>5. CASE bs = <<>>
  <2>1. FlattenSeq(bs) = <<>>
    BY <1>5 DEF FlattenSeq
  <2> QED BY <2>1 DEF PrintedAll, bs
<1>6. CASE bs # <<>>
  <2>1. PICK g \in [1 .. Len(bs) -> Seq(W)] : FlattenSeq(bs) = g[Len(bs)]
    BY <1>4, <1>6, FlattenSteps
  <2>2. Len(bs) \in 1 .. Len(bs)
    BY <1>4, <1>6, EmptySeq
  <2>3. FlattenSeq(bs) \in Seq(W)
    BY <2>1, <2>2
  <2> QED BY <2>3 DEF PrintedAll, bs
<1> QED BY <1>5, <1>6

(* in a way that depends on the options only.                              *)
LEMMA PrintedBySame ==
  ASSUME NEW f, NEW g, f.forced = g.forced, f.delete = g.delete, NEW atts
  PROVE  PrintedAll(f, atts) = PrintedAll(g, atts)
<1>1. \A a : Printed(f, a) = Printed(g, a)
  BY Zenon DEF Printed
<1>2. [i \in DOMAIN atts |-> Printed(f, atts[i])] = [i \in DOMAIN atts |-> Printed(g, atts[i])]
  BY <1>1, Zenon
<1> QED BY <1>2, Zenon DEF PrintedAll

(* What is to come out, *)
Result(f) ==
  IF f.file.declared THEN PrintedAll(f, XmlRead(f.file.text).atts) \o Rest(f.file) ELSE f.file.text

(* unless the declaration does not fit in a buffer. *)
Clear(f) == ~f.file.declared \/ Fits(f.file)

(* What encfixer has written and what it has still to read make that up.   *)
EInv(f) ==
  /\ FixerFields(f)
  /\ f.exit \in FixerExits /\ f.eof \in BOOLEAN /\ (f.eof => f.left = <<>>)
  /\ f.exit # "idle" => f.file \in Files /\ f.forced \in {<<>>, <<"utf">>}
  /\ f.exit = "first" => f.left = f.file.text
  /\ f.exit = "running" => f.left \in Seq(Alphabet(f.file))
  /\ f.exit = "running" /\ Clear(f) => f.out \in Seq(Alphabet(f.file)) /\ f.out \o f.left = Result(f)
  /\ f.exit = "ok" /\ Clear(f) => f.out = Result(f)
  /\ f.exit = "failed" => f.file.declared /\ (Fits(f.file) => ~XmlRead(f.file.text).plain)

(* b is the first buffer of a file with a declaration, *)
Ready(f, t, b) ==
  /\ FixerFields(f) /\ f.file \in Files /\ f.file.declared /\ f.forced \in {<<>>, <<"utf">>} /\ f.exit = "running"
  /\ t \in Seq(Alphabet(f.file)) /\ t = f.file.text /\ b = Chunk(t) /\ f.left = SubSeq(t, Len(b) + 1, Len(t))

(* and g what encfixer has made of it.                                     *)
Fixed(f, t, g) ==
  /\ FixerFields(g) /\ g.file = f.file /\ g.forced = f.forced /\ g.left = f.left /\ g.eof = f.eof
  /\ g.exit \in {"running", "failed"}
  /\ Fits(f.file) /\ g.exit = "running" => g.out \in Seq(Alphabet(f.file)) /\ g.out \o g.left = Result(g)
  /\ Fits(f.file) /\ g.exit = "failed" => ~XmlRead(t).plain

(* What is written of the first buffer, with what is left of the file:     *)
(* what is to come out. If encfixer fails at a declaration that fits, its  *)
(* layout is not the plain one.                                            *)
LEMMA DeclarationFixed ==
  ASSUME NEW f, NEW t, NEW b, Ready(f, t, b)
  PROVE  Fixed(f, t, FixDeclaration(f, b))
<1> SUFFICES ASSUME FixerFields(f), f.file \in Files, f.file.declared, f.forced \in {<<>>, <<"utf">>},
                    f.exit = "running", NEW S, S = Alphabet(f.file), t \in Seq(S), t = f.file.text,
                    b = Chunk(t), f.left = SubSeq(t, Len(b) + 1, Len(t))
             PROVE  Fixed(f, t, FixDeclaration(f, b))
  BY DEF Ready
<1>1. PICK g, p, x : g = FixDeclaration(f, b) /\ p = AttsParse(b) /\ x = XmlRead(t)
  OBVIOUS
<1>2. PICK n : n = Len(b)
  OBVIOUS
<1>3. /\ ReadRight(p, x, 0, n) /\ p.rc \in {0, 1} /\ p.atts \in Seq(Pairs(S)) /\ x.atts \in Seq(Pairs(S))
      /\ x.read \in Nat /\ x.read < Len(t)
  BY <1>1, <1>2, FixerReads
<1>4. PICK printed, tail : printed = PrintedAll(f, UpTo(p.atts)) /\ tail = SubSeq(b, p.read + 1, Len(b))
  OBVIOUS
<1>5. g = IF p.rc # 0 THEN [f EXCEPT !.exit = "failed"]
          ELSE IF UpTo(p.atts) # p.atts THEN [f EXCEPT !.out = printed, !.exit = "failed"]
          ELSE [f EXCEPT !.out = printed \o tail]
  BY <1>1, <1>4, Zenon DEF FixDeclaration
<1>6. /\ FixerFields(g) /\ g.file = f.file /\ g.forced = f.forced /\ g.delete = f.delete /\ g.left = f.left
      /\ g.eof = f.eof /\ g.exit \in {"running", "failed"}
      /\ g.exit = "running" => p.rc = 0 /\ UpTo(p.atts) = p.atts /\ g.out = printed \o tail
      /\ g.exit = "failed" => p.rc # 0 \/ UpTo(p.atts) # p.atts
  <2>1. f = [name \in FixerNames |-> f[name]]
    BY DEF FixerFields
  <2>2. CASE p.rc # 0
    BY <1>5, <2>1, <2>2 DEF FixerFields, FixerNames
  <2>3. CASE p.rc = 0 /\ UpTo(p.atts) # p.atts
    BY <1>5, <2>1, <2>3 DEF FixerFields, FixerNames
  <2>4. CASE p.rc = 0 /\ UpTo(p.atts) = p.atts
    BY <1>5, <2>1, <2>4 DEF FixerFields, FixerNames
  <2> QED BY <2>2, <2>3, <2>4
<1>7. Len(t) \in Nat /\ n \in 0 .. Len(t)
      /\ n = (IF Len(t) < ReadSize THEN Len(t) ELSE ReadSize) /\ b = SubSeq(t, 1, n)
  BY <1>2, LenProperties, ChunkBegins
<1>8. Fits(f.file) => x.read < n
  BY <1>1, <1>3, <1>7 DEF Fits
<1>9. ASSUME p.rc = 0, Len(p.atts) = Len(x.atts), \A i \in 1 .. Len(p.atts) : ~Odd(p.atts[i][1]) \/ x.plain
      PROVE  p.atts = x.atts
  <2>1. \A i \in 1 .. Len(p.atts) : p.atts[i][1] = x.atts[i][1] /\ p.atts[i][2] = x.atts[i][2]
    BY <1>3, <1>9, Zenon DEF ReadRight
  <2> QED BY <1>3, <1>9, <2>1, SameAtts
<1>10. \A i \in 1 .. Len(x.atts) : x.atts[i][1] \in Known
  <2>1. \A i \in DOMAIN x.atts : x.atts[i][1] \in Known
    BY <1>1, EncDeclarations
  <2>2. DOMAIN x.atts = 1 .. Len(x.atts)
    BY <1>3, LenProperties
  <2> QED BY <2>1, <2>2
<1>11. ASSUME Fits(f.file), g.exit = "failed" PROVE ~x.plain
  <2>1. SUFFICES ASSUME x.plain PROVE FALSE
    OBVIOUS
  <2>2. p.rc = 0 /\ Len(p.atts) = Len(x.atts)
    BY <1>3, <1>8, <1>11, <2>1 DEF ReadRight
  <2>3. p.atts = x.atts
    BY <1>9, <2>1, <2>2
  <2>4. UpTo(p.atts) = p.atts
    BY <1>3, <1>10, <2>3, UpToAll
  <2> QED BY <1>6, <1>11, <2>2, <2>4
<1>12. ASSUME Fits(f.file), g.exit = "running" PROVE g.out \in Seq(S) /\ g.out \o g.left = Result(g)
  <2>1. p.rc = 0 /\ UpTo(p.atts) = p.atts /\ g.out = printed \o tail
    BY <1>6, <1>12
  <2>2. Len(p.atts) = Len(x.atts) /\ p.read = x.read + 0
    BY <1>3, <1>8, <1>12, <2>1 DEF ReadRight
  <2>3. p.atts = x.atts
    <3>1. \A i \in 1 .. Len(p.atts) : p.atts[i][1] \in Known
      BY <1>3, <2>1, UpToAll
    <3>2. \A i \in 1 .. Len(p.atts) : ~Odd(p.atts[i][1]) \/ x.plain
      BY <3>1, KnownNotOdd
    <3> QED BY <1>9, <2>1, <2>2, <3>2
  <2>4. printed = PrintedAll(f, x.atts)
    BY <1>4, <2>1, <2>3
  <2>5. PrintedAll(g, x.atts) = PrintedAll(f, x.atts)
    BY <1>6, PrintedBySame
  <2>6. printed \in Seq(S)
    <3>1. {Blank, "=", "dq"} \subseteq S /\ f.forced \in Seq(S)
      <4>1. PICK utf : utf = "utf"
        OBVIOUS
      <4>2. {Blank, "=", "dq"} \subseteq S /\ utf \in S
        BY <4>1, Zenon DEF Alphabet
      <4>3. <<>> \in Seq(S) /\ <<utf>> \in Seq(S)
        BY <4>2
      <4>4. f.forced \in {<<>>, <<utf>>}
        BY <4>1
      <4> QED BY <4>2, <4>3, <4>4
    <3> QED BY <1>3, <2>4, <3>1, PrintedAllTyped
  <2>7. PICK r \in Nat : r = x.read
    BY <1>3
  <2>8. r < n /\ r < Len(t) /\ p.read = r
    BY <1>3, <1>8, <1>12, <2>2, <2>7
  <2>9. b \in Seq(S)
    BY ChunkBegins
  <2>10. /\ tail \in Seq(S) /\ tail = SubSeq(t, r + 1, n)
    <3>1. n \in Nat /\ \A i \in 1 .. n : b[i] = t[i] /\ t[i] \in S
      BY <1>2, <1>7, ChunkBegins, ElementOfSeq
    <3>2. tail = SubSeq(b, r + 1, n)
      BY <1>2, <1>4, <2>8
    <3>3. \A i \in r + 1 .. n : b[i] \in S /\ t[i] \in S /\ b[i] = t[i]
      BY <2>8, <3>1
    <3>4. /\ tail \in Seq(S) /\ Len(tail) = n - r
          /\ \A i \in 1 .. n - (r + 1) + 1 : tail[i] = b[(r + 1) + i - 1]
      BY <2>8, <3>1, <3>2, <3>3, SubSeqProperties
    <3>5. PICK u : u = SubSeq(t, r + 1, n)
      OBVIOUS
    <3>6. /\ u \in Seq(S) /\ Len(u) = n - r
          /\ \A i \in 1 .. n - (r + 1) + 1 : u[i] = t[(r + 1) + i - 1]
      BY <2>8, <3>1, <3>3, <3>5, SubSeqProperties
    <3>7. \A i \in 1 .. Len(tail) : tail[i] = u[i]
      <4> SUFFICES ASSUME NEW i \in 1 .. n - r PROVE tail[i] = u[i]
        BY <3>4
      <4>1. i \in 1 .. n - (r + 1) + 1 /\ (r + 1) + i - 1 \in r + 1 .. n
        BY <2>8, <3>1
      <4> QED BY <3>3, <3>4, <3>6, <4>1
    <3> QED BY <3>4, <3>5, <3>6, <3>7, SeqEqual
  <2>11. tail \o f.left = SubSeq(t, r + 1, Len(t))
    <3>1. r + 1 \in 1 .. Len(t) + 1 /\ n \in (r + 1) - 1 .. Len(t) /\ Len(t) \in n .. Len(t)
      BY <1>7, <2>8
    <3>2. SubSeq(t, r + 1, n) \o SubSeq(t, n + 1, Len(t)) = SubSeq(t, r + 1, Len(t))
      BY <3>1, ConcatAdjacentSubSeq
    <3> QED BY <1>2, <2>10, <3>2
  <2>12. f.left \in Seq(S)
    BY ChunkFacts
  <2>13. PICK l \in Seq(S) : l = f.left
    BY <2>12
  <2>14. (printed \o tail) \o l = printed \o (tail \o l)
    <3>1. ASSUME NEW u \in Seq(S), NEW v \in Seq(S) PROVE (u \o v) \o l = u \o (v \o l)
      BY ConcatAssociative
    <3> QED BY <2>6, <2>10, <3>1
  <2>15. Rest(f.file) = SubSeq(t, r + 1, Len(t))
    BY <1>1, <2>7 DEF Rest
  <2>16. Result(g) = PrintedAll(g, x.atts) \o Rest(f.file)
    BY <1>1, <1>6 DEF Result
  <2>17. g.out \in Seq(S)
    BY <2>1, <2>6, <2>10, ConcatProperties
  <2>18. g.out \o g.left = printed \o (tail \o f.left)
    BY <1>6, <2>1, <2>13, <2>14, Zenon
  <2> QED BY <2>4, <2>5, <2>11, <2>15, <2>16, <2>17, <2>18, Zenon
<1>13. Fixed(f, t, g)
  BY <1>1, <1>6, <1>11, <1>12 DEF Fixed
<1> QED BY <1>1, <1>13

(* The first buffer keeps it, *)
LEMMA FirstBufferKeeps == ASSUME EInv(fx), FirstBuffer PROVE EInv(fx')
<1> DEFINE S == Alphabet(fx.file)
           t == fx.left
           b == Chunk(t)
           u == SubSeq(t, Len(b) + 1, Len(t))
           f == [HaveRead(fx, b) EXCEPT !.exit = "running"]
<1>1. /\ fx.exit = "first" /\ FixerFields(fx) /\ t = fx.file.text
      /\ fx.file \in Files /\ fx.forced \in {<<>>, <<"utf">>}
      /\ fx' = IF fx.file.declared THEN FixDeclaration(f, b) ELSE [f EXCEPT !.out = b]
  BY DEF EInv, FirstBuffer
<1>2. t \in Seq(S)
  BY <1>1, FileTyped
<1>3. /\ b \in Seq(S) /\ u \in Seq(S) /\ b \o u = t
      /\ Len(b) < ReadSize => u = <<>>
  BY <1>2, ChunkFacts
<1>4. /\ FixerFields(f) /\ f.file = fx.file /\ f.forced = fx.forced /\ f.left = u /\ f.eof = (Len(b) < ReadSize)
      /\ f.exit = "running"
  <2> HIDE DEF b
  <2>1. FixerFields(f)
    BY <1>1 DEF FixerFields, FixerNames, HaveRead
  <2>2. f.file = fx.file /\ f.forced = fx.forced
    BY <1>1 DEF FixerFields, FixerNames, HaveRead
  <2>3. f.left = u
    BY <1>1 DEF FixerFields, FixerNames, HaveRead
  <2>4. f.eof = (Len(b) < ReadSize)
    BY <1>1 DEF FixerFields, FixerNames, HaveRead
  <2>5. f.exit = "running"
    BY <1>1 DEF FixerFields, FixerNames, HaveRead
  <2> QED BY <2>1, <2>2, <2>3, <2>4, <2>5
<1>5. f.eof \in BOOLEAN /\ (f.eof => u = <<>>)
  <2>1. (Len(b) < ReadSize) \in BOOLEAN
    OBVIOUS
  <2> QED BY <1>3, <1>4, <2>1, Zenon
<1> HIDE DEF f, b, u, t, S
<1>6. CASE fx.file.declared
  <2>1. PICK g : g = FixDeclaration(f, b)
    OBVIOUS
  <2>2. /\ FixerFields(g) /\ g.file = f.file /\ g.forced = f.forced /\ g.left = f.left /\ g.eof = f.eof
        /\ g.exit \in {"running", "failed"}
        /\ Fits(f.file) /\ g.exit = "running" => g.out \in Seq(S) /\ g.out \o g.left = Result(g)
        /\ Fits(f.file) /\ g.exit = "failed" => ~XmlRead(t).plain
    <3>1. FixerFields(f) /\ f.file \in Files /\ f.file.declared /\ f.forced \in {<<>>, <<"utf">>}
          /\ f.exit = "running"
      BY <1>1, <1>4, <1>6
    <3>2. S = Alphabet(f.file) /\ t \in Seq(S) /\ t = f.file.text
      BY <1>1, <1>2, <1>4 DEF S
    <3>3. b = Chunk(t) /\ f.left = SubSeq(t, Len(b) + 1, Len(t))
      BY <1>4 DEF b, u
    <3>4. Ready(f, t, b)
      BY <3>1, <3>2, <3>3 DEF Ready
    <3>5. Fixed(f, t, FixDeclaration(f, b))
      BY <3>4, DeclarationFixed
    <3>6. Fixed(f, t, g)
      BY <2>1, <3>5
    <3> QED BY <3>2, <3>6 DEF Fixed
  <2>3. fx' = g
    BY <1>1, <1>6, <2>1
  <2>4. Clear(g) => Fits(f.file)
    BY <1>4, <1>6, <2>2 DEF Clear
  <2>5. /\ g.file = fx.file /\ g.file.declared /\ Alphabet(g.file) = S /\ g.left \in Seq(S) /\ g.file.text = t
        /\ g.exit \in FixerExits /\ g.exit # "first" /\ g.exit # "ok" /\ (g.exit = "running" \/ g.exit = "failed")
        /\ g.file \in Files /\ g.forced \in {<<>>, <<"utf">>}
    BY <1>1, <1>3, <1>4, <1>6, <2>2 DEF S, FixerExits
  <2>6. g.eof \in BOOLEAN /\ (g.eof => g.left = <<>>)
    BY <1>4, <1>5, <2>2
  <2>7. EInv(g)
    BY <2>2, <2>4, <2>5, <2>6 DEF EInv
  <2> QED BY <2>3, <2>7
<1>7. CASE ~fx.file.declared
  <2>1. PICK g : g = [f EXCEPT !.out = b]
    OBVIOUS
  <2>2. FixerFields(g) /\ g.file = f.file /\ g.forced = f.forced /\ g.left = f.left /\ g.eof = f.eof /\ g.out = b
        /\ g.exit = "running"
    BY <1>4, <2>1 DEF FixerFields, FixerNames
  <2>3. fx' = g
    BY <1>1, <1>7, <2>1
  <2>4. Result(g) = t
    BY <1>1, <1>4, <1>7, <2>2 DEF Result
  <2>5. /\ g.out \in Seq(S) /\ g.left \in Seq(S) /\ g.out \o g.left = Result(g) /\ Alphabet(g.file) = S
        /\ g.exit \in FixerExits /\ g.file \in Files /\ g.forced \in {<<>>, <<"utf">>}
    BY <1>1, <1>3, <1>4, <2>2, <2>4 DEF S, FixerExits
  <2>6. g.eof \in BOOLEAN /\ (g.eof => g.left = <<>>)
    BY <1>4, <1>5, <2>2
  <2>7. EInv(g)
    BY <2>2, <2>5, <2>6 DEF EInv
  <2> QED BY <2>3, <2>7
<1> QED BY <1>6, <1>7

(* and so do the others.                                                   *)
LEMMA NextBufferKeeps == ASSUME EInv(fx), NextBuffer PROVE EInv(fx')
<1> DEFINE S == Alphabet(fx.file)
           t == fx.left
           b == Chunk(t)
           u == SubSeq(t, Len(b) + 1, Len(t))
<1>1. /\ fx.exit = "running" /\ FixerFields(fx) /\ t \in Seq(S)
      /\ fx.file \in Files /\ fx.forced \in {<<>>, <<"utf">>}
      /\ Clear(fx) => fx.out \in Seq(S) /\ fx.out \o t = Result(fx)
      /\ fx' = [HaveRead(fx, b) EXCEPT !.out = @ \o b]
  BY DEF EInv, NextBuffer
<1>2. /\ b \in Seq(S) /\ u \in Seq(S) /\ b \o u = t
      /\ Len(b) < ReadSize => u = <<>>
  BY <1>1, ChunkFacts
<1>3. /\ FixerFields(fx') /\ fx'.file = fx.file /\ fx'.left = u /\ fx'.eof = (Len(b) < ReadSize)
      /\ fx'.exit = "running" /\ fx'.out = fx.out \o b /\ fx'.forced = fx.forced /\ fx'.delete = fx.delete
  <2> HIDE DEF b
  <2> QED BY <1>1 DEF FixerFields, FixerNames, HaveRead
<1>4. PICK g : g = fx'
  OBVIOUS
<1>5. (Clear(g) <=> Clear(fx)) /\ Result(g) = Result(fx) /\ Alphabet(g.file) = S
  <2>1. g.file = fx.file /\ g.forced = fx.forced /\ g.delete = fx.delete
    BY <1>3, <1>4
  <2>2. PrintedAll(g, XmlRead(fx.file.text).atts) = PrintedAll(fx, XmlRead(fx.file.text).atts)
    BY <2>1, PrintedBySame
  <2> QED BY <2>1, <2>2, Zenon DEF Clear, Result
<1> HIDE DEF b, u, S
<1>6. Clear(fx) => g.out \in Seq(S) /\ g.out \o g.left = Result(g)
  <2> SUFFICES ASSUME Clear(fx) PROVE g.out \in Seq(S) /\ g.out \o g.left = Result(g)
    OBVIOUS
  <2>1. PICK o \in Seq(S) : o = fx.out
    BY <1>1
  <2>2. o \o (b \o u) = Result(fx)
    BY <1>1, <1>2, <2>1, Zenon
  <2>3. o \o b \in Seq(S)
    BY <1>2, ConcatProperties
  <2>4. (o \o b) \o u = o \o (b \o u)
    <3>1. b \in Seq(S) /\ u \in Seq(S)
      BY <1>2
    <3> QED BY <3>1, ConcatAssociative
  <2> QED BY <1>3, <1>4, <1>5, <2>1, <2>2, <2>3, <2>4, Zenon
<1>7. g.eof \in BOOLEAN /\ (g.eof => g.left = <<>>)
  <2>1. (Len(b) < ReadSize) \in BOOLEAN
    OBVIOUS
  <2> QED BY <1>2, <1>3, <1>4, <2>1, Zenon
<1>8. /\ FixerFields(g) /\ g.exit = "running" /\ g.exit \in FixerExits /\ g.left \in Seq(S)
      /\ g.file \in Files /\ g.forced \in {<<>>, <<"utf">>}
  BY <1>1, <1>2, <1>3, <1>4 DEF FixerExits
<1>9. EInv(g)
  BY <1>5, <1>6, <1>7, <1>8 DEF EInv
<1> QED BY <1>4, <1>9

(* It holds initially and is kept by every step.                           *)
LEMMA EInvInductive ==
  /\ fx = FixerIdle => EInv(fx)
  /\ EInv(fx) /\ [EncNext]_fx => EInv(fx')
<1>1. fx = FixerIdle => EInv(fx)
  BY DEF FixerIdle, EInv, FixerFields, FixerNames, FixerExits
<1>2. ASSUME EInv(fx), StartFixer PROVE EInv(fx')
  <2>1. PICK file \in Files, forced \in {<<>>, <<"utf">>}, delete \in BOOLEAN :
          fx' = [FixerIdle EXCEPT !.file = file, !.forced = forced, !.delete = delete,
                                  !.left = file.text, !.exit = "first"]
    BY <1>2 DEF StartFixer
  <2>2. /\ fx'.file = file /\ fx'.left = file.text /\ fx'.eof = FALSE /\ fx'.exit = "first"
        /\ fx'.forced = forced /\ FixerFields(fx')
    BY <2>1 DEF FixerIdle, FixerFields, FixerNames
  <2> QED BY <2>2 DEF EInv, FixerExits
<1>3. ASSUME EInv(fx), EndOfInput PROVE EInv(fx')
  <2>1. /\ fx.exit = "running" /\ fx.eof /\ fx.left = <<>> /\ FixerFields(fx) /\ fx' = [fx EXCEPT !.exit = "ok"]
        /\ fx.file \in Files /\ fx.forced \in {<<>>, <<"utf">>}
        /\ Clear(fx) => fx.out \in Seq(Alphabet(fx.file)) /\ fx.out \o fx.left = Result(fx)
    BY <1>3 DEF EInv, EndOfInput
  <2>2. PICK g : g = fx'
    OBVIOUS
  <2>3. /\ g.file = fx.file /\ g.left = fx.left /\ g.eof = fx.eof /\ g.out = fx.out /\ g.forced = fx.forced
        /\ g.delete = fx.delete /\ g.exit = "ok" /\ FixerFields(g)
    BY <2>1, <2>2 DEF FixerFields, FixerNames
  <2>4. (Clear(g) <=> Clear(fx)) /\ Result(g) = Result(fx)
    <3>1. PrintedAll(g, XmlRead(fx.file.text).atts) = PrintedAll(fx, XmlRead(fx.file.text).atts)
      BY <2>3, PrintedBySame
    <3> QED BY <2>3, <3>1, Zenon DEF Clear, Result
  <2>5. Clear(g) => g.out = Result(g)
    BY <2>1, <2>3, <2>4, ConcatEmptySeq
  <2>6. g.eof \in BOOLEAN
    BY <2>3, <1>3 DEF EInv
  <2>7. EInv(g)
    BY <2>1, <2>3, <2>5, <2>6 DEF EInv, FixerExits
  <2> QED BY <2>2, <2>7
<1>4. ASSUME EInv(fx), UNCHANGED fx PROVE EInv(fx')
  BY <1>4
<1> QED
  BY <1>1, <1>2, <1>3, <1>4, FirstBufferKeeps, NextBufferKeeps DEF EncNext

(* encfixer stops reading at the end of the file and nowhere else, for     *)
(* every file and every size of its buffer.                                *)
THEOREM FixerTypeCorrect == EncSpec => []EncTypeOK
<1> DEFINE Inv == EInv(fx)
<1>1. fx = FixerIdle => Inv
  BY EInvInductive
<1>2. Inv /\ [EncNext]_fx => Inv'
  BY EInvInductive
<1>3. Inv => EncTypeOK
  BY DEF EInv, EncTypeOK, FixerExits
<1> QED
  BY <1>1, <1>2, <1>3, PTL DEF EncSpec

(* For every size of the buffer and every file whose declaration is        *)
(* well-formed and lies in the first buffer (Fits): if encfixer succeeds,  *)
(* it has written the declaration's attributes, in order, with the         *)
(* encoding changed or left out as it was told, and then the rest of the   *)
(* file, each character once; and it fails at no declaration in the plain  *)
(* layout.  Of a declaration that the buffer cuts in its white space this  *)
(* is not true: encfixer succeeds, keeps the encoding and loses a blank.   *)
THEOREM FixedExactly == EncSpec => []FixerExact
<1> DEFINE Inv == EInv(fx)
<1>1. fx = FixerIdle => Inv
  BY EInvInductive
<1>2. Inv /\ [EncNext]_fx => Inv'
  BY EInvInductive
<1>3. Inv => FixerExact
  BY Zenon DEF EInv, Clear, Result, FixerExact
<1> QED
  BY <1>1, <1>2, <1>3, PTL DEF EncSpec

(* A file without a declaration comes out as it went in, wherever its      *)
(* buffers end: FixerExact's second part.                                  *)
PassedThrough == fx.exit = "ok" /\ ~fx.file.declared => fx.out = fx.file.text

(* It does so for every file and every size of the buffer.                 *)
COROLLARY FilesPassThrough == EncSpec => []PassedThrough
<1>1. FixerExact => PassedThrough
  BY Zenon DEF FixerExact, PassedThrough
<1> QED
  BY <1>1, FixedExactly, PTL

(* For every file and every size of the buffer, encextractor and indexer   *)
(* find the encoding that XML reads in the declaration or none at all, and *)
(* find it if the layout is the plain one and the declaration fits.        *)
THEOREM ExtractedRightly == EncSpec => []ExtractorTrue
<1> DEFINE Inv == EInv(fx)
<1>1. fx = FixerIdle => Inv
  BY EInvInductive
<1>2. Inv /\ [EncNext]_fx => Inv'
  BY EInvInductive
<1>3. Inv => ExtractorTrue
  <2> SUFFICES ASSUME Inv, fx.exit = "first" PROVE ExtractorTrue
    BY DEF ExtractorTrue
  <2>1. fx.file \in Files
    BY DEF EInv
  <2> QED BY <2>1, ExtractedTrue DEF ExtractorTrue
<1> QED
  BY <1>1, <1>2, <1>3, PTL DEF EncSpec
=============================================================================
