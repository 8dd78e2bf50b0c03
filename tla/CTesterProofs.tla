--------------------------- MODULE CTesterProofs ---------------------------
(***************************************************************************)
(* Proofs about CTester, for every script that does not end a DTD in an    *)
(* open comment (PlayEnd): however long its list of what to end grows and  *)
(* whatever else it starts and ends in which order.                        *)
(***************************************************************************)
EXTENDS CTester, Lemmas

XNode == [state : NodeStates, name : CNames]

Writers == [nodes : Seq(XNode), ok : BOOLEAN]

Entry == [kind : CStarts, live : BOOLEAN]

Outcomes == {"nil", "done", "failed", "invalid", "freed twice"}

Runs == [xml : Writers, end : Seq(Entry), in_dtd : BOOLEAN, outcome : Outcomes]

Kind(x, i) == KindOf(x.nodes[i].state)

(* A DTD is the outermost node, and a list of attributes the one inside it.*)
Shaped(x) ==
  \A i \in 1 .. Len(x.nodes) :
    /\ Kind(x, i) = "dtd" => i = Len(x.nodes)
    /\ Kind(x, i) = "dtdattlist" => i + 1 = Len(x.nodes) /\ Kind(x, i + 1) = "dtd"

(* The list of what to end begins with the kinds of the open nodes. *)
Matched(x, end) ==
  /\ Len(x.nodes) <= Len(end)
  /\ \A i \in 1 .. Len(x.nodes) : end[i].kind = Kind(x, i)

-----------------------------------------------------------------------------
(* libxml2's calls: what they do to the kinds of the open nodes. *)

Same(x, y) ==
  /\ y \in Writers /\ y.ok = x.ok /\ Len(y.nodes) = Len(x.nodes)
  /\ \A i \in 1 .. Len(x.nodes) : Kind(y, i) = Kind(x, i)

Over(x, y, kind) ==
  /\ y \in Writers /\ y.ok = x.ok /\ Len(y.nodes) = Len(x.nodes) + 1
  /\ Kind(y, 1) = kind
  /\ \A i \in 1 .. Len(x.nodes) : Kind(y, i + 1) = Kind(x, i)

Under(x, y) ==
  /\ y \in Writers /\ y.ok = x.ok /\ Len(y.nodes) = Len(x.nodes) - 1
  /\ \A i \in 1 .. Len(y.nodes) : Kind(y, i) = Kind(x, i + 1)

Refused(x, y) == y \in Writers /\ y.ok = FALSE

Kinds == {"elem", "dtd", "dtdattlist", "cdata", "comment"}

(* A state tells its kind.                                                 *)
LEMMA KindOfState ==
  ASSUME NEW st \in NodeStates
  PROVE  /\ KindOf(st) \in Kinds
         /\ KindOf(st) = "elem" <=> st \in ElemStates
         /\ KindOf(st) = "dtd" <=> st \in DTDStates
         /\ KindOf(st) = "dtdattlist" <=> st \in AttlistStates
         /\ KindOf(st) = "cdata" <=> st = "CDATA"
         /\ KindOf(st) = "comment" <=> st = "COMMENT"
BY DEF KindOf, NodeStates, ElemStates, DTDStates, AttlistStates, Kinds

(* The innermost node of a writer, if it has one.                          *)
LEMMA TopFacts ==
  ASSUME NEW x \in Writers
  PROVE  /\ x.nodes \in Seq(XNode) /\ x.ok \in BOOLEAN /\ Len(x.nodes) \in Nat
         /\ x.nodes = <<>> <=> Len(x.nodes) = 0
         /\ x.nodes = <<>> => State(x) = "empty"
         /\ x.nodes # <<>> => /\ x.nodes[1] \in XNode /\ State(x) = x.nodes[1].state
                              /\ State(x) \in NodeStates /\ KindOf(State(x)) = Kind(x, 1)
         /\ \A i \in 1 .. Len(x.nodes) : x.nodes[i] \in XNode /\ Kind(x, i) \in Kinds
<1>1. x.nodes \in Seq(XNode) /\ x.ok \in BOOLEAN
  BY DEF Writers
<1>2. Len(x.nodes) \in Nat /\ (x.nodes = <<>> <=> Len(x.nodes) = 0)
  BY <1>1, EmptySeq, LenProperties
<1>3. \A i \in 1 .. Len(x.nodes) : x.nodes[i] \in XNode
  BY <1>1, <1>2, ElementOfSeq
<1>4. ASSUME NEW i \in 1 .. Len(x.nodes) PROVE Kind(x, i) \in Kinds
  <2>1. x.nodes[i].state \in NodeStates
    BY <1>3 DEF XNode
  <2> QED
    BY <2>1, KindOfState DEF Kind
<1>5. ASSUME x.nodes # <<>>
      PROVE  x.nodes[1] \in XNode /\ State(x) = x.nodes[1].state /\ State(x) \in NodeStates
             /\ KindOf(State(x)) = Kind(x, 1)
  <2>1. 1 \in 1 .. Len(x.nodes)
    BY <1>2, <1>5
  <2> QED
    BY <1>3, <1>5, <2>1 DEF State, XNode, Kind
<1> QED
  BY <1>1, <1>2, <1>3, <1>4, <1>5 DEF State

(* A node more, *)
LEMMA PushOver ==
  ASSUME NEW x \in Writers, NEW st \in NodeStates, NEW nm \in CNames
  PROVE  Over(x, PushNode(x, st, nm), KindOf(st))
<1> DEFINE n == [state |-> st, name |-> nm]
           y == PushNode(x, st, nm)
<1>1. n \in XNode /\ n.state = st
  BY DEF XNode
<1>2. y = [x EXCEPT !.nodes = <<n>> \o @]
  BY DEF PushNode
<1>3. x.nodes \in Seq(XNode) /\ x.ok \in BOOLEAN /\ Len(x.nodes) \in Nat
  BY TopFacts
<1>4. y \in Writers /\ y.ok = x.ok /\ y.nodes = <<n>> \o x.nodes
  <2> HIDE DEF n, y
  <2>1. <<n>> \o x.nodes \in Seq(XNode)
    BY <1>1, <1>3, FirstAdded
  <2> QED
    BY <1>2, <2>1 DEF Writers
<1> HIDE DEF n, y
<1>5. /\ Len(y.nodes) = Len(x.nodes) + 1 /\ y.nodes[1] = n
      /\ \A i \in 2 .. Len(y.nodes) : y.nodes[i] = x.nodes[i - 1]
  BY <1>1, <1>3, <1>4, FirstAdded
<1>6. \A i \in 1 .. Len(x.nodes) : y.nodes[i + 1] = x.nodes[i]
  BY <1>3, <1>5
<1> QED
  BY <1>1, <1>4, <1>5, <1>6 DEF Over, Kind, y

(* a node less, *)
LEMMA PopUnder ==
  ASSUME NEW x \in Writers, x.nodes # <<>>
  PROVE  Under(x, PopNode(x))
<1>1. x.nodes \in Seq(XNode) /\ x.ok \in BOOLEAN /\ Len(x.nodes) \in Nat
  BY TopFacts
<1>2. /\ Tail(x.nodes) \in Seq(XNode) /\ Len(Tail(x.nodes)) = Len(x.nodes) - 1
      /\ \A i \in 1 .. Len(Tail(x.nodes)) : Tail(x.nodes)[i] = x.nodes[i + 1]
  BY <1>1, FirstDropped
<1>3. PopNode(x) \in Writers /\ PopNode(x).ok = x.ok /\ PopNode(x).nodes = Tail(x.nodes)
  BY <1>1, <1>2 DEF PopNode, Writers
<1> QED
  BY <1>2, <1>3 DEF Under, Kind

(* or a refusal.                                                           *)
LEMMA RefuseRefuses ==
  ASSUME NEW x \in Writers
  PROVE  Refused(x, Refuse(x))
BY DEF Refused, Refuse, Writers

(* Content settles the innermost node, which stays of its kind.            *)
LEMMA SettledSame ==
  ASSUME NEW x \in Writers
  PROVE  Same(x, Settled(x))
<1>1. ASSUME NEW st, NEW old, x.nodes # <<>>, State(x) = old, st \in NodeStates, KindOf(st) = KindOf(old)
      PROVE  Same(x, [x EXCEPT !.nodes[1].state = st])
  <2> DEFINE y == [x EXCEPT !.nodes[1].state = st]
             n == [x.nodes[1] EXCEPT !.state = st]
  <2>1. x.nodes \in Seq(XNode) /\ x.ok \in BOOLEAN /\ Len(x.nodes) \in Nat /\ x.nodes[1] \in XNode /\ Len(x.nodes) >= 1
    BY <1>1, TopFacts
  <2>2. n \in XNode /\ n.state = st
    BY <1>1, <2>1 DEF XNode
  <2>3. y = [x EXCEPT !.nodes = [@ EXCEPT ![1] = n]]
    BY <2>1 DEF Writers
  <2> HIDE DEF n, y
  <2>4. [x.nodes EXCEPT ![1] = n] \in Seq(XNode) /\ Len([x.nodes EXCEPT ![1] = n]) = Len(x.nodes)
    BY <2>1, <2>2
  <2>5. y \in Writers /\ y.ok = x.ok /\ y.nodes = [x.nodes EXCEPT ![1] = n]
    BY <2>3, <2>4 DEF Writers
  <2>6. y.nodes[1] = n /\ \A i \in 2 .. Len(x.nodes) : y.nodes[i] = x.nodes[i]
    BY <2>1, <2>5
  <2>7. Kind(y, 1) = Kind(x, 1)
    BY <1>1, <2>2, <2>6, TopFacts DEF Kind
  <2>8. \A i \in 1 .. Len(x.nodes) : Kind(y, i) = Kind(x, i)
    BY <2>1, <2>6, <2>7 DEF Kind
  <2> QED
    BY <2>4, <2>5, <2>8 DEF Same, y
<1>2. Same(x, x)
  BY DEF Same
<1>3. State(x) # "empty" => x.nodes # <<>>
  BY TopFacts
<1>4. CASE State(x) = "NAME"
  <2>1. "TEXT" \in NodeStates /\ KindOf("TEXT") = KindOf("NAME")
    BY KindOfState DEF NodeStates, ElemStates
  <2> QED
    BY <1>1, <1>3, <1>4, <2>1 DEF Settled
<1>5. CASE State(x) = "DTD"
  <2>1. "DTD_TEXT" \in NodeStates /\ KindOf("DTD_TEXT") = KindOf("DTD")
    BY KindOfState DEF NodeStates, DTDStates
  <2> QED
    BY <1>1, <1>3, <1>5, <2>1 DEF Settled
<1>6. CASE State(x) = "ATTL"
  <2>1. "ATTL_TEXT" \in NodeStates /\ KindOf("ATTL_TEXT") = KindOf("ATTL")
    BY KindOfState DEF NodeStates, AttlistStates
  <2> QED
    BY <1>1, <1>3, <1>6, <2>1 DEF Settled
<1>7. CASE State(x) \notin {"NAME", "DTD", "ATTL"}
  BY <1>2, <1>7 DEF Settled
<1> QED
  BY <1>4, <1>5, <1>6, <1>7

(* EndDTD takes away nodes from the innermost on; with a DTD or its list   *)
(* innermost, all of them, and none with an element or CDATA innermost.    *)
LEMMA EndDTDFacts ==
  ASSUME NEW x \in Writers
  PROVE  /\ EndDTD(x) \in Writers /\ EndDTD(x).ok = x.ok
         /\ Len(x.nodes) = 0 => Len(EndDTD(x).nodes) = 0
         /\ Shaped(x) /\ Len(x.nodes) > 0 /\ Kind(x, 1) \in {"dtd", "dtdattlist"} => Len(EndDTD(x).nodes) = 0
         /\ Len(x.nodes) > 0 /\ Kind(x, 1) \in {"elem", "cdata"} => EndDTD(x) = x
<1> DEFINE L == Len(x.nodes)
           kept == {i \in 1 .. Len(x.nodes) : x.nodes[i].state \in ElemStates \cup {"CDATA"}}
           first == IF kept = {} THEN Len(x.nodes) + 1 ELSE CHOOSE i \in kept : \A j \in kept : i <= j
<1>1. x.nodes \in Seq(XNode) /\ x.ok \in BOOLEAN /\ L \in Nat /\ \A i \in 1 .. L : x.nodes[i] \in XNode
  BY TopFacts
<1>2. kept = {} => first = L + 1
  OBVIOUS
<1>3. kept # {} => first \in 1 .. L
  <2>1. kept \subseteq 1 .. L
    OBVIOUS
  <2>2. kept \subseteq Nat
    BY <1>1
  <2> HIDE DEF kept, L
  <2>3. SUFFICES ASSUME kept # {} PROVE (CHOOSE i \in kept : \A j \in kept : i <= j) \in kept
    BY <2>1 DEF L
  <2>4. \E i \in kept : \A j \in kept : i <= j
    BY <2>2, <2>3, LeastNatural
  <2> QED
    BY <2>4
<1>4. EndDTD(x) = [x EXCEPT !.nodes = SubSeq(@, first, Len(@))]
  BY DEF EndDTD
<1> HIDE DEF first, kept
<1>5. first \in 1 .. L + 1
  BY <1>1, <1>2, <1>3
<1>6. /\ SubSeq(x.nodes, first, L) \in Seq(XNode)
      /\ Len(SubSeq(x.nodes, first, L)) = IF first <= L THEN L - first + 1 ELSE 0
  <2>1. \A i \in first .. L : x.nodes[i] \in XNode
    BY <1>1, <1>5
  <2>2. first \in Int /\ L \in Int
    BY <1>1, <1>5
  <2> HIDE DEF L
  <2> QED
    BY <2>1, <2>2, SubSeqProperties
<1>7. EndDTD(x) \in Writers /\ EndDTD(x).ok = x.ok /\ EndDTD(x).nodes = SubSeq(x.nodes, first, L)
  BY <1>1, <1>4, <1>6 DEF Writers
<1>8. L = 0 => Len(EndDTD(x).nodes) = 0
  BY <1>1, <1>5, <1>6, <1>7
<1>9. ASSUME Shaped(x), L > 0, Kind(x, 1) \in {"dtd", "dtdattlist"}
      PROVE  Len(EndDTD(x).nodes) = 0
  <2>1. \A i \in 1 .. L : Kind(x, i) \in {"dtd", "dtdattlist"}
    BY <1>1, <1>9 DEF Shaped
  <2>2. \A i \in 1 .. L : x.nodes[i].state \in DTDStates \cup AttlistStates
    <3> TAKE i \in 1 .. L
    <3>1. x.nodes[i].state \in NodeStates
      BY <1>1 DEF XNode
    <3> QED
      BY <2>1, <3>1, KindOfState DEF Kind
  <2>3. kept = {}
    BY <2>2 DEF kept, DTDStates, AttlistStates, ElemStates
  <2> QED
    BY <1>1, <1>2, <1>6, <1>7, <2>3
<1>10. ASSUME L > 0, Kind(x, 1) \in {"elem", "cdata"}
       PROVE  EndDTD(x) = x
  <2>1. 1 \in 1 .. L /\ x.nodes[1].state \in NodeStates
    BY <1>1, <1>10 DEF XNode
  <2>2. x.nodes[1].state \in ElemStates \cup {"CDATA"}
    BY <1>10, <2>1, KindOfState DEF Kind, NodeStates, DTDStates, AttlistStates
  <2>3. 1 \in kept
    BY <2>1, <2>2 DEF kept
  <2>4. \A j \in kept : 1 <= j /\ j \in Nat
    BY <1>1 DEF kept
  <2>5. first = 1
    <3>1. PICK i : i = first
      OBVIOUS
    <3>2. i \in kept /\ \A j \in kept : i <= j
      BY <2>3, <2>4, <3>1 DEF first
    <3> QED
      BY <2>3, <2>4, <3>1, <3>2
  <2>6. SubSeq(x.nodes, 1, L) = x.nodes
    BY <1>1, SubSeqFull
  <2> QED
    BY <1>4, <2>5, <2>6 DEF Writers
<1> QED
  BY <1>7, <1>8, <1>9, <1>10

(* libxml2's part of a start.                                              *)
StartXml(x, kind, name) ==
  CASE kind = "doc"        -> StartDocument(x)
    [] kind = "dtd"        -> StartDTD(x, name)
    [] kind = "dtdattlist" -> StartDTDAttlist(x, name)
    [] kind = "elem"       -> StartElement(x, name)
    [] kind = "cdata"      -> StartSection(x, "CDATA", name)
    [] kind = "comment"    -> StartSection(x, "COMMENT", name)

(* A node on top of a settled one.                                         *)
LEMMA OverSettled ==
  ASSUME NEW x \in Writers, NEW st \in NodeStates, NEW nm \in CNames
  PROVE  Over(x, PushNode(Settled(x), st, nm), KindOf(st))
<1>1. Same(x, Settled(x)) /\ Settled(x) \in Writers
  BY SettledSame DEF Same
<1>2. Over(Settled(x), PushNode(Settled(x), st, nm), KindOf(st))
  BY <1>1, PushOver
<1> QED
  BY <1>1, <1>2 DEF Same, Over

(* What a start opens is of the kind that is started; a document opens     *)
(* nothing, and a list opens in a DTD only.                                *)
LEMMA StartXmlFacts ==
  ASSUME NEW x \in Writers, NEW kind \in CStarts, NEW nm \in CNames
  PROVE  LET y == StartXml(x, kind, nm)
         IN \/ Refused(x, y)
            \/ kind = "doc" /\ y = x /\ x.nodes = <<>>
            \/ /\ kind # "doc" /\ Over(x, y, kind)
               /\ kind = "dtd" => x.nodes = <<>>
               /\ kind = "dtdattlist" => Len(x.nodes) > 0 /\ Kind(x, 1) = "dtd"
<1>1. Refused(x, Refuse(x))
  BY RefuseRefuses
<1>2. CASE kind = "doc"
  BY <1>1, <1>2 DEF StartXml, StartDocument
<1>3. CASE kind = "dtd"
  <2>1. "DTD" \in NodeStates /\ KindOf("DTD") = "dtd"
    BY KindOfState DEF NodeStates, DTDStates
  <2> QED
    BY <1>1, <1>3, <2>1, PushOver DEF StartXml, StartDTD
<1>4. CASE kind = "dtdattlist"
  <2>1. "ATTL" \in NodeStates /\ KindOf("ATTL") = "dtdattlist"
    BY KindOfState DEF NodeStates, AttlistStates
  <2>2. State(x) \in DTDStates => Len(x.nodes) > 0 /\ Kind(x, 1) = "dtd"
    BY TopFacts, KindOfState DEF DTDStates
  <2> QED
    BY <1>1, <1>4, <2>1, <2>2, OverSettled DEF StartXml, StartDTDAttlist
<1>5. CASE kind = "elem"
  <2>1. "NAME" \in NodeStates /\ KindOf("NAME") = "elem"
    BY KindOfState DEF NodeStates, ElemStates
  <2> QED
    BY <1>5, <2>1, OverSettled, PushOver DEF StartXml, StartElement
<1>6. CASE kind = "cdata"
  <2>1. "CDATA" \in NodeStates /\ KindOf("CDATA") = "cdata"
    BY KindOfState DEF NodeStates
  <2> QED
    BY <1>1, <1>6, <2>1, OverSettled DEF StartXml, StartSection
<1>7. CASE kind = "comment"
  <2>1. "COMMENT" \in NodeStates /\ KindOf("COMMENT") = "comment"
    BY KindOfState DEF NodeStates
  <2> QED
    BY <1>1, <1>7, <2>1, OverSettled DEF StartXml, StartSection
<1> QED
  BY <1>2, <1>3, <1>4, <1>5, <1>6, <1>7 DEF CStarts

(* What an end takes away: the innermost node, which is of the kind that   *)
(* is ended; the document and a DTD take more, and do not refuse.          *)
LEMMA EndXmlFacts ==
  ASSUME NEW x \in Writers, NEW kind \in CStarts
  PROVE  LET y == EndXml(x, kind)
         IN /\ y \in Writers
            /\ kind = "doc" => y.ok = x.ok /\ y.nodes = <<>>
            /\ kind = "dtd" => y = EndDTD(x)
            /\ kind \notin {"doc", "dtd"} =>
                 IF Len(x.nodes) > 0 /\ Kind(x, 1) = kind THEN Under(x, y) ELSE Refused(x, y)
<1>1. Refused(x, Refuse(x))
  BY RefuseRefuses
<1>2. x.nodes # <<>> => Under(x, PopNode(x))
  BY PopUnder
<1>3. CASE kind = "doc"
  <2>1. EndXml(x, kind) = [x EXCEPT !.nodes = <<>>]
    BY <1>3 DEF EndXml, EndDocument
  <2>2. <<>> \in Seq(XNode)
    OBVIOUS
  <2> QED
    BY <1>3, <2>1, <2>2 DEF Writers
<1>4. CASE kind = "dtd"
  BY <1>4, EndDTDFacts DEF EndXml
<1>5. CASE kind \in {"dtdattlist", "elem", "cdata", "comment"}
  <2> DEFINE states == CASE kind = "dtdattlist" -> AttlistStates [] kind = "elem" -> ElemStates
                         [] kind = "cdata" -> {"CDATA"} [] kind = "comment" -> {"COMMENT"}
  <2>1. EndXml(x, kind) = EndIn(x, states)
    BY <1>5 DEF EndXml
  <2>2. Len(x.nodes) > 0 => (State(x) \in states <=> Kind(x, 1) = kind)
    BY <1>5, TopFacts, KindOfState
  <2>3. Len(x.nodes) = 0 => State(x) \notin states
    BY <1>5, TopFacts DEF AttlistStates, ElemStates
  <2> HIDE DEF states
  <2> QED
    BY <1>1, <1>2, <1>5, <2>1, <2>2, <2>3, TopFacts DEF EndIn, Under, Refused
<1> QED
  BY <1>3, <1>4, <1>5 DEF CStarts

(* What a write leaves open, unless it is refused.                         *)
LEMMA WriteXmlFacts ==
  ASSUME NEW x \in Writers
  PROVE  \A y \in {Settled(x), WriteRaw(x), WriteSection(x), WriteAttribute(x), WriteDeclaration(x),
                   WriteDTDEntity(x), WritePI(x)} : Same(x, y) \/ Refused(x, y)
<1>1. Refused(x, Refuse(x)) /\ Same(x, Settled(x)) /\ Same(x, x)
  BY RefuseRefuses, SettledSame DEF Same
<1> QED
  BY <1>1 DEF WriteRaw, WriteSection, WriteAttribute, WriteDeclaration, WriteDTDEntity, WritePI

-----------------------------------------------------------------------------
(* The run of a command. *)

(* The parts of a run.                                                     *)
LEMMA RunParts ==
  ASSUME NEW d \in Runs
  PROVE  /\ d.xml \in Writers /\ d.end \in Seq(Entry) /\ d.in_dtd \in BOOLEAN /\ d.outcome \in Outcomes
         /\ Len(d.end) \in Nat /\ (d.end = <<>> <=> Len(d.end) = 0)
         /\ \A i \in 1 .. Len(d.end) : d.end[i] \in Entry
         /\ DOMAIN d.end = 1 .. Len(d.end)
         /\ d = [xml |-> d.xml, end |-> d.end, in_dtd |-> d.in_dtd, outcome |-> d.outcome]
<1>1. d.xml \in Writers /\ d.end \in Seq(Entry) /\ d.in_dtd \in BOOLEAN /\ d.outcome \in Outcomes
      /\ d = [xml |-> d.xml, end |-> d.end, in_dtd |-> d.in_dtd, outcome |-> d.outcome]
  BY DEF Runs
<1> QED
  BY <1>1, EmptySeq, LenProperties, ElementOfSeq

(* The writer, after a call.                                               *)
LEMMA WithFacts ==
  ASSUME NEW d \in Runs, NEW x \in Writers
  PROVE  /\ With(d, x) \in Runs /\ With(d, x).xml = x /\ With(d, x).end = d.end
         /\ With(d, x).in_dtd = d.in_dtd /\ With(d, x).outcome = d.outcome
<1>1. With(d, x) = [xml |-> x, end |-> d.end, in_dtd |-> d.in_dtd, outcome |-> d.outcome]
  BY RunParts DEF With, Runs
<1> QED
  BY <1>1, RunParts DEF Runs

(* The outcome, set.                                                       *)
LEMMA OutcomeFacts ==
  ASSUME NEW d \in Runs, NEW o \in Outcomes
  PROVE  LET e == [d EXCEPT !.outcome = o]
         IN /\ e \in Runs /\ e.xml = d.xml /\ e.end = d.end /\ e.in_dtd = d.in_dtd /\ e.outcome = o
<1>1. [d EXCEPT !.outcome = o] = [xml |-> d.xml, end |-> d.end, in_dtd |-> d.in_dtd, outcome |-> o]
  BY RunParts DEF Runs
<1> QED
  BY <1>1, RunParts DEF Runs

(* Freed memory was used.                                                  *)
LEMMA CorruptFacts ==
  ASSUME NEW d \in Runs
  PROVE  /\ Corrupt(d) \in Runs /\ Corrupt(d).xml = d.xml /\ Corrupt(d).end = d.end
         /\ Corrupt(d).in_dtd = d.in_dtd /\ Corrupt(d).outcome = "freed twice"
<1>1. "freed twice" \in Outcomes
  BY DEF Outcomes
<1>2. ASSUME NEW o \in Outcomes, NEW e, e = [d EXCEPT !.outcome = o]
      PROVE  e \in Runs /\ e.xml = d.xml /\ e.end = d.end /\ e.in_dtd = d.in_dtd /\ e.outcome = o
  BY <1>2, OutcomeFacts
<1>3. Corrupt(d) = [d EXCEPT !.outcome = "freed twice"]
  BY DEF Corrupt
<1> QED
  BY <1>1, <1>2, <1>3, ZenonT(40)

(* ctx_end_pop takes the newest entry off, if it is still allocated.       *)
LEMMA EndPopFacts ==
  ASSUME NEW d \in Runs
  PROVE  LET e == EndPop(d)
         IN /\ e \in Runs /\ e.xml = d.xml /\ e.in_dtd = d.in_dtd
            /\ d.end = <<>> => e = d
            /\ d.end # <<>> => IF d.end[1].live
                              THEN e.end = Tail(d.end) /\ e.outcome = d.outcome
                              ELSE e.end = d.end /\ e.outcome = "freed twice"
<1>1. CASE d.end = <<>>
  BY <1>1 DEF EndPop
<1>2. CASE d.end # <<>> /\ ~d.end[1].live
  BY <1>2, CorruptFacts DEF EndPop
<1>3. CASE d.end # <<>> /\ d.end[1].live
  <2>1. Tail(d.end) \in Seq(Entry)
    BY <1>3, RunParts, FirstDropped
  <2>2. EndPop(d) = [d EXCEPT !.end = Tail(@)]
    BY <1>3 DEF EndPop
  <2>3. EndPop(d) = [xml |-> d.xml, end |-> Tail(d.end), in_dtd |-> d.in_dtd, outcome |-> d.outcome]
    BY <2>2, RunParts DEF Runs
  <2> QED
    BY <1>3, <2>1, <2>3, RunParts DEF Runs
<1> QED
  BY <1>1, <1>2, <1>3

(* ctx_end_push puts an entry first.                                       *)
LEMMA EndPushFacts ==
  ASSUME NEW d \in Runs, NEW kind \in CStarts
  PROVE  LET e == EndPush(d, kind)
         IN /\ e \in Runs /\ e.xml = d.xml /\ e.in_dtd = d.in_dtd /\ e.outcome = d.outcome
            /\ Len(e.end) = Len(d.end) + 1 /\ e.end[1] = [kind |-> kind, live |-> TRUE]
            /\ \A i \in 1 .. Len(d.end) : e.end[i + 1] = d.end[i]
<1> DEFINE n == [kind |-> kind, live |-> TRUE]
<1>1. n \in Entry
  BY DEF Entry
<1>2. EndPush(d, kind) = [d EXCEPT !.end = <<n>> \o @]
  BY DEF EndPush
<1> HIDE DEF n
<1> DEFINE t == <<n>> \o d.end
<1>3. t \in Seq(Entry) /\ Len(t) = Len(d.end) + 1 /\ t[1] = n /\ \A i \in 2 .. Len(t) : t[i] = d.end[i - 1]
  BY <1>1, RunParts, FirstAdded
<1>4. \A i \in 1 .. Len(d.end) : t[i + 1] = d.end[i]
  <2> HIDE DEF t
  <2> TAKE i \in 1 .. Len(d.end)
  <2>1. i + 1 \in 2 .. Len(t) /\ (i + 1) - 1 = i
    BY <1>3, RunParts
  <2> QED
    BY <1>3, <2>1
<1>5. EndPush(d, kind) = [xml |-> d.xml, end |-> t, in_dtd |-> d.in_dtd, outcome |-> d.outcome]
  BY <1>2, RunParts DEF Runs
<1> HIDE DEF t
<1>6. EndPush(d, kind) \in Runs /\ EndPush(d, kind).end = t
  BY <1>3, <1>5, RunParts DEF Runs
<1> QED
  BY <1>3, <1>4, <1>5, <1>6, RunParts DEF n

(* ctx_end frees all entries, and leaves the list as it is.                *)
LEMMA FreeEndsFacts ==
  ASSUME NEW d \in Runs
  PROVE  LET e == FreeEnds(d)
         IN /\ e \in Runs /\ e.xml = d.xml /\ e.in_dtd = d.in_dtd /\ Len(e.end) = Len(d.end)
            /\ \A i \in 1 .. Len(d.end) : e.end[i].kind = d.end[i].kind
            /\ e.outcome \in {d.outcome, "freed twice"}
<1>1. CASE \E i \in DOMAIN d.end : ~d.end[i].live
  BY <1>1, CorruptFacts DEF FreeEnds
<1>2. CASE ~\E i \in DOMAIN d.end : ~d.end[i].live
  <2> DEFINE t == [i \in DOMAIN d.end |-> [d.end[i] EXCEPT !.live = FALSE]]
  <2>1. FreeEnds(d) = [d EXCEPT !.end = t]
    BY <1>2 DEF FreeEnds
  <2>2. \A i \in 1 .. Len(d.end) : t[i] \in Entry /\ t[i].kind = d.end[i].kind
    <3>1. ASSUME NEW n \in Entry, NEW b \in BOOLEAN
          PROVE  [n EXCEPT !.live = b] \in Entry /\ [n EXCEPT !.live = b].kind = n.kind
      BY DEF Entry
    <3> TAKE i \in 1 .. Len(d.end)
    <3>2. d.end[i] \in Entry /\ t[i] = [d.end[i] EXCEPT !.live = FALSE]
      BY RunParts
    <3> HIDE DEF t
    <3> QED
      BY <3>1, <3>2
  <2>3. t \in Seq(Entry) /\ Len(t) = Len(d.end)
    <3>1. DOMAIN t = 1 .. Len(d.end) /\ Len(d.end) \in Nat
      BY RunParts
    <3>2. t \in [1 .. Len(d.end) -> Entry]
      BY <2>2, RunParts
    <3> HIDE DEF t
    <3> QED
      BY <3>1, <3>2, SeqDef, LenProperties
  <2> HIDE DEF t
  <2>4. FreeEnds(d) = [xml |-> d.xml, end |-> t, in_dtd |-> d.in_dtd, outcome |-> d.outcome]
    BY <2>1, RunParts DEF Runs
  <2> QED
    BY <2>2, <2>3, <2>4, RunParts DEF Runs
<1> QED
  BY <1>1, <1>2

(* in_dtd, set and cleared.                                                *)
LEMMA InDtdFacts ==
  ASSUME NEW d \in Runs, NEW b \in BOOLEAN
  PROVE  LET e == [d EXCEPT !.in_dtd = b]
         IN /\ e \in Runs /\ e.xml = d.xml /\ e.end = d.end /\ e.outcome = d.outcome
<1>1. [d EXCEPT !.in_dtd = b] = [xml |-> d.xml, end |-> d.end, in_dtd |-> b, outcome |-> d.outcome]
  BY RunParts DEF Runs
<1> QED
  BY <1>1, RunParts DEF Runs

(* A write.                                                                *)
LEMMA RunWriteFacts ==
  ASSUME NEW d \in Runs, NEW kind \in CWrites
  PROVE  LET e == RunWrite(d, kind)
         IN /\ e \in Runs /\ e.end = d.end /\ e.outcome = d.outcome
            /\ Same(d.xml, e.xml) \/ Refused(d.xml, e.xml)
<1>1. PICK y \in {Settled(d.xml), WriteRaw(d.xml), WriteSection(d.xml), WriteAttribute(d.xml),
                  WriteDeclaration(d.xml), WriteDTDEntity(d.xml), WritePI(d.xml)} : RunWrite(d, kind) = With(d, y)
  BY DEF RunWrite, WriteComment, CWrites
<1>2. d.xml \in Writers
  BY RunParts
<1>3. Same(d.xml, y) \/ Refused(d.xml, y)
  BY <1>2, WriteXmlFacts
<1>4. y \in Writers
  BY <1>3 DEF Same, Refused
<1> QED
  BY <1>1, <1>3, <1>4, WithFacts

(* A start makes an entry, whether or not libxml2 takes it.                *)
LEMMA RunStartFacts ==
  ASSUME NEW d \in Runs, NEW kind \in CStarts, NEW nm \in CNames
  PROVE  LET e == RunStart(d, kind, nm)
         IN /\ e \in Runs /\ e.outcome = d.outcome /\ e.xml = StartXml(d.xml, kind, nm)
            /\ Len(e.end) = Len(d.end) + 1 /\ e.end[1] = [kind |-> kind, live |-> TRUE]
            /\ \A i \in 1 .. Len(d.end) : e.end[i + 1] = d.end[i]
<1> DEFINE b == d.in_dtd \/ kind = "dtd"
           q == [d EXCEPT !.in_dtd = b]
           y == StartXml(d.xml, kind, nm)
           r == EndPush(q, kind)
<1>1. b \in BOOLEAN /\ d.xml \in Writers
  BY RunParts
<1>2. y \in Writers
  BY <1>1, StartXmlFacts DEF Over, Refused
<1>3. RunStart(d, kind, nm) = With(r, y)
  BY DEF RunStart, StartXml, With
<1> HIDE DEF b, y
<1>4. q \in Runs /\ q.xml = d.xml /\ q.end = d.end /\ q.outcome = d.outcome
  BY <1>1, InDtdFacts
<1> HIDE DEF q
<1>5. /\ r \in Runs /\ r.xml = d.xml /\ r.outcome = d.outcome
      /\ Len(r.end) = Len(d.end) + 1 /\ r.end[1] = [kind |-> kind, live |-> TRUE]
      /\ \A i \in 1 .. Len(d.end) : r.end[i + 1] = d.end[i]
  <2>1. /\ r \in Runs /\ r.xml = q.xml /\ r.outcome = q.outcome
        /\ Len(r.end) = Len(q.end) + 1 /\ r.end[1] = [kind |-> kind, live |-> TRUE]
        /\ \A i \in 1 .. Len(q.end) : r.end[i + 1] = q.end[i]
    BY <1>4, EndPushFacts, Zenon
  <2> HIDE DEF r
  <2> QED
    BY <1>4, <2>1
<1> HIDE DEF r
<1>6. With(r, y) \in Runs /\ With(r, y).xml = y /\ With(r, y).end = r.end /\ With(r, y).outcome = r.outcome
  BY <1>2, <1>5, WithFacts
<1> QED
  BY <1>3, <1>5, <1>6 DEF y

(* An end takes its entry off, that of a DTD excepted.                     *)
LEMMA RunEndFacts ==
  ASSUME NEW d \in Runs, NEW kind \in CStarts
  PROVE  LET e == RunEnd(d, kind)
         IN /\ e \in Runs /\ e.xml = EndXml(d.xml, kind)
            /\ kind = "dtd" => e.end = d.end /\ e.outcome = d.outcome
            /\ kind # "dtd" =>
                 \/ e.end = d.end /\ d.end = <<>> /\ e.outcome = d.outcome
                 \/ d.end # <<>> /\ d.end[1].live /\ e.end = Tail(d.end) /\ e.outcome = d.outcome
                 \/ d.end # <<>> /\ ~d.end[1].live /\ e.end = d.end /\ e.outcome = "freed twice"
<1> DEFINE b == d.in_dtd /\ kind # "dtd"
           q == [d EXCEPT !.in_dtd = b]
           y == EndXml(d.xml, kind)
           w == With(q, y)
<1>1. b \in BOOLEAN /\ d.xml \in Writers
  BY RunParts
<1>2. y \in Writers
  BY <1>1, EndXmlFacts
<1>3. RunEnd(d, kind) = IF kind = "dtd" THEN w ELSE EndPop(w)
  BY DEF RunEnd
<1> HIDE DEF b, y
<1>4. q \in Runs /\ q.xml = d.xml /\ q.end = d.end /\ q.outcome = d.outcome
  BY <1>1, InDtdFacts
<1> HIDE DEF q
<1>5. w \in Runs /\ w.xml = y /\ w.end = d.end /\ w.outcome = d.outcome
  BY <1>2, <1>4, WithFacts
<1> HIDE DEF w
<1> QED
  BY <1>3, <1>5, EndPopFacts DEF y

(* ctx_deinit ends the run, with the outcome it is told or a worse one.    *)
LEMMA DeinitFacts ==
  ASSUME NEW d \in Runs, NEW o \in Outcomes \ {"nil"}
  PROVE  LET e == Deinit(d, o)
         IN /\ e \in Runs /\ e.xml = d.xml /\ Len(e.end) = Len(d.end) /\ e.outcome # "nil"
            /\ d.outcome = "nil" => e.outcome \in {o, "freed twice"}
            /\ d.outcome = "freed twice" => e.outcome = "freed twice"
<1> DEFINE f == FreeEnds(d)
<1>1. f \in Runs /\ f.xml = d.xml /\ Len(f.end) = Len(d.end) /\ f.outcome \in {d.outcome, "freed twice"}
  BY FreeEndsFacts, Zenon
<1>2. Deinit(d, o) = IF f.outcome = "nil" THEN [f EXCEPT !.outcome = o] ELSE f
  BY DEF Deinit
<1> HIDE DEF f
<1>3. ASSUME NEW e, e = [f EXCEPT !.outcome = o]
      PROVE  e \in Runs /\ e.xml = f.xml /\ e.end = f.end /\ e.outcome = o
  BY <1>1, <1>3, OutcomeFacts
<1>4. CASE f.outcome = "nil"
  <2>1. Deinit(d, o) = [f EXCEPT !.outcome = o]
    BY <1>2, <1>4
  <2>2. /\ Deinit(d, o) \in Runs /\ Deinit(d, o).xml = f.xml /\ Deinit(d, o).end = f.end
        /\ Deinit(d, o).outcome = o
    BY <1>3, <2>1, Zenon
  <2> QED
    BY <1>1, <1>4, <2>2
<1>5. CASE f.outcome # "nil"
  BY <1>1, <1>2, <1>5
<1> QED
  BY <1>4, <1>5

-----------------------------------------------------------------------------
(* The invariant, and the commands but "end all". *)

Kept(d) ==
  /\ d \in Runs
  /\ d.outcome = "nil" => d.xml.ok /\ Shaped(d.xml) /\ Matched(d.xml, d.end)

(* script_run after the run function.                                      *)
Checked(e) == IF e.xml.ok THEN e ELSE Deinit(e, "failed")

(* A command that was refused leaves nothing to agree about.               *)
LEMMA RefusedKept ==
  ASSUME NEW e \in Runs, e.xml.ok = FALSE
  PROVE  /\ Kept(Checked(e)) /\ Checked(e).outcome # "nil" /\ Len(Checked(e).end) = Len(e.end)
         /\ e.outcome = "nil" => Checked(e).outcome \in {"failed", "freed twice"}
         /\ e.outcome = "freed twice" => Checked(e).outcome = "freed twice"
<1>1. "failed" \in Outcomes \ {"nil"}
  BY DEF Outcomes
<1>2. Checked(e) = Deinit(e, "failed")
  BY DEF Checked
<1>3. /\ Deinit(e, "failed") \in Runs /\ Len(Deinit(e, "failed").end) = Len(e.end)
      /\ Deinit(e, "failed").outcome # "nil"
      /\ e.outcome = "nil" => Deinit(e, "failed").outcome \in {"failed", "freed twice"}
      /\ e.outcome = "freed twice" => Deinit(e, "failed").outcome = "freed twice"
  BY <1>1, DeinitFacts, Zenon
<1> QED
  BY <1>2, <1>3, Zenon DEF Kept

(* A write leaves the list alone,                                          *)
LEMMA WriteKept ==
  ASSUME NEW d, Kept(d), d.outcome = "nil", NEW kind \in CWrites
  PROVE  LET e == Checked(RunWrite(d, kind))
         IN /\ Kept(e) /\ Len(e.end) = Len(d.end)
            /\ e.outcome = "nil" => e.end = d.end
<1> DEFINE e == RunWrite(d, kind)
<1>1. d \in Runs /\ d.xml.ok /\ Shaped(d.xml) /\ Matched(d.xml, d.end)
  BY DEF Kept
<1>2. e \in Runs /\ e.end = d.end /\ e.outcome = d.outcome /\ (Same(d.xml, e.xml) \/ Refused(d.xml, e.xml))
  BY <1>1, RunWriteFacts, Zenon
<1> HIDE DEF e
<1>3. CASE Refused(d.xml, e.xml)
  BY <1>2, <1>3, RefusedKept DEF Refused, e
<1>4. CASE Same(d.xml, e.xml)
  <2>1. e.xml.ok /\ Checked(e) = e
    BY <1>1, <1>4 DEF Same, Checked
  <2>2. Shaped(e.xml) /\ Matched(e.xml, e.end)
    BY <1>1, <1>2, <1>4, RunParts, TopFacts DEF Same, Shaped, Matched
  <2> QED
    BY <1>2, <2>1, <2>2 DEF Kept, e
<1> QED
  BY <1>2, <1>3, <1>4

(* a start puts an entry on it,                                            *)
LEMMA StartKept ==
  ASSUME NEW d, Kept(d), d.outcome = "nil", NEW kind \in CStarts, NEW nm \in CNames
  PROVE  LET e == Checked(RunStart(d, kind, nm))
         IN /\ Kept(e) /\ Len(e.end) = Len(d.end) + 1
            /\ e.outcome = "nil" => e.end[1].live /\ \A i \in 1 .. Len(d.end) : e.end[i + 1] = d.end[i]
<1> DEFINE e == RunStart(d, kind, nm)
           x == d.xml
           y == e.xml
<1>1. d \in Runs /\ x.ok /\ Shaped(x) /\ Matched(x, d.end) /\ x \in Writers
  BY RunParts DEF Kept
<1>2. /\ e \in Runs /\ e.outcome = d.outcome /\ e.xml = StartXml(x, kind, nm)
      /\ Len(e.end) = Len(d.end) + 1 /\ e.end[1] = [kind |-> kind, live |-> TRUE]
      /\ \A i \in 1 .. Len(d.end) : e.end[i + 1] = d.end[i]
  BY <1>1, RunStartFacts, Zenon
<1> HIDE DEF e
<1>3. \/ Refused(x, y)
      \/ kind = "doc" /\ y = x /\ x.nodes = <<>>
      \/ /\ kind # "doc" /\ Over(x, y, kind)
         /\ kind = "dtd" => x.nodes = <<>>
         /\ kind = "dtdattlist" => Len(x.nodes) > 0 /\ Kind(x, 1) = "dtd"
  BY <1>1, <1>2, StartXmlFacts, SMTT(40)
<1>4. Len(x.nodes) \in Nat /\ Len(d.end) \in Nat /\ (x.nodes = <<>> => Len(x.nodes) = 0)
  BY <1>1, TopFacts, RunParts
<1>5. CASE Refused(x, y)
  BY <1>2, <1>5, RefusedKept DEF Refused, e
<1>6. CASE kind = "doc" /\ y = x /\ x.nodes = <<>>
  <2>1. Checked(e) = e
    BY <1>1, <1>6 DEF Checked
  <2>2. Shaped(y) /\ Matched(y, e.end)
    BY <1>2, <1>4, <1>6 DEF Shaped, Matched
  <2> QED
    BY <1>1, <1>2, <1>6, <2>1, <2>2 DEF Kept, e
<1>7. CASE /\ kind # "doc" /\ Over(x, y, kind)
           /\ kind = "dtd" => x.nodes = <<>>
           /\ kind = "dtdattlist" => Len(x.nodes) > 0 /\ Kind(x, 1) = "dtd"
  <2>1. y.ok /\ Checked(e) = e
    BY <1>1, <1>7 DEF Over, Checked
  <2>2. /\ Len(y.nodes) = Len(x.nodes) + 1 /\ Kind(y, 1) = kind
        /\ \A i \in 1 .. Len(x.nodes) : Kind(y, i + 1) = Kind(x, i)
    BY <1>7 DEF Over
  <2>3. \A i \in 2 .. Len(y.nodes) : i - 1 \in 1 .. Len(x.nodes) /\ Kind(y, i) = Kind(x, i - 1)
    <3> HIDE DEF x, y
    <3> TAKE i \in 2 .. Len(y.nodes)
    <3>1. i - 1 \in 1 .. Len(x.nodes) /\ (i - 1) + 1 = i
      BY <1>4, <2>2
    <3> QED
      BY <2>2, <3>1
  <2>4. \A i \in 2 .. Len(d.end) + 1 : e.end[i] = d.end[i - 1]
    <3> HIDE DEF x, y
    <3> TAKE i \in 2 .. Len(d.end) + 1
    <3>1. i - 1 \in 1 .. Len(d.end) /\ (i - 1) + 1 = i
      BY <1>4
    <3> QED
      BY <1>2, <3>1
  <2>5. Matched(y, e.end)
    <3> HIDE DEF x, y
    <3>1. \A i \in 1 .. Len(y.nodes) : e.end[i].kind = Kind(y, i)
      <4> TAKE i \in 1 .. Len(y.nodes)
      <4>1. CASE i = 1
        BY <1>2, <2>2, <4>1
      <4>2. CASE i # 1
        <5>1. i \in 2 .. Len(y.nodes) /\ i \in 2 .. Len(d.end) + 1 /\ i - 1 \in 1 .. Len(x.nodes)
          BY <1>1, <1>4, <2>2, <4>2 DEF Matched
        <5> QED
          BY <1>1, <2>3, <2>4, <5>1 DEF Matched
      <4> QED
        BY <4>1, <4>2
    <3> QED
      BY <1>1, <1>2, <1>4, <2>2, <3>1 DEF Matched
  <2>6. Shaped(y)
    <3> HIDE DEF x, y
    <3> SUFFICES ASSUME NEW i \in 1 .. Len(y.nodes)
                 PROVE  /\ Kind(y, i) = "dtd" => i = Len(y.nodes)
                        /\ Kind(y, i) = "dtdattlist" => i + 1 = Len(y.nodes) /\ Kind(y, i + 1) = "dtd"
      BY DEF Shaped
    <3>1. CASE i = 1
      <4>1. kind = "dtd" => Len(y.nodes) = 1
        BY <1>4, <1>7, <2>2
      <4>2. kind = "dtdattlist" => Len(x.nodes) = 1 /\ Kind(y, 2) = "dtd" /\ Len(y.nodes) = 2
        <5> SUFFICES ASSUME kind = "dtdattlist" PROVE Len(x.nodes) = 1 /\ Kind(y, 2) = "dtd" /\ Len(y.nodes) = 2
          OBVIOUS
        <5>1. Len(x.nodes) > 0 /\ Kind(x, 1) = "dtd"
          BY <1>7
        <5>2. 1 \in 1 .. Len(x.nodes)
          BY <1>4, <5>1
        <5>3. Len(x.nodes) = 1
          BY <1>1, <5>1, <5>2 DEF Shaped
        <5>4. Len(y.nodes) = 2
          BY <2>2, <5>3
        <5>5. Kind(y, 2) = Kind(x, 2 - 1)
          BY <2>3, <5>4
        <5> QED
          BY <5>1, <5>3, <5>4, <5>5
      <4> QED
        BY <2>2, <3>1, <4>1, <4>2
    <3>2. CASE i # 1
      <4>1. i \in 2 .. Len(y.nodes) /\ i - 1 \in 1 .. Len(x.nodes) /\ (i - 1) + 1 = i
        BY <1>4, <2>2, <3>2
      <4>2. Kind(y, i) = Kind(x, i - 1)
        BY <2>3, <4>1
      <4>3. Kind(x, i - 1) = "dtd" => i - 1 = Len(x.nodes)
        BY <1>1, <4>1 DEF Shaped
      <4>4. Kind(x, i - 1) = "dtdattlist" => i = Len(x.nodes) /\ Kind(x, i) = "dtd"
        BY <1>1, <4>1 DEF Shaped
      <4>5. i = Len(x.nodes) => Kind(y, i + 1) = Kind(x, i)
        BY <2>2, <4>1
      <4> QED
        BY <1>4, <2>2, <4>1, <4>2, <4>3, <4>4, <4>5
    <3> QED
      BY <3>1, <3>2
  <2> QED
    BY <1>2, <2>1, <2>5, <2>6 DEF Kept, e
<1> QED
  BY <1>3, <1>5, <1>6, <1>7

(* an end takes the newest off, or none.                                   *)
LEMMA EndKept ==
  ASSUME NEW d, Kept(d), d.outcome = "nil", NEW kind \in CStarts,
         kind = "dtd" => State(d.xml) # "COMMENT"
  PROVE  LET e == Checked(RunEnd(d, kind))
         IN /\ Kept(e) /\ Len(e.end) <= Len(d.end)
            /\ e.outcome = "nil" => e.end = d.end \/ (d.end # <<>> /\ d.end[1].live /\ e.end = Tail(d.end))
<1> DEFINE e == RunEnd(d, kind)
           x == d.xml
           y == e.xml
<1>1. d \in Runs /\ x.ok /\ Shaped(x) /\ Matched(x, d.end) /\ x \in Writers
  BY RunParts DEF Kept
<1>2. /\ e \in Runs /\ e.xml = EndXml(x, kind)
      /\ kind = "dtd" => e.end = d.end /\ e.outcome = d.outcome
      /\ kind # "dtd" =>
            \/ e.end = d.end /\ d.end = <<>> /\ e.outcome = d.outcome
            \/ d.end # <<>> /\ d.end[1].live /\ e.end = Tail(d.end) /\ e.outcome = d.outcome
            \/ d.end # <<>> /\ ~d.end[1].live /\ e.end = d.end /\ e.outcome = "freed twice"
  BY <1>1, RunEndFacts, Zenon
<1> HIDE DEF e
<1>3. /\ y \in Writers
      /\ kind = "doc" => y.ok = x.ok /\ y.nodes = <<>>
      /\ kind = "dtd" => y = EndDTD(x)
      /\ kind \notin {"doc", "dtd"} =>
            IF Len(x.nodes) > 0 /\ Kind(x, 1) = kind THEN Under(x, y) ELSE Refused(x, y)
  <2> DEFINE z == EndXml(x, kind)
  <2>1. /\ z \in Writers
        /\ kind = "doc" => z.ok = x.ok /\ z.nodes = <<>>
        /\ kind = "dtd" => z = EndDTD(x)
        /\ kind \notin {"doc", "dtd"} =>
              IF Len(x.nodes) > 0 /\ Kind(x, 1) = kind THEN Under(x, z) ELSE Refused(x, z)
    BY <1>1, EndXmlFacts, Zenon
  <2>2. z = y
    BY <1>2
  <2> HIDE DEF x, y, z
  <2> QED
    BY <2>1, <2>2
<1>4. Len(x.nodes) \in Nat /\ Len(d.end) \in Nat /\ Len(y.nodes) \in Nat /\ Len(e.end) \in Nat
  BY <1>1, <1>2, <1>3, TopFacts, RunParts
<1>5. d.end # <<>> => /\ Len(d.end) >= 1 /\ Len(Tail(d.end)) = Len(d.end) - 1
                      /\ \A i \in 1 .. Len(Tail(d.end)) : Tail(d.end)[i] = d.end[i + 1]
  BY <1>1, RunParts, FirstDropped
<1>6. Len(e.end) <= Len(d.end)
  <2>1. e.end = d.end \/ (d.end # <<>> /\ e.end = Tail(d.end))
    BY <1>2
  <2> DEFINE t == Tail(d.end)
  <2>2. d.end # <<>> => Len(t) = Len(d.end) - 1
    BY <1>5
  <2>3. e.end = d.end \/ (d.end # <<>> /\ e.end = t)
    BY <2>1
  <2> HIDE DEF t
  <2> QED
    BY <1>4, <2>2, <2>3
<1>7. e.outcome = "nil" => e.end = d.end \/ (d.end # <<>> /\ d.end[1].live /\ e.end = Tail(d.end))
  BY <1>2
<1>8. CASE y.ok = FALSE
  BY <1>2, <1>6, <1>8, RefusedKept DEF e
<1>9. CASE y.ok /\ Len(y.nodes) = 0
  <2>1. Checked(e) = e
    BY <1>9 DEF Checked
  <2>2. Shaped(y) /\ Matched(y, e.end)
    BY <1>4, <1>9 DEF Shaped, Matched
  <2> QED
    BY <1>2, <1>6, <1>7, <1>9, <2>1, <2>2 DEF Kept, e
<1>10. CASE y.ok /\ kind \notin {"doc", "dtd"}
  <2>1. Len(x.nodes) > 0 /\ Kind(x, 1) = kind /\ Under(x, y)
    BY <1>3, <1>10 DEF Refused
  <2>2. /\ Len(y.nodes) = Len(x.nodes) - 1
        /\ \A i \in 1 .. Len(y.nodes) : i + 1 \in 1 .. Len(x.nodes) /\ Kind(y, i) = Kind(x, i + 1)
    BY <1>4, <2>1 DEF Under
  <2>3. Checked(e) = e
    BY <1>10 DEF Checked
  <2>4. Shaped(y)
    <3> HIDE DEF x, y
    <3> SUFFICES ASSUME NEW i \in 1 .. Len(y.nodes)
                 PROVE  /\ Kind(y, i) = "dtd" => i = Len(y.nodes)
                        /\ Kind(y, i) = "dtdattlist" => i + 1 = Len(y.nodes) /\ Kind(y, i + 1) = "dtd"
      BY DEF Shaped
    <3>1. i + 1 \in 1 .. Len(x.nodes) /\ Kind(y, i) = Kind(x, i + 1)
      BY <2>2
    <3>2. Kind(x, i + 1) = "dtd" => i + 1 = Len(x.nodes)
      BY <1>1, <3>1 DEF Shaped
    <3>3. Kind(x, i + 1) = "dtdattlist" => (i + 1) + 1 = Len(x.nodes) /\ Kind(x, (i + 1) + 1) = "dtd"
      BY <1>1, <3>1 DEF Shaped
    <3>4. (i + 1) + 1 = Len(x.nodes) => i + 1 \in 1 .. Len(y.nodes) /\ Kind(y, i + 1) = Kind(x, (i + 1) + 1)
      BY <1>4, <2>2
    <3> QED
      BY <1>4, <2>2, <3>1, <3>2, <3>3, <3>4
  <2>5. Matched(y, e.end) \/ e.outcome # "nil"
    <3> HIDE DEF x, y
    <3> SUFFICES ASSUME e.outcome = "nil" PROVE Matched(y, e.end)
      OBVIOUS
    <3>1. d.end # <<>>
      BY <1>1, <1>4, <2>1, RunParts DEF Matched
    <3>2. e.end = Tail(d.end)
      BY <1>2, <1>10, <3>1
    <3>3. Len(y.nodes) <= Len(e.end)
      BY <1>1, <1>4, <1>5, <2>2, <3>1, <3>2 DEF Matched
    <3>4. \A i \in 1 .. Len(y.nodes) : e.end[i].kind = Kind(y, i)
      <4> TAKE i \in 1 .. Len(y.nodes)
      <4>1. i \in 1 .. Len(Tail(d.end))
        BY <1>4, <3>2, <3>3
      <4>2. e.end[i] = d.end[i + 1]
        BY <1>5, <3>1, <3>2, <4>1
      <4> QED
        BY <1>1, <2>2, <4>2 DEF Matched
    <3> QED
      BY <3>3, <3>4 DEF Matched
  <2> QED
    BY <1>2, <1>6, <1>7, <1>10, <2>3, <2>4, <2>5 DEF Kept, e
<1>11. CASE kind = "doc"
  BY <1>1, <1>3, <1>9, <1>11
<1>12. CASE kind = "dtd"
  <2>1. CASE Len(x.nodes) = 0 \/ Kind(x, 1) \in {"dtd", "dtdattlist"}
    <3>1. y = EndDTD(x) /\ Len(x.nodes) \in Nat
      BY <1>3, <1>4, <1>12
    <3>2. EndDTD(x).ok = x.ok
      BY <1>1, EndDTDFacts
    <3>3. Len(EndDTD(x).nodes) = 0
      <4> HIDE DEF x, y
      <4>1. Len(x.nodes) = 0 \/ Len(x.nodes) > 0
        BY <3>1
      <4> QED
        BY <1>1, <2>1, <4>1, EndDTDFacts, Zenon
    <3> QED
      BY <1>1, <1>9, <3>1, <3>2, <3>3
  <2>2. CASE Len(x.nodes) > 0 /\ Kind(x, 1) \in {"elem", "cdata"}
    <3>1. y = x
      BY <1>1, <1>3, <1>12, <2>2, EndDTDFacts
    <3>2. Checked(e) = e
      BY <1>1, <3>1 DEF Checked
    <3>3. Shaped(y) /\ Matched(y, e.end)
      BY <1>1, <1>2, <1>12, <3>1
    <3> QED
      BY <1>1, <1>2, <1>6, <1>7, <3>1, <3>2, <3>3 DEF Kept, e
  <2>3. Len(x.nodes) > 0 => Kind(x, 1) \in Kinds \ {"comment"}
    BY <1>1, <1>12, TopFacts, KindOfState
  <2> QED
    BY <1>4, <2>1, <2>2, <2>3 DEF Kinds
<1>13. y.ok \in BOOLEAN
  BY <1>3, TopFacts
<1> QED
  BY <1>8, <1>10, <1>11, <1>12, <1>13

-----------------------------------------------------------------------------
(* "end all". *)

(* The run of one entry is a run.                                          *)
LEMMA EndEntryFacts ==
  ASSUME NEW e \in Runs, NEW entry \in Entry
  PROVE  EndEntry(e, entry) \in Runs
<1>1. entry.kind \in CStarts
  BY DEF Entry
<1> QED
  BY <1>1, CorruptFacts, RunEndFacts DEF EndEntry

(* The walk along the list is defined by its steps.                        *)
LEMMA WalkExists ==
  ASSUME NEW d \in Runs
  PROVE  \E f \in [0 .. Len(d.end) -> Runs] :
           /\ f[0] = d
           /\ \A i \in 1 .. Len(d.end) : f[i] = EndEntry(f[i - 1], d.end[i])
           /\ RunEndAll(d) = IF f[Len(d.end)].xml.ok /\ f[Len(d.end)].outcome = "nil"
                             THEN FreeEnds(f[Len(d.end)]) ELSE f[Len(d.end)]
<1> DEFINE N == Len(d.end)
           step == [i \in 1 .. N |-> [e \in Runs |-> EndEntry(e, d.end[i])]]
           walk == CHOOSE f : f = [i \in 0 .. Len(d.end) |-> IF i = 0 THEN d ELSE EndEntry(f[i - 1], d.end[i])]
<1>1. N \in Nat /\ \A i \in 1 .. N : d.end[i] \in Entry
  BY RunParts
<1>2. RunEndAll(d) = IF walk[N].xml.ok /\ walk[N].outcome = "nil" THEN FreeEnds(walk[N]) ELSE walk[N]
  BY DEF RunEndAll
<1>3. step \in [1 .. N -> [Runs -> Runs]]
  BY <1>1, EndEntryFacts
<1>4. \A i \in 1 .. N, e \in Runs : step[i][e] = EndEntry(e, d.end[i])
  OBVIOUS
<1>5. PICK g \in [0 .. N -> Runs] : g[0] = d /\ \A i \in 1 .. N : g[i] = step[i][g[i - 1]]
  <2>1. Recursions(N, Runs, d, step) # {}
    <3> HIDE DEF step, N
    <3> QED
      BY <1>1, <1>3, RecursionUpTo
  <2> HIDE DEF step, N
  <2> QED
    BY <2>1 DEF Recursions
<1> HIDE DEF step
<1>6. \A i \in 1 .. N : i - 1 \in 0 .. N /\ g[i] = EndEntry(g[i - 1], d.end[i])
  <2> HIDE DEF N
  <2> TAKE i \in 1 .. N
  <2>1. i - 1 \in 0 .. N /\ g[i - 1] \in Runs
    BY <1>1
  <2> QED
    BY <1>4, <1>5, <2>1
<1>7. g = [i \in 0 .. N |-> IF i = 0 THEN d ELSE EndEntry(g[i - 1], d.end[i])]
  <2> HIDE DEF N
  <2>1. \A i \in 0 .. N : g[i] = IF i = 0 THEN d ELSE EndEntry(g[i - 1], d.end[i])
    BY <1>1, <1>5, <1>6
  <2> QED
    BY <2>1
<1>8. walk = [i \in 0 .. N |-> IF i = 0 THEN d ELSE EndEntry(walk[i - 1], d.end[i])]
  BY <1>7, Zenon
<1> HIDE DEF walk, N
<1>9. \A i \in 0 .. N : walk[i] = IF i = 0 THEN d ELSE EndEntry(walk[i - 1], d.end[i])
  BY <1>8
<1>10. walk[0] = d /\ \A i \in 1 .. N : walk[i] = EndEntry(walk[i - 1], d.end[i])
  BY <1>1, <1>9
<1> DEFINE S == {i \in 0 .. N : walk[i] \in Runs}
<1>11. 0 \in S
  BY <1>1, <1>10
<1>12. ASSUME NEW i \in 0 .. N - 1, i \in S PROVE i + 1 \in S
  <2>1. i + 1 \in 1 .. N /\ (i + 1) - 1 = i
    BY <1>1
  <2>2. walk[i + 1] = EndEntry(walk[i], d.end[i + 1])
    BY <1>10, <2>1
  <2> QED
    BY <1>1, <1>12, <2>1, <2>2, EndEntryFacts
<1>13. \A i \in 0 .. N : walk[i] \in Runs
  <2>1. 0 .. N \subseteq S
    <3> HIDE DEF S
    <3>1. \A i \in 0 .. N - 1 : i \in S => i + 1 \in S
      BY <1>12
    <3> QED
      BY <1>1, <1>11, <3>1, InductionUpTo
  <2> QED
    BY <2>1
<1>14. walk \in [0 .. N -> Runs]
  BY <1>8, <1>13
<1> QED
  BY <1>2, <1>10, <1>14 DEF N

(* The entries of DTDs among the first. *)
Dtds(s, i) == {j \in 1 .. i : s[j].kind = "dtd"}

(* The kinds of the entries that outlived their node. *)
Left(d) == {d.end[j].kind : j \in Len(d.xml.nodes) + 1 .. Len(d.end)}

(* The run when i of d's entries are done: as many nodes are closed, and   *)
(* the entries are gone, those of DTDs excepted.                           *)
Walked(d, e, i) ==
  /\ e \in Runs /\ e.outcome \in {"nil", "freed twice"} /\ Len(e.end) <= Len(d.end)
  /\ e.outcome = "nil" /\ Left(d) \subseteq {"doc", "dtd"} => e.xml.ok
  /\ e.outcome = "nil" /\ e.xml.ok =>
       /\ Len(e.xml.nodes) = IF i <= Len(d.xml.nodes) THEN Len(d.xml.nodes) - i ELSE 0
       /\ \A j \in 1 .. Len(e.xml.nodes) : Kind(e.xml, j) = Kind(d.xml, i + j)
       /\ Len(e.end) = Len(d.end) - i + Cardinality(Dtds(d.end, i))

(* How the number of DTDs grows.                                           *)
LEMMA DtdsCounted ==
  ASSUME NEW s, NEW i \in Nat
  PROVE  /\ Cardinality(Dtds(s, i)) \in 0 .. i /\ Cardinality(Dtds(s, 0)) = 0
         /\ Cardinality(Dtds(s, i + 1)) =
              Cardinality(Dtds(s, i)) + IF s[i + 1].kind = "dtd" THEN 1 ELSE 0
<1>1. IsFiniteSet(1 .. i) /\ Cardinality(1 .. i) = i
  BY FS_Interval
<1>2. Dtds(s, i) \subseteq 1 .. i
  BY DEF Dtds
<1>3. IsFiniteSet(Dtds(s, i)) /\ Cardinality(Dtds(s, i)) <= i /\ Cardinality(Dtds(s, i)) \in Nat
  BY <1>1, <1>2, FS_Subset, FS_CardinalityType
<1>4. Cardinality(Dtds(s, 0)) = 0
  <2>1. Dtds(s, 0) = {}
    BY DEF Dtds
  <2> QED
    BY <2>1, FS_EmptySet
<1>5. CASE s[i + 1].kind = "dtd"
  <2>1. Dtds(s, i + 1) = Dtds(s, i) \cup {i + 1} /\ i + 1 \notin Dtds(s, i)
    BY <1>5 DEF Dtds
  <2> QED
    BY <1>3, <1>4, <1>5, <2>1, FS_AddElement
<1>6. CASE s[i + 1].kind # "dtd"
  <2>1. Dtds(s, i + 1) = Dtds(s, i)
    BY <1>6 DEF Dtds
  <2> QED
    BY <1>3, <1>4, <1>6, <2>1
<1> QED
  BY <1>3, <1>5, <1>6

(* What the entry of a node does, and one that outlived its node.          *)
LEMMA WalkXml ==
  ASSUME NEW d, Kept(d), d.outcome = "nil", NEW i \in 0 .. Len(d.end) - 1,
         NEW e, Walked(d, e, i), e.outcome = "nil", e.xml.ok
  PROVE  LET y == EndXml(e.xml, d.end[i + 1].kind)
         IN /\ y \in Writers
            /\ Left(d) \subseteq {"doc", "dtd"} => y.ok
            /\ y.ok =>
                 /\ Len(y.nodes) = IF i + 1 <= Len(d.xml.nodes) THEN Len(d.xml.nodes) - (i + 1) ELSE 0
                 /\ \A j \in 1 .. Len(y.nodes) : Kind(y, j) = Kind(d.xml, (i + 1) + j)
<1> DEFINE x == e.xml
           kind == d.end[i + 1].kind
           y == EndXml(x, kind)
           n == Len(d.xml.nodes)
           N == Len(d.end)
<1>1. /\ d \in Runs /\ d.xml \in Writers /\ Shaped(d.xml) /\ Matched(d.xml, d.end)
      /\ n \in Nat /\ N \in Nat /\ n <= N /\ i + 1 \in 1 .. N /\ d.end[i + 1] \in Entry
  BY RunParts, TopFacts DEF Kept, Matched
<1>2. /\ x \in Writers /\ Len(x.nodes) \in Nat /\ x.ok
      /\ Len(x.nodes) = IF i <= n THEN n - i ELSE 0
      /\ \A j \in 1 .. Len(x.nodes) : Kind(x, j) = Kind(d.xml, i + j)
  BY RunParts, TopFacts DEF Walked
<1>3. kind \in CStarts
  BY <1>1 DEF Entry
<1>4. /\ y \in Writers
      /\ kind = "doc" => y.ok = x.ok /\ y.nodes = <<>>
      /\ kind = "dtd" => y = EndDTD(x)
      /\ kind \notin {"doc", "dtd"} =>
           IF Len(x.nodes) > 0 /\ Kind(x, 1) = kind THEN Under(x, y) ELSE Refused(x, y)
  BY <1>2, <1>3, EndXmlFacts, Zenon
<1>5. CASE i + 1 <= n
  <2>1. kind = Kind(d.xml, i + 1) /\ i + 1 \in 1 .. n
    BY <1>1, <1>5 DEF Matched
  <2>2. Len(x.nodes) = n - i /\ Len(x.nodes) > 0
    BY <1>1, <1>2, <1>5
  <2>3. Kind(x, 1) = kind
    BY <1>2, <2>1, <2>2
  <2>4. kind \in Kinds
    BY <1>1, <2>1, TopFacts
  <2>5. CASE kind = "dtd"
    <3>1. i + 1 = n
      BY <1>1, <2>1, <2>5 DEF Shaped
    <3>2. Len(x.nodes) = 1
      BY <1>1, <2>2, <3>1
    <3>3. Shaped(x)
      BY <2>3, <2>5, <3>2 DEF Shaped
    <3>4. y.ok /\ Len(y.nodes) = 0
      BY <1>2, <1>4, <2>2, <2>3, <2>5, <3>3, EndDTDFacts
    <3> HIDE DEF x, y, kind, n
    <3>5. Len(y.nodes) = n - (i + 1)
      BY <1>1, <3>1, <3>4
    <3> QED
      BY <1>4, <1>5, <3>4, <3>5 DEF x, y, kind, n
  <2>6. CASE kind # "dtd"
    <3>1. Under(x, y)
      BY <1>4, <2>2, <2>3, <2>4, <2>6 DEF Kinds
    <3> HIDE DEF x, y, kind, n
    <3>2. y.ok /\ Len(y.nodes) = n - (i + 1)
      BY <1>1, <1>2, <2>2, <3>1 DEF Under
    <3>3. \A j \in 1 .. Len(y.nodes) : Kind(y, j) = Kind(d.xml, (i + 1) + j)
      <4> TAKE j \in 1 .. Len(y.nodes)
      <4>1. j + 1 \in 1 .. Len(x.nodes) /\ i + (j + 1) = (i + 1) + j
        BY <1>1, <2>2, <3>2
      <4>2. Kind(x, j + 1) = Kind(d.xml, i + (j + 1))
        BY <1>2, <4>1
      <4> QED
        BY <3>1, <4>1, <4>2 DEF Under
    <3> QED
      BY <1>4, <1>5, <3>2, <3>3 DEF x, y, kind, n
  <2> QED
    BY <2>5, <2>6
<1>6. CASE ~(i + 1 <= n)
  <2>1. Len(x.nodes) = 0 /\ i + 1 \in n + 1 .. N
    BY <1>1, <1>2, <1>6
  <2>2. kind \in Left(d)
    BY <2>1 DEF Left
  <2>3. CASE kind \in {"doc", "dtd"}
    <3>1. y.ok /\ Len(y.nodes) = 0
      BY <1>2, <1>4, <2>1, <2>3, EndDTDFacts
    <3> HIDE DEF x, y, kind, n
    <3> QED
      BY <1>4, <1>6, <3>1 DEF x, y, kind, n
  <2>4. CASE kind \notin {"doc", "dtd"}
    <3>1. y.ok = FALSE
      BY <1>4, <2>1, <2>4 DEF Refused
    <3> HIDE DEF x, y, kind, n
    <3> QED
      BY <1>4, <2>2, <2>4, <3>1 DEF x, y, kind, n
  <2> QED
    BY <2>3, <2>4
<1> QED
  BY <1>5, <1>6

(* One entry more.                                                         *)
LEMMA WalkStep ==
  ASSUME NEW d, Kept(d), d.outcome = "nil", NEW i \in 0 .. Len(d.end) - 1, NEW e, Walked(d, e, i)
  PROVE  Walked(d, EndEntry(e, d.end[i + 1]), i + 1)
<1> DEFINE entry == d.end[i + 1]
           N == Len(d.end)
<1>1. d \in Runs /\ N \in Nat /\ i \in Nat /\ i + 1 \in 1 .. N /\ entry \in Entry /\ entry.kind \in CStarts
  BY RunParts DEF Kept, Entry
<1>2. e \in Runs /\ Len(e.end) \in Nat /\ Len(e.end) <= N
  BY RunParts DEF Walked
<1>3. CASE ~e.xml.ok \/ e.outcome # "nil"
  <2>1. EndEntry(e, entry) = e
    BY <1>3 DEF EndEntry
  <2> QED
    BY <1>3, <2>1 DEF Walked
<1>4. CASE e.xml.ok /\ e.outcome = "nil" /\ ~entry.live
  <2>1. EndEntry(e, entry) = Corrupt(e)
    BY <1>4 DEF EndEntry
  <2>2. Corrupt(e) \in Runs /\ Corrupt(e).end = e.end /\ Corrupt(e).outcome = "freed twice"
    BY <1>2, CorruptFacts
  <2> QED
    BY <1>2, <2>1, <2>2 DEF Walked
<1>5. CASE e.xml.ok /\ e.outcome = "nil" /\ entry.live
  <2> DEFINE g == RunEnd(e, entry.kind)
             y == EndXml(e.xml, entry.kind)
  <2>1. EndEntry(e, entry) = g
    BY <1>5 DEF EndEntry
  <2>2. /\ g \in Runs /\ g.xml = y
        /\ entry.kind = "dtd" => g.end = e.end /\ g.outcome = e.outcome
        /\ entry.kind # "dtd" =>
             \/ g.end = e.end /\ e.end = <<>> /\ g.outcome = e.outcome
             \/ e.end # <<>> /\ e.end[1].live /\ g.end = Tail(e.end) /\ g.outcome = e.outcome
             \/ e.end # <<>> /\ ~e.end[1].live /\ g.end = e.end /\ g.outcome = "freed twice"
    BY <1>1, <1>2, RunEndFacts, Zenon
  <2>3. /\ Left(d) \subseteq {"doc", "dtd"} => y.ok
        /\ y.ok =>
             /\ Len(y.nodes) = IF i + 1 <= Len(d.xml.nodes) THEN Len(d.xml.nodes) - (i + 1) ELSE 0
             /\ \A j \in 1 .. Len(y.nodes) : Kind(y, j) = Kind(d.xml, (i + 1) + j)
    BY <1>5, WalkXml, SMTT(40)
  <2> HIDE DEF g, y
  <2>4. /\ Cardinality(Dtds(d.end, i)) \in 0 .. i
        /\ Cardinality(Dtds(d.end, i + 1)) =
             Cardinality(Dtds(d.end, i)) + IF entry.kind = "dtd" THEN 1 ELSE 0
    BY <1>1, DtdsCounted
  <2>5. Len(e.end) = N - i + Cardinality(Dtds(d.end, i))
    BY <1>5 DEF Walked
  <2>6. e.end # <<>> => Len(Tail(e.end)) = Len(e.end) - 1
    BY <1>2, RunParts, FirstDropped
  <2>7. Len(e.end) > 0 /\ e.end # <<>>
    <3> DEFINE k == Cardinality(Dtds(d.end, i))
    <3>1. k \in 0 .. i /\ Len(e.end) = N - i + k
      BY <2>4, <2>5
    <3> HIDE DEF entry, N, k
    <3>2. Len(e.end) > 0
      BY <1>1, <1>2, <3>1
    <3> QED
      BY <1>2, <3>2, RunParts
  <2>8. g.outcome = "nil" => Len(g.end) = N - (i + 1) + Cardinality(Dtds(d.end, i + 1))
    <3> HIDE DEF entry, N
    <3> DEFINE t == Tail(e.end)
    <3>1. Len(t) = Len(e.end) - 1
      BY <2>6, <2>7
    <3>2. g.outcome = "nil" => g.end = IF entry.kind = "dtd" THEN e.end ELSE t
      BY <2>2, <2>7
    <3> DEFINE k == Cardinality(Dtds(d.end, i))
    <3>3. /\ k \in 0 .. i /\ Len(e.end) = N - i + k
          /\ Cardinality(Dtds(d.end, i + 1)) = k + IF entry.kind = "dtd" THEN 1 ELSE 0
      BY <2>4, <2>5
    <3> HIDE DEF t, k
    <3>4. g.outcome = "nil" => Len(g.end) = IF entry.kind = "dtd" THEN Len(e.end) ELSE Len(e.end) - 1
      BY <3>1, <3>2
    <3> QED
      BY <1>1, <1>2, <3>3, <3>4
  <2>9. g.outcome \in {"nil", "freed twice"}
    BY <1>5, <2>2
  <2>10. Len(g.end) <= N
    <3> HIDE DEF entry, N
    <3> DEFINE t == Tail(e.end)
    <3>1. Len(t) = Len(e.end) - 1
      BY <2>6, <2>7
    <3>2. g.end \in {e.end, t}
      BY <2>2
    <3> HIDE DEF t
    <3>3. Len(g.end) = Len(e.end) \/ Len(g.end) = Len(e.end) - 1
      BY <3>1, <3>2
    <3> QED
      BY <1>1, <1>2, <3>3
  <2> QED
    BY <2>1, <2>2, <2>3, <2>8, <2>9, <2>10 DEF Walked
<1>6. e.xml.ok \in BOOLEAN /\ entry.live \in BOOLEAN
  BY <1>1, <1>2 DEF Runs, Writers, Entry
<1> QED
  BY <1>3, <1>4, <1>5

(* All of them.                                                            *)
LEMMA WalkEnds ==
  ASSUME NEW d, Kept(d), d.outcome = "nil"
  PROVE  \E e : /\ Walked(d, e, Len(d.end))
                /\ RunEndAll(d) = IF e.xml.ok /\ e.outcome = "nil" THEN FreeEnds(e) ELSE e
<1> DEFINE N == Len(d.end)
<1>1. d \in Runs /\ d.xml.ok /\ N \in Nat /\ Len(d.xml.nodes) \in Nat
  BY RunParts, TopFacts DEF Kept
<1>2. PICK f \in [0 .. N -> Runs] :
        /\ f[0] = d
        /\ \A i \in 1 .. N : f[i] = EndEntry(f[i - 1], d.end[i])
        /\ RunEndAll(d) = IF f[N].xml.ok /\ f[N].outcome = "nil" THEN FreeEnds(f[N]) ELSE f[N]
  BY <1>1, WalkExists
<1> HIDE DEF N
<1> DEFINE S == {i \in 0 .. N : Walked(d, f[i], i)}
<1>3. 0 \in S
  <2>1. Cardinality(Dtds(d.end, 0)) = 0
    BY DtdsCounted
  <2>2. Walked(d, d, 0)
    BY <1>1, <2>1 DEF Walked, N
  <2> QED
    BY <1>1, <1>2, <2>2
<1>4. ASSUME NEW i \in 0 .. N - 1, i \in S PROVE i + 1 \in S
  <2>1. i + 1 \in 1 .. N /\ i + 1 \in 0 .. N /\ (i + 1) - 1 = i
    BY <1>1
  <2>2. f[i + 1] = EndEntry(f[i], d.end[i + 1])
    BY <1>2, <2>1
  <2>3. Walked(d, f[i], i)
    BY <1>4
  <2>4. Walked(d, EndEntry(f[i], d.end[i + 1]), i + 1)
    BY <2>3, WalkStep DEF N
  <2> QED
    BY <2>1, <2>2, <2>4
<1>5. 0 .. N \subseteq S
  <2> HIDE DEF S
  <2>1. \A i \in 0 .. N - 1 : i \in S => i + 1 \in S
    BY <1>4
  <2> QED
    BY <1>1, <1>3, <2>1, InductionUpTo
<1>6. Walked(d, f[N], N)
  BY <1>1, <1>5
<1> QED
  BY <1>2, <1>6 DEF N

(* "end all" leaves nothing open, and of its list the entries of DTDs.     *)
LEMMA EndAllKept ==
  ASSUME NEW d, Kept(d), d.outcome = "nil"
  PROVE  LET e == Checked(RunEndAll(d))
         IN /\ Kept(e) /\ Len(e.end) <= Len(d.end)
            /\ e.outcome = "nil" => /\ e.xml.nodes = <<>>
                                    /\ Len(e.end) = Cardinality(Dtds(d.end, Len(d.end)))
            /\ e.outcome = "nil" \/ e.outcome = "failed" \/ e.outcome = "freed twice"
            /\ Left(d) \subseteq {"doc", "dtd"} => e.outcome # "failed"
<1> DEFINE a == RunEndAll(d)
           k == Cardinality(Dtds(d.end, Len(d.end)))
<1>1. PICK e : Walked(d, e, Len(d.end)) /\ a = IF e.xml.ok /\ e.outcome = "nil" THEN FreeEnds(e) ELSE e
  BY WalkEnds
<1>2. /\ Len(d.end) \in Nat /\ Len(d.xml.nodes) \in Nat /\ Len(d.xml.nodes) <= Len(d.end)
      /\ k \in 0 .. Len(d.end)
  BY RunParts, TopFacts, DtdsCounted DEF Kept, Matched
<1>3. e \in Runs /\ Len(e.end) \in Nat /\ Len(e.end) <= Len(d.end) /\ Len(e.xml.nodes) \in Nat /\ e.xml.ok \in BOOLEAN
  BY <1>1, RunParts, TopFacts DEF Walked
<1>4. /\ e.outcome = "nil" \/ e.outcome = "freed twice"
      /\ e.outcome = "nil" /\ Left(d) \subseteq {"doc", "dtd"} => e.xml.ok
  BY <1>1 DEF Walked
<1> HIDE DEF a
<1>5. CASE e.xml.ok /\ e.outcome = "nil"
  <2>1. a = FreeEnds(e)
    BY <1>1, <1>5
  <2>2. /\ a \in Runs /\ a.xml = e.xml /\ Len(a.end) = Len(e.end)
        /\ a.outcome = "nil" \/ a.outcome = "freed twice"
    BY <1>3, <1>5, <2>1, FreeEndsFacts
  <2>3. /\ Len(e.xml.nodes) = IF Len(d.end) <= Len(d.xml.nodes) THEN Len(d.xml.nodes) - Len(d.end) ELSE 0
        /\ Len(e.end) = Len(d.end) - Len(d.end) + k
    BY <1>1, <1>5 DEF Walked
  <2> HIDE DEF k
  <2>4. Len(e.xml.nodes) = 0 /\ Len(e.end) = k
    BY <1>2, <2>3
  <2>5. e.xml.nodes = <<>>
    BY <1>3, <2>4, RunParts, TopFacts
  <2>6. Checked(a) = a
    BY <1>5, <2>2 DEF Checked
  <2>7. Kept(a)
    <3>1. Len(a.xml.nodes) = 0 /\ Len(a.end) \in Nat /\ a.xml.ok
      BY <1>5, <2>2, <2>4, RunParts
    <3>2. Shaped(a.xml) /\ Matched(a.xml, a.end)
      BY <3>1 DEF Shaped, Matched
    <3> QED
      BY <2>2, <3>1, <3>2 DEF Kept
  <2> QED
    BY <1>3, <2>2, <2>4, <2>5, <2>6, <2>7 DEF a, k
<1>6. CASE e.xml.ok /\ e.outcome = "freed twice"
  <2>1. a = e /\ Checked(a) = a
    BY <1>1, <1>6 DEF Checked
  <2>2. Kept(e)
    BY <1>3, <1>6 DEF Kept
  <2> QED
    BY <1>3, <1>6, <2>1, <2>2 DEF a
<1>7. CASE e.xml.ok = FALSE
  <2>1. a = e
    BY <1>1, <1>7
  <2>2. /\ Kept(Checked(e)) /\ Checked(e).outcome # "nil" /\ Len(Checked(e).end) = Len(e.end)
        /\ e.outcome = "nil" => Checked(e).outcome = "failed" \/ Checked(e).outcome = "freed twice"
        /\ e.outcome = "freed twice" => Checked(e).outcome = "freed twice"
    BY <1>3, <1>7, RefusedKept
  <2> QED
    BY <1>3, <1>4, <1>7, <2>1, <2>2 DEF a
<1> QED
  BY <1>3, <1>4, <1>5, <1>6, <1>7

-----------------------------------------------------------------------------
(* How many entries of the list are freed. *)

(* Not more than it has,                                                   *)
LEMMA DeadCounted ==
  ASSUME NEW d \in Runs
  PROVE  /\ Dead(d) = Cardinality({i \in 1 .. Len(d.end) : ~d.end[i].live})
         /\ IsFiniteSet({i \in 1 .. Len(d.end) : ~d.end[i].live})
         /\ Dead(d) \in Nat /\ Dead(d) <= Len(d.end)
<1> DEFINE S == {i \in 1 .. Len(d.end) : ~d.end[i].live}
<1>1. DOMAIN d.end = 1 .. Len(d.end) /\ Len(d.end) \in Nat
  BY RunParts
<1>2. IsFiniteSet(1 .. Len(d.end)) /\ Cardinality(1 .. Len(d.end)) = Len(d.end) /\ S \subseteq 1 .. Len(d.end)
  BY <1>1, FS_Interval
<1>3. Dead(d) = Cardinality(S)
  BY <1>1 DEF Dead
<1> HIDE DEF S
<1>4. IsFiniteSet(S) /\ Cardinality(S) \in Nat /\ Cardinality(S) <= Len(d.end)
  BY <1>2, FS_Subset, FS_CardinalityType
<1> QED
  BY <1>3, <1>4 DEF S

(* and no more by a list that gains one in use or loses one.               *)
LEMMA DeadPushed ==
  ASSUME NEW d \in Runs, NEW e \in Runs, Len(e.end) = Len(d.end) + 1, e.end[1].live,
         \A i \in 1 .. Len(d.end) : e.end[i + 1] = d.end[i]
  PROVE  Dead(e) <= Dead(d)
<1> DEFINE S == {i \in 1 .. Len(e.end) : ~e.end[i].live}
           T == {i \in 1 .. Len(d.end) : ~d.end[i].live}
<1>1. Dead(e) = Cardinality(S) /\ Dead(d) = Cardinality(T) /\ IsFiniteSet(T)
  BY DeadCounted
<1>2. S \subseteq Int /\ T \subseteq Int /\ -1 \in Int
  OBVIOUS
<1>3. \A i \in S : i + (-1) \in T
  <2> TAKE i \in S
  <2>1. i \in 2 .. Len(d.end) + 1
    BY RunParts
  <2>2. i - 1 \in 1 .. Len(d.end) /\ (i - 1) + 1 = i /\ i + (-1) = i - 1
    BY <2>1, RunParts
  <2>3. e.end[i] = d.end[i - 1]
    BY <2>2
  <2> QED
    BY <2>2, <2>3
<1> HIDE DEF S, T
<1> QED
  BY <1>1, <1>2, <1>3, MovedFits

(* The other way round.                                                    *)
LEMMA DeadPopped ==
  ASSUME NEW d \in Runs, NEW e \in Runs, d.end # <<>>, e.end = Tail(d.end)
  PROVE  Dead(e) <= Dead(d)
<1> DEFINE S == {i \in 1 .. Len(e.end) : ~e.end[i].live}
           T == {i \in 1 .. Len(d.end) : ~d.end[i].live}
<1>1. Dead(e) = Cardinality(S) /\ Dead(d) = Cardinality(T) /\ IsFiniteSet(T)
  BY DeadCounted
<1>2. S \subseteq Int /\ T \subseteq Int
  OBVIOUS
<1>3. Len(e.end) = Len(d.end) - 1 /\ \A i \in 1 .. Len(e.end) : e.end[i] = d.end[i + 1]
  <2> DEFINE t == Tail(d.end)
  <2>1. Len(t) = Len(d.end) - 1 /\ \A i \in 1 .. Len(t) : t[i] = d.end[i + 1]
    BY RunParts, FirstDropped
  <2> HIDE DEF t
  <2>2. e.end = t
    BY DEF t
  <2> QED
    BY <2>1, <2>2
<1>4. \A i \in S : i + 1 \in T
  <2> TAKE i \in S
  <2>1. i + 1 \in 1 .. Len(d.end)
    BY <1>3, RunParts
  <2>2. e.end[i] = d.end[i + 1]
    BY <1>3
  <2> QED
    BY <2>1, <2>2
<1> DEFINE k == 1
<1>5. k \in Int /\ \A i \in S : i + k \in T
  BY <1>4
<1> HIDE DEF S, T, k
<1> QED
  BY <1>1, <1>2, <1>5, MovedFits

-----------------------------------------------------------------------------
(* The specification. *)

CInv == Kept(c) /\ Len(c.end) <= MaxEnds

(* A command is run, and script_run looks at what it returned.             *)
LEMMA Played ==
  ASSUME NEW action, NEW kind, NEW nm, PlayCommand(action, kind, nm)
  PROVE  c.outcome = "nil" /\ c' = Checked(Run(c, action, kind, nm)) /\ last' = <<action, kind>>
BY DEF PlayCommand, Exec, Checked

(* The end of the script ends the run.                                     *)
LEMMA ScriptEnds ==
  ASSUME CInv, EndOfScript
  PROVE  Kept(c') /\ Len(c'.end) = Len(c.end) /\ c'.outcome # "nil"
<1>1. c \in Runs /\ c' = Deinit(c, "done") /\ "done" \in Outcomes \ {"nil"}
  BY DEF CInv, Kept, EndOfScript, Outcomes
<1> QED
  BY <1>1, DeinitFacts DEF Kept

(* So does a script that is rejected.                                      *)
LEMMA ScriptRejected ==
  ASSUME CInv, Reject
  PROVE  Kept(c') /\ Len(c'.end) = Len(c.end) /\ c'.outcome # "nil"
<1>1. c \in Runs /\ c' = [c EXCEPT !.outcome = "invalid"]
  BY DEF CInv, Kept, Reject
<1>2. "invalid" \in Outcomes /\ "invalid" # "nil"
  BY DEF Outcomes
<1>3. ASSUME NEW o \in Outcomes \ {"nil"}, NEW e, e = [c EXCEPT !.outcome = o]
      PROVE  e \in Runs /\ e.end = c.end /\ e.outcome # "nil"
  BY <1>1, <1>3, OutcomeFacts
<1>4. c' \in Runs /\ c'.end = c.end /\ c'.outcome # "nil"
  BY <1>1, <1>2, <1>3, Zenon
<1> QED
  BY <1>4 DEF Kept

(* What a command other than "end all" does to the list.                   *)
LEMMA CommandKept ==
  ASSUME CInv, PlayWrite \/ PlayStart \/ PlayEnd, last' # <<"end", "all">>
  PROVE  /\ Kept(c') /\ Len(c'.end) <= MaxEnds
         /\ c'.outcome = "nil" => Dead(c') <= Dead(c)
<1>1. c \in Runs /\ Len(c.end) \in Nat /\ Dead(c) \in Nat /\ MaxEnds \in Nat /\ Kept(c) /\ Len(c.end) <= MaxEnds
  BY RunParts, DeadCounted, CTesterAssumption DEF CInv, Kept
<1>2. CASE PlayWrite
  <2>1. PICK kind \in CWrites : PlayCommand("write", kind, "noname")
    BY <1>2 DEF PlayWrite
  <2>2. c.outcome = "nil" /\ c' = Checked(RunWrite(c, kind))
    BY <2>1, Played DEF Run
  <2> DEFINE e == Checked(RunWrite(c, kind))
  <2>3. Kept(e) /\ Len(e.end) = Len(c.end) /\ (e.outcome = "nil" => e.end = c.end)
    BY <1>1, <2>2, WriteKept, Zenon
  <2> HIDE DEF e
  <2>4. Dead(e) = Dead(c) \/ e.outcome # "nil"
    BY <2>3 DEF Dead
  <2> QED
    BY <1>1, <2>2, <2>3, <2>4 DEF e
<1>3. CASE PlayStart
  <2>1. PICK kind \in CStarts, nm \in CNames : PlayCommand("start", kind, nm)
    BY <1>3 DEF PlayStart
  <2>2. c.outcome = "nil" /\ c' = Checked(RunStart(c, kind, nm)) /\ Len(c.end) < MaxEnds
    BY <2>1, Played DEF Run, PlayCommand
  <2> DEFINE e == Checked(RunStart(c, kind, nm))
  <2>3. /\ Kept(e) /\ Len(e.end) = Len(c.end) + 1
        /\ e.outcome = "nil" => e.end[1].live /\ \A i \in 1 .. Len(c.end) : e.end[i + 1] = c.end[i]
    BY <1>1, <2>1, <2>2, StartKept, Zenon
  <2> HIDE DEF e
  <2>4. e.outcome = "nil" => Dead(e) <= Dead(c)
    BY <1>1, <2>3, DeadPushed DEF Kept
  <2> QED
    BY <1>1, <2>2, <2>3, <2>4 DEF e
<1>4. CASE PlayEnd
  <2>1. PICK kind \in CEnds : /\ kind = "dtd" => State(c.xml) # "COMMENT"
                              /\ PlayCommand("end", kind, "noname")
    BY <1>4 DEF PlayEnd
  <2>2. last' = <<"end", kind>>
    BY <2>1, Played
  <2>3. kind # "all"
    BY <2>2
  <2>4. kind \in CStarts
    BY <2>1, <2>3 DEF CEnds
  <2>5. c.outcome = "nil" /\ c' = Checked(RunEnd(c, kind))
    BY <2>1, <2>3, Played DEF Run
  <2> DEFINE e == Checked(RunEnd(c, kind))
  <2>6. /\ Kept(e) /\ Len(e.end) <= Len(c.end)
        /\ e.outcome = "nil" => e.end = c.end \/ (c.end # <<>> /\ c.end[1].live /\ e.end = Tail(c.end))
    BY <1>1, <2>1, <2>4, <2>5, EndKept, Zenon
  <2> HIDE DEF e
  <2>7. Len(e.end) \in Nat /\ e \in Runs
    BY <2>6, RunParts DEF Kept
  <2>8. e.end = c.end => Dead(e) = Dead(c)
    BY DEF Dead
  <2>9. c.end # <<>> /\ e.end = Tail(c.end) => Dead(e) <= Dead(c)
    BY <1>1, <2>7, DeadPopped
  <2>10. e.outcome = "nil" => Dead(e) <= Dead(c)
    <3>1. Dead(e) = Dead(c) => Dead(e) <= Dead(c)
      BY <1>1
    <3> QED
      BY <2>6, <2>8, <2>9, <3>1, Zenon
  <2> QED
    BY <1>1, <2>5, <2>6, <2>7, <2>10 DEF e
<1> QED
  BY <1>2, <1>3, <1>4

(* What "end all" does.                                                    *)
LEMMA EndAllPlayed ==
  ASSUME CInv, PlayWrite \/ PlayStart \/ PlayEnd, last' = <<"end", "all">>
  PROVE  /\ Kept(c') /\ Len(c'.end) <= MaxEnds
         /\ c'.outcome = "nil" => /\ c'.xml.nodes = <<>>
                                  /\ Len(c'.end) = Cardinality(Dtds(c.end, Len(c.end)))
         /\ c'.outcome = "nil" \/ c'.outcome = "failed" \/ c'.outcome = "freed twice"
         /\ Left(c) \subseteq {"doc", "dtd"} => c'.outcome # "failed"
<1>1. Len(c.end) \in Nat /\ MaxEnds \in Nat /\ Kept(c) /\ Len(c.end) <= MaxEnds
  BY RunParts, CTesterAssumption DEF CInv, Kept
<1>2. PICK kind \in CEnds : PlayCommand("end", kind, "noname")
  <2>1. ~PlayWrite
    <3> SUFFICES ASSUME NEW kind \in CWrites, PlayCommand("write", kind, "noname") PROVE FALSE
      BY DEF PlayWrite
    <3> QED
      BY Played
  <2>2. ~PlayStart
    <3> SUFFICES ASSUME NEW kind \in CStarts, NEW nm \in CNames, PlayCommand("start", kind, nm) PROVE FALSE
      BY DEF PlayStart
    <3> QED
      BY Played
  <2> QED
    BY <2>1, <2>2 DEF PlayEnd
<1>3. kind = "all" /\ c.outcome = "nil" /\ c' = Checked(RunEndAll(c))
  BY <1>2, Played DEF Run
<1> DEFINE e == Checked(RunEndAll(c))
<1>4. /\ Kept(e) /\ Len(e.end) <= Len(c.end)
      /\ e.outcome = "nil" => /\ e.xml.nodes = <<>>
                              /\ Len(e.end) = Cardinality(Dtds(c.end, Len(c.end)))
      /\ e.outcome = "nil" \/ e.outcome = "failed" \/ e.outcome = "freed twice"
      /\ Left(c) \subseteq {"doc", "dtd"} => e.outcome # "failed"
  BY <1>1, <1>3, EndAllKept, Zenon
<1>5. c' = e
  BY <1>3
<1> HIDE DEF e
<1>6. Len(e.end) \in Nat
  BY <1>4, RunParts DEF Kept
<1>7. Len(e.end) <= MaxEnds
  <2>1. Len(e.end) <= Len(c.end)
    BY <1>4
  <2> QED
    BY <1>1, <1>6, <2>1
<1> QED
  BY <1>4, <1>5, <1>7

(* The invariant holds at the start, and every step keeps it.              *)
LEMMA CInvKept == CSpec => []CInv
<1>1. ASSUME CInit PROVE CInv
  <2>1. <<>> \in Seq(XNode) /\ <<>> \in Seq(Entry) /\ Len(<<>>) = 0
    OBVIOUS
  <2>2. NewRun \in Runs /\ NewRun.xml.nodes = <<>> /\ NewRun.end = <<>> /\ NewRun.xml.ok = TRUE
    BY <2>1 DEF NewRun, NewTextWriter, Runs, Writers, Outcomes
  <2>3. Shaped(NewRun.xml) /\ Matched(NewRun.xml, NewRun.end)
    BY <2>1, <2>2 DEF Shaped, Matched
  <2> QED
    BY <1>1, <2>1, <2>2, <2>3, CTesterAssumption DEF CInit, CInv, Kept
<1>2. ASSUME CInv, [CNext]_ctesterVars PROVE CInv'
  <2>1. CASE CNext
    <3>1. CASE Reject
      BY <1>2, <3>1, ScriptRejected DEF CInv
    <3>2. CASE EndOfScript
      BY <1>2, <3>2, ScriptEnds DEF CInv
    <3>3. CASE PlayWrite \/ PlayStart \/ PlayEnd
      BY <1>2, <3>3, CommandKept, EndAllPlayed DEF CInv
    <3> QED
      BY <2>1, <3>1, <3>2, <3>3 DEF CNext
  <2>2. CASE UNCHANGED ctesterVars
    BY <1>2, <2>2 DEF ctesterVars, CInv
  <2> QED
    BY <1>2, <2>1, <2>2
<1> QED
  BY <1>1, <1>2, PTL DEF CSpec

(* The run keeps its type: what is open is of the kinds that ctester       *)
(* starts, and the list holds what it pushed (script_run, ctx_end_push).   *)
THEOREM CTypeCorrect == CSpec => []CTypeOK
<1>1. CInv => CTypeOK
  <2> SUFFICES ASSUME CInv PROVE CTypeOK
    OBVIOUS
  <2>1. c \in Runs /\ Len(c.end) <= MaxEnds
    BY DEF CInv, Kept
  <2>2. c.xml \in Writers /\ c.in_dtd \in BOOLEAN /\ c.outcome \in Outcomes
    BY <2>1, RunParts
  <2>3. \A i \in DOMAIN c.xml.nodes : c.xml.nodes[i] \in [state : NodeStates, name : CNames]
    <3>1. c.xml.nodes \in Seq(XNode) /\ \A i \in 1 .. Len(c.xml.nodes) : c.xml.nodes[i] \in XNode
      BY <2>2, TopFacts
    <3> QED
      BY <3>1 DEF XNode
  <2>4. \A i \in DOMAIN c.end : c.end[i] \in [kind : CStarts, live : BOOLEAN]
    BY <2>1, RunParts DEF Entry
  <2> QED
    BY <2>1, <2>2, <2>3, <2>4, TopFacts DEF CTypeOK, Outcomes
<1> QED
  BY <1>1, CInvKept, PTL

(* ctester's list of what to end and libxml2's stack agree on what is open,*)
(* whatever a script starts, ends and leaves (ctx_end_push, ctx_end_pop),  *)
(* except that it ends no DTD while a comment is open: CSpec leaves that   *)
(* out (PlayEnd), and there the two differ.                                *)
THEOREM EndListMatches == CSpec => []EndStackMatches
<1>1. CInv => EndStackMatches
  <2> SUFFICES ASSUME CInv, c.outcome = "nil"
               PROVE  /\ Len(c.xml.nodes) <= Len(c.end)
                      /\ \A i \in DOMAIN c.xml.nodes : c.end[i].kind = KindOf(c.xml.nodes[i].state)
    BY DEF EndStackMatches
  <2>1. c \in Runs /\ Matched(c.xml, c.end)
    BY DEF CInv, Kept
  <2>2. DOMAIN c.xml.nodes = 1 .. Len(c.xml.nodes)
    <3>1. c.xml.nodes \in Seq(XNode)
      BY <2>1, RunParts, TopFacts
    <3> QED
      BY <3>1, LenProperties
  <2> QED
    BY <2>1, <2>2 DEF Matched, Kind
<1> QED
  BY <1>1, CInvKept, PTL

(* "end all" closes what is open, and fails only if an end had closed more *)
(* than its own node (params_end_all_run).                                 *)
THEOREM EndAllClosesAll == CSpec => EndAllCloses
<1>1. ASSUME CInv, [CNext]_ctesterVars, last' = <<"end", "all">>, c # c', c'.outcome # "freed twice"
      PROVE  /\ c'.outcome # "failed" => c'.xml.nodes = <<>>
             /\ Outlived \subseteq {"doc", "dtd"} => c'.outcome = "nil"
  <2>1. PlayWrite \/ PlayStart \/ PlayEnd
    <3>1. last' # <<>>
      BY <1>1
    <3>2. ~EndOfScript /\ ~Reject
      BY <3>1 DEF EndOfScript, Reject
    <3> QED
      BY <1>1, <3>2 DEF CNext, ctesterVars
  <2>2. Outlived = Left(c)
    BY DEF Outlived, Left
  <2> QED
    BY <1>1, <2>1, <2>2, EndAllPlayed
<1> QED
  BY <1>1, CInvKept, PTL DEF CSpec, EndAllCloses

(* ctx->end points to freed memory after "end all" in a script with a DTD, *)
(* and only then.                                                          *)
THEOREM OnlyDTDsDangle == CSpec => DanglingOnlyByDTD
<1>1. ASSUME CInv, CNext, c'.outcome = "nil"
      PROVE  Dead(c') <= IF last' = <<"end", "all">> THEN Entries(c, "dtd") ELSE Dead(c)
  <2>1. PlayWrite \/ PlayStart \/ PlayEnd
    BY <1>1, ScriptRejected, ScriptEnds DEF CNext
  <2>2. CASE last' = <<"end", "all">>
    <3>1. Kept(c') /\ Len(c'.end) = Cardinality(Dtds(c.end, Len(c.end)))
      BY <1>1, <2>1, <2>2, EndAllPlayed
    <3>2. Dead(c') <= Len(c'.end)
      BY <3>1, DeadCounted DEF Kept
    <3>3. Entries(c, "dtd") = Cardinality(Dtds(c.end, Len(c.end)))
      BY <1>1, RunParts DEF Entries, Dtds, CInv, Kept
    <3> QED
      BY <2>2, <3>1, <3>2, <3>3
  <2>3. CASE last' # <<"end", "all">>
    BY <1>1, <2>1, <2>3, CommandKept
  <2> QED
    BY <2>2, <2>3
<1>2. CInv /\ [CNext]_ctesterVars =>
        [c'.outcome = "nil" =>
           Dead(c') <= IF last' = <<"end", "all">> THEN Entries(c, "dtd") ELSE Dead(c)]_ctesterVars
  BY <1>1
<1> QED
  BY <1>2, CInvKept, PTL DEF CSpec, DanglingOnlyByDTD
=============================================================================
