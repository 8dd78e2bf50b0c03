------------------------------- MODULE LibXml -------------------------------
(***************************************************************************)
(* The xmlTextWriter of libxml2, an external library, as ctester.c and     *)
(* normaliser.c use it: each call looks at the state of the innermost open *)
(* node and returns less than 0 where that node cannot take it.            *)
(*                                                                         *)
(* A writer is a record: nodes, what is open, the innermost first; ok, the *)
(* last call did not return less than 0.  What is written in one call (an  *)
(* attribute, an instruction, a declaration) is never among the nodes.     *)
(***************************************************************************)
EXTENDS Naturals, Sequences, SequencesExt

ElemStates == {"NAME", "TEXT"}

DTDStates == {"DTD", "DTD_TEXT"}

AttlistStates == {"ATTL", "ATTL_TEXT"}

NodeStates == ElemStates \cup DTDStates \cup AttlistStates \cup {"CDATA", "COMMENT"}

NewTextWriter == [nodes |-> <<>>, ok |-> TRUE]

State(x) == IF x.nodes = <<>> THEN "empty" ELSE x.nodes[1].state

Refuse(x) == [x EXCEPT !.ok = FALSE]

PushNode(x, state, name) == [x EXCEPT !.nodes = <<[state |-> state, name |-> name]>> \o @]

PopNode(x) == [x EXCEPT !.nodes = Tail(@)]

(* xmlTextWriterHandleStateDependencies: content is about to follow. *)
Settled(x) ==
  CASE State(x) = "NAME" -> [x EXCEPT !.nodes[1].state = "TEXT"]
    [] State(x) = "DTD"  -> [x EXCEPT !.nodes[1].state = "DTD_TEXT"]
    [] State(x) = "ATTL" -> [x EXCEPT !.nodes[1].state = "ATTL_TEXT"]
    [] OTHER             -> x

(* WriteString too. *)
WriteRaw(x) == Settled(x)

StartDocument(x) == IF x.nodes = <<>> THEN x ELSE Refuse(x)

StartDTD(x, name) == IF x.nodes = <<>> THEN PushNode(x, "DTD", name) ELSE Refuse(x)

(* It is not looked at whether an element may stand here. *)
StartElement(x, name) == PushNode(IF State(x) = "NAME" THEN Settled(x) ELSE x, "NAME", name)

WriteAttribute(x) == IF State(x) = "NAME" THEN x ELSE Refuse(x)

InContentOf(x) == State(x) \in ElemStates \cup {"empty"}

(* StartComment and StartCDATA. *)
StartSection(x, state, name) ==
  IF InContentOf(x) THEN PushNode(Settled(x), state, name) ELSE Refuse(x)

WriteSection(x) == IF InContentOf(x) THEN Settled(x) ELSE Refuse(x)

WritePI(x) ==
  IF InContentOf(x) THEN Settled(x)
  ELSE IF State(x) = "DTD" THEN x   \* written before the subset's bracket
  ELSE Refuse(x)

(* WriteDTDElement, WriteDTDNotation. *)
WriteDeclaration(x) == IF State(x) \in DTDStates THEN Settled(x) ELSE Refuse(x)

WriteDTDEntity(x) == IF State(x) \in DTDStates \cup {"empty"} THEN Settled(x) ELSE Refuse(x)

StartDTDAttlist(x, name) ==
  IF State(x) \in DTDStates THEN PushNode(Settled(x), "ATTL", name) ELSE Refuse(x)

(* EndElement, FullEndElement, EndCDATA, EndComment, EndDTDAttlist. *)
EndIn(x, states) == IF State(x) \in states THEN PopNode(x) ELSE Refuse(x)

(* EndDTD ends what it can, be it nothing, and does not refuse. *)
EndDTD(x) ==
  LET kept == {i \in 1 .. Len(x.nodes) : x.nodes[i].state \in ElemStates \cup {"CDATA"}}
      first == IF kept = {} THEN Len(x.nodes) + 1 ELSE CHOOSE i \in kept : \A j \in kept : i <= j
  IN [x EXCEPT !.nodes = SubSeq(@, first, Len(@))]

EndDocument(x) == [x EXCEPT !.nodes = <<>>]
=============================================================================
