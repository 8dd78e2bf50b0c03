----------------------------- MODULE XmlReader -----------------------------
(***************************************************************************)
(* An observer: a reader that is fed the lexemes the writer emits and      *)
(* keeps the stack of constructs a parser of the output would have open.   *)
(* It knows the grammar of XML and nothing of the writer.  Output may be a *)
(* fragment, so anything is accepted while nothing is open.                *)
(*                                                                         *)
(* A reader is a record                                                    *)
(*   ok    FALSE once a lexeme could not be accepted,                      *)
(*   top   the index of the innermost open construct, -1 if there is none, *)
(*   cell  the open constructs; tag says that the construct's header is    *)
(*         still being read ("<a", "<!DOCTYPE a", "<!ATTLIST a").          *)
(***************************************************************************)
EXTENDS Integers, NodeKinds

CONSTANTS
  MaxDepth,  \* how many constructs may be open at once
  Names      \* the names elements, DTDs and attribute lists may have

ASSUME MaxDepthAssumption == MaxDepth \in Nat

NoName == "noname"

Slots == 0 .. MaxDepth - 1

Cells == [kind : {"none"} \cup Startables, name : Names \cup {NoName}, tag : BOOLEAN]

NoCell == [kind |-> "none", name |-> NoName, tag |-> FALSE]

EmptyCells == [s \in Slots |-> NoCell]

ReaderAtStart == [ok |-> TRUE, top |-> -1, cell |-> EmptyCells]

(* A reader that has met a lexeme it could not accept reads no further. *)
Lost == [ok |-> FALSE, top |-> -1, cell |-> EmptyCells]

(* What may occur inside the header of a construct. *)
InTag(kind) ==
  CASE kind = "elem"       -> {"attr"}
    [] kind = "dtdattlist" -> {"dtdattr"}
    [] OTHER               -> {}

(* What may occur in the body of a construct. *)
InBody(kind) ==
  CASE kind = "elem"    -> {"elem", "comment", "cdata", "pi", "text"}
    [] kind = "doc"     -> {"elem", "dtd", "comment", "pi"}
    [] kind = "dtd"     -> {"comment", "dtdattlist", "dtdelem", "dtdentity", "notation", "pi"}
    [] kind = "comment" -> {"commentcontent"}
    [] kind = "cdata"   -> {"cdatacontent"}
    [] OTHER            -> {}

Admits(r, kind) ==
  \/ r.top = -1
  \/ LET c == r.cell[r.top] IN kind \in IF c.tag THEN InTag(c.kind) ELSE InBody(c.kind)

TopIs(r, kind, tag) == r.top >= 0 /\ r.cell[r.top].kind = kind /\ r.cell[r.top].tag = tag

Descend(r, kind, name, tag) ==
  [r EXCEPT !.top = r.top + 1,
            !.cell = [r.cell EXCEPT ![r.top + 1] = [kind |-> kind, name |-> name, tag |-> tag]]]

Ascend(r) == [r EXCEPT !.top = r.top - 1, !.cell = [r.cell EXCEPT ![r.top] = NoCell]]

EndOfTag(r) == [r EXCEPT !.cell = [r.cell EXCEPT ![r.top] =
                  [kind |-> r.cell[r.top].kind, name |-> r.cell[r.top].name, tag |-> FALSE]]]

(* "<name", "<!DOCTYPE name", "<!ATTLIST name", "<!--", "<![CDATA[", "<?xml ... ?>" *)
ReadOpen(r, kind, name) ==
  IF r.ok /\ r.top + 1 \in Slots /\ Admits(r, kind)
  THEN Descend(r, kind, name, kind \in NamedKinds)
  ELSE Lost

(* ">": the end of a start tag, of a DTD without a subset, or of an ATTLIST. *)
ReadGt(r) ==
  IF r.ok /\ TopIs(r, "elem", TRUE) THEN EndOfTag(r)
  ELSE IF r.ok /\ (TopIs(r, "dtd", TRUE) \/ TopIs(r, "dtdattlist", TRUE)) THEN Ascend(r)
  ELSE Lost

(* "/>" *)
ReadEmptyTagEnd(r) == IF r.ok /\ TopIs(r, "elem", TRUE) THEN Ascend(r) ELSE Lost

(* " [" *)
ReadBracket(r) == IF r.ok /\ TopIs(r, "dtd", TRUE) THEN EndOfTag(r) ELSE Lost

(* "</name>", "-->", "]]>", "]>" and the end of the document entity. *)
ReadClose(r, kind, name) ==
  IF r.ok /\ TopIs(r, kind, FALSE) /\ r.cell[r.top].name = name THEN Ascend(r) ELSE Lost

(* Character data, an attribute, a declaration, a processing instruction.  *)
(* Raw text is opaque to the reader: whoever writes it answers for it.     *)
ReadLeaf(r, kind) == IF r.ok /\ (kind = "raw" \/ Admits(r, kind)) THEN r ELSE Lost
=============================================================================
