----------------------------- MODULE Normaliser -----------------------------
(***************************************************************************)
(* tester/ctester/normaliser.c: reads a document with expat and writes it  *)
(* with libxml2's writer, so that documents that mean the same come out    *)
(* the same.  nz is struct ctx and main:                                   *)
(*   xml         the writer,                                               *)
(*   self_close  as in the code,                                           *)
(*   cap         attrs_cap,                                                *)
(*   open        for the properties: the document's open elements, the     *)
(*               innermost first, each with whether it is still empty,     *)
(*   given       for the properties: what the last handler was called with,*)
(*   wrote       what it wrote,                                            *)
(*   at          where the document is, or how main returned.              *)
(***************************************************************************)
EXTENDS LibXml

CONSTANTS
  Tags,        \* the names of elements
  AttrsCap,    \* what attrs_cap starts from, 32 in the code
  MaxAtts,     \* bound: the attributes of an element
  MaxNesting,  \* bound: open elements
  CharRefs     \* numeric references; form: as printf spells it, or in capitals or with zeros

Forms == {"printed", "capitals", "zeros", "both"}

ASSUME NormaliserAssumption ==
  /\ AttrsCap \in Nat \ {0} /\ MaxAtts \in Nat
  /\ CharRefs \subseteq [base : {"dec", "hex"}, value : Nat, digits : Nat \ {0}, form : Forms]
  /\ \A r \in CharRefs : r.base = "dec" /\ r.digits = 1 => r.value < 10

VARIABLE nz

Nothing == [is |-> "nothing"]

NormaliserIdle == [xml |-> NewTextWriter, self_close |-> FALSE, cap |-> AttrsCap, open |-> <<>>,
                   given |-> Nothing, wrote |-> Nothing, at |-> "idle"]

-----------------------------------------------------------------------------
(* The handlers; d is nz. *)

(* A turn of the loop; also the mutant that is without it. *)
GrownOnce(cap, attlen) == IF cap < attlen THEN cap * 2 ELSE cap

(* attrs_cap is doubled until the attributes have room, which is after as  *)
(* many turns as there are attributes, or before.                          *)
Grown(cap, attlen) ==
  LET after[k \in 0 .. attlen] == IF k = 0 THEN cap ELSE GrownOnce(after[k - 1], attlen)
  IN after[attlen]

(* mutant: the flag is set after the return for no attributes *)
ElemStartSetsLate(d, name, attlen) ==
  [d EXCEPT !.self_close = @ \/ attlen > 0, !.xml = StartElement(@, name), !.cap = Grown(@, attlen),
            !.wrote = [is |-> "start", name |-> name, atts |-> 0]]

(* The attributes are collected and sorted; no call writes them. *)
ElemStart(d, name, attlen) ==
  [d EXCEPT !.self_close = TRUE, !.xml = StartElement(@, name), !.cap = Grown(@, attlen),
            !.wrote = [is |-> "start", name |-> name, atts |-> 0]]

(* EndElement writes "/>" where nothing was written since the start,       *)
(* FullEndElement never does.                                              *)
ElemEnd(d) ==
  [d EXCEPT !.xml = EndIn(@, ElemStates), !.self_close = FALSE,
            !.wrote = [is |-> "end", short |-> d.self_close /\ State(d.xml) = "NAME"]]

RefLength(r) == r.digits + (IF r.base = "hex" THEN 4 ELSE 3)   \* "&#x" or "&#", and ";"

Reference(base, value, form) == [base |-> base, value |-> value, form |-> form]

(* mutant: a length that fits the hexadecimal form *)
WrittenRefLong(r) ==
  IF r.base = "dec" /\ RefLength(r) > 5 THEN Reference("hex", r.value, "printed")
  ELSE Reference(r.base, r.value, r.form)

(* ENT_NUM_HEX, the mode that main sets: a decimal reference is parsed and *)
(* printed again with %lx, a hexadecimal one is copied as it is spelt.     *)
WrittenRef(r) ==
  IF r.base = "dec" /\ RefLength(r) > 4 THEN Reference("hex", r.value, "printed")
  ELSE Reference(r.base, r.value, r.form)

(* xml_default: all that is not a tag is written as it is, or rewritten. *)
Default(d, piece) == [d EXCEPT !.self_close = FALSE, !.xml = WriteRaw(@), !.wrote = piece]

-----------------------------------------------------------------------------
(* main, and expat: a prolog, one element with what is in it, an epilog. *)

NowFilled(open) == IF open = <<>> THEN <<>> ELSE <<[open[1] EXCEPT !.empty = FALSE]>> \o Tail(open)

StartNormaliser == nz = NormaliserIdle /\ nz' = [nz EXCEPT !.at = "prolog"]

ReadStart ==
  /\ nz.at = "prolog" \/ (nz.at = "content" /\ Len(nz.open) < MaxNesting)
  /\ \E name \in Tags, attlen \in 0 .. MaxAtts :
       nz' = [ElemStart(nz, name, attlen) EXCEPT
                !.open = <<[name |-> name, empty |-> TRUE]>> \o NowFilled(@),
                !.given = [is |-> "start", name |-> name, atts |-> attlen], !.at = "content"]

ReadEnd == nz.at = "content"
  /\ nz' = [ElemEnd(nz) EXCEPT !.open = Tail(@), !.given = [is |-> "end", empty |-> nz.open[1].empty],
                               !.at = IF Len(nz.open) = 1 THEN "epilog" ELSE @]

(* Text, a comment, an instruction, a declaration, a section. *)
ReadOther == nz.at \in {"prolog", "content", "epilog"}
  /\ nz' = [Default(nz, Nothing) EXCEPT !.open = NowFilled(@), !.given = Nothing]

ReadRef == nz.at = "content"
  /\ \E r \in CharRefs :
       nz' = [Default(nz, [is |-> "ref", as |-> WrittenRef(r)]) EXCEPT
                !.open = NowFilled(@), !.given = [is |-> "ref", ref |-> r]]

(* Errors of expat, unknown encodings among them, come at any byte. *)
ReadFails == nz.at \in {"prolog", "content", "epilog"} /\ nz' = [nz EXCEPT !.at = "failed"]

ReadDone == nz.at = "epilog" /\ nz' = [nz EXCEPT !.at = "done"]

NormaliserNext == StartNormaliser \/ ReadStart \/ ReadEnd \/ ReadOther \/ ReadRef \/ ReadFails \/ ReadDone

NormaliserSpec == nz = NormaliserIdle /\ [][NormaliserNext]_nz

-----------------------------------------------------------------------------
(* Properties. *)

(* The program keeps its type: the array holds the attributes it is given, *)
(* and libxml2 refuses nothing and has open what the document has.         *)
NormaliserTypeOK ==
  /\ nz.at \in {"idle", "prolog", "content", "epilog", "done", "failed"} /\ nz.self_close \in BOOLEAN
  /\ nz.given.is = "start" => nz.given.atts <= nz.cap
  /\ nz.xml.ok /\ [i \in DOMAIN nz.xml.nodes |-> nz.xml.nodes[i].name] = [i \in DOMAIN nz.open |-> nz.open[i].name]

(* An element is written as "<a/>" if and only if nothing is in it, whatever*)
(* form it had and whatever elements ended before: one flag is kept for    *)
(* all levels, and libxml2 has a state of its own.                         *)
ShortIffEmpty == nz.wrote.is = "end" => (nz.wrote.short <=> nz.given.empty)

(* "Ensures numeric entities all have the same style" (normaliser.c:5): a   *)
(* reference is written in hexadecimal and to the same character.  One     *)
(* that was decimal is written as printf does, so two of them to one       *)
(* character come out alike, zeros or not; but "&#9;", a digit with none   *)
(* before it, stays decimal.  One that was hexadecimal stays as it is      *)
(* spelt, so two of those may still differ.                                *)
DecimalsAlike ==
  nz.wrote.is = "ref" =>
    LET given   == nz.given.ref
        written == nz.wrote.as
    IN /\ written.value = given.value
       /\ written.base = "hex" \/ (given.base = "dec" /\ given.value < 10 /\ given.digits = 1)
       /\ written.base = "hex" /\ given.base = "dec" => written.form = "printed"
       /\ given.base = "hex" => written.form = given.form

(* "Sorts attributes alphabetically" (normaliser.c:4): they are all there. *)
AttributesKept == nz.wrote.is = "start" => nz.wrote.atts = nz.given.atts
=============================================================================
