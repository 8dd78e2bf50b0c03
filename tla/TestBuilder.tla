---------------------------- MODULE TestBuilder ----------------------------
(***************************************************************************)
(* tester/ctester/testbuilder.c: expat reads a document and calls a        *)
(* handler for each piece of it; the handlers emit the commands of a test  *)
(* script that should write the document again.  The flags in xml_ctx are  *)
(* all that one call of a handler knows of another.                        *)
(*                                                                         *)
(* src is the document, as far as expat has read it:                       *)
(*   part  where in the document expat is,                                 *)
(*   open  the names of the elements that are open,                        *)
(*   cdata a CDATA section is open,                                        *)
(*   list  the element of the ATTLIST declaration read last,               *)
(*   near  nothing was read since that declaration, not even white space,  *)
(*   dtd   there was a document type declaration.                          *)
(* ctx is struct xml_ctx, script the commands no player has taken yet.     *)
(***************************************************************************)
EXTENDS Sequences, SequencesExt

CONSTANTS
  ElemNames,  \* the names of elements
  MaxOpen,    \* bound: how many elements are open at once
  Abutting    \* what may follow a list of attributes without white space between

ASSUME BuilderAssumption == MaxOpen \in Nat \ {0} /\ Abutting \subseteq {"list", "declaration", "comment", "pi"}

VARIABLES src, ctx, script

builderVars == <<src, ctx, script>>

Nameless == "noname"

Parts == {"start", "prolog", "dtd", "content", "epilog", "end"}

(* of is the element that the source declares an attribute for (an observation). *)
Command(action, kind, name, of) == [action |-> action, kind |-> kind, name |-> name, of |-> of]

Plain(action, kind) == Command(action, kind, Nameless, Nameless)

EndAttList == Plain("end", "dtdattlist")

-----------------------------------------------------------------------------
(* What expat may report next. *)

Reading == script = <<>> /\ ~src.cdata   \* bound: the player keeps up with the builder

InMisc == Reading /\ src.part \in {"start", "prolog", "epilog"}

InContent == Reading /\ src.part = "content"

InSubset == Reading /\ src.part = "dtd"

MayFollow(what) == InSubset /\ (src.near => what \in Abutting)

Past(part) == IF part = "start" THEN "prolog" ELSE part

Declared == [src EXCEPT !.near = FALSE]

-----------------------------------------------------------------------------
(* The handlers. *)

(* mutant: the list is ended but the flag stays *)
EmitKeepsFlag(commands) ==
  script' = (IF ctx.in_attlist THEN <<EndAttList>> \o commands ELSE commands) /\ UNCHANGED ctx

(* Several handlers end the attribute list that xml_attlist_decl has started. *)
Emit(commands) ==
  /\ script' = IF ctx.in_attlist THEN <<EndAttList>> \o commands ELSE commands
  /\ ctx' = [ctx EXCEPT !.in_attlist = FALSE]

(* mutant: that there is a document to end is forgotten *)
XmlDeclForgetsDoc == Reading /\ src.part = "start" /\ \E encoding \in {"utf8", "other"} :
  /\ src' = [src EXCEPT !.part = "prolog"]
  /\ script' = <<Command("start", "doc", encoding, Nameless)>>
  /\ UNCHANGED ctx

XmlDecl == Reading /\ src.part = "start" /\ \E encoding \in {"utf8", "other"} :
  /\ src' = [src EXCEPT !.part = "prolog"]
  /\ ctx' = [ctx EXCEPT !.doc = TRUE]
  /\ script' = <<Command("start", "doc", encoding, Nameless)>>

DoctypeStart == InMisc /\ src.part # "epilog" /\ ~src.dtd /\ \E name \in ElemNames :
  /\ src' = [src EXCEPT !.part = "dtd", !.dtd = TRUE]
  /\ ctx' = [ctx EXCEPT !.in_dtd = TRUE]
  /\ script' = <<Command("start", "dtd", name, Nameless)>>

DoctypeEnd == InSubset
  /\ src' = [Declared EXCEPT !.part = "prolog"]
  /\ script' = (IF ctx.in_attlist THEN <<EndAttList>> ELSE <<>>) \o <<Plain("end", "dtd")>>
  /\ ctx' = [ctx EXCEPT !.in_dtd = FALSE, !.in_attlist = FALSE]

(* mutant: an open attribute list is not looked at *)
DeclarationInList(kind) ==
  MayFollow("declaration") /\ src' = Declared /\ script' = <<Plain("write", kind)>> /\ UNCHANGED ctx

(* What the handlers of three declarations have in common. *)
Declaration(kind) == MayFollow("declaration") /\ src' = Declared /\ Emit(<<Plain("write", kind)>>)

EntityDecl == Declaration("dtdentity")

Notation == Declaration("notation")

(* It also borrows the buffer that character data is collected in, and     *)
(* gives it back.  expat may call xml_default with a "|" before it, which  *)
(* ends an open list and writes nothing: the declaration does the same.    *)
ElementDecl == Declaration("dtdelem")

(* expat reports a declaration attribute by attribute; only the first can  *)
(* follow something else than an attribute of the same element.            *)
AttlistDecl == \E name \in ElemNames :
  /\ MayFollow("list") \/ (InSubset /\ src.near /\ name = src.list)
  /\ src' = [Declared EXCEPT !.list = name, !.near = TRUE]
  /\ ctx' = [ctx EXCEPT !.in_attlist = TRUE]
  /\ script' = (IF ctx.in_attlist THEN <<>> ELSE <<Command("start", "dtdattlist", name, Nameless)>>)
               \o <<Command("write", "dtdattr", Nameless, name)>>

(* xml_default gets what has no handler: white space in the subset, and    *)
(* references to parameter entities there.                                 *)
SubsetDefault == InSubset /\ \E blank \in BOOLEAN :
  /\ src' = Declared
  /\ Emit(IF blank /\ ctx.strip_ws THEN <<>> ELSE <<Plain("write", "raw")>>)

(* Outside: white space around the root, references to entities within it. *)
Default == (InMisc \/ InContent) /\ \E blank \in BOOLEAN :
  /\ blank \/ src.part = "content"
  /\ src' = [src EXCEPT !.part = Past(src.part)]
  /\ Emit(IF blank /\ ctx.strip_ws THEN <<>> ELSE <<Plain("write", "raw")>>)

(* xml_comment does not look at in_attlist. *)
Comment == (InMisc \/ InContent \/ MayFollow("comment"))
  /\ src' = [Declared EXCEPT !.part = Past(src.part)]
  /\ script' = <<Plain("write", "comment")>> /\ UNCHANGED ctx

(* Nor does xml_pi. *)
PI == (InMisc \/ InContent \/ MayFollow("pi"))
  /\ src' = [Declared EXCEPT !.part = Past(src.part)]
  /\ script' = <<Plain("write", "pi")>> /\ UNCHANGED ctx

ElemStart == Reading /\ src.part \in {"start", "prolog", "content"} /\ Len(src.open) < MaxOpen
  /\ \E name \in ElemNames, attrs \in BOOLEAN :
       /\ src' = [src EXCEPT !.part = "content", !.open = Append(src.open, name)]
       /\ script' = <<Command("start", "elem", name, Nameless)>>
                    \o IF attrs THEN <<Plain("write", "attr")>> ELSE <<>>
       /\ UNCHANGED ctx

ElemEnd == InContent
  /\ src' = [src EXCEPT !.open = Front(src.open), !.part = IF Len(src.open) = 1 THEN "epilog" ELSE src.part]
  /\ script' = <<Plain("end", "elem")>> /\ UNCHANGED ctx

CharacterData ==
  /\ script = <<>> /\ src.part = "content" /\ UNCHANGED src
  /\ IF ctx.collect THEN UNCHANGED <<ctx, script>> ELSE Emit(<<Plain("write", "text")>>)

CDataStart == InContent
  /\ src' = [src EXCEPT !.cdata = TRUE] /\ ctx' = [ctx EXCEPT !.collect = TRUE] /\ UNCHANGED script

CDataEnd == script = <<>> /\ src.cdata
  /\ src' = [src EXCEPT !.cdata = FALSE]
  /\ script' = <<Plain("write", "cdata")>> /\ ctx' = [ctx EXCEPT !.collect = FALSE]

(* The end of main. *)
Finish == Reading /\ src.part = "epilog"
  /\ src' = [src EXCEPT !.part = "end"]
  /\ script' = (IF ctx.doc THEN <<Plain("end", "doc")>> ELSE <<>>)
  /\ UNCHANGED ctx

BuilderInit ==
  /\ src = [part |-> "start", open |-> <<>>, cdata |-> FALSE, list |-> Nameless,
            near |-> FALSE, dtd |-> FALSE]
  /\ \E strip \in BOOLEAN :
       ctx = [doc |-> FALSE, in_dtd |-> FALSE, in_attlist |-> FALSE, collect |-> FALSE, strip_ws |-> strip]
  /\ script = <<>>

Handler ==
  \/ XmlDecl \/ DoctypeStart \/ DoctypeEnd \/ EntityDecl \/ Notation \/ ElementDecl \/ AttlistDecl
  \/ SubsetDefault \/ Default \/ Comment \/ PI
  \/ ElemStart \/ ElemEnd \/ CharacterData \/ CDataStart \/ CDataEnd \/ Finish
=============================================================================
