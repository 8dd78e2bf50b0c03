----------------------------- MODULE NodeKinds -----------------------------
(***************************************************************************)
(* The node kinds of the writer (nodekind.go).  A kind is one of the       *)
(* strings below; "none" is NoNode, the kind of "no node on the stack".    *)
(***************************************************************************)

(* Kinds that can be put on the writer's stack with Start. *)
Startables == {"comment", "cdata", "doc", "dtd", "dtdattlist", "elem"}

(* Kinds that are written in one call and never stay on the stack. *)
Leaves == {"attr", "cdatacontent", "commentcontent", "dtdattr", "dtdelem",
           "dtdentity", "notation", "pi", "raw", "text"}

NodeKind == {"none"} \cup Startables \cup Leaves

(* Kinds whose node carries a name that End(kind, name) can be asked for. *)
NamedKinds == {"elem", "dtd", "dtdattlist"}
=============================================================================
