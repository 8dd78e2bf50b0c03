----------------------------- MODULE MCIndenter -----------------------------
(* Indenter on a small instance: deep enough for an element in an element  *)
(* in a document, and for an attribute list in a DTD in a document.        *)
EXTENDS Indenter
=============================================================================
