--------------------------- MODULE MCElemContent ---------------------------
(* ElemContent on a small instance.  The slice of nodes starts with one    *)
(* slot and moves twice on the way to the greatest depth.                  *)
EXTENDS ElemContent
=============================================================================
