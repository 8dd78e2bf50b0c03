------------------------------ MODULE MCWriter ------------------------------
(* Writer on a small instance, for headers that are torn: by an attribute  *)
(* list whose content is refused half way, or by a namespace that is       *)
(* refused.                                                                *)
EXTENDS Writer
=============================================================================
