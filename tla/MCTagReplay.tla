---------------------------- MODULE MCTagReplay ----------------------------
(* Two prefixes, two names, two URIs: a prefix can be declared twice, and  *)
(* with two URIs, and be used twice.                                       *)
EXTENDS TagReplay
=============================================================================
