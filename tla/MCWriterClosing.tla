-------------------------- MODULE MCWriterClosing --------------------------
(* Writer and its closing user on a small instance: two names, so that an  *)
(* end can be asked for under the wrong one, content that is refused, and  *)
(* a stack deep enough for a document that holds a DTD with an attribute   *)
(* list, or nested elements around a comment.                              *)
EXTENDS WriterClosing
=============================================================================
