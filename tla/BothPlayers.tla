---------------------------- MODULE BothPlayers ----------------------------
(***************************************************************************)
(* testbuilder's script goes to "either of our two test binaries"          *)
(* (tester/README.md:70): gotester, as in Replay, and ctester.  They read  *)
(* the same commands and know nothing of each other.                       *)
(***************************************************************************)
EXTENDS Replay

VARIABLE crun

bothVars == <<src, ctx, script, run, crun>>

C == INSTANCE CTester WITH CNames <- ElemNames \cup {Nameless}, MaxEnds <- MaxOpen + 2, c <- crun, last <- <<>>

(* ctester plays a command: the name of a document is its encoding, which  *)
(* libxml2 knows if expat did.                                             *)
PlayC == crun' = C!Exec(crun, Head(script).action, Head(script).kind, Head(script).name)

BothInit == Init /\ crun = C!NewRun

BothPlay == Play /\ PlayC

BothBuild == Build /\ UNCHANGED crun

(* Each flushes when its input has ended. *)
FlushC == src.part = "end" /\ script = <<>> /\ crun.outcome = "nil"
  /\ crun' = C!Deinit(crun, "done") /\ UNCHANGED vars

BothFlush == Flush /\ UNCHANGED crun

BothNext == BothBuild \/ BothPlay \/ BothFlush \/ FlushC

BothSpec == BothInit /\ [][BothNext]_bothVars

-----------------------------------------------------------------------------
(* Properties. *)

(* ctester takes every command but an instruction in a subset that has     *)
(* begun (which gotester refuses too) and frees once what it is to end,    *)
(* whatever is left on its list when the script is over.                   *)
CScriptAccepted ==
  /\ crun.outcome \in {"nil", "done", "failed"}
  /\ crun.outcome = "failed" => C!State(crun.xml) = "DTD_TEXT" /\ run.err \in {"pi", "encoding"}

(* ctester chooses how to write a comment by its own flag, set when a DTD  *)
(* starts and cleared when it ends: it follows the document.               *)
InDtdFollows == crun.outcome = "nil" /\ script = <<>> => (crun.in_dtd <=> src.part = "dtd")

(* libxml2 has no node for the document. *)
BelowDoc ==
  LET inDoc == run.w.rd.top >= 0 /\ run.w.rd.cell[0].kind = "doc"
  IN SubSeq(OpenInOutput, IF inDoc THEN 2 ELSE 1, Len(OpenInOutput))

(* When both players have taken all commands so far, they have the same    *)
(* nodes open: their outputs can be compared (run.sh compares them).       *)
PlayersAgree ==
  crun.outcome = "nil" /\ run.err = "nil" => C!OpenNodes(crun) = BelowDoc
=============================================================================
