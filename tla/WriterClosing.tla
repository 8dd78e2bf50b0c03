--------------------------- MODULE WriterClosing ---------------------------
(***************************************************************************)
(* A Writer whose user, at some point, only wants to get out: from then on *)
(* it calls EndAll until EndAll has nothing left to end, ignoring errors,  *)
(* as a deferred EndAllFlush in a loop would.                              *)
(***************************************************************************)
EXTENDS Writer

VARIABLE closing   \* the user makes no call but EndAll any more

closingVars == <<w, call, clean, closing>>

ClosingInit == Init /\ closing = FALSE

Working == ~closing /\ Next /\ UNCHANGED closing

GiveUp == ~closing /\ call = Idle /\ closing' = TRUE /\ UNCHANGED vars

EndAllAgain == closing /\ w.cur >= 0 /\ EndAll /\ UNCHANGED closing

FinishCall == closing /\ (Unwind \/ Finish) /\ UNCHANGED closing

ClosingNext == Working \/ GiveUp \/ EndAllAgain \/ FinishCall

(* A call that was made runs to its end, and a user that is closing keeps  *)
(* calling: both run in the user's own goroutine.                          *)
ClosingFairness == WF_closingVars(EndAllAgain) /\ WF_closingVars(FinishCall)

ClosingSpec == ClosingInit /\ [][ClosingNext]_closingVars /\ ClosingFairness

(* Whatever was started and whatever failed, a user that keeps calling     *)
(* EndAll empties the stack.  It rests on node.opened advancing the state  *)
(* before it writes: a node whose content is refused is refused once.      *)
ClosingEmptiesStack == closing ~> (w.cur = -1 /\ call = Idle)

(* EndAll returns an error only for a node whose content it had to drop,   *)
(* or whose Attrs or namespaces were refused half way (and then the output *)
(* is torn): that node is then the current one and is open no longer, so   *)
(* the next EndAll gets past it.                                           *)
EndAllStopsAtDropped ==
  [][closing /\ call.op = "EndAll" /\ w'.err # "nil"
     => /\ w'.err = "dropped" \/ ~clean'
        /\ w'.cur = w.cur /\ Top(w).state = "open" /\ Top(w').state = "opened"]_closingVars
=============================================================================
