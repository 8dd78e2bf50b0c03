------------------------------- MODULE Replay -------------------------------
(***************************************************************************)
(* testbuilder | gotester: a document is turned into a script and the      *)
(* script into calls of a Writer (tester/gotester/xwrunner.go), which      *)
(* should "rebuild the same XML as we started with" (tester/README.md:71). *)
(*                                                                         *)
(* gotester reads its script to the end before it makes the first call.    *)
(* Nothing flows back to the builder, so the model lets it make each call  *)
(* as soon as the command is there.                                        *)
(*                                                                         *)
(* run is the XWRunner:                                                    *)
(*   w       its Writer (Writer.tla), with the reader of the output,       *)
(*   active  the Writer was made,                                          *)
(*   err     "nil", or why Exec returned: the "encoding" of the document,  *)
(*           a player that is not "active", an instruction ("pi") that the *)
(*           Writer refused, or the Writer's outcome.                      *)
(***************************************************************************)
EXTENDS TestBuilder, Integers

CONSTANT MaxDepth    \* bound: how many nodes are on the Writer's stack

(* There is room for a document, its elements and a comment in them. *)
ASSUME ReplayAssumption == MaxDepth \in Nat /\ MaxDepth >= MaxOpen + 2

VARIABLE run

vars == <<src, ctx, script, run>>

W == INSTANCE Writer WITH Names <- ElemNames \cup {"utf8", "other"}, Bodies <- {"none", "ok"},
       w <- run.w, call <- run.w, clean <- TRUE

NewWriter == [node |-> [s \in W!Slots |-> W!NoNode], cur |-> -1, rd |-> W!ReaderAtStart, err |-> "nil"]

Parents(kind) ==
  CASE kind = "doc"                                     -> {"none"}
    [] kind = "dtd"                                     -> {"none", "doc"}
    [] kind \in {"elem", "pi"}                          -> {"none", "doc", "elem"}
    [] kind = "comment"                                 -> {"none", "doc", "dtd", "elem"}
    [] kind \in {"text", "cdata", "attr"}               -> {"none", "elem"}
    [] kind = "dtdattr"                                 -> {"none", "dtdattlist"}
    [] kind \in {"dtdattlist", "dtdelem", "dtdentity", "notation"} -> {"none", "dtd"}

-----------------------------------------------------------------------------
(* The players of a command: writers, starters and enders. *)

Started(v, kind, name, body) ==
  W!StartNode(v, Parents(kind), W!NewNode(kind, name, body, FALSE), "none")

Then(v, u) == IF v.err = "nil" THEN u ELSE v

(* An attribute is refused for its parent only: the names come from a      *)
(* document.  Its namespace is TagReplay's.                                *)
WriteAttr(v) ==
  IF ~W!CheckParent(v, Parents("attr")) THEN W!Outcome(v, "rejected")
  ELSE W!Wrote(v, W!ReadLeaf(v.rd, "attr"))

(* A "raw" has its parent opened first: the scripts say next="true". *)
WriteRaw(v) ==
  LET n == W!NextChild(v) IN Then(n, W!Wrote(n, W!ReadLeaf(n.rd, "raw")))

(* WriteComment and WriteCData: Start and End. *)
WriteWhole(v, kind) ==
  LET n == Started(v, kind, Nameless, "ok") IN Then(n, W!EndKind(n, kind, Nameless))

DoWrite(v, c) ==
  CASE c.kind = "attr"                  -> WriteAttr(v)
    [] c.kind = "raw"                   -> WriteRaw(v)
    [] c.kind \in {"comment", "cdata"}  -> WriteWhole(v, c.kind)
    [] OTHER                            -> W!WriteLeaf(v, Parents(c.kind), c.kind, "none")

(* mutant: the encoding of a document is taken for its name *)
DoStartNamesAll(v, c) == Started(v, c.kind, c.name, "none")

DoStart(v, c) == Started(v, c.kind, IF c.kind = "doc" THEN Nameless ELSE c.name, "none")

(* Writer.EndDoc: pops down to the document, then the document. *)
EndDoc(v) ==
  LET Popped[i \in 0 .. MaxDepth] ==
        IF i = 0 THEN v
        ELSE IF Popped[i - 1].err = "nil" /\ Popped[i - 1].cur > 0 THEN W!Pop(Popped[i - 1])
        ELSE Popped[i - 1]
      p == Popped[MaxDepth]
  IN Then(p, W!EndKind(p, "doc", Nameless))

DoEnd(v, c) == IF c.kind = "doc" THEN EndDoc(v) ELSE W!EndKind(v, c.kind, Nameless)

Played(v, c) ==
  CASE c.action = "write" -> DoWrite(v, c)
    [] c.action = "start" -> DoStart(v, c)
    [] c.action = "end"   -> DoEnd(v, c)

(* The Writer is made for the first start or write, in the document's      *)
(* encoding if that is one the player knows.                               *)
Unsupported(c) == ~run.active /\ c.action = "start" /\ c.kind = "doc" /\ c.name = "other"

(* Exec stops at the first error. *)
Exec(c) ==
  IF run.err # "nil" THEN run
  ELSE IF Unsupported(c) THEN [run EXCEPT !.err = "encoding"]
  ELSE IF c.action = "end" /\ ~run.active THEN [run EXCEPT !.err = "active"]
  ELSE LET v == Played(run.w, c)
       IN [w |-> v, active |-> TRUE, err |-> IF v.err = "rejected" /\ c.kind = "pi" THEN "pi" ELSE v.err]

Play == script # <<>> /\ run' = Exec(Head(script)) /\ script' = Tail(script) /\ UNCHANGED <<src, ctx>>

(* flush, after the last command. *)
Flush == src.part = "end" /\ script = <<>> /\ run.active /\ run.err = "nil"
  /\ run' = [run EXCEPT !.active = FALSE] /\ UNCHANGED <<src, ctx, script>>

Init == BuilderInit /\ run = [w |-> NewWriter, active |-> FALSE, err |-> "nil"]

Build == Handler /\ UNCHANGED run

Next == Build \/ Play \/ Flush

Spec == Init /\ [][Next]_vars

-----------------------------------------------------------------------------
(* Properties. *)

(* Every part of the state has its type; the Writer's slots above the      *)
(* current node are unused, and only nodes of three kinds have a name.     *)
TypeOK ==
  /\ src \in [part : Parts, open : Seq(ElemNames), cdata : BOOLEAN, list : ElemNames \cup {Nameless},
              near : BOOLEAN, dtd : BOOLEAN]
  /\ ctx \in [doc : BOOLEAN, in_dtd : BOOLEAN, in_attlist : BOOLEAN, collect : BOOLEAN, strip_ws : BOOLEAN]
  /\ Len(script) <= 2
  /\ run.active \in BOOLEAN /\ run.w.rd \in W!Readers
  /\ \A i \in W!Slots :
       /\ (run.w.node[i] = W!NoNode) <=> (i > run.w.cur)
       /\ run.w.node[i].name # Nameless => run.w.node[i].kind \in W!NamedKinds
  /\ run.err \in {"nil", "encoding", "active", "pi", "rejected"} \* "dropped" and "failed" never

(* The Writer takes every command the builder emits: flags that lag behind *)
(* the document would have it refuse a node where it may not stand.  It    *)
(* stops for an encoding it does not know, and for an instruction in a     *)
(* subset, which XML allows and the Writer does not (nodes.go:362).        *)
ScriptAccepted ==
  /\ run.err \in {"nil", "encoding", "pi"}
  /\ run.err = "pi" => run.w.cur >= 0 /\ run.w.node[run.w.cur].kind = "dtd"

(* When the builder's commands are played, what is open in the output is   *)
(* what is open in the document: its elements, by name and in order, or    *)
(* its DTD with the list of attributes that the builder thinks is open.    *)
OpenInOutput == [i \in 1 .. run.w.rd.top + 1 |->
  IF run.w.rd.cell[i - 1].kind = "elem" THEN run.w.rd.cell[i - 1].name ELSE run.w.rd.cell[i - 1].kind]

OpenInDocument ==
  (IF ctx.doc /\ src.part # "end" THEN <<"doc">> ELSE <<>>)
  \o (IF src.part = "dtd" THEN <<"dtd">> ELSE <<>>)
  \o (IF ctx.in_attlist THEN <<"dtdattlist">> ELSE <<>>)
  \o src.open

NestingAgrees ==
  script = <<>> /\ run.err = "nil" => run.w.rd.ok /\ OpenInOutput = OpenInDocument

(* An attribute is declared for the element that the document declares it  *)
(* for: a script rebuilds "the same XML as we started with".               *)
AttrsUnderTheirElement ==
  [][LET played == script # <<>> /\ script' = Tail(script) /\ run.err = "nil"
         top == run'.w.node[run'.w.cur]
     IN played /\ Head(script).kind = "dtdattr" =>
          top.kind = "dtdattlist" /\ top.name = Head(script).of]_vars
=============================================================================
