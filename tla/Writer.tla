------------------------------- MODULE Writer -------------------------------
(***************************************************************************)
(* The Writer of writer.go with the node life cycle of node.go and the     *)
(* kinds of elem.go, nodes.go and dtd.go: the stack of started nodes, the  *)
(* states open/opened of each, what every call writes, and what every call *)
(* leaves behind when it fails.  Enforce is TRUE, there is no Indenter,    *)
(* the sink accepts everything, and Elem.Content is empty (ElemContent.tla *)
(* is about Content).                                                      *)
(*                                                                         *)
(* What is written is not kept: it is fed to an XmlReader, so that the     *)
(* state stays small and the properties can compare the writer's stack     *)
(* with what a parser of the output has open.                              *)
(*                                                                         *)
(* A call that unwinds the stack does so one node per step; no other call  *)
(* can begin before it returns (the Writer has a single user at a time).   *)
(*                                                                         *)
(* w is the Writer:                                                        *)
(*   node  the node slots; a slot above cur holds NoNode,                  *)
(*   cur   Writer.current, the index of the current node or -1,            *)
(*   rd    the observer,                                                   *)
(*   err   the outcome of the last call:                                   *)
(*           "nil"       no error,                                         *)
(*           "rejected"  an error found before anything was written,       *)
(*           "dropped"   the content given to Start was refused when the   *)
(*                       node was opened: nothing of it was written,       *)
(*           "failed"    an error after something was written or pushed,   *)
(*           "swallowed" no error, although opening the parent has failed. *)
(***************************************************************************)
EXTENDS XmlReader

CONSTANT
  Bodies     \* the contents Start may be given: see Node.body

ASSUME BodiesAssumption == "none" \in Bodies /\ Bodies \subseteq {"none", "ok", "bad", "torn"}

VARIABLES
  w,         \* the Writer
  call,      \* the unwinding call in progress, or Idle
  clean      \* no call has failed, said or unsaid, and no attribute was late

vars == <<w, call, clean>>

(***************************************************************************)
(* A node on the stack.  kids stands for children > 0, the only thing the  *)
(* code asks of children.  body is the Content of a Comment or CData and   *)
(* the Attrs of a DTDAttList, written when the node is opened:             *)
(*   "none"  empty,              "ok"    valid,                            *)
(*   "bad"   refused before a byte of it is written ("--", "]]>", a name), *)
(*   "torn"  refused half way (a #REQUIRED DTDAttr that has a Value).      *)
(* ns is what an Elem's namespaces have still to write into its start tag: *)
(*   "none"  nothing,  "good"  declarations whose prefixes are names,      *)
(*   "bad"   among them a declaration that will be refused.                *)
(***************************************************************************)
Pending == {"none", "good", "bad"}

Node == [kind : Startables, state : {"open", "opened"}, kids : BOOLEAN, full : BOOLEAN,
         name : Names \cup {NoName}, body : Bodies, ns : Pending]

NoNode == [kind |-> "none", state |-> "open", kids |-> FALSE, full |-> FALSE,
           name |-> NoName, body |-> "none", ns |-> "none"]

NewNode(kind, name, body, full) ==
  [kind |-> kind, state |-> "open", kids |-> FALSE, full |-> full, name |-> name,
   body |-> body, ns |-> "none"]

NewElem(name, full, ns) == [NewNode("elem", name, "none", full) EXCEPT !.ns = ns]

Errors == {"nil", "rejected", "dropped", "failed", "swallowed"}

(* The outcomes after which the output is torn. *)
Tearing == {"failed", "swallowed"}

Readers == [ok : BOOLEAN, top : -1 .. MaxDepth - 1, cell : [Slots -> Cells]]

Idle == [op |-> "idle", limit |-> 0, kind |-> "none", name |-> NoName, from |-> -1]

(* from is where an unwinding call found the stack: the code keeps no such *)
(* thing, the properties ask for it.                                       *)
Calls == [op : {"idle", "EndAll", "EndDoc", "EndToDepth", "Write"}, limit : 0 .. MaxDepth,
          kind : {"none"} \cup Startables, name : Names \cup {NoName}, from : -1 .. MaxDepth - 1]

-----------------------------------------------------------------------------
(* The current node and its replacement. *)

Top(v) == v.node[v.cur]

SetTop(v, n) == [v EXCEPT !.node = [v.node EXCEPT ![v.cur] = n]]

Wrote(v, rd) == [v EXCEPT !.rd = rd]

Outcome(v, e) == [v EXCEPT !.err = e]

CurrentKind(v) == IF v.cur < 0 THEN "none" ELSE Top(v).kind

CheckParent(v, parents) == CurrentKind(v) \in parents

-----------------------------------------------------------------------------
(* node.opened: the node's header is finished, by kind.  The state is      *)
(* "opened" from here on whether or not the content and the namespaces     *)
(* could be written: they are not asked for again.                         *)

MarkOpened(v) == SetTop(v, [Top(v) EXCEPT !.state = "opened", !.ns = "none"])

(* The reader of a start tag into which the namespaces are written. *)
Declared(v) == IF Top(v).ns = "none" THEN v.rd ELSE ReadLeaf(v.rd, "attr")

(* mutant: the short form is chosen without a look at Full *)
OpenedElemIgnoresFull(v) ==
  IF Top(v).ns = "bad" THEN Outcome(MarkOpened(v), "failed")
  ELSE IF Top(v).kids THEN Wrote(MarkOpened(v), ReadGt(Declared(v)))
  ELSE Wrote(MarkOpened(v), ReadEmptyTagEnd(Declared(v)))

(* A namespace that is refused leaves the tag without its end. *)
OpenedElem(v) ==
  IF Top(v).ns = "bad" THEN Outcome(MarkOpened(v), "failed")
  ELSE IF Top(v).kids \/ Top(v).full THEN Wrote(MarkOpened(v), ReadGt(Declared(v)))
  ELSE Wrote(MarkOpened(v), ReadEmptyTagEnd(Declared(v)))

OpenedDTD(v) ==
  IF Top(v).kids THEN Wrote(MarkOpened(v), ReadBracket(v.rd)) ELSE MarkOpened(v)

(* mutant: a node whose content is refused stays open *)
OpenedWithBodyStaysOpen(v, leaf) ==
  CASE Top(v).body = "none" -> MarkOpened(v)
    [] Top(v).body = "ok"   ->
         Wrote(SetTop(v, [Top(v) EXCEPT !.state = "opened", !.kids = TRUE, !.body = "none"]),
               ReadLeaf(v.rd, leaf))
    [] Top(v).body \in {"bad", "torn"} -> Outcome(v, "dropped")

(* Content and Attrs are written by the calls that write such children one *)
(* at a time, so they count as children of the node that is being opened.  *)
OpenedWithBody(v, leaf) ==
  CASE Top(v).body = "none" -> MarkOpened(v)
    [] Top(v).body = "ok"   ->
         Wrote(SetTop(v, [Top(v) EXCEPT !.state = "opened", !.kids = TRUE, !.body = "none"]),
               ReadLeaf(v.rd, leaf))
    [] Top(v).body = "bad"  -> Outcome(MarkOpened(v), "dropped")
    [] Top(v).body = "torn" ->
         Outcome(Wrote(SetTop(v, [Top(v) EXCEPT !.state = "opened", !.kids = TRUE]), Lost), "failed")

Opened(v) ==
  CASE Top(v).kind = "elem"       -> OpenedElem(v)
    [] Top(v).kind = "dtd"        -> OpenedDTD(v)
    [] Top(v).kind = "comment"    -> OpenedWithBody(v, "commentcontent")
    [] Top(v).kind = "cdata"      -> OpenedWithBody(v, "cdatacontent")
    [] Top(v).kind = "dtdattlist" -> OpenedWithBody(v, "dtdattr")
    [] Top(v).kind = "doc"        -> MarkOpened(v)

(* Writer.Next: the current node gets a child, so it must be opened. *)
Counted(v) == SetTop(v, [Top(v) EXCEPT !.kids = TRUE])

(* mutant: the parent is counted but left open *)
NextChildCountsOnly(v) == IF v.cur < 0 THEN v ELSE Counted(v)

NextChild(v) ==
  IF v.cur < 0 THEN v
  ELSE IF Top(v).state = "open" THEN Opened(Counted(v))
  ELSE Counted(v)

-----------------------------------------------------------------------------
(* Start: check the parent, open it, push, and write the node's header.    *)
(* The node is on the stack before its header is checked: fault says where *)
(* that check fails ("header": before anything is written, "attrs": after  *)
(* the name, "decl": inside an XML declaration).                           *)

Push(v, n) == [v EXCEPT !.cur = v.cur + 1, !.node = [v.node EXCEPT ![v.cur + 1] = n]]

OpenNode(v, fault) ==
  CASE fault = "none"   -> Wrote(v, ReadOpen(v.rd, Top(v).kind, Top(v).name))
    [] fault = "header" -> Outcome(v, "failed")
    [] fault = "attrs"  -> Outcome(Wrote(v, ReadOpen(v.rd, Top(v).kind, Top(v).name)), "failed")
    [] fault = "decl"   -> Outcome(Wrote(v, Lost), "failed")

StartNode(v, parents, n, fault) ==
  IF ~CheckParent(v, parents) THEN Outcome(v, "rejected")
  ELSE IF NextChild(v).err = "nil" THEN OpenNode(Push(NextChild(v), n), fault)
  ELSE NextChild(v)

-----------------------------------------------------------------------------
(* Leaves: check, open the parent, write.  writeBeginNext ignores the      *)
(* error of Next: the leaf is written and nil is returned although content *)
(* was dropped, and although the parent's header was torn ("swallowed").   *)

(* mutant: the parent is checked after it was opened *)
WriteLeafChecksLate(v, parents, leaf, fault) ==
  IF ~CheckParent(v, parents) \/ fault = "early" THEN Outcome(NextChild(v), "rejected")
  ELSE IF fault = "late" THEN Outcome(Wrote(NextChild(v), Lost), "failed")
  ELSE IF NextChild(v).err = "failed" THEN Outcome(Wrote(NextChild(v), Lost), "swallowed")
  ELSE Outcome(Wrote(NextChild(v), ReadLeaf(NextChild(v).rd, leaf)), "nil")

WriteLeaf(v, parents, leaf, fault) ==
  IF ~CheckParent(v, parents) \/ fault = "early" THEN Outcome(v, "rejected")
  ELSE IF fault = "late" THEN Outcome(Wrote(NextChild(v), Lost), "failed")
  ELSE IF NextChild(v).err = "failed" THEN Outcome(Wrote(NextChild(v), Lost), "swallowed")
  ELSE Outcome(Wrote(NextChild(v), ReadLeaf(NextChild(v).rd, leaf)), "nil")

-----------------------------------------------------------------------------
(* pop and node.end. *)

(* mutant: current is not decremented *)
DropForgetsCurrent(v) == [v EXCEPT !.node = [v.node EXCEPT ![v.cur] = NoNode]]

Drop(v) == [v EXCEPT !.cur = v.cur - 1, !.node = [v.node EXCEPT ![v.cur] = NoNode]]

(* The lexeme that ends a node; prev is the state it was in when its end was asked for. *)
Ended(v, prev) ==
  CASE Top(v).kind = "elem" ->
         IF prev # "open" \/ Top(v).full \/ Top(v).kids
         THEN Wrote(v, ReadClose(v.rd, "elem", Top(v).name)) ELSE v
    [] Top(v).kind = "dtd" ->
         IF Top(v).kids THEN Wrote(v, ReadClose(v.rd, "dtd", Top(v).name))
         ELSE Wrote(v, ReadGt(v.rd))
    [] Top(v).kind = "dtdattlist" -> Wrote(v, ReadGt(v.rd))
    [] Top(v).kind \in {"comment", "cdata", "doc"} ->
         Wrote(v, ReadClose(v.rd, Top(v).kind, NoName))

OpenedForEnd(v) == IF Top(v).state = "open" THEN Opened(v) ELSE v

EndNode(v) ==
  IF OpenedForEnd(v).err = "nil"
  THEN Drop(Ended(OpenedForEnd(v), Top(v).state))
  ELSE OpenedForEnd(v)

Pop(v) == IF v.cur < 0 THEN Outcome(v, "rejected") ELSE EndNode(v)

NameMatches(v, kind, name) ==
  name # NoName => kind \in NamedKinds /\ Top(v).kind = kind /\ Top(v).name = name

(* Writer.End *)
EndKind(v, kind, name) ==
  IF v.cur < 0 THEN Outcome(v, "rejected")
  ELSE IF ~NameMatches(v, kind, name) \/ Top(v).kind # kind THEN Outcome(v, "rejected")
  ELSE EndNode(v)

-----------------------------------------------------------------------------
(* The calls. *)

Fresh == [w EXCEPT !.err = "nil"]

(* A call computes v and then returns, or goes on unwinding.  The observer *)
(* reads nothing past the first call that failed.                          *)
Does(v, next) ==
  /\ w' = IF v.err \in Tearing THEN [v EXCEPT !.rd = Lost] ELSE v
  /\ call' = IF v.err = "nil" THEN next ELSE Idle
  /\ clean' = (clean /\ v.err \notin Tearing)

Returns(v) == call = Idle /\ Does(v, Idle)

CanPush == w.cur + 1 < MaxDepth  \* bound: the model's stack is finite, the code's is not

StartDoc == CanPush /\ \E fault \in {"none", "decl"} :
  Returns(StartNode(Fresh, {"none"}, NewNode("doc", NoName, "none", FALSE), fault))

(* The namespaces that Elem.Attrs have registered when Elem.open is done or gives up. *)
AttrsRegister(ns, fault) == (ns = "bad" => fault = "attrs") /\ (fault = "header" => ns = "none")

StartElem == CanPush /\ \E name \in Names, full \in BOOLEAN, ns \in Pending, fault \in {"none", "header", "attrs"} :
  /\ AttrsRegister(ns, fault)
  /\ Returns(StartNode(Fresh, {"none", "doc", "elem"}, NewElem(name, full, ns), fault))

StartDTD == CanPush /\ \E name \in Names, fault \in {"none", "header", "attrs"} :
  Returns(StartNode(Fresh, {"none", "doc"}, NewNode("dtd", name, "none", FALSE), fault))

StartDTDAttList == CanPush /\ \E name \in Names, body \in Bodies, fault \in {"none", "header"} :
  Returns(StartNode(Fresh, {"none", "dtd"}, NewNode("dtdattlist", name, body, FALSE), fault))

StartComment == CanPush /\ \E body \in Bodies \ {"torn"} :
  Returns(StartNode(Fresh, {"none", "doc", "dtd", "elem"}, NewNode("comment", NoName, body, FALSE), "none"))

StartCData == CanPush /\ \E body \in Bodies \ {"torn"} :
  Returns(StartNode(Fresh, {"none", "elem"}, NewNode("cdata", NoName, body, FALSE), "none"))

(* Write of a startable node: Start, and when that succeeds End.           *)
Writes(v, kind) == call = Idle /\ Does(v, [Idle EXCEPT !.op = "Write", !.kind = kind])

WriteElem == CanPush /\ \E name \in Names, full \in BOOLEAN, ns \in Pending, fault \in {"none", "header", "attrs"} :
  /\ AttrsRegister(ns, fault)
  /\ Writes(StartNode(Fresh, {"none", "doc", "elem"}, NewElem(name, full, ns), fault), "elem")

WriteDTDAttList == CanPush /\ \E name \in Names, body \in Bodies, fault \in {"none", "header"} :
  Writes(StartNode(Fresh, {"none", "dtd"}, NewNode("dtdattlist", name, body, FALSE), fault), "dtdattlist")

WriteComment == CanPush /\ \E body \in Bodies \ {"torn"} :
  Writes(StartNode(Fresh, {"none", "doc", "dtd", "elem"}, NewNode("comment", NoName, body, FALSE), "none"), "comment")

WriteCData == CanPush /\ \E body \in Bodies \ {"torn"} :
  Writes(StartNode(Fresh, {"none", "elem"}, NewNode("cdata", NoName, body, FALSE), "none"), "cdata")

WriteText == Returns(WriteLeaf(Fresh, {"none", "elem"}, "text", "none"))

WritePI == \E fault \in {"none", "early"} :
  Returns(WriteLeaf(Fresh, {"none", "doc", "elem"}, "pi", fault))

WriteCommentContent == \E fault \in {"none", "early"} :
  Returns(WriteLeaf(Fresh, {"none", "comment"}, "commentcontent", fault))

WriteCDataContent == \E fault \in {"none", "early"} :
  Returns(WriteLeaf(Fresh, {"none", "cdata"}, "cdatacontent", fault))

WriteDTDElem == \E fault \in {"none", "early"} :
  Returns(WriteLeaf(Fresh, {"none", "dtd"}, "dtdelem", fault))

WriteDTDEntity == \E fault \in {"none", "early", "late"} :
  Returns(WriteLeaf(Fresh, {"none", "dtd"}, "dtdentity", fault))

WriteDTDAttr == \E fault \in {"none", "early", "late"} :
  Returns(WriteLeaf(Fresh, {"none", "dtdattlist"}, "dtdattr", fault))

WriteNotation == \E fault \in {"none", "early", "late"} :
  Returns(WriteLeaf(Fresh, {"none", "dtd"}, "notation", fault))

(* Raw neither checks its parent nor calls Next. *)
WriteRaw == Returns(Wrote(Fresh, ReadLeaf(w.rd, "raw")))

(* An attribute with a URI registers its namespace with the current node,  *)
(* to be declared when the start tag ends.  One prefix that is refused     *)
(* spoils them all.  What is registered after that is never written.       *)
Registered(v, ns) ==
  IF v.cur >= 0 /\ Top(v).state = "open" /\ Top(v).ns # "bad" /\ ns # "none"
  THEN SetTop(v, [Top(v) EXCEPT !.ns = ns]) ELSE v

(* The name is checked after that: ns is what a refused attribute leaves   *)
(* behind ("none" when it has no URI, or one that its prefix has not).     *)
(* A prefix that is refused in xmlns:prefix is refused in prefix:name.     *)
(* An attribute does not call Next, and the code does not ask whether the  *)
(* start tag is still open: written late it becomes text, which is the     *)
(* caller's mistake and ends what the observer vouches for.                *)
WriteAttr == \E ns \in Pending, refused \in BOOLEAN :
  LET v    == Registered(Fresh, ns)
      late == w.cur >= 0 /\ Top(w).state # "open"
  IN /\ call = Idle /\ (ns = "bad" => refused)
     /\ IF ~CheckParent(w, {"none", "elem"}) THEN Does(Outcome(w, "rejected"), Idle)
        ELSE IF refused THEN Does(Outcome(v, "rejected"), Idle)
        ELSE /\ w' = Wrote(v, ReadLeaf(v.rd, "attr"))
             /\ call' = Idle
             /\ clean' = (clean /\ ~late)

CallNext == Returns(NextChild(Fresh))

End == \E kind \in Startables, name \in Names \cup {NoName} : Returns(EndKind(Fresh, kind, name))

(* EndElemFull marks the current node, whatever its kind, before End has checked anything. *)
EndElemFull == \E name \in Names \cup {NoName} :
  Returns(EndKind(IF w.cur < 0 THEN Fresh ELSE SetTop(Fresh, [Top(w) EXCEPT !.full = TRUE]), "elem", name))

EndAny == Returns(Pop(Fresh))

EndAll == call = Idle /\ Does(Fresh, [Idle EXCEPT !.op = "EndAll", !.from = w.cur])

EndDoc == call = Idle /\ Does(Fresh, [Idle EXCEPT !.op = "EndDoc", !.from = w.cur])

EndToDepth == \E depth \in -1 .. MaxDepth - 1, kind \in Startables, name \in Names \cup {NoName} :
  call = Idle /\ Does(Fresh, [op |-> "EndToDepth", limit |-> depth + 1, kind |-> kind, name |-> name, from |-> w.cur])

(* The loops of EndAll, EndDoc and EndToDepth end nodes down to a floor. *)
(* mutant: the loop of EndToDepth goes down to depth instead of depth + 1 *)
FloorOneDown == CASE call.op = "EndAll" -> -1 [] call.op = "EndDoc" -> 0 [] OTHER -> call.limit - 1

Floor == CASE call.op = "EndAll" -> -1 [] call.op = "EndDoc" -> 0 [] OTHER -> call.limit

Unwinding == call.op \in {"EndAll", "EndDoc", "EndToDepth"}

Unwind == Unwinding /\ w.cur > Floor /\ Does(Pop(w), call)

(* What the call does once its loop, or the Start of a Write, is done. *)
Finish ==
  \/ call.op = "EndAll" /\ w.cur <= Floor /\ Does(w, Idle)
  \/ call.op = "EndDoc" /\ w.cur <= Floor /\ Does(EndKind(w, "doc", NoName), Idle)
  \/ call.op = "EndToDepth" /\ w.cur <= Floor /\ Does(EndKind(w, call.kind, call.name), Idle)
  \/ call.op = "Write" /\ Does(EndKind(w, call.kind, NoName), Idle)

Init ==
  /\ w = [node |-> [s \in Slots |-> NoNode], cur |-> -1, rd |-> ReaderAtStart, err |-> "nil"]
  /\ call = Idle
  /\ clean = TRUE

Starting == StartDoc \/ StartElem \/ StartDTD \/ StartDTDAttList \/ StartComment \/ StartCData

Writing ==
  \/ WriteElem \/ WriteDTDAttList \/ WriteComment \/ WriteCData
  \/ WriteText \/ WritePI \/ WriteCommentContent \/ WriteCDataContent
  \/ WriteDTDElem \/ WriteDTDEntity \/ WriteDTDAttr \/ WriteNotation
  \/ WriteRaw \/ WriteAttr

Ending == End \/ EndElemFull \/ EndAny \/ EndAll \/ EndDoc \/ EndToDepth

Next == Starting \/ Writing \/ CallNext \/ Ending \/ Unwind \/ Finish

Spec == Init /\ [][Next]_vars

-----------------------------------------------------------------------------
(* Properties. *)

(* Every part of the state has its type, and the slots above the current   *)
(* node are unused.                                                        *)
TypeOK ==
  /\ w \in [node : [Slots -> Node \cup {NoNode}], cur : -1 .. MaxDepth - 1,
            rd : Readers, err : Errors]
  /\ \A s \in Slots : (w.node[s] = NoNode) <=> (s > w.cur)
  /\ call \in Calls
  /\ clean \in BOOLEAN

(* A header is still unfinished in the output: "<a", "<!DOCTYPE a", "<!ATTLIST a". *)
HeaderPending(n) == n.kind = "dtdattlist" \/ (n.kind \in NamedKinds /\ n.state = "open")

CellOf(n) == [kind |-> n.kind, name |-> n.name, tag |-> HeaderPending(n)]

(* As long as no call has failed, a reader of the output accepts it and    *)
(* has open exactly the nodes on the writer's stack, each with its kind,   *)
(* its name and its header in the same state.  So the output is a prefix   *)
(* of well-formed XML after every call and between the pops of an EndAll,  *)
(* calls that were rejected or whose content was dropped included, and it  *)
(* is well formed once the stack is empty.                                 *)
ReaderAgrees ==
  clean =>
    /\ w.rd.ok
    /\ w.rd.top = w.cur
    /\ \A i \in 0 .. w.cur : w.rd.cell[i] = CellOf(w.node[i])

(* Validation is "on output" (writer.go:26): the call with which the       *)
(* output stops being well formed is one that returns an error.  It need   *)
(* not be: a leaf is written, and nil returned, after the header of its    *)
(* parent was torn.                                                        *)
TearingIsTold == [][clean => w'.err # "swallowed"]_vars

(* A call that is rejected writes nothing and leaves the nodes on the      *)
(* stack as they are but for two marks on the current one: the Full of an  *)
(* EndElemFull, and the namespace of an attribute whose name was refused,  *)
(* which an element that is still open has then to declare.                *)
OnlyMarked(m, n) ==
  /\ [m EXCEPT !.full = n.full, !.ns = n.ns] = n
  /\ m.ns # n.ns => n.kind = "elem" /\ n.state = "open" /\ n.ns # "bad" /\ m.ns # "none"

RejectionOnlyMarks ==
  [][call' = Idle /\ call = Idle /\ w'.err = "rejected" =>
       /\ w'.rd = w.rd /\ w'.cur = w.cur
       /\ \A i \in 0 .. w.cur - 1 : w'.node[i] = w.node[i]
       /\ w.cur >= 0 => OnlyMarked(Top(w'), Top(w))]_vars

(* Nodes are pushed only onto a parent whose header is finished: every     *)
(* node below the current one is opened and knows that it has a child.     *)
(* Closing a node depends on both, long after they were set.               *)
AncestorsOpened == \A i \in 0 .. w.cur - 1 : w.node[i].state = "opened" /\ w.node[i].kids

(* Where the stack is to be when an unwinding call is done: EndAll and     *)
(* EndDoc empty it, EndToDepth(d) ends what was started above index d, or  *)
(* if nothing was, the current node.                                       *)
Goal ==
  IF call.op # "EndToDepth" THEN -1
  ELSE IF call.from >= call.limit THEN call.limit - 1
  ELSE call.from - 1

(* An unwinding call ends exactly the nodes it should: a step touches none *)
(* but the current node, none goes further than the goal, whatever fails,  *)
(* and a call that returns no error has reached it.                        *)
UnwindIsExact ==
  [][Unwinding =>
       /\ \A i \in 0 .. w.cur - 1 : w'.node[i] = w.node[i]
       /\ w'.cur >= Goal
       /\ call' = Idle /\ w'.err = "nil" => w'.cur = Goal]_vars
=============================================================================
