---------------------------- MODULE ElemContent ----------------------------
(***************************************************************************)
(* Elements whose Content is a tree (elem.go), and the memory they live in.*)
(*                                                                         *)
(* Writer.nodes is a Go slice: pushing beyond its capacity copies it to a  *)
(* new array.  An element's Content is written from inside node.opened,    *)
(* which node.end and Writer.Next call and which calls back into the       *)
(* Writer, so the slice may move while node.end holds a pointer into the   *)
(* old array.  This module therefore runs the calls step by step, with the *)
(* frames of the calls in progress and with every array that was ever      *)
(* allocated.                                                              *)
(*                                                                         *)
(* m is the machine:                                                       *)
(*   mem     the arrays, oldest first; a pointer is [arr, at],             *)
(*   arr     the array Writer.nodes is in,    len  len(Writer.nodes),      *)
(*   cur     Writer.current,                                               *)
(*   frames  the calls in progress, innermost last,                        *)
(*   rd      the observer,                                                 *)
(*   err     "nil" until a call returns an error,                          *)
(*   doubt   a node was ended through a pointer that disagrees with the    *)
(*           node in use, or an error was dropped (an observation).        *)
(***************************************************************************)
EXTENDS XmlReader, Sequences, SequencesExt

CONSTANTS
  InitialNodeDepth,  \* the length Writer.nodes starts with
  MaxContent,        \* bound: how many children one Content holds
  Faulty             \* whether a child of a Content may be refused

ASSUME ArrayAssumption ==
  InitialNodeDepth \in Nat \ {0} /\ MaxDepth > 0 /\ MaxContent \in Nat /\ Faulty \in BOOLEAN

VARIABLE m

(* append doubles the capacity of a slice that is full. *)
Cap[arr \in 0 .. MaxDepth] == IF arr = 0 THEN InitialNodeDepth ELSE 2 * Cap[arr - 1]

Arrays == {g \in 0 .. MaxDepth : g = 0 \/ Cap[g - 1] < MaxDepth}

Node == [state : {"open", "opened", "ended"}, kids : BOOLEAN, full : BOOLEAN, content : 0 .. MaxContent]

ZeroNode == [state |-> "open", kids |-> FALSE, full |-> FALSE, content |-> 0]

Pointer == [arr : Arrays, at : Slots]

Nil == [arr |-> 0, at |-> 0]

(* Calls in progress and what they wait for:                               *)
(*   content   elem.opened between two children, left to go,               *)
(*   end       node.end, holding n, waiting for opened; prev was the state,*)
(*   push      Elem.start waiting for Next, to push node,                  *)
(*   text      Text.write waiting for Next,                                *)
(*   write     Elem.write waiting for start.                               *)
Frame(fn, left, n, prev, node) == [fn |-> fn, left |-> left, n |-> n, prev |-> prev, node |-> node]
ContentFrame(left)  == Frame("content", left, Nil, "open", ZeroNode)
EndFrame(n, prev)   == Frame("end", 0, n, prev, ZeroNode)
PushFrame(node)     == Frame("push", 0, Nil, "open", node)
TextFrame           == Frame("text", 0, Nil, "open", ZeroNode)
WriteFrame          == Frame("write", 0, Nil, "open", ZeroNode)

Deref(v, p) == v.mem[p.arr][p.at]
Current(v)  == [arr |-> v.arr, at |-> v.cur]

Call(v, f)    == [v EXCEPT !.frames = Append(@, f)]
Return(v)     == [v EXCEPT !.frames = Front(@)]
Emit(v, rd)   == [v EXCEPT !.rd = rd]
Store(v, p, n) == [v EXCEPT !.mem[p.arr][p.at] = n]

(* An array that neither the Writer nor a call in progress refers to is garbage. *)
Collected(v) ==
  LET live == {v.arr} \cup {v.frames[i].n.arr : i \in {j \in DOMAIN v.frames : v.frames[j].fn = "end"}}
  IN [v EXCEPT !.mem = [g \in Arrays |-> IF g \in live THEN v.mem[g] ELSE [s \in Slots |-> ZeroNode]]]

-----------------------------------------------------------------------------
(* Room for one more node: the slice is long enough, or has the capacity,  *)
(* or moves to an array of twice the size.                                 *)
(* mutant: the nodes are not copied to the new array *)
GrowCopiesNothing(v) ==
  IF v.len > v.cur + 1 THEN v
  ELSE IF v.len < Cap[v.arr] THEN [v EXCEPT !.len = @ + 1]
  ELSE Collected([v EXCEPT !.len = @ + 1, !.arr = @ + 1])

(* mutant: the length is compared with the current index, not the next *)
GrowOffByOne(v) ==
  IF v.len > v.cur THEN v
  ELSE IF v.len < Cap[v.arr] THEN [v EXCEPT !.len = @ + 1]
  ELSE Collected([v EXCEPT !.len = @ + 1, !.arr = @ + 1, !.mem[v.arr + 1] = v.mem[v.arr]])

Grow(v) ==
  IF v.len > v.cur + 1 THEN v
  ELSE IF v.len < Cap[v.arr] THEN [v EXCEPT !.len = @ + 1]
  ELSE Collected([v EXCEPT !.len = @ + 1, !.arr = @ + 1, !.mem[v.arr + 1] = v.mem[v.arr]])

(* mutant: Content does not stop the start tag from ending with "/>" *)
OpenedIgnoresContent(v) ==
  LET n == Deref(v, Current(v))
      o == Store(v, Current(v), [n EXCEPT !.state = "opened"])
      c == IF n.content > 0 THEN Call(o, ContentFrame(n.content)) ELSE o
  IN IF n.kids \/ n.full THEN Emit(c, ReadGt(v.rd)) ELSE Emit(c, ReadEmptyTagEnd(v.rd))

(* node.opened and elem.opened up to its loop over Content. *)
Opened(v) ==
  LET n == Deref(v, Current(v))
      o == Store(v, Current(v), [n EXCEPT !.state = "opened"])
  IN IF n.content > 0 THEN Call(Emit(o, ReadGt(v.rd)), ContentFrame(n.content))
     ELSE IF n.kids \/ n.full THEN Emit(o, ReadGt(v.rd))
     ELSE Emit(o, ReadEmptyTagEnd(v.rd))

(* Writer.Next: afterwards either the parent is opened or its Content is being written. *)
NextChild(v) ==
  IF v.cur < 0 THEN v
  ELSE LET n == Deref(v, Current(v))
           c == Store(v, Current(v), [n EXCEPT !.kids = TRUE])
       IN IF n.state = "open" THEN Opened(c) ELSE c

Push(v, node) ==
  LET p == [v EXCEPT !.cur = @ + 1]
  IN Emit(Store(p, Current(p), node), ReadOpen(v.rd, "elem", "a"))

(* node.end once the node is opened: whether the close tag is written is   *)
(* decided through the pointer n, the slot is released through current.    *)
FinishEnd(v, n, prev) ==
  LET e == Deref(v, n)
      c == Store(v, n, [e EXCEPT !.state = "ended"])
      d == [Store(c, Current(c), ZeroNode) EXCEPT !.cur = @ - 1,
              !.doubt = @ \/ e.kids # Deref(v, Current(v)).kids]
  IN IF prev # "open" \/ e.full \/ e.kids THEN Emit(d, ReadClose(v.rd, "elem", "a")) ELSE d

BeginEnd(v) ==
  LET n == Deref(v, Current(v))
  IN IF n.state = "open" THEN Opened(Call(v, EndFrame(Current(v), "open")))
     ELSE FinishEnd(v, Current(v), n.state)

(* An error passes through every call in progress but Text.write, which    *)
(* goes on writing (writeBeginNext drops the error of Next).               *)
Fail(v) ==
  IF v.frames # <<>> /\ Head(v.frames).fn = "text"
  THEN [v EXCEPT !.frames = <<TextFrame>>, !.doubt = TRUE]
  ELSE [v EXCEPT !.frames = <<>>, !.err = "failed"]

-----------------------------------------------------------------------------
(* The calls a user makes. *)

Ready == m.frames = <<>> /\ m.err = "nil"
CanPush(v) == v.cur + 1 < MaxDepth     \* bound
Top == Last(m.frames)
InCall(fn) == m.frames # <<>> /\ Top.fn = fn

NewNode(content, full) == [ZeroNode EXCEPT !.content = content, !.full = full]

StartElem == Ready /\ CanPush(m) /\ \E c \in 0 .. MaxContent, full \in BOOLEAN :
  m' = NextChild(Call(Grow(m), PushFrame(NewNode(c, full))))

WriteElem == Ready /\ CanPush(m) /\ \E c \in 0 .. MaxContent, full \in BOOLEAN :
  m' = NextChild(Call(Call(Grow(m), WriteFrame), PushFrame(NewNode(c, full))))

WriteText == Ready /\ m' = NextChild(Call(m, TextFrame))

EndElem == Ready /\ m.cur >= 0 /\ m' = BeginEnd(m)

(* The steps of the calls in progress. *)

PushStep == InCall("push") /\ CanPush(m) /\ m' = Push(Return(m), Top.node)

TextStep == InCall("text") /\ m' = Emit(Return(m), ReadLeaf(m.rd, "text"))

WriteStep == InCall("write") /\ m' = BeginEnd(Return(m))

EndStep == InCall("end") /\ m' = Collected(FinishEnd(Return(m), Top.n, Top.prev))

ContentDone == InCall("content") /\ Top.left = 0 /\ m' = Return(m)

NextItem == Call(Return(m), ContentFrame(Top.left - 1))

(* A Text child opens nothing: its parent is opened already. *)
TextItem == InCall("content") /\ Top.left > 0 /\
  m' = Emit(NextChild(NextItem), ReadLeaf(m.rd, "text"))

(* A Comment or CData child is pushed and popped. *)
CommentItem == InCall("content") /\ Top.left > 0 /\ CanPush(m) /\
  m' = Emit(NextChild(Grow(NextItem)), ReadClose(ReadOpen(m.rd, "comment", NoName), "comment", NoName))

ElemItem == InCall("content") /\ Top.left > 0 /\ CanPush(m) /\ \E c \in 0 .. MaxContent, full \in BOOLEAN :
  m' = Push(NextChild(Grow(Call(NextItem, WriteFrame))), NewNode(c, full))

(* A child whose name is refused is on the stack when its Start fails. *)
BadItem == Faulty /\ InCall("content") /\ Top.left > 0 /\ CanPush(m) /\
  LET v == NextChild(Grow(NextItem)) IN
  m' = Fail([Store(v, [Current(v) EXCEPT !.at = @ + 1], ZeroNode) EXCEPT !.cur = @ + 1])

Init == m = [mem |-> [g \in Arrays |-> [s \in Slots |-> ZeroNode]], arr |-> 0,
             len |-> InitialNodeDepth, cur |-> -1, frames |-> <<>>,
             rd |-> ReaderAtStart, err |-> "nil", doubt |-> FALSE]

Steps == PushStep \/ TextStep \/ WriteStep \/ EndStep
         \/ ContentDone \/ TextItem \/ CommentItem \/ ElemItem \/ BadItem

Next == StartElem \/ WriteElem \/ WriteText \/ EndElem \/ Steps

Spec == Init /\ [][Next]_m

-----------------------------------------------------------------------------
(* Properties. *)

FrameType == [fn : {"content", "end", "push", "text", "write"}, left : 0 .. MaxContent,
              n : Pointer, prev : {"open", "opened"}, node : Node]

(* Every part of the machine has its type; the calls in progress nest no   *)
(* deeper than three per node; the slice is no longer than its array.      *)
TypeOK ==
  /\ m.mem \in [Arrays -> [Slots -> Node]]
  /\ m.arr \in Arrays /\ m.len \in 1 .. Cap[m.arr] /\ m.cur \in -1 .. MaxDepth - 1
  /\ m.cur < m.len
  /\ Len(m.frames) <= 3 * (MaxDepth + 1)
  /\ \A i \in DOMAIN m.frames : m.frames[i] \in FrameType
  /\ m.rd.ok \in BOOLEAN /\ m.rd.top \in -1 .. MaxDepth - 1
  /\ m.err \in {"nil", "failed"} /\ m.doubt \in BOOLEAN

ReaderAgrees ==
    /\ m.rd.ok
    /\ m.rd.top = m.cur
    /\ \A i \in 0 .. m.cur : m.rd.cell[i].tag = (m.mem[m.arr][i].state = "open")

(* Between calls, when no call has returned an error, a reader of the      *)
(* output has open exactly the elements on the writer's stack, each with   *)
(* its start tag finished or not as its state says: in particular every    *)
(* element that was ended, Content and all, is closed in the output        *)
(* (WriteElem "writes a complete XML Element", writer.go:214).             *)
ReaderAgreesAtRest == Ready => ReaderAgrees

(* Only two things make the output and the stack disagree: a node ended    *)
(* through a pointer into an array the slice has left, and an error that   *)
(* Text.write dropped.                                                     *)
ReaderAgreesWithoutDoubt == Ready /\ ~m.doubt => ReaderAgrees

(* A pointer into an array the slice has left disagrees with the node in   *)
(* use only when it points at the last slot of the array that was outgrown:*)
(* the child being pushed when the slice moves is not yet counted there.   *)
StaleOnlyAtBoundary ==
  \A i \in DOMAIN m.frames :
    LET f == m.frames[i] IN
    (f.fn = "end" /\ Deref(m, f.n).kids # m.mem[m.arr][f.n.at].kids)
      => f.n.arr # m.arr /\ f.n.at = Cap[f.n.arr] - 1
=============================================================================
