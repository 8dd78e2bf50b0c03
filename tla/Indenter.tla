------------------------------ MODULE Indenter ------------------------------
(***************************************************************************)
(* The StandardIndenter of indenter.go under a Writer.  The indenter is    *)
(* told of every change of state of every node and keeps a stack of its    *)
(* own, which nothing but the order of those events ties to the Writer's.  *)
(* The sink may break in the middle of any call; bufio.Writer makes that   *)
(* error permanent, and each call stops where it next asks for it.         *)
(*                                                                         *)
(* s is the Writer with its indenter:                                      *)
(*   nodes   Writer.nodes up to current,        last   Writer.last,        *)
(*   depth   StandardIndenter.depth,                                       *)
(*   stack   StandardIndenter.stack, TRUE where indents > 0,               *)
(*   room    how many pieces of output the sink still takes,               *)
(*   err     the call in progress has failed,                              *)
(*   again   some node was told twice that it has ended,                   *)
(*   panic   an index was out of range,                                    *)
(*   closed  how the node that the last call ended began and ended (this   *)
(*           and a node's column and lined are observations).              *)
(***************************************************************************)
EXTENDS Integers, NodeKinds, Sequences, SequencesExt, FiniteSetsExt

CONSTANT MaxDepth    \* bound: how many nodes are on the Writer's stack

ASSUME DepthAssumption == MaxDepth \in Nat \ {0}

VARIABLE s

Indenting == {"elem", "dtd", "dtdattlist"}

Declarations == {"dtdattr", "dtdelem", "dtdentity", "notation"}

(* What Start and Write accept below a node of each kind. *)
Parents ==
  [kind \in Startables \cup Leaves |->
     CASE kind = "doc"                                -> {"none"}
       [] kind = "dtd"                                -> {"none", "doc"}
       [] kind \in {"elem", "pi"}                     -> {"none", "doc", "elem"}
       [] kind = "comment"                            -> {"none", "doc", "dtd", "elem"}
       [] kind \in {"cdata", "text", "attr"}          -> {"none", "elem"}
       [] kind \in {"dtdattlist", "dtdelem", "dtdentity", "notation"} -> {"none", "dtd"}
       [] kind = "dtdattr"                            -> {"none", "dtdattlist"}
       [] kind = "commentcontent"                     -> {"none", "comment"}
       [] kind = "cdatacontent"                       -> {"none", "cdata"}
       [] kind = "raw"                                -> {"none"} \cup Startables]

(* What is written as soon as a node with content is opened. *)
Inner(kind) ==
  CASE kind = "elem"       -> "text"
    [] kind = "comment"    -> "commentcontent"
    [] kind = "cdata"      -> "cdatacontent"
    [] kind = "dtdattlist" -> "dtdattr"

WithInner == {"elem", "comment", "cdata", "dtdattlist"}

(* A node, with the column its first line starts at (NoColumn if it does   *)
(* not start a line) and whether a child of it does.  inner is the content *)
(* it was started with: one leaf, or something that is refused.            *)
NoColumn == -1

Node == [kind : Startables, state : {"open", "opened", "ended"}, kids : BOOLEAN,
         inner : {"none", "leaf", "refused"}, column : -1 .. MaxDepth, lined : BOOLEAN]

Event(state, node, kids) == [state |-> state, node |-> node, kids |-> kids]

NoEvent == Event("ended", "none", FALSE)

CurrentKind == IF s.nodes = <<>> THEN "none" ELSE Last(s.nodes).kind

Top(v) == Last(v.nodes)

SetTop(v, n) == [v EXCEPT !.nodes = Front(v.nodes) \o <<n>>]

EventOf(n) == Event(n.state, n.kind, n.kids)

-----------------------------------------------------------------------------
(* StandardIndenter.Indent *)

LastIndented(last) ==
  last.node \in Indenting \cup Declarations \/ (last.node = "comment" /\ last.state = "ended")

IsIndented(next) ==
  \/ next.node \in Indenting
  \/ next.node \in Declarations /\ next.state # "opened"
  \/ next.node = "comment" /\ next.state = "open"

(* The frame of depth d is at index d + 1. *)
InRange(v) == v.depth + 1 \in DOMAIN v.stack

EnterLevel(v) == [v EXCEPT !.stack = Append(v.stack, FALSE), !.depth = v.depth + 1]

(* mutant: the frame is left on the stack *)
LeaveLevelKeepsFrame(v) == [v EXCEPT !.depth = v.depth - 1]

LeaveLevel(v) == [v EXCEPT !.depth = v.depth - 1, !.stack = Front(v.stack)]

(* mutant: a level is entered when the node is opened and when it is open *)
MovedOnOpen(v, next) ==
  IF next.node \notin Indenting THEN v
  ELSE IF next.state = "ended" THEN LeaveLevel(v) ELSE EnterLevel(v)

Moved(v, next) ==
  IF next.node \notin Indenting \/ next.state = "open" THEN v
  ELSE IF next.state = "opened" THEN EnterLevel(v) ELSE LeaveLevel(v)

(* mutant: nodes that hold no line are closed on a line of their own *)
StartsLineWhenInline(v, next) ==
  /\ IsIndented(next) /\ LastIndented(v.last) /\ next.state # "opened"
  /\ ~(next.node = "elem" /\ next.state = "ended" /\ ~next.kids)

(* Whether the event starts a line; a node that ends does so only when something inside it did. *)
StartsLine(v, next) ==
  /\ IsIndented(next) /\ LastIndented(v.last) /\ next.state # "opened"
  /\ ~(next.node = "elem" /\ next.state = "ended" /\ ~next.kids)
  /\ (next.state = "ended" /\ next.node \in Indenting) => v.stack[v.depth + 1]

(* The frame of the current level is looked at when a level is left, and when a line is counted in it. *)
NeedsFrame(v, next) ==
  \/ next.node \in Indenting /\ next.state = "ended"
  \/ StartsLine(v, next) /\ next.state # "ended"

CountLine(v) == [v EXCEPT !.stack[v.depth + 1] = TRUE]

Indent(v, next) ==
  IF NeedsFrame(v, next) /\ ~InRange(v) THEN [v EXCEPT !.panic = TRUE]
  ELSE IF StartsLine(v, next) /\ next.state # "ended" THEN CountLine(v)
  ELSE Moved(v, next)

(* The column of the line the event starts, if it starts one. *)
Column(v, next) ==
  IF NeedsFrame(v, next) /\ ~InRange(v) THEN NoColumn
  ELSE IF StartsLine(v, next) THEN Indent(v, next).depth ELSE NoColumn

-----------------------------------------------------------------------------
(* The Writer. *)

Unlimited == -1

(* A call writes six pieces at most: an open node is opened with a leaf in *)
(* it, and then a node is started or ended.                                *)
Rooms == {Unlimited} \cup 1 .. 6

(* A piece of output.  cachedWriteError returns the error of a sink that broke. *)
Put(v) ==
  LET t == [v EXCEPT !.room = IF v.room > 0 THEN v.room - 1 ELSE v.room]
  IN [t EXCEPT !.err = t.room = 0]

(* writeIndent: the indenter moves, and then returns the sink's error. *)
Tell(v, next) == Put(Indent(v, next))

Lined(v, next) ==
  IF v.nodes # <<>> /\ Column(v, next) # NoColumn THEN SetTop(v, [Top(v) EXCEPT !.lined = TRUE]) ELSE v

(* writeBeginCur, and what is written; an attribute is the last event only when it is whole. *)
PutLeaf(v, kind) ==
  LET e == Event("open", kind, FALSE)
      t == Tell(Lined(v, e), e)
      p == Put(t)
  IN IF t.err THEN t
     ELSE IF kind = "attr" /\ p.err THEN p
     ELSE [p EXCEPT !.last = Event("ended", kind, FALSE)]

(* What a node writes when it is opened: elements and DTDs a bracket, then the content. *)
PutContent(v) ==
  LET o == IF Top(v).kind \in {"elem", "dtd"} THEN Put(v) ELSE v
  IN CASE Top(v).inner = "none"    -> o
       [] Top(v).inner = "refused" -> [o EXCEPT !.err = TRUE]
       [] Top(v).inner = "leaf"    -> PutLeaf(SetTop(o, [Top(v) EXCEPT !.kids = TRUE]), Inner(Top(v).kind))

(* node.opened: last is set once more after the content, refused or not. *)
Opened(v) ==
  LET n == [Top(v) EXCEPT !.state = "opened"]
      t == Tell(SetTop(v, n), EventOf(n))
      c == PutContent(t)
  IN IF t.err THEN t ELSE [c EXCEPT !.last = EventOf(Top(c))]

Counted(v) == IF v.nodes = <<>> THEN v ELSE SetTop(v, [Top(v) EXCEPT !.kids = TRUE])

NextChild(v) == IF v.nodes # <<>> /\ Top(v).state = "open" THEN Opened(Counted(v)) ELSE Counted(v)

(* node.open *)
Push(v, kind, inner) ==
  LET e == Event("open", kind, FALSE)
      n == [kind |-> kind, state |-> "open", kids |-> FALSE, inner |-> inner,
            column |-> Column(v, e), lined |-> FALSE]
      t == [Tell(Lined(v, e), e) EXCEPT !.nodes = Append(Lined(v, e).nodes, n)]
  IN IF t.err THEN t ELSE [Put(t) EXCEPT !.last = e]

(* The second half of node.end, and pop. *)
Ended(v) ==
  LET n == [Top(v) EXCEPT !.state = "ended"]
      e == EventOf(n)
      t == [Tell(SetTop(v, n), e) EXCEPT !.again = v.again \/ Top(v).state = "ended"]
      p == IF n.kind = "doc" THEN t ELSE Put(t)
      c == [begin |-> n.column, end |-> Column(v, e), lined |-> n.lined]
  IN IF t.err THEN t
     ELSE IF p.err THEN [p EXCEPT !.last = e]
     ELSE [p EXCEPT !.last = e, !.nodes = Front(p.nodes), !.closed = c]

EndTop(v) ==
  LET o == IF Top(v).state = "open" THEN Opened(v) ELSE v
  IN IF o.err THEN o ELSE Ended(o)

-----------------------------------------------------------------------------
NoneClosed == [begin |-> NoColumn, end |-> NoColumn, lined |-> FALSE]

(* A call, during which the sink may break. *)
Do(Call(_)) ==
  ~s.panic /\ \E room \in IF s.room = 0 THEN {0} ELSE Rooms :
    LET c == Call([s EXCEPT !.room = room, !.err = FALSE, !.closed = NoneClosed])
    IN s' = [c EXCEPT !.room = IF c.room = 0 THEN 0 ELSE Unlimited, !.err = FALSE]

Start == Len(s.nodes) < MaxDepth /\ \E kind \in Startables, inner \in {"none", "leaf", "refused"} :
  /\ CurrentKind \in Parents[kind]
  /\ kind \notin WithInner => inner = "none"
  /\ Do(LAMBDA v : LET n == NextChild(v) IN IF n.err THEN n ELSE Push(n, kind, inner))

(* writeBeginNext does not look at the outcome of Next. *)
Write == \E kind \in Leaves \ {"raw", "attr"} :
  CurrentKind \in Parents[kind] /\ Do(LAMBDA v : PutLeaf([NextChild(v) EXCEPT !.err = FALSE], kind))

(* Raw and Attr do not call Next. *)
WriteLoose == \E kind \in {"raw", "attr"} :
  CurrentKind \in Parents[kind] /\ Do(LAMBDA v : PutLeaf(v, kind))

CallNext == Do(NextChild)

End == s.nodes # <<>> /\ Do(EndTop)

Init == s = [nodes |-> <<>>, last |-> NoEvent, depth |-> 0, stack |-> <<FALSE>>,
             room |-> Unlimited, err |-> FALSE, again |-> FALSE, panic |-> FALSE,
             closed |-> NoneClosed]

Next == Start \/ Write \/ WriteLoose \/ CallNext \/ End

Spec == Init /\ [][Next]_s

-----------------------------------------------------------------------------
(* Properties. *)

(* The indenter's state has the type its use needs: -1 is where a level is *)
(* left too often.                                                         *)
TypeOK ==
  /\ s.nodes \in Seq(Node) /\ Len(s.nodes) <= MaxDepth
  /\ s.depth \in -1 .. MaxDepth /\ s.stack \in Seq(BOOLEAN)
  /\ s.room \in {0, Unlimited} /\ {s.err, s.again, s.panic} \subseteq BOOLEAN

(* The indenter has a level for every element, DTD and attribute list that *)
(* is opened on the Writer's stack, whatever failed, as long as no node    *)
(* whose end failed is ended again; and its stack has a frame per level.   *)
LevelsMatch ==
  ~s.again =>
    /\ s.depth = Quantify(DOMAIN s.nodes, LAMBDA i :
                   s.nodes[i].kind \in Indenting /\ s.nodes[i].state = "opened")
    /\ Len(s.stack) = s.depth + 1

(* A closing tag that starts a line stands below the opening tag, when     *)
(* that starts a line too, and there is a line between them.               *)
ClosersAlign ==
  s.closed.end # NoColumn =>
    s.closed.lined /\ s.closed.begin \in {NoColumn, s.closed.end}

(* "ErrCollector allows you to assume that it's ok to keep writing until   *)
(* the end of a controlled block" (errs.go:27-31): calls made after one    *)
(* has failed return errors and nothing worse.                             *)
NoPanic == ~s.panic
=============================================================================
