--------------------------- MODULE IndenterProofs ---------------------------
(***************************************************************************)
(* Proofs about Indenter, for every depth of the Writer's stack and a sink *)
(* that breaks anywhere.                                                   *)
(*                                                                         *)
(* The indenter's depth is compared with the number of the Writer's nodes  *)
(* that hold a level.  A node comes to hold one, or no longer does, in the *)
(* same step in which the indenter is told of it, whether the rest of the  *)
(* call fails or not; unless a node whose end failed is ended again, which *)
(* can only make the depth too small.  So the invariant has an inequality  *)
(* that always holds, and an equality as long as that has not happened.    *)
(*                                                                         *)
(* Where closing tags stand needs more: as long as the sink has not broken *)
(* the column of each node is the number of levels below it, and a frame   *)
(* with a line in it belongs to a node which knows of the line.            *)
(***************************************************************************)
EXTENDS Indenter, Lemmas

Holds(n) == n.kind \in Indenting /\ n.state = "opened"

Held(nodes) == {i \in DOMAIN nodes : Holds(nodes[i])}

Levels(nodes) == Cardinality(Held(nodes))

One(b) == IF b THEN 1 ELSE 0

Typed(v) ==
  /\ v = [nodes |-> v.nodes, last |-> v.last, depth |-> v.depth, stack |-> v.stack, room |-> v.room,
          err |-> v.err, again |-> v.again, panic |-> v.panic, closed |-> v.closed]
  /\ v.nodes \in Seq(Node) /\ Len(v.nodes) <= MaxDepth
  /\ v.stack \in Seq(BOOLEAN) /\ v.depth \in Int /\ Len(v.stack) = v.depth + 1
  /\ v.room \in Int /\ v.err \in BOOLEAN /\ v.again \in BOOLEAN /\ v.panic \in BOOLEAN

Level(v) ==
  /\ v.depth <= Levels(v.nodes)
  /\ v.again \/ (v.depth = Levels(v.nodes) /\ ~v.panic)

Inv(v) == Typed(v) /\ Level(v)

(* u has the same nodes open as v. *)
Like(v, u) ==
  /\ Inv(u) /\ Len(u.nodes) = Len(v.nodes) /\ u.again = v.again
  /\ v.nodes # <<>> => Top(u).kind = Top(v).kind /\ Top(u).state = Top(v).state

SInv == Inv(s) /\ s.room \in {0, Unlimited} /\ s.err = FALSE

-----------------------------------------------------------------------------
(* Counting the levels of a stack. *)

(* The levels are counted by a number no larger than the stack.            *)
LEMMA LevelsType ==
  ASSUME NEW nodes \in Seq(Node)
  PROVE  IsFiniteSet(Held(nodes)) /\ Levels(nodes) \in Nat /\ Levels(nodes) <= Len(nodes)
<1>1. Len(nodes) \in Nat /\ DOMAIN nodes = 1 .. Len(nodes)
  BY LenProperties
<1>2. IsFiniteSet(1 .. Len(nodes)) /\ Cardinality(1 .. Len(nodes)) = Len(nodes)
  BY <1>1, FS_Interval, SMTT(40)
<1>3. Held(nodes) \in SUBSET (1 .. Len(nodes))
  BY <1>1 DEF Held
<1>4. IsFiniteSet(Held(nodes)) /\ Cardinality(Held(nodes)) <= Len(nodes)
  BY <1>2, <1>3, FS_Subset
<1> QED BY <1>4, FS_CardinalityType DEF Levels

(* A node that is pushed adds a level if it holds one.                     *)
LEMMA LevelsOfAppend ==
  ASSUME NEW nodes \in Seq(Node), NEW n \in Node
  PROVE  Levels(Append(nodes, n)) = Levels(nodes) + One(Holds(n))
<1> DEFINE k == Len(nodes) + 1
           t == Append(nodes, n)
<1>1. Len(nodes) \in Nat /\ DOMAIN nodes = 1 .. Len(nodes) /\ DOMAIN t = 1 .. k
      /\ (\A i \in 1 .. Len(nodes) : t[i] = nodes[i]) /\ t[k] = n
  BY AppendProperties, LenProperties
<1>2. Held(nodes) \subseteq 1 .. Len(nodes) /\ k \notin Held(nodes)
  BY <1>1 DEF Held
<1>3. CASE Holds(n)
  <2>1. Held(t) = Held(nodes) \cup {k}
    <3> HIDE DEF t
    <3> QED BY <1>1, <1>3 DEF Held
  <2> QED BY <1>2, <1>3, <2>1, LevelsType, FS_AddElement DEF Levels, One
<1>4. CASE ~Holds(n)
  <2>1. Held(t) = Held(nodes)
    <3> HIDE DEF t
    <3> QED BY <1>1, <1>4 DEF Held
  <2> QED BY <1>4, <2>1, LevelsType DEF Levels, One
<1> QED BY <1>3, <1>4

(* A stack is its last node on top of the others.                          *)
LEMMA LastApart ==
  ASSUME NEW S, NEW q \in Seq(S), q # <<>>
  PROVE  /\ Front(q) \in Seq(S) /\ Len(Front(q)) = Len(q) - 1 /\ Len(q) \in Nat \ {0}
         /\ Last(q) \in S /\ q = Append(Front(q), Last(q))
<1>1. Len(q) \in Nat \ {0} /\ \A i \in 1 .. Len(q) : q[i] \in S
  BY EmptySeq, LenProperties, ElementOfSeq
<1>2. /\ Front(q) \in Seq(S) /\ Len(Front(q)) = Len(q) - 1
      /\ \A i \in 1 .. Len(q) - 1 : Front(q)[i] = q[i]
  BY <1>1, SubSeqProperties DEF Front
<1>3. Last(q) = q[Len(q)] /\ Last(q) \in S
  BY <1>1 DEF Last
<1>4. q = Append(Front(q), Last(q))
  <2> DEFINE t == Append(Front(q), Last(q))
  <2>1. t \in Seq(S) /\ Len(t) = Len(q) /\ (\A i \in 1 .. Len(q) - 1 : t[i] = Front(q)[i]) /\ t[Len(q)] = Last(q)
    BY <1>1, <1>2, <1>3, AppendProperties
  <2>2. \A i \in 1 .. Len(q) : q[i] = t[i]
    BY <1>1, <1>2, <1>3, <2>1
  <2> QED BY <2>1, <2>2, SeqEqual
<1> QED BY <1>1, <1>2, <1>3, <1>4

(* A node that is pushed is the last one.                                  *)
LEMMA LastOfAppend ==
  ASSUME NEW S, NEW q \in Seq(S), NEW x \in S
  PROVE  Last(Append(q, x)) = x /\ q \o <<x>> = Append(q, x)
BY AppendProperties, AppendIsConcat, LenProperties DEF Last

(* What popping the current node, and replacing it, does to the levels.    *)
LEMMA LevelsOfTop ==
  ASSUME NEW nodes \in Seq(Node), nodes # <<>>, NEW n \in Node
  PROVE  LET t == Front(nodes) \o <<n>>
         IN /\ Front(nodes) \in Seq(Node) /\ Len(Front(nodes)) = Len(nodes) - 1
            /\ Levels(Front(nodes)) = Levels(nodes) - One(Holds(Last(nodes)))
            /\ t \in Seq(Node) /\ Len(t) = Len(nodes) /\ t # <<>> /\ Last(t) = n
            /\ Levels(t) = Levels(nodes) - One(Holds(Last(nodes))) + One(Holds(n))
<1> DEFINE f == Front(nodes)
<1>1. f \in Seq(Node) /\ Len(f) = Len(nodes) - 1 /\ Len(nodes) \in Nat \ {0}
      /\ Last(nodes) \in Node /\ nodes = Append(f, Last(nodes))
  BY LastApart
<1> HIDE DEF f
<1>2. Levels(nodes) = Levels(f) + One(Holds(Last(nodes))) /\ Levels(Append(f, n)) = Levels(f) + One(Holds(n))
  BY <1>1, LevelsOfAppend
<1>3. f \o <<n>> = Append(f, n) /\ Last(Append(f, n)) = n
  BY <1>1, LastOfAppend
<1>4. Append(f, n) \in Seq(Node) /\ Len(Append(f, n)) = Len(f) + 1 /\ Append(f, n) # <<>>
  BY <1>1, AppendProperties
<1>5. Levels(f) \in Nat /\ One(Holds(Last(nodes))) \in Nat /\ One(Holds(n)) \in Nat
  BY <1>1, LevelsType DEF One
<1>6. Levels(f) = Levels(nodes) - One(Holds(Last(nodes)))
  BY <1>2, <1>5
<1>7. Levels(f \o <<n>>) = Levels(nodes) - One(Holds(Last(nodes))) + One(Holds(n))
  BY <1>2, <1>3, <1>6
<1>8. /\ f \o <<n>> \in Seq(Node) /\ Len(f \o <<n>>) = Len(nodes) /\ f \o <<n>> # <<>>
      /\ Last(f \o <<n>>) = n
  <2>1. Len(Append(f, n)) = Len(nodes)
    BY <1>1, <1>4
  <2> QED BY Zenon, <1>3, <1>4, <2>1
<1> QED BY <1>1, <1>6, <1>7, <1>8 DEF f

-----------------------------------------------------------------------------
(* The writer and the indenter move together. *)

(* The current node of a writer that has one.                              *)
LEMMA TopFacts ==
  ASSUME NEW v, Inv(v), v.nodes # <<>>
  PROVE  /\ Top(v) \in Node /\ Len(v.nodes) \in Nat \ {0}
         /\ Front(v.nodes) \in Seq(Node) /\ Len(Front(v.nodes)) = Len(v.nodes) - 1
BY LastApart DEF Inv, Typed, Top

(* A writer is like itself, and likeness goes along.                       *)
LEMMA LikeSelf == ASSUME NEW v, Inv(v) PROVE Like(v, v)
BY DEF Like

(* Likeness goes along a sequence of changes.                              *)
LEMMA LikeAlong ==
  ASSUME NEW v, Inv(v), NEW u, Like(v, u), NEW t, Like(u, t)
  PROVE  Like(v, t)
<1>1. v.nodes # <<>> => u.nodes # <<>>
  <2>1. v.nodes \in Seq(Node) /\ u.nodes \in Seq(Node) /\ Len(u.nodes) = Len(v.nodes)
    BY DEF Like, Inv, Typed
  <2> QED BY <2>1, EmptySeq, LenProperties
<1> QED BY <1>1 DEF Like

(* A writer that differs in nothing that the invariant is about, but for   *)
(* the frames of the indenter.                                             *)
LEMMA LikeFrames ==
  ASSUME NEW v, Inv(v), NEW u, Typed(u), u.nodes = v.nodes, u.depth = v.depth, u.again = v.again,
         v.again \/ ~u.panic
  PROVE  Like(v, u)
BY Zenon DEF Inv, Level, Like, Top

(* A piece of output changes the sink and nothing else.                    *)
LEMMA PutFacts ==
  ASSUME NEW v, Typed(v)
  PROVE  /\ Typed(Put(v)) /\ Put(v).nodes = v.nodes /\ Put(v).depth = v.depth
         /\ Put(v).again = v.again /\ Put(v).panic = v.panic
<1> DEFINE r == IF v.room > 0 THEN v.room - 1 ELSE v.room
<1>1. r \in Int /\ (r = 0) \in BOOLEAN
  BY DEF Typed
<1>2. Put(v) = [v EXCEPT !.room = r, !.err = (r = 0)]
  BY DEF Put, Typed
<1> HIDE DEF r
<1> QED BY <1>1, <1>2 DEF Typed

(* So it leaves a writer like the one it was.                              *)
LEMMA PutLike == ASSUME NEW v, Inv(v) PROVE Like(v, Put(v)) /\ Put(v).nodes = v.nodes
<1>1. Typed(Put(v)) /\ Put(v).nodes = v.nodes /\ Put(v).depth = v.depth /\ Put(v).again = v.again
      /\ Put(v).panic = v.panic
  BY PutFacts DEF Inv
<1>2. v.again \/ ~Put(v).panic
  BY Zenon, <1>1 DEF Inv, Level
<1> QED BY <1>1, <1>2, LikeFrames

(* A change of last, or of err.                                            *)
LEMMA LastLike ==
  ASSUME NEW v, Inv(v), NEW e, NEW b \in BOOLEAN
  PROVE  Like(v, [v EXCEPT !.last = e]) /\ Like(v, [v EXCEPT !.err = b])
<1>1. ASSUME NEW u, u = [v EXCEPT !.last = e] \/ u = [v EXCEPT !.err = b] PROVE Like(v, u)
  <2>1. Typed(u) /\ u.nodes = v.nodes /\ u.depth = v.depth /\ u.again = v.again /\ u.panic = v.panic
    BY <1>1 DEF Inv, Typed
  <2>2. v.again \/ ~u.panic
    BY Zenon, <2>1 DEF Inv, Level
  <2> QED BY <2>1, <2>2, LikeFrames
<1> QED BY <1>1

(* The current node is replaced by one that is as far.                     *)
LEMMA RetopLike ==
  ASSUME NEW v, Inv(v), v.nodes # <<>>, NEW n \in Node, n.kind = Top(v).kind, n.state = Top(v).state
  PROVE  Like(v, SetTop(v, n)) /\ Top(SetTop(v, n)) = n
<1> DEFINE t == Front(v.nodes) \o <<n>>
           u == SetTop(v, n)
<1>1. v.nodes \in Seq(Node) /\ Len(v.nodes) <= MaxDepth
  BY DEF Inv, Typed
<1>2. /\ t \in Seq(Node) /\ Len(t) = Len(v.nodes) /\ Last(t) = n
      /\ Levels(t) = Levels(v.nodes) - One(Holds(Last(v.nodes))) + One(Holds(n))
  BY <1>1, LevelsOfTop
<1>3. Levels(t) = Levels(v.nodes)
  <2>1. Holds(n) <=> Holds(Last(v.nodes))
    BY DEF Holds, Top
  <2>2. One(Holds(n)) = One(Holds(Last(v.nodes))) /\ One(Holds(n)) \in Nat
    BY <2>1 DEF One
  <2>3. Levels(v.nodes) \in Nat
    BY <1>1, LevelsType
  <2> QED BY <1>2, <2>2, <2>3
<1> HIDE DEF t
<1>4. u = [v EXCEPT !.nodes = t]
  BY DEF SetTop, t
<1> HIDE DEF u
<1>5. Typed(u) /\ u.nodes = t /\ u.depth = v.depth /\ u.again = v.again /\ u.panic = v.panic
  BY <1>1, <1>2, <1>4 DEF Inv, Typed
<1>6. Level(u)
  BY Zenon, <1>3, <1>5 DEF Inv, Level
<1>7. Top(u) = n
  BY <1>2, <1>5 DEF Top
<1> QED BY <1>2, <1>5, <1>6, <1>7 DEF Like, Inv, u

(* A child may start a line, which the current node takes note of.         *)
LEMMA LinedLike == ASSUME NEW v, Inv(v), NEW e PROVE Like(v, Lined(v, e))
<1>1. CASE v.nodes # <<>> /\ Column(v, e) # NoColumn
  <2> DEFINE n == [Top(v) EXCEPT !.lined = TRUE]
  <2>1. n \in Node /\ n.kind = Top(v).kind /\ n.state = Top(v).state
    BY <1>1, TopFacts DEF Node
  <2> HIDE DEF n
  <2>2. Lined(v, e) = SetTop(v, n)
    BY <1>1 DEF Lined, n
  <2> QED BY <1>1, <2>1, <2>2, RetopLike
<1>2. CASE ~(v.nodes # <<>> /\ Column(v, e) # NoColumn)
  BY <1>2, LikeSelf DEF Lined
<1> QED BY <1>1, <1>2

(* So does the mark that the current node has a child.                     *)
LEMMA CountedLike ==
  ASSUME NEW v, Inv(v), v.nodes # <<>>
  PROVE  LET u == SetTop(v, [Top(v) EXCEPT !.kids = TRUE])
         IN Like(v, u) /\ Top(u) = [Top(v) EXCEPT !.kids = TRUE]
<1> DEFINE n == [Top(v) EXCEPT !.kids = TRUE]
<1>1. n \in Node /\ n.kind = Top(v).kind /\ n.state = Top(v).state
  BY TopFacts DEF Node
<1> HIDE DEF n
<1>2. Like(v, SetTop(v, n)) /\ Top(SetTop(v, n)) = n
  BY <1>1, RetopLike
<1> QED BY <1>2 DEF n

(* The frame of the current level is missing only when a level was left    *)
(* too often.                                                              *)
LEMMA FrameThere ==
  ASSUME NEW v, Inv(v)
  PROVE  /\ v.depth \in -1 .. MaxDepth
         /\ InRange(v) <=> v.depth >= 0
         /\ InRange(v) => v.depth + 1 \in 1 .. Len(v.stack)
         /\ v.again \/ InRange(v)
<1>1. /\ v.depth \in Int /\ Len(v.stack) = v.depth + 1 /\ DOMAIN v.stack = 1 .. Len(v.stack) /\ Len(v.stack) \in Nat
      /\ Levels(v.nodes) \in Nat /\ Levels(v.nodes) <= Len(v.nodes) /\ Len(v.nodes) <= MaxDepth
      /\ Len(v.nodes) \in Nat /\ v.depth <= Levels(v.nodes)
  BY LevelsType, LenProperties DEF Inv, Typed, Level
<1>2. v.depth \in -1 .. MaxDepth /\ (InRange(v) <=> v.depth >= 0)
  BY <1>1, DepthAssumption DEF InRange
<1>3. v.again \/ v.depth >= 0
  <2>1. v.again \/ v.depth = Levels(v.nodes)
    BY Zenon DEF Inv, Level
  <2> QED BY <1>1, <2>1
<1>4. v.depth >= 0 => v.depth + 1 \in 1 .. Len(v.stack)
  BY <1>1
<1> QED BY Zenon, <1>2, <1>3, <1>4

(* A panic changes nothing else.                                           *)
LEMMA PanicFacts ==
  ASSUME NEW v, Typed(v)
  PROVE  LET u == [v EXCEPT !.panic = TRUE]
         IN Typed(u) /\ u.nodes = v.nodes /\ u.depth = v.depth /\ u.again = v.again
<1>1. ASSUME NEW b \in BOOLEAN
      PROVE  LET u == [v EXCEPT !.panic = b]
             IN Typed(u) /\ u.nodes = v.nodes /\ u.depth = v.depth /\ u.again = v.again
  BY DEF Typed
<1> QED BY Zenon, <1>1

(* The indenter is told that a node is about to be opened, or of a leaf:   *)
(* it may count a line.                                                    *)
LEMMA IndentOpen ==
  ASSUME NEW v, Inv(v), NEW e, e.state = "open"
  PROVE  /\ Like(v, Indent(v, e)) /\ Indent(v, e).nodes = v.nodes
         /\ Column(v, e) \in -1 .. MaxDepth
<1>1. CASE NeedsFrame(v, e) /\ ~InRange(v)
  <2>1. Indent(v, e) = [v EXCEPT !.panic = TRUE] /\ Column(v, e) = NoColumn
    BY <1>1 DEF Indent, Column
  <2> DEFINE u == [v EXCEPT !.panic = TRUE]
  <2>2. Typed(u) /\ u.nodes = v.nodes /\ u.depth = v.depth /\ u.again = v.again
    BY PanicFacts DEF Inv
  <2>3. v.again
    BY <1>1, FrameThere
  <2> HIDE DEF u
  <2>4. Like(v, u)
    BY <2>2, <2>3, LikeFrames
  <2>5. -1 \in -1 .. MaxDepth
    BY DepthAssumption
  <2> QED BY <2>1, <2>2, <2>4, <2>5 DEF NoColumn, u
<1>2. CASE ~(NeedsFrame(v, e) /\ ~InRange(v)) /\ StartsLine(v, e)
  <2>1. NeedsFrame(v, e) /\ InRange(v)
    BY <1>2 DEF NeedsFrame
  <2> DEFINE k == [v.stack EXCEPT ![v.depth + 1] = TRUE]
             u == CountLine(v)
  <2>2. k \in Seq(BOOLEAN) /\ Len(k) = Len(v.stack)
    <3>1. v.depth + 1 \in 1 .. Len(v.stack) /\ v.stack \in Seq(BOOLEAN)
      BY <2>1, FrameThere DEF Inv, Typed
    <3> QED BY <3>1, ExceptSeq
  <2>3. u = [v EXCEPT !.stack = k]
    BY Zenon DEF CountLine
  <2>4. Indent(v, e) = u
    BY <1>2 DEF Indent
  <2> HIDE DEF k, u
  <2>5. Typed(u) /\ u.nodes = v.nodes /\ u.depth = v.depth /\ u.again = v.again /\ u.panic = v.panic
    BY <2>2, <2>3 DEF Inv, Typed
  <2>6. v.again \/ ~u.panic
    BY Zenon, <2>5 DEF Inv, Level
  <2>7. Like(v, u)
    BY <2>5, <2>6, LikeFrames
  <2>8. Column(v, e) = u.depth
    BY <1>2, <2>4 DEF Column
  <2> QED BY <2>4, <2>5, <2>7, <2>8, FrameThere
<1>3. CASE ~(NeedsFrame(v, e) /\ ~InRange(v)) /\ ~StartsLine(v, e)
  <2>1. Indent(v, e) = v /\ Column(v, e) = NoColumn
    BY <1>3 DEF Indent, Moved, Column
  <2> QED BY <2>1, LikeSelf, DepthAssumption DEF NoColumn
<1> QED BY <1>1, <1>2, <1>3

(* Telling the indenter that a node is open moves it to no level.          *)
LEMMA TellOpen ==
  ASSUME NEW v, Inv(v), NEW e, e.state = "open"
  PROVE  Like(v, Tell(v, e)) /\ Tell(v, e).nodes = v.nodes
<1>1. Like(v, Indent(v, e)) /\ Indent(v, e).nodes = v.nodes
  BY IndentOpen
<1>2. Like(Indent(v, e), Tell(v, e)) /\ Tell(v, e).nodes = v.nodes
  BY <1>1, PutLike DEF Like, Tell
<1> QED BY <1>1, <1>2, LikeAlong

(* An attribute, an instruction, text: what is no node.                    *)
LEMMA PutLeafLike == ASSUME NEW v, Inv(v), NEW kind PROVE Like(v, PutLeaf(v, kind))
<1> DEFINE e == Event("open", kind, FALSE)
           f == Event("ended", kind, FALSE)
           l == Lined(v, e)
           t == Tell(l, e)
           p == Put(t)
           q == [p EXCEPT !.last = f]
<1>1. e.state = "open"
  BY DEF Event
<1> HIDE DEF e, f
<1>2. Like(v, l)
  BY LinedLike
<1> HIDE DEF l
<1>3. Like(l, t)
  BY <1>1, <1>2, TellOpen DEF Like
<1> HIDE DEF t
<1>4. Like(t, p)
  BY <1>3, PutLike DEF Like
<1> HIDE DEF p
<1>5. Like(p, q)
  BY <1>4, LastLike DEF Like
<1> HIDE DEF q
<1>6. Like(v, t) /\ Like(v, p) /\ Like(v, q)
  BY <1>2, <1>3, <1>4, <1>5, LikeAlong DEF Like
<1>7. PutLeaf(v, kind) \in {t, p, q}
  BY DEF PutLeaf, e, f, l, t, p, q
<1> QED BY <1>6, <1>7

(* The content of a node, refused or not, opens and ends nothing.          *)
LEMMA PutContentLike ==
  ASSUME NEW v, Inv(v), v.nodes # <<>>
  PROVE  Like(v, PutContent(v))
<1> DEFINE o == IF Top(v).kind \in {"elem", "dtd"} THEN Put(v) ELSE v
           k == SetTop(o, [Top(v) EXCEPT !.kids = TRUE])
<1>1. Like(v, o) /\ Inv(o) /\ o.nodes = v.nodes
  BY PutLike, LikeSelf DEF Like
<1>2. Top(o) = Top(v)
  BY <1>1 DEF Top
<1> HIDE DEF o
<1>3. Like(o, k)
  BY <1>1, <1>2, CountedLike
<1>4. Top(v).inner \in {"none", "leaf", "refused"}
  BY TopFacts DEF Node
<1>5. CASE Top(v).inner = "none"
  BY <1>1, <1>5 DEF PutContent, o
<1>6. CASE Top(v).inner = "refused"
  <2>1. PutContent(v) = [o EXCEPT !.err = TRUE]
    BY <1>6 DEF PutContent, o
  <2>2. Like(o, [o EXCEPT !.err = TRUE])
    BY <1>1, LastLike
  <2> QED BY <1>1, <2>1, <2>2, LikeAlong
<1>7. CASE Top(v).inner = "leaf"
  <2>1. PutContent(v) = PutLeaf(k, Inner(Top(v).kind))
    BY <1>7 DEF PutContent, o
  <2>2. Like(k, PutLeaf(k, Inner(Top(v).kind)))
    BY <1>3, PutLeafLike DEF Like
  <2>3. Like(v, k)
    BY <1>1, <1>3, LikeAlong
  <2> QED BY <2>1, <2>2, <2>3, LikeAlong
<1> QED BY <1>4, <1>5, <1>6, <1>7

-----------------------------------------------------------------------------
(* Nodes that change. *)

(* The node on top is replaced: its part in the levels.                    *)
LEMMA SetTopFacts ==
  ASSUME NEW v, Inv(v), v.nodes # <<>>, NEW n \in Node
  PROVE  LET u == SetTop(v, n)
         IN /\ Typed(u) /\ u.nodes # <<>> /\ Top(u) = n /\ Len(u.nodes) = Len(v.nodes)
            /\ Levels(u.nodes) = Levels(v.nodes) - One(Holds(Top(v))) + One(Holds(n))
            /\ u.depth = v.depth /\ u.stack = v.stack /\ u.again = v.again /\ u.panic = v.panic
            /\ Front(u.nodes) \in Seq(Node)
<1> DEFINE t == Front(v.nodes) \o <<n>>
           u == SetTop(v, n)
<1>1. v.nodes \in Seq(Node) /\ Len(v.nodes) <= MaxDepth
  BY DEF Inv, Typed
<1>2. /\ t \in Seq(Node) /\ Len(t) = Len(v.nodes) /\ Last(t) = n /\ t # <<>>
      /\ Levels(t) = Levels(v.nodes) - One(Holds(Last(v.nodes))) + One(Holds(n))
  BY <1>1, LevelsOfTop
<1> HIDE DEF t
<1>3. u = [v EXCEPT !.nodes = t]
  BY DEF SetTop, t
<1> HIDE DEF u
<1>4. Typed(u) /\ u.nodes = t /\ u.depth = v.depth /\ u.stack = v.stack /\ u.again = v.again /\ u.panic = v.panic
  BY <1>1, <1>2, <1>3 DEF Inv, Typed
<1>5. Top(u) = n /\ Front(t) \in Seq(Node)
  BY <1>2, <1>4, LastApart DEF Top
<1>6. Levels(u.nodes) = Levels(v.nodes) - One(Holds(Top(v))) + One(Holds(n))
  BY <1>2, <1>4 DEF Top
<1> QED BY <1>2, <1>4, <1>5, <1>6 DEF u

(* The nodes, and what no invariant looks at, are replaced.                *)
Renewed(v, ns, l, c) == [v EXCEPT !.last = l, !.nodes = ns, !.closed = c]

(* The invariant is about the fields that stay.                            *)
LEMMA RenewedFacts ==
  ASSUME NEW v, Typed(v), NEW ns \in Seq(Node), Len(ns) <= MaxDepth, NEW l, NEW c
  PROVE  LET u == Renewed(v, ns, l, c)
         IN Typed(u) /\ u.nodes = ns /\ u.depth = v.depth /\ u.again = v.again /\ u.panic = v.panic
<1> DEFINE u == Renewed(v, ns, l, c)
<1>1. u = [nodes |-> ns, last |-> l, depth |-> v.depth, stack |-> v.stack, room |-> v.room,
           err |-> v.err, again |-> v.again, panic |-> v.panic, closed |-> c]
  <2>1. ASSUME NEW w, w = [v EXCEPT !.last = l, !.nodes = ns, !.closed = c]
        PROVE  w = [nodes |-> ns, last |-> l, depth |-> v.depth, stack |-> v.stack, room |-> v.room,
                    err |-> v.err, again |-> v.again, panic |-> v.panic, closed |-> c]
    BY <2>1 DEF Typed
  <2> QED BY Zenon, <2>1 DEF Renewed
<1> HIDE DEF u
<1>2. /\ u.nodes = ns /\ u.depth = v.depth /\ u.stack = v.stack /\ u.room = v.room /\ u.err = v.err
      /\ u.again = v.again /\ u.panic = v.panic /\ u.last = l /\ u.closed = c
  BY SMT, <1>1
<1>3. Typed(u)
  BY Zenon, <1>1, <1>2 DEF Typed
<1> QED BY Zenon, <1>2, <1>3 DEF u

(* The stack of frames is replaced, and the depth with it.                 *)
Relevelled(v, q, d) == [v EXCEPT !.stack = q, !.depth = d]

(* The frames and the depth agree if they are replaced together.           *)
LEMMA RelevelledFacts ==
  ASSUME NEW v, Typed(v), NEW q \in Seq(BOOLEAN), NEW d \in Int, Len(q) = d + 1
  PROVE  LET u == Relevelled(v, q, d)
         IN Typed(u) /\ u.nodes = v.nodes /\ u.depth = d /\ u.again = v.again /\ u.panic = v.panic
<1> DEFINE u == Relevelled(v, q, d)
<1>1. u = [nodes |-> v.nodes, last |-> v.last, depth |-> d, stack |-> q, room |-> v.room,
           err |-> v.err, again |-> v.again, panic |-> v.panic, closed |-> v.closed]
  <2>1. ASSUME NEW w, w = [v EXCEPT !.stack = q, !.depth = d]
        PROVE  w = [nodes |-> v.nodes, last |-> v.last, depth |-> d, stack |-> q, room |-> v.room,
                    err |-> v.err, again |-> v.again, panic |-> v.panic, closed |-> v.closed]
    BY <2>1 DEF Typed
  <2> QED BY Zenon, <2>1 DEF Relevelled
<1> HIDE DEF u
<1>2. /\ u.nodes = v.nodes /\ u.depth = d /\ u.stack = q /\ u.room = v.room /\ u.err = v.err
      /\ u.again = v.again /\ u.panic = v.panic /\ u.last = v.last /\ u.closed = v.closed
  BY SMT, <1>1
<1>3. Typed(u)
  BY Zenon, <1>1, <1>2 DEF Typed
<1> QED BY Zenon, <1>2, <1>3 DEF u

(* A level is entered and left with its frame.                             *)
LEMMA LevelFacts ==
  ASSUME NEW v, Typed(v)
  PROVE  /\ LET u == EnterLevel(v)
            IN /\ Typed(u) /\ u.nodes = v.nodes /\ u.depth = v.depth + 1 /\ u.again = v.again /\ u.panic = v.panic
         /\ InRange(v) =>
              LET u == LeaveLevel(v)
              IN /\ Typed(u) /\ u.nodes = v.nodes /\ u.depth = v.depth - 1 /\ u.again = v.again /\ u.panic = v.panic
<1>1. v.stack \in Seq(BOOLEAN) /\ v.depth \in Int /\ Len(v.stack) = v.depth + 1
  BY DEF Typed
<1>2. v.depth + 1 \in Int /\ v.depth - 1 \in Int
  BY <1>1
<1>3. Append(v.stack, FALSE) \in Seq(BOOLEAN) /\ Len(Append(v.stack, FALSE)) = (v.depth + 1) + 1
  BY <1>1, AppendProperties
<1>4. InRange(v) => Front(v.stack) \in Seq(BOOLEAN) /\ Len(Front(v.stack)) = (v.depth - 1) + 1
  <2>1. InRange(v) => v.stack # <<>>
    BY <1>1, LenProperties, EmptySeq DEF InRange
  <2> QED BY <1>1, <2>1, LastApart
<1>5. EnterLevel(v) = Relevelled(v, Append(v.stack, FALSE), v.depth + 1)
  BY DEF EnterLevel, Relevelled
<1>6. LeaveLevel(v) = Relevelled(v, Front(v.stack), v.depth - 1)
  BY DEF LeaveLevel, Relevelled, Typed
<1>7. LET u == Relevelled(v, Append(v.stack, FALSE), v.depth + 1)
      IN Typed(u) /\ u.nodes = v.nodes /\ u.depth = v.depth + 1 /\ u.again = v.again /\ u.panic = v.panic
  BY Zenon, <1>2, <1>3, RelevelledFacts
<1>8. InRange(v) =>
        LET u == Relevelled(v, Front(v.stack), v.depth - 1)
        IN Typed(u) /\ u.nodes = v.nodes /\ u.depth = v.depth - 1 /\ u.again = v.again /\ u.panic = v.panic
  BY Zenon, <1>2, <1>4, RelevelledFacts
<1> QED BY Zenon, <1>5, <1>6, <1>7, <1>8

(* node.opened: the node and the indenter enter a level together.          *)
LEMMA TellOpened ==
  ASSUME NEW v, Inv(v), v.nodes # <<>>, Top(v).state = "open",
         NEW n \in Node, n.kind = Top(v).kind, n.state = "opened"
  PROVE  LET t == Tell(SetTop(v, n), EventOf(n))
         IN Inv(t) /\ t.nodes # <<>> /\ Top(t) = n /\ Len(t.nodes) = Len(v.nodes) /\ t.again = v.again
<1> DEFINE x == SetTop(v, n)
           e == EventOf(n)
           y == Indent(x, e)
           t == Put(y)
<1>1. /\ Typed(x) /\ x.nodes # <<>> /\ Top(x) = n /\ Len(x.nodes) = Len(v.nodes)
      /\ Levels(x.nodes) = Levels(v.nodes) + One(Holds(n)) /\ One(Holds(n)) \in Nat
      /\ x.depth = v.depth /\ x.again = v.again /\ x.panic = v.panic
  <2>1. One(Holds(Top(v))) = 0 /\ One(Holds(n)) \in Nat
    BY DEF One, Holds
  <2>2. Levels(v.nodes) \in Nat
    BY LevelsType DEF Inv, Typed
  <2>3. Levels(x.nodes) = Levels(v.nodes) - One(Holds(Top(v))) + One(Holds(n))
    BY SetTopFacts
  <2> QED BY <2>1, <2>2, <2>3, SetTopFacts
<1>2. e.state = "opened" /\ e.node = n.kind
  BY DEF EventOf, Event
<1> HIDE DEF x, e
<1>3. y = IF n.kind \in Indenting THEN EnterLevel(x) ELSE x
  BY <1>2 DEF Indent, NeedsFrame, StartsLine, Moved
<1> HIDE DEF y
<1>4. Typed(y) /\ y.nodes = x.nodes /\ y.depth = v.depth + One(Holds(n)) /\ y.again = v.again /\ y.panic = v.panic
  <2>1. v.depth \in Int
    BY DEF Inv, Typed
  <2>2. Holds(n) <=> n.kind \in Indenting
    BY DEF Holds
  <2> QED BY <1>1, <1>3, <2>1, <2>2, LevelFacts DEF One
<1>5. Typed(t) /\ t.nodes = x.nodes /\ t.depth = v.depth + One(Holds(n)) /\ t.again = v.again /\ t.panic = v.panic
  BY <1>4, PutFacts
<1> HIDE DEF t
<1>6. Level(t)
  <2>1. v.depth \in Int /\ Levels(v.nodes) \in Nat /\ v.depth <= Levels(v.nodes)
    BY LevelsType DEF Inv, Typed, Level
  <2>2. t.depth <= Levels(t.nodes)
    BY <1>1, <1>5, <2>1
  <2>3. v.depth = Levels(v.nodes) => t.depth = Levels(t.nodes)
    BY <1>1, <1>5, <2>1
  <2> QED BY Zenon, <1>5, <2>2, <2>3 DEF Inv, Level
<1>7. Top(t) = n
  BY <1>1, <1>5 DEF Top
<1> QED BY <1>1, <1>5, <1>6, <1>7 DEF Inv, Tell, t, x, e, y

(* node.end: so do they leave it, unless the node was at its end already.  *)
LEMMA TellEnded ==
  ASSUME NEW v, Inv(v), v.nodes # <<>>, Top(v).state # "open",
         NEW n \in Node, n.kind = Top(v).kind, n.state = "ended"
  PROVE  LET t == [Tell(SetTop(v, n), EventOf(n)) EXCEPT !.again = v.again \/ Top(v).state = "ended"]
         IN Inv(t) /\ t.nodes # <<>> /\ Top(t) = n /\ Len(t.nodes) = Len(v.nodes)
<1> DEFINE x == SetTop(v, n)
           e == EventOf(n)
           y == Indent(x, e)
           p == Put(y)
           b == v.again \/ Top(v).state = "ended"
           t == [p EXCEPT !.again = b]
<1>1. Levels(v.nodes) \in Nat /\ One(Holds(Top(v))) \in {0, 1} /\ One(Holds(n)) = 0 /\ v.depth \in Int
      /\ v.depth <= Levels(v.nodes) /\ v.again \in BOOLEAN
  BY LevelsType DEF Inv, Typed, Level, One, Holds
<1>2. /\ Typed(x) /\ x.nodes # <<>> /\ Top(x) = n /\ Len(x.nodes) = Len(v.nodes)
      /\ Levels(x.nodes) = Levels(v.nodes) - One(Holds(Top(v)))
      /\ x.depth = v.depth /\ x.stack = v.stack /\ x.again = v.again /\ x.panic = v.panic
  <2>1. Levels(x.nodes) = Levels(v.nodes) - One(Holds(Top(v))) + One(Holds(n))
    BY SetTopFacts
  <2>2. Levels(x.nodes) = Levels(v.nodes) - One(Holds(Top(v)))
    BY <1>1, <2>1
  <2> QED BY <2>2, SetTopFacts
<1>3. Levels(x.nodes) \in Nat /\ (InRange(x) <=> InRange(v))
  BY <1>2, LevelsType DEF Typed, InRange
<1>4. e.state = "ended" /\ e.node = n.kind
  BY DEF EventOf, Event
<1> HIDE DEF x, e
<1>5. \/ n.kind \notin Indenting /\ y = x
      \/ n.kind \in Indenting /\ InRange(x) /\ y = LeaveLevel(x)
      \/ n.kind \in Indenting /\ ~InRange(x) /\ y = [x EXCEPT !.panic = TRUE]
  BY <1>4 DEF Indent, NeedsFrame, StartsLine, Moved
<1> HIDE DEF y
<1>6. /\ Typed(y) /\ y.nodes = x.nodes /\ y.depth <= Levels(x.nodes) /\ y.depth \in Int
      /\ b \/ (y.depth = Levels(x.nodes) /\ ~y.panic)
  <2>1. v.again \/ (v.depth = Levels(v.nodes) /\ ~v.panic)
    BY Zenon DEF Inv, Level
  <2>2. CASE n.kind \notin Indenting /\ y = x
    <3>1. One(Holds(Top(v))) = 0
      BY <2>2 DEF One, Holds
    <3> QED BY <1>1, <1>2, <2>1, <2>2, <3>1
  <2>3. CASE n.kind \in Indenting /\ InRange(x) /\ y = LeaveLevel(x)
    <3>1. Typed(y) /\ y.nodes = x.nodes /\ y.depth = x.depth - 1 /\ y.panic = x.panic
      BY <1>2, <2>3, LevelFacts
    <3>2. Top(v).state # "ended" => One(Holds(Top(v))) = 1
      <4>1. Top(v).state \in {"open", "opened", "ended"}
        BY TopFacts DEF Node
      <4> QED BY <2>3, <4>1 DEF One, Holds
    <3> QED BY <1>1, <1>2, <2>1, <3>1, <3>2
  <2>4. CASE n.kind \in Indenting /\ ~InRange(x) /\ y = [x EXCEPT !.panic = TRUE]
    <3>1. Typed(y) /\ y.nodes = x.nodes /\ y.depth = x.depth
      BY <1>2, <2>4, PanicFacts
    <3>2. v.again /\ v.depth < 0
      <4>1. ~InRange(v)
        BY <1>3, <2>4
      <4> QED BY <1>1, <4>1, FrameThere
    <3> QED BY <1>1, <1>2, <1>3, <3>1, <3>2
  <2> QED BY <1>5, <2>2, <2>3, <2>4
<1>7. /\ Typed(p) /\ p.nodes = x.nodes /\ p.depth = y.depth /\ p.panic = y.panic
  BY <1>6, PutFacts
<1> HIDE DEF p
<1>8. ASSUME NEW c \in BOOLEAN, NEW u, u = [p EXCEPT !.again = c]
      PROVE  Typed(u) /\ u.nodes = p.nodes /\ u.depth = p.depth /\ u.panic = p.panic /\ u.again = c
  BY <1>7, <1>8 DEF Typed
<1>9. b \in BOOLEAN
  BY Zenon
<1> HIDE DEF b
<1>10. Typed(t) /\ t.nodes = x.nodes /\ t.depth = y.depth /\ t.panic = y.panic /\ t.again = b
  BY <1>7, <1>8, <1>9
<1> HIDE DEF t
<1>11. Level(t)
  BY Zenon, <1>6, <1>10 DEF Level
<1>12. Top(t) = n
  BY <1>2, <1>10 DEF Top
<1> QED BY <1>2, <1>10, <1>11, <1>12 DEF Inv, Tell, t, p, x, e, y, b

(* node.opened, however far it gets.                                       *)
LEMMA OpenedInv ==
  ASSUME NEW v, Inv(v), v.nodes # <<>>, Top(v).state = "open"
  PROVE  /\ Inv(Opened(v)) /\ Opened(v).nodes # <<>> /\ Len(Opened(v).nodes) = Len(v.nodes)
         /\ Top(Opened(v)).state = "opened"
<1> DEFINE n == [Top(v) EXCEPT !.state = "opened"]
           t == Tell(SetTop(v, n), EventOf(n))
           c == PutContent(t)
           q == [c EXCEPT !.last = EventOf(Top(c))]
<1>1. n \in Node /\ n.kind = Top(v).kind /\ n.state = "opened"
  BY TopFacts DEF Node
<1> HIDE DEF n
<1>2. Inv(t) /\ t.nodes # <<>> /\ Top(t) = n /\ Len(t.nodes) = Len(v.nodes)
  BY <1>1, TellOpened
<1> HIDE DEF t
<1>3. Like(t, c)
  BY <1>2, PutContentLike
<1> HIDE DEF c
<1>4. Like(c, q)
  BY <1>3, LastLike DEF Like
<1> HIDE DEF q
<1>5. Like(t, t) /\ Like(t, q)
  BY <1>2, <1>3, <1>4, LikeAlong, LikeSelf
<1>6. ASSUME NEW u, Like(t, u)
      PROVE  Inv(u) /\ u.nodes # <<>> /\ Len(u.nodes) = Len(v.nodes) /\ Top(u).state = "opened"
  <2>1. u.nodes \in Seq(Node) /\ t.nodes \in Seq(Node) /\ Len(u.nodes) = Len(t.nodes)
    BY <1>2, <1>6 DEF Like, Inv, Typed
  <2>2. u.nodes # <<>>
    BY <1>2, <2>1, EmptySeq
  <2> QED BY <1>1, <1>2, <1>6, <2>2 DEF Like
<1>7. Opened(v) = t \/ Opened(v) = q
  BY DEF Opened, n, t, c, q
<1> QED BY <1>5, <1>6, <1>7

(* Writer.Next keeps the invariant, and the number of nodes.               *)
LEMMA NextChildInv ==
  ASSUME NEW v, Inv(v)
  PROVE  Inv(NextChild(v)) /\ Len(NextChild(v).nodes) = Len(v.nodes)
<1>1. CASE v.nodes = <<>>
  BY <1>1 DEF NextChild, Counted
<1>2. CASE v.nodes # <<>>
  <2> DEFINE c == SetTop(v, [Top(v) EXCEPT !.kids = TRUE])
  <2>1. Like(v, c) /\ Top(c).state = Top(v).state
    BY <1>2, CountedLike DEF Like
  <2>2. Counted(v) = c
    BY <1>2 DEF Counted
  <2> HIDE DEF c
  <2>3. Inv(c) /\ c.nodes # <<>> /\ Len(c.nodes) = Len(v.nodes)
    <3>1. c.nodes \in Seq(Node) /\ v.nodes \in Seq(Node) /\ Len(c.nodes) = Len(v.nodes)
      BY <2>1 DEF Like, Inv, Typed
    <3> QED BY <1>2, <2>1, <3>1, EmptySeq DEF Like
  <2>4. CASE Top(v).state = "open"
    <3>1. NextChild(v) = Opened(c)
      BY <1>2, <2>2, <2>4 DEF NextChild
    <3> QED BY <2>1, <2>3, <2>4, <3>1, OpenedInv
  <2>5. CASE Top(v).state # "open"
    BY <1>2, <2>2, <2>3, <2>5 DEF NextChild
  <2> QED BY <2>4, <2>5
<1> QED BY <1>1, <1>2

(* node.open: the new node holds no level yet.                             *)
LEMMA PushInv ==
  ASSUME NEW v, Inv(v), Len(v.nodes) < MaxDepth, NEW kind \in Startables,
         NEW inner \in {"none", "leaf", "refused"}
  PROVE  Inv(Push(v, kind, inner))
<1> DEFINE e == Event("open", kind, FALSE)
           n == [kind |-> kind, state |-> "open", kids |-> FALSE, inner |-> inner,
                 column |-> Column(v, e), lined |-> FALSE]
           l == Lined(v, e)
           m == Tell(l, e)
           ns == Append(l.nodes, n)
           t == [m EXCEPT !.nodes = ns]
           p == Put(t)
           q == [p EXCEPT !.last = e]
<1>1. e.state = "open"
  BY DEF Event
<1> HIDE DEF e
<1>2. n \in Node /\ ~Holds(n)
  BY <1>1, IndentOpen DEF Node, Holds
<1> HIDE DEF n
<1>3. Inv(l) /\ Len(l.nodes) = Len(v.nodes)
  BY LinedLike DEF Like
<1> HIDE DEF l
<1>4. Inv(m) /\ m.nodes = l.nodes
  BY <1>1, <1>3, TellOpen DEF Like
<1> HIDE DEF m
<1>5. /\ ns \in Seq(Node) /\ Len(ns) = Len(l.nodes) + 1 /\ Len(l.nodes) \in Nat
      /\ Levels(ns) = Levels(m.nodes)
  <2>1. l.nodes \in Seq(Node)
    BY <1>3 DEF Inv, Typed
  <2>2. Levels(ns) = Levels(l.nodes) + One(Holds(n)) /\ One(Holds(n)) = 0 /\ Levels(l.nodes) \in Nat
    BY <1>2, <2>1, LevelsOfAppend, LevelsType DEF One
  <2>3. Levels(ns) = Levels(m.nodes)
    BY <1>4, <2>2
  <2>4. ns \in Seq(Node) /\ Len(ns) = Len(l.nodes) + 1 /\ Len(l.nodes) \in Nat
    BY <1>2, <2>1, AppendProperties, LenProperties
  <2> QED BY <2>3, <2>4
<1> HIDE DEF ns
<1>6. Len(ns) <= MaxDepth
  BY <1>3, <1>5, DepthAssumption
<1>7. Typed(t) /\ t.nodes = ns /\ t.depth = m.depth /\ t.again = m.again /\ t.panic = m.panic
  <2>1. Typed(m)
    BY <1>4 DEF Inv
  <2>2. t = Renewed(m, ns, m.last, m.closed)
    <3> HIDE DEF ns
    <3>1. ASSUME NEW v2, Typed(v2), NEW ns2
          PROVE  [v2 EXCEPT !.nodes = ns2] = Renewed(v2, ns2, v2.last, v2.closed)
      BY <3>1 DEF Typed, Renewed
    <3> QED BY Zenon, <2>1, <3>1
  <2> HIDE DEF t
  <2> QED BY <1>5, <1>6, <2>1, <2>2, RenewedFacts
<1> HIDE DEF t
<1>8. Level(t)
  BY Zenon, <1>4, <1>5, <1>7 DEF Inv, Level
<1>9. Inv(p)
  BY <1>7, <1>8, PutLike DEF Like, Inv
<1> HIDE DEF p
<1>10. Inv(q)
  BY <1>9, LastLike DEF Like
<1>11. Push(v, kind, inner) = t \/ Push(v, kind, inner) = q
  BY DEF Push, e, n, l, m, ns, t, p, q
<1> QED BY <1>7, <1>8, <1>10, <1>11 DEF Inv

(* The second half of node.end, and pop: the node holds no level any more. *)
LEMMA EndedInv ==
  ASSUME NEW v, Inv(v), v.nodes # <<>>, Top(v).state # "open"
  PROVE  Inv(Ended(v))
<1> DEFINE n == [Top(v) EXCEPT !.state = "ended"]
           e == EventOf(n)
           t == [Tell(SetTop(v, n), e) EXCEPT !.again = v.again \/ Top(v).state = "ended"]
           p == IF n.kind = "doc" THEN t ELSE Put(t)
           c == [begin |-> n.column, end |-> Column(v, e), lined |-> n.lined]
           q == [p EXCEPT !.last = e]
           f == Front(p.nodes)
           r == [p EXCEPT !.last = e, !.nodes = f, !.closed = c]
<1>1. n \in Node /\ n.kind = Top(v).kind /\ n.state = "ended" /\ ~Holds(n)
  BY TopFacts DEF Node, Holds
<1>2. Ended(v) \in {t, q, r}
  BY DEF Ended
<1> HIDE DEF n
<1>3. Inv(t) /\ t.nodes # <<>> /\ Top(t) = n
  BY <1>1, TellEnded
<1> HIDE DEF t
<1>4. Inv(p) /\ p.nodes = t.nodes
  BY <1>3, PutLike DEF Like
<1> HIDE DEF p, e, c
<1>5. Inv(q)
  BY <1>4, LastLike DEF Like
<1>6. f \in Seq(Node) /\ Len(f) <= MaxDepth /\ Levels(f) = Levels(p.nodes)
  <2>1. p.nodes \in Seq(Node) /\ p.nodes # <<>> /\ Last(p.nodes) = n /\ Len(p.nodes) <= MaxDepth
    BY <1>3, <1>4 DEF Top, Inv, Typed
  <2>2. f \in Seq(Node) /\ Len(f) = Len(p.nodes) - 1 /\ Levels(f) = Levels(p.nodes) - One(Holds(Last(p.nodes)))
    BY <1>1, <2>1, LevelsOfTop
  <2>3. Levels(p.nodes) \in Nat /\ Len(p.nodes) \in Nat /\ One(Holds(n)) = 0
    BY <1>1, <2>1, LevelsType, LenProperties DEF One
  <2>4. Levels(f) = Levels(p.nodes)
    BY <2>1, <2>2, <2>3
  <2>5. Len(f) <= MaxDepth
    BY <2>1, <2>2, <2>3, DepthAssumption
  <2> QED BY <2>2, <2>4, <2>5
<1> HIDE DEF f
<1>7. Typed(r) /\ r.nodes = f /\ r.depth = p.depth /\ r.again = p.again /\ r.panic = p.panic
  <2>1. r = Renewed(p, f, e, c)
    BY Zenon DEF Renewed
  <2>2. Typed(p)
    BY <1>4 DEF Inv
  <2> HIDE DEF r
  <2> QED BY <1>6, <2>1, <2>2, RenewedFacts
<1> HIDE DEF r
<1>8. Level(r)
  BY Zenon, <1>4, <1>6, <1>7 DEF Inv, Level
<1> QED BY <1>2, <1>3, <1>5, <1>7, <1>8 DEF Inv

(* The whole of node.end, and pop, keep the invariant.                     *)
LEMMA EndTopInv ==
  ASSUME NEW v, Inv(v), v.nodes # <<>>
  PROVE  Inv(EndTop(v))
<1>1. CASE Top(v).state = "open"
  <2>1. Inv(Opened(v)) /\ Opened(v).nodes # <<>> /\ Top(Opened(v)).state = "opened"
    BY <1>1, OpenedInv
  <2> QED BY <1>1, <2>1, EndedInv DEF EndTop
<1>2. CASE Top(v).state # "open"
  BY <1>2, EndedInv DEF EndTop
<1> QED BY <1>1, <1>2

-----------------------------------------------------------------------------
(* The calls, and the theorems. *)

(* What a call begins with, and what it leaves.                            *)
Given(room) == [s EXCEPT !.room = room, !.err = FALSE, !.closed = NoneClosed]

Called(c) == s' = [c EXCEPT !.room = IF c.room = 0 THEN 0 ELSE Unlimited, !.err = FALSE]

(* The invariant does not depend on the sink a call is given,              *)
LEMMA GivenInv ==
  ASSUME Inv(s), NEW room \in {0} \cup Rooms
  PROVE  Inv(Given(room)) /\ Given(room).nodes = s.nodes
<1>1. room \in Int /\ FALSE \in BOOLEAN
  BY DEF Rooms, Unlimited
<1>2. ASSUME NEW b \in BOOLEAN, NEW c, NEW u, u = [s EXCEPT !.room = room, !.err = b, !.closed = c]
      PROVE  Typed(u) /\ u.nodes = s.nodes /\ u.depth = s.depth /\ u.again = s.again /\ u.panic = s.panic
  <2>1. u = [nodes |-> s.nodes, last |-> s.last, depth |-> s.depth, stack |-> s.stack, room |-> room,
             err |-> b, again |-> s.again, panic |-> s.panic, closed |-> c]
    BY <1>2 DEF Inv, Typed
  <2>2. /\ u.nodes = s.nodes /\ u.depth = s.depth /\ u.stack = s.stack /\ u.room = room /\ u.err = b
        /\ u.again = s.again /\ u.panic = s.panic /\ u.last = s.last /\ u.closed = c
    BY SMT, <2>1
  <2>3. Typed(u)
    BY Zenon, <1>1, <1>2, <2>1, <2>2 DEF Inv, Typed
  <2> QED BY Zenon, <2>2, <2>3
<1>3. /\ Typed(Given(room)) /\ Given(room).nodes = s.nodes /\ Given(room).depth = s.depth
      /\ Given(room).again = s.again /\ Given(room).panic = s.panic
  <2>1. Given(room) = [s EXCEPT !.room = room, !.err = FALSE, !.closed = NoneClosed]
    BY Zenon DEF Given
  <2> QED BY <1>1, <1>2, <2>1, ZenonT(40)
<1> QED BY Zenon, <1>3 DEF Inv, Level

(* or on what is reset after the call.                                     *)
LEMMA CalledInv == ASSUME NEW c, Inv(c), Called(c) PROVE SInv'
<1> DEFINE r == IF c.room = 0 THEN 0 ELSE Unlimited
<1>1. r \in {0, Unlimited} /\ r \in Int
  BY DEF Unlimited
<1>2. s' = [c EXCEPT !.room = r, !.err = FALSE]
  BY DEF Called
<1> HIDE DEF r
<1>3. /\ Typed(s') /\ s'.nodes = c.nodes /\ s'.depth = c.depth /\ s'.again = c.again /\ s'.panic = c.panic
      /\ s'.room = r /\ s'.err = FALSE
  BY <1>1, <1>2 DEF Inv, Typed
<1>4. Level(s')
  BY Zenon, <1>3 DEF Inv, Level
<1> QED BY <1>1, <1>3, <1>4 DEF SInv, Inv

(* Every call keeps the invariant.                                         *)
LEMMA StepKeeps == ASSUME SInv, Next PROVE SInv'
<1>1. Inv(s)
  BY DEF SInv
<1>2. CASE Start
  <2>1. PICK kind \in Startables, inner \in {"none", "leaf", "refused"}, room \in {0} \cup Rooms :
          LET v == Given(room)
          IN Called(IF NextChild(v).err THEN NextChild(v) ELSE Push(NextChild(v), kind, inner))
    BY <1>2, ZenonT(60) DEF Start, Do, Called, Given
  <2>2. Inv(NextChild(Given(room))) /\ Len(NextChild(Given(room)).nodes) < MaxDepth
    BY <1>1, <1>2, GivenInv, NextChildInv DEF Start
  <2>3. Inv(Push(NextChild(Given(room)), kind, inner))
    BY <2>2, PushInv
  <2> QED BY <2>1, <2>2, <2>3, CalledInv
<1>3. CASE Write
  <2>1. PICK kind \in Leaves, room \in {0} \cup Rooms :
          Called(PutLeaf([NextChild(Given(room)) EXCEPT !.err = FALSE], kind))
    BY <1>3 DEF Write, Do, Called, Given
  <2>2. Inv(NextChild(Given(room)))
    BY <1>1, GivenInv, NextChildInv
  <2>3. Inv([NextChild(Given(room)) EXCEPT !.err = FALSE])
    BY <2>2, LastLike DEF Like
  <2> QED BY <2>1, <2>3, PutLeafLike, CalledInv DEF Like
<1>4. CASE WriteLoose
  <2>1. PICK kind \in Leaves, room \in {0} \cup Rooms : Called(PutLeaf(Given(room), kind))
    BY <1>4 DEF WriteLoose, Do, Called, Given, Leaves
  <2> QED BY <1>1, <2>1, GivenInv, PutLeafLike, CalledInv DEF Like
<1>5. CASE CallNext
  <2>1. PICK room \in {0} \cup Rooms : Called(NextChild(Given(room)))
    BY <1>5 DEF CallNext, Do, Called, Given
  <2> QED BY <1>1, <2>1, GivenInv, NextChildInv, CalledInv
<1>6. CASE End
  <2>1. PICK room \in {0} \cup Rooms : Called(EndTop(Given(room))) /\ s.nodes # <<>>
    BY <1>6 DEF End, Do, Called, Given
  <2> QED BY <1>1, <2>1, GivenInv, EndTopInv, CalledInv
<1> QED BY <1>2, <1>3, <1>4, <1>5, <1>6 DEF Next

(* It holds at the start.                                                  *)
LEMMA InitInv == ASSUME Init PROVE SInv
<1>1. Held(<<>>) = {}
  BY DEF Held
<1>2. Levels(s.nodes) = 0
  BY <1>1, FS_EmptySet DEF Init, Levels
<1>3. Typed(s) /\ s.depth = 0 /\ s.panic = FALSE /\ s.room = Unlimited /\ s.err = FALSE
  BY DepthAssumption DEF Init, Typed, Unlimited
<1> QED BY <1>2, <1>3 DEF SInv, Inv, Level

(* The invariant holds initially and after every call.                     *)
THEOREM IndenterInvariance == Spec => []SInv
<1>1. Init => SInv
  BY InitInv
<1>2. SInv /\ [Next]_s => SInv'
  <2>1. ASSUME SInv, UNCHANGED s PROVE SInv'
    BY <2>1 DEF SInv
  <2> QED BY <2>1, StepKeeps
<1> QED BY <1>1, <1>2, PTL DEF Spec

(* The state of the indenter and of its writer keeps its type.             *)
THEOREM IndenterTypes == Spec => []TypeOK
<1>1. SInv => TypeOK
  BY FrameThere DEF SInv, Inv, Typed, TypeOK
<1> QED BY <1>1, IndenterInvariance, PTL

(* The indenter has a level, and a frame for it, for each opened node that *)
(* is to be indented, whatever fails and however deep the stack is, unless *)
(* a node whose end failed has been ended again.                           *)
THEOREM IndenterFollows == Spec => []LevelsMatch
<1>1. SInv => LevelsMatch
  BY DEF SInv, Inv, Typed, Level, LevelsMatch, Levels, Held, Holds, Quantify
<1> QED BY <1>1, IndenterInvariance, PTL

(* The only way into the panic is to end again a node whose end failed.    *)
THEOREM PanicNeedsSecondEnd == Spec => [](s.panic => s.again)
<1>1. SInv => (s.panic => s.again)
  BY Zenon DEF SInv, Inv, Level
<1> QED BY <1>1, IndenterInvariance, PTL
-----------------------------------------------------------------------------
(* The lines of closing tags.  As long as the sink has not broken, each    *)
(* node below the current one is opened, the column of a node is the       *)
(* number of levels below it, and a frame with a line in it is that of a   *)
(* node which knows of the line.                                           *)

(* The levels below the i-th node.                                         *)
Below(nodes, i) == Cardinality({j \in 1 .. i - 1 : Holds(nodes[j])})

Aligned(nodes, stack) ==
  \A i \in 1 .. Len(nodes) :
    LET n == nodes[i] IN
    /\ n.state # "ended" /\ (i < Len(nodes) => n.state = "opened")
    /\ i > 1 => n.kind # "doc"
    /\ n.inner # "none" => n.kind \in WithInner
    /\ n.column = NoColumn \/ n.column = Below(nodes, i)
    /\ Holds(n) /\ stack[Below(nodes, i) + 2] => n.lined

(* A sink that has broken takes nothing more, so no call closes anything.  *)
Sound(v) == v.room # 0 => ~v.again /\ Aligned(v.nodes, v.stack)

Still(v, u) == (v.room = 0 => u.room = 0) /\ u.closed = v.closed

CInv == SInv /\ Sound(s) /\ ClosersAlign

(* Counting from below.                                                    *)
LEMMA BelowCounts ==
  ASSUME NEW nodes \in Seq(Node), NEW i \in 1 .. Len(nodes)
  PROVE  /\ Below(nodes, i) \in Nat
         /\ Below(nodes, i + 1) = Below(nodes, i) + One(Holds(nodes[i]))
<1> DEFINE S == {j \in 1 .. i - 1 : Holds(nodes[j])}
           T == {j \in 1 .. (i + 1) - 1 : Holds(nodes[j])}
<1>1. i \in Nat /\ i >= 1
  BY LenProperties
<1>2. IsFiniteSet(1 .. i - 1)
  BY <1>1, FS_Interval
<1>3. IsFiniteSet(S) /\ i \notin S
  BY <1>1, <1>2, FS_Subset
<1>4. Cardinality(S) \in Nat
  BY <1>3, FS_CardinalityType
<1>5. CASE Holds(nodes[i])
  <2>1. T = S \cup {i}
    BY <1>1, <1>5
  <2>2. Cardinality(T) = Cardinality(S) + 1
    BY <1>3, <2>1, FS_AddElement
  <2> QED
    BY <1>4, <1>5, <2>2 DEF Below, One
<1>6. CASE ~Holds(nodes[i])
  <2>1. T = S
    BY <1>1, <1>6
  <2> HIDE DEF S, T
  <2>2. Below(nodes, i) = Cardinality(S) /\ Below(nodes, i + 1) = Cardinality(T)
    BY Zenon DEF Below, S, T
  <2> QED
    BY <1>4, <1>6, <2>1, <2>2 DEF One
<1> QED
  BY <1>5, <1>6

(* More nodes hold no fewer levels.                                        *)
LEMMA BelowGrows ==
  ASSUME NEW nodes \in Seq(Node), NEW i \in 1 .. Len(nodes) + 1, NEW j \in 1 .. Len(nodes) + 1, i <= j
  PROVE  Below(nodes, i) \in Nat /\ Below(nodes, j) \in Nat /\ Below(nodes, i) <= Below(nodes, j)
<1> DEFINE S == {k \in 1 .. i - 1 : Holds(nodes[k])}
           T == {k \in 1 .. j - 1 : Holds(nodes[k])}
<1>1. i \in Nat /\ j \in Nat /\ i - 1 \in Nat /\ j - 1 \in Nat
  BY LenProperties
<1>2. S \subseteq T
  BY <1>1
<1>3. IsFiniteSet(T)
  <2>1. IsFiniteSet(1 .. j - 1)
    BY <1>1, FS_Interval
  <2>2. T \subseteq 1 .. j - 1
    OBVIOUS
  <2> QED
    BY <2>1, <2>2, FS_Subset
<1> HIDE DEF S, T
<1>4. IsFiniteSet(S) /\ Cardinality(S) <= Cardinality(T) /\ Cardinality(S) \in Nat /\ Cardinality(T) \in Nat
  BY <1>2, <1>3, FS_Subset, FS_CardinalityType
<1> QED
  BY <1>4 DEF Below, S, T

(* The levels below depend on the nodes below only.                        *)
LEMMA BelowSame ==
  ASSUME NEW nodes, NEW others, NEW i \in Int, \A j \in 1 .. i - 1 : nodes[j] = others[j]
  PROVE  Below(nodes, i) = Below(others, i)
<1>1. {j \in 1 .. i - 1 : Holds(nodes[j])} = {j \in 1 .. i - 1 : Holds(others[j])}
  OBVIOUS
<1> QED
  BY <1>1 DEF Below

(* All the levels are those below the next node.                           *)
LEMMA BelowAll ==
  ASSUME NEW nodes \in Seq(Node)
  PROVE  /\ Levels(nodes) = Below(nodes, Len(nodes) + 1)
         /\ nodes # <<>> => Levels(nodes) = Below(nodes, Len(nodes)) + One(Holds(Last(nodes)))
<1>1. Len(nodes) \in Nat /\ DOMAIN nodes = 1 .. Len(nodes)
  BY LenProperties
<1>2. Levels(nodes) = Below(nodes, Len(nodes) + 1)
  <2>1. Held(nodes) = {j \in 1 .. (Len(nodes) + 1) - 1 : Holds(nodes[j])}
    BY <1>1 DEF Held
  <2> QED
    BY <2>1, Zenon DEF Levels, Below
<1>3. ASSUME nodes # <<>> PROVE Levels(nodes) = Below(nodes, Len(nodes)) + One(Holds(Last(nodes)))
  <2>1. Len(nodes) \in 1 .. Len(nodes)
    BY <1>1, <1>3, EmptySeq
  <2>2. Last(nodes) = nodes[Len(nodes)]
    BY DEF Last
  <2> QED
    BY <1>2, <2>1, <2>2, BelowCounts
<1> QED
  BY <1>2, <1>3

(* Another node on top, and other frames, but not for the nodes below.     *)
LEMMA AlignedTop ==
  ASSUME NEW nodes \in Seq(Node), nodes # <<>>, NEW stack, Aligned(nodes, stack), NEW q,
         \A i \in 1 .. Len(nodes) - 1 : Holds(nodes[i]) => q[Below(nodes, i) + 2] = stack[Below(nodes, i) + 2],
         NEW n \in Node, n.kind = Last(nodes).kind, n.column = Last(nodes).column, n.state # "ended",
         n.inner = Last(nodes).inner,
         Holds(n) /\ q[Below(nodes, Len(nodes)) + 2] => n.lined
  PROVE  Aligned(Front(nodes) \o <<n>>, q)
<1> DEFINE f == Front(nodes)
           L == Len(nodes)
           t == f \o <<n>>
<1>1. f \in Seq(Node) /\ Len(f) = L - 1 /\ L \in Nat \ {0} /\ \A i \in 1 .. L - 1 : f[i] = nodes[i]
  BY LastApart, LastDropped DEF Front
<1>2. t = Append(f, n)
  BY <1>1, LastOfAppend
<1>3. t \in Seq(Node) /\ Len(t) = L /\ t[L] = n /\ \A i \in 1 .. L - 1 : t[i] = nodes[i]
  BY <1>1, <1>2, AppendProperties
<1>4. Last(nodes) = nodes[L] /\ L \in 1 .. L
  BY <1>1 DEF Last
<1> HIDE DEF t, f
<1>5. \A i \in 1 .. L : Below(t, i) = Below(nodes, i)
  <2> TAKE i \in 1 .. L
  <2>1. i \in Int /\ \A j \in 1 .. i - 1 : t[j] = nodes[j]
    BY <1>1, <1>3
  <2> QED
    BY <2>1, BelowSame
<1>6. ASSUME NEW i \in 1 .. L - 1
      PROVE  /\ t[i].state # "ended" /\ t[i].state = "opened"
             /\ i > 1 => t[i].kind # "doc"
             /\ t[i].inner # "none" => t[i].kind \in WithInner
             /\ t[i].column = NoColumn \/ t[i].column = Below(t, i)
             /\ Holds(t[i]) /\ q[Below(t, i) + 2] => t[i].lined
  <2>1. i \in 1 .. L /\ i < L /\ t[i] = nodes[i] /\ Below(t, i) = Below(nodes, i)
    BY <1>1, <1>3, <1>5
  <2> QED
    BY <2>1 DEF Aligned
<1>7. /\ t[L].state # "ended"
      /\ L > 1 => t[L].kind # "doc"
      /\ t[L].inner # "none" => t[L].kind \in WithInner
      /\ t[L].column = NoColumn \/ t[L].column = Below(t, L)
      /\ Holds(t[L]) /\ q[Below(t, L) + 2] => t[L].lined
  BY <1>3, <1>4, <1>5 DEF Aligned
<1>8. Aligned(t, q)
  <2> SUFFICES ASSUME NEW i \in 1 .. L
               PROVE  /\ t[i].state # "ended" /\ (i < L => t[i].state = "opened")
                      /\ i > 1 => t[i].kind # "doc"
                      /\ t[i].inner # "none" => t[i].kind \in WithInner
                      /\ t[i].column = NoColumn \/ t[i].column = Below(t, i)
                      /\ Holds(t[i]) /\ q[Below(t, i) + 2] => t[i].lined
    BY <1>3 DEF Aligned
  <2>1. i = L \/ i \in 1 .. L - 1
    BY <1>1
  <2> QED
    BY <1>1, <1>6, <1>7, <2>1
<1> QED
  BY <1>8 DEF t, f

(* A node on top of one that is opened.                                    *)
LEMMA AlignedPush ==
  ASSUME NEW nodes \in Seq(Node), NEW stack, Aligned(nodes, stack), NEW n \in Node,
         nodes # <<>> => Last(nodes).state = "opened" /\ n.kind # "doc",
         n.state = "open", n.column = NoColumn \/ n.column = Levels(nodes),
         n.inner # "none" => n.kind \in WithInner
  PROVE  Aligned(Append(nodes, n), stack)
<1> DEFINE L == Len(nodes)
           t == Append(nodes, n)
<1>1. L \in Nat /\ (L > 0 => nodes # <<>>)
  BY EmptySeq, LenProperties
<1>2. t \in Seq(Node) /\ Len(t) = L + 1 /\ t[L + 1] = n /\ \A i \in 1 .. L : t[i] = nodes[i]
  BY AppendProperties
<1>3. L > 0 => nodes[L].state = "opened"
  BY <1>1 DEF Last
<1> HIDE DEF t
<1>4. \A i \in 1 .. L + 1 : Below(t, i) = Below(nodes, i)
  <2> TAKE i \in 1 .. L + 1
  <2>1. i \in Int /\ \A j \in 1 .. i - 1 : t[j] = nodes[j]
    BY <1>1, <1>2
  <2> QED
    BY <2>1, BelowSame
<1>5. Levels(nodes) = Below(nodes, L + 1)
  BY BelowAll
<1>6. ~Holds(n)
  BY DEF Holds
<1>7. Aligned(t, stack)
  <2> SUFFICES ASSUME NEW i \in 1 .. L + 1
               PROVE  /\ t[i].state # "ended" /\ (i < L + 1 => t[i].state = "opened")
                      /\ i > 1 => t[i].kind # "doc"
                      /\ t[i].inner # "none" => t[i].kind \in WithInner
                      /\ t[i].column = NoColumn \/ t[i].column = Below(t, i)
                      /\ Holds(t[i]) /\ stack[Below(t, i) + 2] => t[i].lined
    BY <1>2 DEF Aligned
  <2>1. CASE i = L + 1
    BY <1>1, <1>2, <1>4, <1>5, <1>6, <2>1
  <2>2. CASE i \in 1 .. L
    <3>1. t[i] = nodes[i] /\ Below(t, i) = Below(nodes, i)
      BY <1>1, <1>2, <1>4, <2>2
    <3>2. i = L \/ i < L
      BY <1>1, <2>2
    <3> QED
      BY <1>1, <1>3, <2>2, <3>1, <3>2 DEF Aligned
  <2> QED
    BY <1>1, <2>1, <2>2
<1> QED
  BY <1>7 DEF t

(* The node on top is popped.                                              *)
LEMMA AlignedPop ==
  ASSUME NEW nodes \in Seq(Node), nodes # <<>>, NEW stack, Aligned(nodes, stack), NEW q,
         \A i \in 1 .. Len(nodes) - 1 : Holds(nodes[i]) => q[Below(nodes, i) + 2] = stack[Below(nodes, i) + 2]
  PROVE  Aligned(Front(nodes), q)
<1> DEFINE f == Front(nodes)
           L == Len(nodes)
<1>1. f \in Seq(Node) /\ Len(f) = L - 1 /\ L \in Nat \ {0} /\ \A i \in 1 .. L - 1 : f[i] = nodes[i]
  BY LastApart, LastDropped DEF Front
<1> HIDE DEF f
<1>2. \A i \in 1 .. L - 1 : Below(f, i) = Below(nodes, i)
  <2> TAKE i \in 1 .. L - 1
  <2>1. i \in Int /\ \A j \in 1 .. i - 1 : f[j] = nodes[j]
    BY <1>1
  <2> QED
    BY <2>1, BelowSame
<1>3. Aligned(f, q)
  <2> SUFFICES ASSUME NEW i \in 1 .. L - 1
               PROVE  /\ f[i].state # "ended" /\ (i < L - 1 => f[i].state = "opened")
                      /\ i > 1 => f[i].kind # "doc"
                      /\ f[i].inner # "none" => f[i].kind \in WithInner
                      /\ f[i].column = NoColumn \/ f[i].column = Below(f, i)
                      /\ Holds(f[i]) /\ q[Below(f, i) + 2] => f[i].lined
    BY <1>1 DEF Aligned
  <2>1. i \in 1 .. L /\ i < L /\ f[i] = nodes[i] /\ Below(f, i) = Below(nodes, i)
    BY <1>1, <1>2
  <2> QED
    BY <2>1 DEF Aligned
<1> QED
  BY <1>3 DEF f

(* The frames of the nodes below are below that of the node on top.        *)
LEMMA FramesBelow ==
  ASSUME NEW nodes \in Seq(Node), nodes # <<>>, NEW i \in 1 .. Len(nodes) - 1, Holds(nodes[i])
  PROVE  /\ Below(nodes, i) \in Nat /\ Below(nodes, Len(nodes)) \in Nat
         /\ Below(nodes, i) + 2 <= Below(nodes, Len(nodes)) + 1
<1>1. Len(nodes) \in Nat /\ Len(nodes) \in 1 .. Len(nodes) + 1 /\ i \in 1 .. Len(nodes) /\ i + 1 \in 1 .. Len(nodes) + 1
      /\ i + 1 <= Len(nodes)
  BY EmptySeq, LenProperties
<1>2. Below(nodes, i) \in Nat /\ Below(nodes, i + 1) = Below(nodes, i) + 1
  BY <1>1, BelowCounts DEF One
<1>3. Below(nodes, Len(nodes)) \in Nat /\ Below(nodes, i + 1) <= Below(nodes, Len(nodes))
  BY <1>1, BelowGrows
<1> QED
  BY <1>2, <1>3

-----------------------------------------------------------------------------
(* What the changes of the writer and the indenter leave alone. *)

(* A call that leaves a broken sink and its outcome alone, and another.    *)
LEMMA StillAlong == ASSUME NEW v, NEW u, Still(v, u), NEW t, Still(u, t) PROVE Still(v, t)
BY DEF Still

(* A piece of output changes the sink and err.                             *)
LEMMA PutStill ==
  ASSUME NEW v, Typed(v)
  PROVE  /\ Still(v, Put(v)) /\ Put(v).stack = v.stack /\ Put(v).err = (Put(v).room = 0)
         /\ Put(v).last = v.last
<1> DEFINE r == IF v.room > 0 THEN v.room - 1 ELSE v.room
<1>1. r \in Int /\ (r = 0) \in BOOLEAN /\ (v.room = 0 => r = 0)
  BY DEF Typed
<1>2. Put(v) = [v EXCEPT !.room = r, !.err = (r = 0)]
  BY DEF Put, Typed
<1> HIDE DEF r
<1>3. Put(v).room = r /\ Put(v).closed = v.closed /\ Put(v).stack = v.stack /\ Put(v).err = (r = 0) /\ Put(v).last = v.last
  BY <1>1, <1>2 DEF Typed
<1> QED
  BY <1>1, <1>3, Zenon DEF Still

(* A change of last, or of err.                                            *)
LEMMA LastStill ==
  ASSUME NEW v, Typed(v), NEW e, NEW b \in BOOLEAN
  PROVE  /\ LET u == [v EXCEPT !.last = e]
            IN Still(v, u) /\ u.nodes = v.nodes /\ u.stack = v.stack /\ u.again = v.again /\ u.room = v.room
         /\ LET u == [v EXCEPT !.err = b]
            IN Still(v, u) /\ u.nodes = v.nodes /\ u.stack = v.stack /\ u.again = v.again /\ u.room = v.room
BY DEF Still, Typed

(* Another node on top.                                                    *)
LEMMA SetTopStill ==
  ASSUME NEW v, Typed(v), NEW n
  PROVE  LET u == SetTop(v, n)
         IN /\ Still(v, u) /\ u.room = v.room /\ u.nodes = Front(v.nodes) \o <<n>> /\ u.stack = v.stack
            /\ u.again = v.again /\ u.last = v.last /\ u.depth = v.depth
<1> DEFINE t == Front(v.nodes) \o <<n>>
           u == SetTop(v, n)
<1>1. u = [v EXCEPT !.nodes = t]
  BY DEF SetTop
<1> HIDE DEF t, u
<1>2. /\ u.room = v.room /\ u.nodes = t /\ u.stack = v.stack /\ u.again = v.again /\ u.last = v.last
      /\ u.depth = v.depth /\ u.closed = v.closed
  BY <1>1 DEF Typed
<1> QED
  BY <1>2, Zenon DEF Still, t, u

(* The indenter's moves.                                                   *)
LEMMA IndentStill ==
  ASSUME NEW v, Typed(v), NEW e
  PROVE  LET u == Indent(v, e) IN Still(v, u) /\ u.room = v.room
<1>1. ASSUME NEW u, \/ u = [v EXCEPT !.panic = TRUE]
                    \/ \E q, d : u = [v EXCEPT !.stack = q, !.depth = d]
                    \/ \E q : u = [v EXCEPT !.stack = q]
                    \/ u = v
      PROVE  Still(v, u) /\ u.room = v.room
  BY <1>1 DEF Still, Typed
<1>2. CountLine(v) = [v EXCEPT !.stack = [v.stack EXCEPT ![v.depth + 1] = TRUE]]
  BY Zenon DEF CountLine
<1>3. EnterLevel(v) = [v EXCEPT !.stack = Append(v.stack, FALSE), !.depth = v.depth + 1]
  BY Zenon DEF EnterLevel
<1>4. LeaveLevel(v) = [v EXCEPT !.stack = Front(v.stack), !.depth = v.depth - 1]
  BY DEF LeaveLevel, Typed
<1>5. Indent(v, e) \in {[v EXCEPT !.panic = TRUE], CountLine(v), EnterLevel(v), LeaveLevel(v), v}
  BY DEF Indent, Moved
<1> DEFINE u == Indent(v, e)
<1>6. \/ u = [v EXCEPT !.panic = TRUE]
      \/ \E q, d : u = [v EXCEPT !.stack = q, !.depth = d]
      \/ \E q : u = [v EXCEPT !.stack = q]
      \/ u = v
  <2> HIDE DEF u
  <2>1. u = [v EXCEPT !.panic = TRUE] \/ u = CountLine(v) \/ u = EnterLevel(v) \/ u = LeaveLevel(v) \/ u = v
    BY <1>5 DEF u
  <2>2. u = CountLine(v) => \E q : u = [v EXCEPT !.stack = q]
    BY <1>2, Zenon
  <2>3. u = EnterLevel(v) => \E q, d : u = [v EXCEPT !.stack = q, !.depth = d]
    BY <1>3, Zenon
  <2>4. u = LeaveLevel(v) => \E q, d : u = [v EXCEPT !.stack = q, !.depth = d]
    BY <1>4, Zenon
  <2> QED
    BY <2>1, <2>2, <2>3, <2>4, Zenon
<1> HIDE DEF u
<1> QED
  BY <1>1, <1>6, Zenon DEF u

(* The invariant of the lines is about the nodes and the frames.           *)
LEMMA SoundSame ==
  ASSUME NEW v, Sound(v), NEW u, v.room = 0 => u.room = 0, u.nodes = v.nodes, u.stack = v.stack, u.again = v.again
  PROVE  Sound(u)
BY DEF Sound

(* While the sink takes output no index is out of range.                   *)
LEMMA SoundDepth ==
  ASSUME NEW v, Inv(v), Sound(v), v.room # 0
  PROVE  /\ InRange(v) /\ v.depth = Levels(v.nodes) /\ v.depth \in Nat /\ Aligned(v.nodes, v.stack)
         /\ ~v.again /\ v.depth + 1 \in 1 .. Len(v.stack) /\ Len(v.stack) = v.depth + 1
<1>1. ~v.again /\ Aligned(v.nodes, v.stack)
  BY DEF Sound
<1>2. v.depth = Levels(v.nodes)
  BY <1>1, Zenon DEF Inv, Level
<1>3. InRange(v) /\ v.depth + 1 \in 1 .. Len(v.stack) /\ v.depth >= 0 /\ v.depth \in -1 .. MaxDepth
  BY <1>1, FrameThere
<1>4. Len(v.stack) = v.depth + 1
  BY DEF Inv, Typed
<1> QED
  BY <1>1, <1>2, <1>3, <1>4

(* What may start a line stands in a document or on a level, as long as    *)
(* the sink has not broken.                                                *)
Fits(v, kind) ==
  v.room # 0 /\ kind \in Indenting \cup Declarations \cup {"comment"} /\ v.nodes # <<>> =>
    Top(v).kind = "doc" \/ Holds(Top(v))

(* The line is counted in the frame of the node that takes note of it.     *)
LEMMA LineSound ==
  ASSUME NEW v, Inv(v), Sound(v), NEW e, e.state = "open", Fits(v, e.node)
  PROVE  LET t == Tell(Lined(v, e), e) IN Sound(t) /\ Still(v, t) /\ Still(v, Lined(v, e))
<1> DEFINE l == Lined(v, e)
           y == Indent(l, e)
           t == Put(y)
<1>1. Inv(l) /\ Like(v, l)
  BY LinedLike DEF Like
<1>2. Still(v, l) /\ l.room = v.room
  <2>1. Still(v, v)
    BY DEF Still
  <2>2. ASSUME v.nodes # <<>> PROVE Still(v, SetTop(v, [Top(v) EXCEPT !.lined = TRUE]))
                                    /\ SetTop(v, [Top(v) EXCEPT !.lined = TRUE]).room = v.room
    BY SetTopStill DEF Inv
  <2> QED
    BY <2>1, <2>2 DEF Lined
<1>3. Inv(y) /\ y.nodes = l.nodes
  BY <1>1, IndentOpen DEF Like
<1>4. Still(l, y) /\ y.room = l.room
  BY <1>1, IndentStill DEF Inv
<1>5. t.nodes = y.nodes /\ t.stack = y.stack /\ t.again = y.again /\ Still(y, t)
  BY <1>3, PutFacts, PutStill DEF Inv
<1>6. Still(v, t)
  <2> HIDE DEF l, y, t
  <2> QED
    BY <1>2, <1>4, <1>5, StillAlong
<1>7. ASSUME v.room # 0 PROVE ~y.again /\ Aligned(y.nodes, y.stack)
  <2>1. /\ InRange(v) /\ v.depth = Levels(v.nodes) /\ v.depth \in Nat /\ Aligned(v.nodes, v.stack)
        /\ ~v.again /\ v.depth + 1 \in 1 .. Len(v.stack) /\ Len(v.stack) = v.depth + 1
    BY <1>7, SoundDepth
  <2>2. v.nodes \in Seq(Node) /\ v.stack \in Seq(BOOLEAN) /\ Typed(v)
    BY DEF Inv, Typed
  <2>3. Column(v, e) = IF StartsLine(v, e) THEN Indent(v, e).depth ELSE NoColumn
    BY <2>1 DEF Column
  <2>4. ~StartsLine(v, e) => Indent(v, e) = v
    BY <2>1 DEF Indent, Moved, NeedsFrame
  <2>5. CASE ~StartsLine(v, e)
    <3>1. l = v
      BY <2>3, <2>5 DEF Lined
    <3>2. y = v
      BY <2>4, <2>5, <3>1
    <3> QED
      BY <2>1, <3>2
  <2>6. CASE StartsLine(v, e)
    <3> DEFINE q == [v.stack EXCEPT ![v.depth + 1] = TRUE]
    <3>1. \A w : Typed(w) => CountLine(w) = [w EXCEPT !.stack = [w.stack EXCEPT ![w.depth + 1] = TRUE]]
      BY Zenon DEF CountLine
    <3>2. Column(v, e) # NoColumn
      <4>1. Indent(v, e) = CountLine(v)
        BY <2>1, <2>6 DEF Indent
      <4>2. CountLine(v).depth = v.depth
        BY <2>2, <3>1 DEF Typed
      <4> QED
        BY <2>1, <2>3, <2>6, <4>1, <4>2 DEF NoColumn
    <3>3. e.node \in Indenting \cup Declarations \cup {"comment"}
      BY <2>6 DEF StartsLine, IsIndented
    <3>4. \A i \in 1 .. Len(v.stack) : i # v.depth + 1 => q[i] = v.stack[i]
      BY <2>2
    <3> HIDE DEF q
    <3>5. CASE v.nodes = <<>>
      <4>1. l = v
        BY <3>5 DEF Lined
      <4>2. y = CountLine(v)
        BY <2>1, <2>6, <4>1 DEF Indent
      <4>3. y = [v EXCEPT !.stack = q]
        BY <2>2, <3>1, <4>2 DEF q
      <4>4. y.nodes = <<>> /\ y.again = v.again
        BY <2>2, <3>5, <4>3 DEF Typed
      <4>5. Len(y.nodes) = 0
        BY <4>4
      <4>6. Aligned(y.nodes, y.stack)
        BY <4>5 DEF Aligned
      <4> QED
        BY <2>1, <4>4, <4>6
    <3>6. CASE v.nodes # <<>>
      <4> DEFINE n == [Top(v) EXCEPT !.lined = TRUE]
                 x == SetTop(v, n)
      <4>1. Top(v) \in Node
        BY <3>6, TopFacts
      <4>2. n \in Node /\ n.kind = Top(v).kind /\ n.column = Top(v).column /\ n.state = Top(v).state /\ n.lined
            /\ n.inner = Top(v).inner
        BY <4>1 DEF Node
      <4>3. l = x
        BY <3>2, <3>6 DEF Lined
      <4> HIDE DEF n, x
      <4>4. /\ x.nodes = Front(v.nodes) \o <<n>> /\ x.stack = v.stack
            /\ x.again = v.again /\ x.last = v.last /\ x.depth = v.depth
        BY <2>2, SetTopStill DEF x
      <4>5. Typed(x)
        BY <1>1, <4>3 DEF Inv
      <4>6. StartsLine(x, e) /\ InRange(x)
        BY <2>1, <2>6, <4>4 DEF StartsLine, InRange
      <4>7. y = CountLine(x)
        BY <4>3, <4>6 DEF Indent
      <4>8. y = [x EXCEPT !.stack = q]
        BY <3>1, <4>4, <4>5, <4>7 DEF q
      <4>9. y.nodes = x.nodes /\ y.stack = q /\ y.again = v.again
        BY <4>4, <4>5, <4>8 DEF Typed
      <4>10. Last(v.nodes).state # "ended" /\ Last(v.nodes) = Top(v) /\ Top(v) = v.nodes[Len(v.nodes)]
             /\ Len(v.nodes) \in 1 .. Len(v.nodes) /\ Len(v.nodes) \in Nat
        <5>1. Len(v.nodes) \in 1 .. Len(v.nodes) /\ Len(v.nodes) \in Nat
          BY <2>2, <3>6, EmptySeq, LenProperties
        <5> QED
          BY <2>1, <5>1 DEF Top, Last, Aligned
      <4>11. ASSUME NEW i \in 1 .. Len(v.nodes) - 1, Holds(v.nodes[i])
             PROVE  q[Below(v.nodes, i) + 2] = v.stack[Below(v.nodes, i) + 2]
        <5>1. CASE Top(v).kind = "doc"
          <6>1. Len(v.nodes) = 1
            BY <2>1, <4>10, <5>1 DEF Aligned
          <6> QED
            BY <6>1
        <5>2. CASE Holds(Top(v))
          <6>1. Levels(v.nodes) = Below(v.nodes, Len(v.nodes)) + 1
            BY <2>2, <3>6, <4>10, <5>2, BelowAll DEF One
          <6>2. /\ Below(v.nodes, i) \in Nat /\ Below(v.nodes, Len(v.nodes)) \in Nat
                /\ Below(v.nodes, i) + 2 <= Below(v.nodes, Len(v.nodes)) + 1
            BY <2>2, <3>6, <4>11, FramesBelow
          <6>3. Below(v.nodes, i) + 2 \in 1 .. Len(v.stack) /\ Below(v.nodes, i) + 2 # v.depth + 1
            BY <2>1, <6>1, <6>2
          <6> QED
            BY <3>4, <6>3
        <5> QED
          BY <1>7, <3>3, <3>6, <5>1, <5>2 DEF Fits
      <4>12. Aligned(Front(v.nodes) \o <<n>>, q)
        <5>1. n.state # "ended" /\ n.kind = Last(v.nodes).kind /\ n.column = Last(v.nodes).column
              /\ n.inner = Last(v.nodes).inner
          BY <4>2, <4>10
        <5> QED
          BY <2>1, <2>2, <3>6, <4>2, <4>11, <5>1, AlignedTop
      <4> QED
        BY <2>1, <4>4, <4>9, <4>12
    <3> QED
      BY <3>5, <3>6
  <2> QED
    BY <2>5, <2>6
<1>8. Sound(t)
  <2> SUFFICES ASSUME t.room # 0 PROVE ~t.again /\ Aligned(t.nodes, t.stack)
    BY DEF Sound
  <2>1. v.room # 0
    BY <1>6 DEF Still
  <2> HIDE DEF y, t
  <2> QED
    BY <1>5, <1>7, <2>1
<1> QED
  BY <1>2, <1>6, <1>8 DEF Tell

(* A leaf closes nothing and mends no sink.                                *)
LEMMA PutLeafStill ==
  ASSUME NEW v, Inv(v), NEW kind
  PROVE  Still(v, PutLeaf(v, kind))
<1> DEFINE e == Event("open", kind, FALSE)
           f == Event("ended", kind, FALSE)
           l == Lined(v, e)
           y == Indent(l, e)
           t == Tell(l, e)
           p == Put(t)
           q == [p EXCEPT !.last = f]
<1>1. e.state = "open"
  BY DEF Event
<1> HIDE DEF e, f
<1>2. Inv(l) /\ Still(v, l)
  <2>1. Still(v, v)
    BY DEF Still
  <2>2. ASSUME v.nodes # <<>> PROVE Still(v, SetTop(v, [Top(v) EXCEPT !.lined = TRUE]))
    BY SetTopStill DEF Inv
  <2> QED
    BY <2>1, <2>2, LinedLike DEF Lined, Like
<1> HIDE DEF l
<1>3. Still(l, y)
  BY <1>2, IndentStill DEF Inv
<1>4. Inv(y) /\ Inv(t) /\ t = Put(y)
  BY <1>1, <1>2, IndentOpen, TellOpen DEF Like, Tell
<1> HIDE DEF y
<1>5. Still(y, t)
  BY <1>4, PutStill DEF Inv
<1> HIDE DEF t
<1>6. Inv(p) /\ Still(t, p)
  BY <1>4, PutLike, PutStill DEF Like, Inv
<1> HIDE DEF p
<1>7. Still(p, q)
  BY <1>6, LastStill DEF Inv
<1> HIDE DEF q
<1>8. Still(v, t) /\ Still(v, p) /\ Still(v, q)
  BY <1>2, <1>3, <1>5, <1>6, <1>7, StillAlong
<1>9. PutLeaf(v, kind) = t \/ PutLeaf(v, kind) = p \/ PutLeaf(v, kind) = q
  BY DEF PutLeaf, e, f, l, t, p, q
<1> QED
  BY <1>8, <1>9

-----------------------------------------------------------------------------
(* The writer's operations keep the lines. *)

(* A piece of output, a change of last and one of err.                     *)
LEMMA OutputSound ==
  ASSUME NEW v, Inv(v), Sound(v), NEW e, NEW b \in BOOLEAN
  PROVE  /\ Sound(Put(v)) /\ Still(v, Put(v))
         /\ Sound([v EXCEPT !.last = e]) /\ Still(v, [v EXCEPT !.last = e])
         /\ Sound([v EXCEPT !.err = b]) /\ Still(v, [v EXCEPT !.err = b])
<1>1. Typed(v)
  BY DEF Inv
<1>2. Still(v, Put(v)) /\ Put(v).nodes = v.nodes /\ Put(v).stack = v.stack /\ Put(v).again = v.again
  BY <1>1, PutFacts, PutStill
<1>3. Sound(Put(v))
  BY <1>2, SoundSame DEF Still
<1>4. /\ LET u == [v EXCEPT !.last = e]
         IN Still(v, u) /\ u.nodes = v.nodes /\ u.stack = v.stack /\ u.again = v.again /\ u.room = v.room
      /\ LET u == [v EXCEPT !.err = b]
         IN Still(v, u) /\ u.nodes = v.nodes /\ u.stack = v.stack /\ u.again = v.again /\ u.room = v.room
  BY <1>1, LastStill
<1> DEFINE x == [v EXCEPT !.last = e]
           y == [v EXCEPT !.err = b]
<1>5. Still(v, x) /\ x.nodes = v.nodes /\ x.stack = v.stack /\ x.again = v.again /\ x.room = v.room
  BY <1>4
<1>6. Still(v, y) /\ y.nodes = v.nodes /\ y.stack = v.stack /\ y.again = v.again /\ y.room = v.room
  BY <1>4
<1> HIDE DEF x, y
<1>7. Sound(x) /\ Sound(y)
  BY <1>5, <1>6, SoundSame
<1> QED
  BY <1>2, <1>3, <1>5, <1>6, <1>7 DEF x, y

(* A leaf.                                                                 *)
LEMMA PutLeafSound ==
  ASSUME NEW v, Inv(v), Sound(v), NEW kind, Fits(v, kind)
  PROVE  Sound(PutLeaf(v, kind)) /\ Still(v, PutLeaf(v, kind))
<1> DEFINE e == Event("open", kind, FALSE)
           f == Event("ended", kind, FALSE)
           l == Lined(v, e)
           t == Tell(l, e)
           p == Put(t)
           q == [p EXCEPT !.last = f]
<1>1. e.state = "open" /\ e.node = kind
  BY DEF Event
<1> HIDE DEF e, f
<1>2. Inv(l)
  BY LinedLike DEF Like
<1>3. Sound(t) /\ Still(v, t)
  BY <1>1, LineSound
<1> HIDE DEF l
<1>4. Inv(t)
  BY <1>1, <1>2, TellOpen DEF Like
<1> HIDE DEF t
<1>5. Inv(p) /\ Sound(p) /\ Still(t, p)
  BY <1>3, <1>4, PutLike, OutputSound DEF Like
<1> HIDE DEF p
<1>6. Sound(q) /\ Still(p, q)
  BY <1>5, OutputSound
<1> HIDE DEF q
<1>7. Still(v, p) /\ Still(v, q)
  BY <1>3, <1>5, <1>6, StillAlong
<1>8. PutLeaf(v, kind) = t \/ PutLeaf(v, kind) = p \/ PutLeaf(v, kind) = q
  BY DEF PutLeaf, e, f, l, t, p, q
<1> QED
  BY <1>3, <1>5, <1>6, <1>7, <1>8

(* The node on top, as far, at the same column.                            *)
LEMMA RetopSound ==
  ASSUME NEW v, Inv(v), Sound(v), v.nodes # <<>>, NEW n \in Node, n.kind = Top(v).kind, n.state = Top(v).state,
         n.column = Top(v).column, n.inner = Top(v).inner, n.lined = Top(v).lined
  PROVE  Sound(SetTop(v, n)) /\ Still(v, SetTop(v, n))
<1> DEFINE u == SetTop(v, n)
           L == Len(v.nodes)
<1>1. /\ Still(v, u) /\ u.room = v.room /\ u.nodes = Front(v.nodes) \o <<n>> /\ u.stack = v.stack
      /\ u.again = v.again
  BY SetTopStill DEF Inv
<1> HIDE DEF u
<1>2. ASSUME v.room # 0 PROVE Aligned(u.nodes, u.stack) /\ ~u.again
  <2>1. Aligned(v.nodes, v.stack) /\ ~v.again /\ v.nodes \in Seq(Node)
    BY <1>2 DEF Sound, Inv, Typed
  <2>2. L \in 1 .. L /\ Top(v) = v.nodes[L] /\ Last(v.nodes) = v.nodes[L]
    BY <2>1, EmptySeq, LenProperties DEF Top, Last
  <2>3. n.state # "ended" /\ (Holds(n) /\ v.stack[Below(v.nodes, L) + 2] => n.lined)
    BY <2>1, <2>2 DEF Aligned, Holds
  <2>4. n.kind = Last(v.nodes).kind /\ n.column = Last(v.nodes).column /\ n.inner = Last(v.nodes).inner
    BY <2>2
  <2>5. Aligned(Front(v.nodes) \o <<n>>, v.stack)
    BY <2>1, <2>3, <2>4, AlignedTop
  <2> QED
    BY <1>1, <2>1, <2>5
<1> QED
  BY <1>1, <1>2 DEF Sound, u

(* The mark that the current node has a child.                             *)
LEMMA CountedSound ==
  ASSUME NEW v, Inv(v), Sound(v), v.nodes # <<>>
  PROVE  LET u == SetTop(v, [Top(v) EXCEPT !.kids = TRUE])
         IN Sound(u) /\ Still(v, u)
<1> DEFINE n == [Top(v) EXCEPT !.kids = TRUE]
<1>1. /\ n \in Node /\ n.kind = Top(v).kind /\ n.state = Top(v).state
      /\ n.column = Top(v).column /\ n.inner = Top(v).inner /\ n.lined = Top(v).lined
  BY TopFacts DEF Node
<1> HIDE DEF n
<1>2. Sound(SetTop(v, n)) /\ Still(v, SetTop(v, n))
  BY <1>1, RetopSound
<1> QED
  BY <1>2 DEF n

(* The content of a node that is opened.                                   *)
LEMMA PutContentSound ==
  ASSUME NEW v, Inv(v), Sound(v), v.nodes # <<>>, Top(v).state = "opened"
  PROVE  Sound(PutContent(v)) /\ Still(v, PutContent(v))
<1> DEFINE o == IF Top(v).kind \in {"elem", "dtd"} THEN Put(v) ELSE v
           k == SetTop(o, [Top(v) EXCEPT !.kids = TRUE])
<1>1. Inv(o) /\ o.nodes = v.nodes /\ Sound(o) /\ Still(v, o)
  <2>1. Still(v, v)
    BY DEF Still
  <2>2. Inv(Put(v)) /\ Put(v).nodes = v.nodes /\ Sound(Put(v)) /\ Still(v, Put(v))
    BY PutLike, OutputSound DEF Like
  <2> QED
    BY <2>1, <2>2
<1>2. Top(o) = Top(v)
  BY <1>1 DEF Top
<1> HIDE DEF o
<1>3. /\ Inv(k) /\ Sound(k) /\ Still(o, k) /\ k.nodes # <<>>
      /\ Top(k).kind = Top(v).kind /\ Top(k).state = "opened"
  <2>1. Sound(k) /\ Still(o, k)
    BY <1>1, <1>2, CountedSound
  <2>2. Like(o, k)
    BY <1>1, <1>2, CountedLike
  <2>3. k.nodes # <<>>
    <3>1. k.nodes \in Seq(Node) /\ o.nodes \in Seq(Node) /\ Len(k.nodes) = Len(o.nodes)
      BY <2>2, <1>1 DEF Like, Inv, Typed
    <3> QED
      BY <1>1, <3>1, EmptySeq
  <2> QED
    BY <1>1, <1>2, <2>1, <2>2, <2>3 DEF Like
<1>4. Top(v).inner \in {"none", "leaf", "refused"} /\ Top(v).kind \in Startables
  BY TopFacts DEF Node
<1>5. CASE v.room = 0
  <2>1. o.room = 0 /\ o.closed = v.closed /\ k.room = 0 /\ k.closed = v.closed
    BY <1>1, <1>3, <1>5 DEF Still
  <2>2. PutContent(v) = o \/ PutContent(v) = [o EXCEPT !.err = TRUE] \/ PutContent(v) = PutLeaf(k, Inner(Top(v).kind))
    BY <1>4 DEF PutContent, o, k
  <2>3. Still(o, [o EXCEPT !.err = TRUE])
    BY <1>1, LastStill DEF Inv
  <2>4. Still(k, PutLeaf(k, Inner(Top(v).kind)))
    BY <1>3, PutLeafStill DEF Inv
  <2>5. PutContent(v).room = 0 /\ PutContent(v).closed = v.closed
    <3> HIDE DEF o, k
    <3> QED
      BY <2>1, <2>2, <2>3, <2>4 DEF Still
  <2> QED
    BY <1>5, <2>5 DEF Sound, Still
<1>6. CASE v.room # 0 /\ Top(v).inner = "none"
  BY <1>1, <1>6 DEF PutContent, o
<1>7. CASE v.room # 0 /\ Top(v).inner = "refused"
  <2>1. PutContent(v) = [o EXCEPT !.err = TRUE]
    BY <1>7 DEF PutContent, o
  <2>2. Sound([o EXCEPT !.err = TRUE]) /\ Still(o, [o EXCEPT !.err = TRUE])
    BY <1>1, OutputSound
  <2> QED
    BY <1>1, <2>1, <2>2, StillAlong
<1>8. CASE v.room # 0 /\ Top(v).inner = "leaf"
  <2>1. PutContent(v) = PutLeaf(k, Inner(Top(v).kind))
    BY <1>8 DEF PutContent, o
  <2>2. Top(v).kind \in WithInner
    <3>1. Aligned(v.nodes, v.stack) /\ v.nodes \in Seq(Node)
      BY <1>8 DEF Sound, Inv, Typed
    <3>2. Len(v.nodes) \in 1 .. Len(v.nodes) /\ Top(v) = v.nodes[Len(v.nodes)]
      BY <3>1, EmptySeq, LenProperties DEF Top, Last
    <3> QED
      BY <1>8, <3>1, <3>2 DEF Aligned
  <2>3. Fits(k, Inner(Top(v).kind))
    <3>1. Top(v).kind = "dtdattlist" \/ Inner(Top(v).kind) \in {"text", "commentcontent", "cdatacontent"}
      BY <2>2 DEF WithInner, Inner
    <3>2. CASE Top(v).kind = "dtdattlist"
      BY <1>3, <3>2 DEF Fits, Holds, Indenting
    <3>3. CASE Inner(Top(v).kind) \in {"text", "commentcontent", "cdatacontent"}
      BY <3>3 DEF Fits, Indenting, Declarations
    <3> QED
      BY <3>1, <3>2, <3>3
  <2>4. Sound(PutLeaf(k, Inner(Top(v).kind))) /\ Still(k, PutLeaf(k, Inner(Top(v).kind)))
    BY <1>3, <2>3, PutLeafSound
  <2>5. Still(v, k)
    BY <1>1, <1>3, StillAlong
  <2> QED
    BY <2>1, <2>4, <2>5, StillAlong
<1> QED
  BY <1>4, <1>5, <1>6, <1>7, <1>8

(* node.opened: the level that is entered has no line in it yet.           *)
LEMMA TellOpenedSound ==
  ASSUME NEW v, Inv(v), Sound(v), v.nodes # <<>>, Top(v).state = "open"
  PROVE  LET n == [Top(v) EXCEPT !.state = "opened"]
             t == Tell(SetTop(v, n), EventOf(n))
         IN Sound(t) /\ Still(v, t)
<1> DEFINE n == [Top(v) EXCEPT !.state = "opened"]
           x == SetTop(v, n)
           e == EventOf(n)
           y == Indent(x, e)
           t == Put(y)
           L == Len(v.nodes)
<1>1. /\ n \in Node /\ n.kind = Top(v).kind /\ n.state = "opened"
      /\ n.column = Top(v).column /\ n.inner = Top(v).inner
  BY TopFacts DEF Node
<1>2. e.state = "opened" /\ e.node = n.kind
  BY <1>1 DEF EventOf, Event
<1> HIDE DEF n, e
<1>3. /\ Still(v, x) /\ x.room = v.room /\ x.nodes = Front(v.nodes) \o <<n>> /\ x.stack = v.stack
      /\ x.again = v.again /\ x.depth = v.depth
  BY SetTopStill DEF Inv
<1>4. Typed(x)
  BY <1>1, SetTopFacts
<1> HIDE DEF x
<1>5. y = IF n.kind \in Indenting THEN EnterLevel(x) ELSE x
  BY <1>2 DEF Indent, NeedsFrame, StartsLine, Moved
<1>6. Still(x, y) /\ y.room = x.room
  BY <1>4, IndentStill
<1>7. Typed(y) /\ y.nodes = x.nodes /\ y.again = x.again
  BY <1>4, <1>5, LevelFacts
<1>8. y.stack = IF n.kind \in Indenting THEN Append(v.stack, FALSE) ELSE v.stack
  <2>1. EnterLevel(x) = [x EXCEPT !.stack = Append(x.stack, FALSE), !.depth = x.depth + 1]
    BY Zenon DEF EnterLevel
  <2>2. EnterLevel(x).stack = Append(x.stack, FALSE)
    BY <1>4, <2>1 DEF Typed
  <2> QED
    BY <1>3, <1>5, <2>2
<1> HIDE DEF y
<1>9. Still(y, t) /\ t.nodes = y.nodes /\ t.stack = y.stack /\ t.again = y.again
  BY <1>7, PutFacts, PutStill
<1> HIDE DEF t
<1>10. Still(v, t)
  BY <1>3, <1>6, <1>9, StillAlong
<1>11. ASSUME v.room # 0 PROVE ~y.again /\ Aligned(y.nodes, y.stack)
  <2>1. /\ v.depth = Levels(v.nodes) /\ v.depth \in Nat /\ Aligned(v.nodes, v.stack)
        /\ ~v.again /\ Len(v.stack) = v.depth + 1
    BY <1>11, SoundDepth
  <2>2. v.nodes \in Seq(Node) /\ v.stack \in Seq(BOOLEAN)
    BY DEF Inv, Typed
  <2>3. L \in 1 .. L /\ Top(v) = v.nodes[L] /\ Last(v.nodes) = v.nodes[L] /\ L \in Nat
    BY <2>2, EmptySeq, LenProperties DEF Top, Last
  <2>4. Levels(v.nodes) = Below(v.nodes, L) /\ Below(v.nodes, L) \in Nat
    <3>1. One(Holds(Last(v.nodes))) = 0
      BY <2>3 DEF One, Holds
    <3>2. Below(v.nodes, L) \in Nat
      BY <2>2, <2>3, BelowCounts
    <3> QED
      BY <2>2, <3>1, <3>2, BelowAll
  <2> DEFINE q == y.stack
  <2>5. /\ \A i \in 1 .. Len(v.stack) : q[i] = v.stack[i]
        /\ n.kind \in Indenting => q[Len(v.stack) + 1] = FALSE
    <3> DEFINE a == Append(v.stack, FALSE)
    <3>1. FALSE \in BOOLEAN
      OBVIOUS
    <3>2. (\A i \in 1 .. Len(v.stack) : a[i] = v.stack[i]) /\ a[Len(v.stack) + 1] = FALSE
      BY <2>2, <3>1, AppendProperties
    <3>3. q = IF n.kind \in Indenting THEN a ELSE v.stack
      BY <1>8
    <3> HIDE DEF a, q
    <3>4. CASE n.kind \in Indenting
      BY <3>2, <3>3, <3>4
    <3>5. CASE n.kind \notin Indenting
      BY <3>3, <3>5
    <3> QED
      BY <3>4, <3>5
  <2> HIDE DEF q
  <2>6. ASSUME NEW i \in 1 .. L - 1, Holds(v.nodes[i])
        PROVE  q[Below(v.nodes, i) + 2] = v.stack[Below(v.nodes, i) + 2]
    <3>1. /\ Below(v.nodes, i) \in Nat /\ Below(v.nodes, L) \in Nat
          /\ Below(v.nodes, i) + 2 <= Below(v.nodes, L) + 1
      BY <2>2, <2>6, FramesBelow
    <3>2. Below(v.nodes, i) + 2 \in 1 .. Len(v.stack)
      BY <2>1, <2>4, <3>1
    <3> QED
      BY <2>5, <3>2
  <2>7. Holds(n) /\ q[Below(v.nodes, L) + 2] => n.lined
    <3>1. Below(v.nodes, L) + 2 = Len(v.stack) + 1
      BY <2>1, <2>4
    <3>2. Holds(n) => n.kind \in Indenting
      BY DEF Holds
    <3> QED
      BY <2>5, <3>1, <3>2
  <2>8. n.kind = Last(v.nodes).kind /\ n.column = Last(v.nodes).column /\ n.inner = Last(v.nodes).inner
        /\ n.state # "ended"
    BY <1>1, <2>3
  <2>9. Aligned(Front(v.nodes) \o <<n>>, q)
    BY <1>1, <2>1, <2>2, <2>6, <2>7, <2>8, AlignedTop
  <2> QED
    BY <1>3, <1>7, <2>1, <2>9 DEF q
<1>12. Sound(t)
  <2> SUFFICES ASSUME t.room # 0 PROVE ~t.again /\ Aligned(t.nodes, t.stack)
    BY DEF Sound
  <2>1. v.room # 0
    BY <1>10 DEF Still
  <2> QED
    BY <1>9, <1>11, <2>1
<1> QED
  BY <1>10, <1>12 DEF Tell, n, x, e, y, t

(* The whole of node.opened.                                               *)
LEMMA OpenedSound ==
  ASSUME NEW v, Inv(v), Sound(v), v.nodes # <<>>, Top(v).state = "open"
  PROVE  Sound(Opened(v)) /\ Still(v, Opened(v)) /\ Top(Opened(v)).kind = Top(v).kind
<1> DEFINE n == [Top(v) EXCEPT !.state = "opened"]
           t == Tell(SetTop(v, n), EventOf(n))
           c == PutContent(t)
           q == [c EXCEPT !.last = EventOf(Top(c))]
<1>1. n \in Node /\ n.kind = Top(v).kind /\ n.state = "opened"
  BY TopFacts DEF Node
<1>2. Sound(t) /\ Still(v, t)
  BY TellOpenedSound
<1> HIDE DEF n
<1>3. Inv(t) /\ t.nodes # <<>> /\ Top(t) = n
  BY <1>1, TellOpened
<1> HIDE DEF t
<1>4. Like(t, c) /\ Sound(c) /\ Still(t, c)
  BY <1>1, <1>2, <1>3, PutContentLike, PutContentSound
<1> HIDE DEF c
<1>5. Inv(c) /\ Sound(q) /\ Still(c, q) /\ q.nodes = c.nodes
  <2>1. Inv(c) /\ Typed(c)
    BY <1>4 DEF Like, Inv
  <2>2. q.nodes = c.nodes
    BY <2>1 DEF Typed
  <2> QED
    BY <1>4, <2>1, <2>2, OutputSound
<1>6. Top(c).kind = n.kind /\ Top(q).kind = n.kind
  BY <1>3, <1>4, <1>5 DEF Like, Top
<1> HIDE DEF q
<1>7. Still(v, q)
  BY <1>2, <1>4, <1>5, StillAlong
<1>8. Opened(v) = t \/ Opened(v) = q
  BY DEF Opened, n, t, c, q
<1> QED
  BY <1>1, <1>2, <1>3, <1>5, <1>6, <1>7, <1>8

(* Next.                                                                   *)
LEMMA NextChildSound ==
  ASSUME NEW v, Inv(v), Sound(v)
  PROVE  LET w == NextChild(v)
         IN /\ Sound(w) /\ Still(v, w)
            /\ v.nodes = <<>> => w = v
            /\ v.nodes # <<>> => w.nodes # <<>> /\ Top(w).kind = Top(v).kind /\ Top(w).state # "open"
<1>1. CASE v.nodes = <<>>
  BY <1>1 DEF NextChild, Counted, Still
<1>2. CASE v.nodes # <<>>
  <2> DEFINE c == SetTop(v, [Top(v) EXCEPT !.kids = TRUE])
  <2>1. /\ Like(v, c) /\ Top(c).state = Top(v).state /\ Top(c).kind = Top(v).kind
        /\ Sound(c) /\ Still(v, c)
    BY <1>2, CountedLike, CountedSound DEF Like
  <2>2. Counted(v) = c
    BY <1>2 DEF Counted
  <2> HIDE DEF c
  <2>3. Inv(c) /\ c.nodes # <<>>
    <3>1. c.nodes \in Seq(Node) /\ v.nodes \in Seq(Node) /\ Len(c.nodes) = Len(v.nodes)
      BY <2>1 DEF Like, Inv, Typed
    <3> QED
      BY <1>2, <2>1, <3>1, EmptySeq DEF Like
  <2>4. CASE Top(v).state = "open"
    <3>1. NextChild(v) = Opened(c)
      BY <1>2, <2>2, <2>4 DEF NextChild
    <3>2. /\ Sound(Opened(c)) /\ Still(c, Opened(c)) /\ Top(Opened(c)).kind = Top(c).kind
          /\ Opened(c).nodes # <<>> /\ Top(Opened(c)).state = "opened"
      BY <2>1, <2>3, <2>4, OpenedSound, OpenedInv
    <3>3. Still(v, Opened(c))
      BY <2>1, <3>2, StillAlong
    <3> QED
      BY <1>2, <2>1, <3>1, <3>2, <3>3
  <2>5. CASE Top(v).state # "open"
    <3>1. NextChild(v) = c
      BY <1>2, <2>2, <2>5 DEF NextChild
    <3> QED
      BY <1>2, <2>1, <2>3, <2>5, <3>1
  <2> QED
    BY <2>4, <2>5
<1> QED
  BY <1>1, <1>2

(* An event that opens moves to no level.                                  *)
LEMMA DepthKept ==
  ASSUME NEW v, Typed(v), NEW e, e.state = "open"
  PROVE  /\ Indent(v, e).depth = v.depth /\ Lined(v, e).depth = v.depth
         /\ Column(v, e) = NoColumn \/ Column(v, e) = v.depth
<1>1. Indent(v, e) \in {[v EXCEPT !.panic = TRUE], CountLine(v), v}
  BY DEF Indent, Moved
<1>2. CountLine(v).depth = v.depth
  <2>1. CountLine(v) = [v EXCEPT !.stack = [v.stack EXCEPT ![v.depth + 1] = TRUE]]
    BY Zenon DEF CountLine
  <2> QED
    BY <2>1 DEF Typed
<1>3. [v EXCEPT !.panic = TRUE].depth = v.depth
  BY DEF Typed
<1>4. Indent(v, e).depth = v.depth
  BY <1>1, <1>2, <1>3
<1>5. SetTop(v, [Top(v) EXCEPT !.lined = TRUE]).depth = v.depth
  BY SetTopStill
<1>6. Lined(v, e).depth = v.depth
  BY <1>5 DEF Lined
<1> QED
  BY <1>4, <1>6 DEF Column

(* node.open: the node's column is the number of levels.                   *)
LEMMA PushSound ==
  ASSUME NEW v, Inv(v), Sound(v), NEW kind \in Startables, Fits(v, kind), Len(v.nodes) < MaxDepth,
         NEW inner \in {"none", "leaf", "refused"}, kind \notin WithInner => inner = "none",
         v.nodes # <<>> => Top(v).state # "open" /\ kind # "doc"
  PROVE  Sound(Push(v, kind, inner)) /\ Still(v, Push(v, kind, inner))
<1> DEFINE e == Event("open", kind, FALSE)
           n == [kind |-> kind, state |-> "open", kids |-> FALSE, inner |-> inner,
                 column |-> Column(v, e), lined |-> FALSE]
           l == Lined(v, e)
           m == Tell(l, e)
           ns == Append(l.nodes, n)
           t == [m EXCEPT !.nodes = ns]
           p == Put(t)
           q == [p EXCEPT !.last = e]
<1>1. e.state = "open" /\ e.node = kind
  BY DEF Event
<1> HIDE DEF e
<1>2. n \in Node /\ n.kind = kind /\ n.state = "open" /\ n.inner = inner /\ n.column = Column(v, e)
  BY <1>1, IndentOpen DEF Node
<1> HIDE DEF n
<1>3. Inv(l) /\ Like(v, l) /\ l.depth = v.depth
  BY <1>1, LinedLike, DepthKept DEF Like, Inv
<1>4. Sound(m) /\ Still(v, m)
  BY <1>1, LineSound
<1> HIDE DEF l
<1>5. Inv(m) /\ m.nodes = l.nodes
  BY <1>1, <1>3, TellOpen DEF Like
<1>6. m.depth = v.depth
  <2>1. Inv(Indent(l, e)) /\ Indent(l, e).depth = l.depth
    BY <1>1, <1>3, IndentOpen, DepthKept DEF Like, Inv
  <2>2. Put(Indent(l, e)).depth = Indent(l, e).depth
    BY <2>1, PutFacts DEF Inv
  <2> QED
    BY <1>3, <2>1, <2>2 DEF Tell
<1> HIDE DEF m
<1>7. Still(m, t) /\ t.nodes = ns /\ t.stack = m.stack /\ t.again = m.again /\ t.room = m.room
  <2>1. Typed(m)
    BY <1>5 DEF Inv
  <2> HIDE DEF ns
  <2>2. t.nodes = ns /\ t.stack = m.stack /\ t.again = m.again /\ t.room = m.room /\ t.closed = m.closed
    BY <2>1 DEF Typed
  <2> HIDE DEF t
  <2> QED
    BY <2>2 DEF Still
<1>8. Still(v, t)
  BY <1>4, <1>7, StillAlong
<1>9. ASSUME m.room # 0 PROVE ~t.again /\ Aligned(t.nodes, t.stack)
  <2>1. /\ m.depth = Levels(m.nodes) /\ Aligned(m.nodes, m.stack) /\ ~m.again
    BY <1>4, <1>5, <1>9, SoundDepth
  <2>2. m.nodes \in Seq(Node) /\ v.nodes \in Seq(Node) /\ Len(m.nodes) = Len(v.nodes)
    BY <1>3, <1>5 DEF Inv, Typed, Like
  <2>3. n.column = NoColumn \/ n.column = Levels(m.nodes)
    BY <1>1, <1>2, <1>6, <2>1, DepthKept DEF Inv
  <2>4. ASSUME m.nodes # <<>> PROVE Last(m.nodes).state = "opened" /\ n.kind # "doc"
    <3>1. v.nodes # <<>>
      BY <2>2, <2>4, EmptySeq
    <3>2. Last(m.nodes).state = Top(v).state
      BY <1>3, <1>5, <3>1 DEF Like, Top
    <3>3. Len(m.nodes) \in 1 .. Len(m.nodes) /\ Last(m.nodes) = m.nodes[Len(m.nodes)] /\ Last(m.nodes) \in Node
      BY <2>2, <2>4, EmptySeq, LenProperties, ElementOfSeq DEF Last
    <3>4. Last(m.nodes).state # "ended"
      BY <2>1, <3>3 DEF Aligned
    <3> QED
      BY <1>2, <3>1, <3>2, <3>3, <3>4 DEF Node
  <2>5. Aligned(Append(m.nodes, n), m.stack)
    BY <1>2, <2>1, <2>2, <2>3, <2>4, AlignedPush
  <2> QED
    BY <1>5, <1>7, <2>1, <2>5
<1>10. Sound(t)
  <2> HIDE DEF t
  <2> QED
    BY <1>7, <1>9 DEF Sound
<1>11. Inv(t)
  <2>1. t = Renewed(m, ns, m.last, m.closed)
    <3> HIDE DEF ns
    <3>1. ASSUME NEW v2, Typed(v2), NEW ns2
          PROVE  [v2 EXCEPT !.nodes = ns2] = Renewed(v2, ns2, v2.last, v2.closed)
      BY <3>1 DEF Typed, Renewed
    <3> QED BY Zenon, <1>5, <3>1 DEF Inv
  <2>2. l.nodes \in Seq(Node) /\ Len(l.nodes) = Len(v.nodes) /\ Len(l.nodes) \in Nat
    BY <1>3, LenProperties DEF Inv, Typed, Like
  <2>3. ns \in Seq(Node) /\ Len(ns) = Len(l.nodes) + 1 /\ Levels(ns) = Levels(l.nodes) + One(Holds(n)) /\ Levels(l.nodes) \in Nat
    BY <1>2, <2>2, AppendProperties, LevelsOfAppend, LevelsType
  <2>4. One(Holds(n)) = 0
    BY <1>2 DEF One, Holds
  <2>5. Len(ns) <= MaxDepth /\ Levels(ns) = Levels(m.nodes)
    BY <1>5, <2>2, <2>3, <2>4, DepthAssumption
  <2> HIDE DEF ns, t
  <2>6. Typed(t) /\ t.nodes = ns /\ t.depth = m.depth /\ t.again = m.again /\ t.panic = m.panic
    BY <1>5, <2>1, <2>3, <2>5, RenewedFacts DEF Inv
  <2>7. Level(t)
    BY <1>5, <2>5, <2>6, Zenon DEF Inv, Level
  <2> QED
    BY <2>6, <2>7 DEF Inv
<1> HIDE DEF t
<1>12. Inv(p) /\ Sound(p) /\ Still(t, p)
  BY <1>10, <1>11, PutLike, OutputSound DEF Like
<1> HIDE DEF p
<1>13. Sound(q) /\ Still(p, q)
  BY <1>12, OutputSound
<1> HIDE DEF q
<1>14. Still(v, q)
  BY <1>8, <1>12, <1>13, StillAlong
<1>15. Push(v, kind, inner) = t \/ Push(v, kind, inner) = q
  BY DEF Push, e, n, l, m, ns, t, p, q
<1> QED
  BY <1>8, <1>10, <1>13, <1>14, <1>15

(* The closing tag's column, and the frame it goes by.                     *)
LEMMA CloserStands ==
  ASSUME NEW v, Inv(v), Sound(v), v.room # 0, v.nodes # <<>>, Top(v).state # "open",
         NEW e, e.state = "ended", e.node = Top(v).kind, Column(v, e) # NoColumn
  PROVE  Top(v).lined /\ (Top(v).column = NoColumn \/ Top(v).column = Column(v, e))
<1> DEFINE L == Len(v.nodes)
<1>1. /\ InRange(v) /\ v.depth = Levels(v.nodes) /\ v.depth \in Nat /\ Aligned(v.nodes, v.stack)
      /\ ~v.again
  BY SoundDepth
<1>2. v.nodes \in Seq(Node) /\ Typed(v)
  BY DEF Inv, Typed
<1>3. L \in 1 .. L /\ Top(v) = v.nodes[L] /\ Last(v.nodes) = v.nodes[L] /\ L \in Nat
  BY <1>2, EmptySeq, LenProperties DEF Top, Last
<1>4. StartsLine(v, e) /\ Column(v, e) = Indent(v, e).depth
  BY <1>1 DEF Column
<1>5. Top(v).kind \in Indenting
  BY <1>4, TopFacts DEF StartsLine, IsIndented, Node, Startables, Declarations
<1>6. v.stack[v.depth + 1]
  BY <1>4, <1>5 DEF StartsLine
<1>7. Indent(v, e) = LeaveLevel(v)
  BY <1>1, <1>5 DEF Indent, Moved
<1>8. LeaveLevel(v).depth = v.depth - 1
  BY <1>1, <1>2, LevelFacts
<1>9. Top(v) \in Node /\ Top(v).state # "ended"
  BY <1>1, <1>3, TopFacts DEF Aligned
<1>10. Below(v.nodes, L) \in Nat
  BY <1>2, <1>3, BelowCounts
<1>11. Holds(Top(v)) => Levels(v.nodes) = Below(v.nodes, L) + 1
  BY <1>2, <1>3, BelowAll DEF One
<1>12. Holds(Top(v)) /\ v.depth = Below(v.nodes, L) + 1
  BY <1>1, <1>5, <1>9, <1>11 DEF Holds, Node
<1>13. /\ Top(v).column = NoColumn \/ Top(v).column = Below(v.nodes, L)
       /\ v.stack[Below(v.nodes, L) + 2] => Top(v).lined
  BY <1>1, <1>3, <1>12 DEF Aligned
<1>14. v.depth + 1 = Below(v.nodes, L) + 2 /\ v.depth - 1 = Below(v.nodes, L)
  BY <1>10, <1>12
<1> QED
  BY <1>4, <1>6, <1>7, <1>8, <1>13, <1>14

Closers(u) == u.closed.end # NoColumn => u.closed.lined /\ u.closed.begin \in {NoColumn, u.closed.end}

(* The frames that stay when a node ends are those of the nodes below it.  *)
LEMMA FramesStay ==
  ASSUME NEW v, Inv(v), Sound(v), v.room # 0, v.nodes # <<>>, Top(v).state # "open",
         NEW q, q = IF Top(v).kind \in Indenting THEN Front(v.stack) ELSE v.stack
  PROVE  Aligned(Front(v.nodes), q)
<1> DEFINE L == Len(v.nodes)
<1>1. /\ v.depth = Levels(v.nodes) /\ v.depth \in Nat /\ Aligned(v.nodes, v.stack)
      /\ Len(v.stack) = v.depth + 1
  BY SoundDepth
<1>2. v.nodes \in Seq(Node) /\ v.stack \in Seq(BOOLEAN)
  BY DEF Inv, Typed
<1>3. L \in 1 .. L /\ Top(v) = v.nodes[L] /\ Last(v.nodes) = v.nodes[L] /\ L \in Nat
  BY <1>2, EmptySeq, LenProperties DEF Top, Last
<1>4. Top(v) \in Node /\ Top(v).state # "ended"
  BY <1>1, <1>3, TopFacts DEF Aligned
<1>5. Below(v.nodes, L) \in Nat
  BY <1>2, <1>3, BelowCounts
<1>6. ASSUME NEW i \in 1 .. L - 1, Holds(v.nodes[i])
      PROVE  q[Below(v.nodes, i) + 2] = v.stack[Below(v.nodes, i) + 2]
  <2>1. CASE Top(v).kind \notin Indenting
    BY <2>1
  <2>2. CASE Top(v).kind \in Indenting
    <3>1. Holds(Top(v))
      BY <1>4, <2>2 DEF Holds, Node
    <3>2. Len(v.stack) = Below(v.nodes, L) + 2
      BY <1>1, <1>2, <1>3, <1>5, <3>1, BelowAll DEF One
    <3>3. /\ Below(v.nodes, i) \in Nat
          /\ Below(v.nodes, i) + 2 <= Below(v.nodes, L) + 1
      BY <1>2, <1>6, FramesBelow
    <3>4. Below(v.nodes, i) + 2 \in 1 .. Len(v.stack) - 1
      BY <1>5, <3>2, <3>3
    <3>5. v.stack # <<>>
      BY <1>2, <1>5, <3>2, EmptySeq
    <3>6. \A j \in 1 .. Len(v.stack) - 1 : Front(v.stack)[j] = v.stack[j]
      BY <1>2, <3>5, LastApart, LastDropped DEF Front
    <3> QED
      BY <2>2, <3>4, <3>6
  <2> QED
    BY <2>1, <2>2
<1> QED
  BY <1>1, <1>2, <1>6, AlignedPop, ZenonT(40)

(* The last node is forgotten.                                             *)
LEMMA FrontOfTop ==
  ASSUME NEW nodes \in Seq(Node), nodes # <<>>, NEW n \in Node
  PROVE  Front(Front(nodes) \o <<n>>) = Front(nodes)
<1> DEFINE f == Front(nodes)
           t == Append(f, n)
<1>1. f \in Seq(Node)
  BY LastApart
<1> HIDE DEF f
<1>5. f \o <<n>> = t
  BY <1>1, LastOfAppend
<1>2. t \in Seq(Node) /\ t # <<>> /\ Len(t) = Len(f) + 1 /\ Len(f) \in Nat /\ \A i \in 1 .. Len(f) : t[i] = f[i]
  BY <1>1, AppendProperties, LenProperties
<1> HIDE DEF t
<1>3. Front(t) \in Seq(Node) /\ Len(Front(t)) = Len(f) /\ \A i \in 1 .. Len(f) : Front(t)[i] = t[i]
  <2>1. Front(t) \in Seq(Node) /\ Len(Front(t)) = Len(t) - 1
    BY <1>2, LastApart
  <2>2. \A i \in 1 .. Len(t) - 1 : Front(t)[i] = t[i]
    BY <1>2, LastDropped DEF Front
  <2> QED
    BY <1>2, <2>1, <2>2
<1>4. Front(t) = f
  BY <1>1, <1>2, <1>3, SeqEqual
<1> QED
  BY <1>4, <1>5 DEF f

(* The second half of node.end, and pop.                                   *)
LEMMA EndedSound ==
  ASSUME NEW v, Inv(v), Sound(v), v.nodes # <<>>, Top(v).state # "open", v.closed = NoneClosed
  PROVE  Sound(Ended(v)) /\ (v.room = 0 => Ended(v).room = 0) /\ Closers(Ended(v))
<1> DEFINE n == [Top(v) EXCEPT !.state = "ended"]
           e == EventOf(n)
           x == SetTop(v, n)
           y == Indent(x, e)
           z == Put(y)
           b == v.again \/ Top(v).state = "ended"
           t == [z EXCEPT !.again = b]
           p == IF n.kind = "doc" THEN t ELSE Put(t)
           c == [begin |-> n.column, end |-> Column(v, e), lined |-> n.lined]
           q == [p EXCEPT !.last = e]
           f == Front(p.nodes)
           r == [p EXCEPT !.last = e, !.nodes = f, !.closed = c]
<1>1. /\ n \in Node /\ n.kind = Top(v).kind /\ n.state = "ended"
      /\ n.column = Top(v).column /\ n.lined = Top(v).lined
  BY TopFacts DEF Node
<1>2. e.state = "ended" /\ e.node = n.kind
  BY <1>1 DEF EventOf, Event
<1>3. Ended(v) = IF t.err THEN t ELSE IF p.err THEN q ELSE r
  BY Zenon DEF Ended, Tell
<1>4. c.begin = n.column /\ c.end = Column(v, e) /\ c.lined = n.lined
  OBVIOUS
<1> HIDE DEF n, e, c
<1>5. /\ Typed(x) /\ Still(v, x) /\ x.nodes = Front(v.nodes) \o <<n>> /\ x.stack = v.stack
      /\ x.depth = v.depth
  BY <1>1, SetTopFacts, SetTopStill DEF Inv
<1> HIDE DEF x
<1>6. /\ y = x \/ y = LeaveLevel(x) \/ y = [x EXCEPT !.panic = TRUE]
      /\ v.room # 0 => y = IF n.kind \in Indenting THEN LeaveLevel(x) ELSE x
  <2>1. InRange(x) <=> InRange(v)
    BY <1>5 DEF InRange
  <2>2. v.room # 0 => InRange(v)
    BY SoundDepth
  <2> QED
    BY <1>2, <2>1, <2>2 DEF Indent, NeedsFrame, StartsLine, Moved
<1>7. Still(x, y)
  BY <1>5, IndentStill
<1>8. Typed(y) /\ y.nodes = x.nodes
  <2>1. \/ n.kind \notin Indenting /\ y = x
        \/ n.kind \in Indenting /\ InRange(x) /\ y = LeaveLevel(x)
        \/ n.kind \in Indenting /\ ~InRange(x) /\ y = [x EXCEPT !.panic = TRUE]
    BY <1>2 DEF Indent, NeedsFrame, StartsLine, Moved
  <2> HIDE DEF y
  <2> QED
    BY <1>5, <2>1, LevelFacts, PanicFacts
<1>9. v.room # 0 => y.stack = IF n.kind \in Indenting THEN Front(v.stack) ELSE v.stack
  <2>1. LeaveLevel(x) = [x EXCEPT !.stack = Front(x.stack), !.depth = x.depth - 1]
    BY <1>5 DEF LeaveLevel, Typed
  <2>2. LeaveLevel(x).stack = Front(x.stack)
    BY <1>5, <2>1 DEF Typed
  <2> HIDE DEF y
  <2> QED
    BY <1>5, <1>6, <2>2
<1> HIDE DEF y
<1>10. Typed(z) /\ Still(y, z) /\ z.nodes = y.nodes /\ z.stack = y.stack /\ z.err = (z.room = 0)
  BY <1>8, PutFacts, PutStill
<1> HIDE DEF z
<1>11. Typed(t) /\ Still(z, t) /\ t.nodes = z.nodes /\ t.stack = z.stack /\ t.err = (t.room = 0) /\ t.again = b
  <2>1. b \in BOOLEAN
    BY Zenon
  <2> HIDE DEF b
  <2>2. t.room = z.room /\ t.closed = z.closed /\ t.nodes = z.nodes /\ t.stack = z.stack /\ t.err = z.err /\ t.again = b
    BY <1>10 DEF Typed
  <2>3. Typed(t)
    <3>1. ASSUME NEW d \in BOOLEAN, NEW u, u = [z EXCEPT !.again = d] PROVE Typed(u)
      BY <1>10, <3>1 DEF Typed
    <3> QED
      BY <2>1, <3>1, Zenon
  <2> HIDE DEF t
  <2> QED
    BY <1>10, <2>2, <2>3, Zenon DEF Still
<1> HIDE DEF t
<1>12. Typed(p) /\ Still(t, p) /\ p.nodes = t.nodes /\ p.stack = t.stack /\ p.err = (p.room = 0) /\ p.again = b
  <2>1. Typed(Put(t)) /\ Still(t, Put(t)) /\ Put(t).nodes = t.nodes /\ Put(t).stack = t.stack
        /\ Put(t).err = (Put(t).room = 0) /\ Put(t).again = t.again
    BY <1>11, PutFacts, PutStill
  <2>2. Still(t, t)
    BY DEF Still
  <2> HIDE DEF b
  <2> QED
    BY <1>11, <2>1, <2>2, Zenon
<1> HIDE DEF p
<1>13. Still(v, t) /\ Still(v, p)
  BY <1>5, <1>7, <1>10, <1>11, <1>12, StillAlong
<1>14. CASE t.err
  <2>1. Ended(v) = t /\ t.room = 0
    BY <1>3, <1>11, <1>14
  <2>2. t.closed = NoneClosed
    BY <1>13 DEF Still
  <2> QED
    BY <2>1, <2>2 DEF Sound, Closers, NoneClosed
<1>15. CASE ~t.err /\ p.err
  <2>1. Ended(v) = q /\ p.room = 0
    BY <1>3, <1>12, <1>15
  <2>2. q.room = p.room /\ q.closed = p.closed
    BY <1>12 DEF Typed
  <2>3. p.closed = NoneClosed
    BY <1>13 DEF Still
  <2> HIDE DEF q
  <2> QED
    BY <2>1, <2>2, <2>3 DEF Sound, Closers, NoneClosed
<1>16. CASE ~t.err /\ ~p.err
  <2>1. Ended(v) = r /\ p.room # 0 /\ v.room # 0
    BY <1>3, <1>12, <1>13, <1>16 DEF Still
  <2> HIDE DEF f
  <2>2. r.room = p.room /\ r.nodes = f /\ r.stack = p.stack /\ r.again = p.again /\ r.closed = c
    BY <1>12 DEF Typed
  <2> HIDE DEF r
  <2>3. f = Front(v.nodes)
    <3>1. p.nodes = Front(v.nodes) \o <<n>>
      BY <1>5, <1>8, <1>10, <1>11, <1>12
    <3>2. v.nodes \in Seq(Node)
      BY DEF Inv, Typed
    <3> QED
      BY <1>1, <3>1, <3>2, FrontOfTop DEF f
  <2>4. p.stack = IF Top(v).kind \in Indenting THEN Front(v.stack) ELSE v.stack
    BY <1>1, <1>9, <1>10, <1>11, <1>12, <2>1
  <2>5. Aligned(f, p.stack)
    BY <2>1, <2>3, <2>4, FramesStay
  <2>6. ~p.again
    <3>1. ~v.again /\ Aligned(v.nodes, v.stack)
      BY <2>1 DEF Sound
    <3>2. Len(v.nodes) \in 1 .. Len(v.nodes) /\ Top(v) = v.nodes[Len(v.nodes)]
      BY EmptySeq, LenProperties DEF Inv, Typed, Top, Last
    <3>3. Top(v).state # "ended"
      BY <3>1, <3>2 DEF Aligned
    <3> QED
      BY <1>12, <3>1, <3>3
  <2>7. Sound(r)
    BY <2>2, <2>5, <2>6 DEF Sound
  <2>8. Closers(r)
    <3>1. Column(v, e) # NoColumn => Top(v).lined /\ (Top(v).column = NoColumn \/ Top(v).column = Column(v, e))
      BY <1>1, <1>2, <2>1, CloserStands
    <3> QED
      BY <1>1, <1>4, <2>2, <3>1 DEF Closers
  <2> QED
    BY <2>1, <2>7, <2>8
<1> QED
  BY <1>14, <1>15, <1>16

(* The whole of node.end, and pop.                                         *)
LEMMA EndTopSound ==
  ASSUME NEW v, Inv(v), Sound(v), v.nodes # <<>>, v.closed = NoneClosed
  PROVE  Sound(EndTop(v)) /\ (v.room = 0 => EndTop(v).room = 0) /\ Closers(EndTop(v))
<1>1. CASE Top(v).state = "open"
  <2> DEFINE o == Opened(v)
  <2>1. /\ Inv(o) /\ o.nodes # <<>> /\ Top(o).state = "opened"
        /\ Sound(o) /\ Still(v, o)
    BY <1>1, OpenedInv, OpenedSound
  <2>2. EndTop(v) = IF o.err THEN o ELSE Ended(o)
    BY <1>1 DEF EndTop
  <2> HIDE DEF o
  <2>3. o.closed = NoneClosed /\ (v.room = 0 => o.room = 0)
    BY <2>1 DEF Still
  <2>4. Closers(o)
    BY <2>3 DEF Closers, NoneClosed
  <2>5. Sound(Ended(o)) /\ (o.room = 0 => Ended(o).room = 0) /\ Closers(Ended(o))
    BY <2>1, <2>3, EndedSound
  <2> QED
    BY <2>1, <2>2, <2>3, <2>4, <2>5
<1>2. CASE Top(v).state # "open"
  <2>1. EndTop(v) = IF v.err THEN v ELSE Ended(v)
    BY <1>2 DEF EndTop
  <2>2. Closers(v)
    BY DEF Closers, NoneClosed
  <2> QED
    BY <1>2, <2>1, <2>2, EndedSound
<1> QED
  BY <1>1, <1>2

-----------------------------------------------------------------------------
(* The calls, and the theorem. *)

(* A call begins with a sink that is no better than it was.                *)
LEMMA GivenSound ==
  ASSUME Inv(s), Sound(s), NEW room \in IF s.room = 0 THEN {0} ELSE Rooms
  PROVE  /\ Inv(Given(room)) /\ Sound(Given(room)) /\ Given(room).nodes = s.nodes
         /\ Given(room).closed = NoneClosed
<1>1. room \in {0} \cup Rooms /\ (s.room = 0 => room = 0)
  OBVIOUS
<1>2. /\ Given(room).room = room /\ Given(room).stack = s.stack /\ Given(room).again = s.again
      /\ Given(room).closed = NoneClosed
  BY DEF Given, Inv, Typed
<1> QED
  BY <1>1, <1>2, GivenInv DEF Sound

(* What a call closed is what the state tells of afterwards.               *)
LEMMA CalledSound ==
  ASSUME NEW c, Inv(c), Sound(c), Closers(c), Called(c)
  PROVE  CInv'
<1> DEFINE r == IF c.room = 0 THEN 0 ELSE Unlimited
<1>1. SInv'
  BY CalledInv
<1>2. s' = [c EXCEPT !.room = r, !.err = FALSE]
  BY DEF Called
<1>3. r # 0 => c.room # 0
  OBVIOUS
<1> HIDE DEF r
<1>4. s'.nodes = c.nodes /\ s'.stack = c.stack /\ s'.again = c.again /\ s'.closed = c.closed /\ s'.room = r
  BY <1>2 DEF Inv, Typed
<1>5. Sound(s)'
  BY <1>3, <1>4 DEF Sound
<1>6. ClosersAlign'
  BY <1>4 DEF Closers, ClosersAlign
<1> QED
  BY <1>1, <1>5, <1>6 DEF CInv

(* A node or a leaf that starts a line is accepted where there are lines.  *)
LEMMA AcceptedFits ==
  ASSUME NEW v, Inv(v), Sound(v), v.nodes # <<>> => Top(v).state # "open",
         NEW kind \in Startables \cup Leaves,
         v.nodes # <<>> => Top(v).kind \in Parents[kind]
  PROVE  Fits(v, kind) /\ (v.nodes # <<>> => kind # "doc")
<1> SUFFICES ASSUME v.nodes # <<>> PROVE Fits(v, kind) /\ kind # "doc"
  BY DEF Fits
<1>1. Top(v) \in Node /\ Top(v).kind \in Startables /\ Top(v).state \in {"open", "opened", "ended"}
  BY TopFacts DEF Node
<1>2. v.room # 0 => Top(v).state = "opened"
  <2>1. v.room # 0 => Aligned(v.nodes, v.stack)
    BY DEF Sound
  <2>2. Len(v.nodes) \in 1 .. Len(v.nodes) /\ Top(v) = v.nodes[Len(v.nodes)]
    BY EmptySeq, LenProperties DEF Inv, Typed, Top, Last
  <2> QED
    BY <1>1, <2>1, <2>2 DEF Aligned
<1>3. kind # "doc"
  BY <1>1 DEF Parents, Startables
<1>4. ASSUME kind \in Indenting \cup Declarations \cup {"comment"}
      PROVE  Top(v).kind = "doc" \/ Top(v).kind \in Indenting
  <2>1. kind = "elem" \/ kind = "dtd" \/ kind = "dtdattlist" \/ kind = "comment" \/ kind \in Declarations
    BY <1>4 DEF Indenting
  <2>2. CASE kind = "elem" \/ kind = "dtd" \/ kind = "dtdattlist" \/ kind = "comment"
    BY <1>1, <2>2 DEF Parents, Startables, Indenting
  <2>3. CASE kind \in Declarations
    BY <1>1, <2>3 DEF Parents, Startables, Indenting, Declarations
  <2> QED
    BY <2>1, <2>2, <2>3
<1> QED
  BY <1>2, <1>3, <1>4 DEF Fits, Holds

(* Every call keeps the lines.                                             *)
LEMMA StepAligns == ASSUME CInv, Next PROVE CInv'
<1>1. Inv(s) /\ Sound(s)
  BY DEF CInv, SInv
<1> DEFINE Offered == IF s.room = 0 THEN {0} ELSE Rooms
<1>2. ASSUME NEW room \in Offered
      PROVE  /\ LET v == Given(room) IN Inv(v) /\ Sound(v) /\ v.nodes = s.nodes /\ v.closed = NoneClosed
             /\ LET w == NextChild(Given(room))
                IN /\ Inv(w) /\ Sound(w) /\ Len(w.nodes) = Len(s.nodes) /\ Closers(w)
                   /\ w.nodes # <<>> => Top(w).state # "open" /\ Top(w).kind = CurrentKind
  <2> DEFINE v == Given(room)
             w == NextChild(v)
  <2>1. Inv(v) /\ Sound(v) /\ v.nodes = s.nodes /\ v.closed = NoneClosed
    BY <1>1, <1>2, GivenSound
  <2> HIDE DEF v
  <2>2. /\ Inv(w) /\ Sound(w) /\ Len(w.nodes) = Len(s.nodes) /\ Still(v, w)
        /\ v.nodes = <<>> => w = v
        /\ v.nodes # <<>> => w.nodes # <<>> /\ Top(w).kind = Top(v).kind /\ Top(w).state # "open"
    BY <2>1, NextChildInv, NextChildSound
  <2> HIDE DEF w
  <2>3. Closers(w)
    BY <2>1, <2>2 DEF Still, Closers, NoneClosed
  <2>4. w.nodes # <<>> => Top(w).state # "open" /\ Top(w).kind = CurrentKind
    BY <2>1, <2>2 DEF CurrentKind, Top
  <2> QED
    BY <2>1, <2>2, <2>3, <2>4 DEF w, v
<1> HIDE DEF Offered
<1>3. CASE Start
  <2>1. PICK kind \in Startables, inner \in {"none", "leaf", "refused"} :
          /\ CurrentKind \in Parents[kind]
          /\ kind \notin WithInner => inner = "none"
          /\ Do(LAMBDA v : LET n == NextChild(v) IN IF n.err THEN n ELSE Push(n, kind, inner))
    BY <1>3, Zenon DEF Start
  <2>2. PICK room \in Offered :
          LET v == Given(room)
          IN Called(IF NextChild(v).err THEN NextChild(v) ELSE Push(NextChild(v), kind, inner))
    BY <2>1 DEF Do, Called, Given, Offered
  <2> DEFINE w == NextChild(Given(room))
  <2>3. /\ Inv(w) /\ Sound(w) /\ Len(w.nodes) < MaxDepth /\ Closers(w)
        /\ w.nodes # <<>> => Top(w).state # "open" /\ Top(w).kind = CurrentKind
    BY <1>2, <1>3 DEF Start
  <2>4. Called(IF w.err THEN w ELSE Push(w, kind, inner))
    BY <2>2
  <2>5. w.closed = NoneClosed
    <3>1. Still(Given(room), w) /\ Given(room).closed = NoneClosed
      BY <1>2, NextChildSound
    <3> QED
      BY <3>1 DEF Still
  <2> HIDE DEF w
  <2>6. Fits(w, kind) /\ (w.nodes # <<>> => kind # "doc")
    BY <2>1, <2>3, AcceptedFits
  <2>7. Sound(Push(w, kind, inner)) /\ Still(w, Push(w, kind, inner)) /\ Inv(Push(w, kind, inner))
    BY <2>1, <2>3, <2>6, PushSound, PushInv
  <2>8. Closers(Push(w, kind, inner))
    BY <2>5, <2>7 DEF Still, Closers, NoneClosed
  <2> QED
    BY <2>3, <2>4, <2>7, <2>8, CalledSound
<1>4. CASE Write
  <2>1. PICK kind \in Leaves, room \in Offered :
          /\ CurrentKind \in Parents[kind]
          /\ Called(PutLeaf([NextChild(Given(room)) EXCEPT !.err = FALSE], kind))
    BY <1>4 DEF Write, Do, Called, Given, Offered
  <2> DEFINE w == NextChild(Given(room))
             x == [w EXCEPT !.err = FALSE]
  <2>2. /\ Inv(w) /\ Sound(w)
        /\ w.nodes # <<>> => Top(w).state # "open" /\ Top(w).kind = CurrentKind
    BY <1>2
  <2>3. w.closed = NoneClosed
    <3>1. Still(Given(room), w) /\ Given(room).closed = NoneClosed
      BY <1>2, NextChildSound
    <3> QED
      BY <3>1 DEF Still
  <2> HIDE DEF w
  <2>4. Inv(x) /\ Sound(x) /\ Still(w, x) /\ x.nodes = w.nodes
    <3>1. FALSE \in BOOLEAN
      OBVIOUS
    <3>2. Inv(x) /\ Sound(x) /\ Still(w, x)
      <4>1. Like(w, x)
        BY <2>2, <3>1, LastLike, Zenon
      <4>2. Sound(x) /\ Still(w, x)
        BY <2>2, <3>1, OutputSound, Zenon
      <4> QED
        BY <4>1, <4>2 DEF Like
    <3>3. x.nodes = w.nodes
      BY <2>2 DEF Inv, Typed
    <3> QED
      BY <3>2, <3>3
  <2>5. Called(PutLeaf(x, kind))
    BY <2>1 DEF w
  <2> HIDE DEF x
  <2>6. Fits(x, kind)
    <3>1. Top(x) = Top(w)
      BY <2>4 DEF Top
    <3>2. x.nodes # <<>> => Top(x).state # "open" /\ Top(x).kind \in Parents[kind]
      BY <2>1, <2>2, <2>4, <3>1
    <3> QED
      BY <2>1, <2>4, <3>2, AcceptedFits
  <2>7. Sound(PutLeaf(x, kind)) /\ Still(x, PutLeaf(x, kind)) /\ Inv(PutLeaf(x, kind))
    BY <2>4, <2>6, PutLeafSound, PutLeafLike DEF Like
  <2>8. Closers(PutLeaf(x, kind))
    BY <2>3, <2>4, <2>7 DEF Still, Closers, NoneClosed
  <2> QED
    BY <2>5, <2>7, <2>8, CalledSound
<1>5. CASE WriteLoose
  <2>1. PICK kind \in {"raw", "attr"}, room \in Offered : Called(PutLeaf(Given(room), kind))
    BY <1>5 DEF WriteLoose, Do, Called, Given, Offered
  <2> DEFINE v == Given(room)
  <2>2. Inv(v) /\ Sound(v) /\ v.closed = NoneClosed
    BY <1>2
  <2> HIDE DEF v
  <2>3. Fits(v, kind)
    BY DEF Fits, Indenting, Declarations
  <2>4. Sound(PutLeaf(v, kind)) /\ Still(v, PutLeaf(v, kind)) /\ Inv(PutLeaf(v, kind))
    BY <2>2, <2>3, PutLeafSound, PutLeafLike DEF Like
  <2>5. Closers(PutLeaf(v, kind))
    BY <2>2, <2>4 DEF Still, Closers, NoneClosed
  <2> QED
    BY <2>1, <2>4, <2>5, CalledSound DEF v
<1>6. CASE CallNext
  <2>1. PICK room \in Offered : Called(NextChild(Given(room)))
    BY <1>6 DEF CallNext, Do, Called, Given, Offered
  <2> QED
    BY <1>2, <2>1, CalledSound
<1>7. CASE End
  <2>1. PICK room \in Offered : Called(EndTop(Given(room))) /\ s.nodes # <<>>
    BY <1>7 DEF End, Do, Called, Given, Offered
  <2> DEFINE v == Given(room)
  <2>2. Inv(v) /\ Sound(v) /\ v.nodes # <<>> /\ v.closed = NoneClosed
    BY <1>2, <2>1
  <2>3. Called(EndTop(v))
    BY <2>1
  <2> HIDE DEF v
  <2> QED
    BY <2>2, <2>3, EndTopInv, EndTopSound, CalledSound
<1> QED
  BY <1>3, <1>4, <1>5, <1>6, <1>7 DEF Next

(* The invariant of the lines holds initially and after every call.        *)
THEOREM LinesInvariance == Spec => []CInv
<1>1. Init => CInv
  <2> SUFFICES ASSUME Init PROVE CInv
    OBVIOUS
  <2>1. SInv
    BY InitInv
  <2>2. s.nodes = <<>> /\ s.again = FALSE /\ s.closed = NoneClosed
    BY DEF Init
  <2>3. Aligned(s.nodes, s.stack)
    <3>1. Len(s.nodes) = 0
      BY <2>2
    <3> QED
      BY <3>1 DEF Aligned
  <2> QED
    BY <2>1, <2>2, <2>3 DEF CInv, Sound, ClosersAlign, NoneClosed
<1>2. CInv /\ [Next]_s => CInv'
  <2>1. ASSUME CInv, UNCHANGED s PROVE CInv'
    <3>1. s' = s
      BY <2>1
    <3> QED
      BY <2>1, <3>1 DEF CInv, SInv, Sound, ClosersAlign
  <2> QED
    BY <2>1, StepAligns
<1> QED
  BY <1>1, <1>2, PTL DEF Spec

(* A closing tag that starts a line stands in the column of its opening    *)
(* tag, or the opening tag starts no line, and there is a line between     *)
(* them: whatever has failed before, for every depth.                      *)
THEOREM ClosersStandBelow == Spec => []ClosersAlign
<1>1. CInv => ClosersAlign
  BY DEF CInv
<1> QED
  BY <1>1, LinesInvariance, PTL
=============================================================================
