------------------------- MODULE ElemContentProofs -------------------------
(***************************************************************************)
(* Proofs about ElemContent, for every depth, every length the slice of    *)
(* nodes starts with and every tree of Contents.                           *)
(***************************************************************************)
EXTENDS ElemContent, Lemmas

(* What the reader has of a construct: of elements it reads no name but "a".*)
ReadCells == [kind : {"none"} \cup Startables, name : Names \cup {NoName, "a"}, tag : BOOLEAN]

Readers == [ok : BOOLEAN, top : -1 .. MaxDepth - 1, cell : [Slots -> ReadCells]]

Errors == {"nil", "failed"}

Machines ==
  [mem : [Arrays -> [Slots -> Node]], arr : Arrays, len : Nat, cur : -1 .. MaxDepth - 1,
   frames : Seq(FrameType), rd : Readers, err : Errors, doubt : BOOLEAN]

-----------------------------------------------------------------------------
(* The invariant. *)

(* The array in use. *)
Used(v) == v.mem[v.arr]

(* What node.end holds: a node that is still on the stack.  Where the slice*)
(* has left the array, all but the last node of it had a child by then.    *)
Points(v, n) ==
  /\ n.arr <= v.arr /\ n.at <= v.cur
  /\ Deref(v, n).full = Used(v)[n.at].full
  /\ n.arr # v.arr =>
       n.at < Cap[n.arr] /\ (n.at # Cap[n.arr] - 1 => Deref(v, n).kids /\ Used(v)[n.at].kids)

(* Memory: a node with another on top of it is opened and has a child.     *)
Loose(v) ==
  /\ v \in Machines
  /\ v.cur < v.len /\ 1 <= v.len /\ v.len <= Cap[v.arr]
  /\ \A s \in 0 .. v.cur - 1 : Used(v)[s].kids /\ Used(v)[s].state = "opened"
  /\ v.cur >= 0 => Used(v)[v.cur].state # "ended"
  /\ \A i \in 1 .. Len(v.frames) : v.frames[i].fn = "end" => Points(v, v.frames[i].n)

(* Between the steps, so is the current node if it has a child.            *)
Held(v) ==
  Loose(v) /\ (v.cur >= 0 /\ Used(v)[v.cur].kids => Used(v)[v.cur].state = "opened")

(* The calls in progress: what was called from outside waits below; above  *)
(* it the loop over a Content and the end of one of its elements take turns*)
(* and each pair of them is about one node more.  For the node that waits   *)
(* to be pushed there is room.                                             *)
Turn(fr) == IF fr[Len(fr)].fn = "content" THEN Len(fr) ELSE Len(fr) + 1

(* Twice the index of the node that the call is about.                     *)
Base(fr, cur, i) == (cur + cur) - (Turn(fr) - i - 1)

Link(fr, cur, len, i) ==
  LET L == Len(fr) IN
  /\ fr[i].fn = "text" => i = 1 /\ (i = L \/ fr[i + 1].fn = "content")
  /\ fr[i].fn = "push" => /\ i = 1 \/ (i = 2 /\ fr[1].fn = "write")
                          /\ i = L \/ fr[i + 1].fn = "content"
                          /\ fr[i].node.state = "open" /\ ~fr[i].node.kids
                          /\ Base(fr, cur, i) + 2 < len + len
  /\ fr[i].fn = "write" => \/ i = 1 /\ L > 1 /\ fr[2].fn = "push"
                           \/ i = L /\ (i = 1 \/ fr[i - 1].fn = "content")
  /\ fr[i].fn = "end" => /\ i = 1 \/ fr[i - 1].fn = "content"
                         /\ i = L \/ fr[i + 1].fn = "content"
                         /\ fr[i].prev = "open"
                         /\ Base(fr, cur, i) = fr[i].n.at + fr[i].n.at
  /\ fr[i].fn = "content" => /\ i > 1 /\ fr[i - 1].fn \in {"text", "push", "end"}
                             /\ i = L \/ fr[i + 1].fn \in {"write", "end"}
                             /\ Base(fr, cur, i) > 0

Chain(fr, cur, len) == \A i \in 1 .. Len(fr) : Link(fr, cur, len, i)

(* What the innermost call finds at the current node.                      *)
Topped(v) ==
  v.frames # <<>> =>
    LET L == Len(v.frames)
        f == v.frames[L]
        n == Used(v)[v.cur]
    IN /\ f.fn = "push" \/ (f.fn = "text" /\ ~v.doubt) => v.cur < 0 \/ (n.state = "opened" /\ n.kids)
       /\ f.fn = "write" => v.cur >= 0 /\ n.state = "open"
       /\ f.fn = "end" => v.cur >= 0 /\ n.state = "opened" /\ (n.content > 0 => n.kids)
       /\ f.fn = "content" => /\ v.cur >= 0 /\ n.state = "opened" /\ (n.kids \/ f.left > 0)
                              /\ v.frames[L - 1].fn \in {"text", "push"} => n.kids

(* The reader has open what is on the stack; of a node that is ended with  *)
(* "/>" it knows before the node is off the stack.                         *)
Reads(rd, used, top) ==
  /\ rd.ok /\ rd.top = top
  /\ \A s \in 0 .. top : /\ rd.cell[s].kind = "elem" /\ rd.cell[s].name = "a"
                         /\ rd.cell[s].tag = (used[s].state = "open")

Ended(v) ==
  /\ v.frames # <<>> /\ v.frames[Len(v.frames)].fn = "end"
  /\ ~Used(v)[v.cur].kids /\ ~Used(v)[v.cur].full

Agrees(v) ==
  v.err = "nil" /\ ~v.doubt => Reads(v.rd, Used(v), IF Ended(v) THEN v.cur - 1 ELSE v.cur)

Sound(v) == Held(v) /\ Chain(v.frames, v.cur, v.len) /\ Topped(v) /\ Agrees(v)

Inv == Sound(m)

-----------------------------------------------------------------------------
(* The capacity of the arrays. *)

(* It doubles from one array to the next.                                  *)
LEMMA CapDoubles ==
  /\ Cap[0] = InitialNodeDepth
  /\ \A g \in 0 .. MaxDepth : Cap[g] \in Nat
  /\ \A g \in 1 .. MaxDepth : Cap[g] = 2 * Cap[g - 1]
<1> DEFINE step == [i \in 1 .. MaxDepth |-> [n \in Nat |-> 2 * n]]
<1>1. MaxDepth \in Nat /\ InitialNodeDepth \in Nat
  BY MaxDepthAssumption, ArrayAssumption
<1>2. step \in [1 .. MaxDepth -> [Nat -> Nat]] /\ \A i \in 1 .. MaxDepth, n \in Nat : step[i][n] = 2 * n
  OBVIOUS
<1> HIDE DEF step
<1>3. PICK g \in [0 .. MaxDepth -> Nat] :
        g[0] = InitialNodeDepth /\ \A i \in 1 .. MaxDepth : g[i] = step[i][g[i - 1]]
  <2>1. Recursions(MaxDepth, Nat, InitialNodeDepth, step) # {}
    BY <1>1, <1>2, RecursionUpTo
  <2> QED
    BY <2>1 DEF Recursions
<1>4. \A i \in 1 .. MaxDepth : i - 1 \in 0 .. MaxDepth /\ g[i] = 2 * g[i - 1]
  <2> TAKE i \in 1 .. MaxDepth
  <2>1. i - 1 \in 0 .. MaxDepth
    BY <1>1
  <2>2. g[i - 1] \in Nat
    BY <2>1
  <2> QED
    BY <1>2, <1>3, <2>1, <2>2
<1>5. g = [i \in 0 .. MaxDepth |-> IF i = 0 THEN InitialNodeDepth ELSE 2 * g[i - 1]]
  <2>1. \A i \in 0 .. MaxDepth : g[i] = IF i = 0 THEN InitialNodeDepth ELSE 2 * g[i - 1]
    BY <1>1, <1>3, <1>4
  <2> QED
    BY <2>1
<1>6. Cap = [i \in 0 .. MaxDepth |-> IF i = 0 THEN InitialNodeDepth ELSE 2 * Cap[i - 1]]
  BY <1>5, Zenon DEF Cap
<1>7. \A i \in 0 .. MaxDepth : Cap[i] = IF i = 0 THEN InitialNodeDepth ELSE 2 * Cap[i - 1]
  BY <1>6
<1>8. Cap[0] = InitialNodeDepth /\ \A i \in 1 .. MaxDepth : Cap[i] = 2 * Cap[i - 1]
  BY <1>1, <1>7
<1> DEFINE S == {i \in 0 .. MaxDepth : Cap[i] \in Nat}
<1>9. 0 \in S
  BY <1>1, <1>8
<1>10. ASSUME NEW i \in 0 .. MaxDepth - 1, i \in S PROVE i + 1 \in S
  <2>1. i + 1 \in 1 .. MaxDepth /\ (i + 1) - 1 = i
    BY <1>1
  <2>2. Cap[i + 1] = 2 * Cap[i]
    BY <1>8, <2>1
  <2> QED
    BY <1>10, <2>1, <2>2
<1>11. 0 .. MaxDepth \subseteq S
  <2> HIDE DEF S
  <2>1. \A i \in 0 .. MaxDepth - 1 : i \in S => i + 1 \in S
    BY <1>10
  <2> QED
    BY <1>1, <1>9, <2>1, InductionUpTo
<1> QED
  BY <1>8, <1>11

(* It is greater than the number of arrays before.                         *)
LEMMA CapGrows ==
  \A g \in 0 .. MaxDepth : Cap[g] > g
<1> DEFINE S == {g \in 0 .. MaxDepth : Cap[g] > g}
<1>1. MaxDepth \in Nat /\ InitialNodeDepth \in Nat \ {0}
  BY MaxDepthAssumption, ArrayAssumption
<1>2. 0 \in S
  BY <1>1, CapDoubles
<1>3. ASSUME NEW i \in 0 .. MaxDepth - 1, i \in S PROVE i + 1 \in S
  <2>1. i + 1 \in 1 .. MaxDepth /\ (i + 1) - 1 = i /\ i \in 0 .. MaxDepth
    BY <1>1
  <2>2. Cap[i + 1] = 2 * Cap[i] /\ Cap[i] \in Nat /\ Cap[i] > i
    BY <1>3, <2>1, CapDoubles
  <2>3. Cap[i + 1] > i + 1
    BY <2>1, <2>2
  <2> QED
    BY <2>1, <2>3
<1>4. 0 .. MaxDepth \subseteq S
  <2> HIDE DEF S
  <2>1. \A i \in 0 .. MaxDepth - 1 : i \in S => i + 1 \in S
    BY <1>3
  <2> QED
    BY <1>1, <1>2, <2>1, InductionUpTo
<1> QED
  BY <1>4

(* An array that is outgrown before the greatest depth is followed by one. *)
LEMMA NextArray ==
  ASSUME NEW g \in Arrays, Cap[g] < MaxDepth
  PROVE  g + 1 \in Arrays /\ Cap[g + 1] = 2 * Cap[g]
<1>1. MaxDepth \in Nat /\ g \in 0 .. MaxDepth
  BY MaxDepthAssumption DEF Arrays
<1>2. Cap[g] > g /\ Cap[g] \in Nat
  BY <1>1, CapGrows, CapDoubles
<1>3. g + 1 \in 1 .. MaxDepth /\ (g + 1) - 1 = g
  BY <1>1, <1>2
<1> QED
  BY <1>3, CapDoubles DEF Arrays

-----------------------------------------------------------------------------
(* The parts of a machine, and the operations one field at a time. *)

(* What a machine consists of.                                             *)
LEMMA MachineParts ==
  ASSUME NEW v \in Machines
  PROVE  /\ v.mem \in [Arrays -> [Slots -> Node]] /\ v.arr \in Arrays /\ v.len \in Nat
         /\ v.cur \in -1 .. MaxDepth - 1 /\ v.frames \in Seq(FrameType) /\ v.rd \in Readers
         /\ v.err \in Errors /\ v.doubt \in BOOLEAN
         /\ Len(v.frames) \in Nat /\ (v.frames = <<>> <=> Len(v.frames) = 0)
         /\ \A i \in 1 .. Len(v.frames) : v.frames[i] \in FrameType
         /\ v = [mem |-> v.mem, arr |-> v.arr, len |-> v.len, cur |-> v.cur, frames |-> v.frames,
                 rd |-> v.rd, err |-> v.err, doubt |-> v.doubt]
<1>1. /\ v.mem \in [Arrays -> [Slots -> Node]] /\ v.arr \in Arrays /\ v.len \in Nat
      /\ v.cur \in -1 .. MaxDepth - 1 /\ v.frames \in Seq(FrameType) /\ v.rd \in Readers
      /\ v.err \in Errors /\ v.doubt \in BOOLEAN
      /\ v = [mem |-> v.mem, arr |-> v.arr, len |-> v.len, cur |-> v.cur, frames |-> v.frames,
              rd |-> v.rd, err |-> v.err, doubt |-> v.doubt]
  BY DEF Machines
<1> QED
  BY <1>1, EmptySeq, LenProperties, ElementOfSeq

(* A machine with one field replaced.                                      *)
LEMMA FieldReplaced ==
  ASSUME NEW v \in Machines
  PROVE  /\ \A x \in [Arrays -> [Slots -> Node]] : LET w == [v EXCEPT !.mem = x] IN
              /\ w \in Machines
              /\ w.mem = x /\ w.arr = v.arr /\ w.len = v.len /\ w.cur = v.cur
              /\ w.frames = v.frames /\ w.rd = v.rd /\ w.err = v.err /\ w.doubt = v.doubt
         /\ \A x \in Nat : LET w == [v EXCEPT !.len = x] IN
              /\ w \in Machines
              /\ w.mem = v.mem /\ w.arr = v.arr /\ w.len = x /\ w.cur = v.cur
              /\ w.frames = v.frames /\ w.rd = v.rd /\ w.err = v.err /\ w.doubt = v.doubt
         /\ \A x \in -1 .. MaxDepth - 1 : LET w == [v EXCEPT !.cur = x] IN
              /\ w \in Machines
              /\ w.mem = v.mem /\ w.arr = v.arr /\ w.len = v.len /\ w.cur = x
              /\ w.frames = v.frames /\ w.rd = v.rd /\ w.err = v.err /\ w.doubt = v.doubt
         /\ \A x \in Seq(FrameType) : LET w == [v EXCEPT !.frames = x] IN
              /\ w \in Machines
              /\ w.mem = v.mem /\ w.arr = v.arr /\ w.len = v.len /\ w.cur = v.cur
              /\ w.frames = x /\ w.rd = v.rd /\ w.err = v.err /\ w.doubt = v.doubt
         /\ \A x \in Readers : LET w == [v EXCEPT !.rd = x] IN
              /\ w \in Machines
              /\ w.mem = v.mem /\ w.arr = v.arr /\ w.len = v.len /\ w.cur = v.cur
              /\ w.frames = v.frames /\ w.rd = x /\ w.err = v.err /\ w.doubt = v.doubt
BY DEF Machines

(* A call is entered,                                                      *)
LEMMA CallFacts ==
  ASSUME NEW v \in Machines, NEW f \in FrameType
  PROVE  LET w == Call(v, f)
         IN /\ w \in Machines
            /\ w.mem = v.mem /\ w.arr = v.arr /\ w.len = v.len /\ w.cur = v.cur
            /\ w.frames = Append(v.frames, f) /\ w.rd = v.rd /\ w.err = v.err /\ w.doubt = v.doubt
<1>1. Append(v.frames, f) \in Seq(FrameType)
  BY MachineParts, AppendProperties
<1> QED
  BY <1>1, FieldReplaced, Zenon DEF Call

(* and left;                                                               *)
LEMMA ReturnFacts ==
  ASSUME NEW v \in Machines, v.frames # <<>>
  PROVE  LET w == Return(v)
         IN /\ w \in Machines
            /\ w.mem = v.mem /\ w.arr = v.arr /\ w.len = v.len /\ w.cur = v.cur
            /\ w.frames = Front(v.frames) /\ w.rd = v.rd /\ w.err = v.err /\ w.doubt = v.doubt
<1>1. Front(v.frames) \in Seq(FrameType)
  BY MachineParts, LastDropped DEF Front
<1> QED
  BY <1>1, FieldReplaced, Zenon DEF Return

(* the reader reads;                                                       *)
LEMMA EmitFacts ==
  ASSUME NEW v \in Machines, NEW rd \in Readers
  PROVE  LET w == Emit(v, rd)
         IN /\ w \in Machines
            /\ w.mem = v.mem /\ w.arr = v.arr /\ w.len = v.len /\ w.cur = v.cur
            /\ w.frames = v.frames /\ w.rd = rd /\ w.err = v.err /\ w.doubt = v.doubt
BY FieldReplaced, Zenon DEF Emit

(* a node is written,                                                      *)
LEMMA StoreFacts ==
  ASSUME NEW v \in Machines, NEW p, p.arr \in Arrays, p.at \in Slots, NEW n \in Node
  PROVE  LET w == Store(v, p, n)
         IN /\ w \in Machines
            /\ w.arr = v.arr /\ w.len = v.len /\ w.cur = v.cur
            /\ w.frames = v.frames /\ w.rd = v.rd /\ w.err = v.err /\ w.doubt = v.doubt
            /\ \A g \in Arrays, s \in Slots :
                 w.mem[g][s] = IF g = p.arr /\ s = p.at THEN n ELSE v.mem[g][s]
<1> DEFINE x == [v.mem EXCEPT ![p.arr] = [v.mem[p.arr] EXCEPT ![p.at] = n]]
<1>1. v.mem \in [Arrays -> [Slots -> Node]]
  BY MachineParts
<1>2. x \in [Arrays -> [Slots -> Node]]
  BY <1>1
<1>3. \A g \in Arrays, s \in Slots : x[g][s] = IF g = p.arr /\ s = p.at THEN n ELSE v.mem[g][s]
  BY <1>1
<1>4. Store(v, p, n) = [v EXCEPT !.mem = x]
  BY <1>1 DEF Store, Machines
<1> DEFINE w == [v EXCEPT !.mem = x]
<1>5. /\ w \in Machines
      /\ w.mem = x /\ w.arr = v.arr /\ w.len = v.len /\ w.cur = v.cur
      /\ w.frames = v.frames /\ w.rd = v.rd /\ w.err = v.err /\ w.doubt = v.doubt
  <2> HIDE DEF x
  <2> QED
    BY <1>2, FieldReplaced, Zenon
<1>6. Store(v, p, n) = w
  BY <1>4
<1> HIDE DEF x, w
<1> QED
  BY <1>3, <1>5, <1>6

(* and the garbage is collected.                                           *)
LEMMA CollectedFacts ==
  ASSUME NEW v \in Machines
  PROVE  LET w == Collected(v)
         IN /\ w \in Machines
            /\ w.arr = v.arr /\ w.len = v.len /\ w.cur = v.cur
            /\ w.frames = v.frames /\ w.rd = v.rd /\ w.err = v.err /\ w.doubt = v.doubt
            /\ w.mem[v.arr] = v.mem[v.arr]
            /\ \A i \in 1 .. Len(v.frames) :
                 v.frames[i].fn = "end" => w.mem[v.frames[i].n.arr] = v.mem[v.frames[i].n.arr]
<1> DEFINE live == {v.arr} \cup {v.frames[i].n.arr : i \in {j \in DOMAIN v.frames : v.frames[j].fn = "end"}}
           x == [g \in Arrays |-> IF g \in live THEN v.mem[g] ELSE [s \in Slots |-> ZeroNode]]
<1>1. v.mem \in [Arrays -> [Slots -> Node]] /\ v.arr \in Arrays
  BY MachineParts
<1>2. ZeroNode \in Node
  BY ArrayAssumption DEF ZeroNode, Node
<1>3. x \in [Arrays -> [Slots -> Node]]
  BY <1>1, <1>2
<1>4. \A g \in Arrays : g \in live => x[g] = v.mem[g]
  OBVIOUS
<1>5. v.arr \in live /\ \A i \in 1 .. Len(v.frames) :
        v.frames[i].fn = "end" => v.frames[i].n.arr \in live /\ v.frames[i].n.arr \in Arrays
  <2>1. DOMAIN v.frames = 1 .. Len(v.frames)
    BY MachineParts, LenProperties
  <2>2. \A i \in 1 .. Len(v.frames) : v.frames[i].n.arr \in Arrays
    <3> TAKE i \in 1 .. Len(v.frames)
    <3>1. v.frames[i] \in FrameType
      BY MachineParts
    <3> QED
      BY <3>1 DEF FrameType, Pointer
  <2> QED
    BY <2>1, <2>2
<1> HIDE DEF live
<1>6. Collected(v) = [v EXCEPT !.mem = x]
  BY DEF Collected, live
<1> DEFINE w == [v EXCEPT !.mem = x]
<1>7. /\ w \in Machines
      /\ w.mem = x /\ w.arr = v.arr /\ w.len = v.len /\ w.cur = v.cur
      /\ w.frames = v.frames /\ w.rd = v.rd /\ w.err = v.err /\ w.doubt = v.doubt
  <2> HIDE DEF x
  <2> QED
    BY <1>3, FieldReplaced, Zenon
<1>8. Collected(v) = w
  BY <1>6
<1> HIDE DEF x, w
<1> QED
  BY <1>1, <1>4, <1>5, <1>7, <1>8

States == {"open", "opened", "ended"}

InState(n, st)    == [n EXCEPT !.state = st]
WithKids(n, b)    == [n EXCEPT !.kids = b]
WithFull(n, b)    == [n EXCEPT !.full = b]
WithContent(n, c) == [n EXCEPT !.content = c]

(* The parts of a node,                                                    *)
LEMMA NodeParts ==
  ASSUME NEW n \in Node
  PROVE  /\ n.kids \in BOOLEAN /\ n.full \in BOOLEAN /\ n.content \in Nat
         /\ n.content \in 0 .. MaxContent /\ n.state \in States
BY ArrayAssumption DEF Node, States

(* and a node with one field replaced: its state,                          *)
LEMMA InStateFacts ==
  ASSUME NEW n \in Node, NEW st \in States
  PROVE  LET w == InState(n, st)
         IN w \in Node /\ w.state = st /\ w.kids = n.kids /\ w.full = n.full /\ w.content = n.content
<1>1. Node = [state : States, kids : BOOLEAN, full : BOOLEAN, content : 0 .. MaxContent]
  BY DEF Node, States
<1> QED
  BY <1>1 DEF InState

(* whether it has a child,                                                 *)
LEMMA WithKidsFacts ==
  ASSUME NEW n \in Node, NEW b \in BOOLEAN
  PROVE  LET w == WithKids(n, b)
         IN w \in Node /\ w.state = n.state /\ w.kids = b /\ w.full = n.full /\ w.content = n.content
<1>1. Node = [state : States, kids : BOOLEAN, full : BOOLEAN, content : 0 .. MaxContent]
  BY DEF Node, States
<1> QED
  BY <1>1 DEF WithKids

(* whether it is written in full,                                          *)
LEMMA WithFullFacts ==
  ASSUME NEW n \in Node, NEW b \in BOOLEAN
  PROVE  LET w == WithFull(n, b)
         IN w \in Node /\ w.state = n.state /\ w.kids = n.kids /\ w.full = b /\ w.content = n.content
<1>1. Node = [state : States, kids : BOOLEAN, full : BOOLEAN, content : 0 .. MaxContent]
  BY DEF Node, States
<1> QED
  BY <1>1 DEF WithFull

(* its Content.                                                            *)
LEMMA WithContentFacts ==
  ASSUME NEW n \in Node, NEW c \in 0 .. MaxContent
  PROVE  LET w == WithContent(n, c)
         IN w \in Node /\ w.state = n.state /\ w.kids = n.kids /\ w.full = n.full /\ w.content = c
<1>1. Node = [state : States, kids : BOOLEAN, full : BOOLEAN, content : 0 .. MaxContent]
  BY DEF Node, States
<1> QED
  BY <1>1 DEF WithContent

(* A node to push.                                                         *)
LEMMA NewNodeFacts ==
  /\ ZeroNode \in Node /\ ZeroNode.state = "open" /\ ZeroNode.kids = FALSE
  /\ \A c \in 0 .. MaxContent, full \in BOOLEAN :
       NewNode(c, full) \in Node /\ NewNode(c, full).state = "open" /\ NewNode(c, full).kids = FALSE
<1>1. Node = [state : States, kids : BOOLEAN, full : BOOLEAN, content : 0 .. MaxContent]
  BY DEF Node, States
<1>2. "open" \in States /\ 0 \in 0 .. MaxContent
  BY ArrayAssumption DEF States
<1>3. ZeroNode \in Node
  BY ArrayAssumption DEF Node, ZeroNode
<1>4. ZeroNode.state = "open" /\ ZeroNode.kids = FALSE
  BY DEF ZeroNode
<1>5. ZeroNode \in Node /\ ZeroNode.state = "open" /\ ZeroNode.kids = FALSE
  BY <1>3, <1>4
<1>6. ASSUME NEW c \in 0 .. MaxContent, NEW full \in BOOLEAN
      PROVE  NewNode(c, full) \in Node /\ NewNode(c, full).state = "open" /\ NewNode(c, full).kids = FALSE
  <2> DEFINE n1 == WithContent(ZeroNode, c)
  <2>1. n1 \in Node /\ n1.state = ZeroNode.state /\ n1.kids = ZeroNode.kids
    BY <1>3, WithContentFacts, Zenon
  <2>2. NewNode(c, full) = WithFull(n1, full)
    BY DEF NewNode, WithFull, WithContent
  <2> HIDE DEF n1
  <2>3. /\ WithFull(n1, full) \in Node /\ WithFull(n1, full).state = n1.state
        /\ WithFull(n1, full).kids = n1.kids
    BY <2>1, WithFullFacts, Zenon
  <2> QED
    BY <1>4, <2>1, <2>2, <2>3, Zenon
<1> QED
  BY <1>5, <1>6, Zenon

(* What the parts of Held say about indices.                               *)
LEMMA HeldParts ==
  ASSUME NEW v, Loose(v)
  PROVE  /\ v \in Machines /\ v.arr \in Arrays /\ v.arr \in Nat /\ Cap[v.arr] \in Nat
         /\ v.len \in Nat /\ v.cur \in -1 .. MaxDepth - 1 /\ v.cur \in Int /\ MaxDepth \in Nat
         /\ v.cur < v.len /\ v.len <= Cap[v.arr]
         /\ v.mem \in [Arrays -> [Slots -> Node]]
         /\ \A s \in Slots : Used(v)[s] \in Node
         /\ v.cur >= 0 => v.cur \in Slots
         /\ \A s \in 0 .. v.cur : s \in Slots
         /\ Current(v).arr = v.arr /\ Current(v).at = v.cur
<1>1. v \in Machines /\ v.cur < v.len /\ v.len <= Cap[v.arr] /\ MaxDepth \in Nat
  BY MaxDepthAssumption DEF Loose
<1>2. v.arr \in Arrays /\ v.len \in Nat /\ v.cur \in -1 .. MaxDepth - 1 /\ v.mem \in [Arrays -> [Slots -> Node]]
  BY <1>1, MachineParts
<1>3. v.arr \in 0 .. MaxDepth
  BY <1>2 DEF Arrays
<1>4. Cap[v.arr] \in Nat
  BY <1>3, CapDoubles
<1>5. \A s \in Slots : Used(v)[s] \in Node
  BY <1>2 DEF Used
<1>6. (v.cur >= 0 => v.cur \in Slots) /\ \A s \in 0 .. v.cur : s \in Slots
  BY <1>1, <1>2 DEF Slots
<1> QED
  BY <1>1, <1>2, <1>3, <1>4, <1>5, <1>6 DEF Current

(* What an end frame holds.                                                *)
LEMMA FramePointer ==
  ASSUME NEW v \in Machines, NEW i \in 1 .. Len(v.frames)
  PROVE  /\ v.frames[i].n.arr \in Arrays /\ v.frames[i].n.at \in Slots /\ v.frames[i].n.at \in Nat
         /\ v.frames[i].n.arr \in Nat /\ Cap[v.frames[i].n.arr] \in Nat
<1>1. v.frames[i] \in FrameType
  BY MachineParts
<1>2. v.frames[i].n.arr \in Arrays /\ v.frames[i].n.at \in Slots
  BY <1>1 DEF FrameType, Pointer
<1>3. v.frames[i].n.arr \in 0 .. MaxDepth
  BY <1>2 DEF Arrays
<1>4. v.frames[i].n.arr \in Nat /\ v.frames[i].n.at \in Nat
  BY <1>2, <1>3, MaxDepthAssumption DEF Slots
<1> QED
  BY <1>2, <1>3, <1>4, CapDoubles

-----------------------------------------------------------------------------
(* The operations keep what Held says of the memory. *)

(* A call is entered, that of node.end with a pointer to a node on the stack.*)
LEMMA HeldCall ==
  ASSUME NEW v, Held(v), NEW f \in FrameType, f.fn = "end" => Points(v, f.n)
  PROVE  Held(Call(v, f))
<1> DEFINE w == Call(v, f)
<1>1. v \in Machines
  BY DEF Held, Loose
<1>2. /\ w \in Machines
      /\ w.mem = v.mem /\ w.arr = v.arr /\ w.len = v.len /\ w.cur = v.cur
      /\ w.frames = Append(v.frames, f)
  BY <1>1, CallFacts, Zenon
<1> HIDE DEF w
<1>3. Used(w) = Used(v) /\ \A n : Points(w, n) <=> Points(v, n)
  BY <1>2 DEF Used, Points, Deref
<1>4. \A i \in 1 .. Len(w.frames) : w.frames[i].fn = "end" => Points(v, w.frames[i].n)
  <2>1. Len(w.frames) = Len(v.frames) + 1 /\ Len(v.frames) \in Nat /\ w.frames[Len(v.frames) + 1] = f
        /\ \A i \in 1 .. Len(v.frames) : w.frames[i] = v.frames[i]
    BY <1>1, <1>2, MachineParts, AppendProperties
  <2> TAKE i \in 1 .. Len(w.frames)
  <2>2. CASE i = Len(v.frames) + 1
    BY <2>1, <2>2
  <2>3. CASE i # Len(v.frames) + 1
    <3>1. i \in 1 .. Len(v.frames)
      BY <2>1, <2>3
    <3> QED
      BY <2>1, <3>1 DEF Held, Loose
  <2> QED
    BY <2>2, <2>3
<1> QED
  BY <1>2, <1>3, <1>4 DEF Held, Loose, w

(* A call is left.                                                         *)
LEMMA HeldReturn ==
  ASSUME NEW v, Held(v), v.frames # <<>>
  PROVE  Held(Return(v))
<1> DEFINE w == Return(v)
<1>1. v \in Machines
  BY DEF Held, Loose
<1>2. /\ w \in Machines
      /\ w.mem = v.mem /\ w.arr = v.arr /\ w.len = v.len /\ w.cur = v.cur
      /\ w.frames = Front(v.frames)
  BY <1>1, ReturnFacts, Zenon
<1> HIDE DEF w
<1>3. Used(w) = Used(v) /\ \A n : Points(w, n) <=> Points(v, n)
  BY <1>2 DEF Used, Points, Deref
<1>4. Len(w.frames) = Len(v.frames) - 1 /\ Len(v.frames) \in Nat
      /\ \A i \in 1 .. Len(w.frames) : w.frames[i] = v.frames[i]
  BY <1>1, <1>2, MachineParts, LastDropped DEF Front
<1>5. \A i \in 1 .. Len(w.frames) : w.frames[i].fn = "end" => Points(v, w.frames[i].n)
  <2> TAKE i \in 1 .. Len(w.frames)
  <2>1. i \in 1 .. Len(v.frames) /\ w.frames[i] = v.frames[i]
    BY <1>4
  <2> QED
    BY <2>1 DEF Held, Loose
<1> QED
  BY <1>2, <1>3, <1>5 DEF Held, Loose, w

(* The reader reads.                                                       *)
LEMMA HeldEmit ==
  ASSUME NEW v, Held(v), NEW rd \in Readers
  PROVE  Held(Emit(v, rd))
<1> DEFINE w == Emit(v, rd)
<1>1. v \in Machines
  BY DEF Held, Loose
<1>2. /\ w \in Machines
      /\ w.mem = v.mem /\ w.arr = v.arr /\ w.len = v.len /\ w.cur = v.cur
      /\ w.frames = v.frames
  BY <1>1, EmitFacts, Zenon
<1> HIDE DEF w
<1>3. Used(w) = Used(v) /\ \A n : Points(w, n) <=> Points(v, n)
  BY <1>2 DEF Used, Points, Deref
<1> QED
  BY <1>2, <1>3 DEF Held, Loose, w

(* The current node is written: it may be opened and get a child.          *)
LEMMA HeldStore ==
  ASSUME NEW v, Loose(v), v.cur >= 0, NEW n \in Node, n.full = Used(v)[v.cur].full,
         Used(v)[v.cur].kids => n.kids, n.state # "ended"
  PROVE  LET w == Store(v, Current(v), n)
         IN /\ Loose(w) /\ ((n.kids => n.state = "opened") => Held(w))
            /\ w.arr = v.arr /\ w.len = v.len /\ w.cur = v.cur
            /\ w.frames = v.frames /\ w.rd = v.rd /\ w.err = v.err /\ w.doubt = v.doubt
            /\ Used(w)[v.cur] = n
            /\ \A s \in Slots : s # v.cur => Used(w)[s] = Used(v)[s]
<1> DEFINE w == Store(v, Current(v), n)
<1>1. /\ v \in Machines /\ v.arr \in Arrays /\ v.cur \in Slots /\ v.cur \in Int
      /\ Current(v).arr = v.arr /\ Current(v).at = v.cur
      /\ Current(v).arr \in Arrays /\ Current(v).at \in Slots
      /\ \A s \in 0 .. v.cur : s \in Slots
  BY HeldParts
<1>2. /\ w \in Machines
      /\ w.arr = v.arr /\ w.len = v.len /\ w.cur = v.cur
      /\ w.frames = v.frames /\ w.rd = v.rd /\ w.err = v.err /\ w.doubt = v.doubt
      /\ \A g \in Arrays, s \in Slots :
           w.mem[g][s] = IF g = Current(v).arr /\ s = Current(v).at THEN n ELSE v.mem[g][s]
  BY <1>1, StoreFacts
<1> HIDE DEF w
<1>3. Used(w)[v.cur] = n /\ \A s \in Slots : s # v.cur => Used(w)[s] = Used(v)[s]
  BY <1>1, <1>2 DEF Used
<1>4. \A i \in 1 .. Len(v.frames) : v.frames[i].fn = "end" => Points(w, v.frames[i].n)
  <2> SUFFICES ASSUME NEW i \in 1 .. Len(v.frames), v.frames[i].fn = "end"
               PROVE  Points(w, v.frames[i].n)
    OBVIOUS
  <2> DEFINE q == v.frames[i].n
  <2>1. q.arr \in Arrays /\ q.at \in Slots /\ Points(v, q)
    BY <1>1, FramePointer DEF Held, Loose
  <2> HIDE DEF q
  <2>2. Deref(w, q) = IF q.arr = v.arr /\ q.at = v.cur THEN n ELSE Deref(v, q)
    BY <1>1, <1>2, <2>1 DEF Deref
  <2>3. Used(w)[q.at] = IF q.at = v.cur THEN n ELSE Used(v)[q.at]
    BY <1>3, <2>1
  <2>4. q.arr <= w.arr /\ q.at <= w.cur
    BY <1>2, <2>1 DEF Points
  <2>5. Deref(w, q).full = Used(w)[q.at].full
    <3>1. Deref(v, q).full = Used(v)[q.at].full
      BY <2>1 DEF Points
    <3> QED
      BY <2>2, <2>3, <3>1 DEF Deref, Used
  <2>6. q.arr # w.arr =>
          q.at < Cap[q.arr] /\ (q.at # Cap[q.arr] - 1 => Deref(w, q).kids /\ Used(w)[q.at].kids)
    <3> SUFFICES ASSUME q.arr # w.arr
                 PROVE  q.at < Cap[q.arr] /\ (q.at # Cap[q.arr] - 1 => Deref(w, q).kids /\ Used(w)[q.at].kids)
      OBVIOUS
    <3>1. Deref(w, q) = Deref(v, q)
      BY <1>2, <2>2
    <3>2. q.at < Cap[q.arr] /\ (q.at # Cap[q.arr] - 1 => Deref(v, q).kids /\ Used(v)[q.at].kids)
      BY <1>2, <2>1 DEF Points
    <3> QED
      BY <2>3, <3>1, <3>2
  <2> QED
    BY <2>4, <2>5, <2>6 DEF Points, q
<1>5. \A s \in 0 .. w.cur - 1 : Used(w)[s].kids /\ Used(w)[s].state = "opened"
  <2> TAKE s \in 0 .. w.cur - 1
  <2>1. s \in 0 .. v.cur - 1 /\ s \in Slots /\ s # v.cur
    BY <1>1, <1>2
  <2> QED
    BY <1>3, <2>1 DEF Held, Loose
<1>6. Loose(w)
  BY <1>2, <1>3, <1>4, <1>5 DEF Loose
<1>7. (n.kids => n.state = "opened") => Held(w)
  BY <1>2, <1>3, <1>6 DEF Held
<1> QED
  BY <1>2, <1>3, <1>6, <1>7 DEF w

-----------------------------------------------------------------------------
(* The reader. *)

(* What it keeps of a construct can be replaced.                           *)
LEMMA ReaderParts ==
  ASSUME NEW r \in Readers
  PROVE  /\ r.ok \in BOOLEAN /\ r.top \in -1 .. MaxDepth - 1 /\ r.top \in Int /\ MaxDepth \in Nat
         /\ r.cell \in [Slots -> ReadCells]
         /\ r.top >= 0 => r.top \in Slots
         /\ \A s \in Slots : r.cell[s] \in ReadCells
<1>1. /\ r.ok \in BOOLEAN /\ r.top \in -1 .. MaxDepth - 1 /\ MaxDepth \in Nat
      /\ r.cell \in [Slots -> ReadCells]
  BY MaxDepthAssumption DEF Readers
<1>2. r.top >= 0 => r.top \in Slots
  BY <1>1 DEF Slots
<1> QED
  BY <1>1, <1>2

(* A reader that is lost,                                                  *)
LEMMA LostReads ==
  Lost \in Readers
<1>1. NoCell \in ReadCells
  BY DEF NoCell, ReadCells
<1>2. EmptyCells \in [Slots -> ReadCells]
  BY <1>1 DEF EmptyCells
<1> QED
  BY <1>2, MaxDepthAssumption DEF Lost, Readers

(* that goes one up,                                                       *)
LEMMA AscendReads ==
  ASSUME NEW r \in Readers, r.top >= 0
  PROVE  LET w == Ascend(r)
         IN /\ w \in Readers /\ w.ok = r.ok /\ w.top = r.top - 1
            /\ \A s \in Slots : s # r.top => w.cell[s] = r.cell[s]
<1>1. NoCell \in ReadCells
  BY DEF NoCell, ReadCells
<1> DEFINE x == [r.cell EXCEPT ![r.top] = NoCell]
<1>2. x \in [Slots -> ReadCells] /\ \A s \in Slots : s # r.top => x[s] = r.cell[s]
  BY <1>1, ReaderParts
<1>3. r.top - 1 \in -1 .. MaxDepth - 1
  BY ReaderParts
<1>4. Ascend(r) = [r EXCEPT !.top = r.top - 1, !.cell = x]
  BY DEF Ascend
<1> HIDE DEF x
<1> QED
  BY <1>2, <1>3, <1>4 DEF Readers

(* that reads the end of a tag                                             *)
LEMMA EndOfTagReads ==
  ASSUME NEW r \in Readers, r.top >= 0
  PROVE  LET w == EndOfTag(r)
         IN /\ w \in Readers /\ w.ok = r.ok /\ w.top = r.top
            /\ \A s \in Slots : s # r.top => w.cell[s] = r.cell[s]
            /\ w.cell[r.top].kind = r.cell[r.top].kind /\ w.cell[r.top].name = r.cell[r.top].name
            /\ w.cell[r.top].tag = FALSE
<1> DEFINE c == [kind |-> r.cell[r.top].kind, name |-> r.cell[r.top].name, tag |-> FALSE]
           x == [r.cell EXCEPT ![r.top] = c]
<1>1. c \in ReadCells
  BY ReaderParts DEF ReadCells
<1>2. c.kind = r.cell[r.top].kind /\ c.name = r.cell[r.top].name /\ c.tag = FALSE
  OBVIOUS
<1> HIDE DEF c
<1>3. x \in [Slots -> ReadCells] /\ x[r.top] = c /\ \A s \in Slots : s # r.top => x[s] = r.cell[s]
  BY <1>1, ReaderParts
<1>4. EndOfTag(r) = [r EXCEPT !.cell = x]
  BY DEF EndOfTag, c
<1> HIDE DEF x
<1>5. /\ [r EXCEPT !.cell = x] \in Readers /\ [r EXCEPT !.cell = x].ok = r.ok
      /\ [r EXCEPT !.cell = x].top = r.top /\ [r EXCEPT !.cell = x].cell = x
  BY <1>3 DEF Readers
<1> QED
  BY <1>2, <1>3, <1>4, <1>5

(* or the start of a construct.                                            *)
LEMMA DescendReads ==
  ASSUME NEW r \in Readers, r.top + 1 \in Slots, NEW kind \in Startables,
         NEW name \in Names \cup {NoName, "a"}, NEW tag \in BOOLEAN
  PROVE  LET w == Descend(r, kind, name, tag)
         IN /\ w \in Readers /\ w.ok = r.ok /\ w.top = r.top + 1
            /\ \A s \in Slots : s # r.top + 1 => w.cell[s] = r.cell[s]
            /\ w.cell[r.top + 1].kind = kind /\ w.cell[r.top + 1].name = name
            /\ w.cell[r.top + 1].tag = tag
<1> DEFINE c == [kind |-> kind, name |-> name, tag |-> tag]
           x == [r.cell EXCEPT ![r.top + 1] = c]
<1>1. c \in ReadCells
  BY DEF ReadCells
<1>2. c.kind = kind /\ c.name = name /\ c.tag = tag
  OBVIOUS
<1> HIDE DEF c
<1>3. x \in [Slots -> ReadCells] /\ x[r.top + 1] = c /\ \A s \in Slots : s # r.top + 1 => x[s] = r.cell[s]
  BY <1>1, ReaderParts
<1>4. Descend(r, kind, name, tag) = [r EXCEPT !.top = r.top + 1, !.cell = x]
  BY DEF Descend, c
<1>5. r.top + 1 \in -1 .. MaxDepth - 1
  BY ReaderParts DEF Slots
<1> HIDE DEF x
<1> DEFINE w == [r EXCEPT !.top = r.top + 1, !.cell = x]
<1>6. w \in Readers /\ w.ok = r.ok /\ w.top = r.top + 1 /\ w.cell = x
  BY <1>3, <1>5 DEF Readers
<1>7. Descend(r, kind, name, tag) = w
  BY <1>4
<1> HIDE DEF w
<1> QED
  BY <1>2, <1>3, <1>6, <1>7

(* What elements and what is in them are to the reader.                    *)
LEMMA Grammar ==
  /\ "elem" \in Startables /\ "comment" \in Startables
  /\ "elem" \in NamedKinds /\ "comment" \notin NamedKinds
  /\ "elem" \in InBody("elem") /\ "comment" \in InBody("elem") /\ "text" \in InBody("elem")
BY DEF Startables, NamedKinds, InBody

(* Whatever it is fed, it stays a reader.                                  *)
LEMMA ReadersRead ==
  ASSUME NEW r \in Readers
  PROVE  /\ ReadGt(r) \in Readers /\ ReadEmptyTagEnd(r) \in Readers
         /\ \A kind \in Startables, name \in Names \cup {NoName, "a"} :
              ReadOpen(r, kind, name) \in Readers /\ ReadClose(r, kind, name) \in Readers
         /\ \A kind : ReadLeaf(r, kind) \in Readers
<1>1. Lost \in Readers
  BY LostReads
<1>2. r.top >= 0 => Ascend(r) \in Readers /\ EndOfTag(r) \in Readers
  BY AscendReads, EndOfTagReads, Zenon
<1>3. \A kind, tag : TopIs(r, kind, tag) => r.top >= 0
  BY DEF TopIs
<1>4. ReadGt(r) \in Readers
  BY <1>1, <1>2, <1>3, Zenon DEF ReadGt
<1>5. ReadEmptyTagEnd(r) \in Readers
  BY <1>1, <1>2, <1>3, Zenon DEF ReadEmptyTagEnd
<1>6. ASSUME NEW kind \in Startables, NEW name \in Names \cup {NoName, "a"}
      PROVE  ReadOpen(r, kind, name) \in Readers /\ ReadClose(r, kind, name) \in Readers
  <2>1. (kind \in NamedKinds) \in BOOLEAN
    OBVIOUS
  <2>2. r.top + 1 \in Slots => Descend(r, kind, name, kind \in NamedKinds) \in Readers
    BY <2>1, DescendReads, Zenon
  <2>3. ReadOpen(r, kind, name) \in Readers
    BY <1>1, <2>2, Zenon DEF ReadOpen
  <2>4. ReadClose(r, kind, name) \in Readers
    BY <1>1, <1>2, <1>3, Zenon DEF ReadClose
  <2> QED
    BY <2>3, <2>4
<1>7. \A kind : ReadLeaf(r, kind) \in Readers
  BY <1>1, Zenon DEF ReadLeaf
<1> QED
  BY <1>4, <1>5, <1>6, <1>7

(* The innermost construct it has open is the current node.                *)
LEMMA ReadTop ==
  ASSUME NEW r \in Readers, NEW u, NEW t \in Int, t >= 0, Reads(r, u, t)
  PROVE  /\ r.ok /\ r.top = t /\ r.top >= 0 /\ t \in Slots /\ \A s \in 0 .. t : s \in Slots
         /\ r.cell[t].kind = "elem" /\ r.cell[t].name = "a"
         /\ u[t].state = "open" => r.cell[t].tag = TRUE
         /\ u[t].state # "open" => r.cell[t].tag = FALSE
<1>1. r.ok /\ r.top = t /\ r.top >= 0 /\ t \in Slots /\ \A s \in 0 .. t : s \in Slots
  BY ReaderParts DEF Reads, Slots
<1>2. /\ r.cell[t].kind = "elem" /\ r.cell[t].name = "a"
      /\ r.cell[t].tag = (u[t].state = "open")
  BY DEF Reads
<1>3. r.cell[t].tag \in BOOLEAN
  BY <1>1, ReaderParts DEF ReadCells
<1>4. u[t].state = "open" => r.cell[t].tag = TRUE
  BY <1>2
<1>5. u[t].state # "open" => r.cell[t].tag = FALSE
  BY <1>2, <1>3, Zenon
<1> QED
  BY <1>1, <1>2, <1>4, <1>5

(* What it reads of the stack: a node that is not written leaves it as it  *)
(* was,                                                                    *)
LEMMA SameRead ==
  ASSUME NEW r, NEW u, NEW w, NEW t \in Int, Reads(r, u, t),
         \A s \in 0 .. t : w[s].state = "open" <=> u[s].state = "open"
  PROVE  Reads(r, w, t)
BY DEF Reads

(* the end of a start tag opens its element,                               *)
LEMMA GtRead ==
  ASSUME NEW r \in Readers, NEW u, NEW w, NEW t \in Int, t >= 0, Reads(r, u, t), u[t].state = "open",
         w[t].state # "open", \A s \in 0 .. t - 1 : w[s].state = "open" <=> u[s].state = "open"
  PROVE  Reads(ReadGt(r), w, t)
<1>1. /\ r.ok /\ r.top = t /\ r.top >= 0 /\ t \in Slots /\ \A s \in 0 .. t : s \in Slots
      /\ r.cell[t].kind = "elem" /\ r.cell[t].name = "a" /\ r.cell[t].tag
  BY ReaderParts DEF Reads, Slots
<1>2. ReadGt(r) = EndOfTag(r)
  BY <1>1 DEF ReadGt, TopIs
<1> DEFINE e == EndOfTag(r)
<1>3. /\ e \in Readers /\ e.ok = r.ok /\ e.top = r.top
      /\ \A s \in Slots : s # r.top => e.cell[s] = r.cell[s]
      /\ e.cell[r.top].kind = r.cell[r.top].kind /\ e.cell[r.top].name = r.cell[r.top].name
      /\ e.cell[r.top].tag = FALSE
  BY <1>1, EndOfTagReads
<1> HIDE DEF e
<1>4. ASSUME NEW s \in 0 .. t
      PROVE  /\ e.cell[s].kind = "elem" /\ e.cell[s].name = "a"
             /\ e.cell[s].tag = (w[s].state = "open")
  <2>1. CASE s = t
    BY <1>1, <1>3, <2>1
  <2>2. CASE s # t
    <3>1. s \in 0 .. t - 1 /\ e.cell[s] = r.cell[s]
      BY <1>1, <1>3, <2>2
    <3> QED
      BY <3>1 DEF Reads
  <2> QED
    BY <2>1, <2>2
<1>5. Reads(e, w, t)
  BY <1>1, <1>3, <1>4 DEF Reads
<1> QED
  BY <1>2, <1>5 DEF e

(* a reader goes one up:                                                   *)
LEMMA AscendRead ==
  ASSUME NEW r \in Readers, NEW u, NEW w, NEW t \in Int, t >= 0, Reads(r, u, t),
         \A s \in 0 .. t - 1 : w[s].state = "open" <=> u[s].state = "open"
  PROVE  Reads(Ascend(r), w, t - 1)
<1>1. r.ok /\ r.top = t /\ r.top >= 0 /\ \A s \in 0 .. t : s \in Slots
  BY ReaderParts DEF Reads, Slots
<1> DEFINE e == Ascend(r)
<1>2. /\ e \in Readers /\ e.ok = r.ok /\ e.top = r.top - 1
      /\ \A s \in Slots : s # r.top => e.cell[s] = r.cell[s]
  BY <1>1, AscendReads
<1> HIDE DEF e
<1>3. ASSUME NEW s \in 0 .. t - 1
      PROVE  /\ e.cell[s].kind = "elem" /\ e.cell[s].name = "a"
             /\ e.cell[s].tag = (w[s].state = "open")
  <2>1. s \in 0 .. t /\ e.cell[s] = r.cell[s]
    BY <1>1, <1>2
  <2> QED
    BY <2>1 DEF Reads
<1>4. Reads(e, w, t - 1)
  BY <1>1, <1>2, <1>3 DEF Reads
<1> QED
  BY <1>4 DEF e

(* with "/>", which ends an element that is not opened,                    *)
LEMMA EmptyTagRead ==
  ASSUME NEW r \in Readers, NEW u, NEW w, NEW t \in Int, t >= 0, Reads(r, u, t), u[t].state = "open",
         \A s \in 0 .. t - 1 : w[s].state = "open" <=> u[s].state = "open"
  PROVE  Reads(ReadEmptyTagEnd(r), w, t - 1)
<1>0. r.ok /\ r.top >= 0 /\ r.top = t /\ r.cell[t].kind = "elem" /\ r.cell[t].tag = TRUE
  BY ReadTop, ZenonT(40)
<1>1. ReadEmptyTagEnd(r) = Ascend(r)
  BY <1>0, Zenon DEF ReadEmptyTagEnd, TopIs
<1> QED
  BY <1>1, AscendRead, Zenon

(* and with the close tag, which ends one that is.                         *)
LEMMA CloseRead ==
  ASSUME NEW r \in Readers, NEW u, NEW w, NEW t \in Int, t >= 0, Reads(r, u, t), u[t].state # "open",
         \A s \in 0 .. t - 1 : w[s].state = "open" <=> u[s].state = "open"
  PROVE  Reads(ReadClose(r, "elem", "a"), w, t - 1)
<1>0. r.ok /\ r.top >= 0 /\ r.top = t /\ r.cell[t].kind = "elem" /\ r.cell[t].name = "a" /\ r.cell[t].tag = FALSE
  BY ReadTop, ZenonT(40)
<1>1. ReadClose(r, "elem", "a") = Ascend(r)
  BY <1>0, Zenon DEF ReadClose, TopIs
<1> QED
  BY <1>1, AscendRead, Zenon

(* Between children it admits what elements have in them.                  *)
LEMMA ChildAdmitted ==
  ASSUME NEW r \in Readers, NEW u, NEW t \in Int, Reads(r, u, t), t >= -1, t >= 0 => u[t].state # "open"
  PROVE  Admits(r, "elem") /\ Admits(r, "comment") /\ Admits(r, "text")
<1>1. CASE t = -1
  BY <1>1 DEF Admits, Reads
<1>2. CASE t >= 0
  <2>1. r.top = t /\ r.cell[t].kind = "elem" /\ r.cell[t].tag = FALSE
    BY <1>2, ReadTop, ZenonT(40)
  <2> QED
    BY <2>1, Grammar DEF Admits
<1> QED
  BY <1>1, <1>2

(* What starts is on top of what is open.                                  *)
OnTop(e, r, kind, name, tag) ==
  /\ e \in Readers /\ e.ok = r.ok /\ e.top = r.top + 1
  /\ \A s \in Slots : s # r.top + 1 => e.cell[s] = r.cell[s]
  /\ e.cell[e.top].kind = kind /\ e.cell[e.top].name = name /\ e.cell[e.top].tag = tag

(* So it is after a Descend.                                               *)
LEMMA DescendRead ==
  ASSUME NEW r \in Readers, r.top + 1 \in Slots, NEW kind \in Startables,
         NEW name \in Names \cup {NoName, "a"}, NEW tag \in BOOLEAN
  PROVE  OnTop(Descend(r, kind, name, tag), r, kind, name, tag)
<1> DEFINE w == Descend(r, kind, name, tag)
<1>1. /\ w \in Readers /\ w.ok = r.ok /\ w.top = r.top + 1
      /\ \A s \in Slots : s # r.top + 1 => w.cell[s] = r.cell[s]
      /\ w.cell[r.top + 1].kind = kind /\ w.cell[r.top + 1].name = name
      /\ w.cell[r.top + 1].tag = tag
  BY DescendReads
<1> HIDE DEF w
<1>2. OnTop(w, r, kind, name, tag)
  BY <1>1 DEF OnTop
<1> QED
  BY <1>2 DEF w

(* A start tag is a new element that is not opened;                        *)
LEMMA OpenRead ==
  ASSUME NEW r \in Readers, NEW u, NEW w, NEW t \in Int, Reads(r, u, t), t + 1 \in Slots, t >= -1,
         t >= 0 => u[t].state # "open", w[t + 1].state = "open",
         \A s \in 0 .. t : w[s].state = "open" <=> u[s].state = "open"
  PROVE  Reads(ReadOpen(r, "elem", "a"), w, t + 1)
<1> DEFINE e == Descend(r, "elem", "a", "elem" \in NamedKinds)
<1>1. r.ok /\ r.top = t /\ \A s \in 0 .. t : s \in Slots /\ s # t + 1
  BY ReaderParts DEF Reads, Slots
<1>2. ReadOpen(r, "elem", "a") = e
  BY <1>1, ChildAdmitted DEF ReadOpen
<1>3. /\ e \in Readers /\ e.ok = r.ok /\ e.top = r.top + 1
      /\ \A s \in Slots : s # r.top + 1 => e.cell[s] = r.cell[s]
      /\ e.cell[e.top].kind = "elem" /\ e.cell[e.top].name = "a" /\ e.cell[e.top].tag = TRUE
  <2>1. r.top + 1 \in Slots /\ "elem" \in Startables /\ "a" \in Names \cup {NoName, "a"}
        /\ TRUE \in BOOLEAN
    BY <1>1, Grammar
  <2>2. ("elem" \in NamedKinds) = TRUE
    BY Grammar
  <2>3. e = Descend(r, "elem", "a", TRUE)
    BY <2>2, Zenon
  <2>4. OnTop(e, r, "elem", "a", TRUE)
    BY <2>1, <2>3, DescendRead, Zenon
  <2> HIDE DEF e
  <2> QED
    BY <2>4 DEF OnTop
<1> HIDE DEF e
<1>4. ASSUME NEW s \in 0 .. t + 1
      PROVE  /\ e.cell[s].kind = "elem" /\ e.cell[s].name = "a"
             /\ e.cell[s].tag = (w[s].state = "open")
  <2>1. CASE s = t + 1
    BY <1>1, <1>3, <2>1
  <2>2. CASE s # t + 1
    <3>1. s \in 0 .. t /\ e.cell[s] = r.cell[s]
      BY <1>1, <1>3, <2>2
    <3> QED
      BY <3>1 DEF Reads
  <2> QED
    BY <2>1, <2>2
<1>5. Reads(e, w, t + 1)
  BY <1>1, <1>3, <1>4 DEF Reads
<1> QED
  BY <1>2, <1>5

(* text is read past,                                                      *)
LEMMA TextRead ==
  ASSUME NEW r \in Readers, NEW u, NEW t \in Int, Reads(r, u, t), t >= -1, t >= 0 => u[t].state # "open"
  PROVE  Reads(ReadLeaf(r, "text"), u, t)
<1>1. ReadLeaf(r, "text") = r
  BY ChildAdmitted DEF ReadLeaf, Reads
<1> QED
  BY <1>1

(* and so is a comment.                                                    *)
LEMMA CommentRead ==
  ASSUME NEW r \in Readers, NEW u, NEW t \in Int, Reads(r, u, t), t >= -1, t + 1 \in Slots,
         t >= 0 => u[t].state # "open"
  PROVE  Reads(ReadClose(ReadOpen(r, "comment", NoName), "comment", NoName), u, t)
<1> DEFINE e == Descend(r, "comment", NoName, "comment" \in NamedKinds)
<1>1. r.ok /\ r.top = t /\ \A s \in 0 .. t : s \in Slots /\ s # t + 1
  BY ReaderParts DEF Reads, Slots
<1>2. ReadOpen(r, "comment", NoName) = e
  BY <1>1, ChildAdmitted DEF ReadOpen
<1>3. /\ e \in Readers /\ e.ok = r.ok /\ e.top = r.top + 1
      /\ \A s \in Slots : s # r.top + 1 => e.cell[s] = r.cell[s]
      /\ e.cell[e.top].kind = "comment" /\ e.cell[e.top].name = NoName /\ e.cell[e.top].tag = FALSE
  <2>1. r.top + 1 \in Slots /\ "comment" \in Startables /\ NoName \in Names \cup {NoName, "a"}
        /\ FALSE \in BOOLEAN
    BY <1>1, Grammar
  <2>2. ("comment" \in NamedKinds) = FALSE
    BY Grammar
  <2>3. e = Descend(r, "comment", NoName, FALSE)
    BY <2>2, Zenon
  <2>4. OnTop(e, r, "comment", NoName, FALSE)
    BY <2>1, <2>3, DescendRead, Zenon
  <2> HIDE DEF e
  <2> QED
    BY <2>4 DEF OnTop
<1> HIDE DEF e
<1>4. e.top >= 0 /\ ReadClose(e, "comment", NoName) = Ascend(e)
  BY <1>1, <1>3 DEF ReadClose, TopIs
<1> DEFINE a == Ascend(e)
<1>5. /\ a \in Readers /\ a.ok = e.ok /\ a.top = e.top - 1
      /\ \A s \in Slots : s # e.top => a.cell[s] = e.cell[s]
  BY <1>3, <1>4, AscendReads
<1> HIDE DEF a
<1>6. \A s \in 0 .. t : a.cell[s] = r.cell[s]
  BY <1>1, <1>3, <1>5
<1>7. Reads(a, u, t)
  BY <1>1, <1>3, <1>5, <1>6 DEF Reads
<1> QED
  BY <1>2, <1>4, <1>7, Zenon DEF a

-----------------------------------------------------------------------------
(* The calls in progress. *)

(* What the frames are made of.                                            *)
LEMMA FramesMade ==
  /\ \A k \in 0 .. MaxContent :
       ContentFrame(k) \in FrameType /\ ContentFrame(k).fn = "content" /\ ContentFrame(k).left = k
  /\ \A n \in Pointer :
       /\ EndFrame(n, "open") \in FrameType /\ EndFrame(n, "open").fn = "end"
       /\ EndFrame(n, "open").n = n /\ EndFrame(n, "open").prev = "open"
  /\ \A node \in Node :
       PushFrame(node) \in FrameType /\ PushFrame(node).fn = "push" /\ PushFrame(node).node = node
  /\ TextFrame \in FrameType /\ TextFrame.fn = "text"
  /\ WriteFrame \in FrameType /\ WriteFrame.fn = "write"
<1>1. Nil \in Pointer
  BY MaxDepthAssumption, ArrayAssumption DEF Nil, Pointer, Arrays, Slots
<1>2. ZeroNode \in Node /\ 0 \in 0 .. MaxContent
  BY NewNodeFacts, ArrayAssumption
<1>3. \A k \in 0 .. MaxContent :
        ContentFrame(k) \in FrameType /\ ContentFrame(k).fn = "content" /\ ContentFrame(k).left = k
  BY <1>1, <1>2 DEF ContentFrame, Frame, FrameType
<1>4. \A n \in Pointer :
        /\ EndFrame(n, "open") \in FrameType /\ EndFrame(n, "open").fn = "end"
        /\ EndFrame(n, "open").n = n /\ EndFrame(n, "open").prev = "open"
  BY <1>2 DEF EndFrame, Frame, FrameType
<1>5. \A node \in Node :
        PushFrame(node) \in FrameType /\ PushFrame(node).fn = "push" /\ PushFrame(node).node = node
  BY <1>1, <1>2 DEF PushFrame, Frame, FrameType
<1>6. TextFrame \in FrameType /\ TextFrame.fn = "text"
  BY <1>1, <1>2 DEF TextFrame, Frame, FrameType
<1>7. WriteFrame \in FrameType /\ WriteFrame.fn = "write"
  BY <1>1, <1>2 DEF WriteFrame, Frame, FrameType
<1> QED
  BY <1>3, <1>4, <1>5, <1>6, <1>7

(* A frame more, a frame less, and the last replaced.                      *)
LEMMA Framed ==
  ASSUME NEW fr \in Seq(FrameType), NEW f \in FrameType
  PROVE  /\ Len(fr) \in Nat
         /\ Append(fr, f) \in Seq(FrameType) /\ Len(Append(fr, f)) = Len(fr) + 1
         /\ Append(fr, f)[Len(fr) + 1] = f /\ \A i \in 1 .. Len(fr) : Append(fr, f)[i] = fr[i]
         /\ fr # <<>> =>
              /\ Len(fr) > 0 /\ fr[Len(fr)] \in FrameType
              /\ Front(fr) \in Seq(FrameType) /\ Len(Front(fr)) = Len(fr) - 1
              /\ \A i \in 1 .. Len(fr) - 1 : Front(fr)[i] = fr[i]
              /\ (Len(fr) = 1 => Front(fr) = <<>>) /\ (Len(fr) > 1 => Front(fr) # <<>>)
<1>1. Len(fr) \in Nat
  BY LenProperties
<1>2. /\ Append(fr, f) \in Seq(FrameType) /\ Len(Append(fr, f)) = Len(fr) + 1
      /\ Append(fr, f)[Len(fr) + 1] = f /\ \A i \in 1 .. Len(fr) : Append(fr, f)[i] = fr[i]
  BY AppendProperties
<1>3. ASSUME fr # <<>>
      PROVE  /\ Len(fr) > 0 /\ fr[Len(fr)] \in FrameType
             /\ Front(fr) \in Seq(FrameType) /\ Len(Front(fr)) = Len(fr) - 1
             /\ \A i \in 1 .. Len(fr) - 1 : Front(fr)[i] = fr[i]
             /\ (Len(fr) = 1 => Front(fr) = <<>>) /\ (Len(fr) > 1 => Front(fr) # <<>>)
  <2>1. Len(fr) > 0
    BY <1>1, <1>3, EmptySeq, LenProperties
  <2>2. Front(fr) \in Seq(FrameType) /\ Len(Front(fr)) = Len(fr) - 1
        /\ \A i \in 1 .. Len(fr) - 1 : Front(fr)[i] = fr[i]
    BY <1>3, LastDropped DEF Front
  <2>3. fr[Len(fr)] \in FrameType
    BY <1>1, <2>1, ElementOfSeq
  <2>4. (Len(fr) = 1 => Front(fr) = <<>>) /\ (Len(fr) > 1 => Front(fr) # <<>>)
    BY <1>1, <2>2, EmptySeq
  <2> QED
    BY <2>1, <2>2, <2>3, <2>4
<1> QED
  BY <1>1, <1>2, <1>3

(* A call keeps its place when its neighbours keep theirs.                 *)
LEMMA LinkKept ==
  ASSUME NEW fr, NEW g, NEW cur, NEW now, NEW len, NEW i \in Int, i >= 1, Link(fr, cur, len, i),
         g[i] = fr[i], Base(g, now, i) = Base(fr, cur, i),
         i > 1 => g[i - 1].fn = fr[i - 1].fn, i > 1 => g[1].fn = fr[1].fn,
         fr[i].fn = "text" \/ fr[i].fn = "push" \/ fr[i].fn = "end" => i = Len(g) \/ g[i + 1].fn = "content",
         fr[i].fn = "content" => i = Len(g) \/ g[i + 1].fn = "write" \/ g[i + 1].fn = "end",
         fr[i].fn = "write" => \/ i = 1 /\ Len(g) > 1 /\ g[2].fn = "push"
                               \/ i = Len(g) /\ (i = 1 \/ fr[i - 1].fn = "content")
  PROVE  Link(g, now, len, i)
<1>1. i = 1 \/ i > 1
  OBVIOUS
<1> QED
  BY <1>1 DEF Link

(* A Content is begun inside the innermost call,                           *)
LEMMA ChainContent ==
  ASSUME NEW fr \in Seq(FrameType), fr # <<>>, NEW cur \in Int, NEW len \in Int, cur >= 0, Chain(fr, cur, len),
         NEW f \in FrameType, f.fn = "content",
         fr[Len(fr)].fn = "text" \/ fr[Len(fr)].fn = "push" \/ fr[Len(fr)].fn = "end"
  PROVE  Chain(Append(fr, f), cur, len)
<1> DEFINE g == Append(fr, f)
<1>1. /\ Len(fr) \in Nat /\ Len(fr) > 0 /\ Len(g) = Len(fr) + 1
      /\ g[Len(fr) + 1] = f /\ \A i \in 1 .. Len(fr) : g[i] = fr[i]
  BY Framed
<1> HIDE DEF g
<1>2. Turn(g) = Turn(fr) /\ Turn(fr) = Len(fr) + 1
  BY <1>1 DEF Turn
<1>3. ASSUME NEW i \in 1 .. Len(fr) PROVE Link(g, cur, len, i)
  <2>1. Link(fr, cur, len, i)
    BY DEF Chain
  <2>2. i \in Int /\ (i < Len(fr) => i + 1 \in 1 .. Len(fr)) /\ (i > 1 => i - 1 \in 1 .. Len(fr))
    BY <1>1
  <2>3. Base(g, cur, i) = Base(fr, cur, i)
    BY <1>2 DEF Base
  <2> QED
    BY <1>1, <2>1, <2>2, <2>3, SMTT(40) DEF Link
<1>4. Link(g, cur, len, Len(fr) + 1)
  <2>1. Base(g, cur, Len(fr) + 1) > 0
    BY <1>1, <1>2 DEF Base
  <2> QED
    BY <1>1, <2>1 DEF Link
<1>5. Chain(g, cur, len)
  BY <1>1, <1>3, <1>4 DEF Chain
<1> QED
  BY <1>5 DEF g

(* and done with.                                                          *)
LEMMA ChainContentDone ==
  ASSUME NEW fr \in Seq(FrameType), fr # <<>>, NEW cur \in Int, NEW len \in Int, Chain(fr, cur, len), fr[Len(fr)].fn = "content"
  PROVE  /\ Chain(Front(fr), cur, len) /\ Len(fr) > 1 /\ cur >= 0
         /\ \/ fr[Len(fr) - 1].fn = "text" \/ fr[Len(fr) - 1].fn = "push" \/ fr[Len(fr) - 1].fn = "end"
<1> DEFINE g == Front(fr)
<1>1. /\ Len(fr) \in Nat /\ Len(fr) > 0 /\ Len(g) = Len(fr) - 1
      /\ \A i \in 1 .. Len(fr) - 1 : g[i] = fr[i]
  BY Framed
<1> HIDE DEF g
<1>2. Link(fr, cur, len, Len(fr))
  BY <1>1 DEF Chain
<1>3. Len(fr) > 1 /\ (fr[Len(fr) - 1].fn = "text" \/ fr[Len(fr) - 1].fn = "push" \/ fr[Len(fr) - 1].fn = "end")
  BY <1>1, <1>2 DEF Link
<1>4. Turn(g) = Turn(fr) /\ Turn(fr) = Len(fr)
  BY <1>1, <1>3 DEF Turn
<1>5. ASSUME NEW i \in 1 .. Len(fr) - 1 PROVE Link(g, cur, len, i)
  <2>1. Link(fr, cur, len, i)
    BY <1>1 DEF Chain
  <2>2. i \in Int /\ (i < Len(fr) - 1 => i + 1 \in 1 .. Len(fr) - 1) /\ (i > 1 => i - 1 \in 1 .. Len(fr) - 1)
    BY <1>1
  <2>3. Base(g, cur, i) = Base(fr, cur, i)
    BY <1>4 DEF Base
  <2>4. g[i] = fr[i] /\ (i > 1 => g[i - 1] = fr[i - 1] /\ g[1] = fr[1])
    BY <1>1, <2>2
  <2>5. CASE i = Len(g)
    <3>1. fr[i].fn # "content" /\ fr[i].fn # "write"
      BY <1>1, <1>3, <2>5
    <3> QED
      BY <2>1, <2>2, <2>3, <2>4, <2>5, <3>1, LinkKept
  <2>6. CASE i # Len(g)
    <3>0. i + 1 \in 1 .. Len(fr) - 1 /\ i # Len(fr) /\ Len(g) > 1
      BY <1>1, <2>2, <2>6
    <3>1. g[i + 1] = fr[i + 1] /\ i # Len(fr) /\ Len(g) > 1
      BY <1>1, <3>0
    <3>2. fr[i].fn = "write" => i = 1 /\ fr[2].fn = "push"
      BY <2>1, <3>1 DEF Link
    <3>3. fr[i].fn = "write" => g[2].fn = "push"
      BY <3>1, <3>2
    <3>4. fr[i].fn = "content" => fr[i + 1].fn = "write" \/ fr[i + 1].fn = "end"
      BY <2>1, <3>1 DEF Link
    <3>5. fr[i].fn = "text" \/ fr[i].fn = "push" \/ fr[i].fn = "end" => fr[i + 1].fn = "content"
      BY <2>1, <3>1 DEF Link
    <3> QED
      BY <2>1, <2>2, <2>3, <2>4, <3>1, <3>2, <3>3, <3>4, <3>5, LinkKept, SMTT(40)
  <2> QED
    BY <2>5, <2>6
<1>6. Chain(g, cur, len)
  BY <1>1, <1>5 DEF Chain
<1>7. len \in Int /\ Link(fr, cur, len, Len(fr)) /\ Base(fr, cur, Len(fr)) = (cur + cur) + 1
  BY <1>1, <1>2, <1>4 DEF Base
<1>8. cur >= 0
  <2>1. (cur + cur) + 1 > 0
    BY <1>7 DEF Link
  <2> QED
    BY <2>1
<1> QED
  BY <1>3, <1>6, <1>8 DEF g

(* Its next child is due,                                                  *)
LEMMA ChainContentNext ==
  ASSUME NEW fr \in Seq(FrameType), fr # <<>>, NEW cur \in Int, NEW len \in Int, Chain(fr, cur, len),
         fr[Len(fr)].fn = "content", NEW f \in FrameType, f.fn = "content"
  PROVE  Chain(Append(Front(fr), f), cur, len)
<1> DEFINE h == Front(fr)
           g == Append(h, f)
<1>1. /\ Len(fr) \in Nat /\ Len(fr) > 0 /\ Len(h) = Len(fr) - 1 /\ h \in Seq(FrameType)
      /\ \A i \in 1 .. Len(fr) - 1 : h[i] = fr[i]
  BY Framed
<1> HIDE DEF h
<1>2. /\ Len(g) = Len(h) + 1 /\ g[Len(h) + 1] = f /\ \A i \in 1 .. Len(h) : g[i] = h[i]
  BY <1>1, Framed
<1> HIDE DEF g
<1>3. Len(g) = Len(fr) /\ g[Len(fr)] = f /\ \A i \in 1 .. Len(fr) - 1 : g[i] = fr[i]
  BY <1>1, <1>2
<1>4. Turn(g) = Turn(fr)
  BY <1>3 DEF Turn
<1>5. ASSUME NEW i \in 1 .. Len(fr) PROVE Link(g, cur, len, i)
  <2>1. Link(fr, cur, len, i)
    BY <1>1 DEF Chain
  <2>2. i \in Int /\ (i = Len(fr) \/ i \in 1 .. Len(fr) - 1)
        /\ (i < Len(fr) - 1 => i + 1 \in 1 .. Len(fr) - 1) /\ (i > 1 => i - 1 \in 1 .. Len(fr) - 1)
    BY <1>1
  <2>3. Base(g, cur, i) = Base(fr, cur, i)
    BY <1>4 DEF Base
  <2>4. Len(fr) > 1 /\ (i = Len(fr) => fr[i - 1].fn = g[i - 1].fn /\ g[i].fn = fr[i].fn)
    <3>1. Link(fr, cur, len, Len(fr))
      BY <1>1 DEF Chain
    <3> QED
      BY <1>1, <1>3, <2>2, <3>1 DEF Link
  <2>5. CASE i = Len(fr)
    BY <1>3, <2>1, <2>3, <2>4, <2>5 DEF Link
  <2>6. CASE i # Len(fr)
    <3>1. g[i] = fr[i] /\ (i > 1 => g[i - 1] = fr[i - 1] /\ g[1] = fr[1])
          /\ i \in 1 .. Len(fr) - 1
      BY <1>1, <1>3, <2>2, <2>6
    <3>2. g[i + 1].fn = fr[i + 1].fn
      <4>1. CASE i + 1 = Len(fr)
        BY <1>3, <4>1
      <4>2. CASE i + 1 # Len(fr)
        <5>1. i + 1 \in 1 .. Len(fr) - 1
          BY <1>1, <3>1, <4>2
        <5> QED
          BY <1>3, <5>1
      <4> QED
        BY <4>1, <4>2
    <3>3. fr[i].fn = "write" => i = 1 /\ fr[2].fn = "push" /\ Len(fr) > 1
      BY <2>1, <2>6 DEF Link
    <3>4. fr[i].fn = "write" => g[2].fn = "push" /\ i = 1 /\ Len(g) > 1
      BY <1>3, <3>2, <3>3
    <3>5. fr[i].fn = "content" => fr[i + 1].fn = "write" \/ fr[i + 1].fn = "end"
      BY <2>1, <2>6 DEF Link
    <3>6. fr[i].fn = "text" \/ fr[i].fn = "push" \/ fr[i].fn = "end" => fr[i + 1].fn = "content"
      BY <2>1, <2>6 DEF Link
    <3> QED
      BY <2>1, <2>2, <2>3, <3>1, <3>2, <3>4, <3>5, <3>6, LinkKept
  <2> QED
    BY <2>5, <2>6
<1>6. Chain(g, cur, len)
  BY <1>3, <1>5 DEF Chain
<1> QED
  BY <1>6 DEF g, h

(* an element that is pushed and is to be ended.                           *)
LEMMA ChainWrite ==
  ASSUME NEW fr \in Seq(FrameType), fr # <<>>, NEW cur \in Int, NEW len \in Int, Chain(fr, cur, len),
         fr[Len(fr)].fn = "content", NEW f \in FrameType, f.fn = "write"
  PROVE  Chain(Append(fr, f), cur + 1, len)
<1> DEFINE g == Append(fr, f)
<1>1. /\ Len(fr) \in Nat /\ Len(fr) > 0 /\ Len(g) = Len(fr) + 1
      /\ g[Len(fr) + 1] = f /\ \A i \in 1 .. Len(fr) : g[i] = fr[i]
  BY Framed
<1> HIDE DEF g
<1>2. Turn(g) = Turn(fr) + 2 /\ Turn(fr) = Len(fr)
  BY <1>1 DEF Turn
<1>3. ASSUME NEW i \in 1 .. Len(fr) PROVE Link(g, cur + 1, len, i)
  <2>1. Link(fr, cur, len, i)
    BY DEF Chain
  <2>2. i \in Int /\ (i < Len(fr) => i + 1 \in 1 .. Len(fr)) /\ (i > 1 => i - 1 \in 1 .. Len(fr))
    BY <1>1
  <2>3. Base(g, cur + 1, i) = Base(fr, cur, i)
    BY <1>1, <1>2, <2>2 DEF Base
  <2> QED
    BY <1>1, <2>1, <2>2, <2>3, SMTT(40) DEF Link
<1>4. Link(g, cur + 1, len, Len(fr) + 1)
  BY <1>1, <1>2 DEF Link
<1>5. Chain(g, cur + 1, len)
  BY <1>1, <1>3, <1>4 DEF Chain
<1> QED
  BY <1>5 DEF g

(* It is ended,                                                            *)
LEMMA ChainEnd ==
  ASSUME NEW fr \in Seq(FrameType), fr # <<>>, NEW cur \in Int, NEW len \in Int, Chain(fr, cur, len),
         fr[Len(fr)].fn = "write", NEW f \in FrameType, f.fn = "end", f.prev = "open", f.n.at = cur
  PROVE  Chain(Append(Front(fr), f), cur, len)
<1> DEFINE h == Front(fr)
           g == Append(h, f)
<1>1. /\ Len(fr) \in Nat /\ Len(fr) > 0 /\ Len(h) = Len(fr) - 1 /\ h \in Seq(FrameType)
      /\ \A i \in 1 .. Len(fr) - 1 : h[i] = fr[i]
  BY Framed
<1> HIDE DEF h
<1>2. /\ Len(g) = Len(h) + 1 /\ g[Len(h) + 1] = f /\ \A i \in 1 .. Len(h) : g[i] = h[i]
  BY <1>1, Framed
<1> HIDE DEF g
<1>3. Len(g) = Len(fr) /\ g[Len(fr)] = f /\ \A i \in 1 .. Len(fr) - 1 : g[i] = fr[i]
  BY <1>1, <1>2
<1>4. Turn(g) = Turn(fr) /\ Turn(fr) = Len(fr) + 1
  BY <1>3 DEF Turn
<1>5. Len(fr) = 1 \/ fr[Len(fr) - 1].fn = "content"
  <2>1. Link(fr, cur, len, Len(fr))
    BY <1>1 DEF Chain
  <2> QED
    BY <1>1, <2>1 DEF Link
<1>6. ASSUME NEW i \in 1 .. Len(fr) - 1 PROVE Link(g, cur, len, i)
  <2>1. Link(fr, cur, len, i)
    BY <1>1 DEF Chain
  <2>2. i \in Int /\ (i = Len(fr) - 1 \/ i + 1 \in 1 .. Len(fr) - 1) /\ (i > 1 => i - 1 \in 1 .. Len(fr) - 1)
    BY <1>1
  <2>3. Base(g, cur, i) = Base(fr, cur, i)
    BY <1>4 DEF Base
  <2>4. g[i] = fr[i] /\ (i > 1 => g[i - 1] = fr[i - 1] /\ g[1] = fr[1]) /\ i # Len(fr)
    BY <1>1, <1>3, <2>2
  <2>5. CASE i = Len(fr) - 1
    <3>1. g[i + 1].fn = "end" /\ fr[i].fn = "content"
      BY <1>1, <1>3, <1>5, <2>2, <2>5
    <3> QED
      BY <2>1, <2>2, <2>3, <2>4, <3>1, LinkKept
  <2>6. CASE i # Len(fr) - 1
    <3>1. g[i + 1] = fr[i + 1]
      BY <1>3, <2>2, <2>6
    <3>3. fr[i].fn = "write" => i = 1 /\ fr[2].fn = "push" /\ Len(fr) > 1
      BY <2>1, <2>4 DEF Link
    <3>4. fr[i].fn = "write" => g[2].fn = "push" /\ i = 1 /\ Len(g) > 1
      BY <1>3, <3>1, <3>3
    <3>5. fr[i].fn = "content" => fr[i + 1].fn = "write" \/ fr[i + 1].fn = "end"
      BY <2>1, <2>4 DEF Link
    <3>6. fr[i].fn = "text" \/ fr[i].fn = "push" \/ fr[i].fn = "end" => fr[i + 1].fn = "content"
      BY <2>1, <2>4 DEF Link
    <3> QED
      BY <2>1, <2>2, <2>3, <2>4, <3>1, <3>4, <3>5, <3>6, LinkKept
  <2> QED
    BY <2>5, <2>6
<1>7. Link(g, cur, len, Len(fr))
  <2>1. Base(g, cur, Len(fr)) = cur + cur
    BY <1>1, <1>4 DEF Base
  <2>2. g[Len(fr)].fn = "end" /\ g[Len(fr)].prev = "open" /\ g[Len(fr)].n.at = cur
    BY <1>3
  <2>3. Len(fr) = 1 \/ g[Len(fr) - 1].fn = "content"
    BY <1>1, <1>3, <1>5
  <2> QED
    BY <1>3, <2>1, <2>2, <2>3 DEF Link
<1>8. Chain(g, cur, len)
  BY <1>1, <1>3, <1>6, <1>7 DEF Chain
<1> QED
  BY <1>8 DEF g, h

(* and is off the stack: other calls hold nodes further down.              *)
LEMMA ChainEnded ==
  ASSUME NEW fr \in Seq(FrameType), fr # <<>>, NEW cur \in Int, NEW len \in Int, Chain(fr, cur, len), fr[Len(fr)].fn = "end"
  PROVE  /\ Chain(Front(fr), cur - 1, len) /\ fr[Len(fr)].prev = "open" /\ fr[Len(fr)].n.at = cur
         /\ Len(fr) = 1 \/ fr[Len(fr) - 1].fn = "content"
         /\ \A i \in 1 .. Len(fr) - 1 : fr[i].fn = "end" => fr[i].n.at < cur
<1> DEFINE g == Front(fr)
<1>1. /\ Len(fr) \in Nat /\ Len(fr) > 0 /\ Len(g) = Len(fr) - 1
      /\ \A i \in 1 .. Len(fr) - 1 : g[i] = fr[i]
  BY Framed
<1> HIDE DEF g
<1>2. \A i \in 1 .. Len(fr) : fr[i].n.at \in Int
  <2> TAKE i \in 1 .. Len(fr)
  <2>1. fr[i] \in FrameType
    BY ElementOfSeq
  <2> QED
    BY <2>1, MaxDepthAssumption DEF FrameType, Pointer, Slots
<1>3. Turn(fr) = Len(fr) + 1
  BY <1>1 DEF Turn
<1>4. Link(fr, cur, len, Len(fr))
  BY <1>1 DEF Chain
<1>5. /\ fr[Len(fr)].prev = "open"
      /\ Len(fr) = 1 \/ fr[Len(fr) - 1].fn = "content"
      /\ Base(fr, cur, Len(fr)) = fr[Len(fr)].n.at + fr[Len(fr)].n.at
  BY <1>1, <1>4 DEF Link
<1>6. fr[Len(fr)].n.at = cur
  <2>1. Base(fr, cur, Len(fr)) = cur + cur /\ fr[Len(fr)].n.at \in Int
    BY <1>1, <1>2, <1>3 DEF Base
  <2> QED
    BY <1>5, <2>1
<1>7. Len(fr) > 1 => Turn(g) = Len(fr) - 1
  BY <1>1, <1>5 DEF Turn
<1>8. ASSUME NEW i \in 1 .. Len(fr) - 1
      PROVE  Link(g, cur - 1, len, i) /\ (fr[i].fn = "end" => fr[i].n.at < cur)
  <2>1. Link(fr, cur, len, i)
    BY <1>1 DEF Chain
  <2>2. /\ i \in Int /\ i <= Len(fr) - 1 /\ i >= 1 /\ i \in 1 .. Len(fr)
        /\ (i < Len(fr) - 1 => i + 1 \in 1 .. Len(fr) - 1) /\ (i > 1 => i - 1 \in 1 .. Len(fr) - 1)
    BY <1>1
  <2>3. fr[i].n.at \in Int
    BY <1>2, <2>2
  <2>4. Turn(g) = Len(fr) - 1
    BY <1>1, <1>7, <2>2
  <2>5. Base(g, cur - 1, i) = Base(fr, cur, i) /\ Base(fr, cur, i) < cur + cur
    BY <1>1, <1>3, <2>2, <2>4 DEF Base
  <2>6. fr[i].fn = "end" => fr[i].n.at < cur
    <3>1. fr[i].fn = "end" => Base(fr, cur, i) = fr[i].n.at + fr[i].n.at
      BY <2>1 DEF Link
    <3> QED
      BY <2>3, <2>5, <3>1
  <2>7. Link(g, cur - 1, len, i)
    <3>1. g[i] = fr[i] /\ (i > 1 => g[i - 1] = fr[i - 1] /\ g[1] = fr[1]) /\ i # Len(fr)
      BY <1>1, <2>2
    <3>2. CASE i = Len(g)
      <4>1. fr[i].fn = "content"
        BY <1>1, <1>5, <2>2, <3>2
      <4> QED
        BY <2>1, <2>2, <2>5, <3>1, <3>2, <4>1, LinkKept
    <3>3. CASE i # Len(g)
      <4>1. g[i + 1] = fr[i + 1] /\ Len(g) > 1
        BY <1>1, <2>2, <3>3, SMTT(40)
      <4>3. fr[i].fn = "write" => i = 1 /\ fr[2].fn = "push"
        BY <2>1, <3>1 DEF Link
      <4>4. fr[i].fn = "write" => g[2].fn = "push" /\ i = 1
        BY <4>1, <4>3
      <4>5. fr[i].fn = "content" => fr[i + 1].fn = "write" \/ fr[i + 1].fn = "end"
        BY <2>1, <3>1 DEF Link
      <4>6. fr[i].fn = "text" \/ fr[i].fn = "push" \/ fr[i].fn = "end" => fr[i + 1].fn = "content"
        BY <2>1, <3>1 DEF Link
      <4> QED
        BY <2>1, <2>2, <2>5, <3>1, <4>1, <4>4, <4>5, <4>6, LinkKept, SMTT(60)
    <3> QED
      BY <3>2, <3>3
  <2> QED
    BY <2>6, <2>7
<1>9. Chain(g, cur - 1, len)
  BY <1>1, <1>8 DEF Chain
<1> QED
  BY <1>5, <1>6, <1>8, <1>9 DEF g

(* An element is pushed: nothing else is in progress but its write.        *)
LEMMA ChainPush ==
  ASSUME NEW fr \in Seq(FrameType), fr # <<>>, NEW cur \in Int, NEW len \in Int, Chain(fr, cur, len), fr[Len(fr)].fn = "push"
  PROVE  /\ \A c \in Int : Chain(Front(fr), c, len)
         /\ fr[Len(fr)].node.state = "open" /\ ~fr[Len(fr)].node.kids /\ cur + 1 < len
         /\ Front(fr) = <<>> \/ (Len(Front(fr)) = 1 /\ Front(fr)[1].fn = "write")
<1> DEFINE g == Front(fr)
<1>1. /\ Len(fr) \in Nat /\ Len(fr) > 0 /\ Len(g) = Len(fr) - 1
      /\ \A i \in 1 .. Len(fr) - 1 : g[i] = fr[i]
      /\ (Len(fr) = 1 => g = <<>>)
  BY Framed
<1> HIDE DEF g
<1>2. Link(fr, cur, len, Len(fr))
  BY <1>1 DEF Chain
<1>3. /\ Len(fr) = 1 \/ (Len(fr) = 2 /\ fr[1].fn = "write")
      /\ fr[Len(fr)].node.state = "open" /\ ~fr[Len(fr)].node.kids
  BY <1>1, <1>2 DEF Link
<1>4. Len(fr) = 2 => Len(g) = 1 /\ g[1].fn = "write"
  BY <1>1, <1>3
<1>5. ASSUME NEW c \in Int PROVE Chain(g, c, len)
  <2>1. CASE Len(fr) = 1
    BY <1>1, <2>1 DEF Chain
  <2>2. CASE Len(fr) = 2
    <3>1. Len(g) = 1 /\ g[1].fn = "write"
      BY <1>4, <2>2
    <3>2. Link(g, c, len, 1)
      BY <3>1 DEF Link
    <3> QED
      BY <3>1, <3>2 DEF Chain
  <2> QED
    BY <1>3, <2>1, <2>2
<1>6. cur + 1 < len
  <2>1. Base(fr, cur, Len(fr)) = cur + cur
    BY <1>1 DEF Base, Turn
  <2>2. Base(fr, cur, Len(fr)) + 2 < len + len
    BY <1>2 DEF Link
  <2> QED
    BY <2>1, <2>2
<1> QED
  BY <1>1, <1>3, <1>4, <1>5, <1>6 DEF g

(* The calls nest no deeper than twice the nodes.                          *)
LEMMA ChainShort ==
  ASSUME NEW fr \in Seq(FrameType), NEW cur \in -1 .. MaxDepth - 1, NEW len \in Int, Chain(fr, cur, len)
  PROVE  Len(fr) <= 3 * (MaxDepth + 1)
<1>1. Len(fr) \in Nat /\ MaxDepth \in Nat /\ cur \in Int /\ cur <= MaxDepth - 1
  BY LenProperties, MaxDepthAssumption
<1>2. CASE Len(fr) <= 3
  BY <1>1, <1>2
<1>3. CASE Len(fr) > 3
  <2>1. 1 \in 1 .. Len(fr) /\ 2 \in 1 .. Len(fr) /\ 3 \in 1 .. Len(fr)
    BY <1>1, <1>3
  <2>2. Link(fr, cur, len, 1) /\ Link(fr, cur, len, 2) /\ Link(fr, cur, len, 3)
    BY <2>1 DEF Chain
  <2>3. Turn(fr) \in Int /\ Turn(fr) >= Len(fr)
    BY <1>1 DEF Turn
  <2>4. \/ fr[1].fn = "content" \/ fr[1].fn = "end" \/ fr[1].fn = "push"
        \/ fr[1].fn = "text" \/ fr[1].fn = "write"
    <3>1. fr[1] \in FrameType
      BY <2>1, ElementOfSeq
    <3> QED
      BY <3>1 DEF FrameType
  <2>5. fr[2].fn = "content" \/ fr[3].fn = "content"
    BY <1>1, <1>3, <2>2, <2>4 DEF Link
  <2>6. Turn(fr) - 2 <= cur + cur \/ Turn(fr) - 3 <= cur + cur
    <3>1. Base(fr, cur, 2) > 0 \/ Base(fr, cur, 3) > 0
      BY <2>2, <2>5 DEF Link
    <3> QED
      BY <1>1, <2>3, <3>1 DEF Base
  <2> QED
    BY <1>1, <2>3, <2>6
<1> QED
  BY <1>1, <1>2, <1>3

(* The slice may grow meanwhile.                                           *)
LEMMA ChainGrow ==
  ASSUME NEW fr \in Seq(FrameType), NEW cur \in Int, NEW len \in Int, NEW more \in Int, len <= more,
         Chain(fr, cur, len)
  PROVE  Chain(fr, cur, more)
<1> SUFFICES ASSUME NEW i \in 1 .. Len(fr) PROVE Link(fr, cur, more, i)
  BY DEF Chain
<1>1. Link(fr, cur, len, i)
  BY DEF Chain
<1>2. Base(fr, cur, i) \in Int
  <2>1. Len(fr) \in Nat /\ i \in Int
    BY LenProperties
  <2> QED
    BY <2>1 DEF Base, Turn
<1>3. Base(fr, cur, i) + 2 < len + len => Base(fr, cur, i) + 2 < more + more
  BY <1>2
<1> QED
  BY <1>1, <1>3 DEF Link

-----------------------------------------------------------------------------
(* The slice, the stack and the start of a child. *)

(* Room for one more node is made, and no node changes: where the slice    *)
(* moves, what node.end holds stays behind with what it held.              *)
LEMMA HeldGrow ==
  ASSUME NEW v, Held(v), v.cur + 1 < MaxDepth
  PROVE  LET w == Grow(v)
         IN /\ Held(w) /\ w.cur = v.cur /\ w.cur + 1 < w.len
            /\ w.frames = v.frames /\ w.rd = v.rd /\ w.err = v.err /\ w.doubt = v.doubt
            /\ Used(w) = Used(v)
<1>1. /\ Loose(v) /\ v \in Machines /\ v.arr \in Arrays /\ v.arr \in Nat /\ Cap[v.arr] \in Nat
      /\ v.len \in Nat /\ v.cur \in Int /\ v.cur >= -1 /\ MaxDepth \in Nat /\ v.cur < v.len /\ v.len <= Cap[v.arr]
      /\ v.mem \in [Arrays -> [Slots -> Node]] /\ 1 <= v.len
  BY HeldParts DEF Held, Loose
<1>2. CASE v.len > v.cur + 1
  BY <1>2 DEF Grow
<1>3. CASE ~(v.len > v.cur + 1) /\ v.len < Cap[v.arr]
  <2> DEFINE l == v.len + 1
             w == [v EXCEPT !.len = l]
  <2>1. l \in Nat /\ v.cur + 1 < l /\ 1 <= l /\ l <= Cap[v.arr]
    BY <1>1, <1>3
  <2> HIDE DEF l
  <2>2. /\ w \in Machines
        /\ w.mem = v.mem /\ w.arr = v.arr /\ w.len = l /\ w.cur = v.cur
        /\ w.frames = v.frames /\ w.rd = v.rd /\ w.err = v.err /\ w.doubt = v.doubt
    BY <1>1, <2>1, FieldReplaced, Zenon
  <2>3. Grow(v) = w
    BY <1>1, <1>3 DEF Grow, l
  <2> HIDE DEF w
  <2>4. Used(w) = Used(v) /\ \A n : Points(w, n) <=> Points(v, n)
    BY <2>2 DEF Used, Points, Deref
  <2>5. Loose(w)
    BY <1>1, <2>1, <2>2, <2>4 DEF Loose
  <2>6. Held(w)
    BY <2>2, <2>4, <2>5 DEF Held
  <2> QED
    BY <2>1, <2>2, <2>3, <2>4, <2>6
<1>4. CASE ~(v.len > v.cur + 1) /\ ~(v.len < Cap[v.arr])
  <2>1. v.len = v.cur + 1 /\ Cap[v.arr] = v.cur + 1 /\ Cap[v.arr] < MaxDepth
    BY <1>1, <1>4
  <2>2. v.arr + 1 \in Arrays /\ Cap[v.arr + 1] = 2 * Cap[v.arr]
    BY <1>1, <2>1, NextArray
  <2>3. Cap[v.arr + 1] \in Nat /\ v.len + 1 <= Cap[v.arr + 1]
    BY <1>1, <2>1, <2>2
  <2> DEFINE mm == [v.mem EXCEPT ![v.arr + 1] = v.mem[v.arr]]
             x  == [v EXCEPT !.len = v.len + 1, !.arr = v.arr + 1, !.mem = mm]
             w  == Collected(x)
  <2>4. /\ mm \in [Arrays -> [Slots -> Node]] /\ mm[v.arr + 1] = v.mem[v.arr]
        /\ \A g \in Arrays : g # v.arr + 1 => mm[g] = v.mem[g]
    BY <1>1, <2>2
  <2>5. Grow(v) = w
    BY <1>1, <1>4 DEF Grow, Machines
  <2> HIDE DEF mm
  <2>6. /\ x \in Machines
        /\ x.mem = mm /\ x.arr = v.arr + 1 /\ x.len = v.len + 1 /\ x.cur = v.cur
        /\ x.frames = v.frames /\ x.rd = v.rd /\ x.err = v.err /\ x.doubt = v.doubt
    <3>1. v.len + 1 \in Nat
      BY <1>1
    <3> QED
      BY <1>1, <2>2, <2>4, <3>1 DEF Machines
  <2> HIDE DEF x
  <2>7. /\ w \in Machines
        /\ w.arr = x.arr /\ w.len = x.len /\ w.cur = x.cur
        /\ w.frames = x.frames /\ w.rd = x.rd /\ w.err = x.err /\ w.doubt = x.doubt
        /\ w.mem[x.arr] = x.mem[x.arr]
        /\ \A i \in 1 .. Len(x.frames) :
             x.frames[i].fn = "end" => w.mem[x.frames[i].n.arr] = x.mem[x.frames[i].n.arr]
    BY <2>6, CollectedFacts
  <2> HIDE DEF w
  <2>8. Used(w) = Used(v)
    BY <2>4, <2>6, <2>7 DEF Used
  <2>9. ASSUME NEW i \in 1 .. Len(v.frames), v.frames[i].fn = "end"
        PROVE  Points(w, v.frames[i].n)
    <3> DEFINE q == v.frames[i].n
    <3>1. /\ q.arr \in Arrays /\ q.at \in Slots /\ q.at \in Nat /\ q.arr \in Nat /\ Cap[q.arr] \in Nat
      BY <1>1, FramePointer
    <3>2. Points(v, q)
      BY <1>1, <2>9 DEF Loose
    <3>3. w.mem[q.arr] = mm[q.arr]
      BY <2>6, <2>7, <2>9
    <3> HIDE DEF q
    <3>4. q.arr <= v.arr /\ q.at <= v.cur
      BY <3>2 DEF Points
    <3>5. q.arr # v.arr + 1 /\ q.arr <= v.arr + 1
      BY <1>1, <3>1, <3>4
    <3>6. Deref(w, q) = Deref(v, q)
      BY <2>4, <3>1, <3>3, <3>5 DEF Deref
    <3>7. Deref(w, q).full = Used(w)[q.at].full
      BY <2>8, <3>2, <3>6 DEF Points
    <3>8. q.at < Cap[q.arr] /\ (q.at # Cap[q.arr] - 1 => Deref(v, q).kids /\ Used(v)[q.at].kids)
      <4>1. CASE q.arr # v.arr
        BY <3>2, <4>1 DEF Points
      <4>2. CASE q.arr = v.arr
        <5>1. q.at < Cap[q.arr] /\ Deref(v, q) = Used(v)[q.at]
          BY <1>1, <2>1, <3>1, <3>4, <4>2 DEF Deref, Used
        <5>2. q.at # Cap[q.arr] - 1 => q.at \in 0 .. v.cur - 1
          BY <1>1, <2>1, <3>1, <3>4, <4>2
        <5>3. q.at # Cap[q.arr] - 1 => Used(v)[q.at].kids
          BY <1>1, <5>2 DEF Loose
        <5> QED
          BY <5>1, <5>3
      <4> QED
        BY <4>1, <4>2
    <3>9. Points(w, q)
      BY <2>6, <2>7, <2>8, <3>4, <3>5, <3>6, <3>7, <3>8 DEF Points
    <3> QED
      BY <3>9 DEF q
  <2>10. w.cur = v.cur /\ w.arr = v.arr + 1 /\ w.len = v.len + 1 /\ w.frames = v.frames /\ w.rd = v.rd
         /\ w.err = v.err /\ w.doubt = v.doubt
    BY <2>6, <2>7
  <2>11. w.cur + 1 < w.len /\ w.cur < w.len /\ 1 <= w.len /\ w.len <= Cap[w.arr]
    BY <1>1, <2>1, <2>3, <2>10
  <2>12. Loose(w)
    BY <1>1, <2>7, <2>8, <2>9, <2>10, <2>11 DEF Loose
  <2>13. Held(w)
    BY <2>8, <2>10, <2>12 DEF Held
  <2> QED
    BY <2>5, <2>8, <2>10, <2>11, <2>13
<1> QED
  BY <1>2, <1>3, <1>4

(* A node is pushed.                                                       *)
LEMMA HeldPush ==
  ASSUME NEW v, Held(v), v.cur + 1 < v.len, v.cur + 1 < MaxDepth,
         v.cur >= 0 => Used(v)[v.cur].kids /\ Used(v)[v.cur].state = "opened",
         NEW node \in Node, node.state = "open", ~node.kids
  PROVE  LET w == Push(v, node)
         IN /\ Held(w) /\ w.cur = v.cur + 1 /\ w.arr = v.arr /\ w.len = v.len
            /\ w.frames = v.frames /\ w.rd = ReadOpen(v.rd, "elem", "a")
            /\ w.err = v.err /\ w.doubt = v.doubt
            /\ Used(w)[w.cur] = node
            /\ \A s \in 0 .. v.cur : Used(w)[s] = Used(v)[s]
<1>1. /\ Loose(v) /\ v \in Machines /\ v.arr \in Arrays /\ v.arr \in Nat /\ Cap[v.arr] \in Nat
      /\ v.len \in Nat /\ v.cur \in Int /\ v.cur >= -1 /\ MaxDepth \in Nat /\ v.cur < v.len /\ v.len <= Cap[v.arr]
      /\ 1 <= v.len
  BY HeldParts DEF Held, Loose
<1> DEFINE c == v.cur + 1
           p == [v EXCEPT !.cur = c]
           o == Store(p, Current(p), node)
           rd == ReadOpen(v.rd, "elem", "a")
           w == Emit(o, rd)
<1>2. c \in -1 .. MaxDepth - 1 /\ c \in Slots /\ c \in Int /\ c >= 0 /\ c < v.len
  BY <1>1 DEF Slots
<1> HIDE DEF c
<1>3. /\ p \in Machines
      /\ p.mem = v.mem /\ p.arr = v.arr /\ p.len = v.len /\ p.cur = c
      /\ p.frames = v.frames /\ p.rd = v.rd /\ p.err = v.err /\ p.doubt = v.doubt
  BY <1>1, <1>2, FieldReplaced, Zenon
<1>4. p = [v EXCEPT !.cur = @ + 1]
  BY DEF c
<1> HIDE DEF p
<1>5. Current(p).arr = v.arr /\ Current(p).at = c /\ Current(p).arr \in Arrays /\ Current(p).at \in Slots
  BY <1>1, <1>2, <1>3 DEF Current
<1>6. /\ o \in Machines
      /\ o.arr = p.arr /\ o.len = p.len /\ o.cur = p.cur
      /\ o.frames = p.frames /\ o.rd = p.rd /\ o.err = p.err /\ o.doubt = p.doubt
      /\ \A g \in Arrays, s \in Slots :
           o.mem[g][s] = IF g = Current(p).arr /\ s = Current(p).at THEN node ELSE p.mem[g][s]
  BY <1>3, <1>5, StoreFacts
<1> HIDE DEF o
<1>7. rd \in Readers
  <2>1. "elem" \in Startables /\ "a" \in Names \cup {NoName, "a"} /\ v.rd \in Readers
    BY <1>1, Grammar, MachineParts
  <2> QED
    BY <2>1, ReadersRead, Zenon
<1>8. Push(v, node) = Emit(o, ReadOpen(v.rd, "elem", "a"))
  BY <1>4, Zenon DEF Push, o
<1> HIDE DEF rd
<1>9. /\ w \in Machines
      /\ w.mem = o.mem /\ w.arr = o.arr /\ w.len = o.len /\ w.cur = o.cur
      /\ w.frames = o.frames /\ w.rd = rd /\ w.err = o.err /\ w.doubt = o.doubt
  BY <1>6, <1>7, EmitFacts, Zenon
<1> HIDE DEF w
<1>10. /\ w.arr = v.arr /\ w.len = v.len /\ w.cur = c /\ w.frames = v.frames
       /\ w.err = v.err /\ w.doubt = v.doubt
       /\ \A g \in Arrays, s \in Slots :
            w.mem[g][s] = IF g = v.arr /\ s = c THEN node ELSE v.mem[g][s]
  BY <1>3, <1>5, <1>6, <1>9
<1>11. Used(w)[c] = node /\ \A s \in 0 .. v.cur : s \in Slots /\ Used(w)[s] = Used(v)[s]
  <2>1. \A s \in 0 .. v.cur : s \in Slots /\ s # c
    BY <1>1, <1>2, HeldParts DEF c
  <2> QED
    BY <1>1, <1>2, <1>10, <2>1 DEF Used
<1>12. ASSUME NEW i \in 1 .. Len(v.frames), v.frames[i].fn = "end"
       PROVE  Points(w, v.frames[i].n)
  <2> DEFINE q == v.frames[i].n
  <2>1. /\ q.arr \in Arrays /\ q.at \in Slots /\ q.at \in Nat /\ q.arr \in Nat /\ Cap[q.arr] \in Nat
    BY <1>1, FramePointer
  <2>2. Points(v, q)
    BY <1>1, <1>12 DEF Loose
  <2> HIDE DEF q
  <2>3. q.arr <= v.arr /\ q.at <= v.cur
    BY <2>2 DEF Points
  <2>4. q.at # c /\ q.at <= c /\ q.at \in 0 .. v.cur
    BY <1>1, <2>1, <2>3 DEF c
  <2>5. Deref(w, q) = Deref(v, q) /\ Used(w)[q.at] = Used(v)[q.at]
    BY <1>10, <1>11, <2>1, <2>4 DEF Deref
  <2>6. Points(w, q)
    BY <1>10, <2>2, <2>3, <2>4, <2>5 DEF Points
  <2> QED
    BY <2>6 DEF q
<1>13. \A s \in 0 .. w.cur - 1 : Used(w)[s].kids /\ Used(w)[s].state = "opened"
  <2> TAKE s \in 0 .. w.cur - 1
  <2>1. s \in 0 .. v.cur /\ (s = v.cur \/ s \in 0 .. v.cur - 1) /\ s >= 0
    BY <1>1, <1>10 DEF c
  <2>2. Used(v)[s].kids /\ Used(v)[s].state = "opened"
    BY <1>1, <2>1 DEF Loose
  <2> QED
    BY <1>11, <2>1, <2>2
<1>14. Loose(w)
  BY <1>1, <1>2, <1>9, <1>10, <1>11, <1>12, <1>13 DEF Loose
<1>15. Held(w)
  BY <1>10, <1>11, <1>14 DEF Held
<1> QED
  BY <1>8, <1>9, <1>10, <1>11, <1>15 DEF w, rd, c

(* The current node is ended: what was below it is as it was, and so is    *)
(* what other calls hold of it.                                            *)
LEMMA HeldFinish ==
  ASSUME NEW v, Held(v), v.cur >= 0, NEW n, n.arr \in Arrays, n.at = v.cur, NEW prev,
         \A i \in 1 .. Len(v.frames) : v.frames[i].fn = "end" => v.frames[i].n.at < v.cur
  PROVE  LET w == FinishEnd(v, n, prev)
         IN /\ Held(w) /\ w.cur = v.cur - 1 /\ w.arr = v.arr /\ w.len = v.len
            /\ w.frames = v.frames /\ w.err = v.err
            /\ w.doubt = (v.doubt \/ Deref(v, n).kids # Used(v)[v.cur].kids)
            /\ w.rd = IF prev # "open" \/ Deref(v, n).full \/ Deref(v, n).kids
                      THEN ReadClose(v.rd, "elem", "a") ELSE v.rd
            /\ \A s \in 0 .. v.cur - 1 : Used(w)[s] = Used(v)[s]
<1>1. /\ Loose(v) /\ v \in Machines /\ v.arr \in Arrays /\ v.cur \in Slots /\ v.len \in Nat
      /\ v.cur \in Int /\ MaxDepth \in Nat /\ v.cur < v.len /\ v.len <= Cap[v.arr] /\ 1 <= v.len
      /\ v.cur \in -1 .. MaxDepth - 1
      /\ v.mem \in [Arrays -> [Slots -> Node]] /\ \A s \in 0 .. v.cur : s \in Slots
      /\ v.rd \in Readers /\ v.doubt \in BOOLEAN
  BY HeldParts, MachineParts DEF Held, Loose
<1> DEFINE e == Deref(v, n)
           ended == [e EXCEPT !.state = "ended"]
           c == Store(v, n, ended)
           z == Store(c, Current(c), ZeroNode)
           cur == v.cur - 1
           doubt == v.doubt \/ e.kids # Used(v)[v.cur].kids
           d == [z EXCEPT !.cur = cur, !.doubt = doubt]
           rd == ReadClose(v.rd, "elem", "a")
           w == FinishEnd(v, n, prev)
<1>2. e \in Node /\ ended \in Node
  <2>1. e \in Node
    BY <1>1 DEF Deref
  <2>2. "ended" \in States /\ ended = InState(e, "ended")
    BY DEF States, InState
  <2> QED
    BY <2>1, <2>2, InStateFacts, Zenon
<1>3. doubt \in BOOLEAN
  OBVIOUS
<1>4. w = IF prev # "open" \/ e.full \/ e.kids THEN Emit(d, rd) ELSE d
  <2>1. z.cur = v.cur /\ z.doubt = v.doubt
    <3>1. c \in Machines /\ c.cur = v.cur /\ c.arr = v.arr /\ c.doubt = v.doubt
      BY <1>1, <1>2, StoreFacts
    <3>2. Current(c).arr \in Arrays /\ Current(c).at \in Slots
      BY <1>1, <3>1 DEF Current
    <3> HIDE DEF c
    <3> QED
      BY <3>1, <3>2, NewNodeFacts, StoreFacts
  <2>2. Deref(v, Current(v)) = Used(v)[v.cur]
    BY DEF Deref, Current, Used
  <2>3. [z EXCEPT !.cur = @ - 1, !.doubt = @ \/ e.kids # Deref(v, Current(v)).kids] = d
    <3> HIDE DEF z, e
    <3> QED
      BY <2>1, <2>2
  <2>4. w = IF prev # "open" \/ e.full \/ e.kids
            THEN Emit([z EXCEPT !.cur = @ - 1, !.doubt = @ \/ e.kids # Deref(v, Current(v)).kids], rd)
            ELSE [z EXCEPT !.cur = @ - 1, !.doubt = @ \/ e.kids # Deref(v, Current(v)).kids]
    BY Zenon DEF FinishEnd
  <2> HIDE DEF z, d, w, rd, e
  <2> QED
    BY <2>3, <2>4, Zenon
<1> HIDE DEF e, ended, doubt
<1>5. /\ c \in Machines
      /\ c.arr = v.arr /\ c.len = v.len /\ c.cur = v.cur
      /\ c.frames = v.frames /\ c.rd = v.rd /\ c.err = v.err /\ c.doubt = v.doubt
      /\ \A g \in Arrays, s \in Slots :
           c.mem[g][s] = IF g = n.arr /\ s = n.at THEN ended ELSE v.mem[g][s]
  BY <1>1, <1>2, StoreFacts, ZenonT(60)
<1> HIDE DEF c
<1>6. Current(c).arr = v.arr /\ Current(c).at = v.cur /\ Current(c).arr \in Arrays /\ Current(c).at \in Slots
  BY <1>1, <1>5 DEF Current
<1>7. /\ z \in Machines
      /\ z.arr = c.arr /\ z.len = c.len /\ z.cur = c.cur
      /\ z.frames = c.frames /\ z.rd = c.rd /\ z.err = c.err /\ z.doubt = c.doubt
      /\ \A g \in Arrays, s \in Slots :
           z.mem[g][s] = IF g = Current(c).arr /\ s = Current(c).at THEN ZeroNode ELSE c.mem[g][s]
  BY <1>5, <1>6, NewNodeFacts, StoreFacts
<1> HIDE DEF z
<1>8. cur \in -1 .. MaxDepth - 1
  BY <1>1
<1> HIDE DEF cur
<1>9. /\ d \in Machines
      /\ d.mem = z.mem /\ d.arr = z.arr /\ d.len = z.len /\ d.cur = cur
      /\ d.frames = z.frames /\ d.rd = z.rd /\ d.err = z.err /\ d.doubt = doubt
  BY <1>3, <1>7, <1>8 DEF Machines
<1> HIDE DEF d
<1>10. rd \in Readers
  <2>1. "elem" \in Startables /\ "a" \in Names \cup {NoName, "a"}
    BY Grammar
  <2> QED
    BY <1>1, <2>1, ReadersRead, Zenon
<1> HIDE DEF rd
<1>11. /\ w \in Machines
       /\ w.mem = d.mem /\ w.arr = d.arr /\ w.len = d.len /\ w.cur = d.cur
       /\ w.frames = d.frames /\ w.err = d.err /\ w.doubt = d.doubt
       /\ w.rd = IF prev # "open" \/ e.full \/ e.kids THEN rd ELSE v.rd
  <2> HIDE DEF w
  <2>1. CASE prev # "open" \/ e.full \/ e.kids
    <3>1. w = Emit(d, rd)
      BY <1>4, <2>1, Zenon
    <3>2. /\ w \in Machines
          /\ w.mem = d.mem /\ w.arr = d.arr /\ w.len = d.len /\ w.cur = d.cur
          /\ w.frames = d.frames /\ w.rd = rd /\ w.err = d.err /\ w.doubt = d.doubt
      BY <1>9, <1>10, <3>1, EmitFacts, Zenon
    <3> QED
      BY <2>1, <3>2
  <2>2. CASE ~(prev # "open" \/ e.full \/ e.kids)
    <3>1. w = d
      BY <1>4, <2>2, Zenon
    <3> QED
      BY <1>5, <1>7, <1>9, <2>2, <3>1
  <2> QED
    BY <2>1, <2>2
<1> HIDE DEF w
<1>12. /\ w.arr = v.arr /\ w.len = v.len /\ w.cur = cur /\ w.frames = v.frames /\ w.err = v.err
       /\ w.doubt = doubt
       /\ \A g \in Arrays, s \in Slots : s # v.cur => w.mem[g][s] = v.mem[g][s]
  BY <1>5, <1>6, <1>7, <1>9, <1>11
<1>13. \A s \in 0 .. v.cur - 1 : s \in Slots /\ s # v.cur /\ Used(w)[s] = Used(v)[s]
  BY <1>1, <1>12 DEF Used
<1>14. ASSUME NEW i \in 1 .. Len(v.frames), v.frames[i].fn = "end"
       PROVE  Points(w, v.frames[i].n)
  <2> DEFINE q == v.frames[i].n
  <2>1. /\ q.arr \in Arrays /\ q.at \in Slots /\ q.at \in Nat /\ q.arr \in Nat /\ Cap[q.arr] \in Nat
    BY <1>1, FramePointer
  <2>2. Points(v, q) /\ q.at < v.cur
    BY <1>1, <1>14 DEF Loose
  <2> HIDE DEF q
  <2>3. q.at # v.cur /\ q.at <= cur /\ q.at \in 0 .. v.cur - 1
    BY <1>1, <2>1, <2>2 DEF cur
  <2>4. Deref(w, q) = Deref(v, q) /\ Used(w)[q.at] = Used(v)[q.at]
    BY <1>12, <1>13, <2>1, <2>3 DEF Deref
  <2>5. Points(w, q)
    BY <1>12, <2>2, <2>3, <2>4 DEF Points
  <2> QED
    BY <2>5 DEF q
<1>15. \A s \in 0 .. w.cur : Used(w)[s].kids /\ Used(w)[s].state = "opened"
  <2> TAKE s \in 0 .. w.cur
  <2>1. s \in 0 .. v.cur - 1
    BY <1>1, <1>12 DEF cur
  <2>2. Used(v)[s].kids /\ Used(v)[s].state = "opened"
    BY <1>1, <2>1 DEF Loose
  <2> QED
    BY <1>13, <2>1, <2>2
<1>16. w.cur \in Int /\ w.cur < w.len
  BY <1>1, <1>12 DEF cur
<1>17. Loose(w)
  BY <1>1, <1>11, <1>12, <1>14, <1>15, <1>16 DEF Loose
<1>18. Held(w)
  BY <1>15, <1>16, <1>17 DEF Held
<1> QED
  BY <1>11, <1>12, <1>13, <1>18 DEF w, e, cur, doubt, rd

(* The garbage is collected.                                               *)
LEMMA HeldCollected ==
  ASSUME NEW v, Held(v)
  PROVE  LET w == Collected(v)
         IN /\ Held(w) /\ w.arr = v.arr /\ w.len = v.len /\ w.cur = v.cur
            /\ w.frames = v.frames /\ w.rd = v.rd /\ w.err = v.err /\ w.doubt = v.doubt
            /\ Used(w) = Used(v)
<1> DEFINE w == Collected(v)
<1>1. v \in Machines
  BY DEF Held, Loose
<1>2. /\ w \in Machines
      /\ w.arr = v.arr /\ w.len = v.len /\ w.cur = v.cur
      /\ w.frames = v.frames /\ w.rd = v.rd /\ w.err = v.err /\ w.doubt = v.doubt
      /\ w.mem[v.arr] = v.mem[v.arr]
      /\ \A i \in 1 .. Len(v.frames) :
           v.frames[i].fn = "end" => w.mem[v.frames[i].n.arr] = v.mem[v.frames[i].n.arr]
  BY <1>1, CollectedFacts
<1> HIDE DEF w
<1>3. Used(w) = Used(v)
  BY <1>2 DEF Used
<1>4. ASSUME NEW i \in 1 .. Len(v.frames), v.frames[i].fn = "end" PROVE Points(w, v.frames[i].n)
  <2>1. Points(v, v.frames[i].n) /\ w.mem[v.frames[i].n.arr] = v.mem[v.frames[i].n.arr]
    BY <1>2, <1>4 DEF Held, Loose
  <2>2. Deref(w, v.frames[i].n) = Deref(v, v.frames[i].n)
    BY <2>1 DEF Deref
  <2> QED
    BY <1>2, <1>3, <2>1, <2>2 DEF Points
<1>5. Held(w)
  BY <1>2, <1>3, <1>4 DEF Held, Loose
<1> QED
  BY <1>2, <1>3, <1>5 DEF w

(* The start tag of the current element is ended, before its first child   *)
(* or before its own end, and its Content is begun.                        *)
LEMMA HeldOpened ==
  ASSUME NEW v, Loose(v), v.cur >= 0, Used(v)[v.cur].state = "open"
  PROVE  LET w == Opened(v)
             n == Used(v)[v.cur]
         IN /\ Held(w) /\ w.cur = v.cur /\ w.arr = v.arr /\ w.len = v.len
            /\ w.err = v.err /\ w.doubt = v.doubt
            /\ Used(w)[v.cur] = InState(n, "opened")
            /\ \A s \in Slots : s # v.cur => Used(w)[s] = Used(v)[s]
            /\ n.content > 0 => /\ w.frames = Append(v.frames, ContentFrame(n.content))
                                /\ w.rd = ReadGt(v.rd)
            /\ ~(n.content > 0) => /\ w.frames = v.frames
                                   /\ w.rd = IF n.kids \/ n.full THEN ReadGt(v.rd) ELSE ReadEmptyTagEnd(v.rd)
<1> DEFINE n == Used(v)[v.cur]
           n2 == InState(n, "opened")
           o == Store(v, Current(v), n2)
           w == Opened(v)
<1>1. v \in Machines /\ v.cur \in Slots /\ n \in Node /\ v.rd \in Readers
  BY HeldParts, MachineParts
<1>2. n2 \in Node /\ n2.state = "opened" /\ n2.kids = n.kids /\ n2.full = n.full /\ n2.content = n.content
  <2>1. "opened" \in States
    BY DEF States
  <2> HIDE DEF n
  <2> QED
    BY <1>1, <2>1, InStateFacts, Zenon
<1>3. w = IF n.content > 0 THEN Call(Emit(o, ReadGt(v.rd)), ContentFrame(n.content))
          ELSE IF n.kids \/ n.full THEN Emit(o, ReadGt(v.rd)) ELSE Emit(o, ReadEmptyTagEnd(v.rd))
  <2>1. Deref(v, Current(v)) = n
    BY DEF Deref, Current, Used
  <2>2. w = LET a == Deref(v, Current(v))
                b == Store(v, Current(v), InState(a, "opened"))
            IN IF a.content > 0 THEN Call(Emit(b, ReadGt(v.rd)), ContentFrame(a.content))
               ELSE IF a.kids \/ a.full THEN Emit(b, ReadGt(v.rd)) ELSE Emit(b, ReadEmptyTagEnd(v.rd))
    BY Zenon DEF Opened, InState
  <2> HIDE DEF w, n
  <2> QED
    BY <2>1, <2>2, Zenon
<1> HIDE DEF n2
<1>4. /\ Held(o)
      /\ o.arr = v.arr /\ o.len = v.len /\ o.cur = v.cur
      /\ o.frames = v.frames /\ o.rd = v.rd /\ o.err = v.err /\ o.doubt = v.doubt
      /\ Used(o)[v.cur] = n2
      /\ \A s \in Slots : s # v.cur => Used(o)[s] = Used(v)[s]
  <2>1. n2.state # "ended"
    BY <1>2
  <2> QED
    BY <1>2, <2>1, HeldStore
<1> HIDE DEF o
<1>5. ASSUME NEW rd \in Readers
      PROVE  LET x == Emit(o, rd)
             IN /\ Held(x) /\ x \in Machines
                /\ x.mem = o.mem /\ x.arr = o.arr /\ x.len = o.len /\ x.cur = o.cur
                /\ x.frames = o.frames /\ x.rd = rd /\ x.err = o.err /\ x.doubt = o.doubt
                /\ Used(x) = Used(o)
  <2> DEFINE x == Emit(o, rd)
  <2>1. Held(x)
    BY <1>4, HeldEmit
  <2>2. o \in Machines
    BY <1>4 DEF Held, Loose
  <2>3. /\ x \in Machines
        /\ x.mem = o.mem /\ x.arr = o.arr /\ x.len = o.len /\ x.cur = o.cur
        /\ x.frames = o.frames /\ x.rd = rd /\ x.err = o.err /\ x.doubt = o.doubt
    BY <2>2, EmitFacts, Zenon
  <2> HIDE DEF x
  <2>4. Used(x) = Used(o)
    BY <2>3 DEF Used
  <2> QED
    BY <2>1, <2>3, <2>4 DEF x
<1>6. ReadGt(v.rd) \in Readers /\ ReadEmptyTagEnd(v.rd) \in Readers
  BY <1>1, ReadersRead
<1>7. CASE n.content > 0
  <2> DEFINE x == Emit(o, ReadGt(v.rd))
             f == ContentFrame(n.content)
  <2>1. /\ Held(x) /\ x \in Machines
        /\ x.mem = o.mem /\ x.arr = o.arr /\ x.len = o.len /\ x.cur = o.cur
        /\ x.frames = o.frames /\ x.rd = ReadGt(v.rd) /\ x.err = o.err /\ x.doubt = o.doubt
        /\ Used(x) = Used(o)
    BY <1>5, <1>6, Zenon
  <2>2. w = Call(x, f)
    BY <1>3, <1>7, Zenon
  <2>3. f \in FrameType /\ f.fn # "end"
    <3>1. n.content \in 0 .. MaxContent
      BY <1>1, NodeParts
    <3>2. f \in FrameType /\ f.fn = "content"
      BY <3>1, FramesMade
    <3> QED
      BY <3>2
  <2> HIDE DEF x, w, f
  <2>4. Held(w)
    BY <2>1, <2>2, <2>3, HeldCall
  <2>5. /\ w.mem = x.mem /\ w.arr = x.arr /\ w.len = x.len /\ w.cur = x.cur
        /\ w.frames = Append(x.frames, f) /\ w.rd = x.rd /\ w.err = x.err /\ w.doubt = x.doubt
    BY <2>1, <2>2, <2>3, CallFacts, Zenon
  <2>6. Used(w) = Used(x)
    BY <2>5 DEF Used
  <2> QED
    BY <1>4, <1>7, <2>1, <2>4, <2>5, <2>6 DEF w, f, n2
<1>8. CASE ~(n.content > 0) /\ (n.kids \/ n.full)
  <2> DEFINE x == Emit(o, ReadGt(v.rd))
  <2>1. /\ Held(x) /\ x.arr = o.arr /\ x.len = o.len /\ x.cur = o.cur
        /\ x.frames = o.frames /\ x.rd = ReadGt(v.rd) /\ x.err = o.err /\ x.doubt = o.doubt
        /\ Used(x) = Used(o)
    BY <1>5, <1>6, Zenon
  <2>2. w = x
    BY <1>3, <1>8, Zenon
  <2> HIDE DEF w, x
  <2> QED
    BY <1>4, <1>8, <2>1, <2>2 DEF w, n2
<1>9. CASE ~(n.content > 0) /\ ~(n.kids \/ n.full)
  <2> DEFINE x == Emit(o, ReadEmptyTagEnd(v.rd))
  <2>1. /\ Held(x) /\ x.arr = o.arr /\ x.len = o.len /\ x.cur = o.cur
        /\ x.frames = o.frames /\ x.rd = ReadEmptyTagEnd(v.rd) /\ x.err = o.err /\ x.doubt = o.doubt
        /\ Used(x) = Used(o)
    BY <1>5, <1>6, Zenon
  <2>2. w = x
    BY <1>3, <1>9, Zenon
  <2> HIDE DEF w, x
  <2> QED
    BY <1>4, <1>9, <2>1, <2>2 DEF w, n2
<1> QED
  BY <1>7, <1>8, <1>9

(* A child is about to be written: the current element is open no more.    *)
LEMMA HeldNext ==
  ASSUME NEW v, Held(v), v.cur >= 0
  PROVE  LET w == NextChild(v)
             n == Used(v)[v.cur]
             x == Used(w)[v.cur]
         IN /\ Held(w) /\ w.cur = v.cur /\ w.arr = v.arr /\ w.len = v.len
            /\ w.err = v.err /\ w.doubt = v.doubt
            /\ x \in Node /\ x.state = "opened" /\ x.kids = TRUE /\ x.full = n.full /\ x.content = n.content
            /\ \A s \in Slots : s # v.cur => Used(w)[s] = Used(v)[s]
            /\ n.state = "opened" \/ n.state = "open"
            /\ n.state = "opened" => w.frames = v.frames /\ w.rd = v.rd
            /\ n.state = "open" => /\ w.rd = ReadGt(v.rd)
                                   /\ n.content > 0 => w.frames = Append(v.frames, ContentFrame(n.content))
                                   /\ ~(n.content > 0) => w.frames = v.frames
<1> DEFINE n == Used(v)[v.cur]
           n2 == WithKids(n, TRUE)
           c == Store(v, Current(v), n2)
           w == NextChild(v)
<1>1. v \in Machines /\ v.cur \in Slots /\ n \in Node /\ v.cur \in Int /\ Loose(v)
  BY HeldParts DEF Held
<1>2. n.state = "open" \/ n.state = "opened"
  <2>1. n.state \in States /\ n.state # "ended"
    BY <1>1, NodeParts DEF Loose
  <2> QED
    BY <2>1 DEF States
<1>3. n2 \in Node /\ n2.state = n.state /\ n2.kids = TRUE /\ n2.full = n.full /\ n2.content = n.content
  <2>1. TRUE \in BOOLEAN
    OBVIOUS
  <2> HIDE DEF n
  <2> QED
    BY <1>1, <2>1, WithKidsFacts, Zenon
<1>4. w = IF n.state = "open" THEN Opened(c) ELSE c
  <2>1. Deref(v, Current(v)) = n
    BY DEF Deref, Current, Used
  <2>2. w = LET a == Deref(v, Current(v))
                b == Store(v, Current(v), WithKids(a, TRUE))
            IN IF a.state = "open" THEN Opened(b) ELSE b
    BY <1>1 DEF NextChild, WithKids
  <2> HIDE DEF w, n
  <2> QED
    BY <2>1, <2>2, Zenon
<1> HIDE DEF n2
<1>5. /\ Loose(c) /\ ((n2.kids => n2.state = "opened") => Held(c))
      /\ c.arr = v.arr /\ c.len = v.len /\ c.cur = v.cur
      /\ c.frames = v.frames /\ c.rd = v.rd /\ c.err = v.err /\ c.doubt = v.doubt
      /\ Used(c)[v.cur] = n2
      /\ \A s \in Slots : s # v.cur => Used(c)[s] = Used(v)[s]
  <2>1. n2.state # "ended" /\ (Used(v)[v.cur].kids => n2.kids)
    BY <1>2, <1>3
  <2> QED
    BY <1>1, <1>3, <2>1, HeldStore
<1> HIDE DEF c
<1>6. CASE n.state = "opened"
  <2>1. w = c
    BY <1>4, <1>6
  <2> HIDE DEF w
  <2> QED
    BY <1>2, <1>3, <1>5, <1>6, <2>1 DEF w
<1>7. CASE n.state = "open"
  <2>1. w = Opened(c)
    BY <1>4, <1>7
  <2>2. c.cur >= 0 /\ Used(c)[c.cur] = n2 /\ n2.state = "open"
    BY <1>3, <1>5, <1>7
  <2>3. /\ Held(w) /\ w.cur = c.cur /\ w.arr = c.arr /\ w.len = c.len
        /\ w.err = c.err /\ w.doubt = c.doubt
        /\ Used(w)[c.cur] = InState(n2, "opened")
        /\ \A s \in Slots : s # c.cur => Used(w)[s] = Used(c)[s]
        /\ n2.content > 0 => /\ w.frames = Append(c.frames, ContentFrame(n2.content))
                             /\ w.rd = ReadGt(c.rd)
        /\ ~(n2.content > 0) => /\ w.frames = c.frames
                                /\ w.rd = IF n2.kids \/ n2.full THEN ReadGt(c.rd) ELSE ReadEmptyTagEnd(c.rd)
    <3>1. Used(c)[c.cur].state = "open"
      BY <2>2
    <3> QED
      BY <1>5, <2>1, <2>2, <3>1, HeldOpened
  <2> HIDE DEF w
  <2> DEFINE n3 == InState(n2, "opened")
  <2>4. n3 \in Node /\ n3.state = "opened" /\ n3.kids = n2.kids /\ n3.full = n2.full /\ n3.content = n2.content
    <3>1. "opened" \in States
      BY DEF States
    <3> QED
      BY <1>3, <3>1, InStateFacts, Zenon
  <2>5. Used(w)[v.cur] = n3
    BY <1>5, <2>3
  <2> HIDE DEF n3
  <2> QED
    BY <1>3, <1>5, <1>7, <2>3, <2>4, <2>5 DEF w
<1> QED
  BY <1>2, <1>6, <1>7

(* The current node, which is open, is to be ended.                        *)
LEMMA HeldBeginEnd ==
  ASSUME NEW v, Held(v), v.cur >= 0, Used(v)[v.cur].state = "open"
  PROVE  LET w == BeginEnd(v)
             n == Used(v)[v.cur]
             f == EndFrame(Current(v), "open")
         IN /\ Held(w) /\ w.cur = v.cur /\ w.arr = v.arr /\ w.len = v.len
            /\ w.err = v.err /\ w.doubt = v.doubt
            /\ f \in FrameType /\ f.fn = "end" /\ f.prev = "open" /\ f.n.at = v.cur
            /\ Used(w)[v.cur] = InState(n, "opened")
            /\ \A s \in Slots : s # v.cur => Used(w)[s] = Used(v)[s]
            /\ n.content > 0 => /\ w.frames = Append(Append(v.frames, f), ContentFrame(n.content))
                                /\ w.rd = ReadGt(v.rd)
            /\ ~(n.content > 0) => /\ w.frames = Append(v.frames, f)
                                   /\ w.rd = IF n.kids \/ n.full THEN ReadGt(v.rd) ELSE ReadEmptyTagEnd(v.rd)
<1> DEFINE n == Used(v)[v.cur]
           p == Current(v)
           f == EndFrame(p, "open")
           c == Call(v, f)
           w == BeginEnd(v)
<1>1. v \in Machines /\ v.cur \in Slots /\ v.arr \in Arrays /\ v.arr \in Nat /\ v.cur \in Int
      /\ p.arr = v.arr /\ p.at = v.cur
  BY HeldParts DEF Held
<1>2. p \in Pointer
  BY <1>1 DEF Pointer, Current
<1>3. f \in FrameType /\ f.fn = "end" /\ f.n = p /\ f.prev = "open"
  BY <1>2, FramesMade
<1>4. Deref(v, p) = n
  BY DEF Deref, Current, Used
<1>5. Points(v, p)
  BY <1>1, <1>4 DEF Points
<1>6. w = Opened(c)
  <2>1. w = IF Deref(v, p).state = "open" THEN Opened(c) ELSE FinishEnd(v, p, Deref(v, p).state)
    BY Zenon DEF BeginEnd
  <2> HIDE DEF w, c, p
  <2> QED
    BY <1>4, <2>1
<1> HIDE DEF p, f
<1>7. /\ c \in Machines
      /\ c.mem = v.mem /\ c.arr = v.arr /\ c.len = v.len /\ c.cur = v.cur
      /\ c.frames = Append(v.frames, f) /\ c.rd = v.rd /\ c.err = v.err /\ c.doubt = v.doubt
  BY <1>1, <1>3, CallFacts, Zenon
<1>8. Held(c)
  BY <1>3, <1>5, HeldCall
<1> HIDE DEF c, w
<1>9. Used(c) = Used(v) /\ Loose(c)
  BY <1>7, <1>8 DEF Used, Held
<1>10. c.cur >= 0 /\ Used(c)[c.cur] = n /\ n.state = "open" /\ Used(c)[c.cur].state = "open"
  BY <1>7, <1>9
<1>11. /\ Held(w) /\ w.cur = c.cur /\ w.arr = c.arr /\ w.len = c.len
       /\ w.err = c.err /\ w.doubt = c.doubt
       /\ Used(w)[c.cur] = InState(n, "opened")
       /\ \A s \in Slots : s # c.cur => Used(w)[s] = Used(c)[s]
       /\ n.content > 0 => /\ w.frames = Append(c.frames, ContentFrame(n.content))
                           /\ w.rd = ReadGt(c.rd)
       /\ ~(n.content > 0) => /\ w.frames = c.frames
                              /\ w.rd = IF n.kids \/ n.full THEN ReadGt(c.rd) ELSE ReadEmptyTagEnd(c.rd)
  <2> HIDE DEF n
  <2> QED
    BY <1>6, <1>9, <1>10, HeldOpened
<1> QED
  BY <1>1, <1>3, <1>7, <1>9, <1>11 DEF w, f, p

-----------------------------------------------------------------------------
(* The calls keep the invariant. *)

(* The reader has open what is on the stack.                               *)
Quiet(v) == v.err = "nil" /\ ~v.doubt => Reads(v.rd, Used(v), v.cur)

(* So it is unless an empty element is being ended.                        *)
LEMMA QuietAgrees ==
  ASSUME NEW v, ~Ended(v)
  PROVE  Quiet(v) <=> Agrees(v)
BY DEF Quiet, Agrees

(* The innermost call is not an end.                                       *)
LEMMA NotEnded ==
  ASSUME NEW v, v.frames = <<>> \/ v.frames[Len(v.frames)].fn # "end"
  PROVE  ~Ended(v)
BY DEF Ended

(* A call that waits for Next.                                             *)
LEMMA SoundNext ==
  ASSUME NEW v, Held(v), Quiet(v), v.frames # <<>>, Chain(v.frames, v.cur, v.len),
         v.frames[Len(v.frames)].fn = "push" \/ v.frames[Len(v.frames)].fn = "text"
  PROVE  Sound(NextChild(v))
<1> DEFINE w == NextChild(v)
           n == Used(v)[v.cur]
           x == Used(w)[v.cur]
           fr == v.frames
           f == ContentFrame(n.content)
<1>1. /\ v \in Machines /\ v.cur \in Int /\ v.cur >= -1 /\ v.len \in Int /\ v.rd \in Readers /\ fr \in Seq(FrameType)
      /\ Len(fr) \in Nat
      /\ \A s \in 0 .. v.cur : s \in Slots
      /\ v.cur >= 0 => n \in Node
  <2>1. Loose(v)
    BY DEF Held
  <2>2. v \in Machines
    BY <2>1 DEF Loose
  <2> QED
    BY <2>1, <2>2, HeldParts, MachineParts
<1>2. CASE v.cur < 0
  <2>1. w = v
    BY <1>2 DEF NextChild
  <2> HIDE DEF w
  <2>2. Topped(v)
    BY <1>2 DEF Topped
  <2>3. ~Ended(v)
    BY NotEnded
  <2> QED
    BY <2>1, <2>2, <2>3, QuietAgrees DEF Sound, w
<1>3. CASE v.cur >= 0
  <2>1. /\ Held(w) /\ w.cur = v.cur /\ w.arr = v.arr /\ w.len = v.len
        /\ w.err = v.err /\ w.doubt = v.doubt
        /\ x \in Node /\ x.state = "opened" /\ x.kids = TRUE /\ x.full = n.full /\ x.content = n.content
        /\ \A s \in Slots : s # v.cur => Used(w)[s] = Used(v)[s]
        /\ n.state = "opened" \/ n.state = "open"
        /\ n.state = "opened" => w.frames = v.frames /\ w.rd = v.rd
        /\ n.state = "open" => /\ w.rd = ReadGt(v.rd)
                               /\ n.content > 0 => w.frames = Append(v.frames, f)
                               /\ ~(n.content > 0) => w.frames = v.frames
    BY <1>3, HeldNext
  <2> HIDE DEF w
  <2>2. Used(w)[w.cur].state = "opened" /\ Used(w)[w.cur].kids
    BY <2>1
  <2>3. n.content \in 0 .. MaxContent /\ f \in FrameType /\ f.fn = "content" /\ f.left = n.content
    <3>1. n.content \in 0 .. MaxContent
      BY <1>1, <1>3, NodeParts
    <3> QED
      BY <3>1, FramesMade
  <2> HIDE DEF f
  <2>4. \/ w.frames = fr
        \/ n.state = "open" /\ n.content > 0 /\ w.frames = Append(fr, f)
    BY <2>1
  <2>5. Chain(w.frames, w.cur, w.len)
    <3>1. CASE w.frames = fr
      BY <2>1, <3>1
    <3>2. CASE w.frames = Append(fr, f)
      <4>1. Chain(Append(fr, f), v.cur, v.len)
        BY <1>1, <1>3, <2>3, ChainContent
      <4> QED
        BY <2>1, <3>2, <4>1
    <3> QED
      BY <2>4, <3>1, <3>2
  <2>6. Topped(w) /\ ~Ended(w)
    <3>1. CASE w.frames = fr
      <4>1. Topped(w)
        BY <2>2, <3>1 DEF Topped
      <4>2. ~Ended(w)
        BY <3>1, NotEnded
      <4> QED
        BY <4>1, <4>2
    <3>2. CASE w.frames = Append(fr, f)
      <4>1. Len(w.frames) = Len(fr) + 1 /\ w.frames[Len(w.frames)].fn = "content"
        BY <1>1, <2>3, <3>2, Framed
      <4>2. Topped(w)
        BY <1>3, <2>1, <2>2, <4>1 DEF Topped
      <4>3. ~Ended(w)
        BY <4>1, NotEnded
      <4> QED
        BY <4>2, <4>3
    <3> QED
      BY <2>4, <3>1, <3>2
  <2>7. Quiet(w)
    <3> SUFFICES ASSUME v.err = "nil", ~v.doubt PROVE Reads(w.rd, Used(w), v.cur)
      BY <2>1 DEF Quiet
    <3>1. Reads(v.rd, Used(v), v.cur)
      BY DEF Quiet
    <3>2. \A s \in 0 .. v.cur - 1 : Used(w)[s].state = "open" <=> Used(v)[s].state = "open"
      <4> TAKE s \in 0 .. v.cur - 1
      <4>1. s \in Slots /\ s # v.cur
        BY <1>1
      <4> QED
        BY <2>1, <4>1
    <3>3. CASE n.state = "opened"
      <4>1. \A s \in 0 .. v.cur : Used(w)[s].state = "open" <=> Used(v)[s].state = "open"
        <5> TAKE s \in 0 .. v.cur
        <5>1. CASE s = v.cur
          BY <2>1, <3>3, <5>1
        <5>2. CASE s # v.cur
          BY <1>1, <3>2, <5>2
        <5> QED
          BY <5>1, <5>2
      <4>2. w.rd = v.rd
        BY <2>1, <3>3
      <4> QED
        BY <1>1, <3>1, <4>1, <4>2, SameRead
    <3>4. CASE n.state = "open"
      <4>1. w.rd = ReadGt(v.rd) /\ Used(v)[v.cur].state = "open" /\ Used(w)[v.cur].state # "open"
        BY <2>1, <3>4
      <4> QED
        BY <1>1, <1>3, <3>1, <3>2, <4>1, GtRead
    <3> QED
      BY <2>1, <3>3, <3>4
  <2> QED
    BY <2>1, <2>5, <2>6, <2>7, QuietAgrees DEF Sound, w
<1> QED
  BY <1>1, <1>2, <1>3

(* The current element, which is open, is to be ended.                     *)
LEMMA SoundBeginEnd ==
  ASSUME NEW v, Held(v), Quiet(v), v.cur >= 0, Used(v)[v.cur].state = "open",
         Chain(Append(v.frames, EndFrame(Current(v), "open")), v.cur, v.len)
  PROVE  Sound(BeginEnd(v))
<1> DEFINE w == BeginEnd(v)
           n == Used(v)[v.cur]
           fr == v.frames
           f == EndFrame(Current(v), "open")
           g == Append(fr, f)
           k == ContentFrame(n.content)
<1>1. /\ v \in Machines /\ v.cur \in Int /\ v.len \in Int /\ v.rd \in Readers /\ fr \in Seq(FrameType)
      /\ Len(fr) \in Nat
      /\ \A s \in 0 .. v.cur : s \in Slots
      /\ n \in Node
  <2>1. Loose(v)
    BY DEF Held
  <2>2. v \in Machines
    BY <2>1 DEF Loose
  <2> QED
    BY <2>1, <2>2, HeldParts, MachineParts
<1>2. /\ Held(w) /\ w.cur = v.cur /\ w.arr = v.arr /\ w.len = v.len
      /\ w.err = v.err /\ w.doubt = v.doubt
      /\ f \in FrameType /\ f.fn = "end" /\ f.prev = "open" /\ f.n.at = v.cur
      /\ Used(w)[v.cur] = InState(n, "opened")
      /\ \A s \in Slots : s # v.cur => Used(w)[s] = Used(v)[s]
      /\ n.content > 0 => w.frames = Append(g, k) /\ w.rd = ReadGt(v.rd)
      /\ ~(n.content > 0) => /\ w.frames = g
                             /\ w.rd = IF n.kids \/ n.full THEN ReadGt(v.rd) ELSE ReadEmptyTagEnd(v.rd)
  BY HeldBeginEnd
<1> HIDE DEF w, f
<1> DEFINE x == Used(w)[w.cur]
<1>3. /\ x.state = "opened" /\ x.kids = n.kids /\ x.full = n.full /\ x.content = n.content
      /\ Used(w)[v.cur].state # "open"
  <2> DEFINE n3 == InState(n, "opened")
  <2>1. n3.state = "opened" /\ n3.kids = n.kids /\ n3.full = n.full /\ n3.content = n.content
    <3>1. "opened" \in States
      BY DEF States
    <3> HIDE DEF n
    <3> QED
      BY <1>1, <3>1, InStateFacts, Zenon
  <2>2. Used(w)[v.cur] = n3
    BY <1>2
  <2> HIDE DEF n3
  <2> QED
    BY <1>2, <2>1, <2>2
<1>4. ~n.kids /\ n.state = "open" /\ n.content \in 0 .. MaxContent /\ n.content \in Nat
  <2>1. ~n.kids
    BY DEF Held
  <2> QED
    BY <1>1, <2>1, NodeParts
<1>5. /\ g \in Seq(FrameType) /\ Len(g) = Len(fr) + 1 /\ g # <<>> /\ g[Len(g)].fn = "end"
  <2>1. g \in Seq(FrameType) /\ Len(g) = Len(fr) + 1 /\ g[Len(fr) + 1] = f
    BY <1>1, <1>2, Framed
  <2> HIDE DEF g
  <2>2. Len(g) # 0
    BY <1>1, <2>1
  <2>3. g # <<>>
    BY <2>2, EmptySeq
  <2>4. g[Len(g)] = f
    BY <2>1
  <2> QED
    BY <1>2, <2>1, <2>3, <2>4
<1>6. Chain(g, v.cur, v.len)
  BY DEF f
<1> HIDE DEF g
<1>7. \A s \in 0 .. v.cur - 1 : Used(w)[s].state = "open" <=> Used(v)[s].state = "open"
  <2> TAKE s \in 0 .. v.cur - 1
  <2>1. s \in Slots /\ s # v.cur
    BY <1>1
  <2> QED
    BY <1>2, <2>1
<1>8. ASSUME v.err = "nil", ~v.doubt, w.rd = ReadGt(v.rd) PROVE Reads(w.rd, Used(w), w.cur)
  <2>1. Reads(v.rd, Used(v), v.cur)
    BY <1>8 DEF Quiet
  <2> QED
    BY <1>1, <1>2, <1>3, <1>7, <1>8, <2>1, GtRead
<1>9. CASE n.content > 0
  <2>1. k \in FrameType /\ k.fn = "content" /\ k.left = n.content
    BY <1>4, FramesMade
  <2> HIDE DEF k
  <2>2. w.frames = Append(g, k) /\ w.rd = ReadGt(v.rd)
    BY <1>2, <1>9
  <2>3. Chain(w.frames, w.cur, w.len)
    <3>1. Chain(Append(g, k), v.cur, v.len)
      BY <1>1, <1>5, <1>6, <2>1, ChainContent
    <3> QED
      BY <1>2, <2>2, <3>1
  <2>4. Len(w.frames) = Len(g) + 1 /\ w.frames[Len(w.frames)] = k /\ w.frames[Len(w.frames) - 1].fn = "end"
    <3>1. /\ Len(Append(g, k)) = Len(g) + 1 /\ Append(g, k)[Len(g) + 1] = k
          /\ \A i \in 1 .. Len(g) : Append(g, k)[i] = g[i]
      BY <1>5, <2>1, Framed
    <3>2. Len(g) \in 1 .. Len(g) /\ (Len(g) + 1) - 1 = Len(g)
      BY <1>1, <1>5
    <3> QED
      BY <1>5, <2>2, <3>1, <3>2
  <2>5. Topped(w)
    <3>1. w.cur >= 0 /\ x.state = "opened" /\ w.frames[Len(w.frames)].left > 0
      BY <1>2, <1>3, <1>9, <2>1, <2>4
    <3> QED
      BY <2>1, <2>4, <3>1 DEF Topped
  <2>6. ~Ended(w)
    <3>1. w.frames[Len(w.frames)].fn # "end"
      BY <2>1, <2>4
    <3> QED
      BY <3>1, NotEnded
  <2>7. Quiet(w)
    BY <1>2, <1>8, <2>2 DEF Quiet
  <2> QED
    BY <1>2, <2>3, <2>5, <2>6, <2>7, QuietAgrees DEF Sound, w
<1>10. CASE ~(n.content > 0)
  <2>1. w.frames = g /\ w.rd = IF n.full THEN ReadGt(v.rd) ELSE ReadEmptyTagEnd(v.rd)
    BY <1>2, <1>4, <1>10
  <2>2. Chain(w.frames, w.cur, w.len)
    BY <1>2, <1>6, <2>1
  <2>3. Topped(w)
    <3>1. w.cur >= 0 /\ x.state = "opened" /\ ~(x.content > 0)
      BY <1>2, <1>3, <1>10
    <3> QED
      BY <1>5, <2>1, <3>1 DEF Topped
  <2>4. Ended(w) <=> ~n.full
    <3>1. ~x.kids /\ x.full = n.full
      BY <1>3, <1>4
    <3> QED
      BY <1>5, <2>1, <3>1 DEF Ended
  <2>5. Agrees(w)
    <3>1. CASE n.full
      <4>1. w.rd = ReadGt(v.rd) /\ ~Ended(w)
        BY <2>1, <2>4, <3>1
      <4> QED
        BY <1>2, <1>8, <4>1 DEF Agrees
    <3>2. CASE ~n.full
      <4>1. w.rd = ReadEmptyTagEnd(v.rd) /\ Ended(w)
        BY <2>1, <2>4, <3>2
      <4> SUFFICES ASSUME w.err = "nil", ~w.doubt PROVE Reads(w.rd, Used(w), w.cur - 1)
        BY <4>1 DEF Agrees
      <4>2. Reads(v.rd, Used(v), v.cur)
        BY <1>2 DEF Quiet
      <4>3. Reads(ReadEmptyTagEnd(v.rd), Used(w), v.cur - 1)
        BY <1>1, <1>7, <4>2, EmptyTagRead
      <4> QED
        BY <1>2, <4>1, <4>3
    <3> QED
      BY <3>1, <3>2
  <2> QED
    BY <1>2, <2>2, <2>3, <2>5 DEF Sound, w
<1> QED
  BY <1>9, <1>10

(* What a machine in a state like this consists of.                        *)
LEMMA SoundParts ==
  ASSUME NEW v, Sound(v)
  PROVE  /\ Held(v) /\ Loose(v) /\ Chain(v.frames, v.cur, v.len) /\ Topped(v) /\ Agrees(v)
         /\ v \in Machines /\ v.cur \in Int /\ v.cur >= -1 /\ v.cur \in -1 .. MaxDepth - 1
         /\ v.len \in Int /\ v.rd \in Readers /\ v.err \in Errors /\ v.doubt \in BOOLEAN
         /\ v.frames \in Seq(FrameType) /\ Len(v.frames) \in Nat
         /\ \A s \in 0 .. v.cur : s \in Slots
         /\ v.cur >= 0 => Used(v)[v.cur] \in Node
<1>1. Held(v) /\ Loose(v) /\ Chain(v.frames, v.cur, v.len) /\ Topped(v) /\ Agrees(v)
  BY DEF Sound, Held
<1>2. v \in Machines
  BY <1>1, HeldParts
<1>3. /\ v.cur \in Int /\ v.cur \in -1 .. MaxDepth - 1 /\ MaxDepth \in Nat
      /\ \A s \in 0 .. v.cur : s \in Slots
      /\ v.cur >= 0 => Used(v)[v.cur] \in Node
  BY <1>1, HeldParts
<1>4. /\ v.len \in Int /\ v.rd \in Readers /\ v.err \in Errors /\ v.doubt \in BOOLEAN
      /\ v.frames \in Seq(FrameType) /\ Len(v.frames) \in Nat
  BY <1>2, MachineParts
<1>5. v.cur >= -1
  BY <1>3
<1> QED
  BY <1>1, <1>2, <1>3, <1>4, <1>5

(* The chain of a call from outside.                                       *)
LEMMA ChainStart ==
  ASSUME NEW f \in FrameType, NEW cur \in Int, NEW len \in Int
  PROVE  LET one == Append(<<>>, f) IN
         /\ one \in Seq(FrameType) /\ Len(one) = 1 /\ one # <<>> /\ one[Len(one)] = f
         /\ f.fn = "text" => Chain(one, cur, len)
         /\ f.fn = "push" /\ f.node.state = "open" /\ ~f.node.kids /\ cur + 1 < len => Chain(one, cur, len)
         /\ f.fn = "end" /\ f.prev = "open" /\ f.n.at = cur => Chain(one, cur, len)
<1> DEFINE one == Append(<<>>, f)
<1>1. one \in Seq(FrameType) /\ Len(one) = 1 /\ one[1] = f /\ one # <<>>
  OBVIOUS
<1> HIDE DEF one
<1>2. f.fn # "content" => Turn(one) = 2
  BY <1>1 DEF Turn
<1>3. f.fn # "content" => Base(one, cur, 1) = cur + cur
  BY <1>2 DEF Base
<1>4. 1 .. Len(one) = {1}
  BY <1>1
<1>5. f.fn = "text" => Link(one, cur, len, 1)
  BY <1>1 DEF Link
<1>6. ASSUME f.fn = "push", f.node.state = "open", ~f.node.kids, cur + 1 < len PROVE Link(one, cur, len, 1)
  BY <1>1, <1>3, <1>6 DEF Link
<1>7. ASSUME f.fn = "end", f.prev = "open", f.n.at = cur PROVE Link(one, cur, len, 1)
  BY <1>1, <1>3, <1>7 DEF Link
<1> QED
  BY <1>1, <1>4, <1>5, <1>6, <1>7 DEF Chain, one

(* The chain of WriteElem's call of Start.                                 *)
LEMMA ChainWriteElem ==
  ASSUME NEW e \in FrameType, e.fn = "write", NEW f \in FrameType, f.fn = "push", f.node.state = "open", ~f.node.kids,
         NEW cur \in Int, NEW len \in Int, cur + 1 < len
  PROVE  LET two == Append(Append(<<>>, e), f) IN
         /\ two \in Seq(FrameType) /\ Len(two) = 2 /\ two # <<>> /\ two[Len(two)] = f
         /\ Chain(two, cur, len)
<1> DEFINE two == Append(Append(<<>>, e), f)
<1>1. two \in Seq(FrameType) /\ Len(two) = 2 /\ two[1] = e /\ two[2] = f /\ two # <<>>
  OBVIOUS
<1> HIDE DEF two
<1>2. Turn(two) = 3
  BY <1>1 DEF Turn
<1>3. Base(two, cur, 2) = cur + cur
  BY <1>2 DEF Base
<1>4. 1 .. Len(two) = {1, 2}
  BY <1>1
<1>5. Link(two, cur, len, 1)
  BY <1>1 DEF Link
<1>6. Link(two, cur, len, 2)
  BY <1>1, <1>3 DEF Link
<1> QED
  BY <1>1, <1>4, <1>5, <1>6 DEF Chain, two

(* Between calls the reader has open what is on the stack.                 *)
LEMMA ReadyQuiet ==
  ASSUME NEW v, Sound(v), v.frames = <<>>
  PROVE  Quiet(v)
BY NotEnded, QuietAgrees DEF Sound

(* Start.                                                                  *)
LEMMA SoundStart ==
  ASSUME NEW v, Sound(v), v.frames = <<>>, v.cur + 1 < MaxDepth, NEW node \in Node, node.state = "open", ~node.kids
  PROVE  Sound(NextChild(Call(Grow(v), PushFrame(node))))
<1> DEFINE u == Grow(v)
           f == PushFrame(node)
           w == Call(u, f)
<1>1. /\ Held(u) /\ u.cur = v.cur /\ u.cur + 1 < u.len
      /\ u.frames = v.frames /\ u.rd = v.rd /\ u.err = v.err /\ u.doubt = v.doubt
      /\ Used(u) = Used(v)
  BY SoundParts, HeldGrow
<1>2. Quiet(v)
  BY ReadyQuiet
<1>3. f \in FrameType /\ f.fn = "push" /\ f.node = node
  BY FramesMade
<1> HIDE DEF u, f
<1>4. u \in Machines /\ u.len \in Int /\ u.cur \in Int
  <2>1. Loose(u)
    BY <1>1 DEF Held
  <2> QED
    BY <2>1, HeldParts
<1>5. /\ w.mem = u.mem /\ w.arr = u.arr /\ w.len = u.len /\ w.cur = u.cur
      /\ w.frames = Append(u.frames, f) /\ w.rd = u.rd /\ w.err = u.err /\ w.doubt = u.doubt
  BY <1>3, <1>4, CallFacts, Zenon
<1>6. Held(w)
  BY <1>1, <1>3, HeldCall
<1> HIDE DEF w
<1>7. w.frames = Append(<<>>, f)
  BY <1>1, <1>5
<1> DEFINE g == Append(<<>>, f)
<1>8. g # <<>> /\ g[Len(g)] = f /\ Chain(g, u.cur, u.len)
  BY <1>1, <1>3, <1>4, ChainStart
<1> HIDE DEF g
<1>9. w.frames # <<>> /\ w.frames[Len(w.frames)].fn = "push" /\ Chain(w.frames, w.cur, w.len)
  BY <1>3, <1>5, <1>7, <1>8 DEF g
<1>10. Quiet(w)
  BY <1>1, <1>2, <1>5 DEF Quiet, Used
<1> QED
  BY <1>6, <1>9, <1>10, SoundNext DEF w, u, f

(* WriteElem.                                                              *)
LEMMA SoundWriteElem ==
  ASSUME NEW v, Sound(v), v.frames = <<>>, v.cur + 1 < MaxDepth, NEW node \in Node, node.state = "open", ~node.kids
  PROVE  Sound(NextChild(Call(Call(Grow(v), WriteFrame), PushFrame(node))))
<1> DEFINE u == Grow(v)
           e == WriteFrame
           f == PushFrame(node)
           c == Call(u, e)
           w == Call(c, f)
<1>1. /\ Held(u) /\ u.cur = v.cur /\ u.cur + 1 < u.len
      /\ u.frames = v.frames /\ u.rd = v.rd /\ u.err = v.err /\ u.doubt = v.doubt
      /\ Used(u) = Used(v)
  BY SoundParts, HeldGrow
<1>2. Quiet(v)
  BY ReadyQuiet
<1>3. f \in FrameType /\ f.fn = "push" /\ f.node = node /\ e \in FrameType /\ e.fn = "write"
  BY FramesMade
<1> HIDE DEF u, f, e
<1>4. u \in Machines /\ u.len \in Int /\ u.cur \in Int
  <2>1. Loose(u)
    BY <1>1 DEF Held
  <2> QED
    BY <2>1, HeldParts
<1>5. /\ c \in Machines /\ c.mem = u.mem /\ c.arr = u.arr /\ c.len = u.len /\ c.cur = u.cur
      /\ c.frames = Append(u.frames, e) /\ c.rd = u.rd /\ c.err = u.err /\ c.doubt = u.doubt
  BY <1>3, <1>4, CallFacts, Zenon
<1>6. Held(c)
  BY <1>1, <1>3, HeldCall
<1> HIDE DEF c
<1>7. /\ w.mem = c.mem /\ w.arr = c.arr /\ w.len = c.len /\ w.cur = c.cur
      /\ w.frames = Append(c.frames, f) /\ w.rd = c.rd /\ w.err = c.err /\ w.doubt = c.doubt
  BY <1>3, <1>5, CallFacts, Zenon
<1>8. Held(w)
  BY <1>3, <1>6, HeldCall
<1> HIDE DEF w
<1>9. w.frames = Append(Append(<<>>, e), f)
  BY <1>1, <1>5, <1>7
<1> DEFINE g == Append(Append(<<>>, e), f)
<1>10. g # <<>> /\ g[Len(g)] = f /\ Chain(g, u.cur, u.len)
  BY <1>1, <1>3, <1>4, ChainWriteElem
<1> HIDE DEF g
<1>11. w.frames # <<>> /\ w.frames[Len(w.frames)].fn = "push" /\ Chain(w.frames, w.cur, w.len)
  BY <1>3, <1>5, <1>7, <1>9, <1>10 DEF g
<1>12. Quiet(w)
  BY <1>1, <1>2, <1>5, <1>7 DEF Quiet, Used
<1> QED
  BY <1>8, <1>11, <1>12, SoundNext DEF w, c, u, e, f

(* WriteText.                                                              *)
LEMMA SoundWriteText ==
  ASSUME NEW v, Sound(v), v.frames = <<>>
  PROVE  Sound(NextChild(Call(v, TextFrame)))
<1> DEFINE f == TextFrame
           w == Call(v, f)
<1>1. Held(v) /\ v \in Machines /\ v.len \in Int /\ v.cur \in Int
  BY SoundParts
<1>2. Quiet(v)
  BY ReadyQuiet
<1>3. f \in FrameType /\ f.fn = "text"
  BY FramesMade
<1> HIDE DEF f
<1>4. /\ w.mem = v.mem /\ w.arr = v.arr /\ w.len = v.len /\ w.cur = v.cur
      /\ w.frames = Append(v.frames, f) /\ w.rd = v.rd /\ w.err = v.err /\ w.doubt = v.doubt
  BY <1>1, <1>3, CallFacts, Zenon
<1>5. Held(w)
  BY <1>1, <1>3, HeldCall
<1> HIDE DEF w
<1>6. w.frames = Append(<<>>, f)
  BY <1>4
<1> DEFINE g == Append(<<>>, f)
<1>7. g # <<>> /\ g[Len(g)] = f /\ Chain(g, v.cur, v.len)
  BY <1>1, <1>3, ChainStart
<1> HIDE DEF g
<1>8. w.frames # <<>> /\ w.frames[Len(w.frames)].fn = "text" /\ Chain(w.frames, w.cur, w.len)
  BY <1>3, <1>4, <1>6, <1>7 DEF g
<1>9. Quiet(w)
  BY <1>2, <1>4 DEF Quiet, Used
<1> QED
  BY <1>5, <1>8, <1>9, SoundNext DEF w, f

(* End.                                                                    *)
LEMMA SoundEndElem ==
  ASSUME NEW v, Sound(v), v.frames = <<>>, v.cur >= 0
  PROVE  Sound(BeginEnd(v))
<1> DEFINE n == Used(v)[v.cur]
           p == Current(v)
<1>1. /\ Held(v) /\ Loose(v) /\ v \in Machines /\ v.len \in Int /\ v.cur \in Int /\ v.rd \in Readers
      /\ v.cur \in Slots /\ n \in Node /\ v.arr \in Arrays /\ v.arr \in Nat /\ p.arr = v.arr /\ p.at = v.cur
  BY SoundParts, HeldParts
<1>2. Quiet(v)
  BY ReadyQuiet
<1>3. Deref(v, p) = n
  BY DEF Deref, Current, Used
<1>4. n.state = "open" \/ n.state = "opened"
  <2>1. n.state # "ended"
    BY <1>1 DEF Loose
  <2> HIDE DEF n
  <2> QED
    BY <1>1, <2>1, NodeParts DEF States
<1>5. CASE n.state = "open"
  <2>1. p \in Pointer
    BY <1>1 DEF Pointer, Current
  <2> DEFINE f == EndFrame(p, "open")
  <2>2. f \in FrameType /\ f.fn = "end" /\ f.prev = "open" /\ f.n = p
    BY <2>1, FramesMade
  <2> HIDE DEF f, p
  <2>3. Chain(Append(<<>>, f), v.cur, v.len)
    BY <1>1, <2>2, ChainStart
  <2> QED
    BY <1>1, <1>2, <1>5, <2>3, SoundBeginEnd DEF f, p
<1>6. CASE n.state = "opened"
  <2> DEFINE w == FinishEnd(v, p, n.state)
  <2>1. BeginEnd(v) = w
    <3>1. BeginEnd(v) = IF Deref(v, p).state = "open" THEN Opened(Call(v, EndFrame(p, "open")))
                        ELSE FinishEnd(v, p, Deref(v, p).state)
      BY Zenon DEF BeginEnd
    <3> HIDE DEF p, n
    <3> QED
      BY <1>3, <1>6, <3>1
  <2> HIDE DEF p
  <2>2. /\ Held(w) /\ w.cur = v.cur - 1 /\ w.arr = v.arr /\ w.len = v.len
        /\ w.frames = v.frames /\ w.err = v.err
        /\ w.doubt = (v.doubt \/ Deref(v, p).kids # Used(v)[v.cur].kids)
        /\ w.rd = IF n.state # "open" \/ Deref(v, p).full \/ Deref(v, p).kids
                  THEN ReadClose(v.rd, "elem", "a") ELSE v.rd
        /\ \A s \in 0 .. v.cur - 1 : Used(w)[s] = Used(v)[s]
    BY <1>1, HeldFinish
  <2> HIDE DEF w
  <2>3. Quiet(w)
    <3> SUFFICES ASSUME w.err = "nil", ~w.doubt PROVE Reads(w.rd, Used(w), w.cur)
      BY DEF Quiet
    <3>1. Reads(v.rd, Used(v), v.cur)
      BY <1>2, <2>2 DEF Quiet
    <3>2. w.rd = ReadClose(v.rd, "elem", "a") /\ Used(v)[v.cur].state # "open"
      BY <1>6, <2>2
    <3>3. \A s \in 0 .. v.cur - 1 : Used(w)[s].state = "open" <=> Used(v)[s].state = "open"
      BY <2>2
    <3>4. Reads(ReadClose(v.rd, "elem", "a"), Used(w), v.cur - 1)
      BY <1>1, <3>1, <3>2, <3>3, CloseRead
    <3> QED
      BY <2>2, <3>2, <3>4
  <2>4. Chain(w.frames, w.cur, w.len) /\ Topped(w) /\ ~Ended(w)
    BY <2>2, NotEnded DEF Chain, Topped
  <2> QED
    BY <2>1, <2>2, <2>3, <2>4, QuietAgrees DEF Sound
<1> QED
  BY <1>4, <1>5, <1>6

(* The innermost call returns.                                             *)
LEMMA SoundReturns ==
  ASSUME NEW v, Sound(v), v.frames # <<>>
  PROVE  LET u == Return(v) IN
         /\ Held(u) /\ Loose(u) /\ u \in Machines
         /\ u.mem = v.mem /\ u.arr = v.arr /\ u.len = v.len /\ u.cur = v.cur
         /\ u.frames = Front(v.frames) /\ u.rd = v.rd /\ u.err = v.err /\ u.doubt = v.doubt
         /\ Used(u) = Used(v) /\ Last(v.frames) = v.frames[Len(v.frames)]
         /\ Front(v.frames) \in Seq(FrameType) /\ v.frames[Len(v.frames)] \in FrameType
         /\ Len(v.frames) > 0 /\ Len(Front(v.frames)) = Len(v.frames) - 1
         /\ \A i \in 1 .. Len(v.frames) - 1 : Front(v.frames)[i] = v.frames[i]
<1> DEFINE u == Return(v)
           fr == v.frames
<1>1. Held(v) /\ v \in Machines /\ fr \in Seq(FrameType) /\ Len(fr) \in Nat
  BY SoundParts
<1>2. Held(u)
  BY <1>1, HeldReturn
<1>3. /\ u \in Machines
      /\ u.mem = v.mem /\ u.arr = v.arr /\ u.len = v.len /\ u.cur = v.cur
      /\ u.frames = Front(v.frames) /\ u.rd = v.rd /\ u.err = v.err /\ u.doubt = v.doubt
  BY <1>1, ReturnFacts, Zenon
<1>4. /\ Len(fr) > 0 /\ fr[Len(fr)] \in FrameType
      /\ Front(fr) \in Seq(FrameType) /\ Len(Front(fr)) = Len(fr) - 1
      /\ \A i \in 1 .. Len(fr) - 1 : Front(fr)[i] = fr[i]
  <2> DEFINE f == TextFrame
  <2>1. f \in FrameType
    BY FramesMade
  <2> HIDE DEF f
  <2> QED
    BY <1>1, <2>1, Framed
<1>5. Last(fr) = fr[Len(fr)]
  BY DEF Last
<1> HIDE DEF u
<1>6. Used(u) = Used(v) /\ Loose(u)
  BY <1>2, <1>3 DEF Used, Held
<1> QED
  BY <1>2, <1>3, <1>4, <1>5, <1>6 DEF u

(* Unless an end is innermost, the reader has open what is on the stack.   *)
LEMMA SoundQuiet ==
  ASSUME NEW v, Sound(v), v.frames[Len(v.frames)].fn # "end"
  PROVE  Quiet(v)
BY NotEnded, QuietAgrees DEF Sound

(* The node is pushed.                                                     *)
LEMMA SoundPush ==
  ASSUME NEW v, Sound(v), v.frames # <<>>, Last(v.frames).fn = "push", v.cur + 1 < MaxDepth
  PROVE  Sound(Push(Return(v), Last(v.frames).node))
<1> DEFINE u == Return(v)
           fr == v.frames
           f == fr[Len(fr)]
           h == Front(fr)
           w == Push(u, f.node)
<1>1. /\ Held(u) /\ Loose(u) /\ u \in Machines
      /\ u.mem = v.mem /\ u.arr = v.arr /\ u.len = v.len /\ u.cur = v.cur
      /\ u.frames = h /\ u.rd = v.rd /\ u.err = v.err /\ u.doubt = v.doubt
      /\ Used(u) = Used(v) /\ Last(fr) = f /\ f.fn = "push"
      /\ h \in Seq(FrameType) /\ f \in FrameType
  BY SoundReturns
<1>2. /\ Chain(fr, v.cur, v.len) /\ Topped(v) /\ fr \in Seq(FrameType) /\ v.cur \in Int /\ v.cur >= -1
      /\ v.len \in Int /\ v.rd \in Readers /\ \A s \in 0 .. v.cur : s \in Slots
  BY SoundParts
<1>3. Quiet(v)
  BY <1>1, SoundQuiet
<1> HIDE DEF u, h
<1>4. /\ \A c \in Int : Chain(h, c, v.len)
      /\ f.node.state = "open" /\ ~f.node.kids /\ v.cur + 1 < v.len
      /\ h = <<>> \/ (Len(h) = 1 /\ h[1].fn = "write")
  BY <1>1, <1>2, ChainPush DEF h
<1>5. f.node \in Node
  BY <1>1 DEF FrameType
<1>6. v.cur >= 0 => Used(v)[v.cur].kids /\ Used(v)[v.cur].state = "opened"
  BY <1>1, <1>2 DEF Topped
<1> DEFINE node == f.node
<1>7. /\ Held(w) /\ w.cur = u.cur + 1 /\ w.arr = u.arr /\ w.len = u.len
      /\ w.frames = u.frames /\ w.rd = ReadOpen(u.rd, "elem", "a")
      /\ w.err = u.err /\ w.doubt = u.doubt
      /\ Used(w)[w.cur] = node
      /\ \A s \in 0 .. u.cur : Used(w)[s] = Used(u)[s]
  <2>1. node.state = "open" /\ ~node.kids /\ node \in Node
    BY <1>4, <1>5
  <2> HIDE DEF node
  <2>2. u.cur + 1 < u.len /\ u.cur + 1 < MaxDepth /\ (u.cur >= 0 => Used(u)[u.cur].kids /\ Used(u)[u.cur].state = "opened")
    BY <1>1, <1>4, <1>6
  <2>3. w = Push(u, node)
    BY DEF node
  <2> HIDE DEF w
  <2> QED
    BY <1>1, <2>1, <2>2, <2>3, HeldPush
<1> HIDE DEF w
<1>8. w.frames = h /\ w.cur = v.cur + 1 /\ w.cur \in Int /\ w.len = v.len /\ Used(w)[w.cur].state = "open"
  BY <1>1, <1>2, <1>4, <1>7
<1>9. Chain(w.frames, w.cur, w.len)
  BY <1>4, <1>8
<1>10. Topped(w) /\ ~Ended(w)
  <2>1. CASE h = <<>>
    BY <1>8, <2>1, NotEnded DEF Topped
  <2>2. CASE Len(h) = 1 /\ h[1].fn = "write"
    <3>1. w.frames[Len(w.frames)].fn = "write"
      BY <1>8, <2>2
    <3>2. w.cur >= 0
      BY <1>2, <1>8
    <3> QED
      BY <1>8, <3>1, <3>2, NotEnded DEF Topped
  <2> QED
    BY <1>4, <2>1, <2>2
<1>11. Quiet(w)
  <2> SUFFICES ASSUME w.err = "nil", ~w.doubt PROVE Reads(w.rd, Used(w), w.cur)
    BY DEF Quiet
  <2>1. Reads(v.rd, Used(v), v.cur)
    BY <1>1, <1>3, <1>7 DEF Quiet
  <2>2. v.cur + 1 \in Slots
    <3>1. MaxDepth \in Nat
      BY MaxDepthAssumption
    <3> QED
      BY <1>2, <3>1 DEF Slots
  <2>3. v.cur >= 0 => Used(v)[v.cur].state # "open"
    BY <1>6
  <2>4. Used(w)[v.cur + 1].state = "open"
    BY <1>8
  <2>5. \A s \in 0 .. v.cur : Used(w)[s].state = "open" <=> Used(v)[s].state = "open"
    BY <1>1, <1>7
  <2>6. Reads(ReadOpen(v.rd, "elem", "a"), Used(w), v.cur + 1)
    BY <1>2, <2>1, <2>2, <2>3, <2>4, <2>5, OpenRead
  <2> QED
    BY <1>1, <1>7, <1>8, <2>6
<1>12. Sound(w)
  BY <1>7, <1>9, <1>10, <1>11, QuietAgrees DEF Sound
<1> QED
  BY <1>1, <1>12 DEF w, u

(* Text.write goes on.                                                     *)
LEMMA SoundText ==
  ASSUME NEW v, Sound(v), v.frames # <<>>, Last(v.frames).fn = "text"
  PROVE  Sound(Emit(Return(v), ReadLeaf(v.rd, "text")))
<1> DEFINE u == Return(v)
           fr == v.frames
           f == fr[Len(fr)]
           h == Front(fr)
           r == ReadLeaf(v.rd, "text")
           w == Emit(u, r)
<1>1. /\ Held(u) /\ Loose(u) /\ u \in Machines
      /\ u.mem = v.mem /\ u.arr = v.arr /\ u.len = v.len /\ u.cur = v.cur
      /\ u.frames = h /\ u.rd = v.rd /\ u.err = v.err /\ u.doubt = v.doubt
      /\ Used(u) = Used(v) /\ Last(fr) = f /\ f.fn = "text"
      /\ h \in Seq(FrameType) /\ Len(fr) > 0 /\ Len(h) = Len(fr) - 1
  BY SoundReturns
<1>2. /\ Chain(fr, v.cur, v.len) /\ Topped(v) /\ fr \in Seq(FrameType) /\ v.cur \in Int /\ v.cur >= -1
      /\ v.len \in Int /\ v.rd \in Readers /\ Len(fr) \in Nat
  BY SoundParts
<1>3. Quiet(v)
  BY <1>1, SoundQuiet
<1>4. r \in Readers
  BY <1>2, ReadersRead
<1> HIDE DEF u, h, r
<1>5. h = <<>>
  <2>1. Link(fr, v.cur, v.len, Len(fr))
    BY <1>1, <1>2 DEF Chain
  <2>2. Len(fr) = 1
    BY <1>1, <2>1 DEF Link
  <2>3. Len(h) = 0
    BY <1>1, <2>2
  <2> QED
    BY <1>1, <2>3, EmptySeq
<1>6. /\ w.mem = u.mem /\ w.arr = u.arr /\ w.len = u.len /\ w.cur = u.cur
      /\ w.frames = u.frames /\ w.rd = r /\ w.err = u.err /\ w.doubt = u.doubt
  BY <1>1, <1>4, EmitFacts, Zenon
<1>7. Held(w)
  BY <1>1, <1>4, HeldEmit
<1> HIDE DEF w
<1>8. w.frames = <<>>
  BY <1>1, <1>5, <1>6
<1>9. Chain(w.frames, w.cur, w.len) /\ Topped(w) /\ ~Ended(w)
  BY <1>8, NotEnded DEF Chain, Topped
<1>10. Quiet(w)
  <2> SUFFICES ASSUME w.err = "nil", ~w.doubt PROVE Reads(w.rd, Used(w), w.cur)
    BY DEF Quiet
  <2>1. Reads(v.rd, Used(v), v.cur) /\ ~v.doubt
    BY <1>1, <1>3, <1>6 DEF Quiet
  <2>2. v.cur >= 0 => Used(v)[v.cur].state # "open"
    BY <1>1, <1>2, <2>1 DEF Topped
  <2>3. Reads(r, Used(v), v.cur)
    BY <1>2, <2>1, <2>2, TextRead DEF r
  <2> QED
    BY <1>1, <1>6, <2>3 DEF Used
<1>11. Sound(w)
  BY <1>7, <1>9, <1>10, QuietAgrees DEF Sound
<1> QED
  BY <1>11 DEF w, u, r

(* Elem.write ends what it has started.                                    *)
LEMMA SoundWrite ==
  ASSUME NEW v, Sound(v), v.frames # <<>>, Last(v.frames).fn = "write"
  PROVE  Sound(BeginEnd(Return(v)))
<1> DEFINE u == Return(v)
           fr == v.frames
           h == Front(fr)
           f == EndFrame(Current(u), "open")
<1>1. /\ Held(u) /\ Loose(u) /\ u \in Machines
      /\ u.mem = v.mem /\ u.arr = v.arr /\ u.len = v.len /\ u.cur = v.cur
      /\ u.frames = h /\ u.rd = v.rd /\ u.err = v.err /\ u.doubt = v.doubt
      /\ Used(u) = Used(v) /\ fr[Len(fr)].fn = "write"
  BY SoundReturns
<1>2. /\ Chain(fr, v.cur, v.len) /\ Topped(v) /\ fr \in Seq(FrameType) /\ v.cur \in Int
      /\ v.len \in Int
  BY SoundParts
<1>3. Quiet(v)
  BY <1>1, SoundQuiet
<1> HIDE DEF u
<1>4. v.cur >= 0 /\ Used(v)[v.cur].state = "open"
  BY <1>1, <1>2 DEF Topped
<1>5. f \in FrameType /\ f.fn = "end" /\ f.prev = "open" /\ f.n.at = u.cur
  BY <1>1, <1>4, HeldBeginEnd
<1> HIDE DEF f
<1>6. Chain(Append(h, f), v.cur, v.len)
  BY <1>1, <1>2, <1>5, ChainEnd
<1>7. Quiet(u)
  BY <1>1, <1>3 DEF Quiet
<1>8. u.cur >= 0 /\ Used(u)[u.cur].state = "open" /\ Chain(Append(u.frames, f), u.cur, u.len)
  BY <1>1, <1>4, <1>6
<1> QED
  BY <1>1, <1>7, <1>8, SoundBeginEnd DEF f, u

(* The loop over a Content is through.                                     *)
LEMMA SoundDone ==
  ASSUME NEW v, Sound(v), v.frames # <<>>, Last(v.frames).fn = "content", Last(v.frames).left = 0
  PROVE  Sound(Return(v))
<1> DEFINE u == Return(v)
           fr == v.frames
           h == Front(fr)
<1>1. /\ Held(u) /\ Loose(u) /\ u \in Machines
      /\ u.mem = v.mem /\ u.arr = v.arr /\ u.len = v.len /\ u.cur = v.cur
      /\ u.frames = h /\ u.rd = v.rd /\ u.err = v.err /\ u.doubt = v.doubt
      /\ Used(u) = Used(v) /\ fr[Len(fr)].fn = "content" /\ fr[Len(fr)].left = 0
      /\ Len(h) = Len(fr) - 1 /\ \A i \in 1 .. Len(fr) - 1 : h[i] = fr[i]
  BY SoundReturns
<1>2. /\ Chain(fr, v.cur, v.len) /\ Topped(v) /\ fr \in Seq(FrameType) /\ v.cur \in Int
      /\ v.len \in Int /\ Len(fr) \in Nat
  BY SoundParts
<1>3. Quiet(v)
  BY <1>1, SoundQuiet
<1>4. /\ Chain(h, v.cur, v.len) /\ Len(fr) > 1 /\ v.cur >= 0
      /\ \/ fr[Len(fr) - 1].fn = "text" \/ fr[Len(fr) - 1].fn = "push" \/ fr[Len(fr) - 1].fn = "end"
  BY <1>1, <1>2, ChainContentDone
<1> HIDE DEF u, h
<1>5. Used(u)[u.cur].state = "opened" /\ Used(u)[u.cur].kids
  BY <1>1, <1>2 DEF Topped
<1>6. h[Len(h)] = fr[Len(fr) - 1]
  BY <1>1, <1>2, <1>4
<1>7. Topped(u)
  <2>1. h[Len(h)].fn = "text" \/ h[Len(h)].fn = "push" \/ h[Len(h)].fn = "end"
    BY <1>4, <1>6
  <2>2. u.cur >= 0
    BY <1>1, <1>4
  <2> QED
    BY <1>1, <1>5, <2>1, <2>2 DEF Topped
<1>8. ~Ended(u)
  BY <1>5 DEF Ended
<1>9. Quiet(u)
  BY <1>1, <1>3 DEF Quiet
<1>10. Chain(u.frames, u.cur, u.len)
  BY <1>1, <1>4
<1> QED
  BY <1>1, <1>7, <1>8, <1>9, <1>10, QuietAgrees DEF Sound, u

(* node.end goes on.                                                       *)
LEMMA SoundEnd ==
  ASSUME NEW v, Sound(v), v.frames # <<>>, Last(v.frames).fn = "end"
  PROVE  Sound(Collected(FinishEnd(Return(v), Last(v.frames).n, Last(v.frames).prev)))
<1> DEFINE u == Return(v)
           fr == v.frames
           f == fr[Len(fr)]
           h == Front(fr)
           e == FinishEnd(u, f.n, f.prev)
           w == Collected(e)
           x == Deref(v, f.n)
<1>1. /\ Held(u) /\ Loose(u) /\ u \in Machines
      /\ u.mem = v.mem /\ u.arr = v.arr /\ u.len = v.len /\ u.cur = v.cur
      /\ u.frames = h /\ u.rd = v.rd /\ u.err = v.err /\ u.doubt = v.doubt
      /\ Used(u) = Used(v) /\ Last(fr) = f /\ f.fn = "end" /\ f \in FrameType
      /\ h \in Seq(FrameType) /\ Len(fr) > 0 /\ Len(h) = Len(fr) - 1
      /\ \A i \in 1 .. Len(fr) - 1 : h[i] = fr[i]
  BY SoundReturns
<1>2. /\ Chain(fr, v.cur, v.len) /\ Topped(v) /\ Agrees(v) /\ Loose(v) /\ v \in Machines
      /\ fr \in Seq(FrameType) /\ v.cur \in Int /\ v.cur >= -1
      /\ v.len \in Int /\ v.rd \in Readers /\ Len(fr) \in Nat
  BY SoundParts
<1>3. /\ Chain(h, v.cur - 1, v.len) /\ f.prev = "open" /\ f.n.at = v.cur
      /\ Len(fr) = 1 \/ fr[Len(fr) - 1].fn = "content"
      /\ \A i \in 1 .. Len(fr) - 1 : fr[i].fn = "end" => fr[i].n.at < v.cur
  BY <1>1, <1>2, ChainEnded
<1>4. Points(v, f.n) /\ f.n.arr \in Arrays
  <2>1. Len(fr) \in 1 .. Len(fr)
    BY <1>1, <1>2
  <2> QED
    BY <1>1, <1>2, <2>1, FramePointer DEF Loose
<1>5. v.cur >= 0 /\ Used(v)[v.cur].state = "opened"
  BY <1>1, <1>2 DEF Topped
<1>6. Deref(u, f.n) = x
  BY <1>1 DEF Deref
<1>7. x.full = Used(v)[v.cur].full
  BY <1>3, <1>4 DEF Points
<1> DEFINE p == f.n
<1>8. \A i \in 1 .. Len(u.frames) : u.frames[i].fn = "end" => u.frames[i].n.at < u.cur
  BY <1>1, <1>3
<1> HIDE DEF u, h, x
<1>9. /\ Held(e) /\ e.cur = u.cur - 1 /\ e.arr = u.arr /\ e.len = u.len
      /\ e.frames = u.frames /\ e.err = u.err
      /\ e.doubt = (u.doubt \/ Deref(u, p).kids # Used(u)[u.cur].kids)
      /\ e.rd = IF f.prev # "open" \/ Deref(u, p).full \/ Deref(u, p).kids
                THEN ReadClose(u.rd, "elem", "a") ELSE u.rd
      /\ \A s \in 0 .. u.cur - 1 : Used(e)[s] = Used(u)[s]
  <2>1. p.arr \in Arrays /\ p.at = u.cur /\ u.cur >= 0
    BY <1>1, <1>3, <1>4, <1>5
  <2>2. e = FinishEnd(u, p, f.prev)
    OBVIOUS
  <2> HIDE DEF e, p
  <2> QED
    BY <1>1, <1>8, <2>1, <2>2, HeldFinish
<1> HIDE DEF e
<1>10. /\ Held(w) /\ w.arr = e.arr /\ w.len = e.len /\ w.cur = e.cur
       /\ w.frames = e.frames /\ w.rd = e.rd /\ w.err = e.err /\ w.doubt = e.doubt
       /\ Used(w) = Used(e)
  BY <1>9, HeldCollected
<1> HIDE DEF w
<1>11. w.cur = v.cur - 1 /\ w.frames = h /\ w.len = v.len /\ \A s \in 0 .. v.cur - 1 : Used(w)[s] = Used(v)[s]
  BY <1>1, <1>9, <1>10
<1>12. Chain(w.frames, w.cur, w.len)
  BY <1>3, <1>11
<1>13. Topped(w) /\ ~Ended(w)
  <2>1. CASE Len(fr) = 1
    <3>1. w.frames = <<>>
      BY <1>1, <1>11, <2>1, EmptySeq
    <3> QED
      BY <3>1, NotEnded DEF Topped
  <2>2. CASE Len(fr) # 1
    <3>1. h # <<>> /\ h[Len(h)] = fr[Len(fr) - 1] /\ h[Len(h)].fn = "content"
      <4>1. Len(h) # 0 /\ Len(fr) - 1 \in 1 .. Len(fr) - 1
        <5> DEFINE k == Len(fr)
        <5>1. k \in Nat
          BY <1>2
        <5>2. k > 0
          BY <1>1
        <5>3. Len(h) = k - 1
          BY <1>1
        <5>4. k # 1
          BY <2>2
        <5> HIDE DEF k
        <5>5. k - 1 # 0 /\ k - 1 \in 1 .. k - 1
          BY <5>1, <5>2, <5>4
        <5> QED
          BY <5>3, <5>5, Zenon DEF k
      <4> QED
        BY <1>1, <1>3, <2>2, <4>1, EmptySeq
    <3>2. /\ Len(h) > 1 /\ w.cur >= 0
          /\ \/ h[Len(h) - 1].fn = "text" \/ h[Len(h) - 1].fn = "push" \/ h[Len(h) - 1].fn = "end"
      <4>1. v.cur - 1 \in Int
        BY <1>2
      <4>2. /\ Len(h) > 1 /\ v.cur - 1 >= 0
            /\ \/ h[Len(h) - 1].fn = "text" \/ h[Len(h) - 1].fn = "push" \/ h[Len(h) - 1].fn = "end"
        BY <1>1, <1>2, <1>3, <3>1, <4>1, ChainContentDone
      <4> QED
        BY <1>11, <4>2
    <3>3. Used(v)[v.cur - 1].kids /\ Used(v)[v.cur - 1].state = "opened"
      BY <1>2, <1>11, <3>2 DEF Loose
    <3>4. Used(w)[w.cur].kids /\ Used(w)[w.cur].state = "opened"
      BY <1>2, <1>11, <3>2, <3>3
    <3> QED
      BY <1>11, <3>1, <3>2, <3>4, NotEnded DEF Topped
  <2> QED
    BY <2>1, <2>2
<1>14. Quiet(w)
  <2> SUFFICES ASSUME w.err = "nil", ~w.doubt PROVE Reads(w.rd, Used(w), v.cur - 1)
    BY <1>11 DEF Quiet
  <2>1. v.err = "nil" /\ ~v.doubt /\ x.kids = Used(v)[v.cur].kids
    <3>1. v.err = "nil" /\ ~(u.doubt \/ Deref(u, p).kids # Used(u)[u.cur].kids)
      BY <1>1, <1>9, <1>10
    <3> QED
      BY <1>1, <1>6, <3>1
  <2>2. \A s \in 0 .. v.cur - 1 : Used(w)[s].state = "open" <=> Used(v)[s].state = "open"
    BY <1>11
  <2>3. w.rd = IF x.full \/ x.kids THEN ReadClose(v.rd, "elem", "a") ELSE v.rd
    BY <1>1, <1>3, <1>6, <1>9, <1>10
  <2>4. CASE Ended(v)
    <3>1. w.rd = v.rd
      BY <1>7, <2>1, <2>3, <2>4 DEF Ended
    <3>2. Reads(v.rd, Used(v), v.cur - 1)
      BY <1>2, <2>1, <2>4 DEF Agrees
    <3>3. v.cur - 1 \in Int
      BY <1>2
    <3> QED
      BY <2>2, <3>1, <3>2, <3>3, SameRead
  <2>5. CASE ~Ended(v)
    <3>1. w.rd = ReadClose(v.rd, "elem", "a")
      BY <1>1, <1>7, <2>1, <2>3, <2>5 DEF Ended
    <3>2. Reads(v.rd, Used(v), v.cur) /\ Used(v)[v.cur].state # "open"
      BY <1>2, <1>5, <2>1, <2>5 DEF Agrees
    <3> QED
      BY <1>2, <1>5, <2>2, <3>1, <3>2, CloseRead
  <2> QED
    BY <2>4, <2>5
<1>15. Sound(w)
  BY <1>10, <1>12, <1>13, <1>14, QuietAgrees DEF Sound
<1> QED
  BY <1>1, <1>15 DEF w, e, u

(* Growing shortens nothing.                                               *)
LEMMA GrowLonger ==
  ASSUME NEW v \in Machines
  PROVE  v.len <= Grow(v).len
<1>1. v.len \in Nat
  BY MachineParts
<1> DEFINE x == [v EXCEPT !.len = @ + 1, !.arr = @ + 1, !.mem[v.arr + 1] = v.mem[v.arr]]
<1>2. [v EXCEPT !.len = @ + 1].len = v.len + 1 /\ x.len = v.len + 1
  BY DEF Machines
<1>3. Collected(x).len = x.len
  BY <1>2 DEF Collected, Machines
<1> QED
  BY <1>1, <1>2, <1>3 DEF Grow

-----------------------------------------------------------------------------
(* The items of a Content. *)

(* The loop over the Content of the current element, between two items.    *)
AtItem(v) ==
  /\ Held(v) /\ Quiet(v) /\ Chain(v.frames, v.cur, v.len) /\ v.cur >= 0
  /\ Used(v)[v.cur].state = "opened"
  /\ v.frames # <<>> /\ v.frames[Len(v.frames)].fn = "content"

(* What such a machine consists of.                                        *)
LEMMA AtItemParts ==
  ASSUME NEW v, AtItem(v)
  PROVE  /\ Held(v) /\ Loose(v) /\ v \in Machines /\ v.cur \in Int /\ v.cur \in Slots /\ v.cur >= -1
         /\ v.len \in Int /\ v.rd \in Readers /\ v.frames \in Seq(FrameType) /\ Len(v.frames) \in Nat
         /\ \A s \in 0 .. v.cur : s \in Slots
<1>1. Held(v) /\ Loose(v) /\ v.cur >= 0
  BY DEF AtItem, Held
<1>2. v \in Machines
  BY <1>1, HeldParts
<1>3. v.cur \in Int /\ v.cur \in Slots /\ \A s \in 0 .. v.cur : s \in Slots
  BY <1>1, HeldParts
<1>4. v.cur >= -1
  BY <1>1, <1>3
<1> QED
  BY <1>1, <1>2, <1>3, <1>4, MachineParts

(* Once the element has a child, the loop may be left.                     *)
LEMMA AfterItem ==
  ASSUME NEW v, AtItem(v), Used(v)[v.cur].kids
  PROVE  Sound(v)
<1>1. Topped(v)
  BY DEF Topped, AtItem
<1> QED
  BY <1>1, NotEnded, QuietAgrees DEF Sound, AtItem

(* The loop takes its next item.                                           *)
LEMMA ItemTaken ==
  ASSUME NEW v, Sound(v), v.frames # <<>>, Last(v.frames).fn = "content", Last(v.frames).left > 0
  PROVE  LET w == Call(Return(v), ContentFrame(Last(v.frames).left - 1)) IN
         AtItem(w) /\ w.cur = v.cur /\ w.rd = v.rd
<1> DEFINE u == Return(v)
           fr == v.frames
           h == Front(fr)
           k == Last(fr).left - 1
           f == ContentFrame(k)
           w == Call(u, f)
<1>1. /\ Held(u) /\ Loose(u) /\ u \in Machines
      /\ u.mem = v.mem /\ u.arr = v.arr /\ u.len = v.len /\ u.cur = v.cur
      /\ u.frames = h /\ u.rd = v.rd /\ u.err = v.err /\ u.doubt = v.doubt
      /\ Used(u) = Used(v) /\ Last(fr) = fr[Len(fr)] /\ fr[Len(fr)].fn = "content"
      /\ fr[Len(fr)] \in FrameType /\ h \in Seq(FrameType)
  BY SoundReturns
<1>2. /\ Chain(fr, v.cur, v.len) /\ Topped(v) /\ fr \in Seq(FrameType) /\ v.cur \in Int
      /\ v.len \in Int /\ Len(fr) \in Nat
  BY SoundParts
<1>3. Quiet(v)
  BY <1>1, SoundQuiet
<1>4. f \in FrameType /\ f.fn = "content"
  <2>1. Last(fr).left \in 0 .. MaxContent
    BY <1>1 DEF FrameType
  <2>2. k \in 0 .. MaxContent
    BY <2>1, ArrayAssumption
  <2> HIDE DEF k
  <2> QED
    BY <2>2, FramesMade
<1> HIDE DEF u, f, h
<1>5. /\ w.mem = u.mem /\ w.arr = u.arr /\ w.len = u.len /\ w.cur = u.cur
      /\ w.frames = Append(u.frames, f) /\ w.rd = u.rd /\ w.err = u.err /\ w.doubt = u.doubt
  BY <1>1, <1>4, CallFacts, Zenon
<1>6. Held(w)
  BY <1>1, <1>4, HeldCall
<1> HIDE DEF w
<1> DEFINE g == Append(h, f)
<1>7. Chain(g, v.cur, v.len)
  BY <1>1, <1>2, <1>4, ChainContentNext DEF h
<1>8. g # <<>> /\ g[Len(g)] = f
  <2>1. g \in Seq(FrameType) /\ Len(g) = Len(h) + 1 /\ g[Len(h) + 1] = f /\ Len(h) \in Nat
    BY <1>1, <1>4, Framed
  <2> HIDE DEF g
  <2>2. Len(g) # 0
    BY <2>1
  <2>3. g # <<>>
    BY <2>2, EmptySeq
  <2> QED
    BY <2>1, <2>3
<1> HIDE DEF g
<1>9. w.frames = g
  BY <1>1, <1>5 DEF g
<1>10. Quiet(w)
  BY <1>1, <1>3, <1>5 DEF Quiet, Used
<1>11. v.cur >= 0 /\ Used(v)[v.cur].state = "opened"
  BY <1>1, <1>2 DEF Topped
<1>12. Used(w) = Used(v)
  BY <1>1, <1>5 DEF Used
<1>13. AtItem(w)
  BY <1>1, <1>4, <1>5, <1>6, <1>7, <1>8, <1>9, <1>10, <1>11, <1>12 DEF AtItem
<1> QED
  BY <1>1, <1>5, <1>13 DEF w, u, f

(* There is room for one more node.                                        *)
LEMMA ItemGrow ==
  ASSUME NEW v, AtItem(v), v.cur + 1 < MaxDepth
  PROVE  LET w == Grow(v) IN AtItem(w) /\ w.cur = v.cur /\ w.rd = v.rd /\ w.cur + 1 < w.len
<1> DEFINE w == Grow(v)
<1>1. Held(v) /\ v \in Machines /\ v.cur \in Int /\ v.len \in Int /\ v.frames \in Seq(FrameType)
  BY AtItemParts
<1>2. /\ Held(w) /\ w.cur = v.cur /\ w.cur + 1 < w.len
      /\ w.frames = v.frames /\ w.rd = v.rd /\ w.err = v.err /\ w.doubt = v.doubt
      /\ Used(w) = Used(v) /\ v.len <= w.len
  <2>1. v.len <= w.len
    BY <1>1, GrowLonger
  <2> QED
    BY <1>1, <2>1, HeldGrow
<1> HIDE DEF w
<1>3. w.len \in Int
  <2>1. Loose(w)
    BY <1>2 DEF Held
  <2> QED
    BY <2>1, HeldParts
<1>4. Chain(v.frames, v.cur, w.len)
  BY <1>1, <1>2, <1>3, ChainGrow DEF AtItem
<1>5. AtItem(w)
  BY <1>2, <1>4 DEF AtItem, Quiet
<1> QED
  BY <1>2, <1>5 DEF w

(* Next marks the element, which is opened already.                        *)
LEMMA ItemNext ==
  ASSUME NEW v, AtItem(v)
  PROVE  LET w == NextChild(v) IN
         AtItem(w) /\ w.cur = v.cur /\ w.rd = v.rd /\ w.len = v.len /\ Used(w)[w.cur].kids
<1> DEFINE w == NextChild(v)
           n == Used(v)[v.cur]
           x == Used(w)[v.cur]
<1>1. Held(v) /\ v \in Machines /\ v.cur \in Int /\ v.cur >= 0 /\ \A s \in 0 .. v.cur : s \in Slots
  BY AtItemParts DEF AtItem
<1>2. /\ Held(w) /\ w.cur = v.cur /\ w.arr = v.arr /\ w.len = v.len
      /\ w.err = v.err /\ w.doubt = v.doubt
      /\ x \in Node /\ x.state = "opened" /\ x.kids = TRUE /\ x.full = n.full /\ x.content = n.content
      /\ \A s \in Slots : s # v.cur => Used(w)[s] = Used(v)[s]
      /\ n.state = "opened" => w.frames = v.frames /\ w.rd = v.rd
  BY <1>1, HeldNext
<1>3. n.state = "opened"
  BY DEF AtItem
<1> HIDE DEF w
<1>4. \A s \in 0 .. v.cur : Used(w)[s].state = "open" <=> Used(v)[s].state = "open"
  <2> TAKE s \in 0 .. v.cur
  <2>1. CASE s = v.cur
    BY <1>2, <1>3, <2>1
  <2>2. CASE s # v.cur
    BY <1>1, <1>2, <2>2
  <2> QED
    BY <2>1, <2>2
<1>5. Quiet(w)
  <2> SUFFICES ASSUME w.err = "nil", ~w.doubt PROVE Reads(w.rd, Used(w), w.cur)
    BY DEF Quiet
  <2>1. Reads(v.rd, Used(v), v.cur)
    BY <1>2 DEF Quiet, AtItem
  <2>2. Reads(v.rd, Used(w), v.cur)
    BY <1>1, <1>4, <2>1, SameRead
  <2> QED
    BY <1>2, <1>3, <2>2
<1>6. AtItem(w)
  BY <1>1, <1>2, <1>3, <1>5 DEF AtItem
<1> QED
  BY <1>2, <1>3, <1>6 DEF w

(* A Text is written.                                                      *)
LEMMA SoundTextItem ==
  ASSUME NEW v, AtItem(v)
  PROVE  Sound(Emit(NextChild(v), ReadLeaf(v.rd, "text")))
<1> DEFINE u == NextChild(v)
           r == ReadLeaf(v.rd, "text")
           w == Emit(u, r)
<1>1. AtItem(u) /\ u.cur = v.cur /\ u.rd = v.rd /\ u.len = v.len /\ Used(u)[u.cur].kids
  BY ItemNext
<1> HIDE DEF u
<1>2. Held(u) /\ u \in Machines /\ u.cur \in Int /\ u.cur >= -1 /\ u.rd \in Readers
  BY <1>1, AtItemParts
<1>3. r \in Readers
  BY <1>1, <1>2, ReadersRead
<1> HIDE DEF r
<1>4. /\ w.mem = u.mem /\ w.arr = u.arr /\ w.len = u.len /\ w.cur = u.cur
      /\ w.frames = u.frames /\ w.rd = r /\ w.err = u.err /\ w.doubt = u.doubt
  BY <1>2, <1>3, EmitFacts, Zenon
<1>5. Held(w)
  BY <1>2, <1>3, HeldEmit
<1> HIDE DEF w
<1>6. Used(w) = Used(u)
  BY <1>4 DEF Used
<1>7. Quiet(w)
  <2> SUFFICES ASSUME w.err = "nil", ~w.doubt PROVE Reads(r, Used(u), u.cur)
    BY <1>4, <1>6 DEF Quiet
  <2>1. Reads(u.rd, Used(u), u.cur) /\ Used(u)[u.cur].state # "open"
    BY <1>1, <1>4 DEF Quiet, AtItem
  <2> QED
    BY <1>1, <1>2, <2>1, TextRead DEF r
<1>8. AtItem(w) /\ Used(w)[w.cur].kids
  BY <1>1, <1>4, <1>5, <1>6, <1>7 DEF AtItem
<1> QED
  BY <1>8, AfterItem DEF w, u, r

(* A Comment or a CData is written.                                        *)
LEMMA SoundCommentItem ==
  ASSUME NEW v, AtItem(v), v.cur + 1 < MaxDepth
  PROVE  Sound(Emit(NextChild(Grow(v)), ReadClose(ReadOpen(v.rd, "comment", NoName), "comment", NoName)))
<1> DEFINE g == Grow(v)
           u == NextChild(g)
           r == ReadClose(ReadOpen(v.rd, "comment", NoName), "comment", NoName)
           w == Emit(u, r)
<1>1. AtItem(g) /\ g.cur = v.cur /\ g.rd = v.rd
  BY ItemGrow
<1> HIDE DEF g
<1>2. AtItem(u) /\ u.cur = g.cur /\ u.rd = g.rd /\ u.len = g.len /\ Used(u)[u.cur].kids
  BY <1>1, ItemNext
<1> HIDE DEF u
<1>3. Held(u) /\ u \in Machines /\ u.cur \in Int /\ u.cur >= -1 /\ u.rd \in Readers
  BY <1>2, AtItemParts
<1>4. r \in Readers
  <2> DEFINE o == ReadOpen(v.rd, "comment", NoName)
  <2>1. o \in Readers
    BY <1>1, <1>2, <1>3, Grammar, ReadersRead
  <2> HIDE DEF o
  <2>2. ReadClose(o, "comment", NoName) \in Readers
    BY <2>1, Grammar, ReadersRead
  <2> QED
    BY <2>2 DEF o
<1> HIDE DEF r
<1>5. /\ w.mem = u.mem /\ w.arr = u.arr /\ w.len = u.len /\ w.cur = u.cur
      /\ w.frames = u.frames /\ w.rd = r /\ w.err = u.err /\ w.doubt = u.doubt
  BY <1>3, <1>4, EmitFacts, Zenon
<1>6. Held(w)
  BY <1>3, <1>4, HeldEmit
<1> HIDE DEF w
<1>7. Used(w) = Used(u)
  BY <1>5 DEF Used
<1>8. Quiet(w)
  <2> SUFFICES ASSUME w.err = "nil", ~w.doubt PROVE Reads(r, Used(u), u.cur)
    BY <1>5, <1>7 DEF Quiet
  <2>1. Reads(u.rd, Used(u), u.cur) /\ Used(u)[u.cur].state # "open"
    BY <1>2, <1>5 DEF Quiet, AtItem
  <2>2. u.cur + 1 \in Slots
    BY <1>1, <1>2, <1>3, MaxDepthAssumption DEF Slots, AtItem
  <2>3. r = ReadClose(ReadOpen(u.rd, "comment", NoName), "comment", NoName)
    BY <1>1, <1>2 DEF r
  <2> QED
    BY <1>3, <2>1, <2>2, <2>3, CommentRead
<1>9. AtItem(w) /\ Used(w)[w.cur].kids
  BY <1>2, <1>5, <1>6, <1>7, <1>8 DEF AtItem
<1> QED
  BY <1>9, AfterItem DEF w, u, r, g

(* A slot above the current one is made the current one.                   *)
Raised(v, node) == [Store(v, [Current(v) EXCEPT !.at = @ + 1], node) EXCEPT !.cur = @ + 1]

(* Pushing is that, and writing the open tag.                              *)
LEMMA RaisedIsPushed ==
  ASSUME NEW v \in Machines, v.cur + 1 \in Slots, NEW node \in Node
  PROVE  Raised(v, node) = Emit(Push(v, node), v.rd)
<1>1. v = [mem |-> v.mem, arr |-> v.arr, len |-> v.len, cur |-> v.cur, frames |-> v.frames,
           rd |-> v.rd, err |-> v.err, doubt |-> v.doubt]
  BY MachineParts
<1> QED
  BY <1>1 DEF Raised, Push, Emit, Store, Current

(* A child element is pushed; Elem.write will end it.                      *)
LEMMA SoundElemItem ==
  ASSUME NEW v, AtItem(v), v.cur + 1 < MaxDepth, NEW node \in Node, node.state = "open", ~node.kids
  PROVE  Sound(Push(NextChild(Grow(Call(v, WriteFrame))), node))
<1> DEFINE f == WriteFrame
           c == Call(v, f)
           g == Grow(c)
           u == NextChild(g)
           w == Push(u, node)
           n == Used(g)[g.cur]
           x == Used(u)[g.cur]
<1>1. /\ Held(v) /\ v \in Machines /\ v.cur \in Int /\ v.cur >= -1 /\ v.cur \in Slots /\ v.len \in Int /\ v.rd \in Readers
      /\ v.frames \in Seq(FrameType) /\ Len(v.frames) \in Nat /\ \A s \in 0 .. v.cur : s \in Slots
  BY AtItemParts
<1>2. f \in FrameType /\ f.fn = "write"
  BY FramesMade
<1> HIDE DEF f
<1>3. /\ c.mem = v.mem /\ c.arr = v.arr /\ c.len = v.len /\ c.cur = v.cur
      /\ c.frames = Append(v.frames, f) /\ c.rd = v.rd /\ c.err = v.err /\ c.doubt = v.doubt
      /\ c \in Machines
  BY <1>1, <1>2, CallFacts, Zenon
<1>4. Held(c)
  BY <1>1, <1>2, HeldCall
<1> HIDE DEF c
<1>5. Chain(c.frames, v.cur + 1, v.len)
  BY <1>1, <1>2, <1>3, ChainWrite DEF AtItem
<1>6. c.frames[Len(c.frames)].fn = "write" /\ c.frames \in Seq(FrameType)
  <2> DEFINE a == Append(v.frames, f)
  <2>1. a \in Seq(FrameType) /\ Len(a) = Len(v.frames) + 1 /\ a[Len(v.frames) + 1] = f
    BY <1>1, <1>2, Framed
  <2> HIDE DEF a
  <2>2. a[Len(a)].fn = "write"
    BY <1>2, <2>1
  <2> QED
    BY <1>3, <2>1, <2>2 DEF a
<1>7. /\ Held(g) /\ g.cur = c.cur /\ g.cur + 1 < g.len
      /\ g.frames = c.frames /\ g.rd = c.rd /\ g.err = c.err /\ g.doubt = c.doubt
      /\ Used(g) = Used(c) /\ c.len <= g.len
  <2>1. c.len <= g.len
    BY <1>3, GrowLonger
  <2>2. c.cur + 1 < MaxDepth
    BY <1>3
  <2> QED
    BY <1>4, <2>1, <2>2, HeldGrow
<1> HIDE DEF g
<1>8. g.len \in Int /\ Used(g) = Used(v)
  <2>1. Loose(g)
    BY <1>7 DEF Held
  <2>2. g.len \in Int
    BY <2>1, HeldParts
  <2> QED
    BY <1>3, <1>7, <2>2 DEF Used
<1>9. n.state = "opened" /\ g.cur >= 0
  BY <1>3, <1>7, <1>8 DEF AtItem
<1>10. /\ Held(u) /\ u.cur = g.cur /\ u.arr = g.arr /\ u.len = g.len
       /\ u.err = g.err /\ u.doubt = g.doubt
       /\ x \in Node /\ x.state = "opened" /\ x.kids = TRUE /\ x.full = n.full /\ x.content = n.content
       /\ \A s \in Slots : s # g.cur => Used(u)[s] = Used(g)[s]
       /\ n.state = "opened" => u.frames = g.frames /\ u.rd = g.rd
  BY <1>7, <1>9, HeldNext
<1> HIDE DEF u
<1>11. /\ Held(w) /\ w.cur = u.cur + 1 /\ w.arr = u.arr /\ w.len = u.len
       /\ w.frames = u.frames /\ w.rd = ReadOpen(u.rd, "elem", "a")
       /\ w.err = u.err /\ w.doubt = u.doubt
       /\ Used(w)[w.cur] = node
       /\ \A s \in 0 .. u.cur : Used(w)[s] = Used(u)[s]
  <2>1. u.cur + 1 < u.len /\ u.cur + 1 < MaxDepth
    BY <1>3, <1>7, <1>10
  <2>2. Used(u)[u.cur].kids /\ Used(u)[u.cur].state = "opened"
    BY <1>10
  <2> QED
    BY <1>10, <2>1, <2>2, HeldPush
<1> HIDE DEF w
<1>12. w.frames = c.frames /\ w.rd = ReadOpen(v.rd, "elem", "a") /\ w.cur = v.cur + 1 /\ w.len = g.len
  BY <1>3, <1>7, <1>9, <1>10, <1>11
<1>13. Chain(w.frames, w.cur, w.len)
  <2>1. v.cur + 1 \in Int /\ v.len <= g.len
    BY <1>1, <1>3, <1>7
  <2>2. Chain(c.frames, v.cur + 1, g.len)
    BY <1>1, <1>5, <1>6, <1>8, <2>1, ChainGrow
  <2> QED
    BY <1>12, <2>2
<1>14. Topped(w) /\ ~Ended(w)
  <2>1. w.cur >= 0 /\ Used(w)[w.cur].state = "open"
    BY <1>1, <1>11, <1>12
  <2> QED
    BY <1>6, <1>12, <2>1, NotEnded DEF Topped
<1>15. Quiet(w)
  <2> SUFFICES ASSUME w.err = "nil", ~w.doubt PROVE Reads(ReadOpen(v.rd, "elem", "a"), Used(w), v.cur + 1)
    BY <1>12 DEF Quiet
  <2>1. Reads(v.rd, Used(v), v.cur)
    BY <1>3, <1>7, <1>10, <1>11 DEF Quiet, AtItem
  <2>2. v.cur + 1 \in Slots
    BY <1>1, MaxDepthAssumption DEF Slots
  <2>3. Used(v)[v.cur].state # "open"
    BY DEF AtItem
  <2>4. Used(w)[v.cur + 1].state = "open"
    BY <1>11, <1>12
  <2>5. \A s \in 0 .. v.cur : Used(w)[s].state = "open" <=> Used(v)[s].state = "open"
    <3> TAKE s \in 0 .. v.cur
    <3>1. u.cur = v.cur /\ g.cur = v.cur
      BY <1>3, <1>7, <1>10
    <3>2. Used(w)[s] = Used(u)[s]
      BY <1>11, <3>1
    <3>3. CASE s = v.cur
      BY <1>8, <1>9, <1>10, <3>1, <3>2, <3>3
    <3>4. CASE s # v.cur
      BY <1>1, <1>8, <1>10, <3>1, <3>2, <3>4
    <3> QED
      BY <3>3, <3>4
  <2> QED
    BY <1>1, <2>1, <2>2, <2>3, <2>4, <2>5, OpenRead
<1> QED
  BY <1>11, <1>13, <1>14, <1>15, QuietAgrees DEF Sound, w, u, g, c, f

(* An error ends every call in progress but Text.write.                    *)
LEMMA SoundFail ==
  ASSUME NEW v, Held(v)
  PROVE  Sound(Fail(v))
<1> DEFINE f == TextFrame
           one == <<f>>
           a == [v EXCEPT !.frames = one]
           w == [v EXCEPT !.frames = one, !.doubt = TRUE]
           b == [v EXCEPT !.frames = <<>>]
           x == [v EXCEPT !.frames = <<>>, !.err = "failed"]
<1>1. Loose(v) /\ v \in Machines
  BY HeldParts DEF Held
<1>2. f \in FrameType /\ f.fn = "text"
  BY FramesMade
<1> HIDE DEF f
<1>3. one \in Seq(FrameType) /\ Len(one) = 1 /\ one[1] = f /\ one # <<>>
  BY <1>2
<1> HIDE DEF one
<1>4. /\ w \in Machines
      /\ w.mem = v.mem /\ w.arr = v.arr /\ w.len = v.len /\ w.cur = v.cur
      /\ w.frames = one /\ w.doubt = TRUE
  BY <1>1, <1>3 DEF Machines
<1>5. /\ x \in Machines
      /\ x.mem = v.mem /\ x.arr = v.arr /\ x.len = v.len /\ x.cur = v.cur
      /\ x.frames = <<>> /\ x.err = "failed"
  <2>1. "failed" \in Errors /\ <<>> \in Seq(FrameType)
    BY DEF Errors
  <2> QED
    BY <1>1, <2>1 DEF Machines
<1> HIDE DEF w, x
<1>6. Held(w)
  <2>1. \A i \in 1 .. Len(w.frames) : w.frames[i].fn # "end"
    <3>1. Len(w.frames) = 1 /\ w.frames[1].fn = "text"
      BY <1>2, <1>3, <1>4
    <3> QED
      BY <3>1
  <2>2. Used(w) = Used(v)
    BY <1>4 DEF Used
  <2>3. Loose(w)
    BY <1>1, <1>4, <2>1, <2>2 DEF Loose
  <2> QED
    BY <1>4, <2>2, <2>3 DEF Held
<1>7. Held(x)
  <2>1. Used(x) = Used(v)
    BY <1>5 DEF Used
  <2>2. 1 .. Len(x.frames) = {}
    BY <1>5
  <2>3. Loose(x)
    BY <1>1, <1>5, <2>1, <2>2 DEF Loose
  <2> QED
    BY <1>5, <2>1, <2>3 DEF Held
<1>8. Sound(w)
  <2>1. w.cur \in Int /\ w.len \in Int
    BY <1>6, HeldParts DEF Held
  <2>2. Chain(w.frames, w.cur, w.len)
    <3> DEFINE fr == w.frames
               cur == w.cur
               len == w.len
    <3>1. Len(fr) = 1 /\ fr[1].fn = "text"
      BY <1>2, <1>3, <1>4
    <3> HIDE DEF fr, cur, len
    <3>2. Link(fr, cur, len, 1)
      BY <3>1 DEF Link
    <3>3. 1 .. Len(fr) = {1}
      BY <3>1
    <3>4. Chain(fr, cur, len)
      BY <3>2, <3>3 DEF Chain
    <3> QED
      BY <3>4 DEF fr, cur, len
  <2>3. Topped(w)
    BY <1>2, <1>3, <1>4 DEF Topped
  <2>4. Agrees(w)
    BY <1>4 DEF Agrees
  <2> QED
    BY <1>6, <2>2, <2>3, <2>4 DEF Sound
<1>9. Sound(x)
  BY <1>5, <1>7 DEF Sound, Chain, Topped, Agrees
<1> QED
  BY <1>8, <1>9 DEF Fail, w, x, one, f

(* A child is refused.                                                     *)
LEMMA SoundBadItem ==
  ASSUME NEW v, AtItem(v), v.cur + 1 < MaxDepth
  PROVE  Sound(Fail(Raised(NextChild(Grow(v)), ZeroNode)))
<1> DEFINE g == Grow(v)
           u == NextChild(g)
           p == Push(u, ZeroNode)
<1>1. AtItem(g) /\ g.cur = v.cur /\ g.cur + 1 < g.len
  BY ItemGrow
<1> HIDE DEF g
<1>2. AtItem(u) /\ u.cur = g.cur /\ u.len = g.len /\ Used(u)[u.cur].kids
  BY <1>1, ItemNext
<1> HIDE DEF u
<1>3. Held(u) /\ u \in Machines /\ u.cur \in Int /\ u.cur >= 0 /\ u.rd \in Readers /\ Used(u)[u.cur].state = "opened"
  BY <1>2, AtItemParts DEF AtItem
<1>4. u.cur + 1 \in Slots /\ u.cur + 1 < u.len /\ u.cur + 1 < MaxDepth
  BY <1>1, <1>2, <1>3, MaxDepthAssumption DEF Slots
<1>5. ZeroNode \in Node /\ ZeroNode.state = "open" /\ ~ZeroNode.kids
  BY NewNodeFacts
<1>6. Held(p)
  BY <1>2, <1>3, <1>4, <1>5, HeldPush
<1> HIDE DEF p
<1>7. Held(Emit(p, u.rd))
  BY <1>3, <1>6, HeldEmit
<1>8. Raised(u, ZeroNode) = Emit(p, u.rd)
  BY <1>3, <1>4, <1>5, RaisedIsPushed DEF p
<1> QED
  BY <1>7, <1>8, SoundFail DEF u, g

-----------------------------------------------------------------------------
(* The specification. *)

(* It starts with nothing on the stack.                                    *)
LEMMA SoundInit ==
  Init => Inv
<1> SUFFICES ASSUME Init PROVE Sound(m)
  BY DEF Inv
<1>1. MaxDepth \in Nat /\ InitialNodeDepth \in Nat \ {0} /\ MaxDepth > 0
  BY MaxDepthAssumption, ArrayAssumption
<1>2. 0 \in Arrays /\ Cap[0] = InitialNodeDepth
  BY <1>1, CapDoubles DEF Arrays
<1> DEFINE mem == [g \in Arrays |-> [s \in Slots |-> ZeroNode]]
<1>3. mem \in [Arrays -> [Slots -> Node]]
  BY NewNodeFacts
<1>4. ReaderAtStart \in Readers /\ ReaderAtStart.ok /\ ReaderAtStart.top = -1
  <2>1. NoCell \in ReadCells
    BY DEF NoCell, ReadCells
  <2> QED
    BY <1>1, <2>1 DEF ReaderAtStart, Readers, EmptyCells
<1>5. "nil" \in Errors /\ <<>> \in Seq(FrameType)
  BY DEF Errors
<1> HIDE DEF mem
<1>6. /\ m.arr = 0 /\ m.len = InitialNodeDepth /\ m.cur = -1 /\ m.frames = <<>>
      /\ m.rd = ReaderAtStart /\ m.err = "nil" /\ m.doubt = FALSE
  BY DEF Init
<1>7. m \in Machines
  <2>1. -1 \in -1 .. MaxDepth - 1
    BY <1>1
  <2>2. m = [mem |-> mem, arr |-> 0, len |-> InitialNodeDepth, cur |-> -1, frames |-> <<>>,
             rd |-> ReaderAtStart, err |-> "nil", doubt |-> FALSE]
    BY DEF Init, mem
  <2>3. InitialNodeDepth \in Nat
    BY <1>1
  <2> QED
    BY <1>2, <1>3, <1>4, <1>5, <2>1, <2>2, <2>3 DEF Machines
<1>8. 1 .. Len(m.frames) = {} /\ 0 .. m.cur = {} /\ 0 .. m.cur - 1 = {}
  BY <1>6
<1>9. Held(m)
  BY <1>1, <1>2, <1>6, <1>7, <1>8 DEF Held, Loose
<1>10. Chain(m.frames, m.cur, m.len) /\ Topped(m)
  BY <1>6, <1>8 DEF Chain, Topped
<1>11. Agrees(m)
  BY <1>4, <1>6, <1>8 DEF Agrees, Ended, Reads
<1> QED
  BY <1>9, <1>10, <1>11 DEF Sound

(* Every call and every step of one keeps the invariant.                   *)
LEMMA SoundStep ==
  Inv /\ [Next]_m => Inv'
<1> SUFFICES ASSUME Inv, [Next]_m PROVE Sound(m')
  BY DEF Inv
<1>1. Sound(m)
  BY DEF Inv
<1>2. CASE StartElem
  <2>1. PICK c \in 0 .. MaxContent, full \in BOOLEAN : m' = NextChild(Call(Grow(m), PushFrame(NewNode(c, full))))
    BY <1>2, Zenon DEF StartElem
  <2>2. NewNode(c, full) \in Node /\ NewNode(c, full).state = "open" /\ ~NewNode(c, full).kids
    BY NewNodeFacts
  <2>3. m.frames = <<>> /\ m.cur + 1 < MaxDepth
    BY <1>2 DEF StartElem, Ready, CanPush
  <2> QED
    BY <1>1, <2>1, <2>2, <2>3, SoundStart
<1>3. CASE WriteElem
  <2>1. PICK c \in 0 .. MaxContent, full \in BOOLEAN :
          m' = NextChild(Call(Call(Grow(m), WriteFrame), PushFrame(NewNode(c, full))))
    BY <1>3, Zenon DEF WriteElem
  <2>2. NewNode(c, full) \in Node /\ NewNode(c, full).state = "open" /\ ~NewNode(c, full).kids
    BY NewNodeFacts
  <2>3. m.frames = <<>> /\ m.cur + 1 < MaxDepth
    BY <1>3 DEF WriteElem, Ready, CanPush
  <2> QED
    BY <1>1, <2>1, <2>2, <2>3, SoundWriteElem
<1>4. CASE WriteText
  <2>1. m.frames = <<>> /\ m' = NextChild(Call(m, TextFrame))
    BY <1>4 DEF WriteText, Ready
  <2> QED
    BY <1>1, <2>1, SoundWriteText
<1>5. CASE EndElem
  <2>1. m.frames = <<>> /\ m.cur >= 0 /\ m' = BeginEnd(m)
    BY <1>5 DEF EndElem, Ready
  <2> QED
    BY <1>1, <2>1, SoundEndElem
<1>6. CASE PushStep
  <2>1. m.frames # <<>> /\ Last(m.frames).fn = "push" /\ m.cur + 1 < MaxDepth
    BY <1>6 DEF PushStep, InCall, Top, CanPush
  <2>2. m' = Push(Return(m), Last(m.frames).node)
    BY <1>6, Zenon DEF PushStep, Top
  <2> QED
    BY <1>1, <2>1, <2>2, SoundPush
<1>7. CASE TextStep
  <2>1. m.frames # <<>> /\ Last(m.frames).fn = "text"
    BY <1>7 DEF TextStep, InCall, Top
  <2>2. m' = Emit(Return(m), ReadLeaf(m.rd, "text"))
    BY <1>7, Zenon DEF TextStep
  <2> QED
    BY <1>1, <2>1, <2>2, SoundText
<1>8. CASE WriteStep
  <2>1. m.frames # <<>> /\ Last(m.frames).fn = "write"
    BY <1>8 DEF WriteStep, InCall, Top
  <2>2. m' = BeginEnd(Return(m))
    BY <1>8, Zenon DEF WriteStep
  <2> QED
    BY <1>1, <2>1, <2>2, SoundWrite
<1>9. CASE EndStep
  <2>1. m.frames # <<>> /\ Last(m.frames).fn = "end"
    BY <1>9 DEF EndStep, InCall, Top
  <2>2. m' = Collected(FinishEnd(Return(m), Last(m.frames).n, Last(m.frames).prev))
    BY <1>9, Zenon DEF EndStep, Top
  <2> QED
    BY <1>1, <2>1, <2>2, SoundEnd
<1>10. CASE ContentDone
  <2>1. m.frames # <<>> /\ Last(m.frames).fn = "content" /\ Last(m.frames).left = 0
    BY <1>10 DEF ContentDone, InCall, Top
  <2>2. m' = Return(m)
    BY <1>10, Zenon DEF ContentDone
  <2> QED
    BY <1>1, <2>1, <2>2, SoundDone
<1> DEFINE x == Call(Return(m), ContentFrame(Last(m.frames).left - 1))
<1>11. NextItem = x
  BY Zenon DEF NextItem, Top
<1>12. ASSUME InCall("content"), Top.left > 0 PROVE AtItem(x) /\ x.cur = m.cur /\ x.rd = m.rd
  <2>1. m.frames # <<>> /\ Last(m.frames).fn = "content" /\ Last(m.frames).left > 0
    BY <1>12 DEF InCall, Top
  <2> QED
    BY <1>1, <2>1, ItemTaken
<1> HIDE DEF x
<1>13. CASE TextItem
  <2>1. AtItem(x) /\ x.rd = m.rd
    BY <1>12, <1>13 DEF TextItem
  <2>2. m' = Emit(NextChild(x), ReadLeaf(m.rd, "text"))
    BY <1>11, <1>13, Zenon DEF TextItem
  <2>3. Sound(Emit(NextChild(x), ReadLeaf(x.rd, "text")))
    BY <2>1, SoundTextItem
  <2> QED
    BY <2>1, <2>2, <2>3
<1>14. CASE CommentItem
  <2>1. AtItem(x) /\ x.rd = m.rd /\ x.cur + 1 < MaxDepth
    BY <1>12, <1>14 DEF CommentItem, CanPush
  <2>2. m' = Emit(NextChild(Grow(x)), ReadClose(ReadOpen(m.rd, "comment", NoName), "comment", NoName))
    BY <1>11, <1>14, Zenon DEF CommentItem
  <2>3. Sound(Emit(NextChild(Grow(x)), ReadClose(ReadOpen(x.rd, "comment", NoName), "comment", NoName)))
    BY <2>1, SoundCommentItem
  <2> QED
    BY <2>1, <2>2, <2>3
<1>15. CASE ElemItem
  <2>1. PICK c \in 0 .. MaxContent, full \in BOOLEAN : m' = Push(NextChild(Grow(Call(x, WriteFrame))), NewNode(c, full))
    BY <1>11, <1>15, Zenon DEF ElemItem
  <2>2. AtItem(x) /\ x.cur + 1 < MaxDepth
    BY <1>12, <1>15 DEF ElemItem, CanPush
  <2>3. NewNode(c, full) \in Node /\ NewNode(c, full).state = "open" /\ ~NewNode(c, full).kids
    BY NewNodeFacts
  <2> QED
    BY <2>1, <2>2, <2>3, SoundElemItem
<1>16. CASE BadItem
  <2>1. AtItem(x) /\ x.cur + 1 < MaxDepth
    BY <1>12, <1>16 DEF BadItem, CanPush
  <2>2. m' = Fail(Raised(NextChild(Grow(x)), ZeroNode))
    BY <1>11, <1>16, Zenon DEF BadItem, Raised
  <2> QED
    BY <2>1, <2>2, SoundBadItem
<1>17. CASE UNCHANGED m
  BY <1>1, <1>17
<1> QED
  BY <1>2, <1>3, <1>4, <1>5, <1>6, <1>7, <1>8, <1>9, <1>10, <1>13, <1>14, <1>15, <1>16, <1>17 DEF Next, Steps

(* In every reachable state the calls in progress, the memory they point   *)
(* into and the reader fit together.                                       *)
THEOREM Consistency == Spec => []Inv
<1> QED
  BY SoundInit, SoundStep, PTL DEF Spec

(* Every part of the machine has its type, the calls in progress nest no   *)
(* deeper than three per node, and the slice is no longer than its array.  *)
THEOREM ContentTypes == Spec => []TypeOK
<1>1. Inv => TypeOK
  <2> SUFFICES ASSUME Sound(m) PROVE TypeOK
    BY DEF Inv
  <2>1. m.mem \in [Arrays -> [Slots -> Node]] /\ m.arr \in Arrays /\ m.cur \in -1 .. MaxDepth - 1
    BY SoundParts, HeldParts
  <2>2. m.len \in 1 .. Cap[m.arr] /\ m.cur < m.len
    <3>1. m.len \in Nat /\ Cap[m.arr] \in Nat
      BY SoundParts, HeldParts
    <3>2. m.cur < m.len /\ 1 <= m.len /\ m.len <= Cap[m.arr]
      BY SoundParts DEF Loose
    <3> QED
      BY <3>1, <3>2
  <2>3. Len(m.frames) <= 3 * (MaxDepth + 1)
    <3>1. m.frames \in Seq(FrameType) /\ m.len \in Int /\ Chain(m.frames, m.cur, m.len)
      BY SoundParts
    <3> QED
      BY <2>1, <3>1, ChainShort
  <2>4. \A i \in DOMAIN m.frames : m.frames[i] \in FrameType
    <3>1. m.frames \in Seq(FrameType)
      BY SoundParts
    <3> QED
      BY <3>1
  <2>5. m.rd.ok \in BOOLEAN /\ m.rd.top \in -1 .. MaxDepth - 1
    <3>1. m.rd \in Readers
      BY SoundParts
    <3> QED
      BY <3>1, ReaderParts
  <2>6. m.err \in {"nil", "failed"} /\ m.doubt \in BOOLEAN
    BY SoundParts DEF Errors
  <2> QED
    BY <2>1, <2>2, <2>3, <2>4, <2>5, <2>6, Zenon DEF TypeOK
<1> QED
  BY <1>1, Consistency, PTL

(* node.end's pointer disagrees with the node in use only at the last slot *)
(* of an array the slice has left.                                         *)
THEOREM StalenessIsRare == Spec => []StaleOnlyAtBoundary
<1>1. Inv => StaleOnlyAtBoundary
  <2> SUFFICES ASSUME Sound(m), NEW i \in DOMAIN m.frames, m.frames[i].fn = "end",
                      Deref(m, m.frames[i].n).kids # m.mem[m.arr][m.frames[i].n.at].kids
               PROVE  m.frames[i].n.arr # m.arr /\ m.frames[i].n.at = Cap[m.frames[i].n.arr] - 1
    BY DEF Inv, StaleOnlyAtBoundary
  <2> DEFINE n == m.frames[i].n
  <2>1. m.frames \in Seq(FrameType) /\ m \in Machines /\ Loose(m)
    BY SoundParts
  <2>2. i \in 1 .. Len(m.frames)
    BY <2>1
  <2>3. Points(m, n)
    BY <2>1, <2>2 DEF Loose
  <2> HIDE DEF n
  <2>4. Deref(m, n).kids # Used(m)[n.at].kids
    BY DEF Used, n
  <2>5. n.arr # m.arr
    BY <2>4 DEF Deref, Used
  <2>6. Deref(m, n).kids \in BOOLEAN /\ Used(m)[n.at].kids \in BOOLEAN
    <3>1. n.arr \in Arrays /\ n.at \in Slots
      BY <2>1, <2>2, FramePointer DEF n
    <3>2. m.mem \in [Arrays -> [Slots -> Node]] /\ m.arr \in Arrays
      BY <2>1, HeldParts
    <3>3. Deref(m, n) \in Node /\ Used(m)[n.at] \in Node
      BY <3>1, <3>2 DEF Deref, Used
    <3> QED
      BY <3>3, NodeParts
  <2>7. ~(Deref(m, n).kids /\ Used(m)[n.at].kids)
    BY <2>4, <2>6
  <2>8. n.at < Cap[n.arr] /\ n.at = Cap[n.arr] - 1
    BY <2>3, <2>5, <2>7 DEF Points
  <2> QED
    BY <2>5, <2>8 DEF n
<1> QED
  BY <1>1, Consistency, PTL

(* Between calls that returned no error the reader has open exactly what   *)
(* is on the stack, each start tag finished or not as the state says,      *)
(* unless such a pointer or an error that Text.write dropped came first.   *)
THEOREM ContentIsNested == Spec => []ReaderAgreesWithoutDoubt
<1>1. Inv => ReaderAgreesWithoutDoubt
  <2> SUFFICES ASSUME Sound(m), Ready, ~m.doubt PROVE ReaderAgrees
    BY DEF Inv, ReaderAgreesWithoutDoubt
  <2>1. Reads(m.rd, Used(m), m.cur)
    BY ReadyQuiet DEF Ready, Quiet
  <2> QED
    BY <2>1 DEF Reads, ReaderAgrees, Used
<1> QED
  BY <1>1, Consistency, PTL
=============================================================================
