---------------------------- MODULE ReplayProofs ----------------------------
(***************************************************************************)
(* Proofs about Replay and BothPlayers, for every depth of the document,   *)
(* every set of element names and every place where a construct may abut a *)
(* list of attributes but for two (Spaced).                                *)
(*                                                                         *)
(* The builder's flags, the script that is left, the Writer behind run.w   *)
(* with the reader of its output, and the writer of libxml2 are all about  *)
(* one thing: a stack D of constructs that are open.                       *)
(*   WriterOf(D) and LibOf(D) are the two writers that have D open.        *)
(*   Takes(D, c) says which commands c either of them takes, and           *)
(*     After(D, c) what the command makes of D.  A command that is taken   *)
(*     makes of WriterOf(D) the WriterOf(After(D, c)) (PlayedIs), and the  *)
(*     same for LibOf (LibStarts, LibWrites, LibEnds).                     *)
(*   Shape(D, src, ctx) says that D is what is open in the document as far *)
(*     as it was read, and that the builder's flags say so.                *)
(*   Leads(D, script, src, ctx) says that the commands still to be played  *)
(*     are taken one after the other, and lead from D to such a stack.     *)
(* A handler extends what the script leads to (HandlerLeads), a player     *)
(* moves D on (ExecKeeps, CExecKeeps), and whenever the script is played,  *)
(* what is open on either side is what is open in the document.            *)
(***************************************************************************)
EXTENDS BothPlayers, Lemmas

-----------------------------------------------------------------------------
(* Stacks. *)

(* The kinds of nodes that Start puts on the stack. *)
OpenKinds == {"doc", "dtd", "dtdattlist", "elem", "comment", "cdata"}

(* An item is a construct that is open; begun says that it has content. *)
Items == {x \in [kind : OpenKinds, name : ElemNames \cup {Nameless}, begun : BOOLEAN] :
            x.kind \in {"doc", "comment", "cdata"} => x.name = Nameless}

Item(kind, name) == [kind |-> kind, name |-> name, begun |-> FALSE]

(* The innermost is about to have content.                                 *)
Begun(D) == IF D = <<>> THEN D ELSE [D EXCEPT ![Len(D)] = [@ EXCEPT !.begun = TRUE]]

(* A comment or a section is written as a whole, its content with it.      *)
Body(x) == IF x.kind \in {"comment", "cdata"} THEN "ok" ELSE "none"

(* The node of an item: as Start makes it, when Next has counted a child,  *)
(* and when it is opened.                                                  *)
NewOf(x) ==
  [kind |-> x.kind, state |-> "open", kids |-> FALSE, full |-> FALSE, name |-> x.name,
   body |-> Body(x), ns |-> "none"]

CountedOf(x) ==
  [kind |-> x.kind, state |-> "open", kids |-> TRUE, full |-> FALSE, name |-> x.name,
   body |-> Body(x), ns |-> "none"]

OpenedOf(x) ==
  [kind |-> x.kind, state |-> "opened", kids |-> TRUE, full |-> FALSE, name |-> x.name,
   body |-> "none", ns |-> "none"]

NodeOf(x) == IF x.begun THEN OpenedOf(x) ELSE NewOf(x)

Tagged(kind, name) == [kind |-> kind, name |-> name, tag |-> TRUE]

Bare(kind, name) == [kind |-> kind, name |-> name, tag |-> FALSE]

(* Its cell in the reader, whose tag ends when its content begins. *)
CellOf(x) ==
  IF x.kind = "dtdattlist" \/ (x.kind \in {"elem", "dtd"} /\ ~x.begun)
  THEN Tagged(x.kind, x.name) ELSE Bare(x.kind, x.name)

(* The slots of the Writer and of the reader that have D open. *)
NodesOf(D) == [s \in 0 .. MaxDepth - 1 |-> IF s < Len(D) THEN NodeOf(D[s + 1]) ELSE W!NoNode]

CellsOf(D) == [s \in 0 .. MaxDepth - 1 |-> IF s < Len(D) THEN CellOf(D[s + 1]) ELSE W!NoCell]

Put(f, i, z) == [f EXCEPT ![i] = z]

(* A reader that has lost nothing, a writer that no call has failed. *)
Reader(top, cells) == [ok |-> TRUE, top |-> top, cell |-> cells]

Writer(nodes, cur, rd) == [node |-> nodes, cur |-> cur, rd |-> rd, err |-> "nil"]

ReaderOf(D) == Reader(Len(D) - 1, CellsOf(D))

WriterOf(D) == Writer(NodesOf(D), Len(D) - 1, ReaderOf(D))

(* The kind of the innermost. *)
TopKind(D) == IF D = <<>> THEN "none" ELSE D[Len(D)].kind

(* The stack of constructs that are open, the outermost first. *)
Stacks == {D \in Seq(Items) : Len(D) <= MaxDepth}

-----------------------------------------------------------------------------
(* What a change of the innermost does to the slots of the Writer and of   *)
(* the reader.                                                             *)
LEMMA ReplaceTop ==
  ASSUME NEW D \in Stacks, D # <<>>, NEW x \in Items
  PROVE  LET E == Put(D, Len(D), x)
         IN /\ E \in Stacks /\ Len(E) = Len(D) /\ E[Len(D)] = x /\ E # <<>>
            /\ \A i \in 1 .. Len(D) - 1 : E[i] = D[i]
            /\ NodesOf(E) = Put(NodesOf(D), Len(D) - 1, NodeOf(x))
            /\ CellsOf(E) = Put(CellsOf(D), Len(D) - 1, CellOf(x))
<1> DEFINE n == Len(D)
           E == Put(D, n, x)
<1>1. D \in Seq(Items) /\ n \in Nat /\ n >= 1 /\ n <= MaxDepth /\ MaxDepth \in Nat
  BY EmptySeq, LenProperties, ReplayAssumption DEF Stacks
<1>2. E \in Seq(Items) /\ Len(E) = n /\ \A i \in 1 .. n : E[i] = IF i = n THEN x ELSE D[i]
  BY <1>1, ExceptSeq DEF Put
<1>3. E # <<>>
  BY <1>1, <1>2, EmptySeq
<1> HIDE DEF n, E
<1>4. NodesOf(E) = Put(NodesOf(D), n - 1, NodeOf(x))
  <2>1. \A s \in 0 .. MaxDepth - 1 : (IF s < n THEN NodeOf(E[s + 1]) ELSE W!NoNode)
                                     = IF s = n - 1 THEN NodeOf(x) ELSE (IF s < n THEN NodeOf(D[s + 1]) ELSE W!NoNode)
    BY <1>1, <1>2
  <2>2. n - 1 \in 0 .. MaxDepth - 1
    BY <1>1
  <2> QED BY <1>1, <1>2, <2>1, <2>2 DEF NodesOf, Put, n
<1>5. CellsOf(E) = Put(CellsOf(D), n - 1, CellOf(x))
  <2>1. \A s \in 0 .. MaxDepth - 1 : (IF s < n THEN CellOf(E[s + 1]) ELSE W!NoCell)
                                     = IF s = n - 1 THEN CellOf(x) ELSE (IF s < n THEN CellOf(D[s + 1]) ELSE W!NoCell)
    BY <1>1, <1>2
  <2>2. n - 1 \in 0 .. MaxDepth - 1
    BY <1>1
  <2> QED BY <1>1, <1>2, <2>1, <2>2 DEF CellsOf, Put, n
<1>6. E \in Stacks
  BY <1>1, <1>2 DEF Stacks
<1>7. E[n] = x /\ \A i \in 1 .. n - 1 : E[i] = D[i]
  BY <1>1, <1>2
<1> QED BY <1>1, <1>2, <1>3, <1>4, <1>5, <1>6, <1>7 DEF n, E

(* What one more does to them. *)
LEMMA PushTop ==
  ASSUME NEW D \in Stacks, Len(D) < MaxDepth, NEW x \in Items
  PROVE  LET E == Append(D, x)
         IN /\ E \in Stacks /\ Len(E) = Len(D) + 1 /\ Len(D) \in Nat /\ E[Len(D) + 1] = x /\ E # <<>>
            /\ \A i \in 1 .. Len(D) : E[i] = D[i]
            /\ NodesOf(E) = Put(NodesOf(D), Len(D), NodeOf(x))
            /\ CellsOf(E) = Put(CellsOf(D), Len(D), CellOf(x))
<1> DEFINE n == Len(D)
           E == Append(D, x)
<1>1. D \in Seq(Items) /\ n \in Nat /\ n < MaxDepth /\ MaxDepth \in Nat
  BY LenProperties, ReplayAssumption DEF Stacks
<1>2. E \in Seq(Items) /\ Len(E) = n + 1 /\ \A i \in 1 .. n + 1 : E[i] = IF i = n + 1 THEN x ELSE D[i]
  BY <1>1, AppendProperties
<1>3. E # <<>>
  BY <1>1, <1>2, EmptySeq
<1> HIDE DEF n, E
<1>4. NodesOf(E) = Put(NodesOf(D), n, NodeOf(x))
  <2>1. \A s \in 0 .. MaxDepth - 1 : (IF s < n + 1 THEN NodeOf(E[s + 1]) ELSE W!NoNode)
                                     = IF s = n THEN NodeOf(x) ELSE (IF s < n THEN NodeOf(D[s + 1]) ELSE W!NoNode)
    BY <1>1, <1>2
  <2>2. n \in 0 .. MaxDepth - 1
    BY <1>1
  <2> QED BY <1>1, <1>2, <2>1, <2>2 DEF NodesOf, Put, n
<1>5. CellsOf(E) = Put(CellsOf(D), n, CellOf(x))
  <2>1. \A s \in 0 .. MaxDepth - 1 : (IF s < n + 1 THEN CellOf(E[s + 1]) ELSE W!NoCell)
                                     = IF s = n THEN CellOf(x) ELSE (IF s < n THEN CellOf(D[s + 1]) ELSE W!NoCell)
    BY <1>1, <1>2
  <2>2. n \in 0 .. MaxDepth - 1
    BY <1>1
  <2> QED BY <1>1, <1>2, <2>1, <2>2 DEF CellsOf, Put, n
<1>6. E \in Stacks
  BY <1>1, <1>2 DEF Stacks
<1>7. E[n + 1] = x /\ \A i \in 1 .. n : E[i] = D[i]
  BY <1>1, <1>2
<1> QED BY <1>1, <1>2, <1>3, <1>4, <1>5, <1>6, <1>7 DEF n, E

(* What one less does to them. *)
LEMMA DropTop ==
  ASSUME NEW D \in Stacks, D # <<>>
  PROVE  LET E == Front(D)
         IN /\ E \in Stacks /\ Len(E) = Len(D) - 1
            /\ \A i \in 1 .. Len(D) - 1 : E[i] = D[i]
            /\ NodesOf(E) = Put(NodesOf(D), Len(D) - 1, W!NoNode)
            /\ CellsOf(E) = Put(CellsOf(D), Len(D) - 1, W!NoCell)
<1> DEFINE n == Len(D)
           E == Front(D)
<1>1. D \in Seq(Items) /\ n \in Nat /\ n >= 1 /\ n <= MaxDepth /\ MaxDepth \in Nat
  BY EmptySeq, LenProperties, ReplayAssumption DEF Stacks
<1>2. E \in Seq(Items) /\ Len(E) = n - 1 /\ \A i \in 1 .. n - 1 : E[i] = D[i]
  <2>1. E = SubSeq(D, 1, Len(D) - 1)
    BY DEF Front
  <2> QED BY <1>1, <2>1, LastDropped
<1> HIDE DEF n, E
<1>4. NodesOf(E) = Put(NodesOf(D), n - 1, W!NoNode)
  <2>1. \A s \in 0 .. MaxDepth - 1 : (IF s < n - 1 THEN NodeOf(E[s + 1]) ELSE W!NoNode)
                                     = IF s = n - 1 THEN W!NoNode ELSE (IF s < n THEN NodeOf(D[s + 1]) ELSE W!NoNode)
    BY <1>1, <1>2
  <2>2. n - 1 \in 0 .. MaxDepth - 1
    BY <1>1
  <2> QED BY <1>1, <1>2, <2>1, <2>2 DEF NodesOf, Put, n
<1>5. CellsOf(E) = Put(CellsOf(D), n - 1, W!NoCell)
  <2>1. \A s \in 0 .. MaxDepth - 1 : (IF s < n - 1 THEN CellOf(E[s + 1]) ELSE W!NoCell)
                                     = IF s = n - 1 THEN W!NoCell ELSE (IF s < n THEN CellOf(D[s + 1]) ELSE W!NoCell)
    BY <1>1, <1>2
  <2>2. n - 1 \in 0 .. MaxDepth - 1
    BY <1>1
  <2> QED BY <1>1, <1>2, <2>1, <2>2 DEF CellsOf, Put, n
<1>6. E \in Stacks
  BY <1>1, <1>2 DEF Stacks
<1> QED BY <1>1, <1>2, <1>4, <1>5, <1>6 DEF n, E

-----------------------------------------------------------------------------
(* The Writer's operators. *)

(* The fields of a writer that no call has failed. *)
LEMMA WriterFields ==
  ASSUME NEW nodes, NEW cur, NEW rd
  PROVE  LET v == Writer(nodes, cur, rd)
         IN v.cur = cur /\ v.rd = rd /\ v.err = "nil" /\ v.node = nodes /\ W!Top(v) = nodes[cur]
BY DEF Writer, W!Top

(* Changing the current node, writing, pushing and dropping it: each is    *)
(* one change to one field.                                                *)
LEMMA SetsTop ==
  ASSUME NEW nodes, NEW cur, NEW rd, NEW z
  PROVE  W!SetTop(Writer(nodes, cur, rd), z) = Writer(Put(nodes, cur, z), cur, rd)
BY DEF Writer, W!SetTop, Put

(* Writing is what the reader makes of it. *)
LEMMA Writes ==
  ASSUME NEW nodes, NEW cur, NEW rd, NEW r
  PROVE  W!Wrote(Writer(nodes, cur, rd), r) = Writer(nodes, cur, r)
BY DEF Writer, W!Wrote

(* Pushing fills the slot above the current one. *)
LEMMA Pushes ==
  ASSUME NEW nodes, NEW cur \in Int, NEW rd, NEW z
  PROVE  W!Push(Writer(nodes, cur, rd), z) = Writer(Put(nodes, cur + 1, z), cur + 1, rd)
<1> DEFINE v == Writer(nodes, cur, rd)
<1>0. v.cur = cur /\ v.node = nodes
  BY WriterFields
<1>1. W!Push(v, z) = [v EXCEPT !.cur = cur + 1, !.node = Put(nodes, cur + 1, z)]
  BY <1>0 DEF W!Push, Put
<1> QED BY <1>1 DEF Writer

(* Dropping clears the current slot. *)
LEMMA Drops ==
  ASSUME NEW nodes, NEW cur \in Int, NEW rd
  PROVE  W!Drop(Writer(nodes, cur, rd)) = Writer(Put(nodes, cur, W!NoNode), cur - 1, rd)
<1> DEFINE v == Writer(nodes, cur, rd)
<1>0. v.cur = cur /\ v.node = nodes
  BY WriterFields
<1>1. W!Drop(v) = [v EXCEPT !.cur = cur - 1, !.node = Put(nodes, cur, W!NoNode)]
  BY <1>0 DEF W!Drop, Put
<1> QED BY <1>1 DEF Writer

(* The fields of a reader that has lost nothing. *)
LEMMA ReaderFields ==
  ASSUME NEW top, NEW cells
  PROVE  Reader(top, cells).ok = TRUE /\ Reader(top, cells).top = top /\ Reader(top, cells).cell = cells
BY DEF Reader

(* The ">" of a start tag. *)
LEMMA TagEnds ==
  ASSUME NEW top \in Int, NEW cells
  PROVE  W!EndOfTag(Reader(top, cells)) = Reader(top, Put(cells, top, Bare(cells[top].kind, cells[top].name)))
<1> DEFINE r == Reader(top, cells)
<1>0. r.top = top /\ r.cell = cells
  BY ReaderFields
<1>1. W!EndOfTag(r) = [r EXCEPT !.cell = Put(cells, top, Bare(cells[top].kind, cells[top].name))]
  BY <1>0 DEF W!EndOfTag, Put, Bare
<1> QED BY <1>1 DEF Reader

(* The reader leaves its innermost construct. *)
LEMMA Ascends ==
  ASSUME NEW top \in Int, NEW cells
  PROVE  W!Ascend(Reader(top, cells)) = Reader(top - 1, Put(cells, top, W!NoCell))
<1> DEFINE r == Reader(top, cells)
<1>0. r.top = top /\ r.cell = cells
  BY ReaderFields
<1>1. W!Ascend(r) = [r EXCEPT !.top = top - 1, !.cell = Put(cells, top, W!NoCell)]
  BY <1>0 DEF W!Ascend, Put
<1> QED BY <1>1 DEF Reader

(* The last change of a slot is the one that counts. *)
LEMMA PutTwice ==
  ASSUME NEW f, NEW i, NEW y, NEW z
  PROVE  /\ Put(Put(f, i, y), i, z) = Put(f, i, z)
         /\ i \in DOMAIN f => Put(f, i, z)[i] = z
BY DEF Put

(* Storing what is there changes nothing. *)
LEMMA PutSame ==
  ASSUME NEW S, NEW f, f = [s \in S |-> f[s]], NEW i
  PROVE  Put(f, i, f[i]) = f
BY DEF Put

(* The writer and the reader that have a stack open: their current node is *)
(* its innermost.                                                          *)
LEMMA Facts ==
  ASSUME NEW D \in Stacks
  PROVE  LET v == WriterOf(D)
             n == Len(D)
             m == n - 1
         IN /\ n \in Nat /\ n <= MaxDepth /\ MaxDepth \in Nat
            /\ (D = <<>>) <=> (n = 0)
            /\ v = Writer(NodesOf(D), m, ReaderOf(D)) /\ ReaderOf(D) = Reader(m, CellsOf(D))
            /\ D # <<>> => /\ n >= 1 /\ D[n] \in Items /\ m \in 0 .. MaxDepth - 1 /\ m >= 0
                           /\ W!Top(v) = NodeOf(D[n]) /\ CellsOf(D)[m] = CellOf(D[n])
                           /\ NodesOf(D)[m] = NodeOf(D[n])
            /\ W!CurrentKind(v) = TopKind(D)
            /\ v.cur = m /\ v.rd = ReaderOf(D) /\ v.err = "nil" /\ v.node = NodesOf(D)
            /\ ReaderOf(D).ok = TRUE /\ ReaderOf(D).top = m /\ ReaderOf(D).cell = CellsOf(D)
            /\ DOMAIN NodesOf(D) = 0 .. MaxDepth - 1 /\ DOMAIN CellsOf(D) = 0 .. MaxDepth - 1
<1> DEFINE n == Len(D)
           v == WriterOf(D)
<1>1. n \in Nat /\ n <= MaxDepth /\ MaxDepth \in Nat /\ D \in Seq(Items) /\ (D = <<>> <=> n = 0)
  BY EmptySeq, LenProperties, ReplayAssumption DEF Stacks
<1>2. v = Writer(NodesOf(D), n - 1, ReaderOf(D)) /\ ReaderOf(D) = Reader(n - 1, CellsOf(D))
      /\ v.cur = n - 1 /\ v.rd = ReaderOf(D) /\ v.err = "nil" /\ v.node = NodesOf(D)
      /\ ReaderOf(D).ok = TRUE /\ ReaderOf(D).top = n - 1 /\ ReaderOf(D).cell = CellsOf(D)
  BY DEF WriterOf, ReaderOf, Writer, Reader
<1>3. ASSUME D # <<>>
      PROVE /\ n >= 1 /\ D[n] \in Items /\ n - 1 \in 0 .. MaxDepth - 1 /\ n - 1 >= 0
            /\ CellsOf(D)[n - 1] = CellOf(D[n]) /\ NodesOf(D)[n - 1] = NodeOf(D[n])
  <2>1. n >= 1 /\ n \in 1 .. n /\ n - 1 \in 0 .. MaxDepth - 1 /\ (n - 1) + 1 = n /\ n - 1 < n
    BY <1>1, <1>3
  <2>2. D[n] \in Items
    BY <1>1, <2>1, ElementOfSeq
  <2> HIDE DEF n
  <2>3. CellsOf(D)[n - 1] = CellOf(D[n]) /\ NodesOf(D)[n - 1] = NodeOf(D[n])
    BY <2>1 DEF CellsOf, NodesOf, n
  <2> QED BY <1>1, <2>1, <2>2, <2>3
<1>4. D # <<>> => W!Top(v) = NodeOf(D[n])
  BY <1>2, <1>3 DEF W!Top
<1>5. W!CurrentKind(v) = TopKind(D)
  <2>1. CASE D = <<>>
    BY <1>1, <1>2, <2>1 DEF W!CurrentKind, TopKind
  <2>2. CASE D # <<>>
    BY <1>1, <1>2, <1>3, <1>4, <2>2 DEF W!CurrentKind, TopKind, NodeOf, NewOf, OpenedOf
  <2> QED BY <2>1, <2>2
<1>6. DOMAIN NodesOf(D) = 0 .. MaxDepth - 1 /\ DOMAIN CellsOf(D) = 0 .. MaxDepth - 1
  BY DEF NodesOf, CellsOf
<1> QED BY <1>1, <1>2, <1>3, <1>4, <1>5, <1>6

Fields == {"kind", "state", "kids", "full", "name", "body", "ns"}

(* A node whose children are counted, and one that is opened.              *)
LEMMA NodeBecomes ==
  ASSUME NEW n, n = [f \in Fields |-> n[f]], NEW c, c = [f \in Fields |-> c[f]]
  PROVE  LET Same(f) == c[f] = n[f]
         IN /\ /\ Same("kind") /\ Same("state") /\ c.kids = TRUE /\ Same("full") /\ Same("name")
               /\ Same("body") /\ Same("ns")
               => [n EXCEPT !.kids = TRUE] = c
            /\ /\ Same("kind") /\ c.state = "opened" /\ Same("kids") /\ Same("full") /\ Same("name")
               /\ Same("body") /\ c.ns = "none"
               => [n EXCEPT !.state = "opened", !.ns = "none"] = c
            /\ /\ Same("kind") /\ c.state = "opened" /\ c.kids = TRUE /\ Same("full") /\ Same("name")
               /\ c.body = "none" /\ Same("ns")
               => [n EXCEPT !.state = "opened", !.kids = TRUE, !.body = "none"] = c
BY DEF Fields

(* A node as the Writer has it. *)
LEMMA NodeFacts ==
  ASSUME NEW x \in Items
  PROVE  LET n == NodeOf(x)
             y == [x EXCEPT !.begun = TRUE]
         IN /\ x.kind \in OpenKinds /\ x.begun \in BOOLEAN
            /\ y \in Items /\ y.kind = x.kind /\ y.name = x.name /\ y.begun = TRUE /\ (x.begun => y = x)
            /\ n.kind = x.kind /\ n.name = x.name /\ n.full = FALSE
            /\ x.begun => n.state = "opened" /\ n.kids = TRUE /\ [n EXCEPT !.kids = TRUE] = n
            /\ ~x.begun => /\ n.state = "open" /\ n.kids = FALSE /\ n.body = Body(x)
                           /\ [n EXCEPT !.kids = TRUE] = CountedOf(x)
            /\ NodeOf(y) = OpenedOf(x)
            /\ CellOf(y) = IF x.kind = "dtdattlist" THEN Tagged(x.kind, x.name) ELSE Bare(x.kind, x.name)
<1> DEFINE n == NodeOf(x)
           y == [x EXCEPT !.begun = TRUE]
<1>1. /\ x.kind \in OpenKinds /\ x.begun \in BOOLEAN
      /\ y \in Items /\ y.kind = x.kind /\ y.name = x.name /\ y.begun = TRUE /\ (x.begun => y = x)
  BY DEF Items
<1> HIDE DEF y
<1>2. n.kind = x.kind /\ n.name = x.name /\ n.full = FALSE
  BY DEF NodeOf, OpenedOf, NewOf
<1>3. x.begun => n.state = "opened" /\ n.kids = TRUE /\ [n EXCEPT !.kids = TRUE] = n
  <2>1. OpenedOf(x).state = "opened" /\ OpenedOf(x).kids = TRUE
    BY DEF OpenedOf
  <2>2. [OpenedOf(x) EXCEPT !.kids = TRUE] = OpenedOf(x)
    <3> DEFINE a == OpenedOf(x)
    <3>1. a = [f \in Fields |-> a[f]] /\ a.kids = TRUE
      BY DEF OpenedOf, Fields
    <3> HIDE DEF a
    <3>2. [a EXCEPT !.kids = TRUE] = a
      BY <3>1 DEF Fields
    <3> QED BY <3>2 DEF a
  <2> QED BY <2>1, <2>2 DEF NodeOf
<1>4. ~x.begun => /\ n.state = "open" /\ n.kids = FALSE /\ n.body = Body(x)
                  /\ [n EXCEPT !.kids = TRUE] = CountedOf(x)
  <2>1. NewOf(x).state = "open" /\ NewOf(x).kids = FALSE /\ NewOf(x).body = Body(x)
    BY DEF NewOf
  <2>2. [NewOf(x) EXCEPT !.kids = TRUE] = CountedOf(x)
    <3> DEFINE a == NewOf(x)
               c == CountedOf(x)
    <3>1. /\ a = [f \in Fields |-> a[f]] /\ c = [f \in Fields |-> c[f]]
          /\ a.kind = c.kind /\ a.state = c.state /\ c.kids = TRUE /\ a.full = c.full /\ a.name = c.name
             /\ a.body = c.body /\ a.ns = c.ns
      BY DEF NewOf, CountedOf, Fields
    <3> HIDE DEF a, c
    <3>2. [a EXCEPT !.kids = TRUE] = c
      BY <3>1, NodeBecomes
    <3> QED BY <3>2 DEF a, c
  <2> QED BY <2>1, <2>2 DEF NodeOf
<1>5. NodeOf(y) = OpenedOf(x)
  BY <1>1 DEF NodeOf, OpenedOf
<1>8. CellOf(y) = IF x.kind = "dtdattlist" THEN Tagged(x.kind, x.name) ELSE Bare(x.kind, x.name)
  BY <1>1 DEF CellOf
<1> QED BY <1>1, <1>2, <1>3, <1>4, <1>5, <1>8 DEF y

(* A node that Next has counted, before and after it is opened. *)
LEMMA CountedFields ==
  ASSUME NEW x
  PROVE  LET k == CountedOf(x)
         IN /\ k.kind = x.kind /\ k.state = "open" /\ k.kids = TRUE /\ k.full = FALSE /\ k.name = x.name
            /\ k.body = Body(x) /\ k.ns = "none"
            /\ Body(x) = "none" => [k EXCEPT !.state = "opened", !.ns = "none"] = OpenedOf(x)
            /\ [k EXCEPT !.state = "opened", !.kids = TRUE, !.body = "none"] = OpenedOf(x)
<1> DEFINE k == CountedOf(x)
<1>1. k.kind = x.kind /\ k.state = "open" /\ k.kids = TRUE /\ k.full = FALSE /\ k.name = x.name /\ k.body = Body(x) /\ k.ns = "none"
  BY DEF CountedOf
<1> DEFINE o == OpenedOf(x)
<1>2. /\ k = [f \in Fields |-> k[f]] /\ o = [f \in Fields |-> o[f]]
      /\ o.kind = k.kind /\ o.state = "opened" /\ o.kids = k.kids /\ o.kids = TRUE /\ o.full = k.full
      /\ o.name = k.name /\ o.body = "none" /\ k.body = Body(x) /\ k.ns = "none" /\ o.ns = "none"
  BY DEF CountedOf, OpenedOf, Fields
<1>3. Body(x) = "none" => [k EXCEPT !.state = "opened", !.ns = "none"] = o
  <2> HIDE DEF k, o
  <2>1. o.kind = k.kind /\ o.full = k.full /\ o.name = k.name /\ o.kids = k.kids
    BY <1>2
  <2>2. Body(x) = "none" => o.body = k.body
    BY <1>2
  <2> QED BY <1>2, <2>1, <2>2, NodeBecomes
<1>4. [k EXCEPT !.state = "opened", !.kids = TRUE, !.body = "none"] = o
  <2> HIDE DEF k, o
  <2>1. o.kind = k.kind /\ o.full = k.full /\ o.name = k.name /\ o.ns = k.ns
    BY <1>2
  <2> QED BY <1>2, <2>1, NodeBecomes
<1> QED BY <1>1, <1>3, <1>4

(* The fields of a cell. *)
LEMMA CellFields ==
  ASSUME NEW kind, NEW name
  PROVE  /\ Tagged(kind, name).kind = kind /\ Tagged(kind, name).name = name /\ Tagged(kind, name).tag = TRUE
         /\ Bare(kind, name).kind = kind /\ Bare(kind, name).name = name /\ Bare(kind, name).tag = FALSE
BY DEF Tagged, Bare

(* A stack whose innermost has begun differs in one place. *)
LEMMA BegunIs ==
  ASSUME NEW D \in Stacks, D # <<>>
  PROVE  LET x == D[Len(D)]
             y == [x EXCEPT !.begun = TRUE]
         IN /\ y \in Items /\ y.kind = x.kind /\ y.name = x.name /\ y.begun = TRUE
            /\ Begun(D) = Put(D, Len(D), y)
            /\ x.begun => Begun(D) = D
<1> DEFINE x == D[Len(D)]
           y == [x EXCEPT !.begun = TRUE]
<1>1. x \in Items /\ D \in Seq(Items) /\ Len(D) \in 1 .. Len(D)
  BY Facts DEF Stacks
<1>2. y \in Items /\ y.kind = x.kind /\ y.name = x.name /\ y.begun = TRUE
  BY <1>1 DEF Items
<1>3. Begun(D) = Put(D, Len(D), y)
  BY DEF Begun, Put
<1>4. x.begun => y = x
  BY <1>1 DEF Items
<1>5. Put(D, Len(D), x) = D
  BY <1>1, SeqDef DEF Put
<1> QED BY <1>2, <1>3, <1>4, <1>5

(* Next starts the innermost. *)
LEMMA NextBegins ==
  ASSUME NEW D \in Stacks
  PROVE  W!NextChild(WriterOf(D)) = WriterOf(Begun(D))
<1> DEFINE v == WriterOf(D)
           n == Len(D)
           m == n - 1
           x == D[n]
           y == [x EXCEPT !.begun = TRUE]
           E == Put(D, n, y)
<1>1. CASE D = <<>>
  <2>1. v.cur = n - 1 /\ n = 0
    BY <1>1, Facts
  <2>2. Begun(D) = D
    BY <1>1 DEF Begun
  <2> QED BY <2>1, <2>2 DEF W!NextChild
<1>2. ASSUME D # <<>> PROVE W!NextChild(v) = WriterOf(E)
  <2>1. /\ n \in Nat /\ n >= 1 /\ x \in Items /\ m \in 0 .. MaxDepth - 1 /\ ~(m < 0) /\ m >= 0 /\ m \in Int
        /\ v = Writer(NodesOf(D), m, ReaderOf(D)) /\ v.cur = m
        /\ ReaderOf(D) = Reader(m, CellsOf(D))
        /\ W!Top(v) = NodeOf(x) /\ CellsOf(D)[m] = CellOf(x) /\ NodesOf(D)[m] = NodeOf(x)
        /\ DOMAIN NodesOf(D) = 0 .. MaxDepth - 1
        /\ ReaderOf(D).ok = TRUE /\ ReaderOf(D).top = m /\ ReaderOf(D).cell = CellsOf(D)
    <3>1. /\ n \in Nat /\ n >= 1 /\ x \in Items /\ m \in 0 .. MaxDepth - 1 /\ m >= 0
          /\ W!Top(v) = NodeOf(x) /\ CellsOf(D)[m] = CellOf(x) /\ NodesOf(D)[m] = NodeOf(x)
      BY <1>2, Facts
    <3>2. /\ v = Writer(NodesOf(D), m, ReaderOf(D)) /\ v.cur = m /\ ReaderOf(D) = Reader(m, CellsOf(D))
          /\ DOMAIN NodesOf(D) = 0 .. MaxDepth - 1
          /\ ReaderOf(D).ok = TRUE /\ ReaderOf(D).top = m /\ ReaderOf(D).cell = CellsOf(D)
      BY Facts
    <3> QED BY <3>1, <3>2
  <2>2. y \in Items /\ y.kind = x.kind /\ y.name = x.name /\ y.begun = TRUE
        /\ x.kind \in OpenKinds /\ x.begun \in BOOLEAN /\ (x.begun => y = x)
    BY <2>1 DEF Items
  <2>3. /\ E \in Stacks /\ Len(E) = n
        /\ NodesOf(E) = Put(NodesOf(D), m, NodeOf(y))
        /\ CellsOf(E) = Put(CellsOf(D), m, CellOf(y))
    BY <1>2, <2>2, ReplaceTop
  <2>4. WriterOf(E) = Writer(NodesOf(E), m, ReaderOf(E)) /\ ReaderOf(E) = Reader(m, CellsOf(E))
    BY <2>3, Facts
  <2>5. PICK z : z = y /\ (x.begun => z = x)
    BY <2>2
  <2>6. /\ CellOf(z) = IF x.kind = "dtdattlist" THEN Tagged(x.kind, x.name) ELSE Bare(x.kind, x.name)
        /\ NodeOf(z) = OpenedOf(x)
    BY <2>1, <2>5, NodeFacts
  <2>7. PICK F : /\ F = E /\ NodesOf(F) = Put(NodesOf(D), m, NodeOf(z))
                 /\ CellsOf(F) = Put(CellsOf(D), m, CellOf(z))
                 /\ WriterOf(F) = Writer(NodesOf(F), m, ReaderOf(F)) /\ ReaderOf(F) = Reader(m, CellsOf(F))
    BY <2>3, <2>4, <2>5
  <2> HIDE DEF v, n, m, x, y, E
  <2>8. CASE x.begun
    <3>1. NodeOf(x).state = "opened" /\ [NodeOf(x) EXCEPT !.kids = TRUE] = NodeOf(x) /\ z = x
      BY <2>1, <2>5, <2>8, NodeFacts
    <3>2. CellsOf(F) = CellsOf(D) /\ NodesOf(F) = NodesOf(D)
      <4>1. Put(CellsOf(D), m, CellsOf(D)[m]) = CellsOf(D) /\ Put(NodesOf(D), m, NodesOf(D)[m]) = NodesOf(D)
        BY DEF CellsOf, NodesOf, Put
      <4> QED BY <2>1, <2>7, <3>1, <4>1
    <3>3. W!NextChild(v) = W!SetTop(v, NodeOf(x))
      BY <2>1, <3>1 DEF W!NextChild, W!Counted
    <3>4. W!SetTop(v, NodeOf(x)) = Writer(Put(NodesOf(D), m, NodeOf(x)), m, ReaderOf(D))
      BY <2>1, SetsTop
    <3>5. NodeOf(z) = NodeOf(x)
      BY <3>1
    <3>6. NodesOf(F) = Put(NodesOf(D), m, NodeOf(x)) /\ ReaderOf(F) = ReaderOf(D)
      BY <2>1, <2>7, <3>2, <3>5
    <3> QED BY <2>7, <3>3, <3>4, <3>6
  <2>9. CASE ~x.begun
    <3> DEFINE k == CountedOf(x)
               u == Writer(Put(NodesOf(D), m, k), m, ReaderOf(D))
               o == Writer(NodesOf(F), m, ReaderOf(D))
    <3>1. NodeOf(x).state = "open" /\ [NodeOf(x) EXCEPT !.kids = TRUE] = k
      BY <2>1, <2>9, NodeFacts
    <3>2. /\ k.kind = x.kind /\ k.kids = TRUE /\ k.body = Body(x) /\ k.ns = "none"
          /\ [k EXCEPT !.state = "opened", !.kids = TRUE, !.body = "none"] = NodeOf(z)
          /\ x.kind \notin {"comment", "cdata"} => [k EXCEPT !.state = "opened", !.ns = "none"] = NodeOf(z)
      <4>1. x.kind \notin {"comment", "cdata"} => Body(x) = "none"
        BY DEF Body
      <4> QED BY <2>6, <2>9, <4>1, CountedFields
    <3>3. W!NextChild(v) = W!Opened(W!Counted(v)) /\ W!Counted(v) = W!SetTop(v, k)
      BY <2>1, <3>1 DEF W!NextChild, W!Counted
    <3>4. W!Counted(v) = u
      BY <2>1, <3>3, SetsTop
    <3>5. W!Top(u) = k /\ u.rd = ReaderOf(D)
      <4>1. Put(NodesOf(D), m, k)[m] = k
        BY <2>1, PutTwice
      <4> QED BY <4>1, WriterFields
    <3>6. W!SetTop(u, NodeOf(z)) = o
      BY <2>7, SetsTop, PutTwice
    <3>7. \A r : W!Wrote(o, r) = Writer(NodesOf(F), m, r)
      BY Writes
    <3> HIDE DEF k
    <3>8. /\ CellOf(x).kind = x.kind /\ CellOf(x).name = x.name
          /\ x.kind \in {"elem", "dtd", "dtdattlist"} => CellOf(x).tag = TRUE
          /\ x.kind \notin {"elem", "dtd", "dtdattlist"} => CellOf(x).tag = FALSE
      <4>1. CellOf(x) = IF x.kind \in {"elem", "dtd", "dtdattlist"} THEN Tagged(x.kind, x.name)
            ELSE Bare(x.kind, x.name)
        BY <2>9 DEF CellOf
      <4>2. /\ Tagged(x.kind, x.name).kind = x.kind /\ Tagged(x.kind, x.name).name = x.name
            /\ Tagged(x.kind, x.name).tag = TRUE /\ Bare(x.kind, x.name).kind = x.kind
            /\ Bare(x.kind, x.name).name = x.name /\ Bare(x.kind, x.name).tag = FALSE
        BY DEF Tagged, Bare
      <4>3. CASE x.kind \in {"elem", "dtd", "dtdattlist"}
        <5>1. CellOf(x) = Tagged(x.kind, x.name)
          BY <4>1, <4>3
        <5> QED BY <4>2, <4>3, <5>1
      <4>4. CASE x.kind \notin {"elem", "dtd", "dtdattlist"}
        <5>1. CellOf(x) = Bare(x.kind, x.name)
          BY <4>1, <4>4
        <5> QED BY <4>2, <4>4, <5>1
      <4> QED BY <4>3, <4>4
    <3>9. x.kind \notin {"comment", "cdata"} => W!MarkOpened(u) = o
      BY <3>2, <3>5, <3>6 DEF W!MarkOpened
    <3>10. PICK q : q = o
      OBVIOUS
    <3>11. PICK p : p = u
      OBVIOUS
    <3> HIDE DEF u, o
    <3>12. CASE x.kind \in {"elem", "dtd"}
      <4>1. W!EndOfTag(ReaderOf(D)) = ReaderOf(F)
        <5>1. CellOf(z) = Bare(CellOf(x).kind, CellOf(x).name)
          BY <2>6, <3>8, <3>12
        <5> QED BY <2>1, <2>7, <5>1, TagEnds
      <4>2. W!TopIs(ReaderOf(D), x.kind, TRUE) /\ ReaderOf(D).ok
        BY <2>1, <3>8, <3>12 DEF W!TopIs
      <4>3. CASE x.kind = "elem"
        <5>1. W!Opened(u) = W!Wrote(W!MarkOpened(u), W!ReadGt(ReaderOf(D)))
          BY <3>2, <3>5, <4>3 DEF W!Opened, W!OpenedElem, W!Declared
        <5>2. W!ReadGt(ReaderOf(D)) = ReaderOf(F)
          BY <4>1, <4>2, <4>3 DEF W!ReadGt
        <5> QED BY <2>7, <3>3, <3>4, <3>7, <3>9, <4>3, <5>1, <5>2
      <4>4. CASE x.kind = "dtd"
        <5>1. W!Opened(u) = W!Wrote(W!MarkOpened(u), W!ReadBracket(ReaderOf(D)))
          BY <3>2, <3>5, <4>4 DEF W!Opened, W!OpenedDTD
        <5>2. W!ReadBracket(ReaderOf(D)) = ReaderOf(F)
          BY <4>1, <4>2, <4>4 DEF W!ReadBracket
        <5> QED BY <2>7, <3>3, <3>4, <3>7, <3>9, <4>4, <5>1, <5>2
      <4> QED BY <3>12, <4>3, <4>4
    <3>13. CASE x.kind \in {"doc", "dtdattlist", "comment", "cdata"}
      <4>1. CellsOf(F) = CellsOf(D)
        <5>2. CellOf(z) = CellOf(x)
          BY <2>6, <3>13 DEF CellOf
        <5>3. Put(CellsOf(D), m, CellsOf(D)[m]) = CellsOf(D)
          BY DEF CellsOf, Put
        <5> QED BY <2>1, <2>7, <5>2, <5>3
      <4>2. WriterOf(F) = o /\ ReaderOf(F) = ReaderOf(D)
        BY <2>1, <2>7, <4>1 DEF o
      <4>3. CASE x.kind \in {"doc", "dtdattlist"}
        <5>1. W!Opened(u) = W!MarkOpened(u)
          BY <3>2, <3>5, <4>3 DEF W!Opened, W!OpenedWithBody, Body
        <5> QED BY <2>7, <3>3, <3>4, <3>9, <4>2, <4>3, <5>1
      <4>4. CASE x.kind \in {"comment", "cdata"}
        <5> DEFINE leaf == IF x.kind = "comment" THEN "commentcontent" ELSE "cdatacontent"
        <5>1. W!Opened(u) = W!Wrote(W!SetTop(u, [k EXCEPT !.state = "opened", !.kids = TRUE, !.body = "none"]),
                                    W!ReadLeaf(ReaderOf(D), leaf))
          BY <3>2, <3>5, <4>4 DEF W!Opened, W!OpenedWithBody, Body
        <5>2. W!Admits(ReaderOf(D), leaf) /\ ReaderOf(D).ok
          BY <2>1, <3>8, <4>4 DEF W!Admits, W!InBody
        <5>3. W!ReadLeaf(ReaderOf(D), leaf) = ReaderOf(D)
          BY <5>2 DEF W!ReadLeaf
        <5>4. W!Wrote(o, ReaderOf(D)) = o
          BY <3>7 DEF o
        <5> HIDE DEF leaf
        <5> QED BY <2>7, <3>2, <3>3, <3>4, <3>6, <4>2, <5>1, <5>3, <5>4
      <4> QED BY <3>13, <4>3, <4>4
    <3> QED BY <2>2, <3>12, <3>13 DEF OpenKinds
  <2> QED BY <2>2, <2>7, <2>8, <2>9 DEF v
<1> QED
  BY <1>1, <1>2, BegunIs

-----------------------------------------------------------------------------
(* End. *)

(* A node that the reader has left is dropped: what is left is the stack   *)
(* without it.                                                             *)
LEMMA DropsTo ==
  ASSUME NEW D \in Stacks, D # <<>>, NEW k
  PROVE  LET m == Len(D) - 1
         IN W!Drop(Writer(Put(NodesOf(D), m, k), m, W!Ascend(ReaderOf(D)))) = WriterOf(Front(D))
<1> DEFINE m == Len(D) - 1
           E == Front(D)
<1>0. Len(D) \in Nat
  BY Facts
<1>1. m \in Int /\ ReaderOf(D) = Reader(m, CellsOf(D))
  <2>1. m \in Int
    BY <1>0
  <2> QED BY <2>1 DEF ReaderOf
<1>2. /\ E \in Stacks /\ Len(E) = m
      /\ NodesOf(E) = Put(NodesOf(D), m, W!NoNode) /\ CellsOf(E) = Put(CellsOf(D), m, W!NoCell)
  BY DropTop
<1>3. WriterOf(E) = Writer(NodesOf(E), m - 1, ReaderOf(E)) /\ ReaderOf(E) = Reader(m - 1, CellsOf(E))
  <2> HIDE DEF E
  <2>1. LET n == Len(E) - 1 IN WriterOf(E) = Writer(NodesOf(E), n, ReaderOf(E)) /\ ReaderOf(E) = Reader(n, CellsOf(E))
    BY <1>2, Facts
  <2> QED BY <1>2, <2>1
<1> HIDE DEF m, E
<1>4. W!Ascend(ReaderOf(D)) = ReaderOf(E)
  BY <1>1, <1>2, <1>3, Ascends
<1>5. W!Drop(Writer(Put(NodesOf(D), m, k), m, ReaderOf(E)))
        = Writer(Put(Put(NodesOf(D), m, k), m, W!NoNode), m - 1, ReaderOf(E))
  BY <1>1, Drops
<1>6. Put(Put(NodesOf(D), m, k), m, W!NoNode) = NodesOf(E)
  BY <1>2, PutTwice
<1> QED BY <1>3, <1>4, <1>5, <1>6 DEF m, E

(* End writes what closes the innermost, whatever its state, and drops it. *)
LEMMA EndDrops ==
  ASSUME NEW D \in Stacks, D # <<>>
  PROVE  W!EndNode(WriterOf(D)) = WriterOf(Front(D))
<1> DEFINE v == WriterOf(D)
           n == Len(D)
           m == n - 1
           x == D[n]
           rd == ReaderOf(D)
           end == W!Ascend(rd)
<1>1. /\ n \in Nat /\ n >= 1 /\ x \in Items /\ m \in 0 .. MaxDepth - 1 /\ m >= 0
      /\ W!Top(v) = NodeOf(x) /\ CellsOf(D)[m] = CellOf(x) /\ NodesOf(D)[m] = NodeOf(x)
  BY Facts
<1>2. /\ v = Writer(NodesOf(D), m, rd) /\ v.cur = m /\ v.rd = rd /\ v.err = "nil" /\ rd = Reader(m, CellsOf(D))
      /\ DOMAIN NodesOf(D) = 0 .. MaxDepth - 1
      /\ rd.ok = TRUE /\ rd.top = m /\ rd.cell = CellsOf(D)
  BY Facts
<1>3. \A k : W!Drop(Writer(Put(NodesOf(D), m, k), m, end)) = WriterOf(Front(D))
  BY DropsTo
<1>4. /\ x.kind \in OpenKinds /\ x.begun \in BOOLEAN
      /\ x.kind \in {"doc", "comment", "cdata"} => x.name = W!NoName
  BY <1>1 DEF Items, W!NoName, Nameless
<1> SUFFICES W!EndNode(v) = WriterOf(Front(D))
  OBVIOUS
<1> HIDE DEF v, n, m, x, rd, end
(* What closes the innermost, by kind, once its tag has ended or not. *)
<1>5. /\ CellOf(x).kind = x.kind /\ CellOf(x).name = x.name
      /\ (x.kind = "dtdattlist" \/ (x.kind \in {"elem", "dtd"} /\ ~x.begun)) => CellOf(x).tag = TRUE
      /\ ~(x.kind = "dtdattlist" \/ (x.kind \in {"elem", "dtd"} /\ ~x.begun)) => CellOf(x).tag = FALSE
  <2>1. /\ Tagged(x.kind, x.name).kind = x.kind /\ Tagged(x.kind, x.name).name = x.name
        /\ Tagged(x.kind, x.name).tag = TRUE /\ Bare(x.kind, x.name).kind = x.kind
        /\ Bare(x.kind, x.name).name = x.name /\ Bare(x.kind, x.name).tag = FALSE
    BY DEF Tagged, Bare
  <2>2. CASE x.kind = "dtdattlist" \/ (x.kind \in {"elem", "dtd"} /\ ~x.begun)
    <3>1. CellOf(x) = Tagged(x.kind, x.name)
      BY <2>2 DEF CellOf
    <3> QED BY <2>1, <2>2, <3>1
  <2>3. CASE ~(x.kind = "dtdattlist" \/ (x.kind \in {"elem", "dtd"} /\ ~x.begun))
    <3>1. CellOf(x) = Bare(x.kind, x.name)
      BY <2>3 DEF CellOf
    <3> QED BY <2>1, <2>3, <3>1
  <2> QED BY <2>2, <2>3
<1>6. /\ x.begun /\ x.kind \in {"elem", "dtd"} => W!ReadClose(rd, x.kind, x.name) = end
      /\ x.kind = "dtdattlist" => W!ReadGt(rd) = end
      /\ x.kind \in {"comment", "cdata", "doc"} => W!ReadClose(rd, x.kind, W!NoName) = end
      /\ ~x.begun /\ x.kind = "elem" => W!ReadEmptyTagEnd(rd) = end
      /\ ~x.begun /\ x.kind = "dtd" => W!ReadGt(rd) = end
  BY <1>1, <1>2, <1>4, <1>5 DEF W!ReadClose, W!ReadGt, W!ReadEmptyTagEnd, W!TopIs, end
<1>7. \A nodes, k : nodes[m] = k => W!Top(Writer(nodes, m, rd)) = k /\ W!Top(Writer(nodes, m, end)) = k
  BY WriterFields
<1>8. \A nodes, r : W!Wrote(Writer(nodes, m, rd), r) = Writer(nodes, m, r)
  BY Writes
<1>9. \A nodes : Writer(nodes, m, rd).err = "nil" /\ Writer(nodes, m, end).err = "nil" /\ Writer(nodes, m, rd).rd = rd
  BY WriterFields
<1>10. W!OpenedForEnd(v).err = "nil" => W!EndNode(v) = W!Drop(W!Ended(W!OpenedForEnd(v), W!Top(v).state))
  BY DEF W!EndNode
<1>11. CASE x.begun
  <2>1. NodeOf(x).state = "opened" /\ NodeOf(x).kids = TRUE /\ NodeOf(x).kind = x.kind /\ NodeOf(x).name = x.name
    BY <1>11 DEF NodeOf, OpenedOf
  <2>2. W!OpenedForEnd(v) = v
    BY <1>1, <2>1 DEF W!OpenedForEnd
  <2>3. W!Ended(v, "opened") = W!Wrote(v, end)
    <3>1. CASE x.kind = "elem"
      BY <1>1, <1>2, <1>6, <1>11, <2>1, <3>1 DEF W!Ended
    <3>2. CASE x.kind = "dtd"
      BY <1>1, <1>2, <1>6, <1>11, <2>1, <3>2 DEF W!Ended
    <3>3. CASE x.kind = "dtdattlist"
      BY <1>1, <1>2, <1>6, <2>1, <3>3 DEF W!Ended
    <3>4. CASE x.kind \in {"comment", "cdata", "doc"}
      BY <1>1, <1>2, <1>6, <2>1, <3>4 DEF W!Ended
    <3> QED BY <1>4, <3>1, <3>2, <3>3, <3>4 DEF OpenKinds
  <2>4. NodesOf(D) = Put(NodesOf(D), m, NodeOf(x))
    <3>1. Put(NodesOf(D), m, NodesOf(D)[m]) = NodesOf(D)
      BY DEF NodesOf, Put
    <3> QED BY <1>1, <3>1
  <2>5. W!Wrote(v, end) = Writer(Put(NodesOf(D), m, NodeOf(x)), m, end)
    BY <1>2, <1>8, <2>4
  <2>6. W!EndNode(v) = W!Drop(Writer(Put(NodesOf(D), m, NodeOf(x)), m, end))
    BY <1>1, <1>2, <1>10, <2>1, <2>2, <2>3, <2>5
  <2> QED BY <1>3, <2>6
<1>12. CASE ~x.begun
  <2>1. W!Top(v) = NewOf(x)
    BY <1>1, <1>12 DEF NodeOf
  <2>2. /\ NewOf(x).state = "open" /\ NewOf(x).kids = FALSE /\ NewOf(x).full = FALSE /\ NewOf(x).kind = x.kind
        /\ NewOf(x).name = x.name /\ NewOf(x).body = Body(x) /\ NewOf(x).ns = "none"
    BY DEF NewOf
  <2>3. W!OpenedForEnd(v) = W!Opened(v)
    BY <2>1, <2>2 DEF W!OpenedForEnd
  <2> DEFINE k == [NewOf(x) EXCEPT !.state = "opened", !.ns = "none"]
             j == [NewOf(x) EXCEPT !.state = "opened", !.kids = TRUE, !.body = "none"]
             nodes == Put(NodesOf(D), m, k)
             full == Put(NodesOf(D), m, j)
  <2>4. k.kind = x.kind /\ k.name = x.name /\ k.kids = FALSE /\ k.full = FALSE /\ j.kind = x.kind /\ j.name = x.name
    BY DEF NewOf
  <2>5. W!MarkOpened(v) = W!SetTop(v, k)
    BY <2>1 DEF W!MarkOpened
  <2> HIDE DEF k, j
  <2>6. W!SetTop(v, k) = Writer(nodes, m, rd) /\ W!SetTop(v, j) = Writer(full, m, rd)
    <3>1. \A z : W!SetTop(Writer(NodesOf(D), m, rd), z) = Writer(Put(NodesOf(D), m, z), m, rd)
      BY SetsTop
    <3> QED BY <1>2, <3>1
  <2>7. nodes[m] = k /\ full[m] = j
    <3>1. \A z : Put(NodesOf(D), m, z)[m] = z
      BY <1>1, <1>2, PutTwice
    <3> QED BY <3>1
  <2> HIDE DEF nodes, full
  <2>8. CASE x.kind = "elem"
    <3>1. W!Opened(v) = W!Wrote(W!MarkOpened(v), W!ReadEmptyTagEnd(rd))
      BY <1>2, <2>1, <2>2, <2>8 DEF W!Opened, W!OpenedElem, W!Declared
    <3>2. W!Opened(v) = Writer(nodes, m, end)
      BY <1>6, <1>8, <1>12, <2>5, <2>6, <2>8, <3>1
    <3>3. W!Top(Writer(nodes, m, end)) = k
      BY <1>7, <2>7
    <3>4. W!Ended(Writer(nodes, m, end), "open") = Writer(nodes, m, end)
      BY <2>4, <2>8, <3>3 DEF W!Ended
    <3>5. W!EndNode(v) = W!Drop(Writer(nodes, m, end))
      BY <1>9, <1>10, <2>1, <2>2, <2>3, <3>2, <3>4
    <3> QED BY <1>3, <3>5 DEF nodes
  <2>9. CASE x.kind \in {"dtd", "dtdattlist", "doc"}
    <3>1. W!Opened(v) = W!MarkOpened(v)
      BY <2>1, <2>2, <2>9 DEF W!Opened, W!OpenedDTD, W!OpenedWithBody, Body
    <3>2. W!Opened(v) = Writer(nodes, m, rd)
      BY <2>5, <2>6, <3>1
    <3>3. W!Top(Writer(nodes, m, rd)) = k
      BY <1>7, <2>7
    <3>4. W!Ended(Writer(nodes, m, rd), "open") = W!Wrote(Writer(nodes, m, rd), end)
      <4>1. CASE x.kind = "dtd"
        BY <1>6, <1>9, <1>12, <2>4, <3>3, <4>1 DEF W!Ended
      <4>2. CASE x.kind = "dtdattlist"
        BY <1>6, <1>9, <2>4, <3>3, <4>2 DEF W!Ended
      <4>3. CASE x.kind = "doc"
        BY <1>6, <1>9, <2>4, <3>3, <4>3 DEF W!Ended
      <4> QED BY <2>9, <4>1, <4>2, <4>3
    <3>5. W!Wrote(Writer(nodes, m, rd), end) = Writer(nodes, m, end)
      BY <1>8
    <3>6. W!EndNode(v) = W!Drop(Writer(nodes, m, end))
      BY <1>9, <1>10, <2>1, <2>2, <2>3, <3>2, <3>4, <3>5
    <3> QED BY <1>3, <3>6 DEF nodes
  <2>10. CASE x.kind \in {"comment", "cdata"}
    <3> DEFINE leaf == IF x.kind = "comment" THEN "commentcontent" ELSE "cdatacontent"
    <3>1. W!Opened(v) = W!Wrote(W!SetTop(v, j), W!ReadLeaf(rd, leaf))
      BY <1>2, <2>1, <2>2, <2>10 DEF W!Opened, W!OpenedWithBody, Body, j
    <3>2. W!Admits(rd, leaf)
      BY <1>1, <1>2, <1>5, <2>10 DEF W!Admits, W!InBody
    <3>3. W!ReadLeaf(rd, leaf) = rd
      BY <1>2, <3>2 DEF W!ReadLeaf
    <3> HIDE DEF leaf
    <3>4. W!Opened(v) = Writer(full, m, rd)
      BY <1>8, <2>6, <3>1, <3>3
    <3>5. W!Top(Writer(full, m, rd)) = j
      BY <1>7, <2>7
    <3>6. W!Ended(Writer(full, m, rd), "open") = W!Wrote(Writer(full, m, rd), end)
      <4>1. CASE x.kind = "comment"
        BY <1>6, <1>9, <2>4, <3>5, <4>1 DEF W!Ended
      <4>2. CASE x.kind = "cdata"
        BY <1>6, <1>9, <2>4, <3>5, <4>2 DEF W!Ended
      <4> QED BY <2>10, <4>1, <4>2
    <3>7. W!Wrote(Writer(full, m, rd), end) = Writer(full, m, end)
      BY <1>8
    <3>8. W!EndNode(v) = W!Drop(Writer(full, m, end))
      BY <1>9, <1>10, <2>1, <2>2, <2>3, <3>4, <3>6, <3>7
    <3> QED BY <1>3, <3>8 DEF full
  <2> QED BY <1>4, <2>8, <2>9, <2>10 DEF OpenKinds
<1> QED BY <1>4, <1>11, <1>12

-----------------------------------------------------------------------------
(* Start and leaves. *)

(* That the innermost has begun changes no kind and no name. *)
LEMMA BegunFacts ==
  ASSUME NEW D \in Stacks, NEW B, B = Begun(D)
  PROVE  /\ B \in Stacks /\ Len(B) = Len(D) /\ TopKind(B) = TopKind(D)
         /\ (B = <<>>) <=> (D = <<>>)
         /\ \A i \in 1 .. Len(D) : B[i] \in Items /\ D[i] \in Items /\ B[i].kind = D[i].kind /\ B[i].name = D[i].name
         /\ \A i \in 1 .. Len(D) - 1 : B[i] = D[i]
         /\ D # <<>> => B[Len(D)].begun = TRUE
<1> DEFINE n == Len(D)
<1>1. CASE D = <<>>
  <2>1. B = <<>> /\ n = 0 /\ n \in Nat
    BY <1>1, Facts DEF Begun
  <2> HIDE DEF n
  <2>2. \A i \in 1 .. n : FALSE
    BY <2>1
  <2>3. \A i \in 1 .. n - 1 : FALSE
    BY <2>1
  <2> QED BY <1>1, <2>1, <2>2, <2>3 DEF n
<1>2. CASE D # <<>>
  <2> DEFINE x == D[n]
             y == [x EXCEPT !.begun = TRUE]
  <2>1. n \in Nat /\ n >= 1 /\ x \in Items
    BY <1>2, Facts
  <2>2. y \in Items /\ y.kind = x.kind /\ y.name = x.name /\ y.begun = TRUE /\ B = Put(D, n, y)
    BY <1>2, BegunIs
  <2> HIDE DEF y
  <2>3. B \in Stacks /\ Len(B) = n /\ B[n] = y /\ B # <<>> /\ \A i \in 1 .. n - 1 : B[i] = D[i]
    BY <1>2, <2>2, ReplaceTop
  <2> HIDE DEF n, x
  <2>4. ASSUME NEW i \in 1 .. n
        PROVE  B[i] \in Items /\ D[i] \in Items /\ B[i].kind = D[i].kind /\ B[i].name = D[i].name
    <3>1. D[i] \in Items
      BY ElementOfSeq DEF Stacks, n
    <3>2. CASE i = n
      BY <2>1, <2>2, <2>3, <3>1, <3>2 DEF x
    <3>3. CASE i # n
      <4>1. i \in 1 .. n - 1
        BY <2>1, <3>3
      <4> QED BY <2>3, <3>1, <4>1
    <3> QED BY <3>2, <3>3
  <2>5. TopKind(B) = TopKind(D)
    BY <1>2, <2>2, <2>3 DEF TopKind, n, x
  <2> QED BY <1>2, <2>2, <2>3, <2>4, <2>5 DEF n
<1> QED BY <1>1, <1>2

(* What may stand in the innermost, once it has begun. *)
Within(kind) == IF kind = "dtdattlist" THEN W!InTag(kind) ELSE W!InBody(kind)

(* The reader then admits what may stand there. *)
LEMMA BegunAdmits ==
  ASSUME NEW D \in Stacks, NEW kind, D = <<>> \/ kind \in Within(TopKind(D))
  PROVE  W!Admits(ReaderOf(Begun(D)), kind)
<1> DEFINE B == Begun(D)
           n == Len(B)
           r == ReaderOf(B)
<1>1. B \in Stacks /\ Len(B) = Len(D) /\ (B = <<>> <=> D = <<>>)
      /\ (D # <<>> => B[n].begun = TRUE) /\ TopKind(B) = TopKind(D)
  BY BegunFacts
<1> HIDE DEF B
<1>2. r.top = n - 1 /\ r.cell = CellsOf(B) /\ n \in Nat /\ (B = <<>> <=> n = 0)
  BY <1>1, Facts
<1>3. CASE B = <<>>
  BY <1>2, <1>3 DEF W!Admits, B
<1>4. CASE B # <<>>
  <2> DEFINE x == B[n]
             c == CellsOf(B)[n - 1]
  <2>1. x \in Items /\ c = CellOf(x) /\ TopKind(D) = x.kind
    BY <1>1, <1>4, Facts DEF TopKind
  <2>2. x.begun = TRUE
    BY <1>1, <1>4
  <2> HIDE DEF x, c, n
  <2>3. CellOf(x) = IF x.kind = "dtdattlist" THEN Tagged(x.kind, x.name) ELSE Bare(x.kind, x.name)
    BY <2>2 DEF CellOf
  <2>4. c.kind = x.kind /\ c.tag = IF x.kind = "dtdattlist" THEN TRUE ELSE FALSE
    <3>1. CASE x.kind = "dtdattlist"
      BY <2>1, <2>3, <3>1 DEF Tagged
    <3>2. CASE x.kind # "dtdattlist"
      BY <2>1, <2>3, <3>2 DEF Bare
    <3> QED BY <3>1, <3>2
  <2>5. kind \in IF c.tag THEN W!InTag(c.kind) ELSE W!InBody(c.kind)
    BY <1>1, <1>4, <2>1, <2>4 DEF Within
  <2> QED BY <1>2, <2>5 DEF W!Admits, B, c
<1> QED BY <1>3, <1>4 DEF B

(* Start puts a node on top, if it may stand there. *)
LEMMA StartPushes ==
  ASSUME NEW D \in Stacks, Len(D) < MaxDepth, NEW x \in Items, x.begun = FALSE, TopKind(D) \in Parents(x.kind)
  PROVE  Started(WriterOf(D), x.kind, x.name, Body(x)) = WriterOf(Append(Begun(D), x))
<1> DEFINE v == WriterOf(D)
           B == Begun(D)
           n == Len(B)
           u == WriterOf(B)
           rd == ReaderOf(B)
           E == Append(B, x)
<1>1. B \in Stacks /\ Len(B) = Len(D) /\ (B = <<>> <=> D = <<>>)
  BY BegunFacts
<1>2. W!NextChild(v) = u
  BY NextBegins
<1>3. W!CheckParent(v, Parents(x.kind))
  BY Facts DEF W!CheckParent
<1>4. W!NewNode(x.kind, x.name, Body(x), FALSE) = NewOf(x)
  BY DEF W!NewNode, NewOf
<1>5. x.kind \in OpenKinds
  BY DEF Items
<1>6. W!Admits(rd, x.kind)
  <2>1. D = <<>> \/ x.kind \in Within(TopKind(D))
    <3>1. TopKind(D) = "none" => D = <<>>
      <4> SUFFICES ASSUME D # <<>> PROVE TopKind(D) # "none"
        OBVIOUS
      <4>1. D[Len(D)] \in Items
        BY Facts
      <4> QED BY <4>1 DEF TopKind, Items, OpenKinds
    <3>2. TopKind(D) = "none" \/ x.kind \in Within(TopKind(D))
      BY <1>5 DEF Parents, Within, W!InBody, OpenKinds
    <3> QED BY <3>1, <3>2
  <2> QED BY <2>1, BegunAdmits
<1> HIDE DEF B
<1>7. PICK m \in Int :
      /\ n \in Nat /\ n < MaxDepth /\ MaxDepth \in Nat /\ m = n - 1 /\ m + 1 = n
      /\ u = Writer(NodesOf(B), m, rd) /\ rd = Reader(m, CellsOf(B))
      /\ rd.ok = TRUE /\ rd.top = m /\ u.err = "nil"
  <2>1. n \in Nat /\ MaxDepth \in Nat
    BY <1>1, Facts
  <2>2. /\ u = Writer(NodesOf(B), n - 1, rd) /\ rd = Reader(n - 1, CellsOf(B))
        /\ rd.ok = TRUE /\ rd.top = n - 1 /\ u.err = "nil"
    BY <1>1, Facts
  <2> QED BY <1>1, <2>1, <2>2
<1>8. /\ E \in Stacks /\ Len(E) = n + 1
      /\ NodesOf(E) = Put(NodesOf(B), n, NodeOf(x)) /\ CellsOf(E) = Put(CellsOf(B), n, CellOf(x))
  BY <1>1, <1>7, PushTop
<1>9. WriterOf(E) = Writer(NodesOf(E), n, ReaderOf(E)) /\ ReaderOf(E) = Reader(n, CellsOf(E))
  <2> HIDE DEF E, n
  <2>1. Len(E) - 1 = n
    BY <1>7, <1>8
  <2> QED BY <2>1 DEF WriterOf, ReaderOf
<1>10. NodeOf(x) = NewOf(x)
  BY DEF NodeOf
<1>11. W!ReadOpen(rd, x.kind, x.name) = ReaderOf(E)
  <2> HIDE DEF n, rd, E
  <2>1. W!ReadOpen(rd, x.kind, x.name) = W!Descend(rd, x.kind, x.name, x.kind \in W!NamedKinds)
    BY <1>6, <1>7 DEF W!ReadOpen, W!Slots
  <2>2. CASE x.kind \in {"elem", "dtd", "dtdattlist"}
    <3>1. CellOf(x) = Tagged(x.kind, x.name)
      BY <2>2 DEF CellOf
    <3>2. W!ReadOpen(rd, x.kind, x.name) = W!Descend(rd, x.kind, x.name, TRUE)
      <4>1. (x.kind \in W!NamedKinds) = TRUE
        BY <2>2 DEF W!NamedKinds
      <4> QED BY <2>1, <4>1, Zenon
    <3>3. W!Descend(Reader(m, CellsOf(B)), x.kind, x.name, TRUE)
          = Reader(m + 1, Put(CellsOf(B), m + 1, Tagged(x.kind, x.name)))
      <4>1. ASSUME NEW c, NEW k, NEW nm
            PROVE  W!Descend(Reader(m, c), k, nm, TRUE) = Reader(m + 1, Put(c, m + 1, Tagged(k, nm)))
        <5> DEFINE r == Reader(m, c)
        <5>1. r.top = m /\ r.cell = c
          BY ReaderFields
        <5>2. W!Descend(r, k, nm, TRUE) = [r EXCEPT !.top = m + 1, !.cell = Put(c, m + 1, Tagged(k, nm))]
          BY <5>1 DEF W!Descend, Put, Tagged
        <5> QED BY <5>2 DEF Reader
      <4> QED BY <4>1, Zenon
    <3> QED BY <1>7, <1>8, <1>9, <3>1, <3>2, <3>3
  <2>3. CASE x.kind \notin {"elem", "dtd", "dtdattlist"}
    <3>1. CellOf(x) = Bare(x.kind, x.name)
      BY <2>3 DEF CellOf
    <3>2. W!ReadOpen(rd, x.kind, x.name) = W!Descend(rd, x.kind, x.name, FALSE)
      <4>1. (x.kind \in W!NamedKinds) = FALSE
        BY <2>3 DEF W!NamedKinds
      <4> QED BY <2>1, <4>1, Zenon
    <3>3. W!Descend(Reader(m, CellsOf(B)), x.kind, x.name, FALSE)
          = Reader(m + 1, Put(CellsOf(B), m + 1, Bare(x.kind, x.name)))
      <4>1. ASSUME NEW c, NEW k, NEW nm
            PROVE  W!Descend(Reader(m, c), k, nm, FALSE) = Reader(m + 1, Put(c, m + 1, Bare(k, nm)))
        <5> DEFINE r == Reader(m, c)
        <5>1. r.top = m /\ r.cell = c
          BY ReaderFields
        <5>2. W!Descend(r, k, nm, FALSE) = [r EXCEPT !.top = m + 1, !.cell = Put(c, m + 1, Bare(k, nm))]
          BY <5>1 DEF W!Descend, Put, Bare
        <5> QED BY <5>2 DEF Reader
      <4> QED BY <4>1, Zenon
    <3> QED BY <1>7, <1>8, <1>9, <3>1, <3>2, <3>3
  <2> QED BY <2>2, <2>3
<1>12. W!Push(u, NewOf(x)) = Writer(NodesOf(E), n, rd)
  <2>1. W!Push(Writer(NodesOf(B), m, rd), NewOf(x)) = Writer(Put(NodesOf(B), m + 1, NewOf(x)), m + 1, rd)
    BY Pushes
  <2> HIDE DEF n, u, rd, E
  <2> QED BY <1>7, <1>8, <1>10, <2>1
<1>13. W!OpenNode(Writer(NodesOf(E), n, rd), "none") = WriterOf(E)
  <2> DEFINE p == Writer(NodesOf(E), n, rd)
  <2>1. NodesOf(E)[n] = NodeOf(x)
    <3>0. DOMAIN NodesOf(B) = 0 .. MaxDepth - 1
      BY DEF NodesOf
    <3>1. n \in DOMAIN NodesOf(B)
      BY <1>7, <3>0
    <3> HIDE DEF n, E
    <3> QED BY <1>8, <3>1, PutTwice
  <2>2. W!Top(p) = NewOf(x) /\ p.rd = rd
    BY <1>10, <2>1, WriterFields
  <2>3. NewOf(x).kind = x.kind /\ NewOf(x).name = x.name
    BY DEF NewOf
  <2>4. W!Wrote(p, ReaderOf(E)) = Writer(NodesOf(E), n, ReaderOf(E))
    BY Writes
  <2> HIDE DEF p, n, rd, E
  <2>5. W!OpenNode(p, "none") = W!Wrote(p, ReaderOf(E))
    BY <1>11, <2>2, <2>3 DEF W!OpenNode
  <2> QED BY <1>9, <2>4, <2>5 DEF p
<1> HIDE DEF v, u, E, n, rd
<1>14. W!StartNode(v, Parents(x.kind), NewOf(x), "none") = W!OpenNode(W!Push(u, NewOf(x)), "none")
  BY <1>2, <1>3, <1>7 DEF W!StartNode
<1>15. Started(v, x.kind, x.name, Body(x)) = WriterOf(E)
  BY <1>4, <1>12, <1>13, <1>14 DEF Started
<1> QED BY <1>15 DEF v, E, B

-----------------------------------------------------------------------------
(* The players. *)

(* The leaves that are written with WriteLeaf. *)
LeafKinds == {"pi", "text", "dtdelem", "dtdentity", "notation", "dtdattr"}

(* What is written there is read, and opens nothing. *)
LEMMA ReadsIn ==
  ASSUME NEW D \in Stacks, NEW kind, kind = "raw" \/ D = <<>> \/ kind \in Within(TopKind(D))
  PROVE  LET u == WriterOf(Begun(D))
         IN W!Wrote(u, W!ReadLeaf(u.rd, kind)) = u /\ u.err = "nil"
<1> DEFINE B == Begun(D)
           u == WriterOf(B)
<1>1. B \in Stacks
  BY BegunFacts
<1>2. kind = "raw" \/ W!Admits(ReaderOf(B), kind)
  BY BegunAdmits
<1> HIDE DEF B
<1>3. PICK m : u = Writer(NodesOf(B), m, ReaderOf(B)) /\ u.rd = ReaderOf(B) /\ u.err = "nil" /\ ReaderOf(B).ok = TRUE
  BY <1>1, Facts
<1>4. W!ReadLeaf(ReaderOf(B), kind) = ReaderOf(B)
  BY <1>2, <1>3 DEF W!ReadLeaf
<1>5. W!Wrote(Writer(NodesOf(B), m, ReaderOf(B)), ReaderOf(B)) = Writer(NodesOf(B), m, ReaderOf(B))
  BY Writes
<1> HIDE DEF u
<1> QED BY <1>3, <1>4, <1>5 DEF u, B

(* Only the empty stack has no innermost. *)
LEMMA NoTop ==
  ASSUME NEW D \in Stacks
  PROVE  TopKind(D) = "none" <=> D = <<>>
<1>1. D # <<>> => TopKind(D) # "none"
  <2> SUFFICES ASSUME D # <<>> PROVE TopKind(D) # "none"
    OBVIOUS
  <2>1. D[Len(D)] \in Items
    BY Facts
  <2> QED BY <2>1 DEF TopKind, Items, OpenKinds
<1> QED BY <1>1 DEF TopKind

(* A leaf begins its parent where it may stand, and is rejected elsewhere  *)
(* without a trace.                                                        *)
LEMMA LeafWrites ==
  ASSUME NEW D \in Stacks, NEW kind \in LeafKinds
  PROVE  /\ TopKind(D) \in Parents(kind) => W!WriteLeaf(WriterOf(D), Parents(kind), kind, "none") = WriterOf(Begun(D))
         /\ TopKind(D) \notin Parents(kind) =>
              W!WriteLeaf(WriterOf(D), Parents(kind), kind, "none") = W!Outcome(WriterOf(D), "rejected")
<1> DEFINE v == WriterOf(D)
           u == WriterOf(Begun(D))
<1>1. W!CurrentKind(v) = TopKind(D)
  BY Facts
<1>2. W!NextChild(v) = u
  BY NextBegins
<1>3. ASSUME TopKind(D) \in Parents(kind)
      PROVE  W!WriteLeaf(v, Parents(kind), kind, "none") = u
  <2>1. D = <<>> \/ kind \in Within(TopKind(D))
    <3>1. TopKind(D) = "none" \/ kind \in Within(TopKind(D))
      BY <1>3 DEF Parents, Within, LeafKinds, W!InBody, W!InTag
    <3> QED BY <3>1, NoTop
  <2>2. W!Wrote(u, W!ReadLeaf(u.rd, kind)) = u
    BY <2>1, ReadsIn
  <2>3. W!Outcome(u, "nil") = u /\ u.err = "nil"
    BY DEF W!Outcome, WriterOf, Writer
  <2> HIDE DEF v, u
  <2> QED BY <1>1, <1>2, <1>3, <2>2, <2>3 DEF W!WriteLeaf, W!CheckParent
<1>4. ASSUME TopKind(D) \notin Parents(kind)
      PROVE  W!WriteLeaf(v, Parents(kind), kind, "none") = W!Outcome(v, "rejected")
  <2> HIDE DEF v, u
  <2> QED BY <1>1, <1>4 DEF W!WriteLeaf, W!CheckParent
<1> QED BY <1>3, <1>4

(* Raw text may stand anywhere, and begins what it stands in. *)
LEMMA RawWrites ==
  ASSUME NEW D \in Stacks
  PROVE  WriteRaw(WriterOf(D)) = WriterOf(Begun(D))
<1> DEFINE v == WriterOf(D)
           u == WriterOf(Begun(D))
<1>1. W!NextChild(v) = u
  BY NextBegins
<1>2. W!Wrote(u, W!ReadLeaf(u.rd, "raw")) = u /\ u.err = "nil"
  BY ReadsIn
<1> HIDE DEF v, u
<1>3. WriteRaw(v) = u
  BY <1>1, <1>2 DEF WriteRaw, Then
<1> QED BY <1>3 DEF v, u

(* An attribute is written while the start tag is still open. *)
LEMMA AttrWrites ==
  ASSUME NEW D \in Stacks, TopKind(D) = "elem", ~D[Len(D)].begun
  PROVE  WriteAttr(WriterOf(D)) = WriterOf(D)
<1> DEFINE v == WriterOf(D)
           n == Len(D)
           x == D[n]
<1>1. D # <<>> /\ x.kind = "elem"
  BY NoTop DEF TopKind
<1>2. W!CheckParent(v, Parents("attr"))
  <2>1. W!CurrentKind(v) = "elem"
    BY Facts
  <2> QED BY <2>1 DEF W!CheckParent, Parents
<1>3. CellsOf(D)[n - 1] = CellOf(x)
  BY <1>1, Facts
<1>4. PICK m : m = n - 1 /\ v = Writer(NodesOf(D), m, ReaderOf(D)) /\ v.rd = ReaderOf(D)
               /\ ReaderOf(D).ok = TRUE /\ ReaderOf(D).top = m /\ ReaderOf(D).cell = CellsOf(D)
  BY Facts
<1>5. CellOf(x) = Tagged("elem", x.name)
  BY <1>1 DEF CellOf
<1>6. CellOf(x).tag = TRUE /\ CellOf(x).kind = "elem"
  BY <1>5 DEF Tagged
<1> HIDE DEF v, n, x
<1>7. W!ReadLeaf(ReaderOf(D), "attr") = ReaderOf(D)
  BY <1>3, <1>4, <1>6 DEF W!ReadLeaf, W!Admits, W!InTag
<1>8. W!Wrote(Writer(NodesOf(D), m, ReaderOf(D)), ReaderOf(D)) = Writer(NodesOf(D), m, ReaderOf(D))
  BY Writes
<1>9. WriteAttr(v) = v
  BY <1>2, <1>4, <1>7, <1>8 DEF WriteAttr
<1> QED BY <1>9 DEF v

(* End(kind) of the innermost drops it. *)
LEMMA EndKindDrops ==
  ASSUME NEW D \in Stacks, D # <<>>
  PROVE  W!EndKind(WriterOf(D), TopKind(D), Nameless) = WriterOf(Front(D))
<1> DEFINE v == WriterOf(D)
<1>1. W!EndNode(v) = WriterOf(Front(D))
  BY EndDrops
<1>2. v.cur >= 0 /\ v.cur \in Int /\ W!CurrentKind(v) = TopKind(D)
  <2>1. Len(D) \in Nat /\ Len(D) - 1 >= 0
    BY Facts
  <2>2. v.cur = Len(D) - 1 /\ W!CurrentKind(v) = TopKind(D)
    BY Facts
  <2> QED BY <2>1, <2>2
<1>3. W!NameMatches(v, TopKind(D), Nameless)
  BY DEF W!NameMatches, W!NoName, Nameless
<1> HIDE DEF v
<1>4. W!Top(v).kind = TopKind(D) /\ ~(v.cur < 0)
  BY <1>2 DEF W!CurrentKind
<1>5. W!EndKind(v, TopKind(D), Nameless) = W!EndNode(v)
  BY <1>3, <1>4 DEF W!EndKind
<1> QED BY <1>1, <1>5 DEF v

(* What was put on a stack last comes off first. *)
LEMMA FrontAppended ==
  ASSUME NEW D \in Stacks, NEW x \in Items
  PROVE  Front(Append(D, x)) = D
<1> DEFINE A == Append(D, x)
           F == Front(A)
<1>1. D \in Seq(Items) /\ Len(D) \in Nat
  BY LenProperties DEF Stacks
<1>2. A \in Seq(Items) /\ Len(A) = Len(D) + 1 /\ \A i \in 1 .. Len(D) : A[i] = D[i]
  BY <1>1, AppendProperties
<1> HIDE DEF A
<1>3. A # <<>>
  BY <1>1, <1>2, EmptySeq
<1>4. F = SubSeq(A, 1, Len(A) - 1)
  BY DEF Front
<1> HIDE DEF F
<1>5. F \in Seq(Items) /\ Len(F) = Len(A) - 1 /\ \A i \in 1 .. Len(F) : F[i] = A[i]
  BY <1>2, <1>3, <1>4, LastDropped
<1>6. Len(F) = Len(D) /\ \A i \in 1 .. Len(D) : F[i] = D[i]
  BY <1>1, <1>2, <1>5
<1>7. F = D
  BY <1>1, <1>5, <1>6, SeqEqual
<1> QED BY <1>7 DEF F, A

-----------------------------------------------------------------------------
(* The players, command by command. *)

(* With the document the only one, EndDoc has none to pop. *)
LEMMA EndDocDrops ==
  ASSUME NEW D \in Stacks, Len(D) = 1, TopKind(D) = "doc"
  PROVE  EndDoc(WriterOf(D)) = WriterOf(Front(D))
<1> DEFINE v == WriterOf(D)
           N == MaxDepth
           step(f) == [i \in 0 .. N |-> IF i = 0 THEN v
                         ELSE IF f[i - 1].err = "nil" /\ f[i - 1].cur > 0 THEN W!Pop(f[i - 1])
                         ELSE f[i - 1]]
           popped == CHOOSE f : f = [i \in 0 .. MaxDepth |-> IF i = 0 THEN v
                         ELSE IF f[i - 1].err = "nil" /\ f[i - 1].cur > 0 THEN W!Pop(f[i - 1])
                         ELSE f[i - 1]]
           p == popped[MaxDepth]
           g == [i \in 0 .. N |-> v]
<1>1. N \in Nat /\ v.cur = 0 /\ D # <<>>
  <2>1. MaxDepth \in Nat /\ v.cur = Len(D) - 1 /\ (D = <<>> => Len(D) = 0)
    BY Facts
  <2> QED BY <2>1
<1>2. EndDoc(v) = Then(p, W!EndKind(p, "doc", Nameless))
  BY DEF EndDoc
<1>3. v.err = "nil"
  BY DEF WriterOf, Writer
<1> HIDE DEF v, N
<1>4. g = [i \in 0 .. N |-> IF i = 0 THEN v
                         ELSE IF g[i - 1].err = "nil" /\ g[i - 1].cur > 0 THEN W!Pop(g[i - 1])
                         ELSE g[i - 1]]
  <2>1. \A i \in 0 .. N : g[i] = v
    OBVIOUS
  <2>2. \A i \in 0 .. N : i = 0 \/ i - 1 \in 0 .. N
    BY <1>1
  <2>3. \A i \in 0 .. N : i # 0 => g[i - 1] = v
    BY <2>1, <2>2
  <2> HIDE DEF g
  <2>4. \A i \in 0 .. N : v = (IF i = 0 THEN v
                         ELSE IF g[i - 1].err = "nil" /\ g[i - 1].cur > 0 THEN W!Pop(g[i - 1])
                         ELSE g[i - 1])
    BY <1>1, <2>3
  <2> QED BY <2>4 DEF g
<1>5. popped = [i \in 0 .. N |-> IF i = 0 THEN v
                         ELSE IF popped[i - 1].err = "nil" /\ popped[i - 1].cur > 0 THEN W!Pop(popped[i - 1])
                         ELSE popped[i - 1]]
  <2> HIDE DEF g
  <2> QED BY <1>4, Zenon DEF N
<1> HIDE DEF popped, g
<1>6. \A i \in 0 .. N : popped[i] = IF i = 0 THEN v
                         ELSE IF popped[i - 1].err = "nil" /\ popped[i - 1].cur > 0 THEN W!Pop(popped[i - 1])
                         ELSE popped[i - 1]
  BY <1>5
<1> DEFINE S == {i \in 0 .. N : popped[i] = v}
<1>7. 0 \in S
  BY <1>1, <1>6
<1>8. ASSUME NEW i \in 0 .. N - 1, i \in S PROVE i + 1 \in S
  <2>1. i + 1 \in 0 .. N /\ (i + 1) - 1 = i /\ i + 1 # 0
    BY <1>1
  <2>2. popped[i] = v
    BY <1>8
  <2> QED BY <1>1, <1>6, <2>1, <2>2
<1>9. N \in S
  <2> HIDE DEF S
  <2>1. \A i \in 0 .. N - 1 : i \in S => i + 1 \in S
    BY <1>8
  <2>2. 0 .. N \subseteq S
    BY <1>1, <1>7, <2>1, InductionUpTo
  <2> QED BY <1>1, <2>2
<1>10. p = v
  BY <1>9 DEF N
<1> HIDE DEF p
<1>11. W!EndKind(v, "doc", Nameless) = WriterOf(Front(D))
  <2>1. W!EndKind(WriterOf(D), TopKind(D), Nameless) = WriterOf(Front(D))
    BY <1>1, EndKindDrops
  <2> QED BY <2>1 DEF v
<1> QED BY <1>2, <1>3, <1>10, <1>11 DEF Then, v

(* A comment or a section comes and goes. *)
LEMMA WholeWrites ==
  ASSUME NEW D \in Stacks, Len(D) < MaxDepth, NEW kind \in {"comment", "cdata"}, TopKind(D) \in Parents(kind)
  PROVE  WriteWhole(WriterOf(D), kind) = WriterOf(Begun(D))
<1> DEFINE x == Item(kind, Nameless)
           B == Begun(D)
           E == Append(B, x)
           n == WriterOf(E)
<1>1. x \in Items /\ x.kind = kind /\ x.name = Nameless /\ x.begun = FALSE
  BY DEF Items, Item, OpenKinds
<1>2. Body(x) = "ok"
  BY <1>1 DEF Body
<1>3. B \in Stacks /\ Len(B) = Len(D)
  BY BegunFacts
<1> HIDE DEF x, B
<1>4. Started(WriterOf(D), x.kind, x.name, Body(x)) = n
  BY <1>1, StartPushes DEF B
<1>5. Started(WriterOf(D), kind, Nameless, "ok") = n
  BY <1>1, <1>2, <1>4
<1>6. E \in Stacks /\ E # <<>> /\ E[Len(E)] = x
  BY <1>1, <1>3, PushTop
<1>7. Front(E) = B
  BY <1>1, <1>3, FrontAppended
<1> HIDE DEF E
<1>8. TopKind(E) = kind
  BY <1>1, <1>6 DEF TopKind
<1>9. W!EndKind(n, kind, Nameless) = WriterOf(B)
  BY <1>6, <1>7, <1>8, EndKindDrops
<1>10. n.err = "nil"
  BY DEF WriterOf, Writer
<1> HIDE DEF n
<1> QED BY <1>5, <1>9, <1>10 DEF WriteWhole, Then, B

-----------------------------------------------------------------------------
(* A command and the stack. *)

Named(kind, name) == Item(kind, IF kind = "doc" THEN Nameless ELSE name)

(* The one command that the Writer refuses (nodes.go:362). *)
Refused(D, c) == c.kind = "pi" /\ TopKind(D) = "dtd"

(* What a command makes of the stack. *)
After(D, c) ==
  CASE c.action = "start" -> Append(Begun(D), Named(c.kind, c.name))
    [] c.action = "write" -> IF c.kind = "attr" \/ Refused(D, c) THEN D ELSE Begun(D)
    [] c.action = "end"   -> Front(D)

(* In the subset, or in a list in it. *)
InDtd(D) == TopKind(D) \in {"dtd", "dtdattlist"}

(* The starts, writes and ends that the players take, and where. *)
TakesStart(D, c) ==
  /\ c.action = "start" /\ Len(D) < MaxDepth /\ (c.kind # "doc" => c.name \in ElemNames)
  /\ \/ c.kind = "doc" /\ D = <<>>
     \/ c.kind = "dtd" /\ (D = <<>> \/ TopKind(D) = "doc")
     \/ c.kind = "dtdattlist" /\ TopKind(D) = "dtd"
     \/ c.kind = "elem" /\ TopKind(D) \in {"none", "doc", "elem"}

TakesWrite(D, c) ==
  /\ c.action = "write"
  /\ \/ c.kind = "attr" /\ TopKind(D) = "elem" /\ ~D[Len(D)].begun
     \/ c.kind = "raw"
     \/ c.kind = "comment" /\ TopKind(D) \in Parents("comment") /\ Len(D) < MaxDepth
     \/ c.kind = "cdata" /\ TopKind(D) = "elem" /\ Len(D) < MaxDepth
     \/ c.kind = "text" /\ TopKind(D) = "elem"
     \/ c.kind \in {"dtdelem", "dtdentity", "notation"} /\ TopKind(D) = "dtd"
     \/ c.kind = "dtdattr" /\ TopKind(D) = "dtdattlist" /\ ("list" \notin Abutting => D[Len(D)].name = c.of)
     \/ c.kind = "pi" /\ TopKind(D) \in {"none", "doc", "elem", "dtd"}

TakesEnd(D, c) ==
  /\ c.action = "end" /\ D # <<>> /\ c.kind = TopKind(D) /\ c.kind \in {"doc", "dtd", "dtdattlist", "elem"}
  /\ c.kind = "dtd" => Len(D) = 1 \/ (Len(D) = 2 /\ D[1].kind = "doc")
  /\ InDtd(Front(D)) <=> c.kind = "dtdattlist"

(* The commands that the players take, the document the outermost if any.  *)
Takes(D, c) ==
  /\ TopKind(D) = "doc" => Len(D) = 1
  /\ TakesStart(D, c) \/ TakesWrite(D, c) \/ TakesEnd(D, c)

(* What a start adds. *)
LEMMA AfterStart ==
  ASSUME NEW D \in Stacks, NEW c, TakesStart(D, c), NEW x, x = Named(c.kind, c.name)
  PROVE     /\ c.action = "start" /\ x \in Items /\ x.kind = c.kind /\ x.begun = FALSE /\ Body(x) = "none"
            /\ x.name = (IF c.kind = "doc" THEN Nameless ELSE c.name)
            /\ c.kind \in {"doc", "dtd", "dtdattlist", "elem"}
            /\ After(D, c) = Append(Begun(D), x) /\ After(D, c) \in Stacks
            /\ Len(Begun(D)) < MaxDepth /\ Begun(D) \in Stacks
<1> DEFINE B == Begun(D)
<1>1. /\ c.action = "start" /\ c.kind \in {"doc", "dtd", "dtdattlist", "elem"}
         /\ (c.kind # "doc" => c.name \in ElemNames)
      /\ Len(D) < MaxDepth
  BY DEF TakesStart
<1>2. x \in Items /\ x.kind = c.kind /\ x.begun = FALSE /\ x.name = (IF c.kind = "doc" THEN Nameless ELSE c.name)
  BY <1>1 DEF Named, Item, Items, OpenKinds
<1>3. Body(x) = "none"
  BY <1>1, <1>2 DEF Body
<1>4. After(D, c) = Append(B, x)
  BY <1>1 DEF After
<1>5. B \in Stacks /\ Len(B) = Len(D)
  BY BegunFacts
<1> HIDE DEF B
<1>6. Append(B, x) \in Stacks
  BY <1>1, <1>2, <1>5, PushTop
<1> QED BY <1>1, <1>2, <1>3, <1>4, <1>5, <1>6 DEF B

(* What a write changes. *)
LEMMA AfterWrite ==
  ASSUME NEW D \in Stacks, NEW c, TakesWrite(D, c)
  PROVE  /\ After(D, c) = IF c.kind = "attr" \/ Refused(D, c) THEN D ELSE Begun(D)
         /\ After(D, c) \in Stacks /\ Begun(D) \in Stacks
<1> DEFINE B == Begun(D)
<1>1. B \in Stacks
  BY BegunFacts
<1>2. c.action = "write"
  BY DEF TakesWrite
<1> HIDE DEF B
<1>3. After(D, c) = IF c.kind = "attr" \/ Refused(D, c) THEN D ELSE B
  BY <1>2 DEF After, B
<1> QED BY <1>1, <1>3 DEF B

(* What an end takes away. *)
LEMMA AfterEnd ==
  ASSUME NEW D \in Stacks, NEW c, TakesEnd(D, c)
  PROVE  After(D, c) = Front(D) /\ Front(D) \in Stacks /\ D # <<>> /\ ~Refused(D, c)
<1>1. c.action = "end" /\ D # <<>> /\ c.kind # "pi"
  BY DEF TakesEnd
<1>2. Front(D) \in Stacks
  BY <1>1, DropTop
<1>3. After(D, c) = Front(D)
  BY <1>1 DEF After
<1> QED BY <1>1, <1>2, <1>3 DEF Refused

(* A command that is taken makes of the writer of one stack the writer of  *)
(* the next; an instruction in a subset is refused, and nothing else.      *)
LEMMA PlayedIs ==
  ASSUME NEW D \in Stacks, NEW c, Takes(D, c)
  PROVE  /\ After(D, c) \in Stacks
         /\ ~Refused(D, c) => Played(WriterOf(D), c) = WriterOf(After(D, c))
         /\ Refused(D, c) => Played(WriterOf(D), c) = W!Outcome(WriterOf(D), "rejected")
<1> DEFINE v == WriterOf(D)
           E == After(D, c)
<1>1. TopKind(D) = "doc" => Len(D) = 1
  BY DEF Takes
<1>2. CASE TakesStart(D, c)
  <2>7. PICK x : x = Named(c.kind, c.name)
    OBVIOUS
  <2>8. x \in Items /\ E \in Stacks
    BY <1>2, <2>7, AfterStart
  <2>9. /\ c.action = "start" /\ c.kind \in {"doc", "dtd", "dtdattlist", "elem"}
    BY <1>2 DEF TakesStart
  <2>10. x.kind = c.kind /\ x.begun = FALSE /\ x.name = (IF c.kind = "doc" THEN Nameless ELSE c.name)
    BY <2>7 DEF Named, Item
  <2>11. Body(x) = "none"
    BY <2>9, <2>10 DEF Body
  <2>12. E = Append(Begun(D), x)
    BY <2>7, <2>9 DEF After
  <2> HIDE DEF E
  <2>2. Len(D) < MaxDepth /\ TopKind(D) \in Parents(c.kind) /\ c.kind # "pi"
    BY <1>2, NoTop DEF TakesStart, Parents
  <2>3. Started(v, x.kind, x.name, Body(x)) = WriterOf(Append(Begun(D), x))
    BY <2>2, <2>8, <2>10, StartPushes
  <2> HIDE DEF v
  <2>4. DoStart(v, c) = WriterOf(E)
    BY <2>3, <2>10, <2>11, <2>12 DEF DoStart
  <2>5. Played(v, c) = WriterOf(E)
    BY <2>4, <2>9 DEF Played
  <2> QED BY <2>2, <2>5, <2>8 DEF Refused, E, v
<1>3. CASE TakesWrite(D, c)
  <2>1. E = IF c.kind = "attr" \/ Refused(D, c) THEN D ELSE Begun(D)
    BY <1>3, AfterWrite
  <2>2. E \in Stacks
    BY <1>3, AfterWrite
  <2>3. c.action = "write"
    BY <1>3 DEF TakesWrite
  <2> HIDE DEF E
  <2>4. Played(v, c) = DoWrite(v, c)
    BY <2>3 DEF Played
  <2>5. CASE c.kind = "attr" /\ TopKind(D) = "elem" /\ ~D[Len(D)].begun
    <3>1. WriteAttr(v) = v
      BY <2>5, AttrWrites
    <3> HIDE DEF v
    <3> QED BY <2>1, <2>2, <2>4, <2>5, <3>1 DEF DoWrite, Refused, E, v
  <2>6. CASE c.kind = "raw"
    <3>1. WriteRaw(v) = WriterOf(Begun(D))
      BY RawWrites
    <3> HIDE DEF v
    <3> QED BY <2>1, <2>2, <2>4, <2>6, <3>1 DEF DoWrite, Refused, E, v
  <2>7. CASE c.kind \in {"comment", "cdata"} /\ TopKind(D) \in Parents(c.kind) /\ Len(D) < MaxDepth
    <3>1. WriteWhole(v, c.kind) = WriterOf(Begun(D))
      BY <2>7, WholeWrites
    <3> HIDE DEF v
    <3> QED BY <2>1, <2>2, <2>4, <2>7, <3>1 DEF DoWrite, Refused, E, v
  <2>8. CASE c.kind \in LeafKinds /\ TopKind(D) \in Parents(c.kind) /\ ~Refused(D, c)
    <3>1. W!WriteLeaf(v, Parents(c.kind), c.kind, "none") = WriterOf(Begun(D))
      BY <2>8, LeafWrites
    <3> HIDE DEF v
    <3>2. DoWrite(v, c) = W!WriteLeaf(v, Parents(c.kind), c.kind, "none")
      BY <2>8 DEF DoWrite, LeafKinds
    <3>3. c.kind # "attr"
      BY <2>8 DEF LeafKinds
    <3> QED BY <2>1, <2>2, <2>4, <2>8, <3>1, <3>2, <3>3 DEF E, v
  <2>9. CASE Refused(D, c)
    <3>1. c.kind \in LeafKinds /\ TopKind(D) \notin Parents(c.kind)
      BY <2>9 DEF Refused, LeafKinds, Parents
    <3>2. W!WriteLeaf(v, Parents(c.kind), c.kind, "none") = W!Outcome(v, "rejected")
      BY <3>1, LeafWrites
    <3> HIDE DEF v
    <3>3. DoWrite(v, c) = W!WriteLeaf(v, Parents(c.kind), c.kind, "none")
      BY <3>1 DEF DoWrite, LeafKinds
    <3> QED BY <2>2, <2>4, <2>9, <3>2, <3>3 DEF E, v
  <2>10. \/ c.kind = "attr" /\ TopKind(D) = "elem" /\ ~D[Len(D)].begun
         \/ c.kind = "raw"
         \/ c.kind \in {"comment", "cdata"} /\ TopKind(D) \in Parents(c.kind) /\ Len(D) < MaxDepth
         \/ c.kind \in LeafKinds /\ TopKind(D) \in Parents(c.kind)
         \/ Refused(D, c)
    BY <1>3 DEF TakesWrite, Parents, LeafKinds, Refused
  <2> QED BY <2>5, <2>6, <2>7, <2>8, <2>9, <2>10
<1>4. CASE TakesEnd(D, c)
  <2>1. E = Front(D) /\ Front(D) \in Stacks /\ D # <<>> /\ ~Refused(D, c)
    BY <1>4, AfterEnd
  <2>2. c.action = "end" /\ c.kind = TopKind(D)
    BY <1>4 DEF TakesEnd
  <2>3. W!EndKind(v, TopKind(D), Nameless) = WriterOf(Front(D))
    BY <2>1, EndKindDrops
  <2>4. TopKind(D) = "doc" => EndDoc(v) = WriterOf(Front(D))
    BY <1>1, EndDocDrops
  <2> HIDE DEF v, E
  <2>5. DoEnd(v, c) = WriterOf(Front(D))
    BY <2>2, <2>3, <2>4 DEF DoEnd
  <2>6. Played(v, c) = DoEnd(v, c)
    BY <2>2 DEF Played
  <2> QED BY <2>1, <2>5, <2>6 DEF v, E
<1>5. TakesStart(D, c) \/ TakesWrite(D, c) \/ TakesEnd(D, c)
  BY DEF Takes
<1> QED BY <1>2, <1>3, <1>4, <1>5

(* The runner, after the commands that have made D. *)
Kept(r, D) ==
  /\ r = [w |-> r.w, active |-> r.active, err |-> r.err] /\ r.active \in BOOLEAN
  /\ \/ r.err = "nil" /\ r.w = WriterOf(D) /\ (~r.active => D = <<>>)
     \/ r.err = "encoding" /\ r.w = WriterOf(<<>>)
     \/ r.err = "pi" /\ \E E \in Stacks : TopKind(E) = "dtd" /\ r.w = W!Outcome(WriterOf(E), "rejected")

(* Exec keeps the runner in step with the stack, or stops with an error    *)
(* that is accounted for.                                                  *)
LEMMA ExecKeeps ==
  ASSUME NEW D \in Stacks, NEW c, Takes(D, c), Kept(run, D)
  PROVE  Kept(Exec(c), After(D, c)) /\ (Refused(D, c) => Exec(c).err # "nil")
<1> DEFINE F == After(D, c)
           e == Exec(c)
           v == Played(run.w, c)
<1>1. run = [w |-> run.w, active |-> run.active, err |-> run.err] /\ run.active \in BOOLEAN
  BY DEF Kept
<1>2. CASE run.err # "nil"
  <2>1. e = run
    BY <1>2 DEF Exec
  <2>2. Kept(run, F)
    BY <1>2 DEF Kept
  <2> HIDE DEF e
  <2> QED BY <1>2, <2>1, <2>2 DEF e
<1>3. CASE run.err = "nil" /\ Unsupported(c)
  <2>1. e = [run EXCEPT !.err = "encoding"]
    BY <1>3 DEF Exec
  <2>2. run.w = WriterOf(D) /\ D = <<>>
    BY <1>3 DEF Kept, Unsupported
  <2>3. e.w = run.w /\ e.err = "encoding" /\ e.active = run.active
        /\ e = [w |-> e.w, active |-> e.active, err |-> e.err]
    BY <1>1, <2>1
  <2> HIDE DEF e
  <2>4. Kept(e, F)
    BY <1>1, <2>2, <2>3 DEF Kept
  <2> QED BY <2>3, <2>4 DEF e
<1>4. CASE run.err = "nil" /\ ~Unsupported(c)
  <2>1. run.w = WriterOf(D) /\ (~run.active => D = <<>>)
    BY <1>4 DEF Kept
  <2>2. ~(c.action = "end" /\ ~run.active)
    <3>1. c.action = "end" => D # <<>>
      BY DEF Takes, TakesStart, TakesWrite, TakesEnd
    <3> QED BY <2>1, <3>1
  <2>3. e = [w |-> v, active |-> TRUE, err |-> IF v.err = "rejected" /\ c.kind = "pi" THEN "pi" ELSE v.err]
    BY <1>4, <2>2 DEF Exec
  <2>4. e.w = v /\ e.active = TRUE /\ e.err = (IF v.err = "rejected" /\ c.kind = "pi" THEN "pi" ELSE v.err)
        /\ e = [w |-> e.w, active |-> e.active, err |-> e.err]
    BY <2>3
  <2> HIDE DEF e
  <2>5. CASE ~Refused(D, c)
    <3>1. v = WriterOf(F) /\ F \in Stacks
      BY <2>1, <2>5, PlayedIs
    <3>2. v.err = "nil"
      BY <3>1 DEF WriterOf, Writer
    <3> HIDE DEF v, F
    <3>3. e.err = "nil" /\ e.w = WriterOf(F)
      BY <2>4, <3>1, <3>2
    <3>4. Kept(e, F)
      BY <2>4, <3>3 DEF Kept
    <3> QED BY <2>5, <3>4 DEF e, F
  <2>6. CASE Refused(D, c)
    <3>1. v = W!Outcome(WriterOf(D), "rejected")
      BY <2>1, <2>6, PlayedIs
    <3>2. v.err = "rejected"
      BY <3>1 DEF W!Outcome, WriterOf, Writer
    <3>3. c.kind = "pi" /\ TopKind(D) = "dtd"
      BY <2>6 DEF Refused
    <3> HIDE DEF v, F
    <3>4. e.err = "pi" /\ e.w = W!Outcome(WriterOf(D), "rejected")
      BY <2>4, <3>1, <3>2, <3>3
    <3>5. Kept(e, F)
      BY <2>4, <3>3, <3>4 DEF Kept
    <3> QED BY <3>4, <3>5 DEF e, F
  <2> QED BY <2>5, <2>6
<1> QED BY <1>2, <1>3, <1>4

-----------------------------------------------------------------------------
(* libxml2's writer. *)

(* libxml2 has no node for the document. *)
Docs(D) == IF D # <<>> /\ D[1].kind = "doc" THEN 1 ELSE 0

(* The state in which libxml2 has an item. *)
XState(x) ==
  IF x.kind = "elem" THEN (IF x.begun THEN "TEXT" ELSE "NAME")
  ELSE IF x.kind = "dtd" THEN (IF x.begun THEN "DTD_TEXT" ELSE "DTD")
  ELSE IF x.kind = "dtdattlist" THEN (IF x.begun THEN "ATTL_TEXT" ELSE "ATTL")
  ELSE "none"

XNode(x) == [state |-> XState(x), name |-> x.name]

XNodes(D) == [i \in 1 .. Len(D) - Docs(D) |-> XNode(D[Len(D) + 1 - i])]

XStates == {"TEXT", "NAME", "DTD", "DTD_TEXT", "ATTL", "ATTL_TEXT", "none"}

XNodeSet == [state : XStates, name : ElemNames \cup {Nameless}]

(* The document is the outermost. *)
Rooted(D) == TopKind(D) = "doc" => Len(D) = 1

(* A node of libxml2. *)
LEMMA XNodeFacts ==
  ASSUME NEW x \in Items
  PROVE  XNode(x) \in XNodeSet
BY DEF Items, XNode, XState, XNodeSet, XStates

(* libxml2 lists the innermost first, and not the document. *)
LEMMA XNodesFacts ==
  ASSUME NEW D \in Stacks, NEW X, X = XNodes(D)
  PROVE  /\ X \in Seq(XNodeSet) /\ Len(D) \in Nat /\ Docs(D) \in {0, 1} /\ Len(X) = Len(D) - Docs(D)
         /\ \A i \in 1 .. Len(X) : X[i] = XNode(D[Len(D) + 1 - i])
         /\ (D = <<>>) => Docs(D) = 0
         /\ X # <<>> <=> Len(D) > Docs(D)
         /\ X # <<>> => D # <<>> /\ X[1] = XNode(D[Len(D)]) /\ D[Len(D)] \in Items
<1>1. D \in Seq(Items) /\ Len(D) \in Nat /\ (D = <<>> => Len(D) = 0) /\ (D # <<>> => Len(D) >= 1
      /\ D[Len(D)] \in Items)
  BY Facts DEF Stacks
<1>2. Docs(D) \in {0, 1} /\ (D = <<>> => Docs(D) = 0)
  BY DEF Docs
<1> DEFINE n == Len(D)
           k == Docs(D)
<1>3. n - k \in Nat
  <2>1. n = 0 => D = <<>>
    BY <1>1, EmptySeq
  <2> HIDE DEF n, k
  <2> QED BY <1>1, <1>2, <2>1 DEF n, k
<1>4. X = [i \in 1 .. n - k |-> XNode(D[n + 1 - i])]
  BY DEF XNodes
<1> HIDE DEF n, k
<1>5. ASSUME NEW i \in 1 .. n - k PROVE XNode(D[n + 1 - i]) \in XNodeSet
  <2>1. n + 1 - i \in 1 .. n
    BY <1>1, <1>2 DEF n, k
  <2>2. D[n + 1 - i] \in Items
    BY <1>1, <2>1, ElementOfSeq DEF n
  <2> QED BY <2>2, XNodeFacts
<1>6. X \in Seq(XNodeSet) /\ Len(X) = n - k
  <2>1. X \in [1 .. n - k -> XNodeSet]
    BY <1>4, <1>5
  <2> HIDE DEF XNodeSet
  <2> QED BY <1>3, <2>1, SeqDef
<1>7. \A i \in 1 .. Len(X) : X[i] = XNode(D[n + 1 - i])
  BY <1>4, <1>6
<1>8. X # <<>> <=> n > k
  <2>1. X = <<>> <=> Len(X) = 0
    BY <1>6, EmptySeq
  <2> QED BY <1>1, <1>2, <1>6, <2>1 DEF n, k
<1>9. X # <<>> => D # <<>> /\ X[1] = XNode(D[n]) /\ D[n] \in Items
  <2>1. SUFFICES ASSUME X # <<>> PROVE D # <<>> /\ X[1] = XNode(D[n]) /\ D[n] \in Items
    OBVIOUS
  <2>2. n > k /\ 1 \in 1 .. Len(X) /\ n + 1 - 1 = n
    BY <1>1, <1>2, <1>6, <1>8, <2>1 DEF n, k
  <2>3. D # <<>>
    BY <1>1, <1>2, <2>2 DEF n, k
  <2> QED BY <1>1, <1>7, <2>2, <2>3 DEF n
<1> QED BY <1>1, <1>2, <1>6, <1>7, <1>8, <1>9 DEF n, k

(* A start, an end and content change the first of its nodes only: one is  *)
(* put before it,                                                          *)
LEMMA XPushes ==
  ASSUME NEW D \in Stacks, Len(D) < MaxDepth, NEW x \in Items, x.kind # "doc"
  PROVE  XNodes(Append(D, x)) = <<XNode(x)>> \o XNodes(D)
<1> DEFINE E == Append(D, x)
<1>1. PICK X : X = XNodes(D)
  OBVIOUS
<1>2. PICK Y : Y = XNodes(E)
  OBVIOUS
<1> DEFINE n == Len(D)
           Z == <<XNode(x)>> \o X
<1>3. E \in Stacks /\ Len(E) = n + 1 /\ n \in Nat /\ E[n + 1] = x /\ E # <<>> /\ \A i \in 1 .. n : E[i] = D[i]
  BY PushTop
<1> HIDE DEF E
<1>4. Docs(E) = Docs(D)
  <2>1. n = 0 <=> D = <<>>
    BY Facts
  <2>2. E[1] = IF n = 0 THEN x ELSE D[1]
    BY <1>3
  <2> QED BY <1>3, <2>1, <2>2 DEF Docs
<1>5. X \in Seq(XNodeSet) /\ Docs(D) \in {0, 1} /\ Len(X) = n - Docs(D)
      /\ \A i \in 1 .. Len(X) : X[i] = XNode(D[n + 1 - i])
  BY <1>1, XNodesFacts
<1>6. Y \in Seq(XNodeSet) /\ Len(Y) = (n + 1) - Docs(D) /\ \A i \in 1 .. Len(Y) : Y[i] = XNode(E[n + 1 + 1 - i])
  BY <1>2, <1>3, <1>4, XNodesFacts
<1>7. XNode(x) \in XNodeSet
  BY XNodeFacts
<1> HIDE DEF n, Z
<1>8. Z \in Seq(XNodeSet) /\ Len(Z) = Len(X) + 1 /\ Z[1] = XNode(x) /\ \A i \in 2 .. Len(Z) : Z[i] = X[i - 1]
  <2> HIDE DEF XNodeSet, XNode
  <2> QED BY <1>5, <1>7, FirstAdded DEF Z
<1>9. ASSUME NEW i \in 1 .. Len(Y) PROVE Y[i] = Z[i]
  <2>1. Y[i] = XNode(E[n + 1 + 1 - i])
    BY <1>6
  <2>2. CASE i = 1
    <3>1. n + 1 + 1 - i = n + 1
      BY <1>3, <2>2 DEF n
    <3> QED BY <1>3, <1>8, <2>1, <2>2, <3>1 DEF n
  <2>3. CASE i # 1
    <3>1. i \in 2 .. Len(Z) /\ i - 1 \in 1 .. Len(X)
      BY <1>3, <1>5, <1>6, <1>8, <2>3 DEF n
    <3>2. n + 1 - (i - 1) = n + 1 + 1 - i /\ n + 1 - (i - 1) \in 1 .. n
      BY <1>3, <1>5, <1>6, <2>3 DEF n
    <3>3. Z[i] = XNode(D[n + 1 - (i - 1)])
      BY <1>5, <1>8, <3>1 DEF n
    <3> QED BY <1>3, <2>1, <3>2, <3>3 DEF n
  <2> QED BY <2>2, <2>3
<1>10. Len(Y) = Len(Z)
  BY <1>3, <1>5, <1>6, <1>8 DEF n
<1>11. Y = Z
  <2> HIDE DEF XNodeSet, XNode
  <2> QED BY <1>6, <1>8, <1>9, <1>10, SeqEqual
<1> QED BY <1>1, <1>2, <1>11 DEF Z, E

(* it is removed, *)
LEMMA XPops ==
  ASSUME NEW D \in Stacks, XNodes(D) # <<>>
  PROVE  XNodes(Front(D)) = Tail(XNodes(D))
<1> DEFINE E == Front(D)
           n == Len(D)
<1>1. PICK X : X = XNodes(D)
  OBVIOUS
<1>2. PICK Y : Y = XNodes(E)
  OBVIOUS
<1>3. /\ X \in Seq(XNodeSet) /\ n \in Nat /\ Docs(D) \in {0, 1} /\ Len(X) = n - Docs(D)
      /\ \A i \in 1 .. Len(X) : X[i] = XNode(D[n + 1 - i])
      /\ n > Docs(D) /\ D # <<>> /\ X # <<>>
  BY <1>1, XNodesFacts
<1>4. E \in Stacks /\ Len(E) = n - 1 /\ \A i \in 1 .. n - 1 : E[i] = D[i]
  BY <1>3, DropTop
<1> HIDE DEF E, n
<1>5. Docs(E) = Docs(D)
  <2>1. (E = <<>>) <=> n = 1
    BY <1>3, <1>4, Facts
  <2>2. n # 1 => E[1] = D[1]
    BY <1>3, <1>4
  <2>3. n = 1 => Docs(D) = 0
    BY <1>3
  <2> QED BY <1>3, <2>1, <2>2, <2>3 DEF Docs
<1>6. Y \in Seq(XNodeSet) /\ Len(Y) = n - 1 - Docs(D) /\ \A i \in 1 .. Len(Y) : Y[i] = XNode(E[n - 1 + 1 - i])
  BY <1>2, <1>4, <1>5, XNodesFacts
<1> DEFINE Z == Tail(X)
<1>7. Z \in Seq(XNodeSet) /\ Len(Z) = Len(X) - 1 /\ \A i \in 1 .. Len(Z) : Z[i] = X[i + 1]
  <2> HIDE DEF XNodeSet, XNode
  <2> QED BY <1>3, FirstDropped
<1> HIDE DEF Z
<1>8. Len(Y) = Len(Z)
  BY <1>3, <1>6, <1>7
<1>9. ASSUME NEW i \in 1 .. Len(Y) PROVE Y[i] = Z[i]
  <2>1. Y[i] = XNode(E[n - 1 + 1 - i])
    BY <1>6
  <2>2. i + 1 \in 1 .. Len(X) /\ n + 1 - (i + 1) = n - 1 + 1 - i /\ n - 1 + 1 - i \in 1 .. n - 1
    BY <1>3, <1>6, <1>7
  <2>3. Z[i] = XNode(D[n + 1 - (i + 1)])
    BY <1>3, <1>7, <1>8, <2>2
  <2> QED BY <1>4, <2>1, <2>2, <2>3
<1>10. Y = Z
  <2> HIDE DEF XNodeSet, XNode
  <2> QED BY <1>6, <1>7, <1>8, <1>9, SeqEqual
<1> QED BY <1>1, <1>2, <1>10 DEF Z, E

(* or it has begun. *)
LEMMA XBegins ==
  ASSUME NEW D \in Stacks
  PROVE  /\ XNodes(D) = <<>> => XNodes(Begun(D)) = <<>>
         /\ XNodes(D) # <<>> =>
              XNodes(Begun(D)) = Put(XNodes(D), 1, XNode([D[Len(D)] EXCEPT !.begun = TRUE]))
<1> DEFINE B == Begun(D)
           n == Len(D)
           x == D[n]
           y == [x EXCEPT !.begun = TRUE]
<1>1. PICK X : X = XNodes(D)
  OBVIOUS
<1>2. PICK Y : Y = XNodes(B)
  OBVIOUS
<1>3. /\ B \in Stacks /\ Len(B) = n /\ ((B = <<>>) <=> (D = <<>>))
      /\ \A i \in 1 .. n : B[i].kind = D[i].kind
  BY BegunFacts
<1>4. \A i \in 1 .. n - 1 : B[i] = D[i]
  BY BegunFacts
<1>5. /\ X \in Seq(XNodeSet) /\ n \in Nat /\ Docs(D) \in {0, 1} /\ Len(X) = n - Docs(D)
      /\ \A i \in 1 .. Len(X) : X[i] = XNode(D[n + 1 - i])
      /\ (X # <<>> <=> n > Docs(D))
  BY <1>1, XNodesFacts
<1>6. X # <<>> => D # <<>>
  BY <1>1, XNodesFacts
<1>7. D # <<>> => B[n] = y /\ y \in Items
  <2>1. SUFFICES ASSUME D # <<>> PROVE B[n] = y /\ y \in Items
    OBVIOUS
  <2>2. y \in Items /\ B = Put(D, n, y)
    BY <2>1, BegunIs
  <2> HIDE DEF y, B
  <2>3. Put(D, n, y)[n] = y
    BY <2>1, <2>2, ReplaceTop
  <2> QED BY <2>2, <2>3
<1> HIDE DEF B, n, x, y
<1>8. Docs(B) = Docs(D)
  <2>1. n = 0 => D = <<>>
    BY Facts DEF n
  <2>2. D # <<>> => B[1].kind = D[1].kind
    BY <1>3, <1>5, <2>1
  <2> QED BY <1>3, <2>2 DEF Docs
<1>9. /\ Y \in Seq(XNodeSet) /\ Len(Y) = n - Docs(D) /\ \A i \in 1 .. Len(Y) : Y[i] = XNode(B[n + 1 - i])
      /\ (Y # <<>> <=> n > Docs(D))
  BY <1>2, <1>3, <1>8, XNodesFacts
<1>10. ASSUME X # <<>> PROVE Y = Put(X, 1, XNode(y))
  <2>1. XNode(y) \in XNodeSet
    BY <1>6, <1>7, <1>10, XNodeFacts
  <2>2. Y[1] = XNode(y)
    <3>1. 1 \in 1 .. Len(Y) /\ n + 1 - 1 = n
      BY <1>5, <1>9, <1>10
    <3> QED BY <1>6, <1>7, <1>9, <1>10, <3>1
  <2>3. ASSUME NEW i \in 2 .. Len(Y) PROVE Y[i] = X[i]
    <3>1. n + 1 - i \in 1 .. n - 1 /\ i \in 1 .. Len(Y) /\ i \in 1 .. Len(X)
      BY <1>5, <1>9
    <3> QED BY <1>4, <1>5, <1>9, <3>1
  <2>4. DOMAIN X = 1 .. Len(X) /\ DOMAIN Y = 1 .. Len(X) /\ Y = [i \in DOMAIN Y |-> Y[i]] /\ Len(X) \in Nat
    <3> HIDE DEF XNodeSet, XNode
    <3>1. Len(X) = Len(Y) /\ Len(X) \in Nat
      BY <1>5, <1>9
    <3> QED BY <1>5, <1>9, <3>1, LenProperties, SeqDef
  <2>5. \A i \in 1 .. Len(X) : Y[i] = IF i = 1 THEN XNode(y) ELSE X[i]
    <3> TAKE i \in 1 .. Len(X)
    <3>1. i # 1 => i \in 2 .. Len(Y)
      BY <1>5, <1>9
    <3> QED BY <2>2, <2>3, <3>1
  <2> HIDE DEF XNode, XNodeSet
  <2> QED BY <2>4, <2>5 DEF Put
<1> QED BY <1>1, <1>2, <1>5, <1>9, <1>10 DEF B, x, y, n

(* What libxml2 has open of a stack. *)
Lib(nodes) == [nodes |-> nodes, ok |-> TRUE]

LibOf(D) == Lib(XNodes(D))

(* The fields of a libxml2 writer that has refused nothing. *)
LEMMA LibFields ==
  ASSUME NEW nodes
  PROVE  /\ Lib(nodes).nodes = nodes /\ Lib(nodes).ok
         /\ C!State(Lib(nodes)) = IF nodes = <<>> THEN "empty" ELSE nodes[1].state
BY DEF Lib, C!State

(* Its nodes are all that changes. *)
LEMMA LibChanges ==
  ASSUME NEW nodes, NEW x
  PROVE  [Lib(nodes) EXCEPT !.nodes = x] = Lib(x)
<1> DEFINE r == [Lib(nodes) EXCEPT !.nodes = x]
           s == Lib(x)
<1>1. r = [f \in {"nodes", "ok"} |-> r[f]] /\ s = [f \in {"nodes", "ok"} |-> s[f]]
  BY DEF Lib
<1>2. r.nodes = x /\ r.ok = TRUE
  BY DEF Lib
<1>3. s.nodes = x /\ s.ok = TRUE
  BY DEF Lib
<1>4. r.ok = s.ok
  BY <1>2, <1>3, Zenon
<1> HIDE DEF r, s
<1>5. \A f \in {"nodes", "ok"} : r[f] = s[f]
  BY <1>2, <1>3, <1>4
<1>6. r = s
  BY <1>1, <1>5
<1> QED BY <1>6 DEF r, s

(* Its state is about the innermost, and "empty" outside and right inside  *)
(* a document.                                                             *)
LEMMA LibState ==
  ASSUME NEW D \in Stacks, Rooted(D)
  PROVE  /\ TopKind(D) \in {"none", "doc"} <=> XNodes(D) = <<>>
         /\ TopKind(D) \in {"none", "doc"} => C!State(LibOf(D)) = "empty"
         /\ TopKind(D) \notin {"none", "doc"} =>
              /\ XNodes(D) # <<>> /\ D # <<>> /\ D[Len(D)] \in Items /\ TopKind(D) = D[Len(D)].kind
              /\ C!State(LibOf(D)) = XState(D[Len(D)]) /\ XNodes(D)[1] = XNode(D[Len(D)])
<1>1. PICK X : X = XNodes(D)
  OBVIOUS
<1>2. /\ (X # <<>> <=> Len(D) > Docs(D)) /\ Len(D) \in Nat /\ Docs(D) \in {0, 1}
      /\ (D = <<>> => Docs(D) = 0)
      /\ (X # <<>> => D # <<>> /\ X[1] = XNode(D[Len(D)]) /\ D[Len(D)] \in Items)
  BY <1>1, XNodesFacts
<1>3. (D = <<>> <=> Len(D) = 0) /\ (TopKind(D) = "none" <=> D = <<>>)
  BY Facts, NoTop
<1>4. D # <<>> => TopKind(D) = D[Len(D)].kind
  BY DEF TopKind
<1>5. TopKind(D) = "doc" => X = <<>>
  <2>1. SUFFICES ASSUME TopKind(D) = "doc" PROVE X = <<>>
    OBVIOUS
  <2>2. Len(D) = 1 /\ D # <<>>
    BY <1>3, <2>1 DEF Rooted
  <2>3. D[1].kind = "doc"
    BY <1>4, <2>1, <2>2
  <2> QED BY <1>2, <2>2, <2>3 DEF Docs
<1>6. TopKind(D) = "none" => X = <<>>
  BY <1>2, <1>3
<1>7. TopKind(D) \notin {"none", "doc"} => X # <<>>
  <2>1. SUFFICES ASSUME TopKind(D) \notin {"none", "doc"} PROVE X # <<>>
    OBVIOUS
  <2>2. D # <<>>
    BY <1>3, <2>1
  <2>3. Len(D) = 1 \/ Len(D) > 1
    <3>1. Len(D) # 0
      BY <1>3, <2>2
    <3>2. PICK n \in Nat : n = Len(D)
      BY <1>2
    <3> QED BY <3>1, <3>2
  <2>4. CASE Len(D) = 1
    <3>1. D[1].kind # "doc"
      BY <1>4, <2>1, <2>2, <2>4
    <3> QED BY <1>2, <2>4, <3>1 DEF Docs
  <2>5. CASE Len(D) > 1
    BY <1>2, <2>5
  <2> QED BY <2>3, <2>4, <2>5
<1>8. C!State(Lib(X)) = IF X = <<>> THEN "empty" ELSE X[1].state
  BY LibFields
<1>9. X # <<>> => X[1].state = XState(D[Len(D)])
  BY <1>2 DEF XNode
<1> QED BY <1>1, <1>2, <1>4, <1>5, <1>6, <1>7, <1>8, <1>9 DEF LibOf

(* Content is about to follow: for both. *)
LEMMA Settles ==
  ASSUME NEW D \in Stacks, Rooted(D)
  PROVE  C!Settled(LibOf(D)) = LibOf(Begun(D))
<1> DEFINE x == D[Len(D)]
           y == [x EXCEPT !.begun = TRUE]
           l == LibOf(D)
<1>1. PICK X : X = XNodes(D)
  OBVIOUS
<1>2. CASE TopKind(D) \in {"none", "doc"}
  <2>1. C!State(l) = "empty" /\ X = <<>>
    BY <1>1, <1>2, LibState
  <2>2. XNodes(Begun(D)) = <<>>
    BY <1>1, <2>1, XBegins
  <2>3. LibOf(Begun(D)) = l
    BY <1>1, <2>1, <2>2 DEF LibOf
  <2> HIDE DEF l
  <2>4. C!Settled(l) = l
    BY <2>1 DEF C!Settled
  <2> QED BY <2>3, <2>4 DEF l
<1>3. CASE TopKind(D) \notin {"none", "doc"}
  <2>1. X # <<>> /\ D # <<>> /\ x \in Items /\ C!State(l) = XState(x) /\ X[1] = XNode(x)
    BY <1>1, <1>3, LibState
  <2>2. y.kind = x.kind /\ y.name = x.name /\ y.begun = TRUE /\ x.begun \in BOOLEAN
    BY <2>1, NodeFacts
  <2>3. LibOf(Begun(D)) = Lib(Put(X, 1, XNode(y)))
    BY <1>1, <2>1, XBegins DEF LibOf
  <2>4. l.nodes = X /\ l = Lib(X)
    BY <1>1, LibFields DEF LibOf
  <2> HIDE DEF l, y
  <2>5. \A s : [l EXCEPT !.nodes[1].state = s] = Lib(Put(X, 1, [X[1] EXCEPT !.state = s]))
    <3> TAKE s
    <3>1. [Lib(X) EXCEPT !.nodes = Put(X, 1, [X[1] EXCEPT !.state = s])] = Lib(Put(X, 1, [X[1] EXCEPT !.state = s]))
      BY LibChanges
    <3>2. [l EXCEPT !.nodes[1].state = s] = [l EXCEPT !.nodes = Put(X, 1, [X[1] EXCEPT !.state = s])]
      BY <2>4 DEF Put
    <3> QED BY <2>4, <3>1, <3>2
  <2>6. [XNode(x) EXCEPT !.state = XState(y)] = XNode(y)
    BY <2>2 DEF XNode
  <2>7. CASE XState(x) \in {"NAME", "DTD", "ATTL"}
    <3>1. C!Settled(l) = [l EXCEPT !.nodes[1].state = XState(y)]
      BY <2>1, <2>2, <2>7 DEF C!Settled, XState
    <3> QED BY <2>1, <2>3, <2>5, <2>6, <3>1 DEF l
  <2>8. CASE XState(x) \notin {"NAME", "DTD", "ATTL"}
    <3>1. C!Settled(l) = l
      BY <2>1, <2>8 DEF C!Settled
    <3>2. XState(y) = XState(x)
      BY <2>2, <2>8 DEF XState
    <3>3. XNode(y) = XNode(x)
      BY <2>2, <3>2 DEF XNode
    <3>4. Put(X, 1, X[1]) = X
      <4>1. X \in Seq(XNodeSet)
        BY <1>1, XNodesFacts
      <4>2. X = [i \in DOMAIN X |-> X[i]]
        BY <4>1, SeqDef
      <4> QED BY <4>2, PutSame
    <3> QED BY <2>1, <2>3, <2>4, <3>1, <3>3, <3>4 DEF l
  <2> QED BY <2>7, <2>8
<1> QED BY <1>2, <1>3

-----------------------------------------------------------------------------
(* libxml2 takes the commands too. *)

(* The case distinction of RunStart. *)
StartXml(x, kind, name) ==
  CASE kind = "doc"        -> C!StartDocument(x)
    [] kind = "dtd"        -> C!StartDTD(x, name)
    [] kind = "dtdattlist" -> C!StartDTDAttlist(x, name)
    [] kind = "elem"       -> C!StartElement(x, name)

(* xmlTextWriter puts a node first. *)
LEMMA LibPushes ==
  ASSUME NEW nodes, NEW st, NEW nm
  PROVE  C!PushNode(Lib(nodes), st, nm) = Lib(<<[state |-> st, name |-> nm]>> \o nodes)
<1> DEFINE l == Lib(nodes)
           z == <<[state |-> st, name |-> nm]>> \o nodes
<1>1. l.nodes = nodes
  BY LibFields
<1> HIDE DEF l
<1>2. C!PushNode(l, st, nm) = [l EXCEPT !.nodes = z]
  BY <1>1 DEF C!PushNode
<1> HIDE DEF z
<1>3. [l EXCEPT !.nodes = z] = Lib(z)
  BY LibChanges DEF l
<1> QED BY <1>2, <1>3 DEF l, z

(* libxml2 takes each start and has open what the stack has. *)
LEMMA LibStarts ==
  ASSUME NEW D \in Stacks, NEW c, TakesStart(D, c), Rooted(D)
  PROVE  StartXml(LibOf(D), c.kind, c.name) = LibOf(After(D, c))
<1> DEFINE l == LibOf(D)
           B == Begun(D)
           lb == LibOf(B)
           F == After(D, c)
<1>1. PICK x : x = Named(c.kind, c.name)
  OBVIOUS
<1>2. x \in Items /\ B \in Stacks /\ Len(B) < MaxDepth /\ F = Append(B, x)
  <2>1. x \in Items /\ B \in Stacks /\ Len(B) < MaxDepth
    BY <1>1, AfterStart
  <2>2. F = Append(B, x)
    BY <1>1 DEF After, TakesStart
  <2> QED BY <2>1, <2>2
<1>3. x.kind = c.kind /\ x.begun = FALSE /\ (c.kind # "doc" => x.name = c.name)
  BY <1>1 DEF Named, Item
<1>4. C!Settled(l) = lb
  BY Settles
<1>5. /\ TopKind(D) \in {"none", "doc"} => C!State(l) = "empty" /\ XNodes(D) = <<>>
      /\ TopKind(D) \notin {"none", "doc"} => C!State(l) = XState(D[Len(D)]) /\ TopKind(D) = D[Len(D)].kind
  BY LibState
<1>6. l.nodes = XNodes(D)
  BY LibFields DEF LibOf
<1>7. ASSUME c.kind # "doc"
      PROVE  C!PushNode(lb, XState(x), c.name) = LibOf(F)
  <2>1. XNodes(Append(B, x)) = <<XNode(x)>> \o XNodes(B)
    BY <1>2, <1>3, <1>7, XPushes
  <2>2. XNode(x) = [state |-> XState(x), name |-> c.name]
    BY <1>3, <1>7 DEF XNode
  <2>3. C!PushNode(Lib(XNodes(B)), XState(x), c.name) = Lib(<<[state |-> XState(x), name |-> c.name]>> \o XNodes(B))
    BY LibPushes
  <2> QED BY <1>2, <2>1, <2>2, <2>3 DEF LibOf
<1>8. CASE c.kind = "doc" /\ D = <<>>
  <2>1. XNodes(D) = <<>>
    BY <1>5, <1>8 DEF TopKind
  <2>2. XNodes(F) = <<>>
    <3>1. B = <<>> /\ Len(B) \in Nat /\ Len(B) = 0
      BY <1>2, <1>8, Facts DEF Begun
    <3>2. F \in Stacks /\ Len(F) = 1 /\ F[1] = x /\ F # <<>>
      <4> HIDE DEF F, B
      <4>1. LET E == Append(B, x) IN E \in Stacks /\ Len(E) = Len(B) + 1 /\ E[Len(B) + 1] = x /\ E # <<>>
        BY <1>2, PushTop
      <4> QED BY <1>2, <3>1, <4>1
    <3>3. Docs(F) = 1
      BY <1>3, <1>8, <3>2 DEF Docs
    <3> HIDE DEF F
    <3>4. XNodes(F) # <<>> <=> Len(F) > Docs(F)
      BY <3>2, XNodesFacts
    <3> QED BY <3>2, <3>3, <3>4
  <2>3. C!StartDocument(l) = l
    <3> HIDE DEF l
    <3> QED BY <1>6, <2>1 DEF C!StartDocument
  <2>4. StartXml(l, c.kind, c.name) = l
    <3> HIDE DEF l
    <3> QED BY <1>8, <2>3 DEF StartXml
  <2> QED BY <2>1, <2>2, <2>4 DEF LibOf
<1>9. CASE c.kind = "dtd" /\ (D = <<>> \/ TopKind(D) = "doc")
  <2>1. XNodes(D) = <<>>
    BY <1>5, <1>9 DEF TopKind
  <2>2. lb = l
    BY <2>1, XBegins DEF LibOf
  <2>3. XState(x) = "DTD"
    BY <1>3, <1>9 DEF XState
  <2> HIDE DEF l, lb, F
  <2>4. StartXml(l, c.kind, c.name) = C!PushNode(l, "DTD", c.name)
    BY <1>6, <1>9, <2>1 DEF StartXml, C!StartDTD
  <2> QED BY <1>7, <1>9, <2>2, <2>3, <2>4 DEF l, F
<1>10. CASE c.kind = "dtdattlist" /\ TopKind(D) = "dtd"
  <2>1. C!State(l) \in C!DTDStates
    BY <1>5, <1>10 DEF XState, C!DTDStates
  <2>2. XState(x) = "ATTL"
    BY <1>3, <1>10 DEF XState
  <2> HIDE DEF l, lb, F
  <2>3. StartXml(l, c.kind, c.name) = C!PushNode(lb, "ATTL", c.name)
    BY <1>4, <1>10, <2>1 DEF StartXml, C!StartDTDAttlist
  <2> QED BY <1>7, <1>10, <2>2, <2>3 DEF l, F
<1>11. CASE c.kind = "elem" /\ TopKind(D) \in {"none", "doc", "elem"}
  <2>1. C!State(l) \in {"empty", "NAME", "TEXT"}
    BY <1>5, <1>11 DEF XState
  <2>2. XState(x) = "NAME"
    BY <1>3, <1>11 DEF XState
  <2> HIDE DEF l, lb, F
  <2>3. C!State(l) # "NAME" => C!Settled(l) = l
    BY <2>1 DEF C!Settled
  <2>4. StartXml(l, c.kind, c.name) = C!PushNode(lb, "NAME", c.name)
    BY <1>4, <1>11, <2>3 DEF StartXml, C!StartElement
  <2> QED BY <1>7, <1>11, <2>2, <2>4 DEF l, F
<1> QED BY <1>8, <1>9, <1>10, <1>11 DEF TakesStart

(* It takes each end. *)
LEMMA LibEnds ==
  ASSUME NEW D \in Stacks, NEW c, TakesEnd(D, c), Rooted(D)
  PROVE  C!EndXml(LibOf(D), c.kind) = LibOf(After(D, c))
<1> DEFINE l == LibOf(D)
           F == After(D, c)
<1>1. F = Front(D) /\ F \in Stacks /\ D # <<>>
  BY AfterEnd
<1>2. Len(F) = Len(D) - 1 /\ Len(D) \in Nat
  BY <1>1, DropTop, Facts
<1>3. PICK X : X = XNodes(D)
  OBVIOUS
<1>4. l.nodes = X /\ l = Lib(X)
  BY <1>3, LibFields DEF LibOf
<1>5. TopKind(D) \notin {"none", "doc"} => X # <<>> /\ C!State(l) = XState(D[Len(D)]) /\ TopKind(D) = D[Len(D)].kind
                                           /\ X[1] = XNode(D[Len(D)])
  BY <1>3, LibState
<1>6. X # <<>> => XNodes(F) = Tail(X)
  BY <1>1, <1>3, XPops
<1>7. \A z : [l EXCEPT !.nodes = z] = Lib(z)
  BY <1>4, LibChanges
<1>8. TopKind(D) \notin {"none", "doc"} => C!PopNode(l) = LibOf(F)
  <2>1. SUFFICES ASSUME TopKind(D) \notin {"none", "doc"} PROVE C!PopNode(l) = LibOf(F)
    OBVIOUS
  <2> HIDE DEF l, F
  <2>2. C!PopNode(l) = [l EXCEPT !.nodes = Tail(X)]
    BY <1>4 DEF C!PopNode
  <2> QED BY <1>5, <1>6, <1>7, <2>1, <2>2 DEF LibOf
<1>9. CASE c.kind = "doc" /\ TopKind(D) = "doc"
  <2>1. Len(F) = 0
    BY <1>2, <1>9 DEF Rooted
  <2> HIDE DEF l, F
  <2>2. C!EndXml(l, c.kind) = [l EXCEPT !.nodes = <<>>]
    BY <1>9 DEF C!EndXml, C!EndDocument
  <2>3. XNodes(F) = <<>>
    <3>1. XNodes(F) # <<>> => Len(F) > Docs(F) /\ Docs(F) \in {0, 1}
      BY <1>1, XNodesFacts
    <3> QED BY <2>1, <3>1
  <2> QED BY <1>7, <2>2, <2>3 DEF LibOf, l, F
<1>10. CASE c.kind = "dtd" /\ TopKind(D) = "dtd" /\ (Len(D) = 1 \/ (Len(D) = 2 /\ D[1].kind = "doc"))
  <2>1. Len(X) = 1 /\ X \in Seq(XNodeSet)
    <3>1. X \in Seq(XNodeSet) /\ Len(X) = Len(D) - Docs(D) /\ Docs(D) \in {0, 1} /\ (X # <<>> <=> Len(D) > Docs(D))
      BY <1>3, XNodesFacts
    <3>2. Len(D) = 2 => Docs(D) = 1
      BY <1>1, <1>10 DEF Docs
    <3> QED BY <1>2, <1>5, <1>10, <3>1, <3>2
  <2>2. X[1].state \in C!DTDStates
    BY <1>5, <1>10 DEF XNode, XState, C!DTDStates
  <2> DEFINE kept == {i \in 1 .. Len(X) : X[i].state \in C!ElemStates \cup {"CDATA"}}
             first == IF kept = {} THEN Len(X) + 1 ELSE CHOOSE i \in kept : \A j \in kept : i <= j
  <2>3. kept = {}
    <3>1. \A i \in 1 .. Len(X) : i = 1
      BY <2>1
    <3> QED BY <2>2, <3>1 DEF C!ElemStates, C!DTDStates
  <2>4. first = 2
    <3> HIDE DEF kept
    <3> QED BY <2>1, <2>3
  <2>5. C!EndDTD(l) = [l EXCEPT !.nodes = SubSeq(X, first, Len(X))]
    <3> HIDE DEF l
    <3> QED BY <1>4 DEF C!EndDTD
  <2> HIDE DEF first, kept, F, l
  <2>6. SubSeq(X, 2, 1) = <<>>
    <3>1. Len(SubSeq(X, 2, 1)) = 0 /\ SubSeq(X, 2, 1) \in Seq(XNodeSet)
      BY <2>1, SubSeqProperties
    <3> QED BY <3>1, EmptySeq
  <2>7. XNodes(F) = <<>>
    <3>1. X # <<>>
      BY <1>5, <1>10
    <3>2. Tail(X) \in Seq(XNodeSet) /\ Len(Tail(X)) = 0
      BY <2>1, <3>1, FirstDropped
    <3> QED BY <1>6, <3>1, <3>2, EmptySeq
  <2>8. C!EndXml(l, c.kind) = C!EndDTD(l)
    BY <1>10 DEF C!EndXml
  <2>9. C!EndDTD(l) = Lib(<<>>)
    BY <1>7, <2>1, <2>4, <2>5, <2>6
  <2> QED BY <2>7, <2>8, <2>9 DEF LibOf, l, F
<1>11. CASE c.kind = "dtdattlist" /\ TopKind(D) = "dtdattlist"
  <2>1. C!State(l) \in C!AttlistStates
    BY <1>5, <1>11 DEF XState, C!AttlistStates
  <2> HIDE DEF l, F
  <2> QED BY <1>8, <1>11, <2>1 DEF C!EndXml, C!EndIn, l, F
<1>12. CASE c.kind = "elem" /\ TopKind(D) = "elem"
  <2>1. C!State(l) \in C!ElemStates
    BY <1>5, <1>12 DEF XState, C!ElemStates
  <2> HIDE DEF l, F
  <2> QED BY <1>8, <1>12, <2>1 DEF C!EndXml, C!EndIn, l, F
<1> QED BY <1>9, <1>10, <1>11, <1>12 DEF TakesEnd

(* It takes each write, but an instruction in a subset that has begun. *)
LEMMA LibWrites ==
  ASSUME NEW D \in Stacks, NEW c, TakesWrite(D, c), Rooted(D), NEW d, d.xml = LibOf(D), d.in_dtd <=> InDtd(D)
  PROVE  \/ C!RunWrite(d, c.kind) = C!With(d, LibOf(After(D, c)))
         \/ /\ C!RunWrite(d, c.kind) = C!With(d, C!Refuse(LibOf(D)))
            /\ Refused(D, c) /\ C!State(LibOf(D)) = "DTD_TEXT"
<1> DEFINE l == LibOf(D)
           lb == LibOf(Begun(D))
           x == D[Len(D)]
           F == After(D, c)
<1>1. F = IF c.kind = "attr" \/ Refused(D, c) THEN D ELSE Begun(D)
  BY AfterWrite
<1>2. C!Settled(l) = lb
  BY Settles
<1>3. /\ TopKind(D) \in {"none", "doc"} => C!State(l) = "empty"
      /\ TopKind(D) \notin {"none", "doc"} => C!State(l) = XState(x) /\ TopKind(D) = x.kind
  BY LibState
<1> HIDE DEF l, lb, x, F
<1>4. TopKind(D) = "elem" => C!State(l) \in {"NAME", "TEXT"} /\ (~x.begun => C!State(l) = "NAME")
  BY <1>3 DEF XState
<1>5. TopKind(D) = "dtd" => C!State(l) \in {"DTD", "DTD_TEXT"}
  BY <1>3 DEF XState
<1>6. C!WriteRaw(l) = lb
  BY <1>2 DEF C!WriteRaw
<1>7. TopKind(D) \in {"none", "doc", "elem"} => C!WriteSection(l) = lb /\ C!WritePI(l) = lb
  BY <1>2, <1>3, <1>4 DEF C!WriteSection, C!WritePI, C!InContentOf, C!ElemStates
<1>8. TopKind(D) = "dtd" => C!WriteDeclaration(l) = lb /\ C!WriteDTDEntity(l) = lb
  BY <1>2, <1>5 DEF C!WriteDeclaration, C!WriteDTDEntity, C!DTDStates
<1>9. d.xml = l
  BY DEF l
<1>10. CASE c.kind = "attr" /\ TopKind(D) = "elem" /\ ~x.begun
  <2>1. C!WriteAttribute(l) = l /\ F = D
    BY <1>1, <1>4, <1>10 DEF C!WriteAttribute
  <2> QED BY <1>9, <1>10, <2>1 DEF C!RunWrite, l, F
<1>11. ASSUME c.kind # "attr", ~Refused(D, c), C!RunWrite(d, c.kind) = C!With(d, lb)
       PROVE  C!RunWrite(d, c.kind) = C!With(d, LibOf(F))
  BY <1>1, <1>11 DEF lb
<1>12. CASE c.kind \in {"raw", "text", "dtdattr"}
  <2>1. C!RunWrite(d, c.kind) = C!With(d, lb)
    BY <1>6, <1>9, <1>12 DEF C!RunWrite
  <2> QED BY <1>11, <1>12, <2>1 DEF Refused, F
<1>13. CASE c.kind = "comment" /\ TopKind(D) \in Parents("comment")
  <2>1. TopKind(D) \in {"none", "doc", "elem"} <=> ~InDtd(D)
    BY <1>13 DEF InDtd, Parents
  <2>2. C!RunWrite(d, c.kind) = C!With(d, lb)
    BY <1>6, <1>7, <1>9, <1>13, <2>1 DEF C!RunWrite, C!WriteComment
  <2> QED BY <1>11, <1>13, <2>2 DEF Refused, F
<1>14. CASE c.kind = "cdata" /\ TopKind(D) = "elem"
  <2>1. C!RunWrite(d, c.kind) = C!With(d, lb)
    BY <1>7, <1>9, <1>14 DEF C!RunWrite
  <2> QED BY <1>11, <1>14, <2>1 DEF Refused, F
<1>15. CASE c.kind \in {"dtdelem", "dtdentity", "notation"} /\ TopKind(D) = "dtd"
  <2>1. C!RunWrite(d, c.kind) = C!With(d, lb)
    BY <1>8, <1>9, <1>15 DEF C!RunWrite
  <2> QED BY <1>11, <1>15, <2>1 DEF Refused, F
<1>16. CASE c.kind = "pi" /\ TopKind(D) \in {"none", "doc", "elem"}
  <2>1. C!RunWrite(d, c.kind) = C!With(d, lb)
    BY <1>7, <1>9, <1>16 DEF C!RunWrite
  <2> QED BY <1>11, <1>16, <2>1 DEF Refused, F
<1>17. CASE c.kind = "pi" /\ TopKind(D) = "dtd"
  <2>1. Refused(D, c) /\ F = D
    BY <1>1, <1>17 DEF Refused
  <2>2. C!RunWrite(d, c.kind) = C!With(d, C!WritePI(l))
    BY <1>9, <1>17 DEF C!RunWrite
  <2>3. C!WritePI(l) = IF C!State(l) = "DTD" THEN l ELSE C!Refuse(l)
    BY <1>5, <1>17 DEF C!WritePI, C!InContentOf, C!ElemStates
  <2> QED BY <1>5, <1>17, <2>1, <2>2, <2>3 DEF l, F
<1> QED BY <1>10, <1>12, <1>13, <1>14, <1>15, <1>16, <1>17 DEF TakesWrite, l, x, F

-----------------------------------------------------------------------------
(* ctester's run. *)

(* What a run may have. *)
Entry == [kind : C!CStarts, live : BOOLEAN]

Outcomes == {"nil", "done", "failed", "invalid", "freed twice"}

CRun(d) == d \in [xml : {d.xml}, end : Seq(Entry), in_dtd : BOOLEAN, outcome : Outcomes]

AllLive(d) == \A i \in 1 .. Len(d.end) : d.end[i].live

(* A run after the commands that have made D. *)
CKept(d, D) ==
  /\ CRun(d) /\ d.outcome \in {"nil", "done", "failed"}
  /\ d.outcome = "nil" => d.xml = LibOf(D) /\ (d.in_dtd <=> InDtd(D)) /\ AllLive(d)
  /\ d.outcome = "failed" => C!State(d.xml) = "DTD_TEXT"

(* What With, EndPop and EndPush change of a run, and what they leave. *)
LEMMA CWith ==
  ASSUME NEW d, CRun(d), NEW x, NEW e, e = C!With(d, x)
  PROVE  CRun(e) /\ e.xml = x /\ e.end = d.end /\ (e.in_dtd <=> d.in_dtd) /\ e.outcome = d.outcome
<1>1. e = [d EXCEPT !.xml = x]
  BY DEF C!With
<1>2. e.xml = x /\ e.end = d.end /\ (e.in_dtd <=> d.in_dtd) /\ e.outcome = d.outcome
  BY <1>1 DEF CRun
<1>3. CRun(e)
  <2>1. e \in [xml : {x}, end : Seq(Entry), in_dtd : BOOLEAN, outcome : Outcomes]
    <3> HIDE DEF Entry, Outcomes
    <3> QED BY <1>1 DEF CRun
  <2> QED BY <1>2, <2>1 DEF CRun
<1> QED BY <1>2, <1>3

(* An entry that is live is freed once. *)
LEMMA CPops ==
  ASSUME NEW d, CRun(d), AllLive(d), NEW e, e = C!EndPop(d)
  PROVE  CRun(e) /\ AllLive(e) /\ e.xml = d.xml /\ (e.in_dtd <=> d.in_dtd) /\ e.outcome = d.outcome
<1>1. d.end \in Seq(Entry) /\ d.in_dtd \in BOOLEAN
  BY DEF CRun
<1>2. CASE d.end = <<>>
  BY <1>2 DEF C!EndPop
<1>3. CASE d.end # <<>>
  <2>1. /\ Tail(d.end) \in Seq(Entry) /\ Len(Tail(d.end)) = Len(d.end) - 1 /\ Len(d.end) >= 1
        /\ \A i \in 1 .. Len(Tail(d.end)) : Tail(d.end)[i] = d.end[i + 1]
    <3> HIDE DEF Entry
    <3> QED BY <1>1, <1>3, FirstDropped
  <2>2. Len(d.end) \in Nat
    BY <1>1, LenProperties
  <2>3. d.end[1].live
    BY <2>1, <2>2 DEF AllLive
  <2>4. e = [d EXCEPT !.end = Tail(@)]
    BY <1>3, <2>3 DEF C!EndPop
  <2>5. e.xml = d.xml /\ e.end = Tail(d.end) /\ (e.in_dtd <=> d.in_dtd) /\ e.outcome = d.outcome
    BY <2>4 DEF CRun
  <2>6. CRun(e)
    <3>1. e \in [xml : {d.xml}, end : Seq(Entry), in_dtd : BOOLEAN, outcome : Outcomes]
      <4> HIDE DEF Entry, Outcomes
      <4> QED BY <2>1, <2>4 DEF CRun
    <3> QED BY <2>5, <3>1 DEF CRun
  <2>7. AllLive(e)
    <3>1. SUFFICES ASSUME NEW i \in 1 .. Len(e.end) PROVE e.end[i].live
      BY DEF AllLive
    <3>2. i + 1 \in 1 .. Len(d.end) /\ e.end[i] = d.end[i + 1]
      BY <2>1, <2>2, <2>5
    <3> QED BY <3>2 DEF AllLive
  <2> QED BY <2>5, <2>6, <2>7
<1> QED BY <1>2, <1>3

(* A new entry is live. *)
LEMMA CPushes ==
  ASSUME NEW d, CRun(d), AllLive(d), NEW kind \in C!CStarts, NEW e, e = C!EndPush(d, kind)
  PROVE  CRun(e) /\ AllLive(e) /\ e.xml = d.xml /\ (e.in_dtd <=> d.in_dtd) /\ e.outcome = d.outcome
<1> DEFINE new == [kind |-> kind, live |-> TRUE]
           s == <<new>> \o d.end
<1>1. d.end \in Seq(Entry) /\ d.in_dtd \in BOOLEAN /\ new \in Entry /\ new.live
  BY DEF CRun, Entry
<1>2. e = [d EXCEPT !.end = s]
  BY DEF C!EndPush
<1> HIDE DEF new
<1>3. s \in Seq(Entry) /\ Len(s) = Len(d.end) + 1 /\ s[1] = new /\ \A i \in 2 .. Len(s) : s[i] = d.end[i - 1]
  <2> HIDE DEF Entry
  <2> QED BY <1>1, FirstAdded
<1> HIDE DEF s
<1>4. e.xml = d.xml /\ e.end = s /\ (e.in_dtd <=> d.in_dtd) /\ e.outcome = d.outcome
  BY <1>2 DEF CRun
<1>5. CRun(e)
  <2>1. e \in [xml : {d.xml}, end : Seq(Entry), in_dtd : BOOLEAN, outcome : Outcomes]
    <3> HIDE DEF Entry, Outcomes
    <3> QED BY <1>2, <1>3 DEF CRun
  <2> QED BY <1>4, <2>1 DEF CRun
<1>6. AllLive(e)
  <2>1. SUFFICES ASSUME NEW i \in 1 .. Len(s) PROVE s[i].live
    BY <1>4 DEF AllLive
  <2>2. CASE i = 1
    BY <1>1, <1>3, <2>2
  <2>3. CASE i # 1
    <3>1. Len(d.end) \in Nat
      BY <1>1, LenProperties
    <3>2. i - 1 \in 1 .. Len(d.end) /\ s[i] = d.end[i - 1]
      BY <1>3, <2>3, <3>1
    <3> QED BY <3>2 DEF AllLive
  <2> QED BY <2>2, <2>3
<1> QED BY <1>4, <1>5, <1>6

(* What is freed once is freed well. *)
LEMMA CDeinits ==
  ASSUME NEW d, CRun(d), AllLive(d), d.outcome = "nil", NEW o \in {"done", "failed"}, NEW e, e = C!Deinit(d, o)
  PROVE  CRun(e) /\ e.xml = d.xml /\ e.outcome = o
<1> DEFINE t == [i \in DOMAIN d.end |-> [d.end[i] EXCEPT !.live = FALSE]]
           f == C!FreeEnds(d)
<1>1. d.end \in Seq(Entry) /\ d.in_dtd \in BOOLEAN /\ Len(d.end) \in Nat /\ DOMAIN d.end = 1 .. Len(d.end)
  BY LenProperties, SeqDef DEF CRun
<1>2. ~(\E i \in DOMAIN d.end : ~d.end[i].live)
  BY <1>1 DEF AllLive
<1>3. f = [d EXCEPT !.end = t]
  BY <1>2 DEF C!FreeEnds
<1>4. t \in Seq(Entry)
  <2>1. \A i \in 1 .. Len(d.end) : [d.end[i] EXCEPT !.live = FALSE] \in Entry
    <3> TAKE i \in 1 .. Len(d.end)
    <3>1. d.end[i] \in Entry
      <4> HIDE DEF Entry
      <4> QED BY <1>1, ElementOfSeq
    <3> QED BY <3>1 DEF Entry
  <2> HIDE DEF Entry
  <2>2. t \in [1 .. Len(d.end) -> Entry]
    BY <1>1, <2>1
  <2> QED BY <1>1, <2>2, SeqDef
<1> HIDE DEF t, f
<1>5. f.xml = d.xml /\ f.end = t /\ f.outcome = "nil"
      /\ f \in [xml : {d.xml}, end : Seq(Entry), in_dtd : BOOLEAN, outcome : Outcomes]
  <2> HIDE DEF Entry
  <2> QED BY <1>3, <1>4 DEF CRun, Outcomes
<1>6. e = [f EXCEPT !.outcome = o]
  BY <1>5 DEF C!Deinit, f
<1>7. e.xml = d.xml /\ e.outcome = o /\ e \in [xml : {d.xml}, end : Seq(Entry), in_dtd : BOOLEAN, outcome : Outcomes]
  <2> HIDE DEF Entry
  <2> QED BY <1>5, <1>6 DEF Outcomes
<1> QED BY <1>7 DEF CRun

(* in_dtd follows the stack: set by the start of a DTD, cleared by its     *)
(* end.                                                                    *)
LEMMA InDtdAfter ==
  ASSUME NEW D \in Stacks, NEW c, Takes(D, c)
  PROVE  /\ c.action = "start" => (InDtd(After(D, c)) <=> (InDtd(D) \/ c.kind = "dtd"))
         /\ c.action = "write" => (InDtd(After(D, c)) <=> InDtd(D))
         /\ c.action = "end" => (InDtd(After(D, c)) <=> (InDtd(D) /\ c.kind # "dtd"))
<1> DEFINE F == After(D, c)
<1>1. CASE TakesStart(D, c)
  <2>1. PICK x : x = Named(c.kind, c.name)
    OBVIOUS
  <2>2. PICK B : B = Begun(D)
    OBVIOUS
  <2>3. x \in Items /\ B \in Stacks /\ Len(B) < MaxDepth
    BY <1>1, <2>1, <2>2, AfterStart
  <2>4. F = Append(B, x) /\ x.kind = c.kind
    BY <1>1, <2>1, <2>2 DEF After, TakesStart, Named, Item
  <2> HIDE DEF F
  <2>5. F # <<>> /\ F[Len(F)] = x
    BY <2>3, <2>4, PushTop
  <2>6. TopKind(F) = c.kind
    BY <2>4, <2>5 DEF TopKind
  <2>7. D = <<>> => TopKind(D) = "none"
    BY DEF TopKind
  <2>8. c.action = "start"
    BY <1>1 DEF TakesStart
  <2>9. InDtd(F) <=> c.kind \in {"dtd", "dtdattlist"}
    BY <2>6 DEF InDtd
  <2>10. c.kind = "dtdattlist" => InDtd(D)
    BY <1>1 DEF TakesStart, InDtd
  <2>11. c.kind \notin {"dtd", "dtdattlist"} => ~InDtd(D)
    BY <1>1, <2>7 DEF TakesStart, InDtd
  <2> QED BY <2>8, <2>9, <2>10, <2>11 DEF F
<1>2. CASE TakesWrite(D, c)
  <2>1. F = IF c.kind = "attr" \/ Refused(D, c) THEN D ELSE Begun(D)
    BY <1>2, AfterWrite
  <2>2. TopKind(Begun(D)) = TopKind(D)
    BY BegunFacts
  <2>3. c.action = "write"
    BY <1>2 DEF TakesWrite
  <2> HIDE DEF F
  <2>4. TopKind(F) = TopKind(D)
    BY <2>1, <2>2
  <2> QED BY <2>3, <2>4 DEF InDtd, F
<1>3. CASE TakesEnd(D, c)
  <2>1. F = Front(D)
    BY <1>3, AfterEnd
  <2> HIDE DEF F
  <2> QED BY <1>3, <2>1 DEF InDtd, TakesEnd, F
<1> QED BY <1>1, <1>2, <1>3 DEF Takes

(* ctester keeps in step with the stack too, and fails only where gotester *)
(* refuses.                                                                *)
LEMMA CExecKeeps ==
  ASSUME NEW D \in Stacks, NEW c, Takes(D, c), NEW d, CKept(d, D), NEW e, e = C!Exec(d, c.action, c.kind, c.name)
  PROVE  CKept(e, After(D, c)) /\ (e.outcome = "failed" => d.outcome = "failed" \/ Refused(D, c))
<1> DEFINE F == After(D, c)
<1>1. PICK g : g = C!Run(d, c.action, c.kind, c.name)
  OBVIOUS
<1>2. e = IF d.outcome # "nil" THEN d ELSE IF g.xml.ok THEN g ELSE C!Deinit(g, "failed")
  BY <1>1 DEF C!Exec
<1>3. CASE d.outcome # "nil"
  BY <1>2, <1>3 DEF CKept
<1>4. ASSUME d.outcome = "nil"
      PROVE  CRun(d) /\ d.xml = LibOf(D) /\ (d.in_dtd <=> InDtd(D)) /\ AllLive(d)
  BY <1>4 DEF CKept
<1>5. Rooted(D)
  BY DEF Takes, Rooted
<1>6. ASSUME CRun(g), g.outcome = "nil", g.xml = LibOf(F), g.in_dtd <=> InDtd(F), AllLive(g), d.outcome = "nil"
      PROVE  CKept(e, F) /\ e.outcome = "nil"
  <2>1. g.xml.ok
    BY <1>6, LibFields DEF LibOf
  <2>2. e = g
    BY <1>2, <1>6, <2>1
  <2> HIDE DEF F
  <2> QED BY <1>6, <2>2 DEF CKept
<1>7. CASE d.outcome = "nil" /\ TakesStart(D, c)
  <2> DEFINE q == [d EXCEPT !.in_dtd = @ \/ c.kind = "dtd"]
             p == C!EndPush(q, c.kind)
             x == StartXml(d.xml, c.kind, c.name)
  <2>1. c.action = "start" /\ c.kind \in {"doc", "dtd", "dtdattlist", "elem"}
    BY <1>7 DEF TakesStart
  <2>2. c.kind \in C!CStarts
    BY <2>1 DEF C!CStarts
  <2>3. g = C!With(p, x)
    <3>1. g = C!RunStart(d, c.kind, c.name)
      BY <1>1, <2>1 DEF C!Run
    <3> HIDE DEF p, q
    <3>2. C!RunStart(d, c.kind, c.name) = C!With(C!EndPush(q, c.kind), x)
      BY <2>1 DEF C!RunStart, StartXml, q
    <3> QED BY <3>1, <3>2 DEF p
  <2>4. x = LibOf(F)
    BY <1>4, <1>5, <1>7, LibStarts
  <2>5. CRun(q) /\ AllLive(q) /\ q.outcome = "nil" /\ (q.in_dtd <=> (d.in_dtd \/ c.kind = "dtd"))
    <3>1. CRun(d) /\ AllLive(d)
      BY <1>4, <1>7
    <3>2. q.xml = d.xml /\ q.end = d.end /\ q.outcome = "nil" /\ (q.in_dtd <=> (d.in_dtd \/ c.kind = "dtd"))
      BY <1>7, <3>1 DEF CRun
    <3>3. q \in [xml : {d.xml}, end : Seq(Entry), in_dtd : BOOLEAN, outcome : Outcomes]
      <4> HIDE DEF Entry, Outcomes
      <4> QED BY <3>1 DEF CRun
    <3> HIDE DEF q
    <3> QED BY <3>1, <3>2, <3>3 DEF CRun, AllLive
  <2> HIDE DEF q
  <2>6. CRun(p) /\ AllLive(p) /\ (p.in_dtd <=> q.in_dtd) /\ p.outcome = "nil"
    BY <2>2, <2>5, CPushes
  <2> HIDE DEF p, x
  <2>7. CRun(g) /\ g.xml = x /\ g.end = p.end /\ (g.in_dtd <=> p.in_dtd) /\ g.outcome = "nil"
    BY <2>3, <2>6, CWith
  <2>8. InDtd(F) <=> (InDtd(D) \/ c.kind = "dtd")
    BY <2>1, InDtdAfter
  <2>9. AllLive(g)
    BY <2>6, <2>7 DEF AllLive
  <2> HIDE DEF F
  <2>10. g.in_dtd <=> InDtd(F)
    BY <1>4, <1>7, <2>5, <2>6, <2>7, <2>8
  <2>11. CKept(e, F) /\ e.outcome = "nil"
    BY <1>6, <1>7, <2>4, <2>7, <2>9, <2>10
  <2> QED BY <2>11 DEF F
<1>8. CASE d.outcome = "nil" /\ TakesWrite(D, c)
  <2>1. c.action = "write"
    BY <1>8 DEF TakesWrite
  <2>2. g = C!RunWrite(d, c.kind)
    BY <1>1, <2>1 DEF C!Run
  <2>3. \/ g = C!With(d, LibOf(F))
        \/ g = C!With(d, C!Refuse(LibOf(D))) /\ Refused(D, c) /\ C!State(LibOf(D)) = "DTD_TEXT"
    BY <1>4, <1>5, <1>8, <2>2, LibWrites
  <2>4. InDtd(F) <=> InDtd(D)
    BY <2>1, InDtdAfter
  <2> HIDE DEF F
  <2>5. CASE g = C!With(d, LibOf(F))
    <3>1. CRun(g) /\ g.xml = LibOf(F) /\ g.end = d.end /\ (g.in_dtd <=> d.in_dtd) /\ g.outcome = "nil"
      BY <1>4, <1>8, <2>5, CWith
    <3>2. AllLive(g) /\ (g.in_dtd <=> InDtd(F))
      BY <1>4, <1>8, <2>4, <3>1 DEF AllLive
    <3>3. CKept(e, F) /\ e.outcome = "nil"
      BY <1>6, <1>8, <3>1, <3>2
    <3> QED BY <3>3 DEF F
  <2>6. CASE g = C!With(d, C!Refuse(LibOf(D))) /\ Refused(D, c) /\ C!State(LibOf(D)) = "DTD_TEXT"
    <3>1. CRun(g) /\ g.xml = C!Refuse(LibOf(D)) /\ g.end = d.end /\ g.outcome = "nil"
      BY <1>4, <1>8, <2>6, CWith
    <3>2. AllLive(g)
      BY <1>4, <1>8, <3>1 DEF AllLive
    <3>3. PICK l : l = LibOf(D) /\ DOMAIN l = {"nodes", "ok"}
      <4>1. DOMAIN LibOf(D) = {"nodes", "ok"}
        BY DEF LibOf, Lib
      <4> QED BY <4>1
    <3>4. ~g.xml.ok /\ g.xml.nodes = l.nodes
      BY <3>1, <3>3 DEF C!Refuse
    <3>5. C!State(g.xml) = "DTD_TEXT"
      BY <2>6, <3>3, <3>4 DEF C!State
    <3>6. e = C!Deinit(g, "failed")
      BY <1>2, <1>8, <3>4
    <3>7. CRun(e) /\ e.xml = g.xml /\ e.outcome = "failed"
      BY <3>1, <3>2, <3>6, CDeinits
    <3>8. CKept(e, F)
      BY <3>5, <3>7 DEF CKept
    <3> QED BY <2>6, <3>8 DEF F
  <2> QED BY <2>3, <2>5, <2>6
<1>9. CASE d.outcome = "nil" /\ TakesEnd(D, c)
  <2> DEFINE q == [d EXCEPT !.in_dtd = @ /\ c.kind # "dtd"]
             x == C!EndXml(d.xml, c.kind)
             p == C!With(q, x)
  <2>1. c.action = "end" /\ c.kind \in {"doc", "dtd", "dtdattlist", "elem"}
    BY <1>9 DEF TakesEnd
  <2>2. g = IF c.kind = "dtd" THEN p ELSE C!EndPop(p)
    <3>1. g = C!RunEnd(d, c.kind)
      BY <1>1, <2>1 DEF C!Run
    <3> QED BY <3>1 DEF C!RunEnd
  <2>3. x = LibOf(F)
    BY <1>4, <1>5, <1>9, LibEnds
  <2>4. CRun(q) /\ AllLive(q) /\ q.outcome = "nil" /\ (q.in_dtd <=> (d.in_dtd /\ c.kind # "dtd"))
    <3>1. CRun(d) /\ AllLive(d)
      BY <1>4, <1>9
    <3>2. q.xml = d.xml /\ q.end = d.end /\ q.outcome = "nil" /\ (q.in_dtd <=> (d.in_dtd /\ c.kind # "dtd"))
      BY <1>9, <3>1 DEF CRun
    <3>3. q \in [xml : {d.xml}, end : Seq(Entry), in_dtd : BOOLEAN, outcome : Outcomes]
      <4> HIDE DEF Entry, Outcomes
      <4> QED BY <3>1 DEF CRun
    <3> HIDE DEF q
    <3> QED BY <3>1, <3>2, <3>3 DEF CRun, AllLive
  <2> HIDE DEF q, x
  <2>5. CRun(p) /\ p.xml = x /\ p.end = q.end /\ (p.in_dtd <=> q.in_dtd) /\ p.outcome = "nil"
    BY <2>4, CWith
  <2> HIDE DEF p
  <2>6. AllLive(p)
    BY <2>4, <2>5 DEF AllLive
  <2>7. CRun(g) /\ AllLive(g) /\ g.xml = x /\ (g.in_dtd <=> p.in_dtd) /\ g.outcome = "nil"
    <3>1. PICK h : h = C!EndPop(p)
      OBVIOUS
    <3>2. CRun(h) /\ AllLive(h) /\ h.xml = p.xml /\ (h.in_dtd <=> p.in_dtd) /\ h.outcome = p.outcome
      BY <2>5, <2>6, <3>1, CPops
    <3> QED BY <2>2, <2>5, <2>6, <3>1, <3>2
  <2>8. InDtd(F) <=> (InDtd(D) /\ c.kind # "dtd")
    BY <2>1, InDtdAfter
  <2> HIDE DEF F
  <2>9. g.in_dtd <=> InDtd(F)
    BY <1>4, <1>9, <2>4, <2>5, <2>7, <2>8
  <2>10. CKept(e, F) /\ e.outcome = "nil"
    BY <1>6, <1>9, <2>3, <2>7, <2>9
  <2> QED BY <2>10 DEF F
<1>10. TakesStart(D, c) \/ TakesWrite(D, c) \/ TakesEnd(D, c)
  BY DEF Takes
<1> QED BY <1>3, <1>7, <1>8, <1>9, <1>10

-----------------------------------------------------------------------------
(* The stack of a document. *)

(* What is open in a document, from the outside: the document, its DTD, a  *)
(* list of attributes, or elements.                                        *)
KindAt(i, o, p, a) ==
  IF i <= o THEN "doc" ELSE IF i <= o + p THEN "dtd" ELSE IF i <= o + p + a THEN "dtdattlist" ELSE "elem"

(* o, p and a tell whether there is a document, a DTD and a list in it.    *)
Fits(D, o, p, a, open) ==
  /\ Len(D) = o + p + a + Len(open)
  /\ \A i \in 1 .. Len(D) : D[i].kind = KindAt(i, o, p, a)
  /\ \A i \in 1 .. Len(open) : D[o + p + a + i].name = open[i]

Bits == {0, 1}

(* What is innermost, by what there is. *)
LEMMA FitsTop ==
  ASSUME NEW D \in Stacks, NEW o \in Bits, NEW p \in Bits, NEW a \in Bits,
         NEW open \in Seq(ElemNames), Fits(D, o, p, a, open)
  PROVE  /\ Len(D) = o + p + a + Len(open) /\ Len(open) \in Nat /\ Len(D) \in Nat
         /\ TopKind(D) = IF open # <<>> THEN "elem" ELSE IF a = 1 THEN "dtdattlist" ELSE IF p = 1 THEN "dtd"
                         ELSE IF o = 1 THEN "doc" ELSE "none"
         /\ open # <<>> <=> Len(open) > 0
<1> DEFINE n == Len(D)
           m == Len(open)
<1>1. m \in Nat /\ n \in Nat /\ n = o + p + a + m
  BY LenProperties DEF Fits, Stacks
<1>2. (open = <<>> <=> m = 0) /\ (D = <<>> <=> n = 0)
  BY EmptySeq, Facts
<1>3. n > 0 => D[n].kind = KindAt(n, o, p, a)
  BY <1>1 DEF Fits
<1>4. TopKind(D) = IF n = 0 THEN "none" ELSE D[n].kind
  BY <1>2 DEF TopKind
<1> HIDE DEF n, m
<1>5. CASE m > 0
  <2>1. n > 0 /\ KindAt(n, o, p, a) = "elem"
    BY <1>1, <1>5 DEF KindAt, Bits
  <2> QED BY <1>1, <1>2, <1>3, <1>4, <1>5, <2>1 DEF n, m
<1>6. CASE m = 0
  <2>1. n > 0 => KindAt(n, o, p, a) = IF a = 1 THEN "dtdattlist" ELSE IF p = 1 THEN "dtd" ELSE "doc"
    BY <1>1, <1>6 DEF KindAt, Bits
  <2>2. n = 0 <=> a = 0 /\ p = 0 /\ o = 0
    BY <1>1, <1>6 DEF Bits
  <2> QED BY <1>1, <1>2, <1>3, <1>4, <1>6, <2>1, <2>2 DEF n, m, Bits
<1> QED BY <1>1, <1>5, <1>6

(* Beginning the innermost changes nothing of that. *)
LEMMA FitsBegun ==
  ASSUME NEW D \in Stacks, NEW o \in Bits, NEW p \in Bits, NEW a \in Bits,
         NEW open \in Seq(ElemNames), Fits(D, o, p, a, open)
  PROVE  Fits(Begun(D), o, p, a, open) /\ (D # <<>> => Begun(D)[Len(D)].name = D[Len(D)].name)
<1> DEFINE B == Begun(D)
<1>1. /\ Len(B) = Len(D)
      /\ \A i \in 1 .. Len(D) : B[i].kind = D[i].kind /\ B[i].name = D[i].name
  BY BegunFacts
<1>2. Len(D) = o + p + a + Len(open) /\ Len(open) \in Nat /\ Len(D) \in Nat
  BY FitsTop
<1>3. D # <<>> => Len(D) \in 1 .. Len(D)
  BY <1>2, Facts
<1> HIDE DEF B
<1>4. \A i \in 1 .. Len(B) : B[i].kind = KindAt(i, o, p, a)
  BY <1>1 DEF Fits
<1>5. \A i \in 1 .. Len(open) : B[o + p + a + i].name = open[i]
  <2> TAKE i \in 1 .. Len(open)
  <2>1. o + p + a + i \in 1 .. Len(D)
    BY <1>2 DEF Bits
  <2> QED BY <1>1, <2>1 DEF Fits
<1>6. D # <<>> => B[Len(D)].name = D[Len(D)].name
  BY <1>1, <1>3
<1> QED BY <1>1, <1>2, <1>4, <1>5, <1>6 DEF Fits, B

(* One more construct, each kind in its place. *)
LEMMA FitsPush ==
  ASSUME NEW D \in Stacks, NEW o \in Bits, NEW p \in Bits, NEW a \in Bits,
         NEW open \in Seq(ElemNames), Fits(D, o, p, a, open),
         Len(D) < MaxDepth, NEW x \in Items
  PROVE  LET E == Append(D, x)
         IN /\ E[Len(E)] = x /\ E # <<>>
            /\ x.kind = "elem" /\ x.name \in ElemNames => Fits(E, o, p, a, Append(open, x.name))
            /\ x.kind = "dtdattlist" /\ a = 0 /\ open = <<>> => Fits(E, o, p, 1, open)
            /\ x.kind = "dtd" /\ p = 0 /\ a = 0 /\ open = <<>> => Fits(E, o, 1, 0, open)
            /\ x.kind = "doc" /\ o = 0 /\ p = 0 /\ a = 0 /\ open = <<>> => Fits(E, 1, 0, 0, open)
<1> DEFINE E == Append(D, x)
           n == Len(D)
           m == Len(open)
<1>1. Len(E) = n + 1 /\ E[n + 1] = x /\ E # <<>> /\ \A i \in 1 .. n : E[i] = D[i]
  BY PushTop
<1>2. n = o + p + a + m /\ m \in Nat /\ n \in Nat
  BY FitsTop
<1>3. open = <<>> => m = 0
  OBVIOUS
<1>4. /\ \A i \in 1 .. n : D[i].kind = KindAt(i, o, p, a)
      /\ \A i \in 1 .. m : D[o + p + a + i].name = open[i]
  BY DEF Fits
<1> HIDE DEF E, n, m
<1>5. ASSUME x.kind = "elem", x.name \in ElemNames PROVE Fits(E, o, p, a, Append(open, x.name))
  <2> DEFINE q == Append(open, x.name)
  <2>1. Len(q) = m + 1 /\ \A i \in 1 .. m : q[i] = open[i]
    BY <1>5 DEF m
  <2>2. q[m + 1] = x.name
    BY <1>5 DEF m
  <2> HIDE DEF q
  <2>3. \A i \in 1 .. n + 1 : E[i].kind = KindAt(i, o, p, a)
    <3> TAKE i \in 1 .. n + 1
    <3>1. CASE i = n + 1
      <4>1. KindAt(n + 1, o, p, a) = "elem"
        BY <1>2 DEF KindAt, Bits
      <4> QED BY <1>1, <1>5, <3>1, <4>1
    <3>2. CASE i # n + 1
      <4>1. i \in 1 .. n
        BY <1>2, <3>2
      <4> QED BY <1>1, <1>4, <4>1
    <3> QED BY <3>1, <3>2
  <2>4. \A i \in 1 .. m + 1 : E[o + p + a + i].name = q[i]
    <3> TAKE i \in 1 .. m + 1
    <3>1. CASE i = m + 1
      <4>1. o + p + a + i = n + 1
        BY <1>2, <3>1 DEF Bits
      <4> QED BY <1>1, <2>2, <3>1, <4>1
    <3>2. CASE i # m + 1
      <4>1. i \in 1 .. m /\ o + p + a + i \in 1 .. n
        BY <1>2, <3>2 DEF Bits
      <4> QED BY <1>1, <1>4, <2>1, <4>1
    <3> QED BY <3>1, <3>2
  <2>5. Len(E) = o + p + a + Len(q)
    BY <1>1, <1>2, <2>1 DEF Bits
  <2> QED BY <1>1, <2>1, <2>3, <2>4, <2>5 DEF Fits, q
<1>6. ASSUME NEW o1 \in Bits, NEW p1 \in Bits, NEW a1 \in Bits, open = <<>>, o1 + p1 + a1 = o + p + a + 1,
             x.kind = KindAt(n + 1, o1, p1, a1), \A i \in 1 .. n : KindAt(i, o1, p1, a1) = KindAt(i, o, p, a)
      PROVE  Fits(E, o1, p1, a1, open)
  <2>1. Len(E) = o1 + p1 + a1 + Len(open) /\ Len(open) = 0
    BY <1>1, <1>2, <1>3, <1>6 DEF Bits, m
  <2>2. \A i \in 1 .. n + 1 : E[i].kind = KindAt(i, o1, p1, a1)
    <3> TAKE i \in 1 .. n + 1
    <3>1. i = n + 1 \/ i \in 1 .. n
      BY <1>2
    <3> QED BY <1>1, <1>4, <1>6, <3>1
  <2>3. \A i \in 1 .. Len(open) : FALSE
    BY <2>1
  <2> QED BY <1>1, <2>1, <2>2, <2>3 DEF Fits
<1>7. x.kind = "dtdattlist" /\ a = 0 /\ open = <<>> => Fits(E, o, p, 1, open)
  <2>1. SUFFICES ASSUME x.kind = "dtdattlist", a = 0, open = <<>> PROVE Fits(E, o, p, 1, open)
    OBVIOUS
  <2>2. KindAt(n + 1, o, p, 1) = "dtdattlist" /\ \A i \in 1 .. n : KindAt(i, o, p, 1) = KindAt(i, o, p, a)
    BY <1>2, <1>3, <2>1 DEF KindAt, Bits
  <2>3. 1 \in Bits /\ o + p + 1 = o + p + a + 1
    BY <2>1 DEF Bits
  <2> QED BY <1>6, <2>1, <2>2, <2>3
<1>8. x.kind = "dtd" /\ p = 0 /\ a = 0 /\ open = <<>> => Fits(E, o, 1, 0, open)
  <2>1. SUFFICES ASSUME x.kind = "dtd", p = 0, a = 0, open = <<>> PROVE Fits(E, o, 1, 0, open)
    OBVIOUS
  <2>2. KindAt(n + 1, o, 1, 0) = "dtd" /\ \A i \in 1 .. n : KindAt(i, o, 1, 0) = KindAt(i, o, p, a)
    BY <1>2, <1>3, <2>1 DEF KindAt, Bits
  <2>3. 1 \in Bits /\ 0 \in Bits /\ o + 1 + 0 = o + p + a + 1
    BY <2>1 DEF Bits
  <2> QED BY <1>6, <2>1, <2>2, <2>3
<1>9. x.kind = "doc" /\ o = 0 /\ p = 0 /\ a = 0 /\ open = <<>> => Fits(E, 1, 0, 0, open)
  <2>1. SUFFICES ASSUME x.kind = "doc", o = 0, p = 0, a = 0, open = <<>> PROVE Fits(E, 1, 0, 0, open)
    OBVIOUS
  <2>2. KindAt(n + 1, 1, 0, 0) = "doc" /\ \A i \in 1 .. n : KindAt(i, 1, 0, 0) = KindAt(i, o, p, a)
    BY <1>2, <1>3, <2>1 DEF KindAt, Bits
  <2>3. 1 \in Bits /\ 0 \in Bits /\ 1 + 0 + 0 = o + p + a + 1
    BY <2>1 DEF Bits
  <2> QED BY <1>6, <2>1, <2>2, <2>3
<1>10. E[Len(E)] = x /\ E # <<>>
  BY <1>1
<1> QED BY <1>5, <1>7, <1>8, <1>9, <1>10 DEF E

(* One less. *)
LEMMA FitsPop ==
  ASSUME NEW D \in Stacks, NEW o \in Bits, NEW p \in Bits, NEW a \in Bits,
         NEW open \in Seq(ElemNames), Fits(D, o, p, a, open)
  PROVE  /\ open # <<>> => Fits(Front(D), o, p, a, Front(open)) /\ D # <<>>
         /\ a = 1 /\ open = <<>> => Fits(Front(D), o, p, 0, open) /\ D # <<>>
         /\ p = 1 /\ a = 0 /\ open = <<>> => Fits(Front(D), o, 0, 0, open) /\ D # <<>>
         /\ o = 1 /\ p = 0 /\ a = 0 /\ open = <<>> => Fits(Front(D), 0, 0, 0, open) /\ D # <<>>
<1> DEFINE E == Front(D)
           n == Len(D)
           m == Len(open)
<1>1. D # <<>> => Len(E) = n - 1 /\ \A i \in 1 .. n - 1 : E[i] = D[i]
  BY DropTop
<1>2. n = o + p + a + m /\ m \in Nat /\ n \in Nat
  BY FitsTop
<1>3. (open = <<>> <=> m = 0) /\ (D = <<>> <=> n = 0)
  BY EmptySeq, Facts
<1>4. /\ \A i \in 1 .. n : D[i].kind = KindAt(i, o, p, a)
      /\ \A i \in 1 .. m : D[o + p + a + i].name = open[i]
  BY DEF Fits
<1> HIDE DEF E, n, m
<1>5. ASSUME open # <<>> PROVE Fits(E, o, p, a, Front(open)) /\ D # <<>>
  <2> DEFINE q == Front(open)
  <2>1. Len(q) = m - 1 /\ \A i \in 1 .. m - 1 : q[i] = open[i]
    <3>1. q = SubSeq(open, 1, Len(open) - 1)
      BY DEF Front
    <3> QED BY <1>5, <3>1, LastDropped DEF m
  <2> HIDE DEF q
  <2>2. m >= 1 /\ n >= 1 /\ D # <<>>
    BY <1>2, <1>3, <1>5 DEF Bits
  <2>3. Len(E) = n - 1 /\ \A i \in 1 .. n - 1 : E[i] = D[i]
    BY <1>1, <2>2
  <2>4. Len(E) = o + p + a + Len(q)
    BY <1>2, <2>1, <2>2, <2>3 DEF Bits
  <2>5. \A i \in 1 .. n - 1 : E[i].kind = KindAt(i, o, p, a)
    BY <1>2, <1>4, <2>3
  <2>6. \A i \in 1 .. m - 1 : E[o + p + a + i].name = q[i]
    <3> TAKE i \in 1 .. m - 1
    <3>1. i \in 1 .. m /\ o + p + a + i \in 1 .. n - 1
      BY <1>2, <2>2 DEF Bits
    <3> QED BY <1>4, <2>1, <2>3, <3>1
  <2> QED BY <2>1, <2>2, <2>3, <2>4, <2>5, <2>6 DEF Fits, q
<1>6. ASSUME NEW o1 \in Bits, NEW p1 \in Bits, NEW a1 \in Bits, open = <<>>, o1 + p1 + a1 + 1 = o + p + a,
             \A i \in 1 .. n - 1 : KindAt(i, o1, p1, a1) = KindAt(i, o, p, a)
      PROVE  Fits(E, o1, p1, a1, open) /\ D # <<>>
  <2>1. n >= 1 /\ D # <<>> /\ Len(open) = 0
    BY <1>2, <1>3, <1>6 DEF Bits, m
  <2>2. Len(E) = n - 1 /\ \A i \in 1 .. n - 1 : E[i] = D[i]
    BY <1>1, <2>1
  <2>3. Len(E) = o1 + p1 + a1 + Len(open)
    BY <1>2, <1>3, <1>6, <2>1, <2>2 DEF Bits
  <2>4. \A i \in 1 .. n - 1 : E[i].kind = KindAt(i, o1, p1, a1)
    BY <1>2, <1>4, <1>6, <2>2
  <2>5. \A i \in 1 .. Len(open) : FALSE
    BY <2>1
  <2> QED BY <2>1, <2>2, <2>3, <2>4, <2>5 DEF Fits
<1>7. a = 1 /\ open = <<>> => Fits(E, o, p, 0, open) /\ D # <<>>
  <2>1. SUFFICES ASSUME a = 1, open = <<>> PROVE Fits(E, o, p, 0, open) /\ D # <<>>
    OBVIOUS
  <2>2. \A i \in 1 .. n - 1 : KindAt(i, o, p, 0) = KindAt(i, o, p, a)
    BY <1>2, <1>3, <2>1 DEF KindAt, Bits
  <2>3. 0 \in Bits /\ o + p + 0 + 1 = o + p + a
    BY <2>1 DEF Bits
  <2> QED BY <1>6, <2>1, <2>2, <2>3
<1>8. p = 1 /\ a = 0 /\ open = <<>> => Fits(E, o, 0, 0, open) /\ D # <<>>
  <2>1. SUFFICES ASSUME p = 1, a = 0, open = <<>> PROVE Fits(E, o, 0, 0, open) /\ D # <<>>
    OBVIOUS
  <2>2. \A i \in 1 .. n - 1 : KindAt(i, o, 0, 0) = KindAt(i, o, p, a)
    BY <1>2, <1>3, <2>1 DEF KindAt, Bits
  <2>3. 0 \in Bits /\ o + 0 + 0 + 1 = o + p + a
    BY <2>1 DEF Bits
  <2> QED BY <1>6, <2>1, <2>2, <2>3
<1>9. o = 1 /\ p = 0 /\ a = 0 /\ open = <<>> => Fits(E, 0, 0, 0, open) /\ D # <<>>
  <2>1. SUFFICES ASSUME o = 1, p = 0, a = 0, open = <<>> PROVE Fits(E, 0, 0, 0, open) /\ D # <<>>
    OBVIOUS
  <2>2. \A i \in 1 .. n - 1 : KindAt(i, 0, 0, 0) = KindAt(i, o, p, a)
    BY <1>2, <1>3, <2>1 DEF KindAt, Bits
  <2>3. 0 \in Bits /\ 0 + 0 + 0 + 1 = o + p + a
    BY <2>1 DEF Bits
  <2> QED BY <1>6, <2>1, <2>2, <2>3
<1> QED BY <1>5, <1>7, <1>8, <1>9 DEF E

(* A stack that a document can have. *)
Sound(D, o, p, a, open) ==
  /\ D \in Stacks /\ o \in Bits /\ p \in Bits /\ a \in Bits /\ open \in Seq(ElemNames) /\ Len(open) <= MaxOpen
  /\ Fits(D, o, p, a, open) /\ (a = 1 => p = 1) /\ (p = 1 => open = <<>>)

(* The parts of Sound, and the room that is left. *)
LEMMA SoundFacts ==
  ASSUME NEW D, NEW o, NEW p, NEW a, NEW open, Sound(D, o, p, a, open)
  PROVE  /\ D \in Stacks /\ o \in Bits /\ p \in Bits /\ a \in Bits /\ open \in Seq(ElemNames)
            /\ Fits(D, o, p, a, open)
         /\ Len(D) = o + p + a + Len(open) /\ Len(open) \in Nat /\ Len(D) \in Nat /\ (open # <<>> <=> Len(open) > 0)
         /\ TopKind(D) = IF open # <<>> THEN "elem" ELSE IF a = 1 THEN "dtdattlist" ELSE IF p = 1 THEN "dtd"
                         ELSE IF o = 1 THEN "doc" ELSE "none"
         /\ TopKind(D) = "doc" => Len(D) = 1
         /\ a = 0 /\ (open = <<>> \/ Len(open) < MaxOpen \/ p = 0) => Len(D) < MaxDepth
<1>1. /\ D \in Stacks /\ o \in Bits /\ p \in Bits /\ a \in Bits /\ open \in Seq(ElemNames) /\ Fits(D, o, p, a, open)
      /\ Len(open) <= MaxOpen
  BY DEF Sound
<1>2. Len(D) = o + p + a + Len(open) /\ Len(open) \in Nat /\ Len(D) \in Nat /\ (open # <<>> <=> Len(open) > 0)
  BY <1>1, FitsTop
<1>3. TopKind(D) = IF open # <<>> THEN "elem" ELSE IF a = 1 THEN "dtdattlist" ELSE IF p = 1 THEN "dtd"
                         ELSE IF o = 1 THEN "doc" ELSE "none"
  BY <1>1, FitsTop
<1>4. (a = 1 => p = 1) /\ (p = 1 => open = <<>>)
  BY DEF Sound
<1>5. TopKind(D) = "doc" => Len(D) = 1
  BY <1>1, <1>2, <1>3 DEF Bits
<1>6. a = 0 => Len(D) < MaxDepth
  BY <1>1, <1>2, <1>4, BuilderAssumption, ReplayAssumption DEF Bits
<1> QED BY <1>1, <1>2, <1>3, <1>5, <1>6

(* Starts. *)
LEMMA StartFits ==
  ASSUME NEW D, NEW o, NEW p, NEW a, NEW open, Sound(D, o, p, a, open), NEW c, TakesStart(D, c)
  PROVE  LET F == After(D, c)
         IN /\ Takes(D, c) /\ F \in Stacks /\ F # <<>>
            /\ F[Len(F)].kind = c.kind /\ ~F[Len(F)].begun
            /\ c.kind # "doc" => F[Len(F)].name = c.name
            /\ c.kind = "elem" => Fits(F, o, p, a, Append(open, c.name))
            /\ c.kind = "dtdattlist" /\ a = 0 /\ open = <<>> => Fits(F, o, p, 1, open)
            /\ c.kind = "dtd" /\ p = 0 /\ a = 0 /\ open = <<>> => Fits(F, o, 1, 0, open)
            /\ c.kind = "doc" /\ o = 0 /\ p = 0 /\ a = 0 /\ open = <<>> => Fits(F, 1, 0, 0, open)
<1> DEFINE F == After(D, c)
<1>1. PICK x : x = Named(c.kind, c.name)
  OBVIOUS
<1>2. PICK B : B = Begun(D)
  OBVIOUS
<1>3. /\ D \in Stacks /\ o \in Bits /\ p \in Bits /\ a \in Bits /\ open \in Seq(ElemNames) /\ Fits(D, o, p, a, open)
      /\ (TopKind(D) = "doc" => Len(D) = 1)
  BY SoundFacts
<1>4. x \in Items /\ B \in Stacks /\ Len(B) < MaxDepth /\ F \in Stacks
  BY <1>1, <1>2, <1>3, AfterStart
<1>5. F = Append(B, x)
  BY <1>1, <1>2 DEF After, TakesStart
<1>6. x.kind = c.kind /\ ~x.begun /\ (c.kind # "doc" => x.name = c.name /\ c.name \in ElemNames)
  BY <1>1 DEF Named, Item, TakesStart
<1>7. Fits(B, o, p, a, open)
  BY <1>2, <1>3, FitsBegun
<1>8. Takes(D, c)
  BY <1>3 DEF Takes
<1> HIDE DEF F
<1>9. LET E == Append(B, x)
         IN /\ E[Len(E)] = x /\ E # <<>>
            /\ x.kind = "elem" /\ x.name \in ElemNames => Fits(E, o, p, a, Append(open, x.name))
            /\ x.kind = "dtdattlist" /\ a = 0 /\ open = <<>> => Fits(E, o, p, 1, open)
            /\ x.kind = "dtd" /\ p = 0 /\ a = 0 /\ open = <<>> => Fits(E, o, 1, 0, open)
            /\ x.kind = "doc" /\ o = 0 /\ p = 0 /\ a = 0 /\ open = <<>> => Fits(E, 1, 0, 0, open)
  BY <1>3, <1>4, <1>7, FitsPush
<1>10. F[Len(F)] = x /\ F # <<>>
  BY <1>5, <1>9
<1>11. c.kind = "elem" => Fits(F, o, p, a, Append(open, c.name))
  BY <1>5, <1>6, <1>9
<1>12. /\ c.kind = "dtdattlist" /\ a = 0 /\ open = <<>> => Fits(F, o, p, 1, open)
       /\ c.kind = "dtd" /\ p = 0 /\ a = 0 /\ open = <<>> => Fits(F, o, 1, 0, open)
       /\ c.kind = "doc" /\ o = 0 /\ p = 0 /\ a = 0 /\ open = <<>> => Fits(F, 1, 0, 0, open)
  BY <1>5, <1>6, <1>9
<1> QED BY <1>4, <1>6, <1>8, <1>10, <1>11, <1>12 DEF F

(* A document starts on the empty stack, *)
LEMMA TakeDoc ==
  ASSUME NEW D, Sound(D, 0, 0, 0, <<>>), NEW c, c.action = "start", c.kind = "doc"
  PROVE  Takes(D, c) /\ Sound(After(D, c), 1, 0, 0, <<>>)
<1>1. D \in Stacks /\ Len(D) = 0 /\ Len(D) < MaxDepth /\ Len(<<>>) <= MaxOpen
  <2>1. Sound(D, 0, 0, 0, <<>>) => D \in Stacks /\ Len(D) = 0 + 0 + 0 + Len(<<>>) /\ Len(D) < MaxDepth
    BY SoundFacts
  <2> QED BY <2>1, BuilderAssumption
<1>2. D = <<>>
  BY <1>1, Facts
<1>3. TakesStart(D, c)
  BY <1>1, <1>2 DEF TakesStart
<1>4. 1 \in Bits /\ 0 \in Bits /\ <<>> \in Seq(ElemNames)
  BY DEF Bits
<1>5. Takes(D, c) /\ After(D, c) \in Stacks /\ Fits(After(D, c), 1, 0, 0, <<>>)
  BY <1>3, StartFits
<1> QED BY <1>1, <1>4, <1>5 DEF Sound

(* a DTD in the document or outside of one, *)
LEMMA TakeDtd ==
  ASSUME NEW D, NEW o, Sound(D, o, 0, 0, <<>>), NEW c, c.action = "start", c.kind = "dtd", c.name \in ElemNames
  PROVE  Takes(D, c) /\ Sound(After(D, c), o, 1, 0, <<>>)
<1>1. D \in Stacks /\ o \in Bits /\ Len(D) < MaxDepth /\ TopKind(D) = IF o = 1 THEN "doc" ELSE "none"
  BY SoundFacts
<1>2. TakesStart(D, c)
  BY <1>1, NoTop DEF TakesStart
<1>3. 1 \in Bits /\ 0 \in Bits /\ <<>> \in Seq(ElemNames) /\ Len(<<>>) <= MaxOpen
  BY BuilderAssumption DEF Bits
<1>4. Takes(D, c) /\ After(D, c) \in Stacks /\ Fits(After(D, c), o, 1, 0, <<>>)
  BY <1>2, StartFits
<1> QED BY <1>1, <1>3, <1>4 DEF Sound

(* a list of attributes in a DTD, *)
LEMMA TakeList ==
  ASSUME NEW D, NEW o, Sound(D, o, 1, 0, <<>>), NEW c, c.action = "start", c.kind = "dtdattlist", c.name \in ElemNames
  PROVE  LET F == After(D, c)
         IN /\ Takes(D, c) /\ Sound(F, o, 1, 1, <<>>)
            /\ F[Len(F)].name = c.name /\ TopKind(F) = "dtdattlist"
<1> DEFINE F == After(D, c)
<1>1. D \in Stacks /\ o \in Bits /\ Len(D) < MaxDepth /\ TopKind(D) = "dtd"
  BY SoundFacts
<1>2. TakesStart(D, c)
  BY <1>1 DEF TakesStart
<1>3. 1 \in Bits /\ 0 \in Bits /\ <<>> \in Seq(ElemNames) /\ Len(<<>>) <= MaxOpen
  BY BuilderAssumption DEF Bits
<1>4. Takes(D, c) /\ F \in Stacks /\ Fits(F, o, 1, 1, <<>>) /\ F[Len(F)].name = c.name
      /\ F[Len(F)].kind = c.kind /\ F # <<>>
  BY <1>2, StartFits
<1> HIDE DEF F
<1>5. Sound(F, o, 1, 1, <<>>)
  BY <1>1, <1>3, <1>4 DEF Sound
<1> QED BY <1>4, <1>5 DEF TopKind, F

(* and an element in an element, in the document or outside of one. *)
LEMMA TakeElem ==
  ASSUME NEW D, NEW o, NEW open, Sound(D, o, 0, 0, open), Len(open) < MaxOpen,
         NEW c, c.action = "start", c.kind = "elem", c.name \in ElemNames
  PROVE  LET F == After(D, c)
         IN /\ Takes(D, c) /\ Sound(F, o, 0, 0, Append(open, c.name))
            /\ TopKind(F) = "elem" /\ ~F[Len(F)].begun
<1> DEFINE F == After(D, c)
           q == Append(open, c.name)
<1>1. /\ D \in Stacks /\ o \in Bits /\ Len(D) < MaxDepth /\ TopKind(D) \in {"elem", "doc", "none"}
      /\ open \in Seq(ElemNames) /\ Len(open) \in Nat
  BY SoundFacts
<1>2. TakesStart(D, c)
  BY <1>1 DEF TakesStart
<1>3. 0 \in Bits /\ q \in Seq(ElemNames) /\ Len(q) = Len(open) + 1
  BY <1>1 DEF Bits
<1>4. Takes(D, c) /\ F \in Stacks /\ Fits(F, o, 0, 0, q) /\ F[Len(F)].kind = c.kind /\ F # <<>> /\ ~F[Len(F)].begun
  BY <1>2, StartFits
<1> HIDE DEF F, q
<1>5. Sound(F, o, 0, 0, q)
  BY <1>1, <1>3, <1>4, BuilderAssumption DEF Sound
<1> QED BY <1>4, <1>5 DEF TopKind, F, q

(* Ends. *)
LEMMA TakeEndElem ==
  ASSUME NEW D, NEW o, NEW open, Sound(D, o, 0, 0, open), open # <<>>, NEW c, c.action = "end", c.kind = "elem"
  PROVE  Takes(D, c) /\ Sound(After(D, c), o, 0, 0, Front(open))
<1> DEFINE E == Front(D)
           q == Front(open)
<1>1. /\ D \in Stacks /\ o \in Bits /\ TopKind(D) = "elem" /\ open \in Seq(ElemNames) /\ Len(open) \in Nat
         /\ 0 \in Bits
      /\ Fits(D, o, 0, 0, open) /\ Len(open) <= MaxOpen
  BY SoundFacts DEF Sound
<1>2. Fits(E, o, 0, 0, q) /\ D # <<>>
  BY <1>1, FitsPop
<1>3. q \in Seq(ElemNames) /\ Len(q) = Len(open) - 1
  <2>1. q = SubSeq(open, 1, Len(open) - 1)
    BY DEF Front
  <2> QED BY <1>1, <2>1, LastDropped
<1>4. E \in Stacks
  BY <1>1, <1>2, DropTop
<1> HIDE DEF E, q
<1>5. Sound(E, o, 0, 0, q)
  BY <1>1, <1>2, <1>3, <1>4, BuilderAssumption DEF Sound
<1>6. TopKind(E) \in {"elem", "doc", "none"}
  BY <1>5, SoundFacts
<1>7. TakesEnd(D, c)
  BY <1>1, <1>2, <1>6 DEF TakesEnd, InDtd, E
<1>8. Takes(D, c) /\ After(D, c) = E
  BY <1>1, <1>7, AfterEnd DEF Takes, E
<1> QED BY <1>5, <1>8 DEF q

(* A list ends, *)
LEMMA TakeEndList ==
  ASSUME NEW D, NEW o, Sound(D, o, 1, 1, <<>>), NEW c, c.action = "end", c.kind = "dtdattlist"
  PROVE  Takes(D, c) /\ Sound(After(D, c), o, 1, 0, <<>>)
<1> DEFINE E == Front(D)
<1>1. /\ D \in Stacks /\ o \in Bits /\ TopKind(D) = "dtdattlist" /\ Fits(D, o, 1, 1, <<>>)
      /\ 0 \in Bits /\ 1 \in Bits /\ <<>> \in Seq(ElemNames) /\ Len(<<>>) <= MaxOpen
  <2>1. D \in Stacks /\ o \in Bits /\ Fits(D, o, 1, 1, <<>>)
    BY SoundFacts
  <2>2. TopKind(D) = "dtdattlist"
    BY SoundFacts
  <2>3. 0 \in Bits /\ 1 \in Bits /\ <<>> \in Seq(ElemNames) /\ Len(<<>>) <= MaxOpen
    BY BuilderAssumption DEF Bits
  <2> QED BY <2>1, <2>2, <2>3
<1>2. Fits(E, o, 1, 0, <<>>) /\ D # <<>>
  BY <1>1, FitsPop
<1>3. E \in Stacks
  BY <1>1, <1>2, DropTop
<1> HIDE DEF E
<1>4. Sound(E, o, 1, 0, <<>>)
  BY <1>1, <1>2, <1>3 DEF Sound
<1>5. TopKind(E) = "dtd"
  BY <1>4, SoundFacts
<1>6. TakesEnd(D, c)
  BY <1>1, <1>2, <1>5 DEF TakesEnd, InDtd, E
<1>7. Takes(D, c) /\ After(D, c) = E
  BY <1>1, <1>6, AfterEnd DEF Takes, E
<1> QED BY <1>4, <1>7

(* a DTD without an open list ends, *)
LEMMA TakeEndDtd ==
  ASSUME NEW D, NEW o, Sound(D, o, 1, 0, <<>>), NEW c, c.action = "end", c.kind = "dtd"
  PROVE  Takes(D, c) /\ Sound(After(D, c), o, 0, 0, <<>>)
<1> DEFINE E == Front(D)
<1>1. /\ D \in Stacks /\ o \in Bits /\ TopKind(D) = "dtd" /\ Fits(D, o, 1, 0, <<>>)
      /\ 0 \in Bits /\ 1 \in Bits /\ <<>> \in Seq(ElemNames) /\ Len(<<>>) <= MaxOpen
  <2>1. D \in Stacks /\ o \in Bits /\ Fits(D, o, 1, 0, <<>>)
    BY SoundFacts
  <2>2. TopKind(D) = "dtd"
    BY SoundFacts
  <2>3. 0 \in Bits /\ 1 \in Bits /\ <<>> \in Seq(ElemNames) /\ Len(<<>>) <= MaxOpen
    BY BuilderAssumption DEF Bits
  <2> QED BY <2>1, <2>2, <2>3
<1>2. Fits(E, o, 0, 0, <<>>) /\ D # <<>>
  BY <1>1, FitsPop
<1>3. E \in Stacks
  BY <1>1, <1>2, DropTop
<1> HIDE DEF E
<1>4. Sound(E, o, 0, 0, <<>>)
  BY <1>1, <1>2, <1>3 DEF Sound
<1>5. TopKind(E) \in {"none", "doc"}
  BY <1>4, SoundFacts
<1>6. Len(D) = 1 \/ (Len(D) = 2 /\ D[1].kind = "doc")
  <2>1. Len(D) = o + 1 + 0 + Len(<<>>)
    BY SoundFacts
  <2>2. o = 1 => Len(D) = 2 /\ D[1].kind = "doc"
    BY <1>1, <2>1 DEF Fits, KindAt
  <2> QED BY <1>1, <2>1, <2>2 DEF Bits
<1>7. TakesEnd(D, c)
  BY <1>1, <1>2, <1>5, <1>6 DEF TakesEnd, InDtd, E
<1>8. Takes(D, c) /\ After(D, c) = E
  BY <1>1, <1>7, AfterEnd DEF Takes, E
<1> QED BY <1>4, <1>8

(* and a document in which nothing is open ends. *)
LEMMA TakeEndDoc ==
  ASSUME NEW D, Sound(D, 1, 0, 0, <<>>), NEW c, c.action = "end", c.kind = "doc"
  PROVE  Takes(D, c) /\ Sound(After(D, c), 0, 0, 0, <<>>)
<1> DEFINE E == Front(D)
<1>1. /\ D \in Stacks /\ TopKind(D) = "doc" /\ Fits(D, 1, 0, 0, <<>>) /\ (TopKind(D) = "doc" => Len(D) = 1)
      /\ 0 \in Bits /\ 1 \in Bits /\ <<>> \in Seq(ElemNames) /\ Len(<<>>) <= MaxOpen
  <2>1. D \in Stacks /\ Fits(D, 1, 0, 0, <<>>) /\ (TopKind(D) = "doc" => Len(D) = 1)
    BY SoundFacts
  <2>2. TopKind(D) = "doc"
    BY SoundFacts
  <2>3. 0 \in Bits /\ 1 \in Bits /\ <<>> \in Seq(ElemNames) /\ Len(<<>>) <= MaxOpen
    BY BuilderAssumption DEF Bits
  <2> QED BY <2>1, <2>2, <2>3
<1>2. Fits(E, 0, 0, 0, <<>>) /\ D # <<>>
  BY <1>1, FitsPop
<1>3. E \in Stacks
  BY <1>1, <1>2, DropTop
<1> HIDE DEF E
<1>4. Sound(E, 0, 0, 0, <<>>)
  BY <1>1, <1>2, <1>3 DEF Sound
<1>5. TopKind(E) = "none"
  BY <1>4, SoundFacts
<1>6. TakesEnd(D, c)
  BY <1>1, <1>2, <1>5 DEF TakesEnd, InDtd, E
<1>7. Takes(D, c) /\ After(D, c) = E
  BY <1>1, <1>6, AfterEnd DEF Takes, E
<1> QED BY <1>4, <1>7

(* Writes. *)
LEMMA WriteFits ==
  ASSUME NEW D, NEW o, NEW p, NEW a, NEW open, Sound(D, o, p, a, open), NEW c, TakesWrite(D, c)
  PROVE  LET F == After(D, c)
         IN Takes(D, c) /\ Sound(F, o, p, a, open) /\ (D # <<>> => F[Len(F)].name = D[Len(D)].name)
<1> DEFINE F == After(D, c)
<1>1. /\ D \in Stacks /\ o \in Bits /\ p \in Bits /\ a \in Bits /\ open \in Seq(ElemNames) /\ Fits(D, o, p, a, open)
      /\ (TopKind(D) = "doc" => Len(D) = 1)
  BY SoundFacts
<1>2. PICK B : B = Begun(D)
  OBVIOUS
<1>3. B \in Stacks /\ Len(B) = Len(D) /\ Fits(B, o, p, a, open) /\ (D # <<>> => B[Len(D)].name = D[Len(D)].name)
  BY <1>1, <1>2, BegunFacts, FitsBegun
<1>4. F = D \/ F = B
  BY <1>1, <1>2, AfterWrite
<1>5. Takes(D, c)
  BY <1>1 DEF Takes
<1> HIDE DEF F
<1>6. Sound(B, o, p, a, open)
  BY <1>3 DEF Sound
<1> QED BY <1>3, <1>4, <1>5, <1>6 DEF F

-----------------------------------------------------------------------------
(* The handlers. *)

(* The types of src and ctx. *)
Sources == [part : Parts, open : Seq(ElemNames), cdata : BOOLEAN, list : ElemNames \cup {Nameless},
            near : BOOLEAN, dtd : BOOLEAN]

Contexts == [doc : BOOLEAN, in_dtd : BOOLEAN, in_attlist : BOOLEAN, collect : BOOLEAN, strip_ws : BOOLEAN]

(* Whether there is a document, a DTD and a list. *)
DocBit(s, x) == IF x.doc /\ s.part # "end" THEN 1 ELSE 0

DtdBit(s) == IF s.part = "dtd" THEN 1 ELSE 0

ListBit(x) == IF x.in_attlist THEN 1 ELSE 0

(* D is what is open in the document that has been read as far as s, x.    *)
Shape(D, s, x) ==
  /\ s \in Sources /\ x \in Contexts
  /\ Sound(D, DocBit(s, x), DtdBit(s), ListBit(x), s.open)
  /\ x.in_attlist => s.near
  /\ s.open # <<>> <=> s.part = "content"
  /\ s.cdata => s.part = "content"
  /\ x.in_attlist /\ "list" \notin Abutting => D[Len(D)].name = s.list
  /\ s.part = "start" => ~x.doc

(* The commands t lead from D there. *)
Leads(D, t, s, x) ==
  \/ t = <<>> /\ Shape(D, s, x)
  \/ \E c : t = <<c>> /\ Takes(D, c) /\ Shape(After(D, c), s, x)
  \/ \E c, d : t = <<c, d>> /\ Takes(D, c) /\ Takes(After(D, c), d) /\ Shape(After(After(D, c), d), s, x)

(* One command leads there. *)
LEMMA OneLeads ==
  ASSUME NEW D, NEW s, NEW x, NEW c, Takes(D, c), NEW F, F = After(D, c), Shape(F, s, x), NEW t, t = <<c>>
  PROVE  Leads(D, t, s, x)
BY DEF Leads

(* Two commands lead there. *)
LEMMA TwoLead ==
  ASSUME NEW D, NEW s, NEW x, NEW c, NEW d, NEW E, NEW F, Takes(D, c), E = After(D, c), Takes(E, d), F = After(E, d),
         Shape(F, s, x), NEW t, t = <<c, d>>
  PROVE  Leads(D, t, s, x)
BY DEF Leads

(* The fields of a command. *)
LEMMA CommandIs ==
  ASSUME NEW action, NEW kind, NEW name, NEW of, NEW c, c = Command(action, kind, name, of)
  PROVE  c.action = action /\ c.kind = kind /\ c.name = name /\ c.of = of
BY DEF Command

(* The fields of a command without a name. *)
LEMMA PlainIs ==
  ASSUME NEW action, NEW kind, NEW c, c = Plain(action, kind)
  PROVE  c.action = action /\ c.kind = kind
BY CommandIs DEF Plain

(* What the flags of the builder say of the stack. *)
LEMMA BitsFacts ==
  ASSUME NEW s \in Sources, NEW x \in Contexts
  PROVE  /\ DocBit(s, x) \in Bits /\ DtdBit(s) \in Bits /\ ListBit(x) \in Bits
         /\ (DocBit(s, x) = 1 <=> x.doc /\ s.part # "end") /\ (DtdBit(s) = 1 <=> s.part = "dtd")
         /\ (ListBit(x) = 1 <=> x.in_attlist)
         /\ (DocBit(s, x) = 0 <=> ~(x.doc /\ s.part # "end")) /\ (DtdBit(s) = 0 <=> s.part # "dtd")
         /\ (ListBit(x) = 0 <=> ~x.in_attlist)
BY DEF DocBit, DtdBit, ListBit, Bits

(* What is open, by the part of the document that is read. *)
LEMMA ShapeFacts ==
  ASSUME NEW D, NEW s, NEW x, Shape(D, s, x)
  PROVE  /\ s \in Sources /\ x \in Contexts /\ D \in Stacks
         /\ Sound(D, DocBit(s, x), DtdBit(s), ListBit(x), s.open)
         /\ x.in_attlist => s.part = "dtd" /\ s.near
         /\ s.part # "content" => s.open = <<>>
         /\ s.part = "content" => s.open # <<>>
         /\ s.part = "start" => ~x.doc
         /\ TopKind(D) = IF s.part = "content" THEN "elem"
                         ELSE IF x.in_attlist THEN "dtdattlist"
                         ELSE IF s.part = "dtd" THEN "dtd"
                         ELSE IF x.doc /\ s.part # "end" THEN "doc" ELSE "none"
         /\ ~x.in_attlist => Len(D) < MaxDepth
<1> DEFINE o == DocBit(s, x)
           p == DtdBit(s)
           a == ListBit(x)
<1>1. s \in Sources /\ x \in Contexts /\ Sound(D, o, p, a, s.open)
  BY DEF Shape
<1>2. /\ (o = 1 <=> x.doc /\ s.part # "end") /\ (p = 1 <=> s.part = "dtd")
      /\ (a = 1 <=> x.in_attlist) /\ (a = 0 <=> ~x.in_attlist)
  BY <1>1, BitsFacts
<1>3. (s.open # <<>> <=> s.part = "content") /\ (x.in_attlist => s.near) /\ (s.part = "start" => ~x.doc)
  BY DEF Shape
<1> HIDE DEF o, p, a
<1>4. (a = 1 => p = 1) /\ (p = 1 => s.open = <<>>) /\ D \in Stacks
  BY <1>1 DEF Sound
<1>5. TopKind(D) = IF s.open # <<>> THEN "elem" ELSE IF a = 1 THEN "dtdattlist" ELSE IF p = 1 THEN "dtd"
                         ELSE IF o = 1 THEN "doc" ELSE "none"
  BY <1>1, SoundFacts
<1>6. a = 0 => Len(D) < MaxDepth
  <2>1. a = 0 /\ (s.open = <<>> \/ Len(s.open) < MaxOpen \/ p = 0) => Len(D) < MaxDepth
    BY <1>1, SoundFacts
  <2>2. p \in Bits
    BY <1>1 DEF Sound
  <2> QED BY <1>4, <2>1, <2>2 DEF Bits
<1> QED BY <1>1, <1>2, <1>3, <1>4, <1>5, <1>6 DEF o, p, a

(* A command that is written in the innermost, all else as it was.         *)
LEMMA WriteShape ==
  ASSUME NEW D, NEW s, NEW x, Shape(D, s, x), NEW c, TakesWrite(D, c)
  PROVE  Takes(D, c) /\ Shape(After(D, c), s, x)
<1> DEFINE F == After(D, c)
           o == DocBit(s, x)
           p == DtdBit(s)
           a == ListBit(x)
<1>1. Sound(D, o, p, a, s.open) /\ s \in Sources /\ x \in Contexts
  BY ShapeFacts
<1> HIDE DEF o, p, a
<1>2. Takes(D, c) /\ Sound(F, o, p, a, s.open) /\ (D # <<>> => F[Len(F)].name = D[Len(D)].name)
  BY <1>1, WriteFits
<1>3. x.in_attlist => D # <<>>
  BY ShapeFacts DEF TopKind
<1> HIDE DEF F
<1>4. Shape(F, s, x)
  BY <1>1, <1>2, <1>3 DEF Shape, o, p, a
<1> QED BY <1>2, <1>4 DEF F

(* What was read changes and what is open does not. *)
LEMMA SameShape ==
  ASSUME NEW D, NEW s, NEW x, Shape(D, s, x), NEW u \in Sources, NEW y \in Contexts,
         DocBit(u, y) = DocBit(s, x), DtdBit(u) = DtdBit(s), y.in_attlist <=> x.in_attlist, u.open = s.open,
         y.in_attlist => u.near /\ u.list = s.list, u.part = "content" <=> s.part = "content",
         u.cdata => u.part = "content", u.part = "start" => ~y.doc
  PROVE  Shape(D, u, y)
BY DEF Shape, ListBit

(* Scripts of up to two commands. *)
LEMMA Singles ==
  ASSUME NEW c, NEW d
  PROVE  <<c>> \o <<d>> = <<c, d>> /\ <<c>> \o <<>> = <<c>> /\ <<>> \o <<c>> = <<c>>
<1> DEFINE S == {c, d}
<1>1. /\ <<c>> \in Seq(S) /\ <<d>> \in Seq(S) /\ <<c, d>> \in Seq(S) /\ <<>> \in Seq(S)
      /\ Len(<<c>>) = 1 /\ Len(<<d>>) = 1 /\ <<c>>[1] = c /\ <<d>>[1] = d
      /\ Len(<<c, d>>) = 2 /\ <<c, d>>[1] = c /\ <<c, d>>[2] = d
  OBVIOUS
<1> HIDE DEF S
<1>2. <<c>> \o <<d>> = <<c, d>>
  <2>1. PICK x, y, z : x = <<c>> /\ y = <<d>> /\ z = <<c, d>>
    OBVIOUS
  <2>2. x \in Seq(S) /\ y \in Seq(S) /\ z \in Seq(S) /\ Len(x) = 1 /\ Len(y) = 1 /\ Len(z) = 2
        /\ x[1] = c /\ y[1] = d /\ z[1] = c /\ z[2] = d
    BY <1>1, <2>1
  <2>3. PICK t : t = x \o y
    OBVIOUS
  <2>4. /\ t \in Seq(S) /\ Len(t) = Len(x) + Len(y)
        /\ \A i \in 1 .. Len(x) + Len(y) : t[i] = IF i <= Len(x) THEN x[i] ELSE y[i - Len(x)]
    BY <2>2, <2>3, ConcatProperties
  <2>5. Len(t) = 2 /\ t[1] = c /\ t[2] = d
    BY <2>2, <2>4
  <2>6. \A i \in 1 .. Len(t) : t[i] = z[i]
    BY <2>2, <2>5
  <2>7. t = z
    BY <2>2, <2>4, <2>5, <2>6, SeqEqual
  <2> QED BY <2>1, <2>3, <2>7
<1>3. <<c>> \o <<>> = <<c>> /\ <<>> \o <<c>> = <<c>>
  BY <1>1, ConcatEmptySeq
<1> QED BY <1>2, <1>3

(* The context when the builder has left its list. *)
NoLists == [ctx EXCEPT !.in_attlist = FALSE]

(* A declaration was read. *)
LEMMA DeclaredFacts ==
  ASSUME NEW s, s = Declared, src \in Sources
  PROVE  s \in Sources /\ s.part = src.part /\ s.open = src.open /\ (s.cdata <=> src.cdata) /\ s.list = src.list
         /\ ~s.near
BY DEF Declared, Sources

(* The builder has left the list. *)
LEMMA NoListsFacts ==
  ASSUME NEW x, x = NoLists, ctx \in Contexts
  PROVE  x \in Contexts /\ (x.doc <=> ctx.doc) /\ ~x.in_attlist
BY DEF NoLists, Contexts

(* Flags that say the same. *)
LEMMA BitsSame ==
  ASSUME NEW s, NEW x, NEW u, NEW y, (y.doc /\ u.part # "end") <=> (x.doc
         /\ s.part # "end"), u.part = "dtd" <=> s.part = "dtd"
  PROVE  DocBit(u, y) = DocBit(s, x) /\ DtdBit(u) = DtdBit(s)
BY DEF DocBit, DtdBit

(* The end of a list of attributes. *)
LEMMA ListEnds ==
  ASSUME NEW D, Shape(D, src, ctx), ctx.in_attlist, NEW E, E = After(D, EndAttList)
  PROVE  Takes(D, EndAttList) /\ Shape(E, Declared, NoLists)
<1>1. PICK s : s = Declared
  OBVIOUS
<1>2. PICK x : x = NoLists
  OBVIOUS
<1>3. PICK o : o = DocBit(src, ctx)
  OBVIOUS
<1>4. src \in Sources /\ ctx \in Contexts /\ src.part = "dtd" /\ src.open = <<>>
  BY ShapeFacts
<1>5. s \in Sources /\ s.part = src.part /\ s.open = src.open /\ (s.cdata <=> src.cdata)
  BY <1>1, <1>4, DeclaredFacts
<1>6. x \in Contexts /\ (x.doc <=> ctx.doc) /\ ~x.in_attlist
  BY <1>2, <1>4, NoListsFacts
<1>7. Sound(D, o, 1, 1, <<>>)
  <2>1. Sound(D, DocBit(src, ctx), DtdBit(src), ListBit(ctx), src.open)
    BY ShapeFacts
  <2>2. DtdBit(src) = 1 /\ ListBit(ctx) = 1
    BY <1>4 DEF DtdBit, ListBit
  <2> QED BY <1>3, <1>4, <2>1, <2>2
<1>8. EndAttList.action = "end" /\ EndAttList.kind = "dtdattlist"
  BY PlainIs DEF EndAttList
<1>9. Takes(D, EndAttList) /\ Sound(E, o, 1, 0, <<>>)
  BY <1>7, <1>8, TakeEndList
<1>10. DocBit(s, x) = o /\ DtdBit(s) = 1 /\ ListBit(x) = 0
  BY <1>3, <1>4, <1>5, <1>6, BitsSame DEF DtdBit, ListBit
<1>11. src.cdata => FALSE
  BY <1>4 DEF Shape
<1>12. Shape(E, s, x)
  BY <1>4, <1>5, <1>6, <1>9, <1>10, <1>11 DEF Shape
<1> QED BY <1>1, <1>2, <1>9, <1>12

(* A declaration or a default in the subset: what open list there is ends. *)
LEMMA SubsetEmits ==
  ASSUME NEW D, Shape(D, src, ctx), src.part = "dtd", src' = Declared, NEW cs, Emit(cs),
         cs = <<>> \/ \E c : cs = <<c>> /\ c.action = "write"
         /\ c.kind \in {"raw", "dtdelem", "dtdentity", "notation"}
  PROVE  Leads(D, script', src', ctx')
<1>1. src \in Sources /\ ctx \in Contexts /\ src.open = <<>>
  BY ShapeFacts
<1>2. ctx' = NoLists /\ script' = IF ctx.in_attlist THEN <<EndAttList>> \o cs ELSE cs
  BY DEF Emit, NoLists
<1>3. PICK E : E = IF ctx.in_attlist THEN After(D, EndAttList) ELSE D
  OBVIOUS
<1>4. Shape(E, src', ctx') /\ (ctx.in_attlist => Takes(D, EndAttList))
  <2>1. CASE ctx.in_attlist
    BY <1>2, <1>3, <2>1, ListEnds
  <2>2. CASE ~ctx.in_attlist
    <3>1. PICK s : s = Declared
      OBVIOUS
    <3>2. PICK x : x = NoLists
      OBVIOUS
    <3>3. s \in Sources /\ s.part = src.part /\ s.open = src.open /\ (s.cdata <=> src.cdata)
      BY <1>1, <3>1, DeclaredFacts
    <3>4. x \in Contexts /\ (x.doc <=> ctx.doc) /\ ~x.in_attlist
      BY <1>1, <3>2, NoListsFacts
    <3>5. DocBit(s, x) = DocBit(src, ctx) /\ DtdBit(s) = DtdBit(src)
      BY <3>3, <3>4, BitsSame
    <3>6. src.cdata => FALSE
      BY DEF Shape
    <3>7. Shape(D, s, x)
      BY <2>2, <3>3, <3>4, <3>5, <3>6, SameShape
    <3> QED BY <1>2, <1>3, <2>2, <3>1, <3>2, <3>7
  <2> QED BY <2>1, <2>2
<1>5. CASE cs = <<>>
  <2>1. CASE ctx.in_attlist
    <3>1. script' = <<EndAttList>> /\ E = After(D, EndAttList)
      BY <1>2, <1>3, <1>5, <2>1, Singles
    <3> QED BY <1>4, <2>1, <3>1, OneLeads
  <2>2. CASE ~ctx.in_attlist
    BY <1>2, <1>3, <1>4, <1>5, <2>2 DEF Leads
  <2> QED BY <2>1, <2>2
<1>6. ASSUME NEW c, cs = <<c>>, c.action = "write", c.kind \in {"raw", "dtdelem", "dtdentity", "notation"}
      PROVE  Leads(D, script', src', ctx')
  <2>1. TopKind(E) = "dtd"
    <3>1. PICK s : s = src'
      OBVIOUS
    <3>2. PICK x : x = ctx'
      OBVIOUS
    <3>3. s.part = "dtd" /\ ~x.in_attlist
      BY <1>1, <1>2, <3>1, <3>2, DeclaredFacts, NoListsFacts
    <3>4. Shape(E, s, x)
      BY <1>4, <3>1, <3>2
    <3> QED BY <3>3, <3>4, ShapeFacts
  <2>2. TakesWrite(E, c)
    BY <1>6, <2>1 DEF TakesWrite
  <2>3. PICK F : F = After(E, c)
    OBVIOUS
  <2>4. Takes(E, c) /\ Shape(F, src', ctx')
    BY <1>4, <2>2, <2>3, WriteShape
  <2>5. CASE ctx.in_attlist
    <3>1. script' = <<EndAttList, c>> /\ E = After(D, EndAttList)
      BY <1>2, <1>3, <1>6, <2>5, Singles
    <3> QED BY <1>4, <2>3, <2>4, <2>5, <3>1, TwoLead
  <2>6. CASE ~ctx.in_attlist
    <3>1. script' = <<c>> /\ E = D
      BY <1>2, <1>3, <1>6, <2>6
    <3> QED BY <2>3, <2>4, <3>1, OneLeads
  <2> QED BY <2>5, <2>6
<1> QED BY <1>5, <1>6

-----------------------------------------------------------------------------
(* Every handler. *)

(* What makes a Shape. *)
LEMMA ShapeIs ==
  ASSUME NEW F, NEW s \in Sources, NEW x \in Contexts, NEW o, NEW p, NEW a, NEW open, Sound(F, o, p, a, open),
         open = s.open, o = DocBit(s, x), p = DtdBit(s), a = ListBit(x), x.in_attlist => s.near,
         open # <<>> <=> s.part = "content", s.cdata => s.part = "content",
         x.in_attlist /\ "list" \notin Abutting => F[Len(F)].name = s.list, s.part = "start" => ~x.doc
  PROVE  Shape(F, s, x)
BY DEF Shape

(* Outside a subset there is a document or not, and what is open. *)
LEMMA Outside ==
  ASSUME NEW D, NEW s, NEW x, Shape(D, s, x), s.part # "dtd"
  PROVE  /\ s \in Sources /\ x \in Contexts /\ ~x.in_attlist /\ (s.cdata => s.part = "content")
         /\ Sound(D, DocBit(s, x), 0, 0, s.open) /\ DtdBit(s) = 0 /\ ListBit(x) = 0
<1>1. s \in Sources /\ x \in Contexts /\ ~x.in_attlist /\ Sound(D, DocBit(s, x), DtdBit(s), ListBit(x), s.open)
  BY ShapeFacts
<1>2. DtdBit(s) = 0 /\ ListBit(x) = 0
  BY <1>1 DEF DtdBit, ListBit
<1> QED BY <1>1, <1>2 DEF Shape

(* xml_decl starts the document. *)
LEMMA XmlDeclLeads ==
  ASSUME NEW D, Shape(D, src, ctx), XmlDecl
  PROVE  Leads(D, script', src', ctx')
<1>1. PICK encoding \in {"utf8", "other"} :
        /\ src' = [src EXCEPT !.part = "prolog"] /\ ctx' = [ctx EXCEPT !.doc = TRUE]
        /\ script' = <<Command("start", "doc", encoding, Nameless)>>
  BY DEF XmlDecl
<1>2. src.part = "start" /\ src.open = <<>> /\ ~ctx.doc
  BY ShapeFacts DEF XmlDecl
<1>3. /\ src \in Sources /\ ctx \in Contexts /\ ~ctx.in_attlist /\ ~src.cdata /\ DocBit(src, ctx) = 0
      /\ Sound(D, 0, 0, 0, <<>>)
  <2>1. /\ src \in Sources /\ ctx \in Contexts /\ ~ctx.in_attlist /\ (src.cdata => src.part = "content")
        /\ Sound(D, DocBit(src, ctx), 0, 0, src.open)
    BY <1>2, Outside
  <2>2. DocBit(src, ctx) = 0
    BY <1>2 DEF DocBit
  <2> QED BY <1>2, <2>1, <2>2
<1>4. PICK s : s = [src EXCEPT !.part = "prolog"]
  OBVIOUS
<1>5. PICK x : x = [ctx EXCEPT !.doc = TRUE]
  OBVIOUS
<1>6. PICK c : c = Command("start", "doc", encoding, Nameless)
  OBVIOUS
<1>7. s \in Sources /\ s.part = "prolog" /\ s.open = src.open /\ (s.cdata <=> src.cdata)
  BY <1>3, <1>4 DEF Sources, Parts
<1>8. x \in Contexts /\ x.doc /\ (x.in_attlist <=> ctx.in_attlist)
  BY <1>3, <1>5 DEF Contexts
<1>9. c.action = "start" /\ c.kind = "doc"
  BY <1>6, CommandIs
<1>10. PICK F : F = After(D, c)
  OBVIOUS
<1>11. Takes(D, c) /\ Sound(F, 1, 0, 0, <<>>)
  BY <1>3, <1>9, <1>10, TakeDoc
<1>12. DocBit(s, x) = 1 /\ DtdBit(s) = 0 /\ ListBit(x) = 0
  BY <1>3, <1>7, <1>8 DEF DocBit, DtdBit, ListBit
<1>13. Shape(F, s, x)
  BY <1>2, <1>3, <1>7, <1>8, <1>11, <1>12, ShapeIs
<1> QED BY <1>1, <1>4, <1>5, <1>6, <1>10, <1>11, <1>13, OneLeads

(* xml_doctype_start starts the DTD. *)
LEMMA DoctypeStartLeads ==
  ASSUME NEW D, Shape(D, src, ctx), DoctypeStart
  PROVE  Leads(D, script', src', ctx')
<1>1. PICK name \in ElemNames :
        /\ src' = [src EXCEPT !.part = "dtd", !.dtd = TRUE] /\ ctx' = [ctx EXCEPT !.in_dtd = TRUE]
        /\ script' = <<Command("start", "dtd", name, Nameless)>>
  BY DEF DoctypeStart
<1>2. src.part \in {"start", "prolog"} /\ src.open = <<>>
  BY ShapeFacts DEF DoctypeStart, InMisc
<1>3. PICK o : o = DocBit(src, ctx)
  OBVIOUS
<1>4. /\ src \in Sources /\ ctx \in Contexts /\ ~ctx.in_attlist /\ ~src.cdata /\ Sound(D, o, 0, 0, <<>>)
  BY <1>2, <1>3, Outside
<1>5. PICK s : s = [src EXCEPT !.part = "dtd", !.dtd = TRUE]
  OBVIOUS
<1>6. PICK x : x = [ctx EXCEPT !.in_dtd = TRUE]
  OBVIOUS
<1>7. PICK c : c = Command("start", "dtd", name, Nameless)
  OBVIOUS
<1>8. s \in Sources /\ s.part = "dtd" /\ s.open = src.open /\ (s.cdata <=> src.cdata)
  BY <1>4, <1>5 DEF Sources, Parts
<1>9. x \in Contexts /\ (x.doc <=> ctx.doc) /\ (x.in_attlist <=> ctx.in_attlist)
  BY <1>4, <1>6 DEF Contexts
<1>10. c.action = "start" /\ c.kind = "dtd" /\ c.name \in ElemNames
  BY <1>7, CommandIs
<1>11. PICK F : F = After(D, c)
  OBVIOUS
<1>12. Takes(D, c) /\ Sound(F, o, 1, 0, <<>>)
  BY <1>4, <1>10, <1>11, TakeDtd
<1>13. DocBit(s, x) = o /\ DtdBit(s) = 1 /\ ListBit(x) = 0
  BY <1>2, <1>3, <1>4, <1>8, <1>9 DEF DocBit, DtdBit, ListBit
<1>14. Shape(F, s, x)
  BY <1>2, <1>4, <1>8, <1>9, <1>12, <1>13, ShapeIs
<1> QED BY <1>1, <1>5, <1>6, <1>7, <1>11, <1>12, <1>14, OneLeads

(* xml_doctype_end ends it, and the list before it. *)
LEMMA DoctypeEndLeads ==
  ASSUME NEW D, Shape(D, src, ctx), DoctypeEnd
  PROVE  Leads(D, script', src', ctx')
<1>1. PICK c : c = Plain("end", "dtd")
  OBVIOUS
<1>2. /\ src' = [Declared EXCEPT !.part = "prolog"]
      /\ script' = (IF ctx.in_attlist THEN <<EndAttList>> ELSE <<>>) \o <<c>>
      /\ ctx' = [ctx EXCEPT !.in_dtd = FALSE, !.in_attlist = FALSE]
  BY <1>1 DEF DoctypeEnd
<1>3. src \in Sources /\ ctx \in Contexts /\ src.part = "dtd" /\ src.open = <<>>
  BY ShapeFacts DEF DoctypeEnd, InSubset
<1>4. PICK E : E = IF ctx.in_attlist THEN After(D, EndAttList) ELSE D
  OBVIOUS
<1>5. PICK o : o = DocBit(src, ctx)
  OBVIOUS
<1>6. Sound(E, o, 1, 0, <<>>) /\ (ctx.in_attlist => Takes(D, EndAttList))
  <2>1. CASE ctx.in_attlist
    <3>1. PICK s : s = Declared
      OBVIOUS
    <3>2. PICK x : x = NoLists
      OBVIOUS
    <3>3. Takes(D, EndAttList) /\ Shape(E, s, x)
      BY <1>4, <2>1, <3>1, <3>2, ListEnds
    <3>4. s.part = "dtd" /\ s.open = <<>> /\ (x.doc <=> ctx.doc) /\ ~x.in_attlist
      BY <1>3, <3>1, <3>2, DeclaredFacts, NoListsFacts
    <3>5. Sound(E, DocBit(s, x), DtdBit(s), ListBit(x), s.open)
      BY <3>3 DEF Shape
    <3>6. DocBit(s, x) = o /\ DtdBit(s) = 1 /\ ListBit(x) = 0
      BY <1>3, <1>5, <3>4 DEF DocBit, DtdBit, ListBit
    <3> QED BY <3>3, <3>4, <3>5, <3>6
  <2>2. CASE ~ctx.in_attlist
    <3>1. Sound(D, DocBit(src, ctx), DtdBit(src), ListBit(ctx), src.open)
      BY DEF Shape
    <3>2. DtdBit(src) = 1 /\ ListBit(ctx) = 0
      BY <1>3, <2>2 DEF DtdBit, ListBit
    <3> QED BY <1>3, <1>4, <1>5, <2>2, <3>1, <3>2
  <2> QED BY <2>1, <2>2
<1>7. PICK d : d = Declared
  OBVIOUS
<1>8. PICK s : s = [d EXCEPT !.part = "prolog"]
  OBVIOUS
<1>9. PICK x : x = [ctx EXCEPT !.in_dtd = FALSE, !.in_attlist = FALSE]
  OBVIOUS
<1>10. d \in Sources /\ d.open = <<>> /\ (d.cdata <=> src.cdata)
  BY <1>3, <1>7, DeclaredFacts
<1>11. s \in Sources /\ s.part = "prolog" /\ s.open = <<>> /\ (s.cdata <=> src.cdata)
  BY <1>8, <1>10 DEF Sources, Parts
<1>12. x \in Contexts /\ (x.doc <=> ctx.doc) /\ ~x.in_attlist
  BY <1>3, <1>9 DEF Contexts
<1>13. c.action = "end" /\ c.kind = "dtd"
  BY <1>1, PlainIs
<1>14. PICK F : F = After(E, c)
  OBVIOUS
<1>15. Takes(E, c) /\ Sound(F, o, 0, 0, <<>>)
  BY <1>6, <1>13, <1>14, TakeEndDtd
<1>16. DocBit(s, x) = o /\ DtdBit(s) = 0 /\ ListBit(x) = 0
  BY <1>3, <1>5, <1>11, <1>12 DEF DocBit, DtdBit, ListBit
<1>17. ~src.cdata
  BY <1>3 DEF Shape
<1>18. Shape(F, s, x)
  BY <1>11, <1>12, <1>15, <1>16, <1>17, ShapeIs
<1>19. src' = s /\ ctx' = x
  BY <1>2, <1>7, <1>8, <1>9
<1>20. CASE ctx.in_attlist
  <2>1. script' = <<EndAttList, c>> /\ E = After(D, EndAttList)
    BY <1>2, <1>4, <1>20, Singles
  <2> QED BY <1>6, <1>14, <1>15, <1>18, <1>19, <1>20, <2>1, TwoLead
<1>21. CASE ~ctx.in_attlist
  <2>1. script' = <<c>> /\ E = D
    BY <1>2, <1>4, <1>21, Singles
  <2> QED BY <1>14, <1>15, <1>18, <1>19, <2>1, OneLeads
<1> QED BY <1>20, <1>21

(* In a list, or with a list to start first. *)
LEMMA AttlistDeclLeads ==
  ASSUME NEW D, Shape(D, src, ctx), AttlistDecl
  PROVE  Leads(D, script', src', ctx')
<1>1. PICK name \in ElemNames :
        /\ InSubset /\ (MayFollow("list") \/ (src.near /\ name = src.list))
        /\ src' = [Declared EXCEPT !.list = name, !.near = TRUE]
        /\ ctx' = [ctx EXCEPT !.in_attlist = TRUE]
        /\ script' = (IF ctx.in_attlist THEN <<>> ELSE <<Command("start", "dtdattlist", name, Nameless)>>)
                     \o <<Command("write", "dtdattr", Nameless, name)>>
  BY DEF AttlistDecl, MayFollow
<1>2. src.near /\ "list" \notin Abutting => name = src.list
  BY <1>1 DEF MayFollow
<1>3. src \in Sources /\ ctx \in Contexts /\ src.part = "dtd" /\ src.open = <<>> /\ (ctx.in_attlist => src.near)
  BY <1>1, ShapeFacts DEF InSubset
<1>4. ~src.cdata
  BY <1>3 DEF Shape
<1>5. PICK o : o = DocBit(src, ctx)
  OBVIOUS
<1>6. PICK d : d = Declared
  OBVIOUS
<1>7. PICK s : s = [d EXCEPT !.list = name, !.near = TRUE]
  OBVIOUS
<1>8. PICK x : x = [ctx EXCEPT !.in_attlist = TRUE]
  OBVIOUS
<1>9. d \in Sources /\ d.part = "dtd" /\ d.open = <<>> /\ (d.cdata <=> src.cdata)
  BY <1>3, <1>6, DeclaredFacts
<1>10. s \in Sources /\ s.part = "dtd" /\ s.open = <<>> /\ (s.cdata <=> src.cdata) /\ s.near /\ s.list = name
  BY <1>7, <1>9 DEF Sources
<1>11. x \in Contexts /\ (x.doc <=> ctx.doc) /\ x.in_attlist
  BY <1>3, <1>8 DEF Contexts
<1>12. DocBit(s, x) = o /\ DtdBit(s) = 1 /\ ListBit(x) = 1
  BY <1>3, <1>5, <1>10, <1>11 DEF DocBit, DtdBit, ListBit
<1>13. PICK w : w = Command("write", "dtdattr", Nameless, name)
  OBVIOUS
<1>14. w.action = "write" /\ w.kind = "dtdattr" /\ w.of = name
  BY <1>13, CommandIs
<1>15. src' = s /\ ctx' = x
  BY <1>1, <1>6, <1>7, <1>8
<1>16. ASSUME NEW E, Sound(E, o, 1, 1, <<>>), "list" \notin Abutting => E[Len(E)].name = name
       PROVE  Takes(E, w) /\ Shape(After(E, w), s, x)
  <2>1. TopKind(E) = "dtdattlist" /\ E \in Stacks
    BY <1>16, SoundFacts
  <2>2. TakesWrite(E, w)
    BY <1>14, <1>16, <2>1 DEF TakesWrite
  <2>3. PICK F : F = After(E, w)
    OBVIOUS
  <2>4. E # <<>>
    BY <2>1 DEF TopKind
  <2>5. Takes(E, w) /\ Sound(F, o, 1, 1, <<>>) /\ F[Len(F)].name = E[Len(E)].name
    BY <1>16, <2>2, <2>3, <2>4, WriteFits
  <2>6. Shape(F, s, x)
    BY <1>4, <1>10, <1>11, <1>12, <1>16, <2>5, ShapeIs
  <2> QED BY <2>3, <2>5, <2>6
<1>17. Sound(D, DocBit(src, ctx), DtdBit(src), ListBit(ctx), src.open)
       /\ (ctx.in_attlist /\ "list" \notin Abutting => D[Len(D)].name = src.list)
  BY DEF Shape
<1>18. CASE ctx.in_attlist
  <2>1. DtdBit(src) = 1 /\ ListBit(ctx) = 1
    BY <1>3, <1>18 DEF DtdBit, ListBit
  <2>2. Sound(D, o, 1, 1, <<>>) /\ ("list" \notin Abutting => D[Len(D)].name = name)
    BY <1>2, <1>3, <1>5, <1>17, <1>18, <2>1
  <2>3. script' = <<w>>
    BY <1>1, <1>13, <1>18, Singles
  <2> QED BY <1>15, <1>16, <2>2, <2>3, OneLeads
<1>19. CASE ~ctx.in_attlist
  <2>1. DtdBit(src) = 1 /\ ListBit(ctx) = 0
    BY <1>3, <1>19 DEF DtdBit, ListBit
  <2>2. Sound(D, o, 1, 0, <<>>)
    BY <1>3, <1>5, <1>17, <2>1
  <2>3. PICK c : c = Command("start", "dtdattlist", name, Nameless)
    OBVIOUS
  <2>4. c.action = "start" /\ c.kind = "dtdattlist" /\ c.name = name
    BY <2>3, CommandIs
  <2>5. PICK E : E = After(D, c)
    OBVIOUS
  <2>6. Takes(D, c) /\ Sound(E, o, 1, 1, <<>>) /\ E[Len(E)].name = name
    BY <2>2, <2>4, <2>5, TakeList
  <2>7. script' = <<c, w>>
    BY <1>1, <1>13, <1>19, <2>3, Singles
  <2>8. PICK F : F = After(E, w)
    OBVIOUS
  <2>9. Takes(E, w) /\ Shape(F, s, x)
    BY <1>16, <2>6, <2>8
  <2> QED BY <1>15, <2>5, <2>6, <2>7, <2>8, <2>9, TwoLead
<1> QED BY <1>18, <1>19

(* The declarations end a list. *)
LEMMA DeclarationLeads ==
  ASSUME NEW D, Shape(D, src, ctx), NEW kind \in {"dtdelem", "dtdentity", "notation"}, Declaration(kind)
  PROVE  Leads(D, script', src', ctx')
<1>1. PICK c : c = Plain("write", kind)
  OBVIOUS
<1>2. PICK cs : cs = <<c>>
  OBVIOUS
<1>3. src.part = "dtd" /\ src' = Declared /\ Emit(cs)
  BY <1>1, <1>2 DEF Declaration, MayFollow, InSubset
<1>4. c.action = "write" /\ c.kind \in {"raw", "dtdelem", "dtdentity", "notation"}
  BY <1>1, PlainIs
<1> QED BY <1>2, <1>3, <1>4, SubsetEmits

(* What the default handler passes on in a subset. *)
LEMMA SubsetDefaultLeads ==
  ASSUME NEW D, Shape(D, src, ctx), SubsetDefault
  PROVE  Leads(D, script', src', ctx')
<1>1. PICK c : c = Plain("write", "raw")
  OBVIOUS
<1>2. PICK blank \in BOOLEAN : src' = Declared /\ Emit(IF blank /\ ctx.strip_ws THEN <<>> ELSE <<c>>)
  BY <1>1 DEF SubsetDefault
<1>3. PICK cs : cs = IF blank /\ ctx.strip_ws THEN <<>> ELSE <<c>>
  OBVIOUS
<1>4. src.part = "dtd" /\ src' = Declared /\ Emit(cs)
  BY <1>2, <1>3 DEF SubsetDefault, InSubset
<1>5. c.action = "write" /\ c.kind \in {"raw", "dtdelem", "dtdentity", "notation"}
  BY <1>1, PlainIs
<1>6. cs = <<>> \/ cs = <<c>>
  BY <1>3
<1> QED BY <1>4, <1>5, <1>6, SubsetEmits

-----------------------------------------------------------------------------
(* What is written where it stands. *)

(* No comment and no instruction abuts a list of attributes. *)
Spaced == Abutting \cap {"comment", "pi"} = {}

(* A command that is written where nothing else changes. *)
LEMMA WriteLeads ==
  ASSUME NEW D, NEW s, NEW x, Shape(D, s, x), NEW c, TakesWrite(D, c), NEW u \in Sources, NEW y \in Contexts,
         DocBit(u, y) = DocBit(s, x), DtdBit(u) = DtdBit(s), y.in_attlist <=> x.in_attlist, u.open = s.open,
         ~x.in_attlist, u.part = "content" <=> s.part = "content",
         u.cdata => u.part = "content", u.part = "start" => ~y.doc, NEW t, t = <<c>>
  PROVE  Leads(D, t, u, y)
<1>1. PICK F : F = After(D, c)
  OBVIOUS
<1>2. Takes(D, c) /\ Shape(F, s, x)
  BY <1>1, WriteShape
<1>3. Shape(F, u, y)
  BY <1>2, SameShape
<1> QED BY <1>1, <1>2, <1>3, OneLeads

(* The start of the document is over. *)
LEMMA PastIs ==
  ASSUME NEW part \in Parts, part # "dtd"
  PROVE  /\ Past(part) \in Parts /\ Past(part) # "start" /\ Past(part) # "dtd"
         /\ (Past(part) = "content" <=> part = "content") /\ (Past(part) = "end" <=> part = "end")
BY DEF Past, Parts

(* Where a piece of the document may stand, by its part. *)
LEMMA OpenThere ==
  ASSUME NEW D, NEW s, NEW x, Shape(D, s, x), ~x.in_attlist
  PROVE  /\ Len(D) < MaxDepth
         /\ s.part \in {"start", "prolog", "epilog"} => TopKind(D) \in {"none", "doc"}
         /\ s.part = "content" => TopKind(D) = "elem"
         /\ s.part = "dtd" => TopKind(D) = "dtd"
BY ShapeFacts

(* Nothing but the start is over then. *)
LEMMA PassedFacts ==
  ASSUME NEW s \in Sources, s.part # "dtd", NEW u, u = [s EXCEPT !.part = Past(s.part)], NEW x
  PROVE  /\ u \in Sources /\ u.open = s.open /\ (u.cdata <=> s.cdata)
         /\ (u.part = "content" <=> s.part = "content") /\ u.part # "start"
         /\ DocBit(u, x) = DocBit(s, x) /\ DtdBit(u) = DtdBit(s)
<1>1. s.part \in Parts
  BY DEF Sources
<1>2. PICK p : p = Past(s.part)
  OBVIOUS
<1>3. p \in Parts /\ p # "start" /\ p # "dtd" /\ (p = "content" <=> s.part = "content")
      /\ (p = "end" <=> s.part = "end")
  BY <1>1, <1>2, PastIs
<1>4. u \in Sources /\ u.open = s.open /\ (u.cdata <=> s.cdata) /\ u.part = p
  BY <1>2, <1>3 DEF Sources
<1> QED BY <1>3, <1>4 DEF DocBit, DtdBit

(* What the default handler passes on elsewhere. *)
LEMMA DefaultLeads ==
  ASSUME NEW D, Shape(D, src, ctx), Default
  PROVE  Leads(D, script', src', ctx')
<1>1. PICK c : c = Plain("write", "raw")
  OBVIOUS
<1>2. PICK blank \in BOOLEAN :
        /\ src' = [src EXCEPT !.part = Past(src.part)] /\ Emit(IF blank /\ ctx.strip_ws THEN <<>> ELSE <<c>>)
  BY <1>1 DEF Default
<1>3. src.part \in {"start", "prolog", "epilog", "content"}
  BY DEF Default, InMisc, InContent
<1>4. src \in Sources /\ ctx \in Contexts /\ ~ctx.in_attlist /\ (src.cdata => src.part = "content")
  BY <1>3, Outside
<1>5. PICK s : s = [src EXCEPT !.part = Past(src.part)]
  OBVIOUS
<1>6. PICK x : x = NoLists
  OBVIOUS
<1>7. /\ s \in Sources /\ s.open = src.open /\ (s.cdata <=> src.cdata)
      /\ (s.part = "content" <=> src.part = "content") /\ s.part # "start"
      /\ DocBit(s, ctx) = DocBit(src, ctx) /\ DtdBit(s) = DtdBit(src)
  <2>1. src.part # "dtd" /\ src \in Sources /\ s = [src EXCEPT !.part = Past(src.part)]
    BY <1>3, <1>4, <1>5
  <2> QED BY <2>1, PassedFacts
<1>8. x \in Contexts /\ (x.doc <=> ctx.doc) /\ ~x.in_attlist
  BY <1>4, <1>6, NoListsFacts
<1>9. DocBit(s, x) = DocBit(src, ctx)
  BY <1>7, <1>8 DEF DocBit
<1>10. src' = s /\ ctx' = x /\ script' = IF blank /\ ctx.strip_ws THEN <<>> ELSE <<c>>
  BY <1>2, <1>4, <1>5, <1>6 DEF Emit, NoLists
<1>11. CASE script' = <<>>
  <2>1. Shape(D, s, x)
    BY <1>4, <1>7, <1>8, <1>9, SameShape
  <2> QED BY <1>10, <1>11, <2>1 DEF Leads
<1>12. CASE script' = <<c>>
  <2>1. TakesWrite(D, c)
    BY <1>1, PlainIs DEF TakesWrite
  <2> QED BY <1>4, <1>7, <1>8, <1>9, <1>10, <1>12, <2>1, WriteLeads
<1> QED BY <1>10, <1>11, <1>12

(* Comments and instructions, in the subset too, where no list is open. *)
LEMMA PieceLeads ==
  ASSUME NEW D, Shape(D, src, ctx), Spaced, NEW kind \in {"comment", "pi"}, InMisc \/ InContent \/ MayFollow(kind),
         src' = [Declared EXCEPT !.part = Past(src.part)], script' = <<Plain("write", kind)>>, ctx' = ctx
  PROVE  Leads(D, script', src', ctx')
<1>1. PICK c : c = Plain("write", kind)
  OBVIOUS
<1>2. src \in Sources /\ ctx \in Contexts
  BY ShapeFacts
<1>3. ~ctx.in_attlist /\ src.part \in {"start", "prolog", "epilog", "content", "dtd"}
  <2>1. CASE InMisc \/ InContent
    <3>1. src.part \in {"start", "prolog", "epilog", "content"}
      BY <2>1 DEF InMisc, InContent
    <3> QED BY <3>1, Outside
  <2>2. CASE MayFollow(kind)
    <3>1. src.part = "dtd" /\ ~src.near
      BY <2>2 DEF MayFollow, InSubset, Spaced
    <3> QED BY <3>1, ShapeFacts
  <2> QED BY <2>1, <2>2
<1>4. PICK d : d = Declared
  OBVIOUS
<1>5. d \in Sources /\ d.part = src.part /\ d.open = src.open /\ (d.cdata <=> src.cdata)
  BY <1>2, <1>4, DeclaredFacts
<1>6. PICK s : s = [d EXCEPT !.part = Past(src.part)]
  OBVIOUS
<1>7. /\ s \in Sources /\ s.open = src.open /\ (s.cdata <=> src.cdata)
      /\ (s.part = "content" <=> src.part = "content") /\ s.part # "start"
      /\ DocBit(s, ctx) = DocBit(src, ctx) /\ DtdBit(s) = DtdBit(src)
  <2>1. PICK p : p = Past(src.part)
    OBVIOUS
  <2>2. /\ p \in Parts /\ p # "start" /\ (p = "dtd" <=> src.part = "dtd") /\ (p = "content" <=> src.part = "content")
        /\ (p = "end" <=> src.part = "end")
    BY <1>3, <2>1 DEF Past, Parts
  <2>3. s \in Sources /\ s.open = d.open /\ (s.cdata <=> d.cdata) /\ s.part = p
    BY <1>5, <1>6, <2>1, <2>2 DEF Sources
  <2> QED BY <1>5, <2>2, <2>3 DEF DocBit, DtdBit
<1>8. c.action = "write" /\ c.kind = kind
  BY <1>1, PlainIs
<1>9. Len(D) < MaxDepth /\ TopKind(D) \in {"none", "doc", "elem", "dtd"}
  BY <1>3, OpenThere
<1>10. TakesWrite(D, c)
  BY <1>8, <1>9 DEF TakesWrite, Parents
<1>11. src.cdata => src.part = "content"
  BY DEF Shape
<1>12. src' = s /\ script' = <<c>>
  BY <1>1, <1>4, <1>6
<1> QED BY <1>2, <1>3, <1>7, <1>10, <1>11, <1>12, WriteLeads

(* xml_character_data. *)
LEMMA CharacterDataLeads ==
  ASSUME NEW D, Shape(D, src, ctx), CharacterData
  PROVE  Leads(D, script', src', ctx')
<1>1. PICK c : c = Plain("write", "text")
  OBVIOUS
<1>2. PICK cs : cs = <<c>>
  OBVIOUS
<1>3. script = <<>> /\ src.part = "content" /\ src' = src
      /\ ((ctx' = ctx /\ script' = script) \/ Emit(cs))
  BY <1>1, <1>2 DEF CharacterData
<1>4. src \in Sources /\ ctx \in Contexts /\ ~ctx.in_attlist /\ (src.cdata => src.part = "content")
  BY <1>3, Outside
<1>5. PICK x : x = NoLists
  OBVIOUS
<1>6. x \in Contexts /\ (x.doc <=> ctx.doc) /\ ~x.in_attlist
  BY <1>4, <1>5, NoListsFacts
<1>7. CASE ctx' = ctx /\ script' = script
  BY <1>3, <1>7 DEF Leads
<1>8. CASE Emit(cs)
  <2>1. ctx' = x /\ script' = <<c>>
    BY <1>2, <1>4, <1>5, <1>8 DEF Emit, NoLists
  <2>2. DocBit(src, x) = DocBit(src, ctx)
    BY <1>6 DEF DocBit
  <2>3. TopKind(D) = "elem"
    BY <1>3, <1>4, OpenThere
  <2>4. TakesWrite(D, c)
    BY <1>1, <2>3, PlainIs DEF TakesWrite
  <2> QED BY <1>3, <1>4, <1>6, <2>1, <2>2, <2>4, WriteLeads
<1> QED BY <1>3, <1>7, <1>8

(* xml_cdata_start emits nothing. *)
LEMMA CDataStartLeads ==
  ASSUME NEW D, Shape(D, src, ctx), CDataStart
  PROVE  Leads(D, script', src', ctx')
<1>1. /\ script = <<>> /\ src.part = "content" /\ script' = script
      /\ src' = [src EXCEPT !.cdata = TRUE] /\ ctx' = [ctx EXCEPT !.collect = TRUE]
  BY DEF CDataStart, InContent, Reading
<1>2. src \in Sources /\ ctx \in Contexts /\ ~ctx.in_attlist
  BY <1>1, Outside
<1>3. PICK s : s = [src EXCEPT !.cdata = TRUE]
  OBVIOUS
<1>4. PICK x : x = [ctx EXCEPT !.collect = TRUE]
  OBVIOUS
<1>5. s \in Sources /\ s.part = src.part /\ s.open = src.open
  BY <1>2, <1>3 DEF Sources
<1>6. x \in Contexts /\ (x.doc <=> ctx.doc) /\ (x.in_attlist <=> ctx.in_attlist)
  BY <1>2, <1>4 DEF Contexts
<1>7. DocBit(s, x) = DocBit(src, ctx) /\ DtdBit(s) = DtdBit(src)
  BY <1>5, <1>6, BitsSame
<1>8. Shape(D, s, x)
  BY <1>1, <1>2, <1>5, <1>6, <1>7, SameShape
<1> QED BY <1>1, <1>3, <1>4, <1>8 DEF Leads

(* xml_cdata_end writes the whole section. *)
LEMMA CDataEndLeads ==
  ASSUME NEW D, Shape(D, src, ctx), CDataEnd
  PROVE  Leads(D, script', src', ctx')
<1>1. PICK c : c = Plain("write", "cdata")
  OBVIOUS
<1>2. /\ src.cdata /\ script' = <<c>>
      /\ src' = [src EXCEPT !.cdata = FALSE] /\ ctx' = [ctx EXCEPT !.collect = FALSE]
  BY <1>1 DEF CDataEnd
<1>3. src.part = "content"
  BY <1>2 DEF Shape
<1>4. src \in Sources /\ ctx \in Contexts /\ ~ctx.in_attlist
  BY <1>3, Outside
<1>5. PICK s : s = [src EXCEPT !.cdata = FALSE]
  OBVIOUS
<1>6. PICK x : x = [ctx EXCEPT !.collect = FALSE]
  OBVIOUS
<1>7. s \in Sources /\ s.part = src.part /\ s.open = src.open
  BY <1>4, <1>5 DEF Sources
<1>8. x \in Contexts /\ (x.doc <=> ctx.doc) /\ (x.in_attlist <=> ctx.in_attlist)
  BY <1>4, <1>6 DEF Contexts
<1>9. DocBit(s, x) = DocBit(src, ctx) /\ DtdBit(s) = DtdBit(src)
  BY <1>7, <1>8, BitsSame
<1>10. TopKind(D) = "elem" /\ Len(D) < MaxDepth
  BY <1>3, <1>4, OpenThere
<1>11. TakesWrite(D, c)
  BY <1>1, <1>10, PlainIs DEF TakesWrite
<1> QED BY <1>2, <1>3, <1>4, <1>5, <1>6, <1>7, <1>8, <1>9, <1>11, WriteLeads

(* xml_elem_start starts an element in what is open. *)
LEMMA ElemStartLeads ==
  ASSUME NEW D, Shape(D, src, ctx), ElemStart
  PROVE  Leads(D, script', src', ctx')
<1>1. PICK w : w = Plain("write", "attr")
  OBVIOUS
<1>2. PICK name \in ElemNames, attrs \in BOOLEAN :
        /\ src' = [src EXCEPT !.part = "content", !.open = Append(src.open, name)] /\ ctx' = ctx
        /\ script' = <<Command("start", "elem", name, Nameless)>> \o IF attrs THEN <<w>> ELSE <<>>
  BY <1>1 DEF ElemStart
<1>3. src.part \in {"start", "prolog", "content"} /\ Len(src.open) < MaxOpen /\ ~src.cdata
  BY DEF ElemStart, Reading
<1>4. PICK o : o = DocBit(src, ctx)
  OBVIOUS
<1>5. PICK open : open = src.open
  OBVIOUS
<1>6. /\ src \in Sources /\ ctx \in Contexts /\ ~ctx.in_attlist /\ Sound(D, o, 0, 0, open)
      /\ DtdBit(src) = 0 /\ ListBit(ctx) = 0
  BY <1>3, <1>4, <1>5, Outside
<1>7. open \in Seq(ElemNames)
  BY <1>6, SoundFacts
<1>8. PICK q : q = Append(open, name)
  OBVIOUS
<1>9. q \in Seq(ElemNames) /\ q # <<>>
  BY <1>7, <1>8
<1>10. PICK s : s = [src EXCEPT !.part = "content", !.open = q]
  OBVIOUS
<1>11. s \in Sources /\ s.part = "content" /\ s.open = q
  BY <1>6, <1>9, <1>10 DEF Sources, Parts
<1>12. PICK c : c = Command("start", "elem", name, Nameless)
  OBVIOUS
<1>13. c.action = "start" /\ c.kind = "elem" /\ c.name = name
  BY <1>12, CommandIs
<1>14. PICK F : F = After(D, c)
  OBVIOUS
<1>15. Takes(D, c) /\ Sound(F, o, 0, 0, q) /\ TopKind(F) = "elem" /\ ~F[Len(F)].begun
  BY <1>3, <1>5, <1>6, <1>8, <1>13, <1>14, TakeElem
<1>16. DocBit(s, ctx) = o /\ DtdBit(s) = 0 /\ ListBit(ctx) = 0
  BY <1>3, <1>4, <1>6, <1>11 DEF DocBit, DtdBit
<1>17. Shape(F, s, ctx)
  BY <1>6, <1>9, <1>11, <1>15, <1>16, ShapeIs
<1>18. src' = s
  BY <1>2, <1>5, <1>8, <1>10
<1>19. CASE attrs
  <2>1. script' = <<c, w>>
    BY <1>2, <1>12, <1>19, Singles
  <2>2. TakesWrite(F, w)
    BY <1>1, <1>15, PlainIs DEF TakesWrite
  <2>3. PICK G : G = After(F, w)
    OBVIOUS
  <2>4. Takes(F, w) /\ Shape(G, s, ctx)
    BY <1>17, <2>2, <2>3, WriteShape
  <2> QED BY <1>2, <1>14, <1>15, <1>18, <2>1, <2>3, <2>4, TwoLead
<1>20. CASE ~attrs
  <2>1. script' = <<c>>
    BY <1>2, <1>12, <1>20, Singles
  <2> QED BY <1>2, <1>14, <1>15, <1>17, <1>18, <2>1, OneLeads
<1> QED BY <1>19, <1>20

(* xml_elem_end ends the innermost. *)
LEMMA ElemEndLeads ==
  ASSUME NEW D, Shape(D, src, ctx), ElemEnd
  PROVE  Leads(D, script', src', ctx')
<1>1. PICK c : c = Plain("end", "elem")
  OBVIOUS
<1>2. /\ src.part = "content" /\ ~src.cdata /\ ctx' = ctx /\ script' = <<c>>
      /\ src' = [src EXCEPT !.open = Front(src.open), !.part = IF Len(src.open) = 1 THEN "epilog" ELSE src.part]
  BY <1>1 DEF ElemEnd, InContent, Reading
<1>3. PICK o : o = DocBit(src, ctx)
  OBVIOUS
<1>4. PICK open : open = src.open
  OBVIOUS
<1>5. src \in Sources /\ ctx \in Contexts /\ ~ctx.in_attlist /\ Sound(D, o, 0, 0, open) /\ ListBit(ctx) = 0
  BY <1>2, <1>3, <1>4, Outside
<1>6. open # <<>> /\ open \in Seq(ElemNames)
  BY <1>2, <1>4, <1>5, ShapeFacts, SoundFacts
<1>7. PICK q : q = Front(open)
  OBVIOUS
<1>8. q \in Seq(ElemNames) /\ (Len(open) = 1 <=> q = <<>>)
  <2>1. q = SubSeq(open, 1, Len(open) - 1)
    BY <1>7 DEF Front
  <2>2. q \in Seq(ElemNames) /\ Len(q) = Len(open) - 1
    BY <1>6, <2>1, LastDropped
  <2>3. Len(open) \in Nat /\ (q = <<>> <=> Len(q) = 0)
    BY <1>6, <2>2, LenProperties, EmptySeq
  <2> QED BY <2>2, <2>3
<1>9. PICK part : part = IF q = <<>> THEN "epilog" ELSE "content"
  OBVIOUS
<1>10. PICK s : s = [src EXCEPT !.open = q, !.part = part]
  OBVIOUS
<1>11. s \in Sources /\ s.part = part /\ s.open = q /\ (s.cdata <=> src.cdata)
  BY <1>5, <1>8, <1>9, <1>10 DEF Sources, Parts
<1>12. c.action = "end" /\ c.kind = "elem"
  BY <1>1, PlainIs
<1>13. PICK F : F = After(D, c)
  OBVIOUS
<1>14. Takes(D, c) /\ Sound(F, o, 0, 0, q)
  BY <1>5, <1>6, <1>7, <1>12, <1>13, TakeEndElem
<1>15. DocBit(s, ctx) = o /\ DtdBit(s) = 0
  BY <1>2, <1>3, <1>9, <1>11 DEF DocBit, DtdBit
<1>16. Shape(F, s, ctx)
  BY <1>2, <1>5, <1>9, <1>11, <1>14, <1>15, ShapeIs
<1>17. src' = s
  BY <1>2, <1>4, <1>7, <1>8, <1>9, <1>10
<1> QED BY <1>2, <1>13, <1>14, <1>16, <1>17, OneLeads

(* The end of the document. *)
LEMMA FinishLeads ==
  ASSUME NEW D, Shape(D, src, ctx), Finish
  PROVE  Leads(D, script', src', ctx')
<1>1. PICK c : c = Plain("end", "doc")
  OBVIOUS
<1>2. /\ src.part = "epilog" /\ ~src.cdata /\ ctx' = ctx /\ src' = [src EXCEPT !.part = "end"]
      /\ script' = (IF ctx.doc THEN <<c>> ELSE <<>>)
  BY <1>1 DEF Finish, Reading
<1>3. src \in Sources /\ ctx \in Contexts /\ ~ctx.in_attlist /\ Sound(D, DocBit(src, ctx), 0, 0, src.open)
      /\ ListBit(ctx) = 0
  BY <1>2, Outside
<1>4. src.open = <<>> /\ DocBit(src, ctx) = (IF ctx.doc THEN 1 ELSE 0)
  BY <1>2, ShapeFacts DEF DocBit
<1>5. PICK s : s = [src EXCEPT !.part = "end"]
  OBVIOUS
<1>6. s \in Sources /\ s.part = "end" /\ s.open = src.open /\ (s.cdata <=> src.cdata)
  BY <1>3, <1>5 DEF Sources, Parts
<1>7. DocBit(s, ctx) = 0 /\ DtdBit(s) = 0
  BY <1>6 DEF DocBit, DtdBit
<1>8. ASSUME NEW F, Sound(F, 0, 0, 0, <<>>) PROVE Shape(F, s, ctx)
  BY <1>2, <1>3, <1>4, <1>6, <1>7, <1>8, ShapeIs
<1>9. CASE ctx.doc
  <2>1. c.action = "end" /\ c.kind = "doc"
    BY <1>1, PlainIs
  <2>2. Sound(D, 1, 0, 0, <<>>)
    BY <1>3, <1>4, <1>9
  <2>3. PICK F : F = After(D, c)
    OBVIOUS
  <2>4. Takes(D, c) /\ Sound(F, 0, 0, 0, <<>>)
    BY <2>1, <2>2, <2>3, TakeEndDoc
  <2>5. Shape(F, s, ctx)
    BY <1>8, <2>4
  <2> QED BY <1>2, <1>5, <1>9, <2>3, <2>4, <2>5, OneLeads
<1>10. CASE ~ctx.doc
  <2>1. Shape(D, s, ctx)
    BY <1>3, <1>4, <1>8, <1>10
  <2> QED BY <1>2, <1>5, <1>10, <2>1 DEF Leads
<1> QED BY <1>9, <1>10

(* expat reads on when all commands are played. *)
LEMMA HandlerWaits == Handler => script = <<>>
BY DEF Handler, XmlDecl, DoctypeStart, DoctypeEnd, EntityDecl, Notation, ElementDecl, Declaration, AttlistDecl,
       SubsetDefault, Default, Comment, PI, ElemStart, ElemEnd, CharacterData, CDataStart, CDataEnd, Finish,
       MayFollow, InMisc, InContent, InSubset, Reading

(* What a handler emits, the players take, and it leads where it says. *)
LEMMA HandlerLeads ==
  ASSUME NEW D, Shape(D, src, ctx), Spaced, Handler
  PROVE  Leads(D, script', src', ctx')
<1>2. CASE EntityDecl \/ Notation \/ ElementDecl
  <2>1. PICK kind \in {"dtdelem", "dtdentity", "notation"} : Declaration(kind)
    BY <1>2 DEF EntityDecl, Notation, ElementDecl
  <2> QED BY <2>1, DeclarationLeads
<1>3. CASE Comment \/ PI
  <2>1. PICK kind \in {"comment", "pi"} :
          /\ InMisc \/ InContent \/ MayFollow(kind)
          /\ src' = [Declared EXCEPT !.part = Past(src.part)] /\ script' = <<Plain("write", kind)>> /\ ctx' = ctx
    BY <1>3 DEF Comment, PI
  <2> HIDE DEF Spaced
  <2> QED BY <2>1, PieceLeads
<1> QED
  BY <1>2, <1>3, XmlDeclLeads, DoctypeStartLeads, DoctypeEndLeads, AttlistDeclLeads, SubsetDefaultLeads,
     DefaultLeads, ElemStartLeads, ElemEndLeads, CharacterDataLeads, CDataStartLeads, CDataEndLeads, FinishLeads
  DEF Handler

-----------------------------------------------------------------------------
(* What is open, told by its name or its kind. *)

(* An element is told by its name, all else by its kind. *)
Show(x) == IF x.kind = "elem" THEN x.name ELSE x.kind

Labels == ElemNames \cup {Nameless} \cup OpenKinds

(* An item is told as the reader tells its cell. *)
LEMMA ShowFacts ==
  ASSUME NEW x \in Items
  PROVE  Show(x) \in Labels /\ CellOf(x).kind = x.kind /\ CellOf(x).name = x.name
<1>1. Show(x) \in Labels
  BY DEF Show, Labels, Items
<1>2. /\ Tagged(x.kind, x.name).kind = x.kind /\ Tagged(x.kind, x.name).name = x.name
      /\ Bare(x.kind, x.name).kind = x.kind /\ Bare(x.kind, x.name).name = x.name
  BY DEF Tagged, Bare
<1>3. CellOf(x) = Tagged(x.kind, x.name) \/ CellOf(x) = Bare(x.kind, x.name)
  BY DEF CellOf
<1> QED BY <1>1, <1>2, <1>3

(* What is open in the output is the stack. *)
LEMMA OutputIs ==
  ASSUME NEW D \in Stacks, run.w.rd = ReaderOf(D), NEW t, t = OpenInOutput
  PROVE  t \in Seq(Labels) /\ Len(t) = Len(D) /\ \A i \in 1 .. Len(D) : t[i] = Show(D[i])
<1> DEFINE n == Len(D)
<1>1. /\ n \in Nat /\ n <= MaxDepth /\ MaxDepth \in Nat
      /\ ReaderOf(D).top = n - 1 /\ ReaderOf(D).cell = CellsOf(D)
  BY Facts
<1>2. \A i \in 1 .. n : D[i] \in Items
  BY ElementOfSeq DEF Stacks
<1>3. \A i \in 1 .. n : CellsOf(D)[i - 1] = CellOf(D[i])
  BY <1>1 DEF CellsOf
<1> HIDE DEF n
<1>4. (n - 1) + 1 = n
  BY <1>1
<1>5. t = [i \in 1 .. n |-> IF CellsOf(D)[i - 1].kind = "elem" THEN CellsOf(D)[i - 1].name
      ELSE CellsOf(D)[i - 1].kind]
  BY <1>1, <1>4 DEF OpenInOutput
<1>6. t = [i \in 1 .. n |-> Show(D[i])]
  BY <1>2, <1>3, <1>5, ShowFacts DEF Show
<1>7. \A i \in 1 .. n : Show(D[i]) \in Labels
  BY <1>2, ShowFacts
<1>8. t \in [1 .. n -> Labels]
  BY <1>6, <1>7
<1>9. t \in Seq(Labels) /\ Len(t) = n
  BY <1>1, <1>8, SeqDef
<1> QED BY <1>6, <1>9 DEF n

(* Four sequences, end to end. *)
LEMMA FourParts ==
  ASSUME NEW S, NEW A \in Seq(S), NEW B \in Seq(S), NEW L \in Seq(S), NEW O \in Seq(S),
         NEW u, u = A \o B \o L \o O
  PROVE  /\ u \in Seq(S) /\ Len(u) = Len(A) + Len(B) + Len(L) + Len(O)
         /\ Len(A) \in Nat /\ Len(B) \in Nat /\ Len(L) \in Nat /\ Len(O) \in Nat
         /\ \A i \in 1 .. Len(A) : u[i] = A[i]
         /\ \A i \in 1 .. Len(B) : u[Len(A) + i] = B[i]
         /\ \A i \in 1 .. Len(L) : u[Len(A) + Len(B) + i] = L[i]
         /\ \A i \in 1 .. Len(O) : u[Len(A) + Len(B) + Len(L) + i] = O[i]
<1>1. PICK a, b, l, o : a = Len(A) /\ b = Len(B) /\ l = Len(L) /\ o = Len(O)
  OBVIOUS
<1>2. a \in Nat /\ b \in Nat /\ l \in Nat /\ o \in Nat
  BY <1>1, LenProperties
<1>3. PICK p : p = A \o B
  OBVIOUS
<1>4. p \in Seq(S) /\ Len(p) = a + b /\ \A i \in 1 .. a + b : p[i] = IF i <= a THEN A[i] ELSE B[i - a]
  BY <1>1, <1>3, ConcatProperties
<1>5. PICK q : q = p \o L
  OBVIOUS
<1>6. q \in Seq(S) /\ Len(q) = a + b + l
      /\ \A i \in 1 .. a + b + l : q[i] = IF i <= a + b THEN p[i] ELSE L[i - (a + b)]
  <2>1. PICK k : k = a + b
    OBVIOUS
  <2>2. p \in Seq(S) /\ Len(p) = k
    BY <1>4, <2>1
  <2>3. q \in Seq(S) /\ Len(q) = k + l /\ \A i \in 1 .. k + l : q[i] = IF i <= k THEN p[i] ELSE L[i - k]
    BY <1>1, <1>5, <2>2, ConcatProperties
  <2> QED BY <2>1, <2>3
<1>7. u = q \o O
  BY <1>3, <1>5
<1>8. u \in Seq(S) /\ Len(u) = a + b + l + o
      /\ \A i \in 1 .. a + b + l + o : u[i] = IF i <= a + b + l THEN q[i] ELSE O[i - (a + b + l)]
  BY <1>1, <1>6, <1>7, ConcatProperties
<1>9. \A i \in 1 .. a : u[i] = A[i]
  <2> TAKE i \in 1 .. a
  <2>1. i <= a /\ i <= a + b /\ i <= a + b + l /\ i \in 1 .. a + b /\ i \in 1 .. a + b + l /\ i \in 1 .. a + b + l + o
    BY <1>2
  <2> QED BY <1>4, <1>6, <1>8, <2>1
<1>10. \A i \in 1 .. b : u[a + i] = B[i]
  <2> TAKE i \in 1 .. b
  <2>1. PICK j : j = a + i
    OBVIOUS
  <2>2. j \in 1 .. a + b /\ ~(j <= a) /\ j - a = i /\ j \in 1 .. a + b + l + o /\ j \in 1 .. a + b + l
        /\ j <= a + b + l /\ j <= a + b
    BY <1>2, <2>1
  <2> QED BY <1>4, <1>6, <1>8, <2>1, <2>2
<1>11. \A i \in 1 .. l : u[a + b + i] = L[i]
  <2> TAKE i \in 1 .. l
  <2>1. PICK j : j = a + b + i
    OBVIOUS
  <2>2. j \in 1 .. a + b + l /\ ~(j <= a + b) /\ j - (a + b) = i /\ j \in 1 .. a + b + l + o /\ j <= a + b + l
    BY <1>2, <2>1
  <2> QED BY <1>6, <1>8, <2>1, <2>2
<1>12. \A i \in 1 .. o : u[a + b + l + i] = O[i]
  <2> TAKE i \in 1 .. o
  <2>1. PICK j : j = a + b + l + i
    OBVIOUS
  <2>2. ~(j <= a + b + l) /\ j - (a + b + l) = i /\ j \in 1 .. a + b + l + o
    BY <1>2, <2>1
  <2> QED BY <1>8, <2>1, <2>2
<1> QED BY <1>1, <1>2, <1>8, <1>9, <1>10, <1>11, <1>12

(* One or none. *)
LEMMA OneOrNone ==
  ASSUME NEW S, NEW x \in S, NEW b \in BOOLEAN, NEW t, t = IF b THEN <<x>> ELSE <<>>
  PROVE  t \in Seq(S) /\ Len(t) = (IF b THEN 1 ELSE 0) /\ \A i \in 1 .. Len(t) : t[i] = x /\ i = 1
OBVIOUS

(* What is open in the document is the stack. *)
LEMMA DocumentIs ==
  ASSUME NEW D, Shape(D, src, ctx), NEW u, u = OpenInDocument
  PROVE  u \in Seq(Labels) /\ Len(u) = Len(D) /\ \A i \in 1 .. Len(D) : u[i] = Show(D[i])
<1>1. PICK o : o = DocBit(src, ctx)
  OBVIOUS
<1>2. PICK p : p = DtdBit(src)
  OBVIOUS
<1>3. PICK a : a = ListBit(ctx)
  OBVIOUS
<1>4. PICK open : open = src.open
  OBVIOUS
<1>5. PICK has, in, at : has = (ctx.doc /\ src.part # "end") /\ in = (src.part = "dtd") /\ at = ctx.in_attlist
  OBVIOUS
<1>6. src \in Sources /\ ctx \in Contexts /\ Sound(D, o, p, a, open)
  BY <1>1, <1>2, <1>3, <1>4, ShapeFacts
<1>7. /\ D \in Stacks /\ o \in Bits /\ p \in Bits /\ a \in Bits /\ open \in Seq(ElemNames) /\ Fits(D, o, p, a, open)
      /\ Len(D) = o + p + a + Len(open) /\ Len(open) \in Nat
  BY <1>6, SoundFacts
<1>8. has \in BOOLEAN /\ in \in BOOLEAN /\ at \in BOOLEAN
  BY <1>5, <1>6 DEF Contexts
<1>9. o = (IF has THEN 1 ELSE 0) /\ p = (IF in THEN 1 ELSE 0) /\ a = (IF at THEN 1 ELSE 0)
  BY <1>1, <1>2, <1>3, <1>5 DEF DocBit, DtdBit, ListBit
<1>10. PICK A : A = IF has THEN <<"doc">> ELSE <<>>
  OBVIOUS
<1>11. PICK B : B = IF in THEN <<"dtd">> ELSE <<>>
  OBVIOUS
<1>12. PICK L : L = IF at THEN <<"dtdattlist">> ELSE <<>>
  OBVIOUS
<1>13. u = A \o B \o L \o open
  BY <1>4, <1>5, <1>10, <1>11, <1>12 DEF OpenInDocument
<1>14. "doc" \in Labels /\ "dtd" \in Labels /\ "dtdattlist" \in Labels
  BY DEF Labels, OpenKinds
<1>15. A \in Seq(Labels) /\ Len(A) = o /\ \A i \in 1 .. Len(A) : A[i] = "doc" /\ i = 1
  BY <1>8, <1>9, <1>10, <1>14, OneOrNone
<1>16. B \in Seq(Labels) /\ Len(B) = p /\ \A i \in 1 .. Len(B) : B[i] = "dtd" /\ i = 1
  BY <1>8, <1>9, <1>11, <1>14, OneOrNone
<1>17. L \in Seq(Labels) /\ Len(L) = a /\ \A i \in 1 .. Len(L) : L[i] = "dtdattlist" /\ i = 1
  BY <1>8, <1>9, <1>12, <1>14, OneOrNone
<1>18. open \in Seq(Labels)
  <2>1. ElemNames \subseteq Labels
    BY DEF Labels
  <2> QED BY <1>7, <2>1, SeqMonotonic
<1>19. PICK m : m = Len(open)
  OBVIOUS
<1>20. /\ u \in Seq(Labels) /\ Len(u) = o + p + a + m
       /\ \A i \in 1 .. o : u[i] = A[i]
       /\ \A i \in 1 .. p : u[o + i] = B[i]
       /\ \A i \in 1 .. a : u[o + p + i] = L[i]
       /\ \A i \in 1 .. m : u[o + p + a + i] = open[i]
  <2>1. /\ u \in Seq(Labels) /\ Len(u) = Len(A) + Len(B) + Len(L) + Len(open)
        /\ \A i \in 1 .. Len(A) : u[i] = A[i]
        /\ \A i \in 1 .. Len(B) : u[Len(A) + i] = B[i]
        /\ \A i \in 1 .. Len(L) : u[Len(A) + Len(B) + i] = L[i]
        /\ \A i \in 1 .. Len(open) : u[Len(A) + Len(B) + Len(L) + i] = open[i]
    <3>1. A \in Seq(Labels) /\ B \in Seq(Labels) /\ L \in Seq(Labels)
      BY <1>15, <1>16, <1>17
    <3> QED BY <1>13, <1>18, <3>1, FourParts
  <2> QED BY <1>15, <1>16, <1>17, <1>19, <2>1
<1>21. /\ \A i \in 1 .. Len(D) : D[i].kind = KindAt(i, o, p, a)
       /\ \A i \in 1 .. m : D[o + p + a + i].name = open[i]
  BY <1>7, <1>19 DEF Fits
<1>22. ASSUME NEW i \in 1 .. Len(D) PROVE u[i] = Show(D[i])
  <2>1. i \in Int /\ i >= 1 /\ i <= o + p + a + m /\ o \in 0 .. 1 /\ p \in 0 .. 1 /\ a \in 0 .. 1 /\ m \in Nat
    BY <1>7, <1>19 DEF Bits
  <2>2. D[i].kind = KindAt(i, o, p, a)
    BY <1>21
  <2>3. CASE i <= o
    BY <1>15, <1>20, <2>1, <2>2, <2>3 DEF KindAt, Show
  <2>4. CASE i > o /\ i <= o + p
    <3>1. PICK j : j = i - o
      OBVIOUS
    <3>2. j \in 1 .. p /\ o + j = i /\ ~(i <= o)
      BY <2>1, <2>4, <3>1
    <3> QED BY <1>16, <1>20, <2>2, <2>4, <3>2 DEF KindAt, Show
  <2>5. CASE i > o + p /\ i <= o + p + a
    <3>1. PICK j : j = i - o - p
      OBVIOUS
    <3>2. j \in 1 .. a /\ o + p + j = i /\ ~(i <= o) /\ ~(i <= o + p)
      BY <2>1, <2>5, <3>1
    <3> QED BY <1>17, <1>20, <2>2, <2>5, <3>2 DEF KindAt, Show
  <2>6. CASE i > o + p + a
    <3>1. PICK j : j = i - o - p - a
      OBVIOUS
    <3>2. j \in 1 .. m /\ o + p + a + j = i /\ ~(i <= o) /\ ~(i <= o + p) /\ ~(i <= o + p + a)
      BY <2>1, <2>6, <3>1
    <3> QED BY <1>20, <1>21, <2>2, <3>2 DEF KindAt, Show
  <2> QED BY <2>1, <2>3, <2>4, <2>5, <2>6
<1> QED BY <1>7, <1>19, <1>20, <1>22

(* So they are the same. *)
LEMMA NestingShown ==
  ASSUME NEW D, Shape(D, src, ctx), run.w.rd = ReaderOf(D)
  PROVE  run.w.rd.ok /\ OpenInOutput = OpenInDocument
<1>1. PICK t : t = OpenInOutput
  OBVIOUS
<1>2. PICK u : u = OpenInDocument
  OBVIOUS
<1>3. D \in Stacks
  BY ShapeFacts
<1>4. t \in Seq(Labels) /\ Len(t) = Len(D) /\ \A i \in 1 .. Len(D) : t[i] = Show(D[i])
  BY <1>1, <1>3, OutputIs
<1>5. u \in Seq(Labels) /\ Len(u) = Len(D) /\ \A i \in 1 .. Len(D) : u[i] = Show(D[i])
  BY <1>2, DocumentIs
<1>6. t = u
  BY <1>4, <1>5, SeqEqual
<1>7. run.w.rd.ok
  BY <1>3, Facts
<1> QED BY <1>1, <1>2, <1>6, <1>7

(* Both players keep nodes of few kinds open, the document outermost. *)
Nested(D) == \A i \in 1 .. Len(D) : D[i].kind \in {"elem", "dtd", "dtdattlist"} \/ (i = 1 /\ D[i].kind = "doc")

(* No command leaves anything else open. *)
LEMMA NestedAfter ==
  ASSUME NEW D \in Stacks, NEW c, Takes(D, c), Nested(D)
  PROVE  Nested(After(D, c))
<1>1. PICK F : F = After(D, c)
  OBVIOUS
<1>2. PICK B : B = Begun(D)
  OBVIOUS
<1>3. B \in Stacks /\ Len(B) = Len(D) /\ Len(D) \in Nat /\ \A i \in 1 .. Len(D) : B[i].kind = D[i].kind
  BY <1>2, BegunFacts, Facts
<1>4. Nested(B)
  BY <1>3 DEF Nested
<1>5. CASE TakesStart(D, c)
  <2>1. PICK x : x = Named(c.kind, c.name)
    OBVIOUS
  <2>2. x \in Items /\ Len(B) < MaxDepth
    BY <1>2, <1>5, <2>1, AfterStart
  <2>3. F = Append(B, x) /\ x.kind = c.kind /\ c.kind \in {"doc", "dtd", "dtdattlist", "elem"}
    BY <1>1, <1>2, <1>5, <2>1 DEF After, TakesStart, Named, Item
  <2>4. Len(F) = Len(B) + 1 /\ F[Len(B) + 1] = x /\ \A i \in 1 .. Len(B) : F[i] = B[i]
    BY <1>3, <2>2, <2>3, PushTop
  <2>5. c.kind = "doc" => Len(D) = 0
    <3>1. c.kind = "doc" => D = <<>>
      BY <1>5 DEF TakesStart
    <3> QED BY <3>1
  <2>6. Nested(F)
    <3> SUFFICES ASSUME NEW i \in 1 .. Len(F)
                 PROVE  F[i].kind \in {"elem", "dtd", "dtdattlist"} \/ (i = 1 /\ F[i].kind = "doc")
      BY DEF Nested
    <3>1. CASE i <= Len(B)
      <4>1. i \in 1 .. Len(B)
        BY <1>3, <2>4, <3>1
      <4> QED BY <1>4, <2>4, <4>1 DEF Nested
    <3>2. CASE i > Len(B)
      <4>1. i = Len(B) + 1
        BY <1>3, <2>4, <3>2
      <4>2. c.kind = "doc" => i = 1
        BY <1>3, <2>5, <4>1
      <4> QED BY <2>3, <2>4, <4>1, <4>2
    <3> QED BY <1>3, <2>4, <3>1, <3>2
  <2> QED BY <1>1, <2>6
<1>6. CASE TakesWrite(D, c)
  <2>1. F = D \/ F = B
    BY <1>1, <1>2, <1>6, AfterWrite
  <2> QED BY <1>1, <1>4, <2>1
<1>7. CASE TakesEnd(D, c)
  <2>1. F = Front(D) /\ D # <<>>
    BY <1>1, <1>7, AfterEnd
  <2>2. Len(F) = Len(D) - 1 /\ \A i \in 1 .. Len(D) - 1 : F[i] = D[i]
    BY <2>1, DropTop
  <2>3. \A i \in 1 .. Len(F) : i \in 1 .. Len(D) /\ F[i] = D[i]
    BY <1>3, <2>2
  <2>4. Nested(F)
    BY <2>3 DEF Nested
  <2> QED BY <1>1, <2>4
<1> QED BY <1>5, <1>6, <1>7 DEF Takes

(* What libxml2 calls an item. *)
LEMMA LibKind ==
  ASSUME NEW x \in Items, x.kind \in {"elem", "dtd", "dtdattlist"}, NEW n, n = XNode(x)
  PROVE  C!KindOf(n.state) = x.kind /\ n.name = x.name
<1>1. n.state = XState(x) /\ n.name = x.name
  BY DEF XNode
<1>2. x.kind = "elem" => XState(x) \in {"NAME", "TEXT"}
  BY DEF XState
<1>3. x.kind = "dtd" => XState(x) \in {"DTD", "DTD_TEXT"}
  BY DEF XState
<1>4. x.kind = "dtdattlist" => XState(x) \in {"ATTL", "ATTL_TEXT"}
  BY DEF XState
<1>5. C!ElemStates = {"NAME", "TEXT"} /\ C!DTDStates = {"DTD", "DTD_TEXT"} /\ C!AttlistStates = {"ATTL", "ATTL_TEXT"}
  BY DEF C!ElemStates, C!DTDStates, C!AttlistStates
<1>6. \A s : s \in {"NAME", "TEXT"} => C!KindOf(s) = "elem"
  BY <1>5 DEF C!KindOf
<1>7. \A s : s \in {"DTD", "DTD_TEXT"} => C!KindOf(s) = "dtd"
  BY <1>5 DEF C!KindOf
<1>8. \A s : s \in {"ATTL", "ATTL_TEXT"} => C!KindOf(s) = "dtdattlist"
  BY <1>5 DEF C!KindOf
<1> QED BY <1>1, <1>2, <1>3, <1>4, <1>6, <1>7, <1>8

(* Above the document there are elements, or a DTD and its list. *)
LEMMA NestedDocs ==
  ASSUME NEW D \in Stacks, Nested(D)
  PROVE  /\ Docs(D) \in {0, 1} /\ Len(D) \in Nat /\ Docs(D) <= Len(D)
         /\ Docs(D) = 1 <=> (Len(D) >= 1 /\ D[1].kind = "doc")
         /\ \A i \in Docs(D) + 1 .. Len(D) : D[i] \in Items /\ D[i].kind \in {"elem", "dtd", "dtdattlist"}
<1>1. Len(D) \in Nat /\ (D = <<>> <=> Len(D) = 0)
  BY Facts
<1>2. \A i \in 1 .. Len(D) : D[i] \in Items
  BY ElementOfSeq DEF Stacks
<1>3. Docs(D) \in {0, 1} /\ (Docs(D) = 1 <=> (Len(D) >= 1 /\ D[1].kind = "doc"))
  BY <1>1 DEF Docs
<1>4. ASSUME NEW i \in Docs(D) + 1 .. Len(D) PROVE D[i] \in Items /\ D[i].kind \in {"elem", "dtd", "dtdattlist"}
  <2>1. i \in 1 .. Len(D) /\ (i = 1 => Docs(D) = 0)
    BY <1>1, <1>3
  <2>2. D[i] \in Items /\ (D[i].kind \in {"elem", "dtd", "dtdattlist"} \/ (i = 1 /\ D[i].kind = "doc"))
    BY <1>2, <2>1 DEF Nested
  <2> QED BY <1>1, <1>3, <2>1, <2>2
<1> QED BY <1>1, <1>3, <1>4

(* What libxml2 has open is the stack without the document. *)
LEMMA LibShown ==
  ASSUME NEW D \in Stacks, Nested(D), NEW d, d.xml = LibOf(D), NEW t, t = C!OpenNodes(d)
  PROVE  /\ t \in Seq(Labels) /\ Len(t) = Len(D) - Docs(D)
         /\ \A i \in 1 .. Len(D) - Docs(D) : t[i] = Show(D[i + Docs(D)])
<1>1. PICK X : X = XNodes(D)
  OBVIOUS
<1>2. PICK n : n = Len(X)
  OBVIOUS
<1>3. PICK k : k = Docs(D)
  OBVIOUS
<1>4. d.xml.nodes = X
  BY <1>1, LibFields DEF LibOf
<1>5. /\ Len(D) \in Nat /\ k \in {0, 1} /\ k <= Len(D) /\ n = Len(D) - k
      /\ \A i \in 1 .. n : X[i] = XNode(D[Len(D) + 1 - i])
  BY <1>1, <1>2, <1>3, XNodesFacts, NestedDocs
<1>6. \A i \in k + 1 .. Len(D) : D[i] \in Items /\ D[i].kind \in {"elem", "dtd", "dtdattlist"}
  BY <1>3, NestedDocs
<1>7. t = [i \in 1 .. n |-> IF C!KindOf(X[n + 1 - i].state) = "elem" THEN X[n + 1 - i].name
                            ELSE C!KindOf(X[n + 1 - i].state)]
  BY <1>2, <1>4 DEF C!OpenNodes
<1>8. ASSUME NEW i \in 1 .. n
      PROVE  D[i + k] \in Items /\ t[i] = Show(D[i + k])
  <2>1. i + k \in k + 1 .. Len(D) /\ n + 1 - i \in 1 .. n /\ Len(D) + 1 - (n + 1 - i) = i + k
    BY <1>5
  <2>2. PICK x : x = D[i + k]
    OBVIOUS
  <2>3. PICK y : y = X[n + 1 - i]
    OBVIOUS
  <2>4. x \in Items /\ x.kind \in {"elem", "dtd", "dtdattlist"}
    BY <1>6, <2>1, <2>2
  <2>5. y = XNode(x)
    BY <1>5, <2>1, <2>2, <2>3
  <2>6. C!KindOf(y.state) = x.kind /\ y.name = x.name
    BY <2>4, <2>5, LibKind
  <2>7. t[i] = IF C!KindOf(y.state) = "elem" THEN y.name ELSE C!KindOf(y.state)
    BY <1>7, <2>3
  <2> QED BY <2>2, <2>4, <2>6, <2>7 DEF Show
<1>9. t \in [1 .. n -> Labels]
  <2>1. \A i \in 1 .. n : t[i] \in Labels
    BY <1>8, ShowFacts
  <2>2. DOMAIN t = 1 .. n /\ t = [i \in 1 .. n |-> t[i]]
    BY <1>7
  <2> QED BY <2>1, <2>2
<1>10. n \in Nat
  BY <1>5
<1>11. t \in Seq(Labels) /\ Len(t) = n
  BY <1>9, <1>10, SeqDef
<1> QED BY <1>3, <1>5, <1>8, <1>11

(* And so is what the reader of the other output has open below it. *)
LEMMA BelowDocIs ==
  ASSUME NEW D \in Stacks, Nested(D), run.w.rd = ReaderOf(D), NEW t, t = BelowDoc
  PROVE  /\ t \in Seq(Labels) /\ Len(t) = Len(D) - Docs(D)
         /\ \A i \in 1 .. Len(D) - Docs(D) : t[i] = Show(D[i + Docs(D)])
<1>1. PICK u : u = OpenInOutput
  OBVIOUS
<1>2. u \in Seq(Labels) /\ Len(u) = Len(D) /\ \A i \in 1 .. Len(D) : u[i] = Show(D[i])
  BY <1>1, OutputIs
<1>3. PICK k : k = Docs(D)
  OBVIOUS
<1>4. PICK n : n = Len(D)
  OBVIOUS
<1>5. n \in Nat /\ k \in {0, 1} /\ k <= n /\ (k = 1 <=> (n >= 1 /\ D[1].kind = "doc"))
  BY <1>3, <1>4, NestedDocs
<1>6. ReaderOf(D).top = n - 1 /\ ReaderOf(D).cell = CellsOf(D)
  BY <1>4, Facts
<1>7. n >= 1 => CellsOf(D)[0].kind = D[1].kind
  <2> SUFFICES ASSUME n >= 1 PROVE CellsOf(D)[0].kind = D[1].kind
    OBVIOUS
  <2>1. D[1] \in Items /\ 0 \in 0 .. MaxDepth - 1 /\ 0 < n /\ 0 + 1 = 1
    <3>1. n <= MaxDepth /\ MaxDepth \in Nat
      BY <1>4, Facts
    <3>2. 1 \in 1 .. Len(D)
      BY <1>4, <1>5
    <3>3. D[1] \in Items
      BY <3>2, ElementOfSeq DEF Stacks
    <3> QED BY <1>5, <3>1, <3>3
  <2>2. CellsOf(D)[0] = CellOf(D[1])
    BY <1>4, <2>1 DEF CellsOf
  <2> QED BY <2>1, <2>2, ShowFacts
<1>8. (run.w.rd.top >= 0 /\ run.w.rd.cell[0].kind = "doc") <=> k = 1
  BY <1>5, <1>6, <1>7
<1>9. PICK m : m = k + 1
  OBVIOUS
<1>10. t = SubSeq(u, m, n)
  <2>1. t = SubSeq(u, IF run.w.rd.top >= 0 /\ run.w.rd.cell[0].kind = "doc" THEN 2 ELSE 1, n)
    BY <1>1, <1>2, <1>4 DEF BelowDoc
  <2> QED BY <1>5, <1>8, <1>9, <2>1
<1>11. \A i \in m .. n : u[i] \in Labels
  <2>1. \A i \in m .. n : i \in 1 .. Len(u)
    BY <1>2, <1>4, <1>5, <1>9
  <2> QED BY <1>2, <2>1, ElementOfSeq
<1>12. t \in Seq(Labels) /\ Len(t) = n - k /\ \A i \in 1 .. n - k : t[i] = u[m + i - 1]
  <2>1. m \in Int /\ n \in Int
    BY <1>5, <1>9
  <2>2. t \in Seq(Labels) /\ Len(t) = (IF m <= n THEN n - m + 1 ELSE 0)
        /\ \A i \in 1 .. n - m + 1 : t[i] = u[m + i - 1]
    BY <1>10, <1>11, <2>1, SubSeqProperties
  <2> QED BY <1>5, <1>9, <2>2
<1>13. \A i \in 1 .. n - k : t[i] = Show(D[i + k])
  <2> TAKE i \in 1 .. n - k
  <2>1. m + i - 1 = i + k /\ i + k \in 1 .. Len(D)
    BY <1>4, <1>5, <1>9
  <2> QED BY <1>2, <1>12, <2>1
<1> QED BY <1>3, <1>4, <1>12, <1>13

(* So they are the same. *)
LEMMA SameNodes ==
  ASSUME NEW D \in Stacks, Nested(D), run.w.rd = ReaderOf(D), crun.xml = LibOf(D)
  PROVE  C!OpenNodes(crun) = BelowDoc
<1>1. PICK t : t = C!OpenNodes(crun)
  OBVIOUS
<1>2. PICK u : u = BelowDoc
  OBVIOUS
<1>3. PICK d : d = crun
  OBVIOUS
<1>4. PICK n : n = Len(D) - Docs(D)
  OBVIOUS
<1>5. t \in Seq(Labels) /\ Len(t) = n /\ \A i \in 1 .. n : t[i] = Show(D[i + Docs(D)])
  BY <1>1, <1>3, <1>4, LibShown
<1>6. u \in Seq(Labels) /\ Len(u) = n /\ \A i \in 1 .. n : u[i] = Show(D[i + Docs(D)])
  BY <1>2, <1>4, BelowDocIs
<1>7. t = u
  BY <1>5, <1>6, SeqEqual
<1> QED BY <1>1, <1>2, <1>7

-----------------------------------------------------------------------------
(* The script is taken, command by command. *)

(* The commands so far have made D, and those to come lead to what is read.*)
Rests(D) == D \in Stacks /\ Nested(D) /\ Leads(D, script, src, ctx) /\ Kept(run, D)

(* When all commands are played, the stack is that of the document. *)
LEMMA AtRest ==
  ASSUME NEW D, NEW t, NEW s, NEW x, Leads(D, t, s, x), t = <<>>
  PROVE  Shape(D, s, x)
<1>1. \A c : t # <<c>>
  OBVIOUS
<1>2. \A c, d : t # <<c, d>>
  OBVIOUS
<1> QED BY <1>1, <1>2 DEF Leads

(* The next command is one the players take. *)
LEMMA HeadTaken ==
  ASSUME NEW D, NEW t, NEW s, NEW x, Leads(D, t, s, x), t # <<>>, NEW c, c = Head(t), NEW E, E = After(D, c)
  PROVE  Takes(D, c) /\ Leads(E, Tail(t), s, x)
<1>1. ASSUME NEW b, t = <<b>>, Takes(D, b), Shape(After(D, b), s, x)
      PROVE  Takes(D, c) /\ Leads(E, Tail(t), s, x)
  <2>1. Head(t) = b /\ Tail(t) = <<>>
    BY <1>1
  <2> QED BY <1>1, <2>1 DEF Leads
<1>2. ASSUME NEW b, NEW d, t = <<b, d>>, Takes(D, b), Takes(After(D, b), d), Shape(After(After(D, b), d), s, x)
      PROVE  Takes(D, c) /\ Leads(E, Tail(t), s, x)
  <2>1. Head(t) = b /\ Tail(t) = <<d>>
    BY <1>2
  <2>2. PICK F : F = After(E, d)
    OBVIOUS
  <2>3. Leads(E, Tail(t), s, x)
    BY <1>2, <2>1, <2>2, OneLeads
  <2> QED BY <1>2, <2>1, <2>3
<1> QED BY <1>1, <1>2 DEF Leads

(* A handler extends what the commands lead to as it extends what is read. *)
LEMMA BuildRests ==
  ASSUME NEW D, Rests(D), Spaced, Build
  PROVE  Rests(D)'
<1>1. script = <<>> /\ Handler /\ run' = run
  BY HandlerWaits DEF Build
<1>2. Shape(D, src, ctx)
  BY <1>1, AtRest DEF Rests
<1>3. Leads(D, script', src', ctx')
  BY <1>1, <1>2, HandlerLeads
<1>4. D \in Stacks /\ Nested(D) /\ Kept(run', D)
  BY <1>1 DEF Rests
<1> QED BY <1>3, <1>4 DEF Rests

(* Playing a command moves the stack on. *)
LEMMA PlayRests ==
  ASSUME NEW D, Rests(D), Play, NEW c, c = Head(script), NEW E, E = After(D, c)
  PROVE  Takes(D, c) /\ Rests(E)' /\ (Refused(D, c) => run'.err # "nil")
<1>1. script # <<>> /\ run' = Exec(Head(script)) /\ script' = Tail(script) /\ src' = src /\ ctx' = ctx
  BY DEF Play
<1>2. D \in Stacks /\ Nested(D) /\ Leads(D, script, src, ctx) /\ Kept(run, D)
  BY DEF Rests
<1>3. Takes(D, c) /\ Leads(E, Tail(script), src, ctx)
  BY <1>1, <1>2, HeadTaken
<1>4. PICK r : r = Exec(c)
  OBVIOUS
<1>5. Kept(r, E) /\ (Refused(D, c) => r.err # "nil")
  BY <1>2, <1>3, <1>4, ExecKeeps
<1>6. E \in Stacks /\ Nested(E)
  BY <1>2, <1>3, PlayedIs, NestedAfter
<1>7. run' = r
  BY <1>1, <1>4
<1>8. Leads(E, script', src', ctx')
  BY <1>1, <1>3
<1> QED BY <1>3, <1>5, <1>6, <1>7, <1>8 DEF Rests

(* flush comes when nothing is open. *)
LEMMA FlushRests ==
  ASSUME NEW D, Rests(D), Flush
  PROVE  Rests(D)'
<1>1. /\ src.part = "end" /\ script = <<>> /\ run' = [run EXCEPT !.active = FALSE]
      /\ src' = src /\ ctx' = ctx /\ script' = script
  BY DEF Flush
<1>2. D \in Stacks /\ Nested(D) /\ Leads(D, script, src, ctx) /\ Kept(run, D)
  BY DEF Rests
<1>3. Shape(D, src, ctx)
  BY <1>1, <1>2, AtRest
<1>4. D = <<>>
  <2>1. TopKind(D) = "none"
    BY <1>1, <1>3, ShapeFacts
  <2> QED BY <1>2, <2>1, NoTop
<1>5. run = [w |-> run.w, active |-> run.active, err |-> run.err]
  BY <1>2 DEF Kept
<1>6. PICK r : r = [run EXCEPT !.active = FALSE]
  OBVIOUS
<1>7. r = [w |-> r.w, active |-> r.active, err |-> r.err] /\ r.w = run.w /\ r.err = run.err /\ r.active \in BOOLEAN
  BY <1>5, <1>6
<1>8. Kept(r, D)
  BY <1>2, <1>4, <1>7 DEF Kept
<1> QED BY <1>1, <1>2, <1>6, <1>8 DEF Rests

(* Nothing happened. *)
LEMMA RestsUnchanged ==
  ASSUME NEW D, Rests(D), UNCHANGED vars
  PROVE  Rests(D)'
BY DEF Rests, vars

(* A new Writer has nothing open. *)
LEMMA NewWriterIs == NewWriter = WriterOf(<<>>)
<1>1. Len(<<>>) = 0 /\ ~(\E s \in 0 .. MaxDepth - 1 : s < 0)
  OBVIOUS
<1>2. NodesOf(<<>>) = [s \in W!Slots |-> W!NoNode]
  BY <1>1 DEF NodesOf, W!Slots
<1>3. CellsOf(<<>>) = W!EmptyCells
  BY <1>1 DEF CellsOf, W!EmptyCells, W!Slots
<1>4. 0 - 1 = -1
  OBVIOUS
<1>5. ReaderOf(<<>>) = W!ReaderAtStart
  BY <1>1, <1>3, <1>4 DEF ReaderOf, Reader, W!ReaderAtStart
<1> QED BY <1>1, <1>2, <1>4, <1>5 DEF NewWriter, WriterOf, Writer

(* Nothing is open in the empty stack. *)
LEMMA NothingOpen == <<>> \in Stacks /\ Nested(<<>>) /\ TopKind(<<>>) = "none"
<1>1. <<>> \in Seq(Items) /\ Len(<<>>) = 0 /\ 0 <= MaxDepth
  BY ReplayAssumption
<1> QED BY <1>1 DEF Stacks, Nested, TopKind

(* Nor in the document before its first byte. *)
LEMMA InitRests ==
  ASSUME Init
  PROVE  Rests(<<>>)
<1>1. PICK s, x : s = src /\ x = ctx
  OBVIOUS
<1>2. PICK strip \in BOOLEAN :
        /\ s = [part |-> "start", open |-> <<>>, cdata |-> FALSE, list |-> Nameless, near |-> FALSE, dtd |-> FALSE]
        /\ x = [doc |-> FALSE, in_dtd |-> FALSE, in_attlist |-> FALSE, collect |-> FALSE, strip_ws |-> strip]
        /\ script = <<>> /\ run = [w |-> NewWriter, active |-> FALSE, err |-> "nil"]
  BY <1>1 DEF Init, BuilderInit
<1>3. s \in Sources /\ s.part = "start" /\ s.open = <<>> /\ ~s.cdata
  BY <1>2 DEF Sources, Parts
<1>4. x \in Contexts /\ ~x.doc /\ ~x.in_attlist
  BY <1>2 DEF Contexts
<1>5. DocBit(s, x) = 0 /\ DtdBit(s) = 0 /\ ListBit(x) = 0
  BY <1>3, <1>4 DEF DocBit, DtdBit, ListBit
<1>6. Sound(<<>>, 0, 0, 0, <<>>)
  <2>1. <<>> \in Stacks /\ 0 \in Bits /\ <<>> \in Seq(ElemNames) /\ Len(<<>>) = 0 /\ 0 <= MaxOpen
    BY NothingOpen, BuilderAssumption DEF Bits
  <2>2. Fits(<<>>, 0, 0, 0, <<>>)
    BY <2>1 DEF Fits
  <2> QED BY <2>1, <2>2 DEF Sound
<1>7. Shape(<<>>, s, x)
  BY <1>3, <1>4, <1>5, <1>6, ShapeIs
<1>8. Leads(<<>>, script, src, ctx)
  BY <1>1, <1>2, <1>7 DEF Leads
<1>9. Kept(run, <<>>)
  <2>1. run.w = NewWriter /\ ~run.active /\ run.active \in BOOLEAN /\ run.err = "nil"
        /\ run = [w |-> run.w, active |-> run.active, err |-> run.err]
    BY <1>2
  <2> QED BY <2>1, NewWriterIs DEF Kept
<1> QED BY <1>8, <1>9, NothingOpen DEF Rests

-----------------------------------------------------------------------------
(* What holds of the Writer, whatever has been played. *)

(* The builder stays within its types. *)
LEMMA LeadsTyped ==
  ASSUME NEW D, NEW t, NEW s, NEW x, Leads(D, t, s, x)
  PROVE  s \in Sources /\ x \in Contexts /\ Len(t) <= 2
<1>1. CASE t = <<>> /\ Shape(D, s, x)
  BY <1>1 DEF Shape
<1>2. ASSUME NEW c, t = <<c>>, Shape(After(D, c), s, x)
      PROVE  s \in Sources /\ x \in Contexts /\ Len(t) <= 2
  BY <1>2 DEF Shape
<1>3. ASSUME NEW c, NEW d, t = <<c, d>>, Shape(After(After(D, c), d), s, x)
      PROVE  s \in Sources /\ x \in Contexts /\ Len(t) <= 2
  BY <1>3 DEF Shape
<1> QED BY <1>1, <1>2, <1>3 DEF Leads

(* The Writer's stack is always one of these.                              *)
LEMMA WriterHas ==
  ASSUME NEW D \in Stacks, NEW r, Kept(r, D)
  PROVE  /\ r.active \in BOOLEAN /\ r.err \in {"nil", "encoding", "pi"}
         /\ \E E \in Stacks : /\ r.w.node = NodesOf(E) /\ r.w.cur = Len(E) - 1 /\ r.w.rd = ReaderOf(E)
                              /\ r.err = "pi" => TopKind(E) = "dtd"
<1>0. r.active \in BOOLEAN
  BY DEF Kept
<1>1. ASSUME NEW E \in Stacks
      PROVE  LET v == WriterOf(E)
                 u == W!Outcome(v, "rejected")
             IN /\ v.node = NodesOf(E) /\ v.cur = Len(E) - 1 /\ v.rd = ReaderOf(E)
                /\ u.node = NodesOf(E) /\ u.cur = Len(E) - 1 /\ u.rd = ReaderOf(E)
  BY DEF WriterOf, Writer, W!Outcome
<1>2. CASE r.err = "nil" /\ r.w = WriterOf(D)
  <2>1. r.w.node = NodesOf(D) /\ r.w.cur = Len(D) - 1 /\ r.w.rd = ReaderOf(D)
    BY <1>1, <1>2
  <2>2. r.err # "pi" /\ r.err \in {"nil", "encoding", "pi"}
    BY <1>2
  <2> QED BY <1>0, <2>1, <2>2
<1>3. CASE r.err = "encoding" /\ r.w = WriterOf(<<>>)
  <2>0. <<>> \in Stacks
    BY NothingOpen
  <2>1. r.w.node = NodesOf(<<>>) /\ r.w.cur = Len(<<>>) - 1 /\ r.w.rd = ReaderOf(<<>>)
    BY <1>1, <1>3, <2>0
  <2>2. r.err # "pi" /\ r.err \in {"nil", "encoding", "pi"}
    BY <1>3
  <2> QED BY <1>0, <2>0, <2>1, <2>2
<1>4. CASE r.err = "pi" /\ \E E \in Stacks : TopKind(E) = "dtd" /\ r.w = W!Outcome(WriterOf(E), "rejected")
  <2>1. PICK E \in Stacks : TopKind(E) = "dtd" /\ r.w = W!Outcome(WriterOf(E), "rejected")
    BY <1>4
  <2>2. r.w.node = NodesOf(E) /\ r.w.cur = Len(E) - 1 /\ r.w.rd = ReaderOf(E)
    BY <1>1, <2>1
  <2>3. r.err \in {"nil", "encoding", "pi"}
    BY <1>4
  <2> QED BY <1>0, <2>1, <2>2, <2>3
<1> QED BY <1>2, <1>3, <1>4 DEF Kept

(* An item makes a node of its kind and name, and a cell that the reader   *)
(* may have.                                                               *)
LEMMA ItemFacts ==
  ASSUME NEW x \in Items
  PROVE  /\ NodeOf(x).kind = x.kind /\ NodeOf(x).name = x.name /\ x.kind \in OpenKinds /\ x.kind # "none"
         /\ x.name # Nameless => x.kind \in W!NamedKinds
         /\ CellOf(x) \in W!Cells /\ W!NoCell \in W!Cells
         /\ NodeOf(x) # W!NoNode /\ W!NoNode.name = Nameless
<1>1. /\ x.kind \in OpenKinds /\ x.name \in ElemNames \cup {Nameless}
      /\ x.kind \in {"doc", "comment", "cdata"} => x.name = Nameless
  BY DEF Items
<1>2. NodeOf(x).kind = x.kind /\ NodeOf(x).name = x.name
  BY DEF NodeOf, OpenedOf, NewOf
<1>3. x.kind # "none" /\ (x.name # Nameless => x.kind \in W!NamedKinds)
  BY <1>1 DEF OpenKinds, W!NamedKinds
<1>4. x.kind \in {"none"} \cup W!Startables /\ x.name \in ElemNames \cup {"utf8", "other"} \cup {W!NoName}
      /\ Nameless = W!NoName
  BY <1>1 DEF OpenKinds, W!Startables, Nameless, W!NoName
<1>5. Tagged(x.kind, x.name) \in W!Cells /\ Bare(x.kind, x.name) \in W!Cells
  BY <1>4 DEF Tagged, Bare, W!Cells
<1>6. CellOf(x) \in W!Cells
  BY <1>5 DEF CellOf
<1>7. W!NoCell \in W!Cells
  BY DEF W!NoCell, W!Cells
<1>8. W!NoNode.kind = "none" /\ W!NoNode.name = Nameless
  BY DEF W!NoNode, W!NoName, Nameless
<1>9. NodeOf(x) # W!NoNode
  BY <1>2, <1>3, <1>8
<1> QED BY <1>1, <1>2, <1>3, <1>6, <1>7, <1>8, <1>9

(* The slots above the current node are unused. *)
LEMMA SlotsTyped ==
  ASSUME NEW D \in Stacks
  PROVE  /\ ReaderOf(D) \in W!Readers
         /\ \A i \in W!Slots : /\ (NodesOf(D)[i] = W!NoNode) <=> (i > Len(D) - 1)
                               /\ NodesOf(D)[i].name # Nameless => NodesOf(D)[i].kind \in W!NamedKinds
<1>1. D \in Seq(Items) /\ Len(D) \in Nat /\ Len(D) <= MaxDepth /\ MaxDepth \in Nat
  BY LenProperties, ReplayAssumption DEF Stacks
<1>2. \A i \in 1 .. Len(D) : D[i] \in Items
  BY <1>1
<1>3. W!NoCell \in W!Cells /\ W!NoNode.name = Nameless
  <2>1. W!NoCell \in W!Cells
    BY DEF W!NoCell, W!Cells
  <2> QED BY <2>1 DEF W!NoNode, W!NoName, Nameless
<1>4. ASSUME NEW i \in W!Slots
      PROVE  /\ CellsOf(D)[i] \in W!Cells
             /\ (NodesOf(D)[i] = W!NoNode) <=> (i > Len(D) - 1)
             /\ NodesOf(D)[i].name # Nameless => NodesOf(D)[i].kind \in W!NamedKinds
  <2>0. i \in 0 .. MaxDepth - 1 /\ i \in Int
    BY DEF W!Slots
  <2>1. CASE i < Len(D)
    <3>1. i + 1 \in 1 .. Len(D)
      BY <1>1, <2>0, <2>1
    <3>2. PICK x \in Items : x = D[i + 1]
      BY <1>2, <3>1
    <3>3. CellsOf(D)[i] = CellOf(x) /\ NodesOf(D)[i] = NodeOf(x)
      BY <2>0, <2>1, <3>2 DEF CellsOf, NodesOf
    <3>4. ~(i > Len(D) - 1)
      BY <1>1, <2>0, <2>1
    <3> QED BY <3>2, <3>3, <3>4, ItemFacts
  <2>2. CASE ~(i < Len(D))
    <3>1. CellsOf(D)[i] = W!NoCell /\ NodesOf(D)[i] = W!NoNode
      BY <2>0, <2>2 DEF CellsOf, NodesOf
    <3>2. i > Len(D) - 1
      BY <1>1, <2>0, <2>2
    <3> QED BY <1>3, <3>1, <3>2
  <2> QED BY <2>1, <2>2
<1>5. CellsOf(D) \in [W!Slots -> W!Cells]
  <2>1. CellsOf(D) = [s \in W!Slots |-> CellsOf(D)[s]]
    BY DEF CellsOf, W!Slots
  <2> QED BY <1>4, <2>1
<1>6. ReaderOf(D) = [ok |-> TRUE, top |-> Len(D) - 1, cell |-> CellsOf(D)] /\ Len(D) - 1 \in -1 .. MaxDepth - 1
  BY <1>1 DEF ReaderOf, Reader
<1>7. ReaderOf(D) \in W!Readers
  BY <1>5, <1>6 DEF W!Readers
<1> QED BY <1>4, <1>7

-----------------------------------------------------------------------------
(* testbuilder | gotester. *)

(* The inductive invariant. *)
RestsSomewhere == \E D : Rests(D)

(* Every step keeps in step. *)
LEMMA RestsKept ==
  ASSUME Spaced, RestsSomewhere, [Next]_vars
  PROVE  RestsSomewhere'
<1>1. PICK D : Rests(D)
  BY DEF RestsSomewhere
<1>2. CASE Build
  <2>1. Rests(D)'
    BY <1>1, <1>2, BuildRests
  <2> QED BY <2>1 DEF RestsSomewhere
<1>3. CASE Play
  <2>1. PICK c, E : c = Head(script) /\ E = After(D, c)
    OBVIOUS
  <2>2. Rests(E)'
    BY <1>1, <1>3, <2>1, PlayRests
  <2> QED BY <2>2 DEF RestsSomewhere
<1>4. CASE Flush
  <2>1. Rests(D)'
    BY <1>1, <1>4, FlushRests
  <2> QED BY <2>1 DEF RestsSomewhere
<1>5. CASE UNCHANGED vars
  <2>1. Rests(D)'
    BY <1>1, <1>5, RestsUnchanged
  <2> QED BY <2>1 DEF RestsSomewhere
<1> QED BY <1>2, <1>3, <1>4, <1>5 DEF Next

(* The inductive invariant of testbuilder | gotester: at every moment      *)
(* there is a stack that the runner has made of the commands it has        *)
(* played, and that the commands still to be played turn into what is open *)
(* in the document as far as it was read (testbuilder.c, xwrunner.go).     *)
THEOREM ReplayInvariant ==
  ASSUME Spaced
  PROVE  Spec => []RestsSomewhere
<1>1. Init => RestsSomewhere
  BY InitRests DEF RestsSomewhere
<1>2. RestsSomewhere /\ [Next]_vars => RestsSomewhere'
  BY RestsKept
<1> QED BY <1>1, <1>2, PTL DEF Spec

(* What the invariant says of types and of the commands that were taken. *)
LEMMA RestsTyped ==
  ASSUME RestsSomewhere
  PROVE  TypeOK /\ ScriptAccepted
<1>1. PICK D : Rests(D)
  BY DEF RestsSomewhere
<1>2. D \in Stacks /\ Leads(D, script, src, ctx) /\ Kept(run, D)
  BY <1>1 DEF Rests
<1>3. src \in Sources /\ ctx \in Contexts /\ Len(script) <= 2
  BY <1>2, LeadsTyped
<1>4. run.active \in BOOLEAN /\ run.err \in {"nil", "encoding", "pi"}
  BY <1>2, WriterHas
<1>5. PICK E \in Stacks : /\ run.w.node = NodesOf(E) /\ run.w.cur = Len(E) - 1 /\ run.w.rd = ReaderOf(E)
                          /\ run.err = "pi" => TopKind(E) = "dtd"
  BY <1>2, WriterHas
<1>6. run.w.rd \in W!Readers
  BY <1>5, SlotsTyped
<1>7. \A i \in W!Slots :
       /\ (run.w.node[i] = W!NoNode) <=> (i > run.w.cur)
       /\ run.w.node[i].name # Nameless => run.w.node[i].kind \in W!NamedKinds
  BY <1>5, SlotsTyped
<1>8. TypeOK
  <2>1. run.err \in {"nil", "encoding", "active", "pi", "rejected"}
    BY <1>4
  <2> QED BY <1>3, <1>4, <1>6, <1>7, <2>1 DEF TypeOK, Sources, Contexts
<1>9. ASSUME run.err = "pi"
      PROVE  run.w.cur >= 0 /\ run.w.node[run.w.cur].kind = "dtd"
  <2>1. TopKind(E) = "dtd"
    BY <1>5, <1>9
  <2>2. E # <<>> /\ E[Len(E)].kind = "dtd"
    BY <2>1 DEF TopKind
  <2>3. PICK n : n = Len(E)
    OBVIOUS
  <2>4. n >= 1 /\ n \in Nat /\ E[n] \in Items /\ NodesOf(E)[n - 1] = NodeOf(E[n])
    BY <2>2, <2>3, Facts
  <2>5. NodeOf(E[n]).kind = "dtd"
    BY <2>2, <2>3, <2>4, ItemFacts
  <2>6. n - 1 >= 0
    BY <2>4
  <2> QED BY <1>5, <2>3, <2>4, <2>5, <2>6
<1>10. ScriptAccepted
  BY <1>4, <1>9 DEF ScriptAccepted
<1> QED BY <1>8, <1>10

(* Type correctness; the slots above the current node are unused. *)
THEOREM ReplayTypeCorrect ==
  ASSUME Spaced
  PROVE  Spec => []TypeOK
<1>1. RestsSomewhere => TypeOK
  BY RestsTyped
<1> QED BY <1>1, ReplayInvariant, PTL

(* gotester takes every command that testbuilder emits, but for an         *)
(* encoding it does not know and an instruction in a subset (xwrunner.go). *)
THEOREM CommandsAccepted ==
  ASSUME Spaced
  PROVE  Spec => []ScriptAccepted
<1>1. RestsSomewhere => ScriptAccepted
  BY RestsTyped
<1> QED BY <1>1, ReplayInvariant, PTL

(* When the commands so far are played, what is open in the output is what *)
(* is open in the document, by name and in order.                          *)
THEOREM NestingRebuilt ==
  ASSUME Spaced
  PROVE  Spec => []NestingAgrees
<1>1. ASSUME RestsSomewhere
      PROVE  NestingAgrees
  <2>1. PICK D : Rests(D)
    BY <1>1 DEF RestsSomewhere
  <2>2. SUFFICES ASSUME script = <<>>, run.err = "nil"
                 PROVE  run.w.rd.ok /\ OpenInOutput = OpenInDocument
    BY DEF NestingAgrees
  <2>3. Shape(D, src, ctx) /\ D \in Stacks
    BY <2>1, <2>2, AtRest DEF Rests
  <2>4. run.w = WriterOf(D)
    BY <2>1, <2>2 DEF Rests, Kept
  <2>5. run.w.rd = ReaderOf(D)
    BY <2>3, <2>4, Facts
  <2> QED BY <2>3, <2>5, NestingShown
<1> QED BY <1>1, ReplayInvariant, PTL

(* If no list of attributes abuts another either, each attribute is        *)
(* declared for the element that the document declares it for              *)
(* (testbuilder.c, xml_dtd_attlist).                                       *)
THEOREM DeclaredForItsElement ==
  ASSUME Spaced, "list" \notin Abutting
  PROVE  Spec => AttrsUnderTheirElement
<1> DEFINE A == LET played == script # <<>> /\ script' = Tail(script) /\ run.err = "nil"
                    top == run'.w.node[run'.w.cur]
                IN played /\ Head(script).kind = "dtdattr" =>
                     top.kind = "dtdattlist" /\ top.name = Head(script).of
<1>1. ASSUME RestsSomewhere, Next
      PROVE  A
  <2>0. PICK c : c = Head(script)
    OBVIOUS
  <2>1. SUFFICES ASSUME script # <<>>, run.err = "nil", c.kind = "dtdattr"
                 PROVE  LET top == run'.w.node[run'.w.cur] IN top.kind = "dtdattlist" /\ top.name = c.of
    BY <2>0
  <2>2. Play
    BY <1>1, <2>1, HandlerWaits DEF Next, Build, Flush
  <2>3. PICK D : Rests(D)
    BY <1>1 DEF RestsSomewhere
  <2>4. D \in Stacks /\ Takes(D, c) /\ Kept(run, D)
    BY <2>0, <2>2, <2>3, PlayRests DEF Rests
  <2>5. TakesWrite(D, c) /\ c.action = "write" /\ TopKind(D) = "dtdattlist" /\ D[Len(D)].name = c.of
    <3>1. ~TakesStart(D, c)
      BY <2>1 DEF TakesStart
    <3>2. ~TakesEnd(D, c)
      BY <2>1 DEF TakesEnd
    <3> QED BY <2>1, <2>4, <3>1, <3>2 DEF Takes, TakesWrite
  <2>6. ~Refused(D, c) /\ c.kind # "attr"
    BY <2>1 DEF Refused
  <2>7. PICK B : B = Begun(D)
    OBVIOUS
  <2>8. Played(WriterOf(D), c) = WriterOf(B)
    <3>1. After(D, c) = B
      BY <2>4, <2>5, <2>6, <2>7, AfterWrite
    <3> QED BY <2>4, <2>6, <3>1, PlayedIs
  <2>9. run.w = WriterOf(D)
    BY <2>1, <2>4 DEF Kept
  <2>10. run' = Exec(c)
    BY <2>0, <2>2 DEF Play
  <2>11. run'.w = WriterOf(B)
    BY <2>1, <2>5, <2>8, <2>9, <2>10 DEF Exec, Unsupported
  <2>12. PICK n : n = Len(D)
    OBVIOUS
  <2>13. D # <<>> /\ D[n].kind = "dtdattlist"
    BY <2>5, <2>12 DEF TopKind
  <2>14. B \in Stacks /\ Len(B) = n /\ B # <<>> /\ n \in 1 .. n
    <3>1. n >= 1 /\ n \in Nat
      BY <2>4, <2>12, <2>13, Facts
    <3>2. B \in Stacks /\ Len(B) = n /\ B # <<>>
      BY <2>4, <2>7, <2>12, <2>13, BegunFacts
    <3> QED BY <3>1, <3>2
  <2>15. B[n].kind = "dtdattlist" /\ B[n].name = c.of /\ B[n] \in Items
    <3>1. B[n] \in Items /\ B[n].kind = D[n].kind /\ B[n].name = D[n].name
      <4>1. \A i \in 1 .. Len(D) : B[i] \in Items /\ B[i].kind = D[i].kind /\ B[i].name = D[i].name
        BY <2>4, <2>7, BegunFacts
      <4> QED BY <2>12, <2>14, <4>1
    <3> QED BY <2>5, <2>12, <2>13, <3>1
  <2>16. run'.w.node = NodesOf(B) /\ run'.w.cur = n - 1 /\ NodesOf(B)[n - 1] = NodeOf(B[n])
    BY <2>11, <2>14, Facts
  <2> QED BY <2>15, <2>16, ItemFacts
<1>2. RestsSomewhere /\ [Next]_vars => [A]_vars
  BY <1>1
<1> QED BY <1>2, ReplayInvariant, PTL DEF Spec, AttrsUnderTheirElement

-----------------------------------------------------------------------------
(* Both players. *)

(* One stack is what both have made of the commands. *)
Alike(D) == Rests(D) /\ CKept(crun, D) /\ (crun.outcome = "failed" => run.err # "nil")

(* The inductive invariant of both. *)
BothAlike == \E D : Alike(D)

(* ctester begins with nothing open. *)
LEMMA NewRunKept == CKept(C!NewRun, <<>>) /\ C!NewRun.outcome = "nil"
<1>1. PICK d : d = C!NewRun
  OBVIOUS
<1>2. d = [xml |-> C!NewTextWriter, end |-> <<>>, in_dtd |-> FALSE, outcome |-> "nil"]
  BY <1>1 DEF C!NewRun
<1>3. d.xml = C!NewTextWriter /\ d.end = <<>> /\ ~d.in_dtd /\ d.outcome = "nil"
  BY <1>2
<1>4. XNodes(<<>>) = <<>>
  <2>1. Len(<<>>) = 0 /\ Docs(<<>>) = 0
    BY DEF Docs
  <2> QED BY <2>1 DEF XNodes
<1>5. C!NewTextWriter = LibOf(<<>>)
  BY <1>4 DEF C!NewTextWriter, LibOf, Lib
<1>6. CRun(d)
  <2>1. <<>> \in Seq(Entry)
    OBVIOUS
  <2> QED BY <1>2, <2>1 DEF CRun, Outcomes
<1>7. AllLive(d)
  BY <1>3 DEF AllLive
<1>8. ~InDtd(<<>>)
  BY NothingOpen DEF InDtd
<1> QED BY <1>1, <1>3, <1>5, <1>6, <1>7, <1>8 DEF CKept

(* So both begin alike. *)
LEMMA BothStart ==
  ASSUME BothInit
  PROVE  BothAlike
<1>1. Rests(<<>>) /\ crun = C!NewRun
  BY InitRests DEF BothInit
<1>2. CKept(crun, <<>>) /\ crun.outcome # "failed"
  BY <1>1, NewRunKept
<1>3. Alike(<<>>)
  BY <1>1, <1>2 DEF Alike
<1> QED BY <1>3 DEF BothAlike

(* A command moves both to the same stack. *)
LEMMA BothPlayAlike ==
  ASSUME NEW D, Alike(D), BothPlay
  PROVE  BothAlike'
<1>1. PICK c, E : c = Head(script) /\ E = After(D, c)
  OBVIOUS
<1>2. Rests(D) /\ CKept(crun, D) /\ (crun.outcome = "failed" => run.err # "nil")
  BY DEF Alike
<1>3. Play /\ crun' = C!Exec(crun, c.action, c.kind, c.name)
  BY <1>1 DEF BothPlay, PlayC
<1>4. Takes(D, c) /\ Rests(E)' /\ (Refused(D, c) => run'.err # "nil")
  BY <1>1, <1>2, <1>3, PlayRests
<1>5. D \in Stacks
  BY <1>2 DEF Rests
<1>6. PICK d, e : d = crun /\ e = C!Exec(d, c.action, c.kind, c.name)
  OBVIOUS
<1>7. CKept(e, E) /\ (e.outcome = "failed" => d.outcome = "failed" \/ Refused(D, c))
  BY <1>1, <1>2, <1>4, <1>5, <1>6, CExecKeeps
<1>8. run.err # "nil" => run'.err # "nil"
  BY <1>3 DEF Play, Exec
<1>9. crun' = e
  BY <1>3, <1>6
<1>10. CKept(crun', E) /\ (crun'.outcome = "failed" => run'.err # "nil")
  BY <1>2, <1>4, <1>6, <1>7, <1>8, <1>9
<1>11. Alike(E)'
  BY <1>4, <1>10 DEF Alike
<1> QED BY <1>11 DEF BothAlike

(* ctester frees its list when the script is over. *)
LEMMA FlushAlike ==
  ASSUME NEW D, Alike(D), FlushC
  PROVE  Alike(D)'
<1>1. Rests(D) /\ CKept(crun, D)
  BY DEF Alike
<1>2. crun.outcome = "nil" /\ UNCHANGED vars
  BY DEF FlushC
<1>3. PICK d, e : d = crun /\ e = C!Deinit(d, "done")
  OBVIOUS
<1>4. crun' = e
  BY <1>3 DEF FlushC
<1>5. CRun(d) /\ AllLive(d) /\ d.outcome = "nil"
  BY <1>1, <1>2, <1>3 DEF CKept
<1>6. CRun(e) /\ e.outcome = "done"
  BY <1>3, <1>5, CDeinits
<1>7. CKept(e, D)
  BY <1>6 DEF CKept
<1>8. Rests(D)'
  BY <1>1, <1>2, RestsUnchanged
<1>9. CKept(crun', D) /\ crun'.outcome # "failed"
  BY <1>4, <1>6, <1>7
<1> QED BY <1>8, <1>9 DEF Alike

(* Every step of the three programs keeps the two players alike. *)
LEMMA BothAlikeKept ==
  ASSUME Spaced, BothAlike, [BothNext]_bothVars
  PROVE  BothAlike'
<1>1. PICK D : Alike(D)
  BY DEF BothAlike
<1>2. Rests(D) /\ CKept(crun, D) /\ (crun.outcome = "failed" => run.err # "nil")
  BY <1>1 DEF Alike
<1>3. ASSUME Rests(D)', UNCHANGED <<crun, run.err>>
      PROVE  BothAlike'
  <2>1. CKept(crun', D) /\ (crun'.outcome = "failed" => run'.err # "nil")
    BY <1>2, <1>3
  <2>2. Alike(D)'
    BY <1>3, <2>1 DEF Alike
  <2> QED BY <2>2 DEF BothAlike
<1>4. CASE BothBuild
  BY <1>2, <1>3, <1>4, BuildRests DEF BothBuild, Build
<1>5. CASE BothPlay
  BY <1>1, <1>5, BothPlayAlike
<1>6. CASE BothFlush
  <2>1. UNCHANGED crun /\ Flush
    BY <1>6 DEF BothFlush
  <2>2. run'.err = run.err
    <3>1. run = [w |-> run.w, active |-> run.active, err |-> run.err]
      BY <1>2 DEF Rests, Kept
    <3> QED BY <2>1, <3>1 DEF Flush
  <2> QED BY <1>2, <1>3, <2>1, <2>2, FlushRests
<1>7. CASE FlushC
  <2>1. Alike(D)'
    BY <1>1, <1>7, FlushAlike
  <2> QED BY <2>1 DEF BothAlike
<1>8. CASE UNCHANGED bothVars
  <2>1. UNCHANGED vars /\ UNCHANGED <<crun, run.err>>
    BY <1>8 DEF bothVars, vars
  <2> QED BY <1>2, <1>3, <2>1, RestsUnchanged
<1> QED BY <1>4, <1>5, <1>6, <1>7, <1>8 DEF BothNext

(* The inductive invariant of both players: one stack is what either has   *)
(* made of the commands, unless it has stopped.                            *)
THEOREM BothInvariant ==
  ASSUME Spaced
  PROVE  BothSpec => []BothAlike
<1>1. BothInit => BothAlike
  BY BothStart
<1>2. BothAlike /\ [BothNext]_bothVars => BothAlike'
  BY BothAlikeKept
<1> QED BY <1>1, <1>2, PTL DEF BothSpec

(* What ctester does has no part in what gotester and the builder do: what *)
(* is proved of them holds beside it.                                      *)
THEOREM SameScript == BothSpec => Spec
<1>1. BothInit => Init
  BY DEF BothInit
<1>2. [BothNext]_bothVars => [Next]_vars
  BY DEF BothNext, BothBuild, BothPlay, BothFlush, FlushC, Next, bothVars, vars
<1> QED BY <1>1, <1>2, PTL DEF BothSpec, Spec

(* ctester takes every command but an instruction in a subset that has     *)
(* begun, and gotester has then stopped for it as well or before           *)
(* (ctester.c).                                                            *)
THEOREM CommandsAcceptedByBoth ==
  ASSUME Spaced
  PROVE  BothSpec => []CScriptAccepted
<1>1. ASSUME BothAlike
      PROVE  CScriptAccepted
  <2>1. PICK D : Alike(D)
    BY <1>1 DEF BothAlike
  <2>2. CKept(crun, D) /\ (crun.outcome = "failed" => run.err # "nil") /\ D \in Stacks /\ Kept(run, D)
    BY <2>1 DEF Alike, Rests
  <2>3. run.err \in {"nil", "encoding", "pi"}
    BY <2>2, WriterHas
  <2> QED BY <2>2, <2>3 DEF CKept, CScriptAccepted
<1> QED BY <1>1, BothInvariant, PTL

(* The flag in_dtd of ctester says whether the document is in its DTD      *)
(* (ctester.c:WriteComment).                                               *)
THEOREM FlagFollows ==
  ASSUME Spaced
  PROVE  BothSpec => []InDtdFollows
<1>1. ASSUME BothAlike
      PROVE  InDtdFollows
  <2>1. PICK D : Alike(D)
    BY <1>1 DEF BothAlike
  <2>2. SUFFICES ASSUME crun.outcome = "nil", script = <<>>
                 PROVE  crun.in_dtd <=> src.part = "dtd"
    BY DEF InDtdFollows
  <2>3. crun.in_dtd <=> InDtd(D)
    BY <2>1, <2>2 DEF Alike, CKept
  <2>4. Shape(D, src, ctx)
    BY <2>1, <2>2, AtRest DEF Alike, Rests
  <2>5. InDtd(D) <=> src.part = "dtd"
    BY <2>4, ShapeFacts DEF InDtd
  <2> QED BY <2>3, <2>5
<1> QED BY <1>1, BothInvariant, PTL

(* As long as neither has stopped, both players have the same nodes open,  *)
(* by kind, name and order.                                                *)
THEOREM OpenAlike ==
  ASSUME Spaced
  PROVE  BothSpec => []PlayersAgree
<1>1. ASSUME BothAlike
      PROVE  PlayersAgree
  <2>1. PICK D : Alike(D)
    BY <1>1 DEF BothAlike
  <2>2. SUFFICES ASSUME crun.outcome = "nil", run.err = "nil"
                 PROVE  C!OpenNodes(crun) = BelowDoc
    BY DEF PlayersAgree
  <2>3. D \in Stacks /\ Nested(D) /\ run.w = WriterOf(D) /\ crun.xml = LibOf(D)
    BY <2>1, <2>2 DEF Alike, Rests, Kept, CKept
  <2>4. run.w.rd = ReaderOf(D)
    BY <2>3, Facts
  <2> QED BY <2>3, <2>4, SameNodes
<1> QED BY <1>1, BothInvariant, PTL
=============================================================================
