---------------------------- MODULE WriterProofs ----------------------------
(***************************************************************************)
(* Proofs about Writer, for every stack depth and every set of names.      *)
(*                                                                         *)
(* The inductive invariant has two layers.  Shape is about the writer      *)
(* alone: the slots in use hold nodes, the ancestors of the current node   *)
(* are opened and have a child, an opened DTD has a child.  Synced says    *)
(* that the observer has open what the writer has on its stack; it holds   *)
(* as long as the run is clean.                                            *)
(*                                                                         *)
(* The second half is about what a call does: where the unwinding calls    *)
(* stop, and what a call that is rejected leaves behind.  Both rest on     *)
(* where an outcome can come from: opening and ending a node succeed, drop *)
(* its content or fail, and only a check that is made before either of     *)
(* them rejects.  A user who calls EndAll after every call is one of the   *)
(* users of Writer's specification.                                        *)
(***************************************************************************)
EXTENDS WriterClosing, TLAPS

Writers == [node : [Slots -> Node \cup {NoNode}], cur : -1 .. MaxDepth - 1,
            rd : Readers, err : Errors]

(* A node the writer can have on its stack. *)
Fit(n) ==
  /\ n \in Node
  /\ n.kind \notin NamedKinds => n.name = NoName
  /\ n.kind = "dtd" /\ n.state = "opened" => n.kids

Shape(v) ==
  /\ v \in Writers
  /\ \A s \in Slots : s <= v.cur => Fit(v.node[s])
  /\ \A s \in Slots : s > v.cur => v.node[s] = NoNode
  /\ \A s \in Slots : s < v.cur => v.node[s].state = "opened" /\ v.node[s].kids

Synced(v) ==
  /\ v.rd.ok
  /\ v.rd.top = v.cur
  /\ \A s \in Slots : s <= v.cur => v.rd.cell[s] = CellOf(v.node[s])

(* A step inside a call keeps the observer in agreement unless it has      *)
(* failed; a whole call does so unless it has torn the output, said or     *)
(* unsaid.                                                                 *)
Keeps(v, u) == Shape(u) /\ (Synced(v) => u.err = "failed" \/ Synced(u))

Leads(v, u) == Shape(u) /\ (Synced(v) => u.err \in Tearing \/ Synced(u))

-----------------------------------------------------------------------------
(* The observer stays well typed. *)

(* The observer that has lost its place is one of the observers.           *)
LEMMA LostTypes == Lost \in Readers
BY MaxDepthAssumption DEF Lost, Readers, EmptyCells, NoCell, Cells, Slots

(* Leaving a cell, and ending its tag, keep the observer's type.           *)
LEMMA ReaderMoves ==
  ASSUME NEW r \in Readers, r.top >= 0
  PROVE  Ascend(r) \in Readers /\ EndOfTag(r) \in Readers
<1>1. r.top \in Slots /\ r.top - 1 \in -1 .. MaxDepth - 1
  BY MaxDepthAssumption DEF Readers, Slots
<1>2. r.cell[r.top] \in Cells
  BY <1>1 DEF Readers
<1>3. NoCell \in Cells
  BY DEF NoCell, Cells
<1>4. [kind |-> r.cell[r.top].kind, name |-> r.cell[r.top].name, tag |-> FALSE] \in Cells
  BY <1>2 DEF Cells
<1>5. [r.cell EXCEPT ![r.top] = NoCell] \in [Slots -> Cells]
  BY <1>3 DEF Readers
<1>6. [r.cell EXCEPT ![r.top] = [kind |-> r.cell[r.top].kind, name |-> r.cell[r.top].name, tag |-> FALSE]]
        \in [Slots -> Cells]
  BY <1>4 DEF Readers
<1> QED BY <1>1, <1>5, <1>6 DEF Ascend, EndOfTag, Readers

(* So does every lexeme the writer may give it.                            *)
LEMMA ReaderTypes ==
  ASSUME NEW r \in Readers, NEW kind \in Startables, NEW name \in Names \cup {NoName},
         NEW leaf
  PROVE  /\ ReadOpen(r, kind, name) \in Readers
         /\ ReadGt(r) \in Readers
         /\ ReadEmptyTagEnd(r) \in Readers
         /\ ReadBracket(r) \in Readers
         /\ ReadClose(r, kind, name) \in Readers
         /\ ReadLeaf(r, leaf) \in Readers
<1>1. Lost \in Readers
  BY LostTypes
<1>2. ASSUME r.top + 1 \in Slots, NEW tag \in BOOLEAN
      PROVE  Descend(r, kind, name, tag) \in Readers
  <2>1. [kind |-> kind, name |-> name, tag |-> tag] \in Cells
    BY DEF Cells
  <2>2. [r.cell EXCEPT ![r.top + 1] = [kind |-> kind, name |-> name, tag |-> tag]] \in [Slots -> Cells]
    BY <2>1 DEF Readers
  <2>3. r.top + 1 \in -1 .. MaxDepth - 1
    BY <1>2, MaxDepthAssumption DEF Slots
  <2> QED BY <2>2, <2>3 DEF Descend, Readers
<1>3. r.top >= 0 => Ascend(r) \in Readers /\ EndOfTag(r) \in Readers
  BY ReaderMoves
<1>4. (kind \in NamedKinds) \in BOOLEAN
  OBVIOUS
<1>5. ReadOpen(r, kind, name) \in Readers
  BY <1>1, <1>2, <1>4 DEF ReadOpen
<1>6. ReadGt(r) \in Readers /\ ReadEmptyTagEnd(r) \in Readers /\ ReadBracket(r) \in Readers
  BY <1>1, <1>3 DEF ReadGt, ReadEmptyTagEnd, ReadBracket, TopIs
<1>7. ReadClose(r, kind, name) \in Readers
  BY <1>1, <1>3 DEF ReadClose, TopIs
<1>8. ReadLeaf(r, leaf) \in Readers
  BY <1>1 DEF ReadLeaf
<1> QED BY <1>5, <1>6, <1>7, <1>8

(* What the observer's two moves change: the tag of the innermost cell, or *)
(* the number of open cells.                                               *)
LEMMA EndOfTagFacts ==
  ASSUME NEW r \in Readers, r.top >= 0
  PROVE  /\ EndOfTag(r).ok = r.ok /\ EndOfTag(r).top = r.top
         /\ EndOfTag(r).cell[r.top] = [kind |-> r.cell[r.top].kind, name |-> r.cell[r.top].name, tag |-> FALSE]
         /\ \A s \in Slots : s # r.top => EndOfTag(r).cell[s] = r.cell[s]
<1>1. r.top \in Slots
  BY MaxDepthAssumption DEF Readers, Slots
<1> QED BY <1>1 DEF EndOfTag, Readers

(* Leaving a cell changes nothing else.                                    *)
LEMMA AscendFacts ==
  ASSUME NEW r \in Readers, r.top >= 0
  PROVE  /\ Ascend(r).ok = r.ok /\ Ascend(r).top = r.top - 1
         /\ \A s \in Slots : s # r.top => Ascend(r).cell[s] = r.cell[s]
BY DEF Ascend, Readers

(* Entering a cell changes that cell and nothing else.                     *)
LEMMA DescendFacts ==
  ASSUME NEW r \in Readers, NEW kind, NEW name, NEW tag, r.top + 1 \in Slots
  PROVE  /\ Descend(r, kind, name, tag).ok = r.ok /\ Descend(r, kind, name, tag).top = r.top + 1
         /\ Descend(r, kind, name, tag).cell[r.top + 1] = [kind |-> kind, name |-> name, tag |-> tag]
         /\ \A s \in Slots : s # r.top + 1 => Descend(r, kind, name, tag).cell[s] = r.cell[s]
BY DEF Descend, Readers

-----------------------------------------------------------------------------
(* The current node is replaced. *)

(* The current node is a node that fits.                                   *)
LEMMA TopFacts ==
  ASSUME NEW v, Shape(v), v.cur >= 0
  PROVE  v.cur \in Slots /\ Fit(Top(v)) /\ Top(v) \in Node
BY MaxDepthAssumption DEF Shape, Writers, Slots, Top, Fit

(* Replacing the current node changes that node and nothing else.          *)
LEMMA SetTopFacts ==
  ASSUME NEW v \in Writers, v.cur >= 0, NEW n \in Node
  PROVE  /\ SetTop(v, n) \in Writers
         /\ SetTop(v, n).cur = v.cur /\ SetTop(v, n).rd = v.rd /\ SetTop(v, n).err = v.err
         /\ SetTop(v, n).node = [v.node EXCEPT ![v.cur] = n]
BY MaxDepthAssumption DEF SetTop, Writers, Slots

(* Writing changes what the observer sees and nothing else.                *)
LEMMA WroteFacts ==
  ASSUME NEW v \in Writers, NEW rd \in Readers
  PROVE  /\ Wrote(v, rd) \in Writers
         /\ Wrote(v, rd).cur = v.cur /\ Wrote(v, rd).node = v.node
         /\ Wrote(v, rd).err = v.err /\ Wrote(v, rd).rd = rd
BY DEF Wrote, Writers

(* The outcome of a call changes the error and nothing else.               *)
LEMMA OutcomeFacts ==
  ASSUME NEW v \in Writers, NEW e \in Errors
  PROVE  /\ Outcome(v, e) \in Writers
         /\ Outcome(v, e).cur = v.cur /\ Outcome(v, e).node = v.node
         /\ Outcome(v, e).err = e /\ Outcome(v, e).rd = v.rd
BY DEF Outcome, Writers

(* With a node that fits in its place, the stack keeps its shape.          *)
LEMMA Retopped ==
  ASSUME NEW v, Shape(v), v.cur >= 0, NEW n, Fit(n),
         NEW u \in Writers, u.cur = v.cur, u.node = [v.node EXCEPT ![v.cur] = n]
  PROVE  /\ Shape(u)
         /\ Top(u) = n
         /\ /\ Synced(v)
            /\ u.rd.ok /\ u.rd.top = v.cur
            /\ u.rd.cell[v.cur] = CellOf(n)
            /\ \A s \in Slots : s < v.cur => u.rd.cell[s] = v.rd.cell[s]
            => Synced(u)
<1>1. v.cur \in Slots /\ v \in Writers
  BY TopFacts DEF Shape
<1>2. Top(u) = n /\ \A s \in Slots : s # v.cur => u.node[s] = v.node[s]
  BY <1>1 DEF Top, Writers
<1>3. Shape(u)
  BY <1>1, <1>2 DEF Shape, Top, Slots
<1>4. ASSUME Synced(v), u.rd.ok, u.rd.top = v.cur, u.rd.cell[v.cur] = CellOf(n),
             \A s \in Slots : s < v.cur => u.rd.cell[s] = v.rd.cell[s]
      PROVE  Synced(u)
  <2>1. ASSUME NEW s \in Slots, s <= u.cur
        PROVE  u.rd.cell[s] = CellOf(u.node[s])
    <3>1. CASE s = v.cur
      BY <1>2, <1>4, <3>1 DEF Top
    <3>2. CASE s < v.cur
      BY <1>1, <1>2, <1>4, <3>2 DEF Synced, Slots, Writers
    <3> QED BY <2>1, <3>1, <3>2, <1>1 DEF Slots, Writers
  <2> QED BY <1>4, <2>1 DEF Synced
<1> QED BY <1>2, <1>3, <1>4

(* The node may change in place, or its header may end with a lexeme.      *)
LEMMA HeaderKeeps ==
  ASSUME NEW v, Shape(v), v.cur >= 0, NEW n, Fit(n), n.kind = Top(v).kind, n.name = Top(v).name,
         NEW u \in Writers, u.cur = v.cur, u.node = [v.node EXCEPT ![v.cur] = n],
         \/ u.rd = v.rd /\ HeaderPending(n) = HeaderPending(Top(v))
         \/ Synced(v) => u.rd = EndOfTag(v.rd) /\ HeaderPending(n) = FALSE
         \/ u.err = "failed"
  PROVE  Keeps(v, u) /\ Top(u) = n
<1>1. Shape(u) /\ Top(u) = n
  BY Retopped
<1>2. v \in Writers /\ v.rd \in Readers /\ v.cur \in Slots
  BY TopFacts DEF Shape, Writers
<1>3. ASSUME Synced(v), u.err # "failed"
      PROVE  Synced(u)
  <2>1. v.rd.ok /\ v.rd.top = v.cur /\ v.rd.cell[v.cur] = CellOf(Top(v))
    BY <1>2, <1>3 DEF Synced, Top, Writers
  <2>2. CASE u.rd = v.rd /\ HeaderPending(n) = HeaderPending(Top(v))
    <3>1. CellOf(n) = CellOf(Top(v))
      BY <2>2 DEF CellOf
    <3> QED BY <1>3, <2>1, <2>2, <3>1, Retopped
  <2>3. CASE u.rd = EndOfTag(v.rd) /\ HeaderPending(n) = FALSE
    <3>1. u.rd.ok /\ u.rd.top = v.cur
      BY <1>2, <2>1, <2>3, EndOfTagFacts
    <3>2. u.rd.cell[v.cur] = [kind |-> Top(v).kind, name |-> Top(v).name, tag |-> FALSE]
      BY <1>2, <2>1, <2>3, EndOfTagFacts DEF CellOf
    <3>3. u.rd.cell[v.cur] = CellOf(n)
      BY <2>3, <3>2 DEF CellOf
    <3>4. \A s \in Slots : s < v.cur => s # v.rd.top
      BY <1>2, <2>1 DEF Slots
    <3>5. \A s \in Slots : s < v.cur => u.rd.cell[s] = v.rd.cell[s]
      <4>1. v.rd.top >= 0
        BY <2>1
      <4>2. \A s \in Slots : s # v.rd.top => EndOfTag(v.rd).cell[s] = v.rd.cell[s]
        BY <1>2, <4>1, EndOfTagFacts
      <4> QED BY <2>3, <3>4, <4>2
    <3> QED BY <1>3, <3>5, <3>1, <3>3, Retopped
  <2> QED BY <1>3, <2>2, <2>3
<1> QED BY <1>1, <1>3 DEF Keeps

(* node.opened of a node that stays on the stack. *)
Stays(n) == n.kids \/ n.kind \notin {"elem", "dtd"} \/ (n.kind = "elem" /\ n.full)

(* The namespaces of a start tag that is still open: the observer takes    *)
(* them as what they are, attributes.                                      *)
LEMMA DeclaredFacts ==
  ASSUME NEW v, Shape(v), v.cur >= 0
  PROVE  /\ Declared(v) \in Readers
         /\ Synced(v) /\ Top(v).kind = "elem" /\ Top(v).state = "open" => Declared(v) = v.rd
<1>1. v \in Writers /\ v.rd \in Readers /\ v.cur \in Slots
  BY TopFacts DEF Shape, Writers
<1>2. ReadLeaf(v.rd, "attr") \in Readers
  BY <1>1, LostTypes DEF ReadLeaf
<1>3. ASSUME Synced(v), Top(v).kind = "elem", Top(v).state = "open"
      PROVE  ReadLeaf(v.rd, "attr") = v.rd
  <2>1. v.rd.ok /\ v.rd.top = v.cur /\ v.rd.cell[v.cur] = CellOf(Top(v))
    BY <1>1, <1>3 DEF Synced, Top, Writers
  <2>2. CellOf(Top(v)).kind = "elem" /\ CellOf(Top(v)).tag = TRUE
    BY <1>3 DEF CellOf, HeaderPending, NamedKinds
  <2>3. Admits(v.rd, "attr")
    BY <2>1, <2>2 DEF Admits, InTag
  <2> QED BY <2>1, <2>3 DEF ReadLeaf
<1> QED BY <1>1, <1>2, <1>3 DEF Declared

(* node.opened of a node that stays keeps writer and observer in step.     *)
LEMMA OpenedKeeps ==
  ASSUME NEW v, Shape(v), v.cur >= 0, Top(v).state = "open", Stays(Top(v))
  PROVE  /\ Keeps(v, Opened(v))
         /\ Opened(v).cur = v.cur
         /\ Top(Opened(v)).kind = Top(v).kind /\ Top(Opened(v)).name = Top(v).name
         /\ Top(Opened(v)).state = "opened"
         /\ Top(Opened(v)).full = Top(v).full
         /\ Top(v).kids => Top(Opened(v)).kids
         /\ Top(v).kind \in {"elem", "dtd"} => Top(Opened(v)).kids = Top(v).kids
<1> DEFINE t  == Top(v)
           u  == Opened(v)
           n0 == [t EXCEPT !.state = "opened", !.ns = "none"]
           n1 == [t EXCEPT !.state = "opened", !.kids = TRUE, !.body = "none"]
           n2 == [t EXCEPT !.state = "opened", !.kids = TRUE]
           Set(n) == u \in Writers /\ u.cur = v.cur /\ u.node = [v.node EXCEPT ![v.cur] = n]
           Late(n) == \/ u.rd = v.rd /\ HeaderPending(n) = HeaderPending(t)
                      \/ Synced(v) => u.rd = EndOfTag(v.rd) /\ HeaderPending(n) = FALSE
                      \/ u.err = "failed"
           Like(n) == /\ Fit(n) /\ n.kind = t.kind /\ n.name = t.name /\ n.state = "opened"
                      /\ n.full = t.full /\ (t.kids => n.kids)
                      /\ t.kind \in {"elem", "dtd"} => n.kids = t.kids
<1>1. v \in Writers /\ v.rd \in Readers /\ v.cur \in Slots /\ Fit(t) /\ t \in Node
  BY TopFacts DEF Shape, Writers
<1>2. Like(n0) /\ n0 \in Node
  BY <1>1 DEF Fit, Node, Stays, Pending
<1>3. t.kind \notin {"elem", "dtd"} => Like(n1) /\ n1 \in Node /\ Like(n2) /\ n2 \in Node
  BY <1>1, BodiesAssumption DEF Fit, Node, Stays
<1>4. ASSUME Synced(v), t.kind \in {"elem", "dtd"}
      PROVE  v.rd.ok /\ TopIs(v.rd, t.kind, TRUE)
  <2>1. v.rd.cell[v.cur] = CellOf(t) /\ v.rd.ok /\ v.rd.top = v.cur
    BY <1>1, <1>4 DEF Synced, Top, Writers
  <2>2. CellOf(t).tag = TRUE /\ CellOf(t).kind = t.kind
    BY <1>4 DEF CellOf, HeaderPending, NamedKinds
  <2> QED BY <2>1, <2>2 DEF TopIs
<1>5. PICK n : Set(n) /\ Late(n) /\ Like(n)
  <2>0. CASE t.kind = "elem" /\ t.ns = "bad"
    <3>1. u = Outcome(MarkOpened(v), "failed")
      BY <2>0 DEF Opened, OpenedElem
    <3>2. MarkOpened(v) \in Writers /\ MarkOpened(v).cur = v.cur
          /\ MarkOpened(v).node = [v.node EXCEPT ![v.cur] = n0]
      BY <1>1, <1>2, SetTopFacts DEF MarkOpened
    <3>3. Set(n0) /\ u.err = "failed"
      <4> DEFINE m == MarkOpened(v)
      <4> HIDE DEF m, n0
      <4>1. Outcome(m, "failed") \in Writers /\ Outcome(m, "failed").cur = m.cur
            /\ Outcome(m, "failed").node = m.node /\ Outcome(m, "failed").err = "failed"
        BY <3>2, OutcomeFacts DEF Errors, m
      <4> QED BY <3>1, <3>2, <4>1 DEF m
    <3> QED BY <1>2, <3>3
  <2>1. CASE t.kind = "elem" /\ t.ns # "bad"
    <3>0. Declared(v) \in Readers /\ (Synced(v) => Declared(v) = v.rd)
      BY <2>1, DeclaredFacts
    <3>1. u = Wrote(MarkOpened(v), ReadGt(Declared(v)))
      BY <2>1 DEF Opened, OpenedElem, Stays
    <3>2. MarkOpened(v) \in Writers /\ ReadGt(Declared(v)) \in Readers
      BY <1>1, <1>2, <3>0, SetTopFacts, ReaderTypes DEF MarkOpened, Startables
    <3>3. Set(n0)
      <4>1. MarkOpened(v).cur = v.cur /\ MarkOpened(v).node = [v.node EXCEPT ![v.cur] = n0]
        BY <1>1, <1>2, SetTopFacts DEF MarkOpened
      <4> QED BY <3>1, <3>2, <4>1, WroteFacts
    <3>4. Late(n0)
      <4>1. u.rd = ReadGt(Declared(v))
        BY <3>1, <3>2, WroteFacts
      <4>2. HeaderPending(n0) = FALSE
        BY <2>1, <1>1 DEF HeaderPending, Node
      <4>3. Synced(v) => ReadGt(Declared(v)) = EndOfTag(v.rd)
        BY <1>4, <2>1, <3>0 DEF ReadGt
      <4> QED BY <4>1, <4>2, <4>3
    <3> QED BY <1>2, <3>3, <3>4
  <2>2. CASE t.kind = "dtd"
    <3>1. u = Wrote(MarkOpened(v), ReadBracket(v.rd))
      BY <2>2 DEF Opened, OpenedDTD, Stays
    <3>2. MarkOpened(v) \in Writers /\ ReadBracket(v.rd) \in Readers
      BY <1>1, <1>2, SetTopFacts, ReaderTypes DEF MarkOpened, Startables
    <3>3. Set(n0)
      <4>1. MarkOpened(v).cur = v.cur /\ MarkOpened(v).node = [v.node EXCEPT ![v.cur] = n0]
        BY <1>1, <1>2, SetTopFacts DEF MarkOpened
      <4> QED BY <3>1, <3>2, <4>1, WroteFacts
    <3>4. Late(n0)
      <4>1. u.rd = ReadBracket(v.rd)
        BY <3>1, <3>2, WroteFacts
      <4>2. HeaderPending(n0) = FALSE
        BY <2>2, <1>1 DEF HeaderPending, Node
      <4>3. Synced(v) => ReadBracket(v.rd) = EndOfTag(v.rd)
        BY <1>4, <2>2 DEF ReadBracket
      <4> QED BY <4>1, <4>2, <4>3
    <3> QED BY <1>2, <3>3, <3>4
  <2>3. CASE t.kind = "doc"
    <3>1. u = SetTop(v, n0)
      BY <2>3 DEF Opened, MarkOpened
    <3>2. Set(n0) /\ u.rd = v.rd
      BY <1>1, <1>2, <3>1, SetTopFacts
    <3>3. HeaderPending(n0) = HeaderPending(t)
      BY <1>1, <2>3 DEF HeaderPending, NamedKinds, Node
    <3> QED BY <1>2, <3>2, <3>3
  <2>4. CASE t.kind \in {"comment", "cdata", "dtdattlist"}
    <3> DEFINE leaf == IF t.kind = "comment" THEN "commentcontent"
                       ELSE IF t.kind = "cdata" THEN "cdatacontent" ELSE "dtdattr"
    <3>1. u = OpenedWithBody(v, leaf)
      BY <2>4 DEF Opened
    <3>2. HeaderPending(n0) = HeaderPending(t) /\ HeaderPending(n1) = HeaderPending(t)
      BY <1>1, <2>4 DEF HeaderPending, NamedKinds, Node
    <3>3. Synced(v) => ReadLeaf(v.rd, leaf) = v.rd
      <4>1. ASSUME Synced(v) PROVE Admits(v.rd, leaf)
        <5>1. v.rd.cell[v.cur] = CellOf(t) /\ v.rd.top = v.cur
          BY <1>1, <4>1 DEF Synced, Top, Writers
        <5>2. CellOf(t).kind = t.kind /\ CellOf(t).tag = (t.kind = "dtdattlist")
          BY <2>4 DEF CellOf, HeaderPending, NamedKinds
        <5> QED BY <2>4, <5>1, <5>2 DEF Admits, InTag, InBody
      <4> QED BY <4>1 DEF ReadLeaf, Synced
    <3>4. CASE t.body = "none"
      <4>1. u = SetTop(v, n0)
        BY <3>1, <3>4 DEF OpenedWithBody, MarkOpened
      <4>2. Set(n0) /\ u.rd = v.rd
        BY <1>1, <1>2, <4>1, SetTopFacts
      <4> QED BY <1>2, <4>2, <3>2
    <3>5. CASE t.body = "ok"
      <4>1. u = Wrote(SetTop(v, n1), ReadLeaf(v.rd, leaf))
        BY <3>1, <3>5 DEF OpenedWithBody
      <4>2. n1 \in Node /\ Like(n1)
        BY <1>3, <2>4
      <4>3. SetTop(v, n1) \in Writers /\ ReadLeaf(v.rd, leaf) \in Readers
        BY <1>1, <4>2, SetTopFacts, ReaderTypes DEF Startables
      <4>4. Set(n1) /\ u.rd = ReadLeaf(v.rd, leaf)
        <5>1. SetTop(v, n1).cur = v.cur /\ SetTop(v, n1).node = [v.node EXCEPT ![v.cur] = n1]
          BY <1>1, <4>2, SetTopFacts
        <5> QED BY <4>1, <4>3, <5>1, WroteFacts
      <4> QED BY <4>2, <4>4, <3>2, <3>3
    <3>6. CASE t.body = "bad"
      <4>1. u = Outcome(SetTop(v, n0), "dropped")
        BY <3>1, <3>6 DEF OpenedWithBody, MarkOpened
      <4>2. Set(n0) /\ u.rd = v.rd
        BY <1>1, <1>2, <4>1, SetTopFacts, OutcomeFacts DEF Errors
      <4> QED BY <1>2, <4>2, <3>2
    <3>7. CASE t.body = "torn"
      <4>1. u = Outcome(Wrote(SetTop(v, n2), Lost), "failed")
        BY <3>1, <3>7 DEF OpenedWithBody
      <4>2. n2 \in Node /\ Like(n2)
        BY <1>3, <2>4
      <4>3. SetTop(v, n2) \in Writers /\ Lost \in Readers
        BY <1>1, <4>2, SetTopFacts, LostTypes
      <4>4. Set(n2) /\ u.err = "failed"
        <5>1. SetTop(v, n2).cur = v.cur /\ SetTop(v, n2).node = [v.node EXCEPT ![v.cur] = n2]
          BY <1>1, <4>2, SetTopFacts
        <5> DEFINE x == Wrote(SetTop(v, n2), Lost)
        <5>2. x \in Writers /\ x.cur = v.cur /\ x.node = [v.node EXCEPT ![v.cur] = n2]
          BY <4>3, <5>1, WroteFacts
        <5> HIDE DEF x
        <5>3. Outcome(x, "failed") \in Writers /\ Outcome(x, "failed").cur = x.cur
              /\ Outcome(x, "failed").node = x.node /\ Outcome(x, "failed").err = "failed"
          BY <5>2, OutcomeFacts DEF Errors
        <5> USE DEF x
        <5> QED BY <4>1, <5>2, <5>3
      <4> QED BY <4>2, <4>4
    <3> QED BY <3>4, <3>5, <3>6, <3>7, <1>1, BodiesAssumption DEF Node
  <2> QED BY <2>0, <2>1, <2>2, <2>3, <2>4, <1>1 DEF Node, Startables
<1>6. Fit(n) /\ n.kind = Top(v).kind /\ n.name = Top(v).name
  BY <1>5
<1>7. u \in Writers /\ u.cur = v.cur /\ u.node = [v.node EXCEPT ![v.cur] = n]
  BY <1>5
<1>8. \/ u.rd = v.rd /\ HeaderPending(n) = HeaderPending(Top(v))
      \/ Synced(v) => u.rd = EndOfTag(v.rd) /\ HeaderPending(n) = FALSE
      \/ u.err = "failed"
  BY <1>5
<1>9. Keeps(v, u) /\ Top(u) = n
  <2> HIDE DEF u, t, n0, n1, n2, Set, Late, Like
  <2> QED BY <1>6, <1>7, <1>8, HeaderKeeps
<1> QED BY <1>5, <1>9

(* Writer.Next leaves a current node that is opened and has a child.       *)
Receptive(v) == v.cur >= 0 => Top(v).state = "opened" /\ Top(v).kids

(* So does Writer.Next, and a child can then be written.                   *)
LEMMA NextChildKeeps ==
  ASSUME NEW v, Shape(v), v.err = "nil"
  PROVE  /\ Keeps(v, NextChild(v)) /\ Receptive(NextChild(v))
         /\ NextChild(v).cur = v.cur
         /\ CurrentKind(NextChild(v)) = CurrentKind(v)
<1>1. CASE v.cur < 0
  BY <1>1 DEF NextChild, Keeps, Receptive, Shape, Writers
<1>2. CASE v.cur >= 0
  <2> DEFINE t == Top(v)
             n == [t EXCEPT !.kids = TRUE]
             c == Counted(v)
  <2>1. v \in Writers /\ v.cur \in Slots /\ Fit(t) /\ t \in Node
    BY <1>2, TopFacts DEF Shape
  <2>2. n \in Node /\ Fit(n)
    BY <2>1 DEF Node, Fit
  <2>3. c \in Writers /\ c.cur = v.cur /\ c.rd = v.rd /\ c.node = [v.node EXCEPT ![v.cur] = n]
        /\ c.err = "nil"
    BY <1>2, <2>1, <2>2, SetTopFacts DEF Counted
  <2>4. HeaderPending(n) = HeaderPending(t) /\ n.kind = t.kind /\ n.name = t.name
        /\ n.state = t.state /\ n.kids
    BY <2>1 DEF HeaderPending, Node
  <2>5. Keeps(v, c) /\ Top(c) = n
    BY <1>2, <2>2, <2>3, <2>4, HeaderKeeps, ZenonT(40)
  <2>6. CASE t.state = "open"
    <3>1. NextChild(v) = Opened(c)
      BY <1>2, <2>1, <2>6 DEF NextChild, Writers
    <3>2. Shape(c) /\ c.cur >= 0 /\ Top(c).state = "open" /\ Stays(Top(c))
      BY <1>2, <2>3, <2>4, <2>5, <2>6 DEF Keeps, Stays
    <3>3. /\ Keeps(c, Opened(c)) /\ Opened(c).cur = c.cur
          /\ Top(Opened(c)).state = "opened" /\ Top(Opened(c)).kids
          /\ Top(Opened(c)).kind = t.kind
      BY <3>2, <2>4, <2>5, OpenedKeeps
    <3>4. Keeps(v, Opened(c))
      BY <2>3, <2>5, <3>3 DEF Keeps
    <3> QED BY <1>2, <2>1, <2>3, <3>1, <3>3, <3>4 DEF Receptive, CurrentKind, Writers
  <2>7. CASE t.state # "open"
    <3>1. NextChild(v) = c
      BY <1>2, <2>1, <2>7 DEF NextChild, Writers
    <3>2. Top(c).state = "opened" /\ Top(c).kids /\ Top(c).kind = t.kind
      BY <2>1, <2>4, <2>5, <2>7 DEF Node
    <3> QED BY <1>2, <2>1, <2>3, <2>5, <3>1, <3>2 DEF Receptive, CurrentKind, Writers
  <2> QED BY <2>6, <2>7
<1> QED BY <1>1, <1>2, TopFacts DEF Shape, Writers

(* What a node of kind k takes as a child once it is opened.               *)
Takes(k, x) == x \in IF k = "dtdattlist" THEN InTag(k) ELSE InBody(k)

(* Below a node that is opened, the observer admits what the node takes.   *)
LEMMA OpenedAdmits ==
  ASSUME NEW v, Shape(v), Synced(v), Receptive(v), NEW x,
         v.cur >= 0 => Takes(Top(v).kind, x)
  PROVE  Admits(v.rd, x)
<1>1. CASE v.cur < 0
  <2>1. v.rd.top = -1
    BY <1>1, MaxDepthAssumption DEF Shape, Writers, Synced
  <2> QED BY <2>1 DEF Admits
<1>2. CASE v.cur >= 0
  <2>1. v.rd.cell[v.cur] = CellOf(Top(v)) /\ v.rd.top = v.cur
    BY <1>2, TopFacts DEF Synced, Shape, Top, Writers
  <2>2. CellOf(Top(v)).kind = Top(v).kind /\ CellOf(Top(v)).tag = (Top(v).kind = "dtdattlist")
    BY <1>2 DEF CellOf, HeaderPending, Receptive
  <2> QED BY <1>2, <2>1, <2>2 DEF Admits, Takes
<1> QED BY <1>1, <1>2 DEF Shape, Writers

-----------------------------------------------------------------------------
(* Start and the leaves. *)

(* Pushing onto a parent whose header is done. *)
LEMMA PushFacts ==
  ASSUME NEW v, Shape(v), Receptive(v), v.cur + 1 < MaxDepth,
         NEW n, Fit(n)
  PROVE  /\ Shape(Push(v, n))
         /\ Push(v, n).cur = v.cur + 1 /\ Push(v, n).rd = v.rd /\ Push(v, n).err = v.err
         /\ v.cur + 1 \in Slots
         /\ Top(Push(v, n)) = n
         /\ \A s \in Slots : s <= v.cur => Push(v, n).node[s] = v.node[s]
<1>1. v \in Writers /\ v.cur + 1 \in Slots /\ n \in Node
  BY MaxDepthAssumption DEF Shape, Writers, Slots, Fit
<1>2. [v.node EXCEPT ![v.cur + 1] = n] \in [Slots -> Node \cup {NoNode}]
  BY <1>1 DEF Writers
<1>3. v.cur + 1 \in -1 .. MaxDepth - 1
  BY <1>1, MaxDepthAssumption DEF Slots
<1>4. Push(v, n) \in Writers
  BY <1>1, <1>2, <1>3 DEF Push, Writers
<1>5. Push(v, n).cur = v.cur + 1 /\ Push(v, n).rd = v.rd /\ Push(v, n).err = v.err
  BY <1>1 DEF Push, Writers
<1>6. /\ Push(v, n).node[v.cur + 1] = n
      /\ \A s \in Slots : s # v.cur + 1 => Push(v, n).node[s] = v.node[s]
  BY <1>1 DEF Push, Writers
<1>7. Shape(Push(v, n))
  <2>1. \A s \in Slots : s <= v.cur + 1 => Fit(Push(v, n).node[s])
    BY <1>1, <1>6 DEF Shape, Slots, Writers
  <2>2. \A s \in Slots : s > v.cur + 1 => Push(v, n).node[s] = NoNode
    BY <1>1, <1>6 DEF Shape, Slots, Writers
  <2>3. \A s \in Slots : s < v.cur + 1 => Push(v, n).node[s].state = "opened" /\ Push(v, n).node[s].kids
    BY <1>1, <1>6 DEF Shape, Slots, Writers, Receptive, Top
  <2> QED BY <1>4, <1>5, <2>1, <2>2, <2>3 DEF Shape
<1> QED BY <1>1, <1>5, <1>6, <1>7 DEF Top, Slots, Writers

(* The shape is that of the stack alone.                                   *)
LEMMA ShapeSame ==
  ASSUME NEW v, Shape(v), NEW u \in Writers, u.cur = v.cur, u.node = v.node
  PROVE  Shape(u)
BY DEF Shape

(* node.open, whatever goes wrong in it, leads to a writer in step.        *)
LEMMA OpenNodeLeads ==
  ASSUME NEW v, Shape(v), Receptive(v), v.cur + 1 < MaxDepth,
         NEW n, Fit(n), n.state = "open", v.cur >= 0 => Takes(Top(v).kind, n.kind),
         NEW fault \in {"none", "header", "attrs", "decl"}
  PROVE  Leads(v, OpenNode(Push(v, n), fault))
<1> DEFINE p  == Push(v, n)
           rd == ReadOpen(p.rd, n.kind, n.name)
<1>1. /\ Shape(p) /\ p \in Writers /\ p.rd \in Readers
      /\ p.cur = v.cur + 1 /\ p.rd = v.rd /\ p.err = v.err
      /\ v.cur + 1 \in Slots /\ Top(p) = n
      /\ \A s \in Slots : s <= v.cur => p.node[s] = v.node[s]
  BY PushFacts DEF Shape, Writers
<1>2. n \in Node /\ n.kind \in Startables /\ n.name \in Names \cup {NoName}
  BY DEF Fit, Node
<1> HIDE DEF p
<1>3. rd \in Readers /\ Lost \in Readers
  BY <1>1, <1>2, ReaderTypes, LostTypes
<1> HIDE DEF rd
<1>4. Wrote(p, rd) \in Writers /\ Wrote(p, rd).cur = p.cur /\ Wrote(p, rd).node = p.node
      /\ Wrote(p, rd).rd = rd
  BY <1>1, <1>3, WroteFacts
<1>5. Wrote(p, Lost) \in Writers /\ Wrote(p, Lost).cur = p.cur /\ Wrote(p, Lost).node = p.node
  BY <1>1, <1>3, WroteFacts
<1>6. ASSUME NEW x \in Writers, x.cur = p.cur, x.node = p.node
      PROVE  Leads(v, Outcome(x, "failed"))
  <2>1. /\ Outcome(x, "failed") \in Writers /\ Outcome(x, "failed").cur = p.cur
        /\ Outcome(x, "failed").node = p.node /\ Outcome(x, "failed").err = "failed"
    BY <1>6, OutcomeFacts DEF Errors
  <2>2. Shape(Outcome(x, "failed"))
    BY <1>1, <2>1, ShapeSame
  <2> QED BY <2>1, <2>2 DEF Leads, Tearing
<1>7. CASE fault = "none"
  <2>1. OpenNode(p, fault) = Wrote(p, rd)
    BY <1>1, <1>7 DEF OpenNode, rd
  <2>2. Shape(Wrote(p, rd))
    BY <1>1, <1>4, ShapeSame
  <2>3. ASSUME Synced(v)
        PROVE  Synced(Wrote(p, rd))
    <3>1. Admits(v.rd, n.kind)
      BY <2>3, OpenedAdmits
    <3>2. v.rd.ok /\ v.rd.top = v.cur /\ v.rd.top + 1 \in Slots
      BY <1>1, <2>3 DEF Synced
    <3>3. rd = Descend(v.rd, n.kind, n.name, n.kind \in NamedKinds)
      BY <1>1, <3>1, <3>2 DEF ReadOpen, rd
    <3>4. /\ rd.ok /\ rd.top = v.cur + 1
          /\ rd.cell[v.cur + 1] = [kind |-> n.kind, name |-> n.name, tag |-> n.kind \in NamedKinds]
          /\ \A s \in Slots : s # v.cur + 1 => rd.cell[s] = v.rd.cell[s]
      BY <1>1, <3>2, <3>3, DescendFacts
    <3>5. HeaderPending(n) = (n.kind \in NamedKinds)
      BY DEF HeaderPending, NamedKinds
    <3>6. rd.cell[v.cur + 1] = CellOf(n)
      BY <3>4, <3>5 DEF CellOf
    <3>7. ASSUME NEW s \in Slots, s <= v.cur + 1
          PROVE  rd.cell[s] = CellOf(p.node[s])
      <4>1. CASE s = v.cur + 1
        BY <1>1, <3>6, <4>1 DEF Top
      <4>2. CASE s # v.cur + 1
        <5>1. s <= v.cur
          BY <3>7, <4>2 DEF Slots, Shape, Writers
        <5> QED BY <1>1, <2>3, <3>4, <4>2, <5>1 DEF Synced
      <4> QED BY <4>1, <4>2
    <3> QED BY <1>1, <1>4, <3>4, <3>7 DEF Synced
  <2> QED BY <2>1, <2>2, <2>3 DEF Leads, p
<1>8. CASE fault = "header"
  <2>1. OpenNode(p, fault) = Outcome(p, "failed")
    BY <1>8 DEF OpenNode
  <2>2. Leads(v, Outcome(p, "failed"))
    BY <1>1, <1>6
  <2> QED BY <2>1, <2>2 DEF p
<1>9. CASE fault = "attrs"
  <2>1. OpenNode(p, fault) = Outcome(Wrote(p, rd), "failed")
    BY <1>1, <1>9 DEF OpenNode, rd
  <2> QED BY <1>4, <1>6, <2>1 DEF p
<1>10. CASE fault = "decl"
  <2>1. OpenNode(p, fault) = Outcome(Wrote(p, Lost), "failed")
    BY <1>10 DEF OpenNode
  <2> QED BY <1>5, <1>6, <2>1 DEF p
<1> QED BY <1>7, <1>8, <1>9, <1>10 DEF p

(* So does the whole of a Start.                                           *)
LEMMA StartNodeLeads ==
  ASSUME NEW v, Shape(v), v.err = "nil", v.cur + 1 < MaxDepth,
         NEW n, Fit(n), n.state = "open",
         NEW parents, \A k \in parents \ {"none"} : Takes(k, n.kind),
         NEW fault \in {"none", "header", "attrs", "decl"}
  PROVE  Leads(v, StartNode(v, parents, n, fault))
<1>1. CASE ~CheckParent(v, parents)
  <2>1. v \in Writers
    BY DEF Shape
  <2>2. Outcome(v, "rejected") \in Writers /\ Outcome(v, "rejected").cur = v.cur
        /\ Outcome(v, "rejected").node = v.node /\ Outcome(v, "rejected").rd = v.rd
    BY <2>1, OutcomeFacts DEF Errors
  <2> QED BY <1>1, <2>2, ShapeSame DEF StartNode, Leads, Synced
<1>2. CASE CheckParent(v, parents)
  <2> DEFINE c == NextChild(v)
  <2>1. Keeps(v, c) /\ Receptive(c) /\ c.cur = v.cur /\ CurrentKind(c) = CurrentKind(v)
    BY NextChildKeeps
  <2>2. StartNode(v, parents, n, fault) = IF c.err = "nil" THEN OpenNode(Push(c, n), fault) ELSE c
    BY <1>2 DEF StartNode
  <2> HIDE DEF c
  <2>3. c.cur >= 0 => Takes(Top(c).kind, n.kind)
    <3>1. ASSUME c.cur >= 0
          PROVE  Top(c).kind \in parents \ {"none"}
      <4>1. CurrentKind(c) = Top(c).kind /\ Top(c).kind \in Startables
        BY <2>1, <3>1, TopFacts DEF CurrentKind, Keeps, Shape, Writers, Node
      <4> QED BY <1>2, <2>1, <4>1 DEF CheckParent, Startables
    <3> QED BY <3>1
  <2>4. Shape(c) /\ Receptive(c) /\ c.cur + 1 < MaxDepth
    BY <2>1 DEF Keeps
  <2>5. Leads(c, OpenNode(Push(c, n), fault))
    BY <2>3, <2>4, OpenNodeLeads
  <2>6. c.err = "nil" => Leads(v, OpenNode(Push(c, n), fault))
    BY <2>1, <2>5 DEF Leads, Keeps
  <2>7. Leads(v, c)
    BY <2>1 DEF Leads, Keeps, Tearing
  <2> QED BY <2>2, <2>6, <2>7
<1> QED BY <1>1, <1>2

(* And the writing of a leaf.                                              *)
LEMMA WriteLeafLeads ==
  ASSUME NEW v, Shape(v), v.err = "nil", NEW leaf, NEW parents, \A k \in parents \ {"none"} : Takes(k, leaf),
         NEW fault
  PROVE  Leads(v, WriteLeaf(v, parents, leaf, fault))
<1>1. CASE ~CheckParent(v, parents) \/ fault = "early"
  <2>1. v \in Writers
    BY DEF Shape
  <2>2. Outcome(v, "rejected") \in Writers /\ Outcome(v, "rejected").cur = v.cur
        /\ Outcome(v, "rejected").node = v.node /\ Outcome(v, "rejected").rd = v.rd
    BY <2>1, OutcomeFacts DEF Errors
  <2> QED BY <1>1, <2>2, ShapeSame DEF WriteLeaf, Leads, Synced
<1>2. CASE CheckParent(v, parents) /\ fault # "early"
  <2> DEFINE c == NextChild(v)
             torn == fault = "late" \/ c.err = "failed"
             rd == IF torn THEN Lost ELSE ReadLeaf(c.rd, leaf)
             e  == IF fault = "late" THEN "failed" ELSE IF c.err = "failed" THEN "swallowed" ELSE "nil"
             u  == Outcome(Wrote(c, rd), e)
  <2>1. Keeps(v, c) /\ Receptive(c) /\ c.cur = v.cur /\ CurrentKind(c) = CurrentKind(v)
    BY NextChildKeeps
  <2>2. WriteLeaf(v, parents, leaf, fault) = u
    BY <1>2 DEF WriteLeaf
  <2> HIDE DEF c
  <2>3. c \in Writers /\ c.rd \in Readers /\ Shape(c)
    BY <2>1 DEF Keeps, Shape, Writers
  <2>4. rd \in Readers
    <3>1. ReadLeaf(c.rd, leaf) \in Readers
      BY <2>3, LostTypes DEF ReadLeaf
    <3> QED BY <3>1, LostTypes
  <2>5. e \in Errors
    BY DEF Errors
  <2>6. ~torn /\ Synced(c) => rd = c.rd
    <3>1. ASSUME Synced(c), c.cur >= 0
          PROVE  Takes(Top(c).kind, leaf)
      <4>1. CurrentKind(c) = Top(c).kind /\ Top(c).kind \in Startables
        BY <2>3, <3>1, TopFacts DEF CurrentKind, Writers, Node
      <4> QED BY <1>2, <2>1, <4>1 DEF CheckParent, Startables
    <3>2. Synced(c) => Admits(c.rd, leaf)
      BY <2>1, <2>3, <3>1, OpenedAdmits
    <3> QED BY <3>2 DEF ReadLeaf, Synced
  <2>7. torn => e \in Tearing
    BY DEF Tearing
  <2> HIDE DEF rd, e
  <2> DEFINE x == Wrote(c, rd)
  <2>8. x \in Writers /\ x.cur = c.cur /\ x.node = c.node /\ x.rd = rd
    BY <2>3, <2>4, WroteFacts
  <2> HIDE DEF x
  <2>9. u \in Writers /\ u.cur = x.cur /\ u.node = x.node /\ u.rd = x.rd /\ u.err = e
    BY <2>5, <2>8, OutcomeFacts DEF x
  <2> HIDE DEF u
  <2>10. Shape(u)
    BY <2>3, <2>8, <2>9, ShapeSame
  <2>11. ~torn /\ Synced(c) => Synced(u)
    BY <2>6, <2>8, <2>9 DEF Synced
  <2>12. ~torn => c.err # "failed"
    OBVIOUS
  <2> HIDE DEF torn
  <2> QED BY <2>12, <2>1, <2>2, <2>7, <2>9, <2>10, <2>11 DEF Leads, Keeps
<1> QED BY <1>1, <1>2

-----------------------------------------------------------------------------
(* pop and node.end. *)

(* The node that is dropped no longer matters: what the writer and the     *)
(* observer hold below it does.                                            *)
LEMMA DropKeeps ==
  ASSUME NEW v, Shape(v), v.cur >= 0,
         NEW o \in Writers, o.cur = v.cur,
         \A s \in Slots : s # v.cur => o.node[s] = v.node[s]
  PROVE  /\ Shape(Drop(o))
         /\ Drop(o).cur = v.cur - 1 /\ Drop(o).rd = o.rd /\ Drop(o).err = o.err
         /\ Synced(v) /\ o.rd = Ascend(v.rd) => Synced(Drop(o))
<1>1. v \in Writers /\ v.cur \in Slots /\ v.rd \in Readers
  BY TopFacts DEF Shape, Writers
<1>2. [o.node EXCEPT ![o.cur] = NoNode] \in [Slots -> Node \cup {NoNode}]
  BY <1>1 DEF Writers
<1>3. v.cur - 1 \in -1 .. MaxDepth - 1
  BY <1>1, MaxDepthAssumption DEF Slots
<1>4. /\ Drop(o) \in Writers
      /\ Drop(o).cur = v.cur - 1 /\ Drop(o).rd = o.rd /\ Drop(o).err = o.err
      /\ Drop(o).node = [o.node EXCEPT ![o.cur] = NoNode]
  BY <1>2, <1>3 DEF Drop, Writers
<1>5. Drop(o).node[v.cur] = NoNode /\ \A s \in Slots : s # v.cur => Drop(o).node[s] = v.node[s]
  BY <1>1, <1>4 DEF Writers
<1>6. Shape(Drop(o))
  <2>1. \A s \in Slots : s <= v.cur - 1 => Fit(Drop(o).node[s])
    BY <1>1, <1>5 DEF Shape, Slots
  <2>2. \A s \in Slots : s > v.cur - 1 => Drop(o).node[s] = NoNode
    BY <1>1, <1>5 DEF Shape, Slots
  <2>3. \A s \in Slots : s < v.cur - 1 => Drop(o).node[s].state = "opened" /\ Drop(o).node[s].kids
    BY <1>1, <1>5 DEF Shape, Slots
  <2> QED BY <1>4, <2>1, <2>2, <2>3 DEF Shape
<1>7. ASSUME Synced(v), o.rd = Ascend(v.rd)
      PROVE  Synced(Drop(o))
  <2>1. v.rd.ok /\ v.rd.top = v.cur /\ v.rd.top >= 0
    BY <1>7 DEF Synced
  <2>4. o.rd.ok /\ o.rd.top = v.cur - 1 /\ \A s \in Slots : s # v.cur => o.rd.cell[s] = v.rd.cell[s]
    BY <1>1, <1>7, <2>1, AscendFacts
  <2>5. ASSUME NEW s \in Slots, s <= v.cur - 1
        PROVE  o.rd.cell[s] = CellOf(Drop(o).node[s])
    <3>1. s # v.cur /\ s <= v.cur
      BY <1>1, <2>5 DEF Slots
    <3> QED BY <1>5, <1>7, <2>4, <3>1 DEF Synced
  <2> QED BY <1>4, <2>4, <2>5 DEF Synced
<1> QED BY <1>4, <1>6, <1>7

(* The end of a node that has been opened: its lexeme is one the observer  *)
(* waits for.                                                              *)
LEMMA EndedLeads ==
  ASSUME NEW v, Shape(v), v.cur >= 0, Top(v).state = "opened", NEW prev,
         Top(v).kind = "elem" /\ prev = "open" => Top(v).full \/ Top(v).kids
  PROVE  Leads(v, Drop(Ended(v, prev)))
<1> DEFINE t == Top(v)
           o == Ended(v, prev)
<1>1. v \in Writers /\ v.cur \in Slots /\ v.rd \in Readers /\ Fit(t) /\ t \in Node
  BY TopFacts DEF Shape, Writers
<1>2. t.kind \in Startables /\ t.name \in Names \cup {NoName}
  BY <1>1 DEF Node
<1>3. Synced(v) => /\ v.rd.ok /\ v.rd.top = v.cur /\ v.rd.top >= 0
                   /\ v.rd.cell[v.rd.top].kind = t.kind
                   /\ v.rd.cell[v.rd.top].name = t.name
                   /\ v.rd.cell[v.rd.top].tag = (t.kind = "dtdattlist")
  <2>1. HeaderPending(t) = (t.kind = "dtdattlist")
    BY DEF HeaderPending
  <2>2. Synced(v) => v.rd.cell[v.cur] = CellOf(t)
    BY <1>1 DEF Synced, Top, Writers
  <2> QED BY <2>1, <2>2 DEF Synced, CellOf
<1>4. t.kind # "dtdattlist" /\ Synced(v) => ReadClose(v.rd, t.kind, t.name) = Ascend(v.rd)
  BY <1>3 DEF ReadClose, TopIs
<1>5. t.kind = "dtdattlist" /\ Synced(v) => ReadGt(v.rd) = Ascend(v.rd)
  BY <1>3 DEF ReadGt, TopIs
<1>6. PICK rd \in Readers : o = Wrote(v, rd) /\ (Synced(v) => rd = Ascend(v.rd))
  <2>1. ReadClose(v.rd, t.kind, t.name) \in Readers /\ ReadGt(v.rd) \in Readers
    BY <1>1, <1>2, ReaderTypes
  <2>2. CASE t.kind = "elem"
    <3>1. o = Wrote(v, ReadClose(v.rd, t.kind, t.name))
      BY <2>2 DEF Ended
    <3> QED BY <1>4, <2>1, <2>2, <3>1
  <2>3. CASE t.kind = "dtd"
    <3>1. t.kids
      BY <1>1, <2>3 DEF Fit
    <3>2. o = Wrote(v, ReadClose(v.rd, t.kind, t.name))
      BY <2>3, <3>1 DEF Ended
    <3> QED BY <1>4, <2>1, <2>3, <3>2
  <2>4. CASE t.kind = "dtdattlist"
    <3>1. o = Wrote(v, ReadGt(v.rd))
      BY <2>4 DEF Ended
    <3> QED BY <1>5, <2>1, <2>4, <3>1
  <2>5. CASE t.kind \in {"comment", "cdata", "doc"}
    <3>1. t.name = NoName
      BY <1>1, <2>5 DEF Fit, NamedKinds
    <3>2. o = Wrote(v, ReadClose(v.rd, t.kind, t.name))
      BY <2>5, <3>1 DEF Ended
    <3> QED BY <1>4, <2>1, <2>5, <3>2
  <2> QED BY <1>2, <2>2, <2>3, <2>4, <2>5 DEF Startables
<1>7. o \in Writers /\ o.cur = v.cur /\ o.node = v.node /\ o.rd = rd
  BY <1>1, <1>6, WroteFacts
<1> HIDE DEF o
<1>8. Shape(Drop(o)) /\ (Synced(v) => Synced(Drop(o)))
  BY <1>6, <1>7, DropKeeps
<1> QED BY <1>8 DEF Leads, o

(* node.end, with the opened it may call first. *)
LEMMA EndNodeLeads ==
  ASSUME NEW v, Shape(v), v.cur >= 0, v.err = "nil"
  PROVE  Leads(v, EndNode(v))
<1> DEFINE t == Top(v)
           n == [t EXCEPT !.state = "opened", !.ns = "none"]
<1>1. v \in Writers /\ v.cur \in Slots /\ v.rd \in Readers /\ Fit(t) /\ t \in Node
  BY TopFacts DEF Shape, Writers
<1>2. CASE t.state = "opened"
  <2>1. EndNode(v) = Drop(Ended(v, "opened"))
    BY <1>2 DEF EndNode, OpenedForEnd
  <2> QED BY <1>2, <2>1, EndedLeads
<1>3. CASE t.state = "open" /\ Stays(t)
  <2> DEFINE o == Opened(v)
  <2>1. EndNode(v) = IF o.err = "nil" THEN Drop(Ended(o, "open")) ELSE o
    BY <1>3 DEF EndNode, OpenedForEnd
  <2>2. /\ Keeps(v, o) /\ o.cur = v.cur
        /\ Top(o).kind = t.kind /\ Top(o).state = "opened" /\ Top(o).full = t.full
        /\ t.kids => Top(o).kids
    BY <1>3, OpenedKeeps
  <2> HIDE DEF o
  <2>3. Shape(o) /\ o.cur >= 0
    BY <2>2 DEF Keeps
  <2>4. Top(o).kind = "elem" => Top(o).full \/ Top(o).kids
    BY <1>3, <2>2 DEF Stays
  <2>5. Leads(o, Drop(Ended(o, "open")))
    BY <2>2, <2>3, <2>4, EndedLeads
  <2>6. (o.err = "nil" => Leads(v, Drop(Ended(o, "open")))) /\ Leads(v, o)
    BY <2>2, <2>5 DEF Leads, Keeps, Tearing
  <2> QED BY <2>1, <2>6
<1>5. CASE t.state = "open" /\ ~Stays(t) /\ t.kind = "elem" /\ t.ns = "bad"
  <2> DEFINE m == MarkOpened(v)
  <2>1. n \in Node /\ Fit(n)
    BY <1>1, <1>5 DEF Node, Fit, Pending
  <2>2. m \in Writers /\ m.cur = v.cur /\ m.node = [v.node EXCEPT ![v.cur] = n]
    BY <1>1, <2>1, SetTopFacts DEF MarkOpened
  <2>3. EndNode(v) = Outcome(m, "failed")
    <3>1. Opened(v) = Outcome(m, "failed")
      BY <1>5 DEF Opened, OpenedElem
    <3>2. Outcome(m, "failed").err = "failed"
      BY <2>2, OutcomeFacts DEF Errors
    <3> HIDE DEF m
    <3> QED BY <1>5, <3>1, <3>2 DEF EndNode, OpenedForEnd
  <2> HIDE DEF m, n
  <2>4. /\ Outcome(m, "failed") \in Writers /\ Outcome(m, "failed").cur = v.cur
        /\ Outcome(m, "failed").node = [v.node EXCEPT ![v.cur] = n]
        /\ Outcome(m, "failed").err = "failed"
    BY <2>2, OutcomeFacts DEF Errors
  <2>5. Shape(Outcome(m, "failed"))
    BY <2>1, <2>4, Retopped
  <2> QED BY <2>3, <2>4, <2>5 DEF Leads, Tearing
<1>4. CASE t.state = "open" /\ ~Stays(t) /\ ~(t.kind = "elem" /\ t.ns = "bad")
  <2> DEFINE m == MarkOpened(v)
  <2>0. Declared(v) \in Readers /\ (Synced(v) /\ t.kind = "elem" => Declared(v) = v.rd)
    BY <1>4, DeclaredFacts
  <2>1. n \in Node
    BY <1>1 DEF Node, Pending
  <2>2. m \in Writers /\ m.cur = v.cur /\ m.rd = v.rd /\ m.err = "nil"
        /\ m.node = [v.node EXCEPT ![v.cur] = n]
    BY <1>1, <2>1, SetTopFacts DEF MarkOpened
  <2>3. Top(m) = n /\ \A s \in Slots : s # v.cur => m.node[s] = v.node[s]
    BY <1>1, <2>2 DEF Top, Writers
  <2>4. n.kind = t.kind /\ n.kids = t.kids /\ n.full = t.full
    BY <1>1 DEF Node
  <2> HIDE DEF m
  <2>5. Synced(v) => v.rd.ok /\ TopIs(v.rd, t.kind, TRUE)
    <3>1. v.rd.top = v.cur => v.rd.top >= 0
      OBVIOUS
    <3>2. HeaderPending(t) = TRUE
      BY <1>4 DEF HeaderPending, Stays, NamedKinds
    <3>3. Synced(v) => v.rd.cell[v.cur] = CellOf(t)
      BY <1>1 DEF Synced, Top, Writers
    <3>4. CellOf(t).kind = t.kind /\ CellOf(t).tag = TRUE
      BY <3>2 DEF CellOf
    <3> QED BY <3>1, <3>3, <3>4 DEF Synced, TopIs
  <2>6. PICK rd \in Readers : /\ EndNode(v) = Drop(Wrote(m, rd))
                              /\ Synced(v) => rd = Ascend(v.rd)
    <3>1. ReadEmptyTagEnd(Declared(v)) \in Readers /\ ReadGt(v.rd) \in Readers
      BY <1>1, <2>0, ReaderTypes DEF Startables
    <3>2. CASE t.kind = "elem"
      <4> DEFINE o == Wrote(m, ReadEmptyTagEnd(Declared(v)))
      <4>1. Opened(v) = o
        BY <1>4, <3>2 DEF Opened, OpenedElem, Stays, m
      <4>2. o.err = "nil" /\ o.cur = m.cur /\ o.node = m.node
        BY <2>2, <3>1, WroteFacts
      <4>3. Top(o) = n
        BY <2>3, <4>2 DEF Top
      <4> HIDE DEF o
      <4>4. Ended(o, "open") = o
        BY <1>4, <2>4, <3>2, <4>3 DEF Ended, Stays
      <4>5. EndNode(v) = Drop(o)
        BY <1>4, <4>1, <4>2, <4>4 DEF EndNode, OpenedForEnd
      <4>6. Synced(v) => ReadEmptyTagEnd(Declared(v)) = Ascend(v.rd)
        BY <2>0, <2>5, <3>2 DEF ReadEmptyTagEnd
      <4> QED BY <3>1, <4>5, <4>6 DEF o
    <3>3. CASE t.kind = "dtd"
      <4>1. Opened(v) = m
        BY <1>4, <3>3 DEF Opened, OpenedDTD, Stays, m
      <4>2. Ended(m, "open") = Wrote(m, ReadGt(v.rd))
        BY <1>4, <2>2, <2>3, <2>4, <3>3 DEF Ended, Stays
      <4>3. EndNode(v) = Drop(Wrote(m, ReadGt(v.rd)))
        BY <1>4, <2>2, <4>1, <4>2 DEF EndNode, OpenedForEnd
      <4>4. Synced(v) => ReadGt(v.rd) = Ascend(v.rd)
        BY <2>5, <3>3 DEF ReadGt, TopIs
      <4> QED BY <3>1, <4>3, <4>4
    <3> QED BY <1>4, <3>2, <3>3 DEF Stays
  <2> DEFINE u == Wrote(m, rd)
  <2>7. u \in Writers /\ u.cur = v.cur /\ u.node = m.node /\ u.rd = rd
    BY <2>2, <2>6, WroteFacts
  <2> HIDE DEF u
  <2>8. Shape(Drop(u)) /\ (Synced(v) => Synced(Drop(u)))
    BY <2>3, <2>6, <2>7, DropKeeps
  <2> QED BY <2>6, <2>8 DEF Leads, u
<1> QED BY <1>1, <1>2, <1>3, <1>4, <1>5 DEF Node

(* An end that names a kind, and the pop of what is current.               *)
LEMMA EndKindLeads ==
  ASSUME NEW v, Shape(v), v.err = "nil", NEW kind, NEW name
  PROVE  Leads(v, EndKind(v, kind, name)) /\ Leads(v, Pop(v))
<1>1. Leads(v, Outcome(v, "rejected"))
  <2>1. v \in Writers
    BY DEF Shape
  <2>2. Outcome(v, "rejected") \in Writers /\ Outcome(v, "rejected").cur = v.cur
        /\ Outcome(v, "rejected").node = v.node /\ Outcome(v, "rejected").rd = v.rd
    BY <2>1, OutcomeFacts DEF Errors
  <2> QED BY <2>2, ShapeSame DEF Leads, Synced
<1>2. v.cur >= 0 => Leads(v, EndNode(v))
  BY EndNodeLeads
<1>3. v.cur \in Int
  BY MaxDepthAssumption DEF Shape, Writers
<1> QED BY <1>1, <1>2, <1>3 DEF EndKind, Pop

-----------------------------------------------------------------------------
(* What a call comes to. *)

NeverRejects == {"nil", "dropped", "failed"}

-----------------------------------------------------------------------------
(* Outcomes and the current node. *)

(* Writing leaves the stack, and the outcome, as they are.                 *)
LEMMA WroteKeeps ==
  ASSUME NEW v \in Writers, NEW rd
  PROVE  Wrote(v, rd).cur = v.cur /\ Wrote(v, rd).err = v.err /\ Wrote(v, rd).node = v.node
BY DEF Wrote, Writers

(* node.opened leaves the node where it is, of its kind, and opened.       *)
Stands(v, u) ==
  /\ u \in Writers /\ u.cur = v.cur /\ u.err \in NeverRejects
  /\ \E n \in Node : n.kind = Top(v).kind /\ n.state = "opened" /\ u.node = [v.node EXCEPT ![v.cur] = n]

(* So it is for node.opened, and it is never rejected.                     *)
LEMMA OpenedStands ==
  ASSUME NEW v, Shape(v), v.cur >= 0, v.err = "nil"
  PROVE  Stands(v, Opened(v))
<1> DEFINE t == Top(v)
           n0 == [t EXCEPT !.state = "opened", !.ns = "none"]
           n1 == [t EXCEPT !.state = "opened", !.kids = TRUE, !.body = "none"]
           n2 == [t EXCEPT !.state = "opened", !.kids = TRUE]
           Put(u) == u.err = "nil" /\ Stands(v, u)
<1>1. v \in Writers /\ t \in Node /\ t.kind \in Startables /\ t.body \in {"none", "ok", "bad", "torn"} /\ v.rd \in Readers
  BY TopFacts, BodiesAssumption DEF Shape, Node, Writers
<1>2. /\ n0 \in Node /\ n1 \in Node /\ n2 \in Node /\ n0.kind = t.kind /\ n1.kind = t.kind /\ n2.kind = t.kind
      /\ n0.state = "opened" /\ n1.state = "opened" /\ n2.state = "opened"
  BY <1>1, BodiesAssumption DEF Node, Pending
<1>3. Put(SetTop(v, n0)) /\ Put(SetTop(v, n1)) /\ Put(SetTop(v, n2))
  <2> HIDE DEF n0, n1, n2
  <2> QED BY <1>1, <1>2, SetTopFacts DEF Stands, NeverRejects
<1>4. ASSUME NEW u, Put(u), NEW rd \in Readers
      PROVE  Put(Wrote(u, rd))
  BY <1>4, WroteFacts DEF Stands
<1>5. ASSUME NEW u, Put(u), NEW e \in {"dropped", "failed"}
      PROVE  Stands(v, Outcome(u, e))
  <2>1. u \in Writers /\ e \in Errors /\ e \in NeverRejects
    BY <1>5 DEF Stands, Errors, NeverRejects
  <2>2. /\ Outcome(u, e) \in Writers /\ Outcome(u, e).cur = u.cur /\ Outcome(u, e).node = u.node
        /\ Outcome(u, e).err = e
    BY <2>1, OutcomeFacts
  <2> QED BY <1>5, <2>1, <2>2 DEF Stands
<1>6. ASSUME NEW leaf PROVE Stands(v, OpenedWithBody(v, leaf))
  <2>1. ReadLeaf(v.rd, leaf) \in Readers /\ Lost \in Readers
    BY <1>1, ReaderTypes, LostTypes
  <2>2. CASE t.body = "none"
    BY <1>3, <2>2 DEF OpenedWithBody, MarkOpened
  <2>3. CASE t.body = "ok"
    <3>1. OpenedWithBody(v, leaf) = Wrote(SetTop(v, n1), ReadLeaf(v.rd, leaf))
      BY <2>3 DEF OpenedWithBody
    <3> HIDE DEF n1
    <3> QED BY <1>3, <1>4, <2>1, <3>1
  <2>4. CASE t.body = "bad"
    <3>1. OpenedWithBody(v, leaf) = Outcome(SetTop(v, n0), "dropped")
      BY <2>4 DEF OpenedWithBody, MarkOpened
    <3> HIDE DEF n0
    <3> QED BY <1>3, <1>5, <3>1
  <2>5. CASE t.body = "torn"
    <3>1. OpenedWithBody(v, leaf) = Outcome(Wrote(SetTop(v, n2), Lost), "failed")
      BY <2>5 DEF OpenedWithBody
    <3> HIDE DEF n2
    <3>2. Put(Wrote(SetTop(v, n2), Lost))
      BY <1>3, <1>4, <2>1
    <3> QED BY <1>5, <3>1, <3>2
  <2> QED BY <1>1, <2>2, <2>3, <2>4, <2>5
<1>7. /\ ReadGt(Declared(v)) \in Readers /\ ReadEmptyTagEnd(Declared(v)) \in Readers
      /\ ReadBracket(v.rd) \in Readers
  BY <1>1, DeclaredFacts, ReaderTypes
<1>8. CASE t.kind = "elem"
  <2>1. \/ Opened(v) = Outcome(SetTop(v, n0), "failed")
        \/ \E rd \in Readers : Opened(v) = Wrote(SetTop(v, n0), rd)
    BY <1>7, <1>8 DEF Opened, OpenedElem, MarkOpened
  <2> HIDE DEF n0
  <2> QED BY <1>3, <1>4, <1>5, <2>1
<1>9. CASE t.kind = "dtd"
  <2>1. Opened(v) = SetTop(v, n0) \/ \E rd \in Readers : Opened(v) = Wrote(SetTop(v, n0), rd)
    BY <1>7, <1>9 DEF Opened, OpenedDTD, MarkOpened
  <2> HIDE DEF n0
  <2> QED BY <1>3, <1>4, <2>1
<1>10. CASE t.kind \in {"comment", "cdata", "dtdattlist"}
  <2>1. \E leaf : Opened(v) = OpenedWithBody(v, leaf)
    BY <1>10 DEF Opened
  <2> QED BY <1>6, <2>1
<1>11. CASE t.kind = "doc"
  BY <1>3, <1>11 DEF Opened, MarkOpened
<1> QED BY <1>1, <1>8, <1>9, <1>10, <1>11 DEF Startables

(* Writer.Next fails only where opening the parent does.                   *)
LEMMA NextChildOutcome ==
  ASSUME NEW v, Shape(v), v.err = "nil"
  PROVE  NextChild(v).err \in NeverRejects
<1>1. CASE v.cur < 0
  BY <1>1 DEF NextChild, NeverRejects
<1>2. CASE v.cur >= 0
  <2> DEFINE t == Top(v)
             n == [t EXCEPT !.kids = TRUE]
             c == Counted(v)
  <2>1. v \in Writers /\ t \in Node /\ Fit(t)
    BY <1>2, TopFacts DEF Shape
  <2>2. n \in Node /\ Fit(n)
    BY <2>1 DEF Node, Fit
  <2>3. c \in Writers /\ c.cur = v.cur /\ c.err = "nil" /\ c.node = [v.node EXCEPT ![v.cur] = n]
    BY <1>2, <2>1, <2>2, SetTopFacts DEF Counted
  <2>4. Shape(c)
    BY <1>2, <2>2, <2>3, Retopped
  <2>5. NextChild(v) = Opened(c) \/ NextChild(v) = c
    BY <1>2, <2>1 DEF NextChild, Writers
  <2> QED BY <1>2, <2>3, <2>4, <2>5, OpenedStands DEF Stands, NeverRejects
<1> QED BY <1>1, <1>2 DEF Shape, Writers

(* What an end comes to: the current node is gone if and only if there is  *)
(* no error, and the nodes below it are untouched.                         *)
EndsOne(v, u) ==
  /\ u.cur = IF u.err = "nil" THEN v.cur - 1 ELSE v.cur
  /\ \A i \in 0 .. v.cur - 1 : u.node[i] = v.node[i]

(* The node that was opened for its end is where it was.                   *)
LEMMA OpenedForEndStands ==
  ASSUME NEW v, Shape(v), v.cur >= 0, v.err = "nil"
  PROVE  LET o == OpenedForEnd(v)
         IN /\ o \in Writers /\ o.err \in NeverRejects /\ o.cur = v.cur /\ Top(o).kind \in Startables
            /\ \A i \in 0 .. v.cur - 1 : o.node[i] = v.node[i]
<1>1. v \in Writers /\ v.cur \in Slots /\ Top(v).kind \in Startables
  BY TopFacts DEF Shape, Node
<1>2. CASE Top(v).state = "open"
  <2>1. PICK n \in Node : n.kind = Top(v).kind /\ Opened(v).node = [v.node EXCEPT ![v.cur] = n]
    BY OpenedStands DEF Stands
  <2>2. Opened(v) \in Writers /\ Opened(v).cur = v.cur /\ Opened(v).err \in NeverRejects
    BY OpenedStands DEF Stands
  <2>3. Top(Opened(v)) = n
    BY <1>1, <2>1, <2>2 DEF Top, Writers
  <2>4. \A i \in 0 .. v.cur - 1 : Opened(v).node[i] = v.node[i]
    BY <1>1, <2>1 DEF Slots, Writers
  <2> QED BY <1>1, <1>2, <2>1, <2>2, <2>3, <2>4 DEF OpenedForEnd
<1>3. CASE Top(v).state # "open"
  BY <1>1, <1>3 DEF OpenedForEnd, NeverRejects
<1> QED BY <1>2, <1>3

(* node.end and pop end one node.                                          *)
LEMMA EndNodeOutcome ==
  ASSUME NEW v, Shape(v), v.cur >= 0, v.err = "nil"
  PROVE  EndNode(v).err \in NeverRejects /\ EndsOne(v, EndNode(v))
<1> DEFINE o == OpenedForEnd(v)
           e == Ended(o, Top(v).state)
<1>1. /\ o \in Writers /\ o.err \in NeverRejects /\ o.cur = v.cur /\ Top(o).kind \in Startables
      /\ \A i \in 0 .. v.cur - 1 : o.node[i] = v.node[i]
  BY OpenedForEndStands
<1>2. CASE o.err # "nil"
  BY <1>1, <1>2 DEF EndNode, EndsOne
<1>3. CASE o.err = "nil"
  <2>1. EndNode(v) = Drop(e)
    BY <1>3 DEF EndNode
  <2>2. e = o \/ \E rd : e = Wrote(o, rd)
    <3> HIDE DEF o
    <3> QED BY <1>1 DEF Ended, Startables
  <2>3. o \in Writers /\ o.cur \in Int /\ v.cur \in Slots
    BY <1>1, TopFacts, MaxDepthAssumption DEF Writers
  <2> HIDE DEF o
  <2>4. e.cur = o.cur /\ e.err = o.err /\ e.node = o.node /\ Drop(e).cur = e.cur - 1
        /\ Drop(e).err = e.err /\ Drop(e).node = [e.node EXCEPT ![e.cur] = NoNode]
    <3>1. CASE e = o
      BY <2>3, <3>1 DEF Drop, Writers
    <3>2. ASSUME NEW rd, e = Wrote(o, rd)
          PROVE  e.cur = o.cur /\ e.err = o.err /\ e.node = o.node /\ Drop(e).cur = e.cur - 1
                 /\ Drop(e).err = e.err /\ Drop(e).node = [e.node EXCEPT ![e.cur] = NoNode]
      BY <2>3, <3>2 DEF Drop, Wrote, Writers
    <3> QED BY <2>2, <3>1, <3>2
  <2> HIDE DEF e
  <2>5. \A i \in 0 .. v.cur - 1 : Drop(e).node[i] = v.node[i]
    BY <1>1, <2>3, <2>4 DEF Slots, Writers
  <2> QED BY <1>1, <1>3, <2>1, <2>4, <2>5 DEF NeverRejects, EndsOne
<1> QED BY <1>2, <1>3

(* An end that succeeds pops one node; one that is rejected does nothing.  *)
LEMMA EndKindOutcome ==
  ASSUME NEW v, Shape(v), v.err = "nil", NEW kind, NEW name
  PROVE  /\ EndsOne(v, EndKind(v, kind, name)) /\ EndsOne(v, Pop(v))
         /\ EndKind(v, kind, name).err = "nil" => v.cur >= 0
         /\ EndKind(v, kind, name).err = "rejected" => EndKind(v, kind, name) = Outcome(v, "rejected")
         /\ Pop(v).err = "rejected" => Pop(v) = Outcome(v, "rejected")
<1>1. v \in Writers /\ v.cur \in Int
  BY MaxDepthAssumption DEF Shape, Writers
<1>2. /\ Outcome(v, "rejected").err = "rejected" /\ Outcome(v, "rejected").cur = v.cur
      /\ Outcome(v, "rejected").node = v.node
  BY <1>1, OutcomeFacts DEF Errors
<1>3. v.cur >= 0 => EndNode(v).err # "rejected" /\ EndsOne(v, EndNode(v))
  BY EndNodeOutcome DEF NeverRejects
<1>4. EndsOne(v, Outcome(v, "rejected"))
  BY <1>2 DEF EndsOne
<1> QED BY <1>1, <1>2, <1>3, <1>4 DEF EndKind, Pop

(* A pop takes one node at most.                                           *)
LEMMA PopsOne ==
  ASSUME NEW v, Shape(v), v.err = "nil"
  PROVE  Pop(v).cur \in {v.cur, v.cur - 1}
BY EndKindOutcome DEF EndsOne

-----------------------------------------------------------------------------
(* The calls. *)

(* Where EndToDepth can be while it unwinds: at its limit or above, or     *)
(* where it began when it has nothing to unwind.                           *)
Reaches(c, cur) ==
  c.op = "EndToDepth" => IF c.from >= c.limit THEN cur >= c.limit ELSE cur = c.from

(* The inductive invariant.  A call in progress has met no error so far:   *)
(* the error of node.end would otherwise leave a DTD opened and childless. *)
IInv ==
  /\ Shape(w)
  /\ call \in Calls
  /\ call.op # "idle" => w.err = "nil"
  /\ Reaches(call, w.cur)
  /\ clean \in BOOLEAN
  /\ clean => Synced(w)

(* The calls that are made by the actions are calls.                       *)
LEMMA IdleType ==
  /\ Idle \in Calls /\ Idle.op # "EndToDepth"
  /\ \A kind \in Startables : /\ [Idle EXCEPT !.op = "Write", !.kind = kind] \in Calls
                               /\ [Idle EXCEPT !.op = "Write", !.kind = kind].op # "EndToDepth"
<1>1. Idle \in Calls /\ Idle.op # "EndToDepth"
  BY MaxDepthAssumption DEF Idle, Calls
<1>2. ASSUME NEW kind \in Startables
      PROVE  /\ [Idle EXCEPT !.op = "Write", !.kind = kind] \in Calls
             /\ [Idle EXCEPT !.op = "Write", !.kind = kind].op # "EndToDepth"
  BY <1>1 DEF Calls
<1> QED BY <1>1, <1>2

(* A call begins with the writer the last one left, and no error.          *)
LEMMA FreshFacts ==
  ASSUME IInv
  PROVE  /\ Shape(Fresh) /\ Fresh.err = "nil" /\ Fresh.cur = w.cur
         /\ Fresh.rd = w.rd /\ Fresh.node = w.node
         /\ clean => Synced(Fresh)
<1>1. w \in Writers
  BY DEF IInv, Shape
<1>2. Fresh \in Writers /\ Fresh.err = "nil" /\ Fresh.cur = w.cur /\ Fresh.rd = w.rd /\ Fresh.node = w.node
  BY <1>1 DEF Fresh, Writers, Errors
<1>3. Shape(Fresh)
  BY <1>2, ShapeSame DEF IInv
<1> QED BY <1>2, <1>3 DEF IInv, Synced

(* A call that leads from a writer in step keeps the invariant.            *)
LEMMA CallKeeps ==
  ASSUME IInv, NEW b, clean => Synced(b),
         NEW v, Leads(b, v), NEW next \in Calls, next.op = "EndToDepth" => Reaches(next, v.cur),
         Does(v, next)
  PROVE  IInv'
<1>1. v \in Writers /\ Shape(v)
  BY DEF Leads, Shape
<1>2. call' \in Calls /\ clean' \in BOOLEAN
  <2>1. call' \in Calls
    BY IdleType DEF Does
  <2>2. clean' \in BOOLEAN
    BY DEF Does, IInv
  <2> QED BY <2>1, <2>2
<1>3. call'.op # "idle" => v.err = "nil"
  BY DEF Does, Idle
<1>6. w'.cur = v.cur /\ Reaches(call', w'.cur)
  <2>1. w'.cur = v.cur
    BY <1>1 DEF Does, Writers
  <2>2. call' = Idle \/ call' = next
    BY DEF Does
  <2> QED BY <2>1, <2>2, IdleType DEF Reaches
<1>4. CASE v.err \in Tearing
  <2>1. w' = [v EXCEPT !.rd = Lost] /\ ~clean'
    BY <1>4 DEF Does
  <2>2. w' \in Writers /\ w'.cur = v.cur /\ w'.node = v.node /\ w'.err = v.err
    BY <1>1, <2>1, LostTypes DEF Writers
  <2>3. Shape(w')
    BY <1>1, <2>2, ShapeSame
  <2> QED BY <1>2, <1>3, <1>6, <2>1, <2>2, <2>3 DEF IInv
<1>5. CASE v.err \notin Tearing
  <2>1. w' = v /\ (clean' => clean)
    BY <1>5 DEF Does
  <2>2. clean' => Synced(w')
    BY <1>5, <2>1 DEF Leads
  <2> QED BY <1>1, <1>2, <1>3, <1>6, <2>1, <2>2 DEF IInv
<1> QED BY <1>4, <1>5

(* A node that is started fits.                                            *)
LEMMA NewNodeFits ==
  ASSUME NEW kind \in Startables, NEW name \in Names \cup {NoName}, NEW body \in Bodies,
         NEW full \in BOOLEAN, kind \notin NamedKinds => name = NoName
  PROVE  LET n == NewNode(kind, name, body, full)
         IN Fit(n) /\ n.state = "open" /\ n.kind = kind
BY DEF Fit, NewNode, Node, Pending

(* So does an element with the namespaces of its Attrs.                    *)
LEMMA NewElemFits ==
  ASSUME NEW name \in Names, NEW full \in BOOLEAN, NEW ns \in Pending
  PROVE  LET n == NewElem(name, full, ns)
         IN Fit(n) /\ n.state = "open" /\ n.kind = "elem"
BY BodiesAssumption DEF Fit, NewElem, NewNode, Node, Startables, NamedKinds

(* A Start, on its own or as the first half of a Write, keeps it.          *)
LEMMA PushKeeps ==
  ASSUME IInv, CanPush, NEW n, Fit(n), n.state = "open",
         NEW parents, \A k \in parents \ {"none"} : Takes(k, n.kind),
         NEW fault \in {"none", "header", "attrs", "decl"}, NEW next \in Calls, next.op # "EndToDepth",
         Does(StartNode(Fresh, parents, n, fault), next)
  PROVE  IInv'
<1>1. Shape(Fresh) /\ Fresh.cur + 1 < MaxDepth /\ Fresh.err = "nil"
  BY FreshFacts DEF CanPush
<1>2. Leads(Fresh, StartNode(Fresh, parents, n, fault))
  BY <1>1, StartNodeLeads
<1> QED BY <1>2, FreshFacts, CallKeeps

(* So for every kind of node,                                              *)
LEMMA StartKeeps ==
  ASSUME IInv, CanPush, NEW kind \in Startables, NEW name \in Names \cup {NoName},
         NEW body \in Bodies, NEW full \in BOOLEAN, kind \notin NamedKinds => name = NoName,
         NEW parents, \A k \in parents \ {"none"} : Takes(k, kind),
         NEW fault \in {"none", "header", "attrs", "decl"}, NEW next \in Calls, next.op # "EndToDepth",
         Does(StartNode(Fresh, parents, NewNode(kind, name, body, full), fault), next)
  PROVE  IInv'
<1> DEFINE n == NewNode(kind, name, body, full)
<1>1. Fit(n) /\ n.state = "open" /\ n.kind = kind
  BY NewNodeFits
<1> HIDE DEF n
<1> QED BY <1>1, PushKeeps DEF n

(* an element with Attrs that register namespaces included.                *)
LEMMA ElemKeeps ==
  ASSUME IInv, CanPush, NEW name \in Names, NEW full \in BOOLEAN, NEW ns \in Pending,
         NEW fault \in {"none", "header", "attrs"}, NEW next \in Calls, next.op # "EndToDepth",
         Does(StartNode(Fresh, {"none", "doc", "elem"}, NewElem(name, full, ns), fault), next)
  PROVE  IInv'
<1> DEFINE n == NewElem(name, full, ns)
<1>1. Fit(n) /\ n.state = "open" /\ n.kind = "elem"
  BY NewElemFits
<1>2. \A k \in {"none", "doc", "elem"} \ {"none"} : Takes(k, "elem")
  BY DEF Takes, InBody
<1> HIDE DEF n
<1> QED BY <1>1, <1>2, PushKeeps DEF n

(* The invariant is kept by a call that writes a leaf.                     *)
LEMMA LeafKeeps ==
  ASSUME IInv, NEW leaf, NEW parents, \A k \in parents \ {"none"} : Takes(k, leaf), NEW fault,
         Does(WriteLeaf(Fresh, parents, leaf, fault), Idle)
  PROVE  IInv'
<1>1. Leads(Fresh, WriteLeaf(Fresh, parents, leaf, fault))
  BY FreshFacts, WriteLeafLeads
<1> QED BY <1>1, IdleType, FreshFacts, CallKeeps

(* It is kept by every Start,                                              *)
LEMMA StartingKeeps == ASSUME IInv, Starting PROVE IInv'
<1> USE IdleType, StartKeeps
<1>1. ASSUME StartDoc PROVE IInv'
  BY <1>1, BodiesAssumption DEF StartDoc, Returns, Takes, Startables, NamedKinds
<1>2. ASSUME StartElem PROVE IInv'
  BY <1>2, ElemKeeps DEF StartElem, Returns
<1>3. ASSUME StartDTD PROVE IInv'
  <2>1. \A k \in {"none", "doc"} \ {"none"} : Takes(k, "dtd")
    BY DEF Takes, InBody
  <2> QED BY <1>3, <2>1, BodiesAssumption DEF StartDTD, Returns, Startables, NamedKinds
<1>4. ASSUME StartDTDAttList PROVE IInv'
  <2>1. \A k \in {"none", "dtd"} \ {"none"} : Takes(k, "dtdattlist")
    BY DEF Takes, InBody
  <2> QED BY <1>4, <2>1 DEF StartDTDAttList, Returns, Startables, NamedKinds
<1>5. ASSUME StartComment PROVE IInv'
  <2>1. \A k \in {"none", "doc", "dtd", "elem"} \ {"none"} : Takes(k, "comment")
    BY DEF Takes, InBody
  <2> QED BY <1>5, <2>1 DEF StartComment, Returns, Startables, NamedKinds
<1>6. ASSUME StartCData PROVE IInv'
  <2>1. \A k \in {"none", "elem"} \ {"none"} : Takes(k, "cdata")
    BY DEF Takes, InBody
  <2> QED BY <1>6, <2>1 DEF StartCData, Returns, Startables, NamedKinds
<1> QED BY <1>1, <1>2, <1>3, <1>4, <1>5, <1>6 DEF Starting

(* Raw text and attributes do not touch the stack.                         *)
LEMMA LooseFacts ==
  ASSUME NEW v, Shape(v), NEW x,
         x # "raw" => x = "attr" /\ (v.cur >= 0 => Top(v).kind = "elem" /\ Top(v).state = "open")
  PROVE  Leads(v, Wrote(v, ReadLeaf(v.rd, x)))
<1> DEFINE rd == ReadLeaf(v.rd, x)
           u  == Wrote(v, rd)
<1>1. v \in Writers /\ v.rd \in Readers /\ v.cur \in Int /\ -1 <= v.cur
  BY MaxDepthAssumption DEF Shape, Writers
<1>2. rd \in Readers
  BY <1>1, LostTypes DEF ReadLeaf
<1>3. Synced(v) => rd = v.rd
  <2>1. ASSUME x = "attr", Synced(v)
        PROVE  Admits(v.rd, x)
    <3>1. CASE v.cur < 0
      <4>1. v.rd.top = -1
        BY <1>1, <2>1, <3>1 DEF Synced
      <4> QED BY <4>1 DEF Admits
    <3>2. CASE v.cur >= 0
      <4>1. v.cur \in Slots
        BY <3>2, TopFacts
      <4>2. v.rd.top = v.cur /\ v.rd.cell[v.cur] = CellOf(Top(v))
        BY <1>1, <2>1, <4>1 DEF Synced, Top, Slots
      <4>3. CellOf(Top(v)).kind = "elem" /\ CellOf(Top(v)).tag = TRUE
        BY <2>1, <3>2 DEF CellOf, HeaderPending, NamedKinds
      <4> QED BY <2>1, <4>2, <4>3 DEF Admits, InTag
    <3> QED BY <1>1, <3>1, <3>2
  <2> QED BY <1>1, <2>1 DEF ReadLeaf, Synced
<1> HIDE DEF rd
<1>4. u \in Writers /\ u.cur = v.cur /\ u.node = v.node /\ u.rd = rd
  BY <1>1, <1>2, WroteFacts
<1> HIDE DEF u
<1>5. Shape(u)
  BY <1>1, <1>4, ShapeSame
<1>6. Synced(v) => Synced(u)
  BY <1>1, <1>3, <1>4 DEF Synced
<1> QED BY <1>5, <1>6 DEF Leads, u, rd

(* by WriteRaw,                                                            *)
LEMMA RawKeeps == ASSUME IInv, WriteRaw PROVE IInv'
<1>1. Leads(Fresh, Wrote(Fresh, ReadLeaf(w.rd, "raw")))
  BY FreshFacts, LooseFacts
<1> QED BY <1>1, IdleType, FreshFacts, CallKeeps DEF WriteRaw, Returns

(* A mark on the current node says nothing to the observer.                *)
LEMMA MarkLeads ==
  ASSUME NEW v, Shape(v), v.cur >= 0, v.err = "nil",
         NEW n, Fit(n), n.kind = Top(v).kind, n.name = Top(v).name, n.state = Top(v).state
  PROVE  LET m == SetTop(v, n)
         IN /\ Leads(v, m) /\ m \in Writers /\ Top(m) = n
            /\ Synced(v) => Synced(m)
            /\ m.err = "nil" /\ m.cur = v.cur /\ m.rd = v.rd /\ m.node = [v.node EXCEPT ![v.cur] = n]
<1> DEFINE m == SetTop(v, n)
<1>1. v \in Writers /\ n \in Node
  BY DEF Shape, Fit
<1>2. HeaderPending(n) = HeaderPending(Top(v))
  BY DEF HeaderPending
<1>3. m \in Writers /\ m.cur = v.cur /\ m.rd = v.rd /\ m.err = "nil"
      /\ m.node = [v.node EXCEPT ![v.cur] = n]
  BY <1>1, SetTopFacts
<1> HIDE DEF m
<1>4. Keeps(v, m) /\ Top(m) = n
  BY <1>2, <1>3, HeaderKeeps
<1> QED BY <1>3, <1>4 DEF Leads, Keeps, m

(* So it is of a namespace that is registered.                             *)
LEMMA RegisteredLeads ==
  ASSUME IInv, NEW ns \in Pending
  PROVE  LET v == Registered(Fresh, ns)
         IN /\ Leads(Fresh, v) /\ v \in Writers
            /\ clean => Synced(v)
            /\ v.err = "nil" /\ v.cur = w.cur /\ v.rd = w.rd
            /\ w.cur >= 0 => Top(v).kind = Top(w).kind /\ Top(v).state = Top(w).state
<1> DEFINE t == Top(Fresh)
           n == [t EXCEPT !.ns = ns]
<1>1. /\ Shape(Fresh) /\ Fresh \in Writers /\ Fresh.err = "nil" /\ Fresh.cur = w.cur
      /\ Fresh.rd = w.rd /\ Fresh.node = w.node /\ (clean => Synced(Fresh))
  BY FreshFacts DEF Shape
<1>2. Leads(Fresh, Fresh) /\ t = Top(w)
  BY <1>1 DEF Leads, Top
<1>3. CASE Registered(Fresh, ns) = Fresh
  BY <1>1, <1>2, <1>3
<1>4. CASE Fresh.cur >= 0 /\ Registered(Fresh, ns) = SetTop(Fresh, n)
  <2>1. t \in Node /\ Fit(t)
    BY <1>1, <1>4, TopFacts
  <2>2. Fit(n) /\ n.kind = t.kind /\ n.name = t.name /\ n.state = t.state
    BY <2>1 DEF Fit, Node
  <2> HIDE DEF n, t
  <2>3. Fresh.cur >= 0 /\ Fit(n) /\ n.kind = Top(Fresh).kind /\ n.name = Top(Fresh).name /\ n.state = Top(Fresh).state
    BY <1>4, <2>2 DEF t
  <2>4. PICK f : f = Fresh
    OBVIOUS
  <2>5. Shape(f) /\ f.cur >= 0 /\ f.err = "nil"
        /\ Fit(n) /\ n.kind = Top(f).kind /\ n.name = Top(f).name /\ n.state = Top(f).state
    BY <1>1, <2>3, <2>4
  <2>6. /\ Leads(f, SetTop(f, n)) /\ SetTop(f, n) \in Writers /\ Top(SetTop(f, n)) = n
        /\ Synced(f) => Synced(SetTop(f, n))
        /\ SetTop(f, n).err = "nil" /\ SetTop(f, n).cur = f.cur /\ SetTop(f, n).rd = f.rd
    BY <2>5, MarkLeads
  <2>7. /\ Leads(Fresh, Registered(Fresh, ns)) /\ Registered(Fresh, ns) \in Writers
        /\ Top(Registered(Fresh, ns)) = n
        /\ Synced(Fresh) => Synced(Registered(Fresh, ns))
        /\ Registered(Fresh, ns).err = "nil" /\ Registered(Fresh, ns).cur = Fresh.cur
        /\ Registered(Fresh, ns).rd = Fresh.rd
    BY <1>4, <2>4, <2>6
  <2> QED BY <1>1, <1>2, <2>2, <2>7
<1> QED BY <1>3, <1>4 DEF Registered

(* by WriteAttr, written in time or late, or refused after it registered,  *)
LEMMA AttrKeeps == ASSUME IInv, WriteAttr PROVE IInv'
<1>1. PICK ns \in Pending, refused \in BOOLEAN :
        LET v    == Registered(Fresh, ns)
            late == w.cur >= 0 /\ Top(w).state # "open"
        IN IF ~CheckParent(w, {"none", "elem"}) THEN Does(Outcome(w, "rejected"), Idle)
           ELSE IF refused THEN Does(Outcome(v, "rejected"), Idle)
           ELSE /\ w' = Wrote(v, ReadLeaf(v.rd, "attr"))
                /\ call' = Idle
                /\ clean' = (clean /\ ~late)
  BY DEF WriteAttr
<1> DEFINE v == Registered(Fresh, ns)
<1>2. w \in Writers /\ Shape(w) /\ w.rd \in Readers /\ w.cur \in Int /\ (clean => Synced(w))
  BY MaxDepthAssumption DEF IInv, Shape, Writers
<1>3. /\ Shape(v) /\ v \in Writers /\ (clean => Synced(v))
      /\ v.err = "nil" /\ v.cur = w.cur /\ v.rd = w.rd
      /\ w.cur >= 0 => Top(v).kind = Top(w).kind /\ Top(v).state = Top(w).state
  BY RegisteredLeads DEF Leads
<1> HIDE DEF v
<1>4. ASSUME NEW u \in Writers, Shape(u), clean => Synced(u), Does(Outcome(u, "rejected"), Idle)
      PROVE  IInv'
  <2>1. Outcome(u, "rejected") \in Writers /\ Outcome(u, "rejected").cur = u.cur
        /\ Outcome(u, "rejected").node = u.node /\ Outcome(u, "rejected").rd = u.rd
    BY <1>4, OutcomeFacts DEF Errors
  <2>2. Leads(u, Outcome(u, "rejected"))
    BY <1>4, <2>1, ShapeSame DEF Leads, Synced
  <2> QED BY <1>4, <2>2, IdleType, CallKeeps
<1>5. CASE ~CheckParent(w, {"none", "elem"})
  BY <1>1, <1>2, <1>4, <1>5
<1>6. CASE CheckParent(w, {"none", "elem"}) /\ refused
  BY <1>1, <1>3, <1>4, <1>6 DEF v
<1>7. CASE CheckParent(w, {"none", "elem"}) /\ ~refused
  <2> DEFINE rd == ReadLeaf(v.rd, "attr")
  <2>1. w' = Wrote(v, rd) /\ call' = Idle
        /\ clean' = (clean /\ ~(w.cur >= 0 /\ Top(w).state # "open"))
    BY <1>1, <1>7 DEF v
  <2>2. rd \in Readers
    BY <1>2, <1>3, LostTypes DEF ReadLeaf
  <2>4. w' \in Writers /\ w'.cur = v.cur /\ w'.node = v.node /\ w'.err = v.err
    BY <1>3, <2>1, <2>2, WroteFacts
  <2>5. Shape(w')
    BY <1>3, <2>4, ShapeSame
  <2>6. ASSUME clean'
        PROVE  Synced(w')
    <3>1. clean /\ (w.cur >= 0 => Top(w).state = "open")
      BY <2>1, <2>6 DEF IInv
    <3>2. w.cur >= 0 => Top(w).kind = "elem"
      <4>1. w.cur >= 0 => Top(w).kind \in Startables
        BY <1>2, TopFacts DEF Node
      <4> QED BY <1>2, <1>7, <4>1 DEF CheckParent, CurrentKind, Startables
    <3>3. v.cur >= 0 => Top(v).kind = "elem" /\ Top(v).state = "open"
      BY <1>3, <3>1, <3>2
    <3>4. Leads(v, w')
      BY <1>3, <2>1, <3>3, LooseFacts
    <3>5. Synced(v) /\ w'.err = "nil"
      BY <1>3, <2>4, <3>1
    <3> QED BY <3>4, <3>5 DEF Leads, Tearing
  <2>7. clean' \in BOOLEAN /\ call' \in Calls /\ call'.op = "idle" /\ Reaches(call', w'.cur)
    BY <2>1, IdleType DEF IInv, Idle, Reaches
  <2> QED BY <2>5, <2>6, <2>7 DEF IInv
<1> QED BY <1>5, <1>6, <1>7

(* by every other Write,                                                   *)
LEMMA WritingKeeps == ASSUME IInv, Writing PROVE IInv'
<1> USE IdleType
<1>1. ASSUME WriteElem PROVE IInv'
  BY <1>1, ElemKeeps DEF WriteElem, Writes, Startables
<1>2. ASSUME WriteDTDAttList PROVE IInv'
  <2>1. \A k \in {"none", "dtd"} \ {"none"} : Takes(k, "dtdattlist")
    BY DEF Takes, InBody
  <2> QED BY <1>2, <2>1, StartKeeps DEF WriteDTDAttList, Writes, Startables, NamedKinds
<1>3. ASSUME WriteComment PROVE IInv'
  <2>1. \A k \in {"none", "doc", "dtd", "elem"} \ {"none"} : Takes(k, "comment")
    BY DEF Takes, InBody
  <2> QED BY <1>3, <2>1, StartKeeps DEF WriteComment, Writes, Startables, NamedKinds
<1>4. ASSUME WriteCData PROVE IInv'
  <2>1. \A k \in {"none", "elem"} \ {"none"} : Takes(k, "cdata")
    BY DEF Takes, InBody
  <2> QED BY <1>4, <2>1, StartKeeps DEF WriteCData, Writes, Startables, NamedKinds
<1>5. ASSUME WriteText PROVE IInv'
  <2>1. \A k \in {"none", "elem"} \ {"none"} : Takes(k, "text")
    BY DEF Takes, InBody
  <2> QED BY <1>5, <2>1, LeafKeeps DEF WriteText, Returns
<1>6. ASSUME WritePI PROVE IInv'
  <2>1. \A k \in {"none", "doc", "elem"} \ {"none"} : Takes(k, "pi")
    BY DEF Takes, InBody
  <2> QED BY <1>6, <2>1, LeafKeeps DEF WritePI, Returns
<1>7. ASSUME WriteCommentContent PROVE IInv'
  <2>1. \A k \in {"none", "comment"} \ {"none"} : Takes(k, "commentcontent")
    BY DEF Takes, InBody
  <2> QED BY <1>7, <2>1, LeafKeeps DEF WriteCommentContent, Returns
<1>8. ASSUME WriteCDataContent PROVE IInv'
  <2>1. \A k \in {"none", "cdata"} \ {"none"} : Takes(k, "cdatacontent")
    BY DEF Takes, InBody
  <2> QED BY <1>8, <2>1, LeafKeeps DEF WriteCDataContent, Returns
<1>9. ASSUME WriteDTDElem \/ WriteDTDEntity \/ WriteNotation PROVE IInv'
  <2>1. \A x \in {"dtdelem", "dtdentity", "notation"} : \A k \in {"none", "dtd"} \ {"none"} : Takes(k, x)
    BY DEF Takes, InBody
  <2>2. ASSUME WriteDTDElem PROVE IInv'
    BY <2>1, <2>2, LeafKeeps DEF WriteDTDElem, Returns
  <2>3. ASSUME WriteDTDEntity PROVE IInv'
    BY <2>1, <2>3, LeafKeeps DEF WriteDTDEntity, Returns
  <2>4. ASSUME WriteNotation PROVE IInv'
    BY <2>1, <2>4, LeafKeeps DEF WriteNotation, Returns
  <2> QED BY <1>9, <2>2, <2>3, <2>4
<1>10. ASSUME WriteDTDAttr PROVE IInv'
  <2>1. \A k \in {"none", "dtdattlist"} \ {"none"} : Takes(k, "dtdattr")
    BY DEF Takes, InTag
  <2> QED BY <1>10, <2>1, LeafKeeps DEF WriteDTDAttr, Returns
<1>11. ASSUME WriteRaw \/ WriteAttr PROVE IInv'
  BY <1>11, RawKeeps, AttrKeeps
<1> QED
  BY <1>1, <1>2, <1>3, <1>4, <1>5, <1>6, <1>7, <1>8, <1>9, <1>10, <1>11 DEF Writing

(* by Next called on its own,                                              *)
LEMMA NextCallKeeps == ASSUME IInv, CallNext PROVE IInv'
<1>1. Leads(Fresh, NextChild(Fresh))
  BY FreshFacts, NextChildKeeps DEF Keeps, Leads, Tearing
<1> QED BY <1>1, IdleType, FreshFacts, CallKeeps DEF CallNext, Returns

(* EndElemFull's mark is such a mark.                                      *)
LEMMA MarkFullLeads ==
  ASSUME NEW v, Shape(v), v.cur >= 0, v.err = "nil"
  PROVE  LET m == SetTop(v, [Top(v) EXCEPT !.full = TRUE])
         IN Leads(v, m) /\ m.err = "nil" /\ (Synced(v) => Synced(m))
<1> DEFINE t == Top(v)
           n == [t EXCEPT !.full = TRUE]
<1>1. Fit(t) /\ t \in Node
  BY TopFacts
<1>2. Fit(n) /\ n.kind = t.kind /\ n.name = t.name /\ n.state = t.state
  BY <1>1 DEF Node, Fit
<1> HIDE DEF n
<1>3. Leads(v, SetTop(v, n)) /\ SetTop(v, n).err = "nil" /\ (Synced(v) => Synced(SetTop(v, n)))
  BY <1>2, MarkLeads
<1> QED BY <1>3 DEF n

(* by every End,                                                           *)
LEMMA EndingKeeps == ASSUME IInv, Ending PROVE IInv'
<1>1. \A kind, name : Leads(Fresh, EndKind(Fresh, kind, name)) /\ Leads(Fresh, Pop(Fresh))
  BY FreshFacts, EndKindLeads
<1>2. Leads(Fresh, Fresh)
  BY FreshFacts DEF Leads
<1>3. ASSUME End PROVE IInv'
  BY <1>1, <1>3, IdleType, FreshFacts, CallKeeps DEF End, Returns
<1>4. ASSUME EndAny PROVE IInv'
  BY <1>1, <1>4, IdleType, FreshFacts, CallKeeps DEF EndAny, Returns
<1>5. ASSUME EndElemFull PROVE IInv'
  <2> DEFINE t == Top(w)
             n == [t EXCEPT !.full = TRUE]
             m == IF w.cur < 0 THEN Fresh ELSE SetTop(Fresh, n)
  <2>1. Leads(Fresh, m) /\ m.err = "nil" /\ (Synced(Fresh) => Synced(m))
    <3>1. CASE w.cur < 0
      BY <1>2, <3>1, FreshFacts
    <3>2. CASE w.cur >= 0
      <4>1. Shape(Fresh) /\ Fresh.cur = w.cur /\ Fresh.cur >= 0 /\ Fresh.node = w.node
            /\ Fresh \in Writers /\ Fresh.err = "nil" /\ w.cur \in Int
        BY <3>2, FreshFacts, MaxDepthAssumption DEF Shape, Writers
      <4>2. Top(Fresh) = t
        BY <4>1 DEF Top
      <4>3. m = SetTop(Fresh, [Top(Fresh) EXCEPT !.full = TRUE])
        BY <3>2, <4>1, <4>2
      <4> QED BY <4>1, <4>3, MarkFullLeads
    <3>3. w.cur \in Int
      BY MaxDepthAssumption DEF IInv, Shape, Writers
    <3> QED BY <3>1, <3>2, <3>3
  <2>2. PICK name : Does(EndKind(m, "elem", name), Idle)
    BY <1>5 DEF EndElemFull, Returns
  <2> HIDE DEF m
  <2>3. Leads(m, EndKind(m, "elem", name))
    BY <2>1, EndKindLeads DEF Leads
  <2>4. clean => Synced(m)
    BY <2>1, FreshFacts
  <2> QED BY <2>2, <2>3, <2>4, IdleType, CallKeeps
<1>6. ASSUME EndAll \/ EndDoc PROVE IInv'
  <2> DEFINE a == [Idle EXCEPT !.op = "EndAll", !.from = w.cur]
             d == [Idle EXCEPT !.op = "EndDoc", !.from = w.cur]
  <2>0. w.cur \in -1 .. MaxDepth - 1
    BY DEF IInv, Shape, Writers
  <2>1. a \in Calls /\ d \in Calls /\ a.op # "EndToDepth" /\ d.op # "EndToDepth"
    BY <2>0, IdleType DEF Calls
  <2> QED BY <1>2, <1>6, <2>1, FreshFacts, CallKeeps DEF EndAll, EndDoc
<1>7. ASSUME EndToDepth PROVE IInv'
  <2>1. PICK depth \in -1 .. MaxDepth - 1, kind \in Startables, name \in Names \cup {NoName} :
          Does(Fresh, [op |-> "EndToDepth", limit |-> depth + 1, kind |-> kind, name |-> name, from |-> w.cur])
    BY <1>7 DEF EndToDepth
  <2> DEFINE c == [op |-> "EndToDepth", limit |-> depth + 1, kind |-> kind, name |-> name, from |-> w.cur]
  <2>2. c \in Calls
    BY MaxDepthAssumption DEF Calls, IInv, Shape, Writers
  <2>3. Reaches(c, Fresh.cur)
    BY FreshFacts DEF Reaches
  <2> QED BY <2>3, <1>2, <2>1, <2>2, FreshFacts, CallKeeps
<1> QED BY <1>3, <1>4, <1>5, <1>6, <1>7 DEF Ending

(* and by each pop of EndAll, EndDoc and EndToDepth.                       *)
LEMMA UnwindKeeps == ASSUME IInv, Unwind \/ Finish PROVE IInv'
<1>1. Shape(w) /\ (clean => Synced(w)) /\ call \in Calls /\ Reaches(call, w.cur)
  BY DEF IInv
<1>2. call.op # "idle"
  BY DEF Unwind, Unwinding, Finish
<1>3. w.err = "nil"
  BY <1>2 DEF IInv
<1>4. \A kind, name : Leads(w, EndKind(w, kind, name)) /\ Leads(w, Pop(w))
  BY <1>1, <1>3, EndKindLeads
<1>5. Leads(w, w)
  BY <1>1 DEF Leads
<1>6. ASSUME Unwind PROVE IInv'
  <2>1. w.cur > Floor /\ Does(Pop(w), call)
    BY <1>6 DEF Unwind
  <2>2. /\ w.cur \in -1 .. MaxDepth - 1 /\ call.limit \in 0 .. MaxDepth /\ call.from \in -1 .. MaxDepth - 1
        /\ Pop(w).cur \in {w.cur, w.cur - 1}
    BY <1>1, <1>3, PopsOne DEF Shape, Writers, Calls
  <2>3. ASSUME call.op = "EndToDepth" PROVE Reaches(call, Pop(w).cur)
    <3>1. w.cur > call.limit
      BY <2>1, <2>3 DEF Floor
    <3>2. IF call.from >= call.limit THEN w.cur >= call.limit ELSE w.cur = call.from
      BY <1>1, <2>3 DEF Reaches
    <3>3. call.from >= call.limit /\ Pop(w).cur >= call.limit
      BY <2>2, <3>1, <3>2, MaxDepthAssumption
    <3> QED BY <3>3 DEF Reaches
  <2> QED BY <1>1, <1>4, <2>1, <2>3, CallKeeps
<1>7. ASSUME Finish PROVE IInv'
  BY <1>1, <1>4, <1>5, <1>7, IdleType, CallKeeps DEF Finish
<1> QED BY <1>6, <1>7

-----------------------------------------------------------------------------
(* The theorems. *)

(* It holds of a new Writer.                                               *)
LEMMA InitIInv == ASSUME Init PROVE IInv
<1>1. ReaderAtStart \in Readers /\ ReaderAtStart.ok /\ ReaderAtStart.top = -1
  BY MaxDepthAssumption DEF ReaderAtStart, Readers, EmptyCells, NoCell, Cells, Slots
<1>2. w \in Writers /\ w.cur = -1 /\ w.rd = ReaderAtStart /\ w.err = "nil"
      /\ \A s \in Slots : w.node[s] = NoNode
  BY <1>1, MaxDepthAssumption DEF Init, Writers, Errors
<1>3. Shape(w)
  BY <1>2 DEF Shape, Slots
<1>4. Synced(w)
  BY <1>1, <1>2 DEF Synced, Slots
<1>5. call \in Calls /\ clean \in BOOLEAN /\ Reaches(call, w.cur)
  BY IdleType DEF Init, Reaches
<1> QED BY <1>2, <1>3, <1>4, <1>5 DEF IInv

(* Every step of the writer keeps the inductive invariant.                 *)
THEOREM Invariance == Spec => []IInv
<1>1. Init => IInv
  BY InitIInv
<1>2. IInv /\ [Next]_vars => IInv'
  <2>1. ASSUME IInv, Next PROVE IInv'
    BY <2>1, StartingKeeps, WritingKeeps, NextCallKeeps, EndingKeeps, UnwindKeeps DEF Next
  <2>2. ASSUME IInv, UNCHANGED vars PROVE IInv'
    BY <2>2 DEF vars, IInv, Shape, Synced
  <2> QED BY <2>1, <2>2
<1> QED BY <1>1, <1>2, PTL DEF Spec

(* The writer's state keeps its type, and the slots above the current node *)
(* stay unused, for every stack depth, name and content.                   *)
THEOREM TypeCorrect == Spec => []TypeOK
<1>1. IInv => TypeOK
  <2> SUFFICES ASSUME IInv PROVE TypeOK
    OBVIOUS
  <2>1. w \in Writers /\ call \in Calls /\ clean \in BOOLEAN
    BY DEF IInv, Shape
  <2>2. ASSUME NEW s \in Slots
        PROVE  (w.node[s] = NoNode) <=> (s > w.cur)
    <3>1. s > w.cur => w.node[s] = NoNode
      BY DEF IInv, Shape
    <3>2. s <= w.cur => w.node[s].kind \in Startables
      BY DEF IInv, Shape, Fit, Node
    <3>3. NoNode.kind \notin Startables
      BY DEF NoNode, Startables
    <3> QED BY <2>1, <3>1, <3>2, <3>3 DEF Slots, Writers
  <2> QED BY <2>1, <2>2 DEF TypeOK, Writers
<1> QED BY <1>1, Invariance, PTL

(* A node is only ever pushed onto a parent that is opened and counts the  *)
(* child, and neither fact is lost while the child is on the stack.        *)
THEOREM AncestorsStayOpened == Spec => []AncestorsOpened
<1>1. IInv => AncestorsOpened
  BY MaxDepthAssumption DEF IInv, Shape, AncestorsOpened, Slots, Writers
<1> QED BY <1>1, Invariance, PTL

(* Until a call fails, whether it says so or not, a reader of the output   *)
(* accepts it and has open what the writer has on its stack, after every   *)
(* call and in between: whatever was rejected or dropped before, and       *)
(* whatever namespaces wait to be declared.                                *)
THEOREM OutputIsNested == Spec => []ReaderAgrees
<1>1. IInv => ReaderAgrees
  BY MaxDepthAssumption DEF IInv, Shape, Synced, ReaderAgrees, Slots, Writers
<1> QED BY <1>1, Invariance, PTL

-----------------------------------------------------------------------------
(* Where the loops stop. *)

(* Of the calls, only those that go on unwinding are in progress.          *)
LEMMA OnlyUnwinding ==
  ASSUME Next, call.op # "idle"
  PROVE  Unwind \/ Finish
<1>1. call # Idle
  BY DEF Idle
<1>2. ~Starting
  BY <1>1 DEF Starting, StartDoc, StartElem, StartDTD, StartDTDAttList, StartComment, StartCData, Returns
<1>3. ~Writing
  <2>1. ~WriteElem /\ ~WriteDTDAttList /\ ~WriteComment /\ ~WriteCData
    BY <1>1 DEF WriteElem, WriteDTDAttList, WriteComment, WriteCData, Writes
  <2>2. ~WriteText /\ ~WritePI /\ ~WriteCommentContent /\ ~WriteCDataContent
    BY <1>1 DEF WriteText, WritePI, WriteCommentContent, WriteCDataContent, Returns
  <2>3. ~WriteDTDElem /\ ~WriteDTDEntity /\ ~WriteDTDAttr /\ ~WriteNotation
    BY <1>1 DEF WriteDTDElem, WriteDTDEntity, WriteDTDAttr, WriteNotation, Returns
  <2>4. ~WriteRaw /\ ~WriteAttr
    BY <1>1 DEF WriteRaw, WriteAttr, Returns
  <2> QED BY <2>1, <2>2, <2>3, <2>4 DEF Writing
<1>4. ~CallNext
  BY <1>1 DEF CallNext, Returns
<1>5. ~Ending
  BY <1>1 DEF Ending, End, EndElemFull, EndAny, EndAll, EndDoc, EndToDepth, Returns
<1> QED BY <1>2, <1>3, <1>4, <1>5 DEF Next

(* What Does leaves of what a call has come to.                            *)
LEMMA DoesFacts ==
  ASSUME NEW v, Shape(v), NEW next, Does(v, next)
  PROVE  /\ w'.err = v.err /\ w'.cur = v.cur /\ w'.node = v.node
         /\ v.err = "nil" => call' = next
BY DEF Does, Shape, Writers

UnwoundExactly ==
  Unwinding =>
    /\ \A i \in 0 .. w.cur - 1 : w'.node[i] = w.node[i]
    /\ w'.cur >= Goal
    /\ call' = Idle /\ w'.err = "nil" => w'.cur = Goal

(* A step of an unwinding, its last one included, is exact.                *)
LEMMA UnwindStep == ASSUME IInv, [Next]_vars PROVE UnwoundExactly
<1> SUFFICES ASSUME Unwinding
             PROVE  /\ \A i \in 0 .. w.cur - 1 : w'.node[i] = w.node[i]
                    /\ w'.cur >= Goal
                    /\ call' = Idle /\ w'.err = "nil" => w'.cur = Goal
  BY DEF UnwoundExactly
<1>1. call.op # "idle" /\ call # Idle
  BY DEF Idle, Unwinding
<1>2. /\ Shape(w) /\ w \in Writers /\ w.err = "nil" /\ w.cur \in Int /\ -1 <= w.cur
      /\ call.limit \in Nat /\ call.from \in Int /\ -1 <= call.from /\ Reaches(call, w.cur)
  BY <1>1, MaxDepthAssumption DEF IInv, Shape, Writers, Calls
<1>3. /\ call.op # "EndToDepth" => Goal = -1
      /\ call.op = "EndToDepth" /\ call.from >= call.limit => w.cur >= call.limit /\ Goal = call.limit - 1
      /\ call.op = "EndToDepth" /\ ~(call.from >= call.limit) => w.cur = call.from /\ Goal = call.from - 1
  BY <1>2 DEF Goal, Reaches
<1>4. Goal \in Int /\ Goal <= w.cur
  <2>1. CASE call.op # "EndToDepth"
    BY <1>2, <1>3, <2>1
  <2>2. CASE call.op = "EndToDepth" /\ call.from >= call.limit
    BY <1>2, <1>3, <2>2
  <2>3. CASE call.op = "EndToDepth" /\ ~(call.from >= call.limit)
    BY <1>2, <1>3, <2>3
  <2> QED BY <2>1, <2>2, <2>3
<1>5. ASSUME NEW u, Shape(u), EndsOne(w, u), NEW next, Does(u, next)
      PROVE  /\ \A i \in 0 .. w.cur - 1 : w'.node[i] = w.node[i]
             /\ w'.err = "nil" => w'.cur = w.cur - 1 /\ call' = next
             /\ w'.err # "nil" => w'.cur = w.cur
  <2>1. w'.err = u.err /\ w'.cur = u.cur /\ w'.node = u.node /\ (u.err = "nil" => call' = next)
    BY <1>5, DoesFacts
  <2> QED BY <1>5, <2>1 DEF EndsOne
<1>6. CASE UNCHANGED vars
  BY <1>1, <1>4, <1>6 DEF vars
<1>7. CASE Unwind
  <2>1. Shape(Pop(w)) /\ Does(Pop(w), call) /\ EndsOne(w, Pop(w)) /\ w.cur > Floor
    BY <1>2, <1>7, EndKindLeads, EndKindOutcome DEF Unwind, Leads
  <2>2. Goal <= w.cur - 1
    <3>1. CASE call.op # "EndToDepth"
      <4>1. Floor >= -1
        BY <3>1 DEF Floor, Unwinding
      <4> QED BY <1>2, <1>3, <2>1, <3>1, <4>1 DEF Floor, Unwinding
    <3>2. CASE call.op = "EndToDepth"
      <4>1. Floor = call.limit
        BY <3>2 DEF Floor
      <4> QED BY <1>2, <1>3, <2>1, <3>2, <4>1
    <3> QED BY <3>1, <3>2
  <2> QED BY <1>1, <1>2, <1>4, <1>5, <2>1, <2>2
<1>8. CASE Finish /\ call.op = "EndAll"
  <2>1. w.cur <= -1 /\ Does(w, Idle)
    BY <1>8 DEF Finish, Floor
  <2>2. w'.cur = w.cur /\ w'.node = w.node
    BY <1>2, <2>1, DoesFacts
  <2> QED BY <1>2, <1>3, <1>8, <2>1, <2>2
<1>9. CASE Finish /\ call.op # "EndAll"
  <2>1. PICK kind, name : Does(EndKind(w, kind, name), Idle)
    BY <1>9 DEF Finish
  <2>2. w.cur <= IF call.op = "EndDoc" THEN 0 ELSE call.limit
    BY <1>9 DEF Finish, Floor, Unwinding
  <2> DEFINE u == EndKind(w, kind, name)
  <2>3. Shape(u) /\ EndsOne(w, u) /\ (u.err = "nil" => w.cur >= 0)
    BY <1>2, EndKindLeads, EndKindOutcome DEF Leads
  <2>4. w'.err = u.err
    BY <2>1, <2>3, DoesFacts
  <2>5. /\ \A i \in 0 .. w.cur - 1 : w'.node[i] = w.node[i]
        /\ w'.err = "nil" => w'.cur = w.cur - 1
        /\ w'.err # "nil" => w'.cur = w.cur
    BY <1>5, <2>1, <2>3
  <2> HIDE DEF u
  <2>6. ASSUME w'.err = "nil" PROVE w.cur - 1 = Goal
    <3>1. CASE call.op = "EndDoc"
      BY <1>2, <1>3, <2>2, <2>3, <2>4, <2>6, <3>1
    <3>2. CASE call.op = "EndToDepth"
      BY <1>2, <1>3, <2>2, <3>2
    <3> QED BY <1>9, <3>1, <3>2 DEF Unwinding
  <2> QED BY <1>2, <1>4, <2>5, <2>6
<1> QED BY <1>1, <1>6, <1>7, <1>8, <1>9, OnlyUnwinding

(* EndAll, EndDoc and EndToDepth end the nodes above their goal and no     *)
(* other, one at a time, whatever is open, however deep, and whichever of  *)
(* their ends fails; one that returns no error has reached the goal.       *)
THEOREM UnwindingIsExact == Spec => UnwindIsExact
<1>1. IInv /\ [Next]_vars =>
        (Unwinding =>
           /\ \A i \in 0 .. w.cur - 1 : w'.node[i] = w.node[i]
           /\ w'.cur >= Goal
           /\ call' = Idle /\ w'.err = "nil" => w'.cur = Goal)
  BY UnwindStep DEF UnwoundExactly
<1> QED BY <1>1, Invariance, PTL DEF Spec, UnwindIsExact

-----------------------------------------------------------------------------
(* Calls that are rejected. *)

(* The writer's nodes and output are those of w, but for marks on the      *)
(* current node.                                                           *)
Marked(v) ==
  /\ v.rd = w.rd /\ v.cur = w.cur
  /\ \A i \in 0 .. w.cur - 1 : v.node[i] = w.node[i]
  /\ w.cur >= 0 => OnlyMarked(Top(v), Top(w))

(* What a call computes from u: if it comes out rejected, it is u as it was *)
(* before anything was opened or ended; if it failed, it still says so when *)
(* the observer has stopped reading.                                       *)
Rejects(v, u) ==
  /\ v.err = "rejected" => v = Outcome(u, "rejected")
  /\ v.err \in Tearing => [v EXCEPT !.rd = Lost].err = v.err

(* Start rejects before it opens the parent, or not at all.                *)
LEMMA StartNodeRejects ==
  ASSUME NEW v, Shape(v), v.err = "nil", NEW parents, NEW n, NEW fault \in {"none", "header", "attrs", "decl"}
  PROVE  Rejects(StartNode(v, parents, n, fault), v)
<1> DEFINE c == NextChild(v)
           p == Push(c, n)
<1>1. CASE ~CheckParent(v, parents)
  <2>1. Outcome(v, "rejected").err = "rejected"
    BY OutcomeFacts DEF Shape, Errors
  <2> QED BY <1>1, <2>1 DEF StartNode, Rejects, Tearing
<1>2. c \in Writers
  BY NextChildKeeps DEF Keeps, Shape
<1>3. CASE CheckParent(v, parents) /\ c.err # "nil"
  <2>1. StartNode(v, parents, n, fault) = c
    BY <1>3 DEF StartNode
  <2>2. c.err # "rejected"
    BY NextChildOutcome DEF NeverRejects
  <2>3. [c EXCEPT !.rd = Lost].err = c.err
    BY <1>2 DEF Writers
  <2> QED BY <2>1, <2>2, <2>3 DEF Rejects
<1>4. CASE CheckParent(v, parents) /\ c.err = "nil"
  <2>1. StartNode(v, parents, n, fault) = OpenNode(p, fault)
    BY <1>4 DEF StartNode
  <2> HIDE DEF c
  <2>2. \A rd : Wrote(p, rd).err = "nil"
    BY <1>4, <1>2 DEF Wrote, Push, Writers
  <2>3. \A rd : /\ Outcome(p, "failed").err = "failed" /\ Outcome(Wrote(p, rd), "failed").err = "failed"
                /\ [Outcome(p, "failed") EXCEPT !.rd = Lost].err = "failed"
                /\ [Outcome(Wrote(p, rd), "failed") EXCEPT !.rd = Lost].err = "failed"
    BY <1>2 DEF Outcome, Wrote, Push, Writers
  <2> HIDE DEF p
  <2> QED BY <2>1, <2>2, <2>3 DEF OpenNode, Rejects, Tearing
<1> QED BY <1>1, <1>3, <1>4

(* So does the Write of a leaf.                                            *)
LEMMA WriteLeafRejects ==
  ASSUME NEW v, Shape(v), v.err = "nil", NEW parents, NEW leaf, NEW fault
  PROVE  Rejects(WriteLeaf(v, parents, leaf, fault), v)
<1> DEFINE c == NextChild(v)
<1>1. c \in Writers /\ Outcome(v, "rejected").err = "rejected"
  BY NextChildKeeps, OutcomeFacts DEF Keeps, Shape, Errors
<1> HIDE DEF c
<1>2. \A rd : /\ Outcome(Wrote(c, rd), "failed").err = "failed" /\ Outcome(Wrote(c, rd), "nil").err = "nil"
              /\ Outcome(Wrote(c, rd), "swallowed").err = "swallowed"
              /\ [Outcome(Wrote(c, rd), "failed") EXCEPT !.rd = Lost].err = "failed"
              /\ [Outcome(Wrote(c, rd), "swallowed") EXCEPT !.rd = Lost].err = "swallowed"
  BY <1>1 DEF Outcome, Wrote, Writers
<1> QED BY <1>1, <1>2 DEF WriteLeaf, Rejects, Tearing, c

(* Ending rejects before it opens the node for its end, or not at all.     *)
LEMMA EndKindRejects ==
  ASSUME NEW v, Shape(v), v.err = "nil", NEW kind, NEW name
  PROVE  Rejects(EndKind(v, kind, name), v) /\ Rejects(Pop(v), v)
<1>1. EndKind(v, kind, name) \in Writers /\ Pop(v) \in Writers
  BY EndKindLeads DEF Leads, Shape
<1>2. \A u \in Writers : [u EXCEPT !.rd = Lost].err = u.err
  BY DEF Writers
<1> QED BY <1>1, <1>2, EndKindOutcome DEF Rejects

(* A call that was computed from u, where u is w but for marks.            *)
LEMMA RejectedDoes ==
  ASSUME NEW u \in Writers, Marked(u), NEW v, Rejects(v, u), NEW next, Does(v, next)
  PROVE  w'.err = "rejected" => Marked(w')
<1>1. CASE v.err \in Tearing
  BY <1>1 DEF Does, Rejects, Tearing
<1>2. CASE v.err \notin Tearing
  <2>1. w' = v
    BY <1>2 DEF Does
  <2>2. ASSUME v.err = "rejected" PROVE Marked(v)
    <3>1. v.cur = u.cur /\ v.node = u.node /\ v.rd = u.rd
      BY <2>2, OutcomeFacts DEF Rejects, Errors
    <3>2. Top(v) = Top(u)
      BY <3>1 DEF Top
    <3> QED BY <3>1, <3>2 DEF Marked
  <2> QED BY <2>1, <2>2
<1> QED BY <1>1, <1>2

RejectedMarking == w'.err = "rejected" => Marked(w')

(* The state a call begins with is the one the last call left.             *)
LEMMA FreshMarked ==
  ASSUME IInv
  PROVE  Marked(Fresh) /\ Marked(w) /\ Fresh \in Writers
<1>1. /\ Shape(Fresh) /\ Fresh.cur = w.cur /\ Fresh.rd = w.rd /\ Fresh.node = w.node
      /\ Shape(w) /\ w \in Writers
  BY FreshFacts DEF IInv, Shape
<1>2. w.cur >= 0 => OnlyMarked(Top(w), Top(w)) /\ Top(Fresh) = Top(w)
  <2>1. w.cur >= 0 => Top(w) \in Node
    BY <1>1, TopFacts
  <2>2. \A n \in Node : [n EXCEPT !.full = n.full, !.ns = n.ns] = n
    BY DEF Node
  <2> QED BY <1>1, <2>1, <2>2 DEF OnlyMarked, Top
<1> QED BY <1>1, <1>2 DEF Marked, Shape

(* The Starts and the Writes, as calls.                                    *)
LEMMA StartRejects ==
  ASSUME IInv, NEW parents, NEW n, NEW fault \in {"none", "header", "attrs", "decl"}, NEW next,
         Does(StartNode(Fresh, parents, n, fault), next)
  PROVE  RejectedMarking
<1>1. Rejects(StartNode(Fresh, parents, n, fault), Fresh)
  BY FreshFacts, StartNodeRejects
<1> QED BY <1>1, FreshMarked, RejectedDoes DEF RejectedMarking

(* The same for the writing of a leaf,                                     *)
LEMMA LeafRejects ==
  ASSUME IInv, NEW parents, NEW leaf, NEW fault, NEW next,
         Does(WriteLeaf(Fresh, parents, leaf, fault), next)
  PROVE  RejectedMarking
<1>1. Rejects(WriteLeaf(Fresh, parents, leaf, fault), Fresh)
  BY FreshFacts, WriteLeafRejects
<1> QED BY <1>1, FreshMarked, RejectedDoes DEF RejectedMarking

(* and for an end.                                                         *)
LEMMA EndRejects ==
  ASSUME IInv, NEW v, Shape(v), v.err = "nil", Marked(v), NEW u, NEW next, Does(u, next),
         u = Pop(v) \/ \E kind, name : u = EndKind(v, kind, name)
  PROVE  RejectedMarking
<1>1. Rejects(u, v) /\ v \in Writers
  BY EndKindRejects DEF Shape
<1> QED BY <1>1, RejectedDoes DEF RejectedMarking

(* A mark on the current node is a mark.                                   *)
LEMMA TopMarked ==
  ASSUME IInv, w.cur >= 0, NEW n \in Node, OnlyMarked(n, Top(w))
  PROVE  Marked(SetTop(Fresh, n)) /\ SetTop(Fresh, n) \in Writers
<1> DEFINE m == SetTop(Fresh, n)
<1>1. /\ Fresh \in Writers /\ Fresh.cur = w.cur /\ Fresh.rd = w.rd
      /\ Fresh.node = w.node /\ Shape(w) /\ w \in Writers
  BY FreshFacts DEF IInv, Shape
<1>2. w.cur \in Slots
  BY <1>1, TopFacts
<1>3. m \in Writers /\ m.rd = w.rd /\ m.cur = w.cur /\ m.node = [w.node EXCEPT ![w.cur] = n]
  BY <1>1, SetTopFacts
<1> HIDE DEF m
<1>4. Top(m) = n /\ \A i \in 0 .. w.cur - 1 : m.node[i] = w.node[i]
  <2>1. w.node \in [Slots -> Node \cup {NoNode}] /\ w.cur \in Int
    BY <1>1, MaxDepthAssumption DEF Writers
  <2>2. Top(m) = n
    BY <1>2, <1>3, <2>1 DEF Top
  <2>3. ASSUME NEW i \in 0 .. w.cur - 1 PROVE m.node[i] = w.node[i]
    <3>1. i \in Slots /\ i # w.cur
      BY <1>2, <2>1, MaxDepthAssumption DEF Slots
    <3> QED BY <1>3, <2>1, <3>1
  <2> QED BY <2>2, <2>3
<1> QED BY <1>3, <1>4 DEF Marked, m

(* EndElemFull's mark is all that it leaves when it is rejected,           *)
LEMMA FullMarked ==
  ASSUME IInv, w.cur >= 0
  PROVE  LET m == SetTop(Fresh, [Top(w) EXCEPT !.full = TRUE])
         IN Shape(m) /\ m.err = "nil" /\ Marked(m)
<1> DEFINE n == [Top(w) EXCEPT !.full = TRUE]
<1>1. Shape(Fresh) /\ Fresh.err = "nil" /\ Fresh.cur = w.cur /\ Fresh.node = w.node /\ Shape(w)
  BY FreshFacts DEF IInv
<1>2. Top(w) \in Node /\ Top(Fresh) = Top(w)
  BY <1>1, TopFacts DEF Top
<1>3. n \in Node /\ OnlyMarked(n, Top(w))
  BY <1>2 DEF Node, OnlyMarked
<1>4. Shape(SetTop(Fresh, n)) /\ SetTop(Fresh, n).err = "nil"
  BY <1>1, <1>2, MarkFullLeads DEF Leads
<1> HIDE DEF n
<1> QED BY <1>3, <1>4, TopMarked DEF n

(* and the namespace is what an attribute leaves whose name is refused.    *)
LEMMA RegisteredMarked ==
  ASSUME IInv, CheckParent(w, {"none", "elem"}), NEW ns \in Pending
  PROVE  Marked(Registered(Fresh, ns)) /\ Registered(Fresh, ns) \in Writers
<1> DEFINE n == [Top(Fresh) EXCEPT !.ns = ns]
<1>1. /\ Fresh \in Writers /\ Fresh.cur = w.cur /\ Fresh.node = w.node /\ Shape(w) /\ Marked(Fresh)
  BY FreshFacts, FreshMarked DEF IInv, Shape
<1>2. CASE Registered(Fresh, ns) = Fresh
  BY <1>1, <1>2
<1>3. CASE /\ Fresh.cur >= 0 /\ Top(Fresh).state = "open" /\ Top(Fresh).ns # "bad" /\ ns # "none"
           /\ Registered(Fresh, ns) = SetTop(Fresh, n)
  <2>1. Top(w) \in Node /\ Top(Fresh) = Top(w) /\ w.cur >= 0
    BY <1>1, <1>3, TopFacts DEF Top
  <2>2. Top(w).kind = "elem"
    <3>1. ~(w.cur < 0)
      BY <1>1, <2>1, MaxDepthAssumption DEF Shape, Writers
    <3>2. Top(w).kind \in {"none", "elem"} /\ Top(w).kind \in Startables
      BY <2>1, <3>1 DEF CheckParent, CurrentKind, Node
    <3> QED BY <3>2 DEF Startables
  <2>3. n \in Node /\ OnlyMarked(n, Top(w))
    BY <1>3, <2>1, <2>2 DEF Node, OnlyMarked
  <2> HIDE DEF n
  <2> QED BY <1>3, <2>1, <2>3, TopMarked
<1> QED BY <1>2, <1>3 DEF Registered

(* So a rejection leaves no more than a mark, after every Start,           *)
LEMMA StartingRejects == ASSUME IInv, Starting PROVE RejectedMarking
<1> USE StartRejects
<1>1. ASSUME StartDoc \/ StartElem \/ StartDTD PROVE RejectedMarking
  BY <1>1 DEF StartDoc, StartElem, StartDTD, Returns
<1>2. ASSUME StartDTDAttList \/ StartComment \/ StartCData PROVE RejectedMarking
  BY <1>2 DEF StartDTDAttList, StartComment, StartCData, Returns
<1> QED BY <1>1, <1>2 DEF Starting

(* every Write,                                                            *)
LEMMA WritingRejects == ASSUME IInv, Writing PROVE RejectedMarking
<1>1. ASSUME WriteElem \/ WriteDTDAttList \/ WriteComment \/ WriteCData PROVE RejectedMarking
  BY <1>1, StartRejects DEF WriteElem, WriteDTDAttList, WriteComment, WriteCData, Writes
<1>2. ASSUME WriteText \/ WritePI \/ WriteCommentContent \/ WriteCDataContent PROVE RejectedMarking
  BY <1>2, LeafRejects DEF WriteText, WritePI, WriteCommentContent, WriteCDataContent, Returns
<1>3. ASSUME WriteDTDElem \/ WriteDTDEntity \/ WriteDTDAttr \/ WriteNotation PROVE RejectedMarking
  BY <1>3, LeafRejects DEF WriteDTDElem, WriteDTDEntity, WriteDTDAttr, WriteNotation, Returns
<1>4. w \in Writers /\ Fresh \in Writers /\ Fresh.err = "nil"
  BY FreshFacts DEF IInv, Shape
<1>5. \A rd : Wrote(Fresh, rd).err = "nil"
  BY <1>4, WroteKeeps
<1>6. ASSUME WriteRaw PROVE RejectedMarking
  BY <1>5, <1>6 DEF WriteRaw, Returns, Does, RejectedMarking
<1>7. ASSUME WriteAttr PROVE RejectedMarking
  <2>1. PICK ns \in Pending :
          LET v == Registered(Fresh, ns)
          IN \/ ~CheckParent(w, {"none", "elem"}) /\ Does(Outcome(w, "rejected"), Idle)
             \/ CheckParent(w, {"none", "elem"}) /\ Does(Outcome(v, "rejected"), Idle)
             \/ w' = Wrote(v, ReadLeaf(v.rd, "attr"))
    BY <1>7 DEF WriteAttr
  <2> DEFINE v == Registered(Fresh, ns)
  <2>2. \A u \in Writers : Rejects(Outcome(u, "rejected"), u)
    BY OutcomeFacts DEF Rejects, Errors, Tearing
  <2>3. CASE Does(Outcome(w, "rejected"), Idle)
    BY <1>4, <2>2, <2>3, FreshMarked, RejectedDoes DEF RejectedMarking
  <2>4. CASE CheckParent(w, {"none", "elem"}) /\ Does(Outcome(v, "rejected"), Idle)
    <3>1. Marked(v) /\ v \in Writers
      BY <2>4, RegisteredMarked
    <3> HIDE DEF v
    <3> QED BY <2>2, <2>4, <3>1, RejectedDoes DEF RejectedMarking
  <2>5. CASE w' = Wrote(v, ReadLeaf(v.rd, "attr"))
    <3>1. v \in Writers /\ v.err = "nil"
      BY RegisteredLeads
    <3> HIDE DEF v
    <3>2. \A rd : Wrote(v, rd).err = "nil"
      BY <3>1, WroteKeeps
    <3> QED BY <2>5, <3>2 DEF RejectedMarking
  <2> QED BY <2>1, <2>3, <2>4, <2>5
<1> QED BY <1>1, <1>2, <1>3, <1>6, <1>7 DEF Writing

(* and every End.                                                          *)
LEMMA EndingRejects == ASSUME IInv, Ending PROVE RejectedMarking
<1>1. Shape(Fresh) /\ Fresh.err = "nil" /\ Marked(Fresh) /\ Fresh \in Writers
  BY FreshFacts, FreshMarked
<1>2. ASSUME End \/ EndAny PROVE RejectedMarking
  BY <1>1, <1>2, EndRejects DEF End, EndAny, Returns
<1>3. ASSUME EndElemFull PROVE RejectedMarking
  <2> DEFINE m == IF w.cur < 0 THEN Fresh ELSE SetTop(Fresh, [Top(w) EXCEPT !.full = TRUE])
  <2>1. Shape(m) /\ m.err = "nil" /\ Marked(m)
    <3>1. w.cur < 0 \/ w.cur >= 0
      BY MaxDepthAssumption DEF IInv, Shape, Writers
    <3> QED BY <1>1, <3>1, FullMarked
  <2>2. PICK name : Does(EndKind(m, "elem", name), Idle)
    BY <1>3 DEF EndElemFull, Returns
  <2> HIDE DEF m
  <2> QED BY <2>1, <2>2, EndRejects
<1>4. ASSUME EndAll \/ EndDoc \/ EndToDepth PROVE RejectedMarking
  <2>1. PICK next : Does(Fresh, next)
    BY <1>4 DEF EndAll, EndDoc, EndToDepth
  <2> QED BY <1>1, <2>1 DEF Does, RejectedMarking
<1> QED BY <1>2, <1>3, <1>4 DEF Ending

(* And for every step that begins a call.                                  *)
LEMMA RejectionStep ==
  ASSUME IInv, [Next]_vars, call = Idle
  PROVE  RejectedMarking
<1>1. CASE UNCHANGED vars
  BY <1>1, FreshMarked DEF vars, RejectedMarking
<1>2. CASE CallNext
  <2>1. Shape(Fresh) /\ Fresh.err = "nil" /\ Fresh \in Writers /\ Marked(Fresh)
    BY FreshFacts, FreshMarked
  <2>2. NextChild(Fresh) \in Writers /\ NextChild(Fresh).err # "rejected"
    BY <2>1, NextChildKeeps, NextChildOutcome DEF Keeps, Shape, NeverRejects
  <2>3. Rejects(NextChild(Fresh), Fresh)
    <3>1. \A u \in Writers : [u EXCEPT !.rd = Lost].err = u.err
      BY DEF Writers
    <3> QED BY <2>2, <3>1 DEF Rejects
  <2> QED BY <1>2, <2>1, <2>3, RejectedDoes DEF CallNext, Returns, RejectedMarking
<1>3. ~Unwind /\ ~Finish
  BY DEF Idle, Unwind, Unwinding, Finish
<1> QED BY <1>1, <1>2, <1>3, StartingRejects, WritingRejects, EndingRejects DEF Next

(* A call that is rejected writes nothing and leaves the stack as it was,  *)
(* whichever call it was and whatever is open.  All that it can leave are  *)
(* the two marks on the current node: Full, and the namespace that an      *)
(* attribute registered before its name was refused.                       *)
THEOREM RejectionsOnlyMark == Spec => RejectionOnlyMarks
<1>1. IInv /\ [Next]_vars => (call' = Idle /\ call = Idle /\ w'.err = "rejected" =>
       /\ w'.rd = w.rd /\ w'.cur = w.cur
       /\ \A i \in 0 .. w.cur - 1 : w'.node[i] = w.node[i]
       /\ w.cur >= 0 => OnlyMarked(Top(w'), Top(w)))
  BY RejectionStep DEF RejectedMarking, Marked
<1> QED BY <1>1, Invariance, PTL DEF Spec, RejectionOnlyMarks

-----------------------------------------------------------------------------
(* A user that only wants to get out (WriterClosing). *)

(* Such a user is a user of the writer: giving up is no call.              *)
LEMMA ClosingStep == ASSUME [ClosingNext]_closingVars PROVE [Next]_vars
<1>1. EndAll => Next
  BY DEF Next, Ending
<1>2. Unwind \/ Finish => Next
  BY DEF Next
<1> QED BY <1>1, <1>2 DEF ClosingNext, Working, GiveUp, EndAllAgain, FinishCall, closingVars, vars

(* So what is proved of the writer holds for it.                           *)
THEOREM ClosingIsUse == ClosingSpec => Spec
<1>1. ClosingInit => Init
  BY DEF ClosingInit
<1>2. [ClosingNext]_closingVars => [Next]_vars
  BY ClosingStep
<1> QED BY <1>1, <1>2, PTL DEF ClosingSpec, Spec

(* An end that comes back with an error has opened the node and is stuck   *)
(* there, the node being opened now.                                       *)
LEMMA EndNodeStuck ==
  ASSUME NEW v, Shape(v), v.cur >= 0, v.err = "nil", EndNode(v).err # "nil"
  PROVE  LET u == EndNode(v)
         IN /\ Top(v).state = "open" /\ u.cur = v.cur /\ Top(u).state = "opened"
            /\ u \in Writers /\ u.err \in {"dropped", "failed"}
<1> DEFINE o == OpenedForEnd(v)
<1>1. EndNode(v).err \in NeverRejects
  BY EndNodeOutcome
<1>2. v.cur \in Slots /\ v \in Writers /\ Top(v).kind \in Startables
  BY TopFacts DEF Shape, Node
<1>3. ASSUME Top(v).state = "open"
      PROVE  o \in Writers /\ o.cur = v.cur /\ Top(o).state = "opened" /\ Top(o).kind \in Startables
  <2>1. PICK n \in Node : n.kind = Top(v).kind /\ n.state = "opened" /\ Opened(v).node = [v.node EXCEPT ![v.cur] = n]
    BY OpenedStands DEF Stands
  <2>2. Opened(v) \in Writers /\ Opened(v).cur = v.cur
    BY OpenedStands DEF Stands
  <2>3. Top(Opened(v)) = n
    BY <1>2, <2>1, <2>2 DEF Top, Writers
  <2> QED BY <1>2, <1>3, <2>1, <2>2, <2>3 DEF OpenedForEnd
<1>4. ASSUME o.err = "nil", o \in Writers, Top(o).kind \in Startables PROVE EndNode(v).err = "nil"
  <2> DEFINE e == Ended(o, Top(v).state)
  <2>1. EndNode(v) = Drop(e)
    BY <1>4 DEF EndNode
  <2>2. e = o \/ \E rd : e = Wrote(o, rd)
    <3> HIDE DEF o
    <3> QED BY <1>4 DEF Ended, Startables
  <2> HIDE DEF o, e
  <2>3. Drop(e).err = "nil"
    <3>1. CASE e = o
      BY <1>4, <3>1 DEF Drop, Writers
    <3>2. ASSUME NEW rd, e = Wrote(o, rd) PROVE Drop(e).err = "nil"
      BY <1>4, <3>2 DEF Drop, Wrote, Writers
    <3> QED BY <2>2, <3>1, <3>2
  <2> QED BY <2>1, <2>3
<1>5. CASE Top(v).state # "open"
  <2>1. o = v
    BY <1>5 DEF OpenedForEnd
  <2> QED BY <1>2, <1>4, <2>1
<1>6. CASE Top(v).state = "open"
  <2>1. o.err # "nil"
    BY <1>3, <1>4, <1>6
  <2>2. EndNode(v) = o
    BY <2>1 DEF EndNode
  <2> HIDE DEF o
  <2> QED BY <1>1, <1>3, <1>6, <2>2 DEF NeverRejects
<1> QED BY <1>5, <1>6

StuckAtDropped ==
  closing /\ call.op = "EndAll" /\ w'.err # "nil"
    => /\ w'.err = "dropped" \/ ~clean'
       /\ w'.cur = w.cur /\ Top(w).state = "open" /\ Top(w').state = "opened"

(* A step of a user that is closing either ends a node or opens one.       *)
LEMMA StuckStep == ASSUME IInv, [ClosingNext]_closingVars PROVE StuckAtDropped
<1> SUFFICES ASSUME closing, call.op = "EndAll", w'.err # "nil"
             PROVE  /\ w'.err = "dropped" \/ ~clean'
                    /\ w'.cur = w.cur /\ Top(w).state = "open" /\ Top(w').state = "opened"
  BY DEF StuckAtDropped
<1>1. Shape(w) /\ w \in Writers /\ w.err = "nil" /\ w.cur \in Int
  BY MaxDepthAssumption DEF IInv, Shape, Writers
<1>2. Unwind \/ Finish
  <2>1. call # Idle
    BY DEF Idle
  <2>2. ~UNCHANGED closingVars
    BY <1>1 DEF closingVars
  <2> QED BY <2>1, <2>2 DEF ClosingNext, Working, GiveUp, EndAllAgain, FinishCall, EndAll
<1>3. ~Finish
  <2>1. Finish => Does(w, Idle)
    BY DEF Finish
  <2>2. Does(w, Idle) => w' = w
    BY <1>1 DEF Does
  <2> QED BY <1>1, <2>1, <2>2
<1>4. w.cur > -1 /\ Does(Pop(w), call)
  BY <1>2, <1>3 DEF Unwind, Floor
<1>5. w.cur >= 0 /\ Pop(w) = EndNode(w)
  BY <1>1, <1>4 DEF Pop
<1> DEFINE u == EndNode(w)
<1>6. w' = (IF u.err \in Tearing THEN [u EXCEPT !.rd = Lost] ELSE u) /\ clean' = (clean /\ u.err \notin Tearing)
  BY <1>4, <1>5 DEF Does
<1>7. u.err # "nil"
  BY <1>6
<1>8. /\ Top(w).state = "open" /\ u.cur = w.cur /\ Top(u).state = "opened"
      /\ u \in Writers /\ u.err \in {"dropped", "failed"}
  BY <1>1, <1>5, <1>7, EndNodeStuck
<1> HIDE DEF u
<1>9. w'.cur = u.cur /\ w'.node = u.node /\ w'.err = u.err
  BY <1>6, <1>8 DEF Writers
<1>10. Top(w') = Top(u)
  BY <1>9 DEF Top
<1> QED BY <1>6, <1>8, <1>9, <1>10 DEF Tearing

(* A user that keeps calling EndAll makes progress: an EndAll that returns *)
(* an error has opened the node it is stuck at, which the next EndAll need *)
(* not do again.                                                           *)
THEOREM ClosingProgresses == ClosingSpec => EndAllStopsAtDropped
<1>1. IInv /\ [ClosingNext]_closingVars =>
        (closing /\ call.op = "EndAll" /\ w'.err # "nil"
           => /\ w'.err = "dropped" \/ ~clean'
              /\ w'.cur = w.cur /\ Top(w).state = "open" /\ Top(w').state = "opened")
  BY StuckStep DEF StuckAtDropped
<1> QED BY <1>1, Invariance, ClosingIsUse, PTL DEF ClosingSpec, EndAllStopsAtDropped
=============================================================================
