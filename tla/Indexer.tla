------------------------------ MODULE Indexer ------------------------------
(***************************************************************************)
(* tester/ctester/indexer.c: counts what is in the files that are named on *)
(* its input, a row of a database for each, and answers which of them to   *)
(* test with.  ix holds both commands:                                     *)
(*   exists, rows         the database,                                    *)
(*   given, todo          the lines of cmd_index, and those still to do,   *)
(*   phase, n, left       where xml_index is in the file Head(todo): how   *)
(*                        many buffers are read, and which of the last     *)
(*                        one's events expat has still to report,          *)
(*   cur, err             struct current, struct ctx_err,                  *)
(*   asked, found, exit   the options and the answer of cmd_query, and     *)
(*                        what the last command returned.                  *)
(* A hash is the sequence of what was hashed; a row's msg is left out, and *)
(* its file is the path as it was bound: the column has Stored[file].      *)
(***************************************************************************)
EXTENDS Integers, Sequences, FiniteSets, SequencesExt

CONSTANTS
  Inputs,    \* sequences of paths, the lines of cmd_index
  Content,   \* for each path, [readable, raw, buffers, stops]: readable, that it can be opened
             \* and has a supported type; raw, what raw_encoding_extract finds; stops, that expat
             \* does not get to the end of what it was given
  Stored     \* what the column file keeps of a path.  Its type is STRING, for SQLite a number if the
             \* text reads as one: of 1, 01 and 1.0 it keeps 1, and the other paths as they are

(* What expat makes of a file is in its text. *)
ASSUME IndexerAssumption ==
  \A p, q \in DOMAIN Content :
    Content[p].buffers = Content[q].buffers => Content[p].stops = Content[q].stops /\ Content[p].raw = Content[q].raw

(* The events of one kind among the first n.                               *)
Where(events, kind, n) == {i \in 1 .. n : events[i].is = kind}

(* The elements that are open after n events.                              *)
Open(events, n) == Cardinality(Where(events, "start", n)) - Cardinality(Where(events, "end", n))

(* Lines are paths.  Of a file a sequence of buffers is read, the events   *)
(* of starts and comments have a size, and no element ends that did not    *)
(* start.                                                                  *)
ASSUME IndexerInputs ==
  /\ Inputs \subseteq Seq(DOMAIN Content)
  /\ \A p \in DOMAIN Content :
       LET buffers == Content[p].buffers
       IN /\ Content[p].readable \in BOOLEAN /\ buffers \in Seq(ToSet(buffers)) \ {<<>>}
          /\ \A b \in ToSet(buffers) :
               b \in Seq(ToSet(b)) /\ \A e \in ToSet(b) : e.is \in {"start", "comment"} => e.size \in Nat
          /\ \A n \in 0 .. Len(FlattenSeq(buffers)) : Open(FlattenSeq(buffers), n) >= 0

VARIABLE ix

(* Expat's events with a counter of their own, and it. *)
CounterOf == [pi |-> "pis", cdata |-> "cdatas", public |-> "dtds_public", system |-> "dtds_system",
              element |-> "dtd_elems", attlist |-> "dtd_attlists", entity |-> "dtd_entities",
              notation |-> "notations"]

Counters == {CounterOf[e] : e \in DOMAIN CounterOf}
  \cup {"elems", "nselems", "attrs", "nsattrs", "comments", "comment_bytes", "comment_max",
        "entity_refs", "entity_refs_dec", "entity_refs_hex", "depth", "max_depth"}

-----------------------------------------------------------------------------
(* The handlers.  An event is [is, ns, size]: ns, that the element's name  *)
(* has a prefix; size, of its attributes, of the comment, of the reference.*)

CurrentZero == [count |-> [k \in Counters |-> 0], encoding |-> "NULL", raw |-> "NULL"]

Bump(cur, k, by) == [cur EXCEPT !.count[k] = @ + by]

Raise(cur, k, to) == [cur EXCEPT !.count[k] = IF @ < to THEN to ELSE @]

(* mutant: the deepest level is not kept *)
CountStartFlat(cur, e) ==
  Bump(Bump(Bump(cur, IF e.ns THEN "nselems" ELSE "elems", 1), IF e.ns THEN "nsattrs" ELSE "attrs", e.size),
       "depth", 1)

(* An attribute is counted by the prefix of its element. *)
CountStart(cur, e) ==
  LET named == Bump(Bump(cur, IF e.ns THEN "nselems" ELSE "elems", 1), IF e.ns THEN "nsattrs" ELSE "attrs", e.size)
      deeper == Bump(named, "depth", 1)
  IN Raise(deeper, "max_depth", deeper.count["depth"])

CountEnd(cur) == [cur EXCEPT !.count["depth"] = @ - 1]

CountComment(cur, e) == Raise(Bump(Bump(cur, "comments", 1), "comment_bytes", e.size), "comment_max", e.size)

References == {"entity_refs", "entity_refs_dec", "entity_refs_hex"}

(* xml_default: a reference, "&" and ";" included, or anything else. *)
CountDefault(cur, e) == IF e.is \in References /\ e.size > 3 THEN Bump(cur, e.is, 1) ELSE cur

Handled(cur, e) ==
  CASE e.is = "start"              -> CountStart(cur, e)
    [] e.is = "end"                -> CountEnd(cur)
    [] e.is = "decl"               -> [cur EXCEPT !.encoding = e.encoding]
    [] e.is = "comment"            -> CountComment(cur, e)
    [] e.is \in DOMAIN CounterOf   -> Bump(cur, CounterOf[e.is], 1)
    [] OTHER                       -> CountDefault(cur, e)

-----------------------------------------------------------------------------
(* cmd_index and xml_index. *)

IndexerIdle ==
  [exists |-> FALSE, rows |-> {}, given |-> <<>>, todo |-> <<>>, phase |-> "idle", n |-> 0, left |-> <<>>,
   cur |-> CurrentZero, err |-> "OK", asked |-> "nothing", found |-> {}, exit |-> "none"]

(* A database is made once and not added to. *)
StartIndex == ix.phase = "idle"
  /\ \E lines \in Inputs :
       ix' = IF ix.exists THEN [ix EXCEPT !.exit = "ERR_DB_EXISTS", !.asked = "nothing"]
             ELSE [ix EXCEPT !.exists = TRUE, !.given = lines, !.todo = lines, !.phase = "lines"]

Now == Content[Head(ix.todo)]

(* mutant: struct current is that of the file before *)
OpenedKeepsCurrent(d) == [d EXCEPT !.err = "OK", !.n = 0, !.phase = "read"]

Opened(d) == [d EXCEPT !.err = "OK", !.cur = CurrentZero, !.n = 0, !.phase = "read"]

(* A line; a file that cannot be read is reported and gets no row. *)
NextLine == ix.phase = "lines" /\ ix.todo # <<>>
  /\ ix' = IF Now.readable THEN Opened(ix) ELSE [ix EXCEPT !.err = "ERR_OPEN", !.todo = Tail(@)]

ReadBuffer == ix.phase = "read"
  /\ ix' = [ix EXCEPT !.n = @ + 1, !.left = Now.buffers[ix.n + 1], !.phase = "parse",
                      !.cur.raw = IF ix.n = 0 THEN Now.raw ELSE @]

Callback == ix.phase = "parse" /\ ix.left # <<>> /\ Head(ix.left).is # "error"
  /\ ix' = [ix EXCEPT !.cur = Handled(@, Head(ix.left)), !.left = Tail(@)]

ParseFails == ix.phase = "parse" /\ ix.left # <<>> /\ Head(ix.left).is = "error"
  /\ ix' = [ix EXCEPT !.err = "ERR_PARSE_FAIL", !.left = <<>>, !.phase = "insert"]

ParseReturns == ix.phase = "parse" /\ ix.left = <<>>
  /\ ix' = IF ix.n < Len(Now.buffers) THEN [ix EXCEPT !.phase = "read"]
           ELSE [ix EXCEPT !.phase = "insert", !.err = IF Now.stops THEN "ERR_PARSE_STOPPED" ELSE @]

(* mutant: only the first buffer is hashed *)
HashFirst(buffers, n) == SubSeq(buffers, 1, 1)

(* What was read, the buffer that did not parse included. *)
Hash(buffers, n) == SubSeq(buffers, 1, n)

(* mutant: a file that does not parse ends the loop *)
AfterRowStops(d) == [d EXCEPT !.phase = "lines", !.todo = IF d.err = "OK" THEN Tail(@) ELSE <<>>]

AfterRow(d) == [d EXCEPT !.phase = "lines", !.todo = Tail(@)]

(* The file is the primary key, and what the insertion returns is not      *)
(* looked at.                                                              *)
Insert == ix.phase = "insert"
  /\ LET row == [file |-> Head(ix.todo), hash |-> Hash(Now.buffers, ix.n), status |-> ix.err, cur |-> ix.cur]
         new == IF \E r \in ix.rows : Stored[r.file] = Stored[row.file] THEN {} ELSE {row}
     IN ix' = AfterRow([ix EXCEPT !.rows = @ \cup new])

IndexEnds == ix.phase = "lines" /\ ix.todo = <<>>
  /\ ix' = [ix EXCEPT !.phase = "idle", !.exit = "OK", !.asked = "nothing"]

-----------------------------------------------------------------------------
(* cmd_query, without a clause of the user's.  SQLite takes any row of a   *)
(* group.                                                                  *)

Groups(rows) == {g \in SUBSET rows : /\ {r.hash : r \in g} = {r.hash : r \in rows}
                                     /\ \A r, s \in g : r.hash = s.hash => r = s}

Answers(errors, dupes) ==
  LET rows == {r \in ix.rows : errors \/ r.status = "OK"} IN IF dupes THEN {rows} ELSE Groups(rows)

Query == ix.phase = "idle"
  /\ IF ~ix.exists THEN ix' = [ix EXCEPT !.exit = "ERR_DB_NOT_EXISTS"]
     ELSE \E errors, dupes \in BOOLEAN : \E rows \in Answers(errors, dupes) :
       ix' = [ix EXCEPT !.found = {Stored[r.file] : r \in rows}, !.exit = "OK",
                        !.asked = IF errors \/ dupes THEN "more" ELSE "each once"]

IndexNext == StartIndex \/ NextLine \/ ReadBuffer \/ Callback \/ ParseFails \/ ParseReturns \/ Insert
  \/ IndexEnds \/ Query

IndexSpec == ix = IndexerIdle /\ [][IndexNext]_ix

-----------------------------------------------------------------------------
(* Properties. *)

(* The commands keep their type; no element is open below the deepest      *)
(* level, and none ends that did not start.                                *)
IndexTypeOK ==
  /\ ix.phase \in {"idle", "lines", "read", "parse", "insert"}
  /\ ix.cur.count \in [Counters -> Nat] /\ ix.cur.count["depth"] <= ix.cur.count["max_depth"]
  /\ ix.err \in {"OK", "ERR_OPEN", "ERR_PARSE_FAIL", "ERR_PARSE_STOPPED"}
  /\ \A r \in ix.rows : r.file \in DOMAIN Content /\ r.status # "ERR_OPEN"

(* Expat reports the first n events: all of them, or those before an error.*)
Reports(events, n) ==
  (\A i \in 1 .. n : events[i].is # "error") /\ (n < Len(events) => events[n + 1].is = "error")

Sizes(events, kind) ==
  LET sum[n \in 0 .. Len(events)] ==
        IF n = 0 THEN 0 ELSE sum[n - 1] + (IF events[n].is = kind THEN events[n].size ELSE 0)
  IN sum

IsLargest(m, S) == m \in S /\ \A x \in S : x <= m

Tells(cur, events, n) ==
  LET At(kind) == Where(events, kind, n)
  IN /\ cur.count["elems"] + cur.count["nselems"] = Cardinality(At("start"))
     /\ cur.count["attrs"] + cur.count["nsattrs"] = Sizes(events, "start")[n]
     /\ IsLargest(cur.count["max_depth"], {0} \cup {Open(events, i) : i \in 1 .. n})
     /\ cur.count["comment_bytes"] = Sizes(events, "comment")[n]
     /\ IsLargest(cur.count["comment_max"], {0} \cup {events[i].size : i \in At("comment")})
     /\ \A e \in DOMAIN CounterOf : cur.count[CounterOf[e]] = Cardinality(At(e))
     /\ \A i \in At("decl") : (\A j \in At("decl") : j <= i) => cur.encoding = events[i].encoding
     /\ At("decl") = {} => cur.encoding = "NULL"

(* A row says what is in its file up to where expat gave up, however the   *)
(* text is cut into buffers and whatever was indexed, or failed, before.   *)
RowTellsFile ==
  \A r \in ix.rows :
    LET events == FlattenSeq(Content[r.file].buffers)
    IN \E n \in 0 .. Len(events) :
         /\ Reports(events, n) /\ Tells(r.cur, events, n) /\ r.cur.raw = Content[r.file].raw
         /\ r.status = "OK" <=> ~Content[r.file].stops /\ n = Len(events)

(* The line i is the first that names a file that can be read and that the *)
(* database would keep under this name.                                    *)
IsFirst(lines, i) ==
  /\ Content[lines[i]].readable
  /\ \A j \in 1 .. i - 1 : Content[lines[j]].readable => Stored[lines[j]] # Stored[lines[i]]

(* When the command is done every name that the database can keep of a     *)
(* file that could be read has one row, and that tells of the file which   *)
(* was named first: neither a file named twice nor errors on other lines   *)
(* cost a file its row, only another file whose path is the same number.   *)
FirstOfEachName ==
  ix.exists /\ ix.phase = "idle" =>
    /\ {Stored[r.file] : r \in ix.rows} = {Stored[p] : p \in {q \in ToSet(ix.given) : Content[q].readable}}
    /\ \A r, s \in ix.rows : Stored[r.file] = Stored[s.file] => r = s
    /\ \A r \in ix.rows : \E i \in 1 .. Len(ix.given) : r.file = ix.given[i] /\ IsFirst(ix.given, i)

(* A query without options lists of the rows whose file parsed, and only   *)
(* of them, each distinct file exactly once.                               *)
QueryListsEachOnce ==
  ix.asked = "each once" =>
    LET parsed == {r \in ix.rows : r.status = "OK"}
        Listed(r) == {s \in parsed : /\ Stored[s.file] \in ix.found
                                     /\ Content[s.file].buffers = Content[r.file].buffers}
    IN /\ ix.found \subseteq {Stored[r.file] : r \in parsed}
       /\ \A r \in parsed : Cardinality(Listed(r)) = 1
=============================================================================
