------------------------------- MODULE CTester -------------------------------
(***************************************************************************)
(* tester/ctester/ctester.c: plays the commands of a script on libxml2's   *)
(* writer.  Beside the writer's own nodes it keeps a list of what to run   *)
(* for "end all": each start pushes an entry, each end pops one.           *)
(*                                                                         *)
(* c is struct ct_ctx and the fate of script_run:                          *)
(*   xml     the libxml2 writer,                                           *)
(*   end     the list, newest first: what an entry ends, and whether its   *)
(*           memory is still allocated,                                    *)
(*   in_dtd  as in the code,                                               *)
(*   outcome "nil" while running, "done", "failed" at a command, "invalid" *)
(*           if no command is run, "freed twice" after freed memory was    *)
(*           used: what the program does then is anyone's guess.           *)
(***************************************************************************)
EXTENDS LibXml, FiniteSets

CONSTANTS
  CNames,    \* the names of nodes
  MaxEnds    \* bound: how many entries the list has

ASSUME CTesterAssumption == MaxEnds \in Nat \ {0}

VARIABLES
  c,
  last    \* the command run last (an observation)

ctesterVars == <<c, last>>

-----------------------------------------------------------------------------
(* Scripts: the commands that script_parse accepts. *)

CWrites == {"attr", "cdata", "cdatacontent", "comment", "dtdelem", "dtdattr", "dtdentity", "notation",
            "pi", "raw", "text"}

CStarts == {"cdata", "comment", "doc", "dtd", "dtdattlist", "elem"}

CEnds == CStarts \cup {"all"}

(* The text of an attribute that bool_from_xml reads. *)
BoolTexts == {"none", "true", "false", "junk"}

Flagged == {<<"write", "dtdattr">>, <<"write", "dtdentity">>, <<"write", "raw">>, <<"end", "elem">>}

Valid(action, kind, flag) ==
  /\ kind \in (CASE action = "write" -> CWrites [] action = "start" -> CStarts
                 [] action = "end" -> CEnds [] OTHER -> {})
  /\ <<action, kind>> \in Flagged => flag # "junk"
  /\ action = "write" /\ kind = "raw" => flag # "false"

-----------------------------------------------------------------------------
(* The list of what to end. *)

NewRun == [xml |-> NewTextWriter, end |-> <<>>, in_dtd |-> FALSE, outcome |-> "nil"]

EndPush(d, kind) == [d EXCEPT !.end = <<[kind |-> kind, live |-> TRUE]>> \o @]

Corrupt(d) == [d EXCEPT !.outcome = "freed twice"]

(* mutant: the entry is freed and stays on the list *)
EndPopKeepsEntry(d) ==
  IF d.end = <<>> THEN d
  ELSE IF ~d.end[1].live THEN Corrupt(d)
  ELSE [d EXCEPT !.end[1].live = FALSE]

(* ctx_end_pop. *)
EndPop(d) ==
  IF d.end = <<>> THEN d
  ELSE IF ~d.end[1].live THEN Corrupt(d)
  ELSE [d EXCEPT !.end = Tail(@)]

(* ctx_end frees the entries and leaves the pointer to the first of them. *)
FreeEnds(d) ==
  IF \E i \in DOMAIN d.end : ~d.end[i].live THEN Corrupt(d)
  ELSE [d EXCEPT !.end = [i \in DOMAIN @ |-> [@[i] EXCEPT !.live = FALSE]]]

-----------------------------------------------------------------------------
(* The run functions of the params. *)

With(d, x) == [d EXCEPT !.xml = x]

(* mutant: without the detour for DTDs *)
WriteCommentPlainly(d) == With(d, WriteSection(d.xml))

(* libxml2 refuses comments in a DTD, so they are written raw there. *)
WriteComment(d) == With(d, IF d.in_dtd THEN WriteRaw(d.xml) ELSE WriteSection(d.xml))

RunWrite(d, kind) ==
  CASE kind = "attr"                    -> With(d, WriteAttribute(d.xml))
    [] kind = "cdata"                   -> With(d, WriteSection(d.xml))
    [] kind = "comment"                 -> WriteComment(d)
    [] kind \in {"dtdelem", "notation"} -> With(d, WriteDeclaration(d.xml))
    [] kind = "dtdentity"               -> With(d, WriteDTDEntity(d.xml))
    [] kind = "pi"                      -> With(d, WritePI(d.xml))
    [] OTHER                            -> With(d, WriteRaw(d.xml))   \* cdatacontent, dtdattr, raw, text

(* mutant: the entry is made for the name *)
RunStartEndsName(d, kind, name) ==
  With(EndPush(d, name), StartElement(d.xml, name))

(* The entry is pushed before libxml2 is asked. *)
RunStart(d, kind, name) ==
  LET x == d.xml
      p == EndPush([d EXCEPT !.in_dtd = @ \/ kind = "dtd"], kind)
  IN With(p, CASE kind = "doc"        -> StartDocument(x)
               [] kind = "dtd"        -> StartDTD(x, name)
               [] kind = "dtdattlist" -> StartDTDAttlist(x, name)
               [] kind = "elem"       -> StartElement(x, name)
               [] kind = "cdata"      -> StartSection(x, "CDATA", name)
               [] kind = "comment"    -> StartSection(x, "COMMENT", name))

(* mutant: an attribute list is left to the end of its DTD *)
EndXmlLeavesList(x, kind) ==
  CASE kind = "doc"        -> EndDocument(x)
    [] kind = "dtd"        -> EndDTD(x)
    [] kind = "dtdattlist" -> x
    [] kind = "elem"       -> EndIn(x, ElemStates)
    [] kind = "cdata"      -> EndIn(x, {"CDATA"})
    [] kind = "comment"    -> EndIn(x, {"COMMENT"})

EndXml(x, kind) ==
  CASE kind = "doc"        -> EndDocument(x)
    [] kind = "dtd"        -> EndDTD(x)
    [] kind = "dtdattlist" -> EndIn(x, AttlistStates)
    [] kind = "elem"       -> EndIn(x, ElemStates)
    [] kind = "cdata"      -> EndIn(x, {"CDATA"})
    [] kind = "comment"    -> EndIn(x, {"COMMENT"})

(* mutant: the flag outlives the DTD *)
RunEndKeepsFlag(d, kind) ==
  LET e == With(d, EndXml(d.xml, kind)) IN IF kind = "dtd" THEN e ELSE EndPop(e)

(* mutant: the ends of sections do not pop either *)
RunEndPopsLess(d, kind) ==
  LET e == With([d EXCEPT !.in_dtd = @ /\ kind # "dtd"], EndXml(d.xml, kind))
  IN IF kind \in {"dtd", "cdata", "comment"} THEN e ELSE EndPop(e)

(* params_end_dtd_run is the one that does not pop. *)
RunEnd(d, kind) ==
  LET e == With([d EXCEPT !.in_dtd = @ /\ kind # "dtd"], EndXml(d.xml, kind))
  IN IF kind = "dtd" THEN e ELSE EndPop(e)

(* mutant: only the innermost is ended *)
RunEndAllStopsAtFirst(d) ==
  IF d.end = <<>> THEN d ELSE FreeEnds(RunEnd(d, d.end[1].kind))

(* One entry for "end all": a failure of libxml2 stops the rest. *)
EndEntry(d, entry) ==
  IF ~d.xml.ok \/ d.outcome # "nil" THEN d
  ELSE IF ~entry.live THEN Corrupt(d)
  ELSE RunEnd(d, entry.kind)

(* params_end_all_run reads the list as it was, while the entries' own run *)
(* functions pop it: after[i] is the run when i entries are done.          *)
RunEndAll(d) ==
  LET after[i \in 0 .. Len(d.end)] == IF i = 0 THEN d ELSE EndEntry(after[i - 1], d.end[i])
      e == after[Len(d.end)]
  IN IF e.xml.ok /\ e.outcome = "nil" THEN FreeEnds(e) ELSE e

Run(d, action, kind, name) ==
  CASE action = "write" -> RunWrite(d, kind)
    [] action = "start" -> RunStart(d, kind, name)
    [] action = "end"   -> IF kind = "all" THEN RunEndAll(d) ELSE RunEnd(d, kind)

(* ctx_deinit. *)
Deinit(d, outcome) ==
  LET e == FreeEnds(d) IN IF e.outcome = "nil" THEN [e EXCEPT !.outcome = outcome] ELSE e

(* One turn of the loop of script_run. *)
Exec(d, action, kind, name) ==
  LET e == Run(d, action, kind, name)
  IN IF d.outcome # "nil" THEN d ELSE IF e.xml.ok THEN e ELSE Deinit(e, "failed")

-----------------------------------------------------------------------------
(* Any script. *)

CInit == c = NewRun /\ last = <<>>

(* script_parse reads the whole script before anything is run. *)
Reject == c = NewRun /\ last = <<>>
  /\ \E action \in {"write", "start", "end", "junk"}, kind \in CWrites \cup CEnds \cup {"junk"}, flag \in BoolTexts :
       ~Valid(action, kind, flag)
  /\ c' = [c EXCEPT !.outcome = "invalid"] /\ UNCHANGED last

PlayCommand(action, kind, name) ==
  /\ c.outcome = "nil"
  /\ action = "start" => Len(c.end) < MaxEnds
  /\ c' = Exec(c, action, kind, name) /\ last' = <<action, kind>>

PlayWrite == \E kind \in CWrites : PlayCommand("write", kind, "noname")

PlayStart == \E kind \in CStarts, name \in CNames : PlayCommand("start", kind, name)

(* Bound: scripts do not end a DTD in an open comment, which libxml2 would *)
(* close while its entry stays on the list.  Elsewhere a stray end of a    *)
(* DTD ends nothing and is not refused.                                    *)
PlayEnd == \E kind \in CEnds :
  /\ kind = "dtd" => State(c.xml) # "COMMENT"
  /\ PlayCommand("end", kind, "noname")

EndOfScript == c.outcome = "nil" /\ c' = Deinit(c, "done") /\ last' = <<>>

CNext == Reject \/ PlayWrite \/ PlayStart \/ PlayEnd \/ EndOfScript

CSpec == CInit /\ [][CNext]_ctesterVars

-----------------------------------------------------------------------------
(* Properties. *)

(* The run keeps its type. *)
CTypeOK ==
  /\ c.xml.ok \in BOOLEAN /\ c.in_dtd \in BOOLEAN
  /\ \A i \in DOMAIN c.xml.nodes : c.xml.nodes[i] \in [state : NodeStates, name : CNames]
  /\ Len(c.end) <= MaxEnds
  /\ \A i \in DOMAIN c.end : c.end[i] \in [kind : CStarts, live : BOOLEAN]
  /\ c.outcome \in {"nil", "done", "failed", "invalid", "freed twice"}

KindOf(state) ==
  CASE state \in ElemStates    -> "elem"
    [] state \in DTDStates     -> "dtd"
    [] state \in AttlistStates -> "dtdattlist"
    [] state = "CDATA"         -> "cdata"
    [] state = "COMMENT"       -> "comment"

(* The two lists of what is open, ctester's and libxml2's, agree where it  *)
(* matters: the newest entries are those of the open nodes, in order.      *)
(* Entries that outlived their node (of a DTD, of what "end doc" closed    *)
(* along with the document) are below all of them, never between.          *)
EndStackMatches ==
  c.outcome = "nil" =>
    /\ Len(c.xml.nodes) <= Len(c.end)
    /\ \A i \in DOMAIN c.xml.nodes : c.end[i].kind = KindOf(c.xml.nodes[i].state)

Outlived == {c.end[i].kind : i \in Len(c.xml.nodes) + 1 .. Len(c.end)}

(* "end all" closes everything, and succeeds unless an earlier end closed  *)
(* more than its own node (a list with its DTD, elements with the document)*)
EndAllCloses ==
  [][last' = <<"end", "all">> /\ c # c' /\ c'.outcome # "freed twice" =>
       /\ c'.outcome # "failed" => c'.xml.nodes = <<>>
       /\ Outlived \subseteq {"doc", "dtd"} => c'.outcome = "nil"]_ctesterVars

(* What is open in the output, outermost first. *)
OpenNodes(d) ==
  LET n == Len(d.xml.nodes)
      Shown(node) == IF KindOf(node.state) = "elem" THEN node.name ELSE KindOf(node.state)
  IN [i \in 1 .. n |-> Shown(d.xml.nodes[n + 1 - i])]

Dead(d) == Cardinality({i \in DOMAIN d.end : ~d.end[i].live})

Entries(d, kind) == Cardinality({i \in DOMAIN d.end : d.end[i].kind = kind})

(* After "end all" ctx->end points to freed memory if there was a DTD, and *)
(* only then: at most one entry is left for each.                           *)
DanglingOnlyByDTD ==
  [][c'.outcome = "nil" =>
       Dead(c') <= IF last' = <<"end", "all">> THEN Entries(c, "dtd") ELSE Dead(c)]_ctesterVars

(* Every entry is freed once: "end->parent will get freed by end->params-> *)
(* run" (ctester.c:1078).                                                  *)
FreedOnce == c.outcome # "freed twice"
=============================================================================
