---------------------------- MODULE MCCPrograms ----------------------------
(* The C programs around testbuilder, one at a time, on small inputs: for  *)
(* ctester any script that ends no DTD while a comment is open, for the    *)
(* others files of up to three buffers.                                    *)
EXTENDS CTester, EncTools, Indexer, Normaliser

allVars == <<c, last, fx, ix, nz>>

-----------------------------------------------------------------------------
(* encfixer and encextractor.  Declarations of one to three attributes in  *)
(* the layouts that XML allows, with one kind of white space at a time,    *)
(* and bodies that make the last buffer short, full and empty.             *)
AttLists == {<<<<<<"version">>, <<"1.0">>>>>>,
             <<<<<<"version">>, <<"1.0">>>>, <<<<"encoding">>, <<"iso">>>>>>,
             <<<<<<"version">>, <<"1.0">>>>, <<<<"encoding">>, <<"iso">>>>, <<<<"standalone">>, <<"yes">>>>>>}

Rests == {<<"?", "gt">> \o body :
            body \in {<<>>, <<"w">>, <<"w", "=">>, <<"dq", "?", "w">>, <<"w", "w", "w", "w">>}}

DeclarationText(atts, sep, eq, q) ==
  LET One(a) == <<a[1][1]>> \o eq \o <<q, a[2][1], q>>
  IN FoldLeft(LAMBDA t, a : t \o sep \o One(a), One(atts[1]), Tail(atts))

MCDeclared ==
  {[text |-> DeclarationText(atts, sep, eq, q) \o trail \o rest, declared |-> TRUE] :
      atts \in AttLists, sep \in {<<"sp">>, <<"sp", "sp">>, <<"nl">>, <<"nl", "sp">>},
      eq \in {<<"=">>, <<"sp", "=">>, <<"=", "nl">>}, q \in Quotes,
      trail \in {<<>>, <<"sp">>, <<"nl">>}, rest \in Rests}

(* The reference reads back what was laid out. *)
ASSUME ReadsBack ==
  \A atts \in AttLists, sep \in {<<"sp">>, <<"nl", "sp">>}, eq \in {<<"=">>, <<"sp", "=", "tab">>}, q \in Quotes :
    LET x == XmlRead(DeclarationText(atts, sep, eq, q) \o <<"?">>)
    IN x.atts = atts /\ (x.plain <=> eq = <<"=">> /\ (sep = <<"sp">> \/ Len(atts) = 1))

(* Files without a declaration. *)
MCOthers ==
  {[text |-> [i \in 1 .. n |-> "w"], declared |-> FALSE] :
     n \in 0 .. 25}

MCFiles == MCDeclared \cup MCOthers

-----------------------------------------------------------------------------
(* indexer: a file, another with the same text, one with the same first    *)
(* buffer, one that does not parse, one that expat does not finish, one    *)
(* that cannot be read; two of them have the names 01 and 1.0.             *)
Event(is, ns, size) == [is |-> is, ns |-> ns, size |-> size]

Opening == <<[is |-> "decl", encoding |-> "UTF-8"], Event("public", FALSE, 0), Event("element", FALSE, 0),
             Event("attlist", FALSE, 0), Event("entity", FALSE, 0), Event("notation", FALSE, 0),
             Event("start", FALSE, 2), Event("comment", FALSE, 5)>>

Closing == <<Event("start", TRUE, 1), Event("entity_refs_dec", FALSE, 5), Event("entity_refs", FALSE, 3),
             Event("end", TRUE, 0), Event("comment", FALSE, 2), Event("end", FALSE, 0), Event("pi", FALSE, 0)>>

Other == <<Event("cdata", FALSE, 0), Event("text", FALSE, 1), Event("entity_refs_hex", FALSE, 6),
           Event("end", FALSE, 0)>>

Text(readable, buffers, stops) == [readable |-> readable, raw |-> "iso", buffers |-> buffers, stops |-> stops]

MCContent ==
  [p \in {"f", "01", "1.0", "broken", "cut", "absent", "system"} |->
     CASE p \in {"f", "01"} -> Text(TRUE, <<Opening, Closing>>, FALSE)
       [] p = "1.0"    -> Text(TRUE, <<Opening, Other>>, FALSE)
       [] p = "broken" -> Text(TRUE, <<Opening, <<Event("cdata", FALSE, 0), Event("error", FALSE, 0),
                                                  Event("pi", FALSE, 0)>>, Closing>>, FALSE)
       [] p = "cut"    -> Text(TRUE, <<Opening, Closing, <<>>>>, TRUE)
       [] p = "absent" -> Text(FALSE, <<Opening>>, FALSE)
       [] p = "system" -> Text(TRUE, <<<<Event("system", FALSE, 0), Event("start", TRUE, 0), Event("end", TRUE, 0)>>>>, FALSE)]

MCStored == [p \in DOMAIN MCContent |-> IF p \in {"01", "1.0"} THEN "1" ELSE p]

(* Any two lines, and a list with everything. *)
MCInputs == UNION {[1 .. n -> DOMAIN MCContent] : n \in 0 .. 2}
  \cup {<<"f", "broken", "01", "absent", "1.0", "cut", "f", "system">>}

-----------------------------------------------------------------------------
(* normaliser: a character of one digit and one of two, with and without   *)
(* zeros, in small letters and in capitals.                                *)
Ref(base, value, digits, form) == [base |-> base, value |-> value, digits |-> digits, form |-> form]

MCCharRefs == {Ref("dec", 9, 1, "printed"), Ref("dec", 9, 3, "zeros"), Ref("hex", 9, 1, "printed"),
               Ref("dec", 60, 2, "printed"), Ref("dec", 60, 4, "zeros"), Ref("hex", 60, 2, "printed"),
               Ref("hex", 60, 2, "capitals"), Ref("hex", 60, 4, "zeros"), Ref("hex", 60, 4, "both")}

-----------------------------------------------------------------------------
CTesterIdle == c = NewRun /\ last = <<>>

AllInit == CTesterIdle /\ fx = FixerIdle /\ ix = IndexerIdle /\ nz = NormaliserIdle

CTesterRuns ==
  /\ fx = FixerIdle /\ ix = IndexerIdle /\ nz = NormaliserIdle
  /\ CNext /\ UNCHANGED <<fx, ix, nz>>

FixerRuns ==
  /\ CTesterIdle /\ ix = IndexerIdle /\ nz = NormaliserIdle
  /\ EncNext /\ UNCHANGED <<c, last, ix, nz>>

IndexerRuns ==
  /\ CTesterIdle /\ fx = FixerIdle /\ nz = NormaliserIdle
  /\ IndexNext /\ UNCHANGED <<c, last, fx, nz>>

NormaliserRuns ==
  /\ CTesterIdle /\ fx = FixerIdle /\ ix = IndexerIdle
  /\ NormaliserNext /\ UNCHANGED <<c, last, fx, ix>>

AllNext == CTesterRuns \/ FixerRuns \/ IndexerRuns \/ NormaliserRuns

AllSpec == AllInit /\ [][AllNext]_allVars /\ EncFairness
=============================================================================
