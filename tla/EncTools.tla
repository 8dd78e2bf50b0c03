------------------------------ MODULE EncTools ------------------------------
(***************************************************************************)
(* tester/ctester/xml.c, encextractor.c and encfixer.c: the encoding that  *)
(* an XML declaration names is found, and replaced after run.sh has        *)
(* converted the file, by a parser made for this one line.                 *)
(*                                                                         *)
(* A text is a sequence of characters; a word ("version", "utf") stands    *)
(* for its characters, which the code treats alike.  fx is encfixer:       *)
(*   file  what it reads,                                                  *)
(*   left  what is still to be read,                                       *)
(*   out   what it has written,                                            *)
(*   eof   done in the code,                                               *)
(*   exit  "idle", "running", or how main returned.                        *)
(***************************************************************************)
EXTENDS Naturals, Sequences, SequencesExt

CONSTANTS
  Files,      \* [text, declared]: text, which follows "<?xml " if declared
  ReadSize    \* READ_SIZE, in characters

ASSUME EncAssumption == ReadSize \in Nat \ {0}

(* A text is a sequence. *)
ASSUME EncFiles == \A file \in Files : file.text \in Seq(ToSet(file.text))

VARIABLE fx

Blank == "sp"     \* the one blank the parser knows

Quotes == {"dq", "sq"}

-----------------------------------------------------------------------------
(* crap_atts_parse. *)

ParserAtStart == [state |-> "START", name |-> <<>>, val |-> <<>>, quote |-> "dq",
                  atts |-> <<>>, rc |-> 0, read |-> 0, done |-> FALSE]

InName(p, ch) ==
  CASE ch = Blank -> [p EXCEPT !.state = "START"]
    [] ch = "="   -> [p EXCEPT !.state = "QUOTE"]
    [] ch = "?"   -> [p EXCEPT !.rc = 1, !.done = TRUE]
    [] OTHER      -> [p EXCEPT !.name = Append(@, ch)]

InVal(p, ch) ==
  IF ch = p.quote
  THEN [p EXCEPT !.atts = Append(@, <<p.name, p.val>>), !.state = "START"]
  ELSE [p EXCEPT !.val = Append(@, ch)]

InQuote(p, ch) ==
  IF ch \in Quotes THEN [p EXCEPT !.quote = ch, !.val = <<>>, !.state = "VAL"]
  ELSE [p EXCEPT !.rc = 1, !.done = TRUE]

(* mutant: the length of the name is not reset *)
AtStartKeepsName(p, ch) ==
  CASE ch = "?"   -> [p EXCEPT !.done = TRUE]
    [] ch = Blank -> p
    [] OTHER      -> InName([p EXCEPT !.state = "NAME"], ch)

AtStart(p, ch) ==
  CASE ch = "?"   -> [p EXCEPT !.done = TRUE]
    [] ch = Blank -> p
    [] OTHER      -> InName([p EXCEPT !.name = <<>>, !.state = "NAME"], ch)

(* One turn of the loop; read is left at the character that ended it. *)
Turn(p, ch) ==
  LET q == CASE p.state = "START" -> AtStart(p, ch)
             [] p.state = "NAME"  -> InName(p, ch)
             [] p.state = "QUOTE" -> InQuote(p, ch)
             [] p.state = "VAL"   -> InVal(p, ch)
  IN IF p.done THEN p ELSE IF q.done THEN q ELSE [q EXCEPT !.read = @ + 1]

(* after[i] has the one parser that read i characters: bound as a member   *)
(* of a set, it is evaluated once.                                         *)
AttsParse(in) ==
  LET after[i \in 0 .. Len(in)] ==
        IF i = 0 THEN {ParserAtStart} ELSE {Turn(p, in[i]) : p \in after[i - 1]}
  IN CHOOSE q \in {[p EXCEPT !.rc = IF p.state # "START" THEN 1 ELSE @] : p \in after[Len(in)]} : TRUE

(* The value of the first attribute of that name. *)
ValueOf(atts, name) ==
  LET found == {i \in DOMAIN atts : atts[i][1] = <<name>>}
  IN IF found = {} THEN <<"NULL">> ELSE atts[CHOOSE i \in found : \A j \in found : i <= j][2]

(* raw_encoding_extract, on the first part of the file: a buffer of        *)
(* encextractor and indexer.  It starts at the blank before the text.      *)
RawEncoding(declared, buffer) ==
  LET p == AttsParse(<<Blank>> \o buffer)
  IN IF declared /\ p.rc = 0 THEN ValueOf(p.atts, "encoding") ELSE <<"NULL">>

-----------------------------------------------------------------------------
(* encfixer: main. *)

NoFile == [text |-> <<>>, declared |-> FALSE]

FixerIdle == [file |-> NoFile, forced |-> <<>>, delete |-> FALSE, left |-> <<>>, out |-> <<>>, eof |-> FALSE,
              exit |-> "idle"]

(* fread. *)
Chunk(text) == SubSeq(text, 1, IF Len(text) < ReadSize THEN Len(text) ELSE ReadSize)

Known == {<<"version">>, <<"standalone">>, <<"encoding">>}

UpTo(atts) ==
  LET bad == {i \in DOMAIN atts : atts[i][1] \notin Known}
  IN IF bad = {} THEN atts ELSE SubSeq(atts, 1, (CHOOSE i \in bad : \A j \in bad : i <= j) - 1)

(* printf of one attribute; strtoupper is left out. *)
Printed(f, a) ==
  LET encoding == a[1] = <<"encoding">>
      value    == IF encoding /\ f.forced # <<>> THEN f.forced ELSE a[2]
  IN IF encoding /\ f.delete THEN <<>>
     ELSE <<Blank>> \o a[1] \o <<"=", "dq">> \o value \o <<"dq">>

PrintedAll(f, atts) == FlattenSeq([i \in DOMAIN atts |-> Printed(f, atts[i])])

(* The options are getopt's. *)
StartFixer == fx.exit = "idle"
  /\ \E file \in Files, forced \in {<<>>, <<"utf">>}, delete \in BOOLEAN :
       fx' = [FixerIdle EXCEPT !.file = file, !.forced = forced, !.delete = delete,
                               !.left = file.text, !.exit = "first"]

(* mutant: what was parsed is written again *)
FixDeclarationKeepsRead(f, buffer) ==
  LET p == AttsParse(buffer) IN [f EXCEPT !.out = PrintedAll(f, p.atts) \o buffer]

(* The declaration: "<?xml" is written, then the attributes, then what is  *)
(* left of the buffer from where the parser stopped.                       *)
FixDeclaration(f, buffer) ==
  LET p == AttsParse(buffer)
      printed == PrintedAll(f, UpTo(p.atts))
  IN IF p.rc # 0 THEN [f EXCEPT !.exit = "failed"]
     ELSE IF UpTo(p.atts) # p.atts THEN [f EXCEPT !.out = printed, !.exit = "failed"]
     ELSE [f EXCEPT !.out = printed \o SubSeq(buffer, p.read + 1, Len(buffer))]

(* mutant: reading nothing is not taken for the end *)
HaveReadNeedsText(f, buffer) ==
  [f EXCEPT !.left = SubSeq(@, Len(buffer) + 1, Len(@)), !.eof = Len(buffer) \in 1 .. ReadSize - 1]

(* mutant: a full buffer is the last *)
HaveReadOffByOne(f, buffer) ==
  [f EXCEPT !.left = SubSeq(@, Len(buffer) + 1, Len(@)), !.eof = Len(buffer) <= ReadSize]

(* A short read is the end of the file. *)
HaveRead(f, buffer) ==
  [f EXCEPT !.left = SubSeq(@, Len(buffer) + 1, Len(@)), !.eof = Len(buffer) < ReadSize]

(* The first buffer; without a declaration it is passed through. *)
FirstBuffer == fx.exit = "first"
  /\ LET buffer == Chunk(fx.left)
         f == [HaveRead(fx, buffer) EXCEPT !.exit = "running"]
     IN fx' = IF fx.file.declared THEN FixDeclaration(f, buffer) ELSE [f EXCEPT !.out = buffer]

NextBuffer == fx.exit = "running" /\ ~fx.eof
  /\ LET buffer == Chunk(fx.left)
     IN fx' = [HaveRead(fx, buffer) EXCEPT !.out = @ \o buffer]

EndOfInput == fx.exit = "running" /\ fx.eof /\ fx' = [fx EXCEPT !.exit = "ok"]

EncNext == StartFixer \/ FirstBuffer \/ NextBuffer \/ EndOfInput

EncSpec == fx = FixerIdle /\ [][EncNext]_fx

-----------------------------------------------------------------------------
(* What XML reads of a declaration (XML 1.0, 2.8): names and quoted values *)
(* with "=" and white space between, until "?".  plain: all white space so *)
(* far was blanks, and none of it next to an "=".                          *)

White == {"sp", "tab", "cr", "nl"}

XmlAtStart == [state |-> "SPACE", name |-> <<>>, val |-> <<>>, quote |-> "dq",
               atts |-> <<>>, plain |-> TRUE, read |-> 0]

XmlBad(x) == [x EXCEPT !.state = "BAD"]

XmlSpace(x, ch) ==
  CASE ch = "?"                   -> [x EXCEPT !.state = "END"]
    [] ch = Blank                 -> x
    [] ch \in White \ {Blank}     -> [x EXCEPT !.plain = FALSE]
    [] ch \in Quotes \cup {"="}   -> XmlBad(x)
    [] OTHER                      -> [x EXCEPT !.state = "NAME", !.name = <<ch>>]

XmlName(x, ch) ==
  CASE ch = "="                   -> [x EXCEPT !.state = "OPEN"]
    [] ch \in White               -> [x EXCEPT !.state = "EQ", !.plain = FALSE]
    [] ch \in Quotes \cup {"?"}   -> XmlBad(x)
    [] OTHER                      -> [x EXCEPT !.name = Append(@, ch)]

XmlEq(x, ch) ==
  CASE ch = "="     -> [x EXCEPT !.state = "OPEN"]
    [] ch \in White -> x
    [] OTHER        -> XmlBad(x)

XmlOpen(x, ch) ==
  CASE ch \in Quotes -> [x EXCEPT !.quote = ch, !.val = <<>>, !.state = "VALUE"]
    [] ch \in White  -> [x EXCEPT !.plain = FALSE]
    [] OTHER         -> XmlBad(x)

XmlValue(x, ch) ==
  IF ch = x.quote
  THEN [x EXCEPT !.atts = Append(@, <<x.name, x.val>>), !.state = "SPACE"]
  ELSE [x EXCEPT !.val = Append(@, ch)]

XmlTurn(x, ch) ==
  LET y == CASE x.state = "SPACE" -> XmlSpace(x, ch)
             [] x.state = "NAME"  -> XmlName(x, ch)
             [] x.state = "EQ"    -> XmlEq(x, ch)
             [] x.state = "OPEN"  -> XmlOpen(x, ch)
             [] x.state = "VALUE" -> XmlValue(x, ch)
             [] OTHER             -> x
  IN IF y.state \in {"END", "BAD"} THEN y ELSE [y EXCEPT !.read = @ + 1]

XmlRead(text) ==
  LET after[i \in 0 .. Len(text)] ==
        IF i = 0 THEN {XmlAtStart} ELSE {XmlTurn(x, text[i]) : x \in after[i - 1]}
  IN CHOOSE x \in after[Len(text)] : TRUE

(* Declarations are well-formed: they end, and have no attribute but these *)
(* and none of them twice.                                                 *)
ASSUME EncDeclarations == \A file \in {g \in Files : g.declared} :
  LET x == XmlRead(file.text)
  IN /\ x.state = "END"
     /\ \A i \in DOMAIN x.atts : x.atts[i][1] \in Known
     /\ \A i, j \in DOMAIN x.atts : x.atts[i][1] = x.atts[j][1] => i = j

-----------------------------------------------------------------------------
(* Properties. *)

Ended == fx.exit \in {"ok", "failed"}

(* The state has its type, and nothing is read after the end.              *)
EncTypeOK ==
  /\ fx.exit \in {"idle", "first", "running", "ok", "failed"}
  /\ fx.eof \in BOOLEAN /\ (fx.eof => fx.left = <<>>)

(* bound of the code: the declaration is read with the first buffer *)
Fits(file) == XmlRead(file.text).read < ReadSize

Rest(file) == SubSeq(file.text, XmlRead(file.text).read + 1, Len(file.text))

(* encfixer changes the encoding and nothing else: the other attributes,   *)
(* in order, and every character from "?>" on come out once, wherever the  *)
(* buffers end.  A layout that the parser does not know makes it fail      *)
(* rather than drop or double anything.                                    *)
FixerExact ==
  LET file == fx.file
      x == XmlRead(file.text)
  IN /\ fx.exit = "ok" /\ file.declared /\ Fits(file) => fx.out = PrintedAll(fx, x.atts) \o Rest(file)
     /\ fx.exit = "ok" /\ ~file.declared => fx.out = file.text
     /\ fx.exit = "failed" /\ Fits(file) => ~x.plain

(* The encoding that encextractor and indexer read is the one declared, or *)
(* none if the layout is not the plain one or the buffer ends too early: a *)
(* wrong one would have run.sh convert the file from it.                   *)
Extracted(file) == RawEncoding(file.declared, Chunk(file.text))

Declares(file) == IF file.declared THEN ValueOf(XmlRead(file.text).atts, "encoding") ELSE <<"NULL">>

ExtractorTrue ==
  fx.exit = "first" =>
    /\ Extracted(fx.file) \in {Declares(fx.file), <<"NULL">>}
    /\ XmlRead(fx.file.text).plain /\ Fits(fx.file) => Extracted(fx.file) = Declares(fx.file)

(* encfixer comes to its end, whatever the size of the file: also when its *)
(* last buffer is full.                                                    *)
EncFairness == WF_fx(FirstBuffer) /\ WF_fx(NextBuffer) /\ WF_fx(EndOfInput)

FixerEnds == (fx.exit = "first") ~> Ended
=============================================================================
