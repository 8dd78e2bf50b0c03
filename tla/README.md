# Verification of xmlwriter

`xmlwriter` (package root, Go) writes XML as a stream: a caller *starts* and
*ends* nodes and *writes* leaves, and every call puts text into a buffered
sink at once.  Nothing is kept of the document but a stack of the nodes that
were started.  This directory holds TLA+ models of that writer, TLC
configurations that check them on small instances, and TLAPS proofs.

Around the library the repository keeps a test harness of small C and Go
programs, which take documents apart, write them again and compare the results;
they are modelled too.

Run any check from this directory:
`tlc -config MCWriterClosing.cfg MCWriterClosing.tla`, `tlapm WriterProofs.tla`.

## 1. The system

### Components

| component | source | state it keeps | operations | modelled |
|---|---|---|---|---|
| Writer core | `writer.go`, `node.go` | `nodes []node`, `current`, `last`, `Enforce` | `Start`, `Write`, `Block`, `Next`, `End`, `EndElemFull`, `EndAny`, `EndAll`, `EndDoc`, `EndToDepth`, `EndAllFlush`, `Flush`, `Depth` | `Writer`, `WriterClosing` |
| Startable nodes | `elem.go`, `nodes.go`, `dtd.go` | the node's own struct, copied into its slot | `start`, `open`, `opened`, `end`, `write` of Doc, DTD, DTDAttList, Elem, Comment, CData | `Writer`, `ElemContent` |
| Leaves | `nodes.go`, `attr.go`, `dtd.go` | none | `write` of Text, PI, Raw, Attr, CommentContent, CDataContent, DTDElem, DTDEntity, DTDAttr, Notation | `Writer` |
| Node slice | `writer.go`, `node.go`, `elem.go` | the array behind `nodes` and pointers into it | `pushBegin`, `node.end` around `Elem.opened` | `ElemContent` |
| Indenter | `indenter.go` | `depth`, `stack []indentLevel`; reads `Writer.last` | `Indent(last, next)` for each change of state | `Indenter` |
| Namespaces | `elem.go`, `attr.go` | `elem.namespaces` with a `written` flag each | registered by `Elem.open` and `Attr.write`, written by `Elem.opened` | `Namespaces`, `TagReplay` |
| Sink and printer | `printer.go`, `writer.go` | the buffer and sticky error of `bufio.Writer` | `WriteString`, `cachedWriteError`, `Flush` | in `Indenter`, as far as the sink breaks |
| Checks, escaping | `check.go`, `printer.go` | none | `CheckName`, `CheckChars`, `CheckEncoding`, `CheckPubID`, `EscapeString`, `EscapeAttrString` | no: their outcome is a choice in the callers |
| ErrCollector | `errs.go` | `Err`, `Index`, `File`, `Line` | `Do`, `Must`, `Set`, `Panic` | no (section 6) |
| Node kinds | `nodekind.go` | none | names and flags of the kinds | `NodeKinds` |
| Character tables | `tables_gen.go`, `gentables.go` | none | generated data | no |
| Test builder | `tester/ctester/testbuilder.c` | `struct xml_ctx`: `doc`, `in_dtd`, `in_attlist`, `collect`, the content buffer, `ns` and `as` | one handler for each piece of a document that expat reports; each emits commands of a script | `TestBuilder`, `TagReplay` |
| Go tester | `tester/gotester` | `XWRunner`: `xwriter`, `active` | plays the commands of a script on a Writer | `Replay`, `TagReplay` |
| C tester | `ctester.c`, `string.c` | `struct ct_ctx`: libxml2's writer, `end` (a list of what "end all" has to end), `in_dtd` | plays the same scripts on libxml2 | `CTester`, `LibXml`, `BothPlayers` |
| Encoding tools | `xml.c`, `encextractor.c`, `encfixer.c` | a parser's state; a buffer of the file | find the encoding an XML declaration names; replace it | `EncTools` |
| Indexer | `indexer.c` | a database: one row of counters for each file; `struct current` for the file at hand | `cmd_index`, `cmd_query` and expat's handlers | `Indexer` |
| Normaliser | `normaliser.c` | `struct ctx`: libxml2's writer, `self_close`, `attrs_cap` | expat's handlers write the document again | `Normaliser`, `LibXml` |
| The rest of the harness | `hash.c`, `sha256.c`, `nohigh.c`, `testtool` | | vendored SHA-256, a filter of bytes, process handling | no |

### How they interact

A user's call enters the Writer, which runs to the end on the caller's
goroutine: there is no concurrency in the library.  What makes it hard is
re-entrance and partial failure.

* `Start` pushes in two halves (`pushBegin` opens the parent, `pushEnd` pushes
  and writes the header), and the header is checked only after the push.
* Opening a node (`node.opened`) writes its content by calling the public
  `Write*` methods again, on the same stack, from inside `Next` or `node.end`.
* `node.end` keeps a pointer to the node across that re-entrance.
* Each change of state of a node is told to the Indenter, which keeps a stack
  of its own and writes into the same sink; `Writer.last` carries the previous
  event and is set at different points on different paths.
* An error found anywhere is returned and the call stops where it is; only some
  calls leave the stack as they found it.  The sink's error is sticky and is
  asked for at the end of most calls.
* The testers are a pipe of two programs: expat calls the handlers of
  `testbuilder`, which print a script; `gotester` reads the script to its end and
  makes the calls, and `ctester` does the same with libxml2's writer.  Nothing
  flows back.  What the builder knows of the document is a handful of flags that
  the handlers pass to each other.
* `indexer` names the files to test with.  `encextractor` finds out a file's
  encoding, `iconv` converts it and `encfixer` then puts the new encoding into
  the declaration.  The original and the outputs of both players go through
  `normaliser` and are compared as bytes.
* `ctester` and `normaliser` share libxml2's writer, which has a state machine of
  its own and refuses a call that does not fit; beside it `ctester` keeps a list
  and a flag that repeat part of what libxml2 knows.

### Behaviours that are hard to test

PROJECT.json lists them under "hazards", each at its line.  In short: content
that is refused while its node is being opened, on each of the paths that open
it; a retry after a failed end; a slice that moves while a pointer into it is
alive; whether a close tag is written, decided by three facts that different
calls set long before; where the loops of `EndAll` and `EndToDepth` stop; the
indenter's stack against the writer's, when the sink breaks in mid-call; who
declares a namespace, when several calls name it; the end of an attribute list,
which expat never reports; a list of ends that is walked while the ends pop it;
the edges of a buffer; a context that is used for one file after the other.

### What makes each component correct

* Writer: after each call that did not fail, what was written is the prefix of
  a nested document whose open nodes are those on the stack; a call with which
  the output stops being well formed says so; a rejected call writes nothing and
  changes no more than a mark; an unwinding call ends exactly what it should; a
  user that keeps closing gets out.
* Node slice: no decision about a node is taken from memory it no longer
  lives in.
* Indenter: one level for each opened node that indents; a closing tag on a
  line of its own stands under its opening tag; no index out of range.
* Namespaces: the Writer declares each prefix that was given a URI on an element
  in its start tag once, with that URI.
* Testers: a script is accepted to its end, and rebuilds the document: its
  nesting, the element each attribute is declared for, the attributes of each
  start tag.
* The two players: they have the same nodes open after each command.
* C tester: its list of ends is in step with what libxml2 has open; "end all"
  closes everything; each entry is freed once.
* Encoding tools: the encoding found is the one declared; nothing else of the
  file is lost, doubled or changed where a buffer ends; the loop terminates.
* Indexer: a row tells what is in its own file; each name that the database keeps
  of a readable file has one row, that of the first file; a query lists each text
  once.
* Normaliser: documents that mean the same come out the same: an element is
  short exactly if it is empty, decimal references to one character have one
  spelling, attributes are kept.
* ErrCollector: the error that comes out is the first that went in.
* Checks and escaping: what is accepted can be parsed back.

## 2. The modules

`NodeKinds` has the kinds and the sets of them that the code writes as flags.

`XmlReader` is an *observer* and models no code of the repository: a parser of
the output, fed one lexeme at a time (`ReadOpen`, `ReadGt`, `ReadEmptyTagEnd`,
`ReadBracket`, `ReadClose`, `ReadLeaf`).  It keeps the stack of nodes that the
output has open, each with whether its header is still unfinished, and `ok`,
which becomes FALSE for ever at the first lexeme that cannot stand where it
stands.  It lets the properties of the writer speak about the output without
storing it.

`Writer` is the core.  `w` holds the node slots, `cur` (`Writer.current`), the
observer and the outcome of the last call; `call` is the unwinding or writing
call in progress; `clean` says that no call failed half way yet, whether or not
it returned an error.

| model | code |
|---|---|
| `StartDoc` ... `StartCData` | `start` of each Startable: `pushBegin`, `checkParent`, `Next`, `pushEnd`, `node.open` |
| `WriteElem`, `WriteComment`, ... followed by `Finish` | `write` of the Startables: `Start`, then `End` |
| `WriteText` ... `WriteNotation` | `write` of the leaves: checks, `writeBeginNext`, output |
| `WriteRaw`, `WriteAttr` | the two leaves that do not call `Next` |
| `CallNext` | `Writer.Next` |
| `End`, `EndElemFull`, `EndAny` | `Writer.End`, `EndElemFull`, `EndAny` and `pop` |
| `EndAll`, `EndDoc`, `EndToDepth`, then `Unwind` and `Finish` | the loops, one node per step |
| `Opened`, `NextChild`, `EndNode`, `StartNode`, `WriteLeaf` | `node.opened`, `Next`, `node.end` with `pop`, `pushBegin`/`pushEnd`, `writeBeginNext` |

Data is abstracted to what the control asks of it: `children` to `kids`
(`children > 0`), the content of a Comment or CData and the Attrs of a
DTDAttList to `body` ("none", "ok", "bad": refused before a byte is written,
"torn": refused half way), a header to the place where its check fails.  An
element's namespaces become `ns`: whether any wait to be declared when its start
tag ends, and whether one of them will be refused then; an attribute registers
its namespace (`Registered`) before its name is checked, so a refused attribute
leaves it behind, and `OpenedElem` may fail in the middle of the tag.  The
outcome of a call is "nil"; "rejected" (nothing was written); "dropped" (the
content given to `Start` was refused when its node was opened, and nothing of it
was written); "failed" (something was written or pushed); or "swallowed" (opening
the parent failed, and the call returned nil all the same).  The Go code knows
only `nil` and an error; these are what a caller would need to tell apart.

`WriterClosing` extends it with a user that gives up at any point and from then
on calls `EndAll` until the stack is empty.

`ElemContent` runs elements with a tree of `Content` step by step: frames of
the calls in progress, arrays, pointers.  `Grow` is the `append` of
`pushBegin`; `BeginEnd` and `FinishEnd` are the halves of `node.end` around
`opened`; `Fail` is an error on its way through the frames, which `Text.write`
drops.  `doubt` is history: a decision was taken through a stale pointer, or
an error was dropped.

`Indenter` runs `StandardIndenter.Indent` on the events of a Writer with an
abstract content (one leaf, or something refused).  A call first chooses after
how many pieces of output the sink breaks (`Rooms`); `Put` and `Tell` are a
piece of output and an event; each returns the sticky error, and the code that
follows an early return in the source does not run.  `stack` keeps `indents > 0`
for each level.  Columns, `lined` and `closed` are observations of where lines
begin.  The content of a PI is written by `Raw`, whose event moves nothing in the
indenter and is left out; namespaces and nested Content are left out.

`Namespaces` is one element's registry: `Start`, `WriteAttr` and `Opened` are
`Elem.open`, `Attr.write` and `Elem.opened`.  `tag` is what the start tag has in
the output, each attribute with the URI that its call gave, and `by`, whether it is
the user's or a declaration of the Writer's own: a user may write `xmlns:p` as an
attribute, and may give the prefix `xmlns` a URI.  The prefix "bad" stands for one
that `CheckName` refuses.  `TagReplay` has two users of it: one
that makes any call, and the handler `xml_elem_start`, which takes a start tag
apart (`ElemURI`, `NsOf`, `AsOf`, `Claimed`, `Unclaimed`) into calls that `Play`
makes.  `At` gives the elements of a sequence at some of its places, in order, where the
code appends to an array what passes a test, and `Empty` is the empty string.

`TestBuilder` has a document as far as expat has read it (`src`), the flags of
`struct xml_ctx` and the commands that no player has taken yet; an action for
each handler.  What expat can report next is the environment: `InMisc`,
`InContent`, `InSubset`, `MayFollow`.  `Abutting` says what a document may have right
after a list of attributes, without so much as a blank in between.  `Replay`
composes it with `XWRunner` and with the operators of `Writer` (by INSTANCE): a
command becomes a call of the writer, whose stack and observer are `run.w`.
Commands are played as soon as they are there; since nothing flows back to the
builder this reaches the same writer states as playing them at the end.

`LibXml` is libxml2's `xmlTextWriter`, external code, by its states and refusals:
`nodes`, innermost first, each with the state libxml2 keeps of it, and `ok`, what
the last call returned.  What is written in one call never is among the nodes.

`CTester` plays one command after the other.  `c.end` is `ctx->end`, newest
first, each entry with `live`, which is FALSE once its memory is freed; a use of
it after that ends the run as "freed twice".  `Run` is the `run` function of a
parameter, by action and kind; `RunEndAll` walks the list as it was at the start,
as `params_end_all_run` does with the pointers it holds (one `EndEntry` each, as a
recursive function over the list); `Deinit` is `ctx_deinit`.
`Reject` stands for all that `script_parse` refuses, before anything is run.

`BothPlayers` extends `Replay` with a `CTester` (by INSTANCE) that takes each
command together with the Go player.

`EncTools`: a text is a sequence of characters, and a word stands for its
characters.  `Turn` is one turn of `crap_atts_parse`'s loop; `AttsParse` folds it
over the buffer, as a recursive function.  `FirstBuffer`, `NextBuffer` and
`EndOfInput` are the turns of `encfixer`'s loop.  `XmlRead` is the reference: what
XML 1.0 reads of the same text, with white space of every kind wherever XML
allows it.  `plain` tells whether it met only blanks, and none next to an "=",
which is all that the code's parser knows.  `ReadsBack`, in the MC module, has it
read back what was laid out.  `EncDeclarations` assumes that
declarations are well-formed: they end, and have version, encoding and
standalone at most once and nothing else.

`Indexer` has an action for each line, buffer and call of a handler.  What
expat reports of a file is part of the file (`Content`), so two files with one
text have the same events.  `Tells` is the reference: how many events of a kind
there are among the first n, their sizes added up, and the largest.  A hash is the sequence of what was hashed, that is,
SHA-256 without collisions.  `Stored` is what the column `file` keeps of a path: its
type is STRING, which SQLite gives NUMERIC affinity, so of 01 and 1.0 it keeps the
number 1.  `Insert` looks for the key there, and `Query` answers from there.  `Query` may answer with any row of a group, since
SQLite may.

`Normaliser` has the handlers' state; `open`, `given` and `wrote` are observations:
the document's open elements, each with whether it is empty so far, what the
last handler was called with and what it wrote.

`MCWriter`, `MCWriterClosing`, `MCElemContent`, `MCIndenter`, `MCTagReplay`,
`MCReplay`, `MCCTester` and `MCCPrograms` instantiate these for TLC.  `MCCPrograms`
runs one of the four C programs at a time: they share no state, and each is
started with all the inputs its module is given.  `Lemmas` and the `...Proofs`
modules hold the proofs (section 4).  What they reason about is written with
recursive functions (`RunEndAll`, `At`, `Cap` of `ElemContent`, `Grown` of
`Normaliser`, `Sizes` of `Indexer`, `AttsParse`) and never with RECURSIVE operators.

The operators marked "mutant" in a comment are not part of the models.  Each is a
plausible mistake in the definition it precedes, and shows that some property
depends on that definition.

## 3. The runs

Passing:

* `writer` (`MCWriterClosing.cfg`, depth 3, two names, content none/ok/bad/torn).
  `ReaderAgrees` is the main invariant: between all calls, and between the pops
  of an unwinding call, the reader of the output has open exactly what the
  writer has.  `AncestorsOpened` is what closing relies on.
  `RejectionOnlyMarks` and `UnwindIsExact` are action properties about the
  error paths and the loops: what a rejected call may leave behind, and that a
  loop ends neither more nor fewer nodes than it should.  `ClosingEmptiesStack` is liveness: a user that
  calls nothing but `EndAll` any more gets to the empty stack;
  `EndAllStopsAtDropped` says why: each `EndAll` that stops has made progress.
* `content` (`MCElemContent.cfg`): the slice starts with one slot and moves
  twice; Content nests; a child may be refused.  Output and stack agree at rest
  unless one of two things happened (`ReaderAgreesWithoutDoubt`), and the stale
  pointer matters only at the last slot of the outgrown array
  (`StaleOnlyAtBoundary`).
* `indenter` (`MCIndenter.cfg`, depth 3): the two stacks match and closers align
  through refusals and a sink that breaks anywhere.
* `namespaces` (`MCTagReplay.cfg`: two prefixes, two URIs, up to three attributes).
  `PrefixesBound` and `OnlyRefusalTears` are about any user, one that writes
  declarations of its own included; `PrefixesBound` counts those of the Writer.
  `TagRebuilt` is about the tag that the builder takes apart.  `OnlyRefusalTears` is as strong as the
  code allows: an attribute that is refused for its prefix leaves the prefix
  registered (`attr.go:96` before `:100`), and the start tag can then not be
  finished.
* `replay` (`MCReplay.cfg`: three names, elements three deep).  `ScriptAccepted`
  and `NestingAgrees` hold for documents with white space between a list of
  attributes and another list or a comment; other declarations may follow at
  once, and the handlers that end an open list must then do so (all but the one
  for character data, which comes after the DTD).  A processing
  instruction in the internal subset is refused by the Writer (`nodes.go:362`),
  which XML allows: the property names that exception.  `CScriptAccepted` and
  `InDtdFollows` are about the other player, and `PlayersAgree` about the two:
  after each command they have the same nodes open, although one asks Go's stack
  and the other libxml2's.
* `c_programs` (`MCCPrograms.cfg`): any script for `ctester` that ends no DTD in
  an open comment: its list follows libxml2 (`EndStackMatches`), is walked to its end (`EndAllCloses`), and is left
  dangling by DTDs only (`DanglingOnlyByDTD`); declarations of one to three
  attributes in all the layouts of XML, with bodies that end at, before and
  after the edge of a buffer (`FixerExact`, `ExtractorTrue`, `FixerEnds`); lists of
  files that fail in every way, that repeat, that copy each other, and two of which
  have the same number for a name (`RowTellsFile`, `FirstOfEachName`,
  `QueryListsEachOnce`); any document for `normaliser` (`ShortIffEmpty`,
  `DecimalsAlike`).

Violations, each with a finding in PROJECT.json that quotes the sentence it
contradicts:

* `content_moved`: an element whose Content makes the slice move loses its close
  tag (`node.go:156`).
* `attlist_torn`: `writeBeginNext` drops the error of `Next` (`writer.go:487`), so
  an attribute declaration written to a list whose own Attrs are refused
  reports success after a torn declaration.  Text written to an element whose
  Content is refused goes the same way (`content` counts it as doubt).
  So does a start tag, without that run's attribute list (`Bodies = {"none"}`): an
  attribute with a URI is refused for its prefix, its namespace is kept
  (`attr.go:96`), and the text that follows is written into a tag that could not
  be finished, and returns nil.
* `indenter_panic`: ending a node again after its end failed on a broken sink
  makes the indenter index its stack at -1.
* `replay_compact`: two attribute lists with nothing between them are rebuilt
  as one, under the first one's element (`testbuilder.c:670`).
* `ctester_freed`: "end dtd" leaves its entry on the list (`ctester.c:668`), and
  "end all" frees it and leaves the pointer, so that the script's end frees it again.
* `normaliser_attributes`: attributes are sorted and never written
  (`normaliser.c:170`), so the comparison of outputs cannot see them.

### Bounds

`MaxDepth` bounds the stack.  Which operations are accepted depends on the
current node and, through `Next` and `pop`, on its parent only, so three levels
give every pair of kinds with something below, and hold the longest chain
without repetition (document, DTD, attribute list).  Elements nest in
themselves, so more depth repeats what is there.  The
proofs hold for every depth.  `Names` needs two, so that an end can name the
wrong node.  `InitialNodeDepth` is 8 in the code (`writer.go:13`) and 1 or 2 here:
the slice then moves twice (1 to 2 to 4) within three levels.  `MaxContent` 2
gives a Content with a child after a child.  A call writes six pieces of output
at most in `Indenter`, so `Rooms` has every place where the sink can break.
Two prefixes and two URIs let a prefix be declared twice, alike and differently;
the third attribute of a tag can use what two others declare and use.  In
`MCReplay`, `MaxDepth` 5 is the document, and elements or DTD and list within it,
so the writer's bound is never in the way of the builder's `MaxOpen` 3; the
script holds at most what one handler emits (`Reading`).

In `MCCPrograms`, `ctester`'s list has up to four entries (`MaxEnds`): a document,
two nodes and an entry that outlived its node.  `PlayEnd` ends a DTD anywhere but
in an open comment, which libxml2 would close; elsewhere a stray end of a DTD
ends nothing and is not refused.
`ReadSize` is 12 characters (words count as one), and files have up to 25, so that
declarations are shorter and longer than a buffer, and files end in the first,
second and third buffer, at its edge and on either side of it.  `indexer` gets
any list of two lines and one list with everything, over files with the same text,
the same beginning, an error in the second buffer, and one that cannot be
opened; two of the paths are 01 and 1.0.  References are decimal and hexadecimal,
of one digit and of two, with zeros, capitals and both.  `AttrsCap` is 1 for 32 in the code, and three attributes make it grow
twice; elements nest three deep.

Deadlock checking is off where the system may stop: a panic, a call that failed
(`ElemContent`), a user that is done (`WriterClosing`), a tag that is finished
(`TagReplay`), the end of a document (`Replay`), the end of a program
(`CTester`, `MCCPrograms`).

### Fairness

Two specifications state fairness.  `WriterClosing`: weak fairness of
`EndAllAgain` (the user that has decided to close keeps calling) and of
`FinishCall` (a call that was made runs to its end).  Both are steps of the
caller's own goroutine; nothing in the library blocks, so a started call
returns.  `EncFairness`: weak fairness of the three steps of `encfixer`'s loop, a
single process that reads a finite file.  No other action is fair: a user need
not do anything, and nobody need start a program.

## 4. The proofs

All of them hold for every value of the constants that meets the modules' own
assumptions.  Apart from the library's theorems about sequences, finite sets,
cardinality and well-founded orders nothing is assumed.  The assumptions on
constants are those the code makes true by itself: bounds are positive numbers,
a text is a sequence, a prefix that is a name is neither empty nor `xmlns`.

`Lemmas` has what more than one of the modules below needs: where the elements
of a sequence go when one is added, dropped or replaced at either end, and three
forms of induction over numbers.  `LeastNatural` and `InductionUpTo` speak of
sets of numbers, `RecursionUpTo` of functions that are defined by recursion: it
says that the equations of such a function have a solution, so that the function
meets them.

### `WriterProofs`: for every `MaxDepth`, set of names and set of contents

* `Invariance`: `Spec => []IInv`.  `IInv` has two layers.  The *shape* is about
  the writer alone: types, unused slots above `cur`, kinds and states, what
  may be below what, ancestors opened and counted, and that a call in progress
  has met no error.  The *synced* layer adds, while `clean`, that the observer's
  stack is the writer's, cell by cell.  `ReaderAgrees` is not inductive alone:
  whether `elem.end` writes a close tag depends on `kids`, `full` and the state
  before `opened`, which `ReaderAgrees` does not tie to each other, and a pop
  exposes an ancestor of which only `AncestorsOpened` says that its header is
  finished.
* `TypeCorrect`, `AncestorsStayOpened`: their invariants of the same names, with
  no hypothesis beyond the constants' own.
* `OutputIsNested`: `ReaderAgrees`, for all contents and namespaces.  `clean` ends
  with the first call that failed half way, also where the call returns nil
  ("swallowed"), which the run `attlist_torn` shows.

The lemmas go operator by operator (what `Opened`, `NextChild`, `StartNode`,
`WriteLeaf`, `EndNode` return, by outcome), then action by action.

From the same `IInv` follow the action properties:

* `UnwindingIsExact`: `UnwindIsExact`.  `IInv` keeps a call in progress at or above
  its goal (`Reaches`).  Each pop lowers `cur` by one or not at all, and touches
  no node below, so a loop can stop at its limit only; where `EndToDepth` finds
  nothing above the limit, its last `End` is the one step below.
* `RejectionsOnlyMark`: `RejectionOnlyMarks`.  No operator that runs after
  `Next` has opened something returns "rejected" (`NextChildOutcome`,
  `EndNodeOutcome`), so a rejected call has gone through `checkParent` or a check
  of names alone, and through `Registered` if it wrote an attribute.
* `ClosingIsUse`: a user that gives up and closes is one of the writer's users:
  every behaviour of `ClosingSpec` is one of `Spec`, step by step, so that what
  is proved of the writer holds for `WriterClosing`.
* `ClosingProgresses`: `EndAllStopsAtDropped`, the safety half of the liveness
  property `ClosingEmptiesStack`.

### `IndenterProofs`: for every depth of the writer's stack, and any sink

* `IndenterInvariance`: `Spec => []SInv`.  `Level` compares `depth` with the number of
  opened nodes on the writer's stack that hold a level: never more, and as many
  unless a node was told twice of its end.  The inequality is what is left of the
  equality then, and bounds `depth`.  The proof follows `Put`, `Tell`, `SetTop`, `Push` and
  `Ended` one by one.  Where a call returns early, what ran before is *like* the
  state before (`Like`): the same nodes, as far as the invariant looks.
* `IndenterTypes` (`TypeOK`), `IndenterFollows` (`LevelsMatch`), and
  `PanicNeedsSecondEnd`: the panic that the run `indenter_panic` finds has no other
  cause.
* `LinesInvariance`: `Spec => []CInv`, and from it `ClosersStandBelow`
  (`ClosersAlign`).  `ClosersAlign` speaks of one closing tag when it is written; what
  makes it true was done when the tag was opened.  `Aligned` carries it from there:
  the column of each node is the number of levels *below* it, so it stays right
  while nodes come and go above, and a frame of the indenter in which a line has
  begun belongs to a node that knows of the line.  All of it holds until the sink
  breaks, and after that nothing is closed on a line any more.

### `ElemContentProofs`: for every depth, initial capacity and tree of Contents

* `Consistency`: `Spec => []Inv`.  `Sound` has four parts.  `Held` is about memory: a
  node with another on top is opened and counted, and each pointer that a frame
  of `node.end` holds is either into the array in use or into an older one, whose
  nodes all have children by then but for the last (`Points`).  `Chain` relates each
  frame to its neighbours, and its place to the node it is about: the frames of
  `Content` and `end` take turns, and each pair is one node.  `Topped` says what
  the innermost call finds at the current node.  `Agrees` is about the reader:
  it has open what is on the stack, but for a node that was ended with `/>`
  and is not popped yet.
* From it `ContentTypes` (`TypeOK`), `StalenessIsRare` (`StaleOnlyAtBoundary`) and
  `ContentIsNested` (`ReaderAgreesWithoutDoubt`).  `Points` shows why the bug of the
  run `content_moved` needs the last slot of an array: every other node that the
  slice left behind already had the child that makes the two copies agree.

### `TagReplayProofs`: for every set of prefixes, names and URIs, any number of attributes

* `TagTypeCorrect` (`TypeOK`), `TearingIsRefused` (`OnlyRefusalTears`) and
  `PrefixesAreBound` (`PrefixesBound`), from the invariant `TagInv`.  `PrefixesBound`
  is about finished tags; before that, `Bound` says that a written namespace
  has exactly one declaration of the Writer's in the tag, with its URI, that an
  unwritten one has none, that no such declaration is there which is not
  registered, and that what an attribute was given is registered.  A namespace may be registered just
  because the tag cannot have declared its prefix yet.  The script of
  testbuilder also writes declarations as attributes, past the registry; they
  are for prefixes (`Plain`) that nothing registers, which is what `CallFits`
  says of each call that is left.
* `TagIsRebuilt` (`TagRebuilt`), from `Rebuilding`.  What the tag has, what opening
  the element will declare, and what the script has left to write and to claim
  are together the attributes of the source, at every step, and nothing is there
  twice (`AddsUp`).  It holds at first because of `ScriptWritesAll`, the lemma
  about what the handler `xml_elem_start` makes of a tag: its calls write every attribute and claim
  every declaration, and invent none.  At the end only the tag is left, and
  a count (`SameLength`) turns equal sets into equal lengths.

### `CTesterProofs`: for scripts and lists of any length, if they end no DTD in an open comment

* `CTypeCorrect` (`CTypeOK`) and `EndListMatches` (`EndStackMatches`).  While the run
  goes on, the newest entries of the list are the kinds of libxml2's open nodes
  (`Matched`), and libxml2 can have a DTD only outermost and a list of attributes
  only right inside it (`Shaped`), so that ending either closes no more than its entry.
* `EndAllClosesAll` (`EndAllCloses`) and `OnlyDTDsDangle` (`DanglingOnlyByDTD`) are about
  the walk over the list while its entries pop it: an induction over the
  entries, in which the list that is left is always a tail of the one it began with.

### `ReplayProofs`: for documents of any depth and any set of names

The builder's flags, the commands that are left, the writer behind `run.w`, the
reader of its output and libxml2's writer are five views of one thing, a stack D
of open constructs, and the invariants say so.

* `WriterOf(D)` is the writer that has D open, slot by slot, with its reader, and
  `LibOf(D)` libxml2's; `After(D, c)` is what command c makes of D, and `Takes(D, c)`
  says which commands may come.  That one call of each player does to its writer what
  `After` does to D is proved command by command (`PlayedIs`; `LibStarts`, `LibWrites`,
  `LibEnds`).  It needs more of the state than any property speaks of: an
  attribute is taken because the innermost element has not *begun*, and a `/>` is
  read as the end of an element because its tag has not ended.
* `Shape(D, src, ctx)` says that D is open in the document as far as it was read and
  that the flags `doc` and `in_attlist` tell of it.  `Leads(D, script, src, ctx)` looks
  ahead: the commands that are left are taken one after the other and turn D into
  such a stack.  `HandlerLeads` shows it for each of the handlers; one of them may
  emit two commands, the end of a list and what comes after it.
* `ReplayInvariant` and `BothInvariant`: there always is such a D.  From them
  `ReplayTypeCorrect` (`TypeOK`), `CommandsAccepted` (`ScriptAccepted`), `NestingRebuilt`
  (`NestingAgrees`), `CommandsAcceptedByBoth` (`CScriptAccepted`), `FlagFollows`
  (`InDtdFollows`), `OpenAlike` (`PlayersAgree`) and `DeclaredForItsElement`
  (`AttrsUnderTheirElement`).
* The hypothesis `Spaced`: no comment and no instruction stands right after a list
  of attributes.  Where one does, the builder has not ended the list and emits it
  inside.  `DeclaredForItsElement` needs the same of another list; the run
  `replay_compact` shows what happens otherwise.  The assumption
  `MaxDepth >= MaxOpen + 2` leaves room in the model for a document and a comment
  around the elements; the program's own stack grows.
* `SameScript`: what `BothPlayers` adds has no part in what `Replay` does, so that
  `Replay`'s theorems hold there too.

### `ToolProofs`: for all documents, files, buffers and lists

* `EmptyElementsAlike` (`ShortIffEmpty`).  `Matches` ties libxml2's stack to the
  document's: as long, with the same names, and only the innermost element may
  still be in the state NAME, which it is exactly if it is empty.  `self_close`,
  one flag for all levels, may be set for an element with content, where NAME is
  over, but is never clear for one without.
* `DecimalReferencesAlike` (`DecimalsAlike`), from the assumption that a decimal
  reference of one digit is to a character below 10.  Of hexadecimal ones it says
  that they are copied.
* `NormaliserTypeCorrect` (`NormaliserTypeOK`): the array of attributes, which is
  doubled until there is room, has room for every start tag.
* `RowsAreComplete` (`FirstOfEachName`).  The invariant accounts for each line that
  was taken: what the database keeps of its path has a row if its file is
  readable, and that is the row of the first such file (`Accounted`); while a file
  is read, the row to come is for the first line left (`InFile`).  It holds for
  every `Stored`: whichever paths are one key.
* `QueriesAreExact` (`QueryListsEachOnce`).  A row that parsed has the whole text as
  its hash (`Hashed`), so groups of rows are groups of texts.
* `RowsTellTheirFiles` (`RowTellsFile`) and `IndexTypeCorrect` (`IndexTypeOK`).  Inside a
  file there is a k such that the counters tell of the first k events of its
  text and the rest of the buffer is what comes next (`Reached`).  That needs to
  know where a buffer is in the text (`CutExists`, about `FlattenSeq`), that each
  handler moves only the counters it should (`HandledMoves`), and how counts,
  sums and largest values grow by an event (`StillTold`).  They rest on what
  `IndexerInputs` assumes of expat: sizes are numbers, and no element ends that
  did not start.
* `ReadRightly`, `FixedExactly` (`FixerExact`) and `ExtractedRightly`
  (`ExtractorTrue`), with `FixerTypeCorrect` (`EncTypeOK`).  `Alike` relates the
  code's parser to `XmlRead` after each character, and every character keeps it
  (`AlikeKept`): either both are at the same place of the same attribute, or the
  layout was not the plain one and the parser is in a name that holds white
  space (`Odd`), which is no known name, or has given up.  An induction over the
  characters (`Lockstep`) then gives that the attributes found are the first
  of those that XML reads, misread names apart, also if the buffer cuts the
  declaration anywhere (`Laters`), and that the parser stops at the "?" where XML
  does.  So `encfixer` fails or knows all the attributes, which are then the
  right ones, if the first buffer holds the declaration (`Fits`); and from there
  what it has written and what it has not read yet
  make up what is to come out (`EInv`), at each edge of a buffer.  The
  assumptions are `EncFiles`, `EncDeclarations` and `EncAssumption`.

### Only model-checked

* Liveness: `ClosingEmptiesStack` and `FixerEnds` rest on fairness, which is out of
  the prover's reach.  What each of their steps does is proved
  (`ClosingProgresses`, `FixerTypeCorrect`); that they come to an end is checked.

Every invariant and action property that a passing run checks is a theorem.

## 5. Known differences

Places where the code does something that its comments do not say, and that a
reader of the properties should know of:

* `EndToDepth` ends the caller's own node when nothing was started above the depth
  (`writer.go:421`; the comment at `:400-403` speaks of what was started).
  The goal of `UnwindIsExact` names that case.
* A `Start` whose header is refused leaves its node on the stack (`writer.go:460`).
  Its end then writes a close tag that nothing opened; the caller has been told
  of the error, after which `ReaderAgrees` says nothing.
* A `Write` of a node whose content is refused returns an error and leaves the
  node on the stack (`nodes.go:114`; `doc.go:126-127`: "If written nodes are put on
  to the stack, they will be popped before Write returns").
  `ReaderAgrees` holds, and the node can be ended.
* The indexer's counters of attributes with and without namespace go by the
  prefix of the element (`indexer.c:161`); `Tells` speaks of their sum.
* With `-e` a query groups broken files by what was read of them until the error,
  and may let one stand for several (`indexer.c:351`).
* A query that SQLite breaks off returns 0: `rc` is assigned a comparison
  (`indexer.c:572`).
* A decimal reference of one digit is not rewritten (`normaliser.c:183`), and a
  hexadecimal one is copied with its zeros and capitals (`:190`), although "all have
  the same style of representation" (`:5`); `DecimalsAlike` names both.
* A prefix is declared twice in a start tag when the user writes `xmlns:p` as an
  attribute and gives another attribute of prefix p a URI: `attr.go:80-98` looks at
  registered namespaces only.  `PrefixesBound` counts what the Writer declares.
* Paths that are the same number share a row of the index, the first one's, and
  are printed as that number (`indexer.c:445`).  `FirstOfEachName` is about what the
  column keeps.
* `encfixer` takes a declaration that its buffer cuts in white space for complete:
  it succeeds, keeps the encoding as it was and loses a blank (`encfixer.c:43-80`).
  `FixerExact` is about declarations that the first buffer holds (`Fits`).
* A stray "end dtd" in an open comment makes libxml2 close the comment, while its
  entry stays on `ctester`'s list (`ctester.c:658-680`).  The scripts of `CTester` do
  not have it.
* A comment right after an attribute list is written inside the list
  (`testbuilder.c:328`), where the Writer refuses it; `Abutting` leaves it out.

## 6. Not modelled

* `Block` is `Start`, `Write`s and `End` in sequence, and adds no state.
* `Enforce` off: the caller then takes all responsibility for what is written.
* Checks and escaping: pure functions of one string, without state.  Whether a
  check passes is a choice in every module that calls one.
* `ErrCollector`: one field that `Do`, `Must` and `Set` assign.  A model would be
  the three assignments, and a property of it would repeat them.
* Of the sink, all but that it may break at any piece of output and stays
  broken: `Flush`, and the buffer, which is `bufio`'s.
* The data of a script: the text of declarations, and with it the entity value
  that holds both kinds of quote, which the Writer refuses although it came from
  a document.  `xmlns:p=""` is left out too: the builder hands it on as an empty
  URI, which the Writer takes for none, and the declaration is lost.
* Commands of a script that only a person would write, on the Go side (cdata and
  comments that start and end apart, "end all"); `CTester` has them all.
* The paths of the builder that stop the parser for a `base`: `XML_SetBase` is
  never called, so they are dead.
* `strtoupper` in `encfixer`; options and usage of all programs; SQLite's failures,
  and the clause that a user gives to a query.
* Generated tables, vendored hashing, `nohigh`'s filter of single bytes, the Go
  test command: data, third-party code or I/O without state of their own.
