----------------------------- MODULE Namespaces -----------------------------
(***************************************************************************)
(* The namespace declarations of one element (elem.go, attr.go): Start     *)
(* writes the element's own, an attribute that has a URI registers one,    *)
(* and opening the element writes those that are registered and not yet    *)
(* written.  Enforce is TRUE and there is no Indenter.                     *)
(*                                                                         *)
(*   elem     the node: its state, prefix and namespaces,                  *)
(*   tag      the attributes that the start tag has in the output,         *)
(*   err      the last call returned an error,                             *)
(*   refused  history: the element or an attribute was refused.            *)
(***************************************************************************)
EXTENDS Sequences, FiniteSets, Naturals

Empty == ""   \* no prefix, no URI

CONSTANTS
  NsPrefixes, \* prefixes that are names, "xmlns" apart
  Names,      \* local names that are names
  URIs,       \* URIs
  MaxAttrs    \* bound: how many attributes are written to the element

ASSUME NamespacesAssumption ==
  /\ MaxAttrs \in Nat \ {0}
  /\ {Empty, "xmlns", "bad"} \cap NsPrefixes = {} /\ "bad" \notin Names /\ Empty \notin URIs

VARIABLES elem, tag, err, refused

tagVars == <<elem, tag, err, refused>>

AnyPrefix == NsPrefixes \cup {Empty, "xmlns", "bad"}   \* "bad": not a name

AnyURI == URIs \cup {Empty}

Attrs == [prefix : AnyPrefix, name : Names \cup NsPrefixes \cup {"bad"}, uri : AnyURI, value : AnyURI]

(* torn: the output lacks its name, or the end of its start tag. *)
States == {"none", "open", "opened", "torn"}

Namespace(prefix, uri, written) == [prefix |-> prefix, uri |-> uri, written |-> written]

(* An attribute in the output: given is the URI that it was written with, *)
(* by says whose it is.  A user may write an xmlns:p of its own, and the   *)
(* code does not look at those.                                            *)
Printed(prefix, name, value, given, by) ==
  [prefix |-> prefix, name |-> name, value |-> value, given |-> given, by |-> by]

Declaration(ns) == Printed("xmlns", ns.prefix, ns.uri, Empty, "writer")

CheckName(prefix, name) == prefix # "bad" /\ name # "bad"

(* The elements of s at some of its places, in order: SelectSeq, with the  *)
(* places for the test.                                                    *)
At(s, places) ==
  LET upto[i \in 0 .. Len(s)] ==
        IF i = 0 THEN <<>> ELSE IF i \in places THEN Append(upto[i - 1], s[i]) ELSE upto[i - 1]
  IN upto[Len(s)]

-----------------------------------------------------------------------------
(* mutant: only another attribute of the same prefix is looked at *)
ConflictWithUnwritten(spaces, a) ==
  \E i \in DOMAIN spaces : spaces[i].prefix = a.prefix /\ spaces[i].uri # a.uri /\ ~spaces[i].written

Conflict(spaces, a) ==
  \E i \in DOMAIN spaces : spaces[i].prefix = a.prefix /\ spaces[i].uri # a.uri

(* mutant: a prefix is registered again for each attribute *)
RegisteredAgain(spaces, a) ==
  IF a.uri = Empty THEN spaces ELSE Append(spaces, Namespace(a.prefix, a.uri, FALSE))

Registered(spaces, a) ==
  IF a.uri = Empty \/ (\E i \in DOMAIN spaces : spaces[i].prefix = a.prefix) THEN spaces
  ELSE Append(spaces, Namespace(a.prefix, a.uri, FALSE))

(* What a call makes of an element: its namespaces, its tag, an error. *)
Result(spaces, out, failed) == [spaces |-> spaces, out |-> out, failed |-> failed]

(* mutant: the name is not checked *)
AttrUnchecked(r, a) ==
  IF a.uri # Empty /\ Conflict(r.spaces, a) THEN Result(r.spaces, r.out, TRUE)
  ELSE Result(Registered(r.spaces, a), Append(r.out, Printed(a.prefix, a.name, a.value, a.uri, "user")), FALSE)

(* Attr.write: the namespace is registered before the name is checked. *)
Attr(r, a) ==
  IF a.uri # Empty /\ Conflict(r.spaces, a) THEN Result(r.spaces, r.out, TRUE)
  ELSE IF ~CheckName(a.prefix, a.name) THEN Result(Registered(r.spaces, a), r.out, TRUE)
  ELSE Result(Registered(r.spaces, a), Append(r.out, Printed(a.prefix, a.name, a.value, a.uri, "user")), FALSE)

(* Elem.open: the element's own namespace, then its Attrs. *)
Open(prefix, uri, attrs) ==
  LET own == IF prefix # Empty /\ uri # Empty THEN <<Namespace(prefix, uri, TRUE)>> ELSE <<>>
      r   == Result(own, [i \in DOMAIN own |-> Declaration(own[i])], FALSE)
  IN IF attrs = <<>> THEN r ELSE Attr(r, attrs[1])   \* bound: one of Attrs

Start(prefix, uri, attrs) == elem.state = "none"
  /\ IF prefix = "bad"
     THEN /\ elem' = [elem EXCEPT !.state = "torn"]
          /\ err' = TRUE /\ refused' = TRUE /\ UNCHANGED tag
     ELSE LET r == Open(prefix, uri, attrs)
          IN /\ elem' = [state |-> "open", prefix |-> prefix, uri |-> uri,
                       namespaces |-> r.spaces]
             /\ tag' = r.out /\ err' = r.failed /\ refused' = r.failed

(* An attribute of an opened element is written into its content. *)
WriteAttr(a) == elem.state \in {"open", "opened"}
  /\ LET r == Attr(Result(elem.namespaces, tag, FALSE), a)
     IN /\ elem' = [elem EXCEPT !.namespaces = r.spaces]
        /\ tag' = IF elem.state = "open" THEN r.out ELSE tag
        /\ err' = r.failed /\ refused' = (refused \/ r.failed)

Unwritten(spaces) == At(spaces, {i \in DOMAIN spaces : ~spaces[i].written})

(* Elem.opened stops at a declaration whose name is none, before "/>" or ">". *)
Opened == elem.state = "open"
  /\ LET new  == Unwritten(elem.namespaces)
         bads == {i \in DOMAIN new : ~CheckName(new[i].prefix, Empty)}
         good == IF bads = {} THEN new
                 ELSE SubSeq(new, 1, (CHOOSE i \in bads : \A j \in bads : i <= j) - 1)
     IN /\ tag' = tag \o [i \in DOMAIN good |-> Declaration(good[i])]
        /\ elem' = [elem EXCEPT !.state = IF bads = {} THEN "opened" ELSE "torn",
                      !.namespaces = [i \in DOMAIN elem.namespaces |->
                         LET ns == elem.namespaces[i]
                         IN [ns EXCEPT !.written = ns.written \/ \E j \in DOMAIN good : good[j] = ns]]]
        /\ err' = (bads # {}) /\ UNCHANGED refused

TagInit ==
  /\ elem = [state |-> "none", prefix |-> Empty, uri |-> Empty, namespaces |-> <<>>]
  /\ tag = <<>> /\ err = FALSE /\ refused = FALSE
=============================================================================
