-------------------------- MODULE TagReplayProofs --------------------------
(***************************************************************************)
(* Every start tag, whoever wrote it, is declared right, and one that      *)
(* testbuilder took apart is written again as it was, for every set of     *)
(* prefixes, names and URIs and any number of attributes.                  *)
(*                                                                         *)
(* The inductive invariant says what of the tag is still to come.  Before  *)
(* the element is opened, Bound relates the namespaces that are registered *)
(* to the declarations that the tag has; the calls that are left fit       *)
(* (CallFits), and Rebuilding adds up: what the tag has, the namespaces    *)
(* that opening the element will declare and what the script has left are  *)
(* the attributes of the source.                                           *)
(***************************************************************************)
EXTENDS TagReplay, Lemmas

(* The values of the state.                                                *)
LocalNames == Names \cup AnyPrefix \cup {"e", CHOOSE n \in Names : TRUE}
Spaces == [prefix : AnyPrefix, uri : URIs, written : BOOLEAN]
Marks == [prefix : AnyPrefix, name : LocalNames, value : AnyURI, given : AnyURI, by : {"user", "writer"}]
Elems == [state : States, prefix : AnyPrefix, uri : AnyURI, namespaces : Seq(Spaces)]
Calls == [op : {"start", "attr"}, prefix : AnyPrefix, name : LocalNames, uri : AnyURI, value : AnyURI]
Arguments == [prefix : AnyPrefix, name : LocalNames, uri : AnyURI, value : AnyURI]

-----------------------------------------------------------------------------
(* At selects. *)

(* f tells where the elements of t were in s.                              *)
Picks(s, places, t, f) ==
  /\ f \in [1 .. Len(t) -> places]
  /\ \A k \in 1 .. Len(t) : t[k] = s[f[k]]
  /\ \A j, k \in 1 .. Len(t) : j < k => f[j] < f[k]
  /\ \A i \in places : \E k \in 1 .. Len(t) : f[k] = i

(* The selection one place further.                                        *)
LEMMA PicksOneMore ==
  ASSUME NEW S, NEW s \in Seq(S), NEW places, NEW n \in 0 .. Len(s) - 1,
         NEW t \in Seq(S), NEW f, Picks(s, places \cap 1 .. n, t, f), n + 1 \in places
  PROVE  \E g : Picks(s, places \cap 1 .. n + 1, Append(t, s[n + 1]), g)
<1> DEFINE u == Append(t, s[n + 1])
           g == [k \in 1 .. Len(t) + 1 |-> IF k = Len(t) + 1 THEN n + 1 ELSE f[k]]
           here == places \cap 1 .. n
           there == places \cap 1 .. n + 1
<1>1. Len(s) \in Nat /\ Len(t) \in Nat /\ s[n + 1] \in S
  BY LenProperties, ElementOfSeq
<1>2. Len(u) = Len(t) + 1 /\ u[Len(t) + 1] = s[n + 1] /\ \A k \in 1 .. Len(t) : u[k] = t[k]
  BY <1>1, AppendProperties
<1>3. /\ f \in [1 .. Len(t) -> here] /\ \A k \in 1 .. Len(t) : t[k] = s[f[k]]
      /\ \A j, k \in 1 .. Len(t) : j < k => f[j] < f[k]
      /\ \A i \in here : \E k \in 1 .. Len(t) : f[k] = i
  BY DEF Picks
<1> HIDE DEF u
<1>4. g \in [1 .. Len(u) -> there]
  BY <1>1, <1>2, <1>3
<1>5. \A k \in 1 .. Len(u) : u[k] = s[g[k]]
  BY <1>1, <1>2, <1>3
<1>6. \A j, k \in 1 .. Len(u) : j < k => g[j] < g[k]
  <2>1. \A j \in 1 .. Len(t) : f[j] \in 1 .. n /\ g[j] = f[j]
    BY <1>1, <1>3
  <2>2. g[Len(t) + 1] = n + 1
    BY <1>1
  <2> HIDE DEF g
  <2>3. ASSUME NEW j \in 1 .. Len(u), NEW k \in 1 .. Len(u), j < k PROVE g[j] < g[k]
    <3>1. j \in 1 .. Len(t) /\ (k \in 1 .. Len(t) \/ k = Len(t) + 1)
      BY <1>1, <1>2, <2>3
    <3>2. CASE k \in 1 .. Len(t)
      BY <1>3, <2>1, <2>3, <3>1, <3>2
    <3>3. CASE k = Len(t) + 1
      BY <2>1, <2>2, <3>1, <3>3
    <3> QED BY <3>1, <3>2, <3>3
  <2> QED BY <2>3
<1>7. \A i \in there : \E k \in 1 .. Len(u) : g[k] = i
  <2>1. ASSUME NEW i \in there PROVE i \in here \/ i = n + 1
    OBVIOUS
  <2>2. g[Len(t) + 1] = n + 1 /\ Len(t) + 1 \in 1 .. Len(u)
    BY <1>1, <1>2
  <2>3. ASSUME NEW i \in here PROVE \E k \in 1 .. Len(u) : g[k] = i
    <3>1. PICK k \in 1 .. Len(t) : f[k] = i
      BY <1>3
    <3>2. k \in 1 .. Len(u) /\ g[k] = i
      BY <1>1, <1>2, <3>1
    <3> QED BY <3>2
  <2> QED
    BY <2>1, <2>2, <2>3
<1> HIDE DEF g, there
<1>8. Picks(s, there, u, g)
  BY <1>4, <1>5, <1>6, <1>7 DEF Picks
<1>9. \E h : Picks(s, there, u, h)
  BY <1>8
<1> QED
  BY <1>9 DEF u, there

(* At gives the elements of s at these places, each once and in order.     *)
LEMMA AtPicks ==
  ASSUME NEW S, NEW s \in Seq(S), NEW places, places \subseteq DOMAIN s
  PROVE  At(s, places) \in Seq(S) /\ \E f : Picks(s, places, At(s, places), f)
<1> DEFINE N == Len(s)
           step == [i \in 1 .. N |-> [t \in Seq(S) |-> IF i \in places THEN Append(t, s[i]) ELSE t]]
           Upto(f) == f = [i \in 0 .. N |-> IF i = 0 THEN <<>>
                             ELSE IF i \in places THEN Append(f[i - 1], s[i]) ELSE f[i - 1]]
           upto == CHOOSE f : Upto(f)
           Good == {n \in 0 .. N : upto[n] \in Seq(S) /\ \E f : Picks(s, places \cap 1 .. n, upto[n], f)}
<1>1. N \in Nat /\ DOMAIN s = 1 .. N /\ \A i \in 1 .. N : s[i] \in S
  BY LenProperties, ElementOfSeq
<1>2. At(s, places) = upto[N]
  BY Zenon DEF At
<1>4. \A n \in 0 .. N - 1 : n \in 0 .. Len(s) - 1
  OBVIOUS
<1> HIDE DEF N
<1>5. \E f : Upto(f)
  <2>1. step \in [1 .. N -> [Seq(S) -> Seq(S)]]
    BY <1>1, AppendProperties
  <2>2. <<>> \in Seq(S)
    OBVIOUS
  <2>3. PICK g \in [0 .. N -> Seq(S)] : g[0] = <<>> /\ \A i \in 1 .. N : g[i] = step[i][g[i - 1]]
    <3> HIDE DEF step
    <3>1. Recursions(N, Seq(S), <<>>, step) # {}
      BY <1>1, <2>1, <2>2, RecursionUpTo
    <3> QED BY <3>1 DEF Recursions
  <2>4. ASSUME NEW i \in 1 .. N
        PROVE  g[i] = IF i \in places THEN Append(g[i - 1], s[i]) ELSE g[i - 1]
    <3>1. g[i - 1] \in Seq(S)
      BY <1>1, <2>3
    <3> QED BY <2>3, <3>1
  <2> HIDE DEF step
  <2>5. ASSUME NEW i \in 0 .. N
        PROVE  g[i] = IF i = 0 THEN <<>> ELSE IF i \in places THEN Append(g[i - 1], s[i]) ELSE g[i - 1]
    <3>1. i = 0 \/ i \in 1 .. N
      BY <1>1
    <3> QED BY <2>3, <2>4, <3>1
  <2>6. Upto(g)
    BY <2>5
  <2> QED BY <2>6
<1>6. Upto(upto)
  BY <1>5, Zenon
<1> HIDE DEF upto
<1>7. upto[0] = <<>>
  BY <1>1, <1>6
<1>8. ASSUME NEW i \in 1 .. N
      PROVE  upto[i] = IF i \in places THEN Append(upto[i - 1], s[i]) ELSE upto[i - 1]
  <2>1. i \in 0 .. N /\ i # 0
    BY <1>1
  <2> QED BY <1>6, <2>1
<1>9. 0 \in Good
  <2>1. <<>> \in Seq(S) /\ Len(<<>>) = 0
    OBVIOUS
  <2>2. Picks(s, places \cap 1 .. 0, <<>>, <<>>)
    BY DEF Picks
  <2>3. \E f : Picks(s, places \cap 1 .. 0, upto[0], f)
    BY <1>7, <2>2, Zenon
  <2> HIDE DEF Upto
  <2>4. upto[0] \in Seq(S) /\ 0 \in 0 .. N
    BY <1>1, <1>7, <2>1
  <2> QED BY <2>3, <2>4
<1>10. ASSUME NEW n \in 0 .. N - 1, n \in Good PROVE n + 1 \in Good
  <2>1. n + 1 \in 1 .. N /\ (n + 1) - 1 = n /\ n + 1 \in 0 .. N /\ n \in 0 .. Len(s) - 1
    BY <1>1, <1>4
  <2>2. PICK f : Picks(s, places \cap 1 .. n, upto[n], f)
    BY <1>10
  <2>3. upto[n] \in Seq(S)
    BY <1>10
  <2>4. CASE n + 1 \in places
    <3>1. upto[n + 1] = Append(upto[n], s[n + 1])
      BY <1>8, <2>1, <2>4
    <3>2. \E g : Picks(s, places \cap 1 .. n + 1, Append(upto[n], s[n + 1]), g)
      BY <2>1, <2>2, <2>3, <2>4, PicksOneMore
    <3>3. upto[n + 1] \in Seq(S)
      BY <1>1, <2>1, <2>3, <3>1, AppendProperties
    <3> QED BY <2>1, <3>1, <3>2, <3>3
  <2>5. CASE n + 1 \notin places
    <3>1. upto[n + 1] = upto[n]
      BY <1>8, <2>1, <2>5
    <3>2. places \cap 1 .. n + 1 = places \cap 1 .. n
      BY <1>1, <2>5
    <3> DEFINE m == n + 1
    <3>3. Picks(s, places \cap 1 .. m, upto[m], f)
      BY <2>2, <3>1, <3>2, Zenon
    <3>4. upto[m] \in Seq(S) /\ m \in 0 .. N
      BY <2>1, <2>3, <3>1
    <3> HIDE DEF m
    <3>5. m \in Good
      BY <3>3, <3>4
    <3> QED BY <3>5 DEF m
  <2> QED BY <2>4, <2>5
<1>11. N \in Good
  <2> HIDE DEF Good
  <2>1. \A n \in 0 .. N - 1 : n \in Good => n + 1 \in Good
    BY <1>10
  <2>2. 0 .. N \subseteq Good
    BY <1>1, <1>9, <2>1, InductionUpTo
  <2> QED BY <1>1, <2>2
<1>12. places \cap 1 .. N = places
  BY <1>1
<1> QED
  BY <1>2, <1>11, <1>12

(* A selection has each of the selected once, and nothing else.            *)
Selection(t, s, places) ==
  \E f \in [DOMAIN t -> places] :
     /\ \A k \in DOMAIN t : t[k] = s[f[k]]
     /\ \A j, k \in DOMAIN t : f[j] = f[k] => j = k
     /\ \A i \in places : \E k \in DOMAIN t : f[k] = i

(* No place is selected twice.                                             *)
LEMMA AtSelects ==
  ASSUME NEW S, NEW s \in Seq(S), NEW places, places \subseteq DOMAIN s
  PROVE  /\ At(s, places) \in Seq(S) /\ Len(At(s, places)) \in Nat
         /\ DOMAIN At(s, places) = 1 .. Len(At(s, places)) /\ Selection(At(s, places), s, places)
<1> DEFINE t == At(s, places)
<1>1. t \in Seq(S) /\ \E f : Picks(s, places, t, f)
  BY AtPicks
<1> HIDE DEF t
<1>2. Len(t) \in Nat /\ DOMAIN t = 1 .. Len(t) /\ DOMAIN s \subseteq Nat
  BY <1>1, LenProperties
<1>3. PICK f : Picks(s, places, t, f)
  BY <1>1
<1>4. /\ f \in [DOMAIN t -> places] /\ \A k \in DOMAIN t : t[k] = s[f[k]]
      /\ \A i \in places : \E k \in DOMAIN t : f[k] = i
  BY <1>2, <1>3 DEF Picks
<1>5. ASSUME NEW j \in DOMAIN t, NEW k \in DOMAIN t, f[j] = f[k] PROVE j = k
  <2>1. j \in 1 .. Len(t) /\ k \in 1 .. Len(t) /\ f[j] \in Nat /\ f[k] \in Nat
    BY <1>2, <1>4
  <2>2. ~(f[j] < f[k]) /\ ~(f[k] < f[j])
    BY <1>5, <2>1
  <2>3. ~(j < k) /\ ~(k < j)
    BY <1>3, <2>1, <2>2 DEF Picks
  <2> QED BY <1>2, <2>1, <2>3
<1> QED
  BY <1>1, <1>2, <1>4, <1>5 DEF t, Selection

-----------------------------------------------------------------------------
(* What a call does to the namespaces and to the tag. *)

(* A sequence that has an element more.                                    *)
LEMMA LastAdded ==
  ASSUME NEW S, NEW s \in Seq(S), NEW x \in S
  PROVE  LET t == Append(s, x)
             n == Len(s) + 1
         IN /\ t \in Seq(S) /\ n \in DOMAIN t /\ n \notin DOMAIN s /\ t[n] = x
            /\ \A i \in DOMAIN s : i \in DOMAIN t /\ t[i] = s[i]
            /\ \A i \in DOMAIN t : i = n \/ i \in DOMAIN s
BY LenProperties, AppendProperties

(* A namespace is registered for a prefix once.                            *)
Once(spaces) == \A i, j \in DOMAIN spaces : spaces[i].prefix = spaces[j].prefix => i = j

(* Where the Writer declares a prefix in the tag.                          *)
Decls(out, p) == {d \in DOMAIN out : out[d].prefix = "xmlns" /\ out[d].name = p /\ out[d].by = "writer"}

(* The one declaration of a prefix is at d and has its URI.                *)
DeclaredAt(out, d, p, uri) == Decls(out, p) = {d} /\ out[d].value = uri

(* The declarations that the source has and no element or attribute of it  *)
(* uses: the script writes them as attributes.                             *)
Plain(t) == {p \in NsPrefixes : p # t.prefix /\ NsAt(t, p) # {} /\ \A i \in DOMAIN t.atts : t.atts[i].prefix # p}

(* The namespaces fit the tag so far: none is plain, a written one has its *)
(* declaration, an unwritten one has none, the Writer declares no other,   *)
(* and every attribute that was given a URI has its prefix registered with *)
(* it.                                                                     *)
Bound(spaces, out, plain) ==
  /\ \A i \in DOMAIN spaces : spaces[i].prefix \notin plain
  /\ \A i \in DOMAIN spaces : spaces[i].written => \E d \in DOMAIN out : DeclaredAt(out, d, spaces[i].prefix, spaces[i].uri)
  /\ \A i \in DOMAIN spaces : ~spaces[i].written => Decls(out, spaces[i].prefix) = {}
  /\ \A d \in DOMAIN out : out[d].prefix = "xmlns" /\ out[d].by = "writer"
       => \E i \in DOMAIN spaces : spaces[i].prefix = out[d].name
  /\ \A d \in DOMAIN out : out[d].given # Empty
       => \E i \in DOMAIN spaces : spaces[i].prefix = out[d].prefix /\ spaces[i].uri = out[d].given

(* Nothing is left to be declared.                                         *)
AllWritten(spaces) == \A i \in DOMAIN spaces : spaces[i].written

(* The Writer declares nothing for a prefix that is not registered, so a   *)
(* namespace may be registered for it.                                     *)
LEMMA BoundRegister ==
  ASSUME NEW spaces \in Seq(Spaces), NEW out \in Seq(Marks), NEW plain, Bound(spaces, out, plain),
         NEW p \in AnyPrefix \ plain, NEW u \in URIs, \A i \in DOMAIN spaces : spaces[i].prefix # p
  PROVE  Bound(Append(spaces, Namespace(p, u, FALSE)), out, plain)
<1> DEFINE ns == Namespace(p, u, FALSE)
           more == Append(spaces, ns)
           n == Len(spaces) + 1
<1>1. ns.prefix = p /\ ns.uri = u /\ ns.written = FALSE
  BY DEF Namespace
<1>2. ns \in Spaces
  BY DEF Namespace, Spaces
<1> HIDE DEF ns
<1>3. /\ more[n] = ns /\ \A i \in DOMAIN more : i = n \/ i \in DOMAIN spaces
      /\ \A i \in DOMAIN spaces : i \in DOMAIN more /\ more[i] = spaces[i]
  BY <1>2, LastAdded, Zenon
<1> HIDE DEF more, n
<1>4. Decls(out, p) = {}
  <2>1. ASSUME NEW d \in DOMAIN out, out[d].prefix = "xmlns", out[d].name = p, out[d].by = "writer" PROVE FALSE
    <3>1. \E i \in DOMAIN spaces : spaces[i].prefix = p
      BY <2>1 DEF Bound
    <3> QED BY <3>1
  <2> QED BY <2>1 DEF Decls
<1>5. \A i \in DOMAIN more : (i \in DOMAIN spaces /\ more[i] = spaces[i]) \/ more[i] = ns
  BY <1>3
<1>6. \A i \in DOMAIN spaces : i \in DOMAIN more /\ more[i] = spaces[i]
  BY <1>3
<1>7. \A i \in DOMAIN more : more[i].prefix \notin plain
  BY <1>1, <1>5 DEF Bound
<1>8. \A i \in DOMAIN more : more[i].written => \E d \in DOMAIN out : DeclaredAt(out, d, more[i].prefix, more[i].uri)
  BY <1>1, <1>5 DEF Bound
<1>9. \A i \in DOMAIN more : ~more[i].written => Decls(out, more[i].prefix) = {}
  BY <1>1, <1>4, <1>5 DEF Bound
<1>10. \A d \in DOMAIN out : out[d].prefix = "xmlns" /\ out[d].by = "writer"
          => \E i \in DOMAIN more : more[i].prefix = out[d].name
  BY <1>6 DEF Bound
<1>11. \A d \in DOMAIN out : out[d].given # Empty
          => \E i \in DOMAIN more : more[i].prefix = out[d].prefix /\ more[i].uri = out[d].given
  BY <1>6 DEF Bound
<1>12. Bound(more, out, plain)
  BY <1>7, <1>8, <1>9, <1>10, <1>11 DEF Bound
<1> QED
  BY <1>12 DEF more, ns

(* An attribute of the user that has its URI registered may be printed.    *)
LEMMA BoundPrint ==
  ASSUME NEW spaces \in Seq(Spaces), NEW out \in Seq(Marks), NEW plain, Bound(spaces, out, plain),
         NEW m \in Marks, m.by = "user",
         m.given # Empty => \E i \in DOMAIN spaces : spaces[i].prefix = m.prefix /\ spaces[i].uri = m.given
  PROVE  Bound(spaces, Append(out, m), plain)
<1> DEFINE more == Append(out, m)
           n == Len(out) + 1
<1>1. /\ more[n] = m /\ \A i \in DOMAIN more : i = n \/ i \in DOMAIN out
      /\ \A i \in DOMAIN out : i \in DOMAIN more /\ more[i] = out[i]
  BY LastAdded, Zenon
<1> HIDE DEF more, n
<1>2. \A d \in DOMAIN more : (d \in DOMAIN out /\ more[d] = out[d]) \/ more[d] = m
  BY <1>1
<1>3. \A d \in DOMAIN out : d \in DOMAIN more /\ more[d] = out[d]
  BY <1>1
<1>4. ASSUME NEW p PROVE Decls(more, p) = Decls(out, p)
  BY <1>2, <1>3 DEF Decls
<1>5. ASSUME NEW i \in DOMAIN spaces, spaces[i].written
      PROVE  \E d \in DOMAIN more : DeclaredAt(more, d, spaces[i].prefix, spaces[i].uri)
  <2>1. PICK d \in DOMAIN out : DeclaredAt(out, d, spaces[i].prefix, spaces[i].uri)
    BY <1>5 DEF Bound
  <2>2. Decls(more, spaces[i].prefix) = Decls(out, spaces[i].prefix)
    BY <1>4 DEF Bound
  <2>3. DeclaredAt(more, d, spaces[i].prefix, spaces[i].uri)
    BY <1>3, <2>1, <2>2 DEF DeclaredAt
  <2> QED BY <1>3, <2>3
<1>6. \A i \in DOMAIN spaces : ~spaces[i].written => Decls(more, spaces[i].prefix) = {}
  BY <1>4 DEF Bound
<1>7. \A d \in DOMAIN more : more[d].prefix = "xmlns" /\ more[d].by = "writer"
         => \E i \in DOMAIN spaces : spaces[i].prefix = more[d].name
  BY <1>2 DEF Bound
<1>8. \A d \in DOMAIN more : more[d].given # Empty
         => \E i \in DOMAIN spaces : spaces[i].prefix = more[d].prefix /\ spaces[i].uri = more[d].given
  BY <1>2 DEF Bound
<1>9. \A i \in DOMAIN spaces : spaces[i].prefix \notin plain
  BY DEF Bound
<1>10. Bound(spaces, more, plain)
  BY <1>5, <1>6, <1>7, <1>8, <1>9 DEF Bound
<1> QED
  BY <1>10 DEF more

(* An attribute as it is printed, and the namespace it may register.       *)
MarkOf(a) == Printed(a.prefix, a.name, a.value, a.uri, "user")
SpaceOf(a) == Namespace(a.prefix, a.uri, FALSE)

Unregistered(spaces, p) == \A i \in DOMAIN spaces : spaces[i].prefix # p
RegisteredWith(spaces, p, u) == \E i \in DOMAIN spaces : spaces[i].prefix = p /\ spaces[i].uri = u

(* The arguments of a call.                                                *)
Argument(a) == a \in Arguments

(* The attribute in the output has the argument's parts,                   *)
LEMMA MarkOfIsMark ==
  ASSUME NEW a \in Arguments
  PROVE  MarkOf(a) \in Marks /\ MarkOf(a).prefix = a.prefix /\ MarkOf(a).name = a.name
         /\ MarkOf(a).value = a.value /\ MarkOf(a).given = a.uri /\ MarkOf(a).by = "user"
BY DEF MarkOf, Marks, Printed, Arguments

(* and so has the namespace that is registered for it.                    *)
LEMMA SpaceOfIsSpace ==
  ASSUME NEW a, Argument(a), a.uri # Empty
  PROVE  SpaceOf(a) \in Spaces /\ SpaceOf(a).prefix = a.prefix /\ SpaceOf(a).uri = a.uri
         /\ SpaceOf(a).written = FALSE
BY DEF Argument, SpaceOf, Spaces, Namespace, Arguments, AnyURI

(* Attr.write registers a namespace, for a prefix that has none yet,       *)
LEMMA AttrSpaces ==
  ASSUME NEW spaces, NEW out, NEW a
  PROVE  LET r == Attr(Result(spaces, out, FALSE), a)
         IN r.spaces = spaces \/ (a.uri # Empty /\ Unregistered(spaces, a.prefix) /\ r.spaces = Append(spaces, SpaceOf(a)))
<1> DEFINE now == Result(spaces, out, FALSE)
           r == Attr(now, a)
<1>1. now.spaces = spaces /\ now.out = out
  BY DEF Result
<1>2. Registered(spaces, a) = spaces
        \/ (a.uri # Empty /\ Unregistered(spaces, a.prefix) /\ Registered(spaces, a) = Append(spaces, SpaceOf(a)))
  BY DEF Registered, Unregistered, SpaceOf
<1> HIDE DEF now
<1>3. \/ r = Result(spaces, out, TRUE)
      \/ r = Result(Registered(spaces, a), out, TRUE)
      \/ r = Result(Registered(spaces, a), Append(out, MarkOf(a)), FALSE)
  BY <1>1, Zenon DEF Attr, MarkOf
<1> HIDE DEF r
<1>4. r.spaces = spaces \/ r.spaces = Registered(spaces, a)
  BY <1>3 DEF Result
<1> QED
  BY <1>2, <1>4, Zenon DEF r, now

(* and prints the attribute unless the call fails: then its prefix has     *)
(* been registered with its URI.                                           *)
LEMMA AttrTag ==
  ASSUME NEW spaces \in Seq(Spaces), NEW out, NEW a, Argument(a)
  PROVE  LET r == Attr(Result(spaces, out, FALSE), a)
         IN \/ r.failed = TRUE /\ r.out = out
            \/ /\ r.failed = FALSE /\ r.out = Append(out, MarkOf(a)) /\ CheckName(a.prefix, a.name)
               /\ (a.uri # Empty => RegisteredWith(r.spaces, a.prefix, a.uri))
<1> DEFINE now == Result(spaces, out, FALSE)
           r == Attr(now, a)
<1>1. now.spaces = spaces /\ now.out = out
  BY DEF Result
<1> HIDE DEF now
<1>2. \/ r = Result(spaces, out, TRUE)
      \/ r = Result(Registered(spaces, a), out, TRUE)
      \/ /\ r = Result(Registered(spaces, a), Append(out, MarkOf(a)), FALSE)
         /\ ~(a.uri # Empty /\ Conflict(spaces, a)) /\ CheckName(a.prefix, a.name)
  BY <1>1, Zenon DEF Attr, MarkOf
<1> HIDE DEF r
<1>3. CASE r = Result(spaces, out, TRUE)
  <2>1. r.failed = TRUE /\ r.out = out
    BY <1>3 DEF Result
  <2> QED BY <2>1 DEF r, now
<1>4. CASE r = Result(Registered(spaces, a), out, TRUE)
  <2>1. r.failed = TRUE /\ r.out = out
    BY <1>4 DEF Result
  <2> QED BY <2>1 DEF r, now
<1>5. CASE /\ r = Result(Registered(spaces, a), Append(out, MarkOf(a)), FALSE)
           /\ ~(a.uri # Empty /\ Conflict(spaces, a)) /\ CheckName(a.prefix, a.name)
  <2>1. r.failed = FALSE /\ r.out = Append(out, MarkOf(a)) /\ r.spaces = Registered(spaces, a)
    BY <1>5 DEF Result
  <2>2. ASSUME a.uri # Empty PROVE RegisteredWith(Registered(spaces, a), a.prefix, a.uri)
    <3>1. CASE \E i \in DOMAIN spaces : spaces[i].prefix = a.prefix
      <4>1. Registered(spaces, a) = spaces
        BY <3>1 DEF Registered
      <4>2. \E i \in DOMAIN spaces : spaces[i].prefix = a.prefix /\ spaces[i].uri = a.uri
        BY <1>5, <2>2, <3>1 DEF Conflict
      <4> QED BY <4>1, <4>2 DEF RegisteredWith
    <3>2. CASE ~\E i \in DOMAIN spaces : spaces[i].prefix = a.prefix
      <4>1. Registered(spaces, a) = Append(spaces, SpaceOf(a))
        BY <2>2, <3>2 DEF Registered, SpaceOf
      <4>2. SpaceOf(a) \in Spaces /\ SpaceOf(a).prefix = a.prefix /\ SpaceOf(a).uri = a.uri
        BY <2>2, SpaceOfIsSpace
      <4> DEFINE more == Append(spaces, SpaceOf(a))
                 n == Len(spaces) + 1
      <4>3. n \in DOMAIN more /\ more[n] = SpaceOf(a)
        BY <4>2, LastAdded, Zenon
      <4> HIDE DEF more, n
      <4>4. RegisteredWith(more, a.prefix, a.uri)
        BY <4>2, <4>3 DEF RegisteredWith
      <4> QED BY <4>1, <4>4 DEF more
    <3> QED BY <3>1, <3>2
  <2>3. /\ r.failed = FALSE /\ r.out = Append(out, MarkOf(a)) /\ CheckName(a.prefix, a.name)
        /\ (a.uri # Empty => RegisteredWith(r.spaces, a.prefix, a.uri))
    BY <1>5, <2>1, <2>2, Zenon
  <2> QED BY <2>3, Zenon DEF r, now
<1> QED
  BY <1>2, <1>3, <1>4, <1>5, Zenon

(* The namespaces and the tag keep their types, a prefix is registered     *)
(* once,                                                                   *)
LEMMA AttrTypes ==
  ASSUME NEW spaces \in Seq(Spaces), Once(spaces), NEW out \in Seq(Marks), NEW a, Argument(a)
  PROVE  LET r == Attr(Result(spaces, out, FALSE), a)
         IN r.spaces \in Seq(Spaces) /\ Once(r.spaces) /\ r.out \in Seq(Marks) /\ r.failed \in BOOLEAN
<1> DEFINE ns == SpaceOf(a)
           more == Append(spaces, ns)
           n == Len(spaces) + 1
           r == Attr(Result(spaces, out, FALSE), a)
<1>1. r.spaces = spaces \/ (a.uri # Empty /\ Unregistered(spaces, a.prefix) /\ r.spaces = more)
  BY AttrSpaces, Zenon
<1>2. (r.failed = TRUE /\ r.out = out) \/ (r.failed = FALSE /\ r.out = Append(out, MarkOf(a)))
  BY AttrTag, Zenon
<1> HIDE DEF r
<1>3. r.out \in Seq(Marks) /\ r.failed \in BOOLEAN
  <2>1. MarkOf(a) \in Marks
    BY MarkOfIsMark DEF Argument
  <2>2. Append(out, MarkOf(a)) \in Seq(Marks)
    BY <2>1, AppendProperties
  <2> QED BY <1>2, <2>2
<1>4. CASE a.uri # Empty /\ Unregistered(spaces, a.prefix) /\ r.spaces = more
  <2>1. ns \in Spaces /\ ns.prefix = a.prefix
    BY <1>4, SpaceOfIsSpace
  <2> HIDE DEF ns
  <2>2. /\ more \in Seq(Spaces) /\ more[n] = ns
        /\ \A i \in DOMAIN spaces : i \in DOMAIN more /\ more[i] = spaces[i]
        /\ \A i \in DOMAIN more : i = n \/ i \in DOMAIN spaces
    BY <2>1, LastAdded, Zenon
  <2> HIDE DEF n, more
  <2>3. Once(more)
    <3>1. ASSUME NEW i \in DOMAIN more, NEW j \in DOMAIN more, more[i].prefix = more[j].prefix PROVE i = j
      <4>1. CASE i \in DOMAIN spaces /\ j \in DOMAIN spaces
        BY <2>2, <3>1, <4>1 DEF Once
      <4>2. CASE i = n /\ j \in DOMAIN spaces
        BY <1>4, <2>1, <2>2, <3>1, <4>2 DEF Unregistered
      <4>3. CASE j = n /\ i \in DOMAIN spaces
        BY <1>4, <2>1, <2>2, <3>1, <4>3 DEF Unregistered
      <4> QED BY <2>2, <4>1, <4>2, <4>3
    <3> QED BY <3>1 DEF Once
  <2>4. r.spaces \in Seq(Spaces) /\ Once(r.spaces)
    BY <1>4, <2>2, <2>3
  <2> QED BY <1>3, <2>4 DEF r
<1>5. CASE r.spaces = spaces
  BY <1>3, <1>5 DEF r
<1> QED
  BY <1>1, <1>4, <1>5

(* and they still fit each other, the attribute printed or not.            *)
LEMMA AttrBound ==
  ASSUME NEW spaces \in Seq(Spaces), Once(spaces), NEW out \in Seq(Marks), NEW a, Argument(a),
         NEW plain, Bound(spaces, out, plain),
         a.uri # Empty => a.prefix \notin plain
  PROVE  LET r == Attr(Result(spaces, out, FALSE), a)
         IN Bound(r.spaces, r.out, plain) /\ Bound(r.spaces, out, plain)
<1> DEFINE r == Attr(Result(spaces, out, FALSE), a)
           more == Append(spaces, SpaceOf(a))
<1>1. r.spaces = spaces \/ (a.uri # Empty /\ Unregistered(spaces, a.prefix) /\ r.spaces = more)
  BY AttrSpaces, Zenon
<1>2. \/ r.out = out
      \/ r.out = Append(out, MarkOf(a)) /\ (a.uri # Empty => RegisteredWith(r.spaces, a.prefix, a.uri))
  BY AttrTag, Zenon
<1>3. r.spaces \in Seq(Spaces)
  BY AttrTypes, Zenon
<1> HIDE DEF r
<1>4. Bound(r.spaces, out, plain)
  <2>1. CASE a.uri # Empty /\ Unregistered(spaces, a.prefix) /\ r.spaces = more
    <3>1. a.prefix \in AnyPrefix \ plain /\ a.uri \in URIs
      BY <2>1 DEF Argument, Arguments, AnyURI
    <3>2. \A i \in DOMAIN spaces : spaces[i].prefix # a.prefix
      BY <2>1 DEF Unregistered
    <3>3. Bound(more, out, plain)
      BY <3>1, <3>2, BoundRegister, Zenon DEF SpaceOf
    <3> HIDE DEF more
    <3> QED BY <2>1, <3>3
  <2> QED BY <1>1, <2>1
<1>5. Bound(r.spaces, r.out, plain)
  <2> DEFINE m == MarkOf(a)
  <2>1. m \in Marks /\ m.prefix = a.prefix /\ m.given = a.uri /\ m.by = "user"
    BY MarkOfIsMark DEF Argument
  <2> HIDE DEF m
  <2>2. CASE r.out = Append(out, m) /\ (a.uri # Empty => RegisteredWith(r.spaces, a.prefix, a.uri))
    <3>1. m.given # Empty => \E i \in DOMAIN r.spaces : r.spaces[i].prefix = m.prefix /\ r.spaces[i].uri = m.given
      BY <2>1, <2>2 DEF RegisteredWith
    <3>2. Bound(r.spaces, Append(out, m), plain)
      BY <1>3, <1>4, <2>1, <3>1, BoundPrint
    <3> QED BY <2>2, <3>2
  <2> QED BY <1>2, <1>4, <2>2 DEF m
<1> QED
  BY <1>4, <1>5 DEF r
(* A namespace is left to be declared whose prefix is no name.             *)
BadUnwritten(spaces) == \E i \in DOMAIN spaces : spaces[i].prefix = "bad" /\ ~spaces[i].written

(* A prefix that is no name is registered only when the call fails.        *)
LEMMA AttrBad ==
  ASSUME NEW spaces \in Seq(Spaces), NEW out, NEW a, Argument(a)
  PROVE  LET r == Attr(Result(spaces, out, FALSE), a)
         IN BadUnwritten(r.spaces) => BadUnwritten(spaces) \/ r.failed = TRUE
<1> DEFINE r == Attr(Result(spaces, out, FALSE), a)
           more == Append(spaces, SpaceOf(a))
           n == Len(spaces) + 1
<1>1. r.spaces = spaces \/ (a.uri # Empty /\ r.spaces = more)
  BY AttrSpaces, Zenon
<1>2. r.failed = TRUE \/ CheckName(a.prefix, a.name)
  BY AttrTag, Zenon
<1> HIDE DEF r
<1>3. CASE a.uri # Empty /\ r.spaces = more /\ CheckName(a.prefix, a.name)
  <2>1. SpaceOf(a) \in Spaces /\ SpaceOf(a).prefix = a.prefix
    BY <1>3, SpaceOfIsSpace
  <2>2. /\ more[n] = SpaceOf(a)
        /\ \A i \in DOMAIN spaces : i \in DOMAIN more /\ more[i] = spaces[i]
        /\ \A i \in DOMAIN more : i = n \/ i \in DOMAIN spaces
    BY <2>1, LastAdded, Zenon
  <2> HIDE DEF n, more
  <2>3. ASSUME NEW i \in DOMAIN more, more[i].prefix = "bad", ~more[i].written PROVE BadUnwritten(spaces)
    <3>1. i # n
      BY <1>3, <2>1, <2>2, <2>3 DEF CheckName
    <3> QED BY <2>2, <2>3, <3>1 DEF BadUnwritten
  <2> QED BY <1>3, <2>3 DEF BadUnwritten, r
<1> QED
  BY <1>1, <1>2, <1>3 DEF r

-----------------------------------------------------------------------------
(* Opening the element. *)

(* A sequence that goes on with another.                                   *)
LEMMA Joined ==
  ASSUME NEW S, NEW s \in Seq(S), NEW t \in Seq(S)
  PROVE  LET u == s \o t
             n == Len(s)
         IN /\ u \in Seq(S) /\ Len(u) = Len(s) + Len(t)
            /\ \A i \in DOMAIN s : i \in DOMAIN u /\ u[i] = s[i]
            /\ \A k \in DOMAIN t : n + k \in DOMAIN u /\ n + k \notin DOMAIN s /\ u[n + k] = t[k]
            /\ \A d \in DOMAIN u : d \in DOMAIN s \/ \E k \in DOMAIN t : d = n + k
            /\ \A j, k \in DOMAIN t : n + j = n + k => j = k
<1> DEFINE u == s \o t
<1>1. /\ Len(s) \in Nat /\ DOMAIN s = 1 .. Len(s) /\ Len(t) \in Nat /\ DOMAIN t = 1 .. Len(t)
      /\ u \in Seq(S) /\ Len(u) = Len(s) + Len(t)
      /\ \A i \in 1 .. Len(s) + Len(t) : u[i] = IF i <= Len(s) THEN s[i] ELSE t[i - Len(s)]
  BY LenProperties, ConcatProperties
<1>2. DOMAIN u = 1 .. Len(u)
  BY <1>1, LenProperties
<1> HIDE DEF u
<1>3. ASSUME NEW i \in DOMAIN s PROVE i \in DOMAIN u /\ u[i] = s[i]
  BY <1>1, <1>2
<1>4. ASSUME NEW k \in DOMAIN t
      PROVE  Len(s) + k \in DOMAIN u /\ Len(s) + k \notin DOMAIN s /\ u[Len(s) + k] = t[k]
  <2>1. Len(s) + k \in 1 .. Len(s) + Len(t) /\ ~(Len(s) + k <= Len(s)) /\ (Len(s) + k) - Len(s) = k
    BY <1>1
  <2> QED BY <1>1, <1>2, <2>1
<1>5. ASSUME NEW d \in DOMAIN u PROVE d \in DOMAIN s \/ \E k \in DOMAIN t : d = Len(s) + k
  <2>1. d \in 1 .. Len(s) \/ d - Len(s) \in 1 .. Len(t)
    BY <1>1, <1>2
  <2>2. d = Len(s) + (d - Len(s))
    BY <1>1, <1>2
  <2> QED BY <1>1, <2>1, <2>2
<1>6. \A j, k \in DOMAIN t : Len(s) + j = Len(s) + k => j = k
  BY <1>1
<1> QED
  BY <1>1, <1>3, <1>4, <1>5, <1>6 DEF u

(* The namespaces, those of good marked as written.                        *)
MarkedWritten(spaces, good) ==
  [i \in DOMAIN spaces |->
     LET ns == spaces[i] IN [ns EXCEPT !.written = ns.written \/ \E j \in DOMAIN good : good[j] = ns]]

(* Marking namespaces as written changes nothing else of them.             *)
LEMMA MarkedWrittenFits ==
  ASSUME NEW spaces \in Seq(Spaces), Once(spaces), NEW good
  PROVE  LET more == MarkedWritten(spaces, good)
         IN /\ more \in Seq(Spaces) /\ Once(more) /\ DOMAIN more = DOMAIN spaces
            /\ \A i \in DOMAIN spaces : more[i].prefix = spaces[i].prefix /\ more[i].uri = spaces[i].uri
            /\ \A i \in DOMAIN spaces : spaces[i].written => more[i].written
            /\ \A i \in DOMAIN spaces : (\E j \in DOMAIN good : good[j] = spaces[i]) => more[i].written
            /\ BadUnwritten(more) => BadUnwritten(spaces)
<1> DEFINE more == MarkedWritten(spaces, good)
<1>1. Len(spaces) \in Nat /\ DOMAIN spaces = 1 .. Len(spaces)
  BY LenProperties
<1>2. ASSUME NEW i \in DOMAIN spaces
      PROVE  /\ more[i] \in Spaces /\ more[i].prefix = spaces[i].prefix /\ more[i].uri = spaces[i].uri
             /\ more[i].written <=> (spaces[i].written \/ \E j \in DOMAIN good : good[j] = spaces[i])
  <2> DEFINE ns == spaces[i]
             w == ns.written \/ \E j \in DOMAIN good : good[j] = ns
  <2>1. ns \in Spaces
    BY <1>1, ElementOfSeq
  <2>2. more[i] = [ns EXCEPT !.written = w]
    BY DEF MarkedWritten
  <2>3. w \in BOOLEAN
    <3>1. ns.written \in BOOLEAN
      BY <2>1 DEF Spaces
    <3> HIDE DEF ns
    <3> QED BY <3>1
  <2> HIDE DEF w, more
  <2>4. more[i] \in Spaces /\ more[i].prefix = ns.prefix /\ more[i].uri = ns.uri /\ more[i].written = w
    <3> HIDE DEF ns
    <3> QED BY <2>1, <2>2, <2>3 DEF Spaces
  <2> QED BY <2>3, <2>4 DEF w
<1>3. DOMAIN more = DOMAIN spaces
  BY DEF MarkedWritten
<1>4. more \in Seq(Spaces)
  <2>1. more \in [1 .. Len(spaces) -> Spaces]
    <3>1. more = [i \in DOMAIN spaces |-> more[i]]
      BY DEF MarkedWritten
    <3> HIDE DEF more
    <3> QED BY <1>1, <1>2, <3>1
  <2> HIDE DEF more
  <2> QED BY <1>1, <2>1, SeqDef
<1> HIDE DEF more
<1>5. Once(more)
  BY <1>2, <1>3 DEF Once
<1>6. BadUnwritten(more) => BadUnwritten(spaces)
  BY <1>2, <1>3 DEF BadUnwritten
<1> QED
  BY <1>2, <1>3, <1>4, <1>5, <1>6 DEF more

(* The declarations of namespaces, as the tag gets them.                   *)
DeclarationsOf(new) == [i \in DOMAIN new |-> Declaration(new[i])]

(* A declaration has the prefix for its name and the URI for its value.    *)
LEMMA DeclarationsOfMarks ==
  ASSUME NEW new \in Seq(Spaces)
  PROVE  /\ DeclarationsOf(new) \in Seq(Marks) /\ DOMAIN DeclarationsOf(new) = DOMAIN new
         /\ \A k \in DOMAIN new : LET m == DeclarationsOf(new)[k]
                                  IN m.prefix = "xmlns" /\ m.name = new[k].prefix /\ m.value = new[k].uri
                                     /\ m.given = Empty /\ m.by = "writer"
<1>1. Len(new) \in Nat /\ DOMAIN new = 1 .. Len(new) /\ \A k \in DOMAIN new : new[k] \in Spaces
  BY LenProperties, ElementOfSeq
<1>2. ASSUME NEW ns \in Spaces
      PROVE  /\ Declaration(ns) \in Marks /\ Declaration(ns).prefix = "xmlns" /\ Declaration(ns).name = ns.prefix
             /\ Declaration(ns).value = ns.uri /\ Declaration(ns).given = Empty /\ Declaration(ns).by = "writer"
  BY DEF Spaces, Declaration, Printed, Marks, AnyPrefix, LocalNames, AnyURI
<1>3. DeclarationsOf(new) \in [1 .. Len(new) -> Marks]
  BY <1>1, <1>2 DEF DeclarationsOf
<1>4. DeclarationsOf(new) \in Seq(Marks)
  BY <1>1, <1>3, SeqDef
<1> QED
  BY <1>1, <1>2, <1>4 DEF DeclarationsOf

(* Unwritten selects the namespaces that are not written.                  *)
LEMMA UnwrittenSelects ==
  ASSUME NEW spaces \in Seq(Spaces)
  PROVE  LET new == Unwritten(spaces)
         IN /\ new \in Seq(Spaces) /\ Len(new) \in Nat /\ DOMAIN new = 1 .. Len(new)
            /\ \E f \in [DOMAIN new -> DOMAIN spaces] :
                 /\ \A k \in DOMAIN new : new[k] = spaces[f[k]] /\ ~spaces[f[k]].written
                 /\ \A j, k \in DOMAIN new : f[j] = f[k] => j = k
                 /\ \A i \in DOMAIN spaces : ~spaces[i].written => \E k \in DOMAIN new : f[k] = i
<1> DEFINE places == {i \in DOMAIN spaces : ~spaces[i].written}
           new == Unwritten(spaces)
<1>1. places \subseteq DOMAIN spaces /\ new = At(spaces, places)
  BY DEF Unwritten
<1>2. \A i \in places : i \in DOMAIN spaces /\ ~spaces[i].written
  OBVIOUS
<1>3. \A i \in DOMAIN spaces : ~spaces[i].written => i \in places
  OBVIOUS
<1> HIDE DEF places, new
<1>4. new \in Seq(Spaces) /\ Len(new) \in Nat /\ DOMAIN new = 1 .. Len(new) /\ Selection(new, spaces, places)
  BY <1>1, AtSelects, Zenon
<1>5. PICK f \in [DOMAIN new -> places] :
        /\ \A k \in DOMAIN new : new[k] = spaces[f[k]]
        /\ \A j, k \in DOMAIN new : f[j] = f[k] => j = k
        /\ \A i \in places : \E k \in DOMAIN new : f[k] = i
  BY <1>4, Zenon DEF Selection
<1>6. f \in [DOMAIN new -> DOMAIN spaces]
  BY <1>1, <1>5
<1>7. \A k \in DOMAIN new : new[k] = spaces[f[k]] /\ ~spaces[f[k]].written
  BY <1>2, <1>5
<1>8. \A i \in DOMAIN spaces : ~spaces[i].written => \E k \in DOMAIN new : f[k] = i
  BY <1>3, <1>5
<1>9. \E g \in [DOMAIN new -> DOMAIN spaces] :
         /\ \A k \in DOMAIN new : new[k] = spaces[g[k]] /\ ~spaces[g[k]].written
         /\ \A j, k \in DOMAIN new : g[j] = g[k] => j = k
         /\ \A i \in DOMAIN spaces : ~spaces[i].written => \E k \in DOMAIN new : g[k] = i
  BY <1>5, <1>6, <1>7, <1>8
<1> QED
  BY <1>4, <1>9 DEF new

(* Where the elements of a sequence and of the one joined to it are.       *)
Extends(u, s, t) ==
  /\ \A i \in DOMAIN s : i \in DOMAIN u /\ u[i] = s[i]
  /\ \A k \in DOMAIN t : Len(s) + k \in DOMAIN u /\ Len(s) + k \notin DOMAIN s /\ u[Len(s) + k] = t[k]
  /\ \A d \in DOMAIN u : d \in DOMAIN s \/ \E k \in DOMAIN t : d = Len(s) + k

(* A sequence joined to another is behind it.                              *)
LEMMA JoinedExtends ==
  ASSUME NEW S, NEW s \in Seq(S), NEW t \in Seq(S)
  PROVE  Extends(s \o t, s, t)
<1> DEFINE u == s \o t
           n == Len(s)
<1>1. \A i \in DOMAIN s : i \in DOMAIN u /\ u[i] = s[i]
  BY Joined, Zenon
<1>2. ASSUME NEW k \in DOMAIN t
      PROVE  n + k \in DOMAIN u /\ n + k \notin DOMAIN s /\ u[n + k] = t[k]
  <2>1. n + k \in DOMAIN u
    BY Joined, Zenon
  <2>2. n + k \notin DOMAIN s
    BY Joined, Zenon
  <2>3. u[n + k] = t[k]
    <3> HIDE DEF u, n
    <3>1. \A v, m : v = s \o t /\ m = Len(s) => v[m + k] = t[k]
      BY Joined
    <3> QED BY <3>1 DEF u, n
  <2> QED BY <2>1, <2>2, <2>3
<1>3. \A d \in DOMAIN u : d \in DOMAIN s \/ \E k \in DOMAIN t : d = n + k
  BY Joined, Zenon
<1> HIDE DEF u
<1> QED
  BY <1>1, <1>2, <1>3 DEF u, Extends

(* When every namespace that is not written gets its declaration, all are  *)
(* written and fit the tag.                                                *)
LEMMA OpenedBound ==
  ASSUME NEW spaces \in Seq(Spaces), Once(spaces), NEW out \in Seq(Marks), NEW plain, Bound(spaces, out, plain)
  PROVE  LET new  == Unwritten(spaces)
             more == MarkedWritten(spaces, new)
         IN AllWritten(more) /\ Bound(more, out \o DeclarationsOf(new), plain)
<1> DEFINE new == Unwritten(spaces)
           more == MarkedWritten(spaces, new)
           decls == DeclarationsOf(new)
           longer == out \o decls
           n == Len(out)
<1>1. new \in Seq(Spaces) /\ DOMAIN new = 1 .. Len(new)
  BY UnwrittenSelects
<1>2. PICK f \in [DOMAIN new -> DOMAIN spaces] :
        /\ \A k \in DOMAIN new : new[k] = spaces[f[k]] /\ ~spaces[f[k]].written
        /\ \A j, k \in DOMAIN new : f[j] = f[k] => j = k
        /\ \A i \in DOMAIN spaces : ~spaces[i].written => \E k \in DOMAIN new : f[k] = i
  BY UnwrittenSelects
<1> HIDE DEF new
<1>3. /\ DOMAIN more = DOMAIN spaces
      /\ \A i \in DOMAIN spaces : more[i].prefix = spaces[i].prefix /\ more[i].uri = spaces[i].uri
      /\ \A i \in DOMAIN spaces : spaces[i].written => more[i].written
      /\ \A i \in DOMAIN spaces : (\E j \in DOMAIN new : new[j] = spaces[i]) => more[i].written
  BY MarkedWrittenFits, Zenon
<1> HIDE DEF more
<1>4. /\ decls \in Seq(Marks) /\ DOMAIN decls = DOMAIN new
      /\ \A k \in DOMAIN new : decls[k].prefix = "xmlns" /\ decls[k].name = new[k].prefix
                               /\ decls[k].value = new[k].uri /\ decls[k].given = Empty /\ decls[k].by = "writer"
  BY <1>1, DeclarationsOfMarks
<1> HIDE DEF decls
<1>5. /\ \A i \in DOMAIN out : i \in DOMAIN longer /\ longer[i] = out[i]
      /\ \A k \in DOMAIN new : n + k \in DOMAIN longer /\ n + k \notin DOMAIN out /\ longer[n + k] = decls[k]
      /\ \A d \in DOMAIN longer : d \in DOMAIN out \/ \E k \in DOMAIN new : d = n + k
  <2>1. decls \in Seq(Marks)
    BY <1>4
  <2>2. Extends(longer, out, decls)
    BY <2>1, JoinedExtends, Zenon
  <2> HIDE DEF longer
  <2> QED BY <1>4, <2>2 DEF Extends
<1> HIDE DEF longer, n
<1>6. ASSUME NEW i \in DOMAIN spaces PROVE more[i].written
  <2>1. CASE ~spaces[i].written
    <3>1. PICK k \in DOMAIN new : f[k] = i
      BY <1>2, <2>1
    <3>2. new[k] = spaces[i]
      BY <1>2, <3>1
    <3> QED BY <1>3, <3>2
  <2> QED BY <1>3, <2>1
<1>7. ASSUME NEW i \in DOMAIN spaces, spaces[i].written
      PROVE  \E d \in DOMAIN longer : DeclaredAt(longer, d, spaces[i].prefix, spaces[i].uri)
  <2> DEFINE p == spaces[i].prefix
  <2>1. PICK d \in DOMAIN out : DeclaredAt(out, d, p, spaces[i].uri)
    BY <1>7 DEF Bound
  <2>2. ASSUME NEW k \in DOMAIN new PROVE decls[k].name # p
    <3>1. f[k] # i
      BY <1>2, <1>7, <2>2
    <3>2. spaces[f[k]].prefix # p
      BY <1>2, <3>1 DEF Once
    <3>3. new[k].prefix = spaces[f[k]].prefix
      BY <1>2
    <3> QED BY <1>4, <3>2, <3>3, Zenon
  <2>3. Decls(longer, p) = Decls(out, p)
    <3>1. ASSUME NEW e \in Decls(longer, p) PROVE e \in Decls(out, p)
      <4>1. e \in DOMAIN longer /\ longer[e].prefix = "xmlns" /\ longer[e].name = p /\ longer[e].by = "writer"
        BY DEF Decls
      <4>2. e \in DOMAIN out
        BY <1>5, <2>2, <4>1
      <4> QED BY <1>5, <4>1, <4>2 DEF Decls
    <3>2. ASSUME NEW e \in Decls(out, p) PROVE e \in Decls(longer, p)
      BY <1>5 DEF Decls
    <3> QED BY <3>1, <3>2
  <2>4. d \in DOMAIN longer /\ DeclaredAt(longer, d, p, spaces[i].uri)
    BY <1>5, <2>1, <2>3 DEF DeclaredAt
  <2> QED BY <2>4
<1>8. ASSUME NEW i \in DOMAIN spaces, ~spaces[i].written
      PROVE  \E d \in DOMAIN longer : DeclaredAt(longer, d, spaces[i].prefix, spaces[i].uri)
  <2> DEFINE p == spaces[i].prefix
  <2>1. Decls(out, p) = {}
    BY <1>8 DEF Bound
  <2>2. PICK k \in DOMAIN new : f[k] = i
    BY <1>2, <1>8
  <2>3. new[k] = spaces[i]
    BY <1>2, <2>2
  <2>4. ASSUME NEW e \in Decls(longer, p) PROVE e = n + k
    <3>1. e \in DOMAIN longer /\ longer[e].prefix = "xmlns" /\ longer[e].name = p /\ longer[e].by = "writer"
      BY DEF Decls
    <3>2. e \notin DOMAIN out
      BY <1>5, <2>1, <3>1 DEF Decls
    <3>3. PICK j \in DOMAIN new : e = n + j
      BY <1>5, <3>1, <3>2
    <3>4. spaces[f[j]].prefix = p
      <4>1. decls[j].name = p
        BY <1>5, <3>1, <3>3, Zenon
      <4>2. new[j].prefix = p
        BY <1>4, <4>1, Zenon
      <4> QED BY <1>2, <4>2, Zenon
    <3>5. f[j] = i
      BY <1>2, <3>4 DEF Once
    <3>6. j = k
      BY <1>2, <2>2, <3>5
    <3> QED BY <3>3, <3>6
  <2>5. n + k \in DOMAIN longer /\ longer[n + k].prefix = "xmlns" /\ longer[n + k].name = p
        /\ longer[n + k].value = spaces[i].uri /\ longer[n + k].by = "writer"
    BY <1>4, <1>5, <2>3
  <2>6. n + k \in Decls(longer, p)
    BY <2>5 DEF Decls
  <2>7. DeclaredAt(longer, n + k, p, spaces[i].uri)
    BY <2>4, <2>5, <2>6 DEF DeclaredAt
  <2> QED BY <2>5, <2>7
<1>9. \A i \in DOMAIN more : more[i].prefix \notin plain
  BY <1>3 DEF Bound
<1>10. \A i \in DOMAIN more : more[i].written
         => \E d \in DOMAIN longer : DeclaredAt(longer, d, more[i].prefix, more[i].uri)
  BY <1>3, <1>7, <1>8
<1>11. \A i \in DOMAIN more : ~more[i].written => Decls(longer, more[i].prefix) = {}
  BY <1>3, <1>6
<1>12. ASSUME NEW d \in DOMAIN longer, longer[d].prefix = "xmlns", longer[d].by = "writer"
       PROVE  \E i \in DOMAIN more : more[i].prefix = longer[d].name
  <2>1. CASE d \in DOMAIN out
    <3>1. longer[d] = out[d]
      BY <1>5, <2>1, Zenon
    <3>2. PICK i \in DOMAIN spaces : spaces[i].prefix = out[d].name
      BY <1>12, <2>1, <3>1 DEF Bound
    <3>3. i \in DOMAIN more /\ more[i].prefix = longer[d].name
      BY <1>3, <3>1, <3>2, Zenon
    <3> QED BY <3>3
  <2>2. CASE \E k \in DOMAIN new : d = n + k
    <3>1. PICK k \in DOMAIN new : d = n + k
      BY <2>2
    <3>2. longer[d].name = spaces[f[k]].prefix
      <4>1. longer[d].name = new[k].prefix
        BY <1>4, <1>5, <3>1, Zenon
      <4> QED BY <1>2, <4>1, Zenon
    <3>3. f[k] \in DOMAIN more /\ more[f[k]].prefix = longer[d].name
      BY <1>2, <1>3, <3>2
    <3> QED BY <3>3
  <2> QED BY <1>5, <2>1, <2>2, Zenon
<1>13. ASSUME NEW d \in DOMAIN longer, longer[d].given # Empty
       PROVE  \E i \in DOMAIN more : more[i].prefix = longer[d].prefix /\ more[i].uri = longer[d].given
  <2>1. d \in DOMAIN out
    <3>1. ASSUME NEW k \in DOMAIN new, d = n + k PROVE FALSE
      BY <1>4, <1>5, <1>13, <3>1, Zenon
    <3> QED BY <1>5, <3>1, Zenon
  <2>2. longer[d] = out[d]
    BY <1>5, <2>1, Zenon
  <2>3. PICK i \in DOMAIN spaces : spaces[i].prefix = out[d].prefix /\ spaces[i].uri = out[d].given
    BY <1>13, <2>1, <2>2 DEF Bound
  <2>4. i \in DOMAIN more /\ more[i].prefix = longer[d].prefix /\ more[i].uri = longer[d].given
    BY <1>3, <2>2, <2>3, Zenon
  <2> QED BY <2>4
<1>14. AllWritten(more)
  BY <1>3, <1>6 DEF AllWritten
<1>15. Bound(more, longer, plain)
  BY <1>9, <1>10, <1>11, <1>12, <1>13 DEF Bound
<1> QED
  BY <1>14, <1>15 DEF new, more, longer, decls

-----------------------------------------------------------------------------
(* The element, whoever makes the calls. *)

(* A call that fits: it registers nothing that is plain.                   *)
Fits(a, plain) ==
  /\ Argument(a)
  /\ a.uri # Empty => a.prefix \notin plain

(* Every attribute that was given a URI has its prefix declared.           *)
Finished(spaces, out) ==
  \A d \in DOMAIN out : out[d].given # Empty => \E i \in DOMAIN spaces : spaces[i].prefix = out[d].prefix /\ spaces[i].written

ElemTyped ==
  elem \in Elems /\ Once(elem.namespaces) /\ tag \in Seq(Marks) /\ err \in BOOLEAN /\ refused \in BOOLEAN

(* What holds of the element and its tag when the calls fit.               *)
Declared(plain) ==
  /\ elem.state = "none" => elem.namespaces = <<>> /\ tag = <<>>
  /\ elem.state = "open" => Bound(elem.namespaces, tag, plain)
  /\ elem.state = "opened" => Bound(elem.namespaces, tag, plain) /\ Finished(elem.namespaces, tag)
  /\ elem.state = "torn" => err /\ refused
  /\ BadUnwritten(elem.namespaces) => refused

(* The parts of an element, and one made of parts.                         *)
LEMMA ElemParts ==
  ASSUME NEW e \in Elems
  PROVE  e.state \in States /\ e.prefix \in AnyPrefix /\ e.uri \in AnyURI /\ e.namespaces \in Seq(Spaces)
BY DEF Elems

(* A new element,                                                          *)
LEMMA ElemOfParts ==
  ASSUME NEW st \in States, NEW p \in AnyPrefix, NEW u \in AnyURI, NEW spaces \in Seq(Spaces)
  PROVE  LET e == [state |-> st, prefix |-> p, uri |-> u, namespaces |-> spaces]
         IN e \in Elems /\ e.state = st /\ e.prefix = p /\ e.namespaces = spaces
BY DEF Elems

(* one in its next state, with other namespaces,                           *)
LEMMA ElemGoesOn ==
  ASSUME NEW e \in Elems, NEW st \in States, NEW spaces \in Seq(Spaces)
  PROVE  LET f == [e EXCEPT !.state = st, !.namespaces = spaces]
         IN f \in Elems /\ f.state = st /\ f.prefix = e.prefix /\ f.namespaces = spaces
BY DEF Elems

(* one that only has other namespaces,                                     *)
LEMMA ElemRegisters ==
  ASSUME NEW e \in Elems, NEW spaces \in Seq(Spaces)
  PROVE  LET f == [e EXCEPT !.namespaces = spaces]
         IN f \in Elems /\ f.state = e.state /\ f.prefix = e.prefix /\ f.namespaces = spaces
BY DEF Elems

(* and one that is torn.                                                   *)
LEMMA ElemTears ==
  ASSUME NEW e \in Elems
  PROVE  LET f == [e EXCEPT !.state = "torn"]
         IN f \in Elems /\ f.state = "torn" /\ f.prefix = e.prefix /\ f.namespaces = e.namespaces
BY DEF Elems, States

(* Sequences of none and of one.                                           *)
LEMMA NoneOrOne ==
  ASSUME NEW S
  PROVE  /\ <<>> \in Seq(S) /\ DOMAIN <<>> = {}
         /\ \A x \in S : <<x>> \in Seq(S) /\ DOMAIN <<x>> = {1} /\ <<x>>[1] = x
<1>1. <<>> \in Seq(S) /\ Len(<<>>) = 0
  OBVIOUS
<1>2. DOMAIN <<>> = {}
  BY <1>1, LenProperties
<1>3. ASSUME NEW x \in S PROVE <<x>> \in Seq(S) /\ DOMAIN <<x>> = {1} /\ <<x>>[1] = x
  OBVIOUS
<1> QED BY <1>1, <1>2, <1>3

(* The element's own namespace and its declaration.                        *)
Own(p, u) == IF p # Empty /\ u # Empty THEN <<Namespace(p, u, TRUE)>> ELSE <<>>

(* The element's own namespace is declared as soon as it is started.       *)
LEMMA OwnFits ==
  ASSUME NEW p \in AnyPrefix, NEW u \in AnyURI, NEW plain, u # Empty => p \notin plain
  PROVE  /\ Own(p, u) \in Seq(Spaces) /\ Once(Own(p, u)) /\ DeclarationsOf(Own(p, u)) \in Seq(Marks)
         /\ AllWritten(Own(p, u)) /\ Bound(Own(p, u), DeclarationsOf(Own(p, u)), plain)
<1> DEFINE own == Own(p, u)
           out == DeclarationsOf(own)
<1>1. CASE ~(p # Empty /\ u # Empty)
  <2>1. own = <<>>
    BY <1>1 DEF Own
  <2> HIDE DEF own
  <2>2. own \in Seq(Spaces) /\ DOMAIN own = {}
    BY <2>1, NoneOrOne
  <2>3. out \in Seq(Marks) /\ DOMAIN out = {}
    BY <2>2, DeclarationsOfMarks
  <2> QED BY <2>2, <2>3 DEF Once, AllWritten, Bound, own, out
<1>2. CASE p # Empty /\ u # Empty
  <2> DEFINE ns == Namespace(p, u, TRUE)
  <2>1. ns \in Spaces /\ ns.prefix = p /\ ns.uri = u /\ ns.written = TRUE
    BY <1>2 DEF Namespace, Spaces, AnyURI
  <2>2. own = <<ns>>
    BY <1>2 DEF Own
  <2> HIDE DEF ns, own
  <2>3. own \in Seq(Spaces) /\ DOMAIN own = {1} /\ own[1] = ns
    BY <2>1, <2>2, NoneOrOne
  <2>4. /\ out \in Seq(Marks) /\ DOMAIN out = DOMAIN own
        /\ \A k \in DOMAIN own : LET m == out[k]
                                 IN m.prefix = "xmlns" /\ m.name = own[k].prefix /\ m.value = own[k].uri
                                    /\ m.given = Empty /\ m.by = "writer"
    BY <2>3, DeclarationsOfMarks, Zenon
  <2> HIDE DEF out
  <2>5. DOMAIN out = {1} /\ out[1].prefix = "xmlns" /\ out[1].name = p /\ out[1].value = u /\ out[1].given = Empty
        /\ out[1].by = "writer"
    BY <2>1, <2>3, <2>4
  <2>6. Decls(out, p) = {1}
    BY <2>5 DEF Decls
  <2>7. DeclaredAt(out, 1, p, u)
    BY <2>5, <2>6 DEF DeclaredAt
  <2>8. Once(own) /\ AllWritten(own)
    BY <2>1, <2>3 DEF Once, AllWritten
  <2>9. \A i \in DOMAIN own : own[i].prefix \notin plain
    BY <1>2, <2>1, <2>3
  <2>10. \A i \in DOMAIN own : own[i].written => \E d \in DOMAIN out : DeclaredAt(out, d, own[i].prefix, own[i].uri)
    BY <2>1, <2>3, <2>5, <2>7
  <2>11. \A i \in DOMAIN own : ~own[i].written => Decls(out, own[i].prefix) = {}
    BY <2>1, <2>3
  <2>12. \A d \in DOMAIN out : out[d].prefix = "xmlns" /\ out[d].by = "writer"
           => \E i \in DOMAIN own : own[i].prefix = out[d].name
    BY <2>1, <2>3, <2>5
  <2>13. \A d \in DOMAIN out : out[d].given # Empty
           => \E i \in DOMAIN own : own[i].prefix = out[d].prefix /\ own[i].uri = out[d].given
    BY <2>5
  <2>14. Bound(own, out, plain)
    BY <2>9, <2>10, <2>11, <2>12, <2>13 DEF Bound
  <2> QED BY <2>3, <2>4, <2>8, <2>14 DEF own, out
<1> QED
  BY <1>1, <1>2

(* Elem.open registers its own namespace and that of an attribute.         *)
LEMMA OpenFits ==
  ASSUME NEW p \in AnyPrefix, NEW u \in AnyURI, NEW plain, u # Empty => p \notin plain,
         NEW attrs, attrs = <<>> \/ \E a : attrs = <<a>> /\ Fits(a, plain)
  PROVE  LET r == Open(p, u, attrs)
         IN /\ r.spaces \in Seq(Spaces) /\ Once(r.spaces) /\ r.out \in Seq(Marks) /\ r.failed \in BOOLEAN
            /\ Bound(r.spaces, r.out, plain) /\ (BadUnwritten(r.spaces) => r.failed = TRUE)
<1> DEFINE own == Own(p, u)
           out == DeclarationsOf(own)
           r == Open(p, u, attrs)
<1>1. own \in Seq(Spaces) /\ Once(own) /\ out \in Seq(Marks) /\ AllWritten(own) /\ Bound(own, out, plain)
  BY OwnFits, Zenon
<1>2. ~BadUnwritten(own)
  BY <1>1 DEF AllWritten, BadUnwritten
<1>3. r = IF attrs = <<>> THEN Result(own, out, FALSE) ELSE Attr(Result(own, out, FALSE), attrs[1])
  BY DEF Open, Own, DeclarationsOf
<1> HIDE DEF own, out, r
<1>4. CASE attrs = <<>>
  <2>1. r = Result(own, out, FALSE)
    BY <1>3, <1>4
  <2>2. r.spaces = own /\ r.out = out /\ r.failed = FALSE
    BY <2>1 DEF Result
  <2> QED BY <1>1, <1>2, <2>2 DEF r
<1>5. CASE \E a : attrs = <<a>> /\ Fits(a, plain)
  <2>1. PICK a : attrs = <<a>> /\ Fits(a, plain)
    BY <1>5
  <2>2. attrs # <<>> /\ attrs[1] = a
    BY <2>1
  <2>3. r = Attr(Result(own, out, FALSE), a)
    BY <1>3, <2>2
  <2>4. Argument(a) /\ (a.uri # Empty => a.prefix \notin plain)
    BY <2>1 DEF Fits
  <2>5. r.spaces \in Seq(Spaces) /\ Once(r.spaces) /\ r.out \in Seq(Marks) /\ r.failed \in BOOLEAN
    BY <1>1, <2>3, <2>4, AttrTypes, Zenon
  <2>6. Bound(r.spaces, r.out, plain)
    BY <1>1, <2>3, <2>4, AttrBound, Zenon
  <2>7. BadUnwritten(r.spaces) => r.failed = TRUE
    BY <1>1, <1>2, <2>3, <2>4, AttrBad, Zenon
  <2> QED BY <2>5, <2>6, <2>7 DEF r
<1> QED
  BY <1>4, <1>5

(* Start keeps it,                                                         *)
LEMMA StartKeeps ==
  ASSUME NEW plain, ElemTyped, Declared(plain), NEW p \in AnyPrefix, NEW u \in AnyURI, u # Empty => p \notin plain,
         NEW attrs, attrs = <<>> \/ \E a : attrs = <<a>> /\ Fits(a, plain), Start(p, u, attrs)
  PROVE  ElemTyped' /\ Declared(plain)'
<1>1. elem \in Elems /\ elem.state = "none" /\ Once(elem.namespaces) /\ tag \in Seq(Marks)
  BY DEF ElemTyped, Start
<1>2. CASE p = "bad"
  <2>1. elem' = [elem EXCEPT !.state = "torn"] /\ err' = TRUE /\ refused' = TRUE /\ tag' = tag
    BY <1>2 DEF Start
  <2>2. elem' \in Elems /\ elem'.state = "torn" /\ elem'.namespaces = elem.namespaces
    BY <1>1, <2>1, ElemTears
  <2> QED BY <1>1, <2>1, <2>2 DEF ElemTyped, Declared
<1>3. CASE p # "bad"
  <2> DEFINE r == Open(p, u, attrs)
  <2>1. /\ r.spaces \in Seq(Spaces) /\ Once(r.spaces) /\ r.out \in Seq(Marks) /\ r.failed \in BOOLEAN
        /\ Bound(r.spaces, r.out, plain) /\ (BadUnwritten(r.spaces) => r.failed = TRUE)
    BY OpenFits, Zenon
  <2>2. /\ elem' = [state |-> "open", prefix |-> p, uri |-> u, namespaces |-> r.spaces]
        /\ tag' = r.out /\ err' = r.failed /\ refused' = r.failed
    BY <1>3, Zenon DEF Start
  <2> HIDE DEF r
  <2>3. "open" \in States
    BY DEF States
  <2>4. elem' \in Elems /\ elem'.state = "open" /\ elem'.namespaces = r.spaces
    BY <2>1, <2>2, <2>3, ElemOfParts
  <2>5. ElemTyped'
    BY <2>1, <2>2, <2>4 DEF ElemTyped
  <2>6. Declared(plain)'
    BY <2>1, <2>2, <2>4 DEF Declared
  <2> QED BY <2>5, <2>6
<1> QED
  BY <1>2, <1>3

(* Attr.write keeps it,                                                    *)
LEMMA WriteAttrKeeps ==
  ASSUME NEW plain, ElemTyped, Declared(plain), NEW a, Fits(a, plain), WriteAttr(a)
  PROVE  ElemTyped' /\ Declared(plain)'
<1> DEFINE r == Attr(Result(elem.namespaces, tag, FALSE), a)
<1>1. elem \in Elems /\ elem.state \in {"open", "opened"}
  BY DEF ElemTyped, WriteAttr
<1>2. elem.namespaces \in Seq(Spaces) /\ Once(elem.namespaces) /\ tag \in Seq(Marks) /\ refused \in BOOLEAN
  BY <1>1, ElemParts DEF ElemTyped
<1>3. Bound(elem.namespaces, tag, plain)
  BY <1>1 DEF Declared
<1>4. Argument(a) /\ (a.uri # Empty => a.prefix \notin plain)
  BY DEF Fits
<1>5. r.spaces \in Seq(Spaces) /\ Once(r.spaces) /\ r.out \in Seq(Marks) /\ r.failed \in BOOLEAN
  BY <1>2, <1>4, AttrTypes, Zenon
<1>6. Bound(r.spaces, r.out, plain) /\ Bound(r.spaces, tag, plain)
  BY <1>2, <1>3, <1>4, AttrBound, Zenon
<1>7. BadUnwritten(r.spaces) => BadUnwritten(elem.namespaces) \/ r.failed = TRUE
  BY <1>2, <1>4, AttrBad, Zenon
<1>8. \A i \in DOMAIN elem.namespaces : i \in DOMAIN r.spaces /\ r.spaces[i] = elem.namespaces[i]
  <2> DEFINE more == Append(elem.namespaces, SpaceOf(a))
  <2>1. r.spaces = elem.namespaces \/ (a.uri # Empty /\ r.spaces = more)
    BY AttrSpaces, Zenon
  <2> HIDE DEF r
  <2>2. CASE a.uri # Empty /\ r.spaces = more
    <3>1. SpaceOf(a) \in Spaces
      BY <1>4, <2>2, SpaceOfIsSpace
    <3>2. \A i \in DOMAIN elem.namespaces : i \in DOMAIN more /\ more[i] = elem.namespaces[i]
      BY <1>2, <3>1, LastAdded, Zenon
    <3> HIDE DEF more
    <3> QED BY <2>2, <3>2
  <2> QED BY <2>1, <2>2
<1>9. /\ elem' = [elem EXCEPT !.namespaces = r.spaces]
      /\ tag' = IF elem.state = "open" THEN r.out ELSE tag
      /\ err' = r.failed /\ refused' = (refused \/ r.failed)
  BY Zenon DEF WriteAttr
<1> HIDE DEF r
<1>10. elem' \in Elems /\ elem'.state = elem.state /\ elem'.namespaces = r.spaces
  BY <1>1, <1>5, <1>9, ElemRegisters
<1>11. tag' = r.out \/ (elem.state = "opened" /\ tag' = tag)
  BY <1>1, <1>9
<1>12. ElemTyped'
  <2>1. refused' \in BOOLEAN
    BY <1>2, <1>5, <1>9
  <2> QED BY <1>2, <1>5, <1>9, <1>10, <1>11, <2>1 DEF ElemTyped
<1>13. elem'.state = "open" => Bound(elem'.namespaces, tag', plain)
  BY <1>6, <1>10, <1>11
<1>14. elem'.state = "opened" => Bound(elem'.namespaces, tag', plain) /\ Finished(elem'.namespaces, tag')
  <2>1. ASSUME elem.state = "opened" PROVE tag' = tag /\ Finished(elem.namespaces, tag)
    BY <1>9, <2>1 DEF Declared
  <2>2. ASSUME Finished(elem.namespaces, tag) PROVE Finished(r.spaces, tag)
    BY <1>8, <2>2 DEF Finished
  <2> QED BY <1>6, <1>10, <2>1, <2>2
<1>15. BadUnwritten(elem'.namespaces) => refused'
  BY <1>2, <1>5, <1>7, <1>9, <1>10 DEF Declared
<1>16. elem'.state # "none" /\ elem'.state # "torn"
  BY <1>1, <1>10
<1> QED
  BY <1>12, <1>13, <1>14, <1>15, <1>16 DEF Declared

(* and so does Elem.opened.                                                *)
LEMMA OpenedKeeps ==
  ASSUME NEW plain, ElemTyped, Declared(plain), Opened
  PROVE  ElemTyped' /\ Declared(plain)'
<1> DEFINE spaces == elem.namespaces
           new  == Unwritten(spaces)
           bads == {i \in DOMAIN new : ~CheckName(new[i].prefix, Empty)}
           good == IF bads = {} THEN new
                   ELSE SubSeq(new, 1, (CHOOSE i \in bads : \A j \in bads : i <= j) - 1)
           more == MarkedWritten(spaces, good)
           now == IF bads = {} THEN "opened" ELSE "torn"
<1>1. elem \in Elems /\ elem.state = "open"
  BY DEF ElemTyped, Opened
<1>2. spaces \in Seq(Spaces) /\ Once(spaces) /\ tag \in Seq(Marks) /\ refused \in BOOLEAN
  BY <1>1, ElemParts DEF ElemTyped
<1>3. Bound(spaces, tag, plain)
  BY <1>1 DEF Declared
<1>4. /\ tag' = tag \o DeclarationsOf(good)
      /\ elem' = [elem EXCEPT !.state = now, !.namespaces = more]
      /\ err' = (bads # {}) /\ refused' = refused
  BY Zenon DEF Opened, MarkedWritten, DeclarationsOf
<1>5. now \in States
  BY DEF States
<1>6. new \in Seq(Spaces) /\ Len(new) \in Nat /\ DOMAIN new = 1 .. Len(new)
  BY <1>2, UnwrittenSelects
<1>7. bads # {} => BadUnwritten(spaces)
  <2>1. PICK f \in [DOMAIN new -> DOMAIN spaces] : \A k \in DOMAIN new : new[k] = spaces[f[k]] /\ ~spaces[f[k]].written
    BY <1>2, UnwrittenSelects
  <2>2. ASSUME NEW i \in DOMAIN new, ~CheckName(new[i].prefix, Empty) PROVE BadUnwritten(spaces)
    <3>1. new[i].prefix = "bad"
      BY <2>2, Zenon DEF CheckName, Empty
    <3> HIDE DEF spaces, new
    <3> QED BY <2>1, <3>1 DEF BadUnwritten
  <2> QED BY <2>2
<1>8. good \in Seq(Spaces)
  <2>1. CASE bads # {}
    <3> DEFINE m == CHOOSE i \in bads : \A j \in bads : i <= j
    <3>1. m \in bads
      <4>1. bads \subseteq Nat
        <5>1. bads \subseteq DOMAIN new
          OBVIOUS
        <5> HIDE DEF bads, new
        <5> QED BY <1>6, <5>1
      <4>2. \E i \in bads : \A j \in bads : i <= j
        <5> HIDE DEF bads
        <5> QED BY <2>1, <4>1, LeastNatural
      <4> HIDE DEF bads
      <4> QED BY <4>2
    <3>2. m \in 1 .. Len(new)
      <4> HIDE DEF m
      <4> QED BY <1>6, <3>1
    <3>3. good = SubSeq(new, 1, m - 1)
      BY <2>1
    <3> HIDE DEF good, m, new
    <3>4. m - 1 \in 0 .. Len(new) /\ \A i \in 1 .. m - 1 : new[i] \in Spaces
      BY <1>6, <3>2, ElementOfSeq
    <3>5. SubSeq(new, 1, m - 1) \in Seq(Spaces)
      BY <1>6, <3>4, SubSeqProperties
    <3> QED BY <3>3, <3>5
  <2>2. CASE bads = {}
    BY <1>6, <2>2
  <2> QED BY <2>1, <2>2
<1>9. more \in Seq(Spaces) /\ Once(more) /\ (BadUnwritten(more) => BadUnwritten(spaces))
  BY <1>2, MarkedWrittenFits, Zenon
<1>10. bads = {} => AllWritten(more) /\ Bound(more, tag \o DeclarationsOf(good), plain)
  <2>1. ASSUME bads = {} PROVE good = new
    BY <2>1
  <2>2. AllWritten(MarkedWritten(spaces, new)) /\ Bound(MarkedWritten(spaces, new), tag \o DeclarationsOf(new), plain)
    BY <1>2, <1>3, OpenedBound, Zenon
  <2> HIDE DEF bads, good, new
  <2> QED BY <2>1, <2>2, Zenon
<1>11. tag \o DeclarationsOf(good) \in Seq(Marks)
  <2> HIDE DEF good
  <2>1. DeclarationsOf(good) \in Seq(Marks)
    BY <1>8, DeclarationsOfMarks
  <2> QED BY <1>2, <2>1, Joined
<1>12. now = (IF bads = {} THEN "opened" ELSE "torn") /\ (bads # {}) \in BOOLEAN
  OBVIOUS
<1> HIDE DEF more, good, bads, now, new
<1>13. elem' \in Elems /\ elem'.state = now /\ elem'.namespaces = more
  <2> DEFINE e == [elem EXCEPT !.state = now, !.namespaces = more]
  <2>1. more \in Seq(Spaces)
    BY <1>9
  <2>2. e \in Elems
    BY <1>1, <1>5, <2>1, ElemGoesOn, Zenon
  <2>3. e.state = now /\ e.namespaces = more
    BY <1>1 DEF Elems
  <2>4. elem' = e
    BY <1>4
  <2> HIDE DEF e
  <2> QED BY <2>2, <2>3, <2>4
<1>14. ElemTyped'
  BY <1>2, <1>4, <1>9, <1>11, <1>12, <1>13 DEF ElemTyped
<1>15. BadUnwritten(elem'.namespaces) => refused'
  BY <1>4, <1>9, <1>13 DEF Declared
<1>16. CASE bads = {}
  <2>1. Finished(more, tag')
    <3>1. AllWritten(more) /\ Bound(more, tag', plain)
      BY <1>4, <1>10, <1>16
    <3> QED BY <3>1 DEF AllWritten, Finished, Bound
  <2>2. elem'.state = "opened" /\ Bound(elem'.namespaces, tag', plain) /\ Finished(elem'.namespaces, tag')
    BY <1>4, <1>10, <1>12, <1>13, <1>16, <2>1
  <2> QED BY <1>14, <1>15, <2>2 DEF Declared
<1>17. CASE bads # {}
  <2>1. elem'.state = "torn" /\ err' /\ refused'
    BY <1>4, <1>7, <1>12, <1>13, <1>17 DEF Declared
  <2> QED BY <1>14, <1>15, <2>1 DEF Declared
<1> QED
  BY <1>16, <1>17

-----------------------------------------------------------------------------
(* What xml_elem_start makes of a start tag. *)

(* An attribute is a declaration or it is not.                             *)
LEMMA AttsAre ==
  ASSUME NEW a \in Atts
  PROVE  /\ a = Att(a.prefix, a.name, a.value)
         /\ IsNs(a) => a.prefix = "xmlns" /\ a.name \in NsPrefixes /\ a.value \in URIs
         /\ ~IsNs(a) => a.prefix \in NsPrefixes \cup {Empty} /\ a.name \in Names /\ a.value = Empty
<1>1. a = Att(a.prefix, a.name, a.value)
  BY DEF Atts, Att
<1>2. ASSUME IsNs(a) PROVE a.prefix = "xmlns" /\ a.name \in NsPrefixes /\ a.value \in URIs
  <2>1. a.prefix = "xmlns" /\ "xmlns" \notin NsPrefixes
    BY <1>2, NamespacesAssumption DEF IsNs
  <2>2. Empty # "xmlns"
    BY Zenon DEF Empty
  <2> QED BY <2>1, <2>2 DEF Atts
<1>3. ASSUME ~IsNs(a) PROVE a.prefix \in NsPrefixes \cup {Empty} /\ a.name \in Names /\ a.value = Empty
  BY <1>3 DEF Atts, IsNs
<1> QED
  BY <1>1, <1>2, <1>3

(* The parts of a start tag.                                               *)
LEMMA StartTagsAre ==
  ASSUME NEW t \in StartTags
  PROVE  /\ t.prefix \in NsPrefixes \cup {Empty} /\ t.atts \in Seq(Atts) /\ Distinct(t.atts)
         /\ \A k \in DOMAIN t.atts : t.atts[k] \in Atts
<1>1. t.prefix \in NsPrefixes \cup {Empty} /\ Distinct(t.atts) /\ t.atts \in UNION {[1 .. n -> Atts] : n \in 0 .. MaxAttrs}
  BY DEF StartTags
<1>2. PICK n \in 0 .. MaxAttrs : t.atts \in [1 .. n -> Atts]
  BY <1>1
<1>3. n \in Nat
  <2>1. MaxAttrs \in Nat
    BY NamespacesAssumption, Zenon
  <2> QED BY <2>1
<1>4. t.atts \in Seq(Atts)
  BY <1>2, <1>3, SeqDef
<1> QED
  BY <1>1, <1>2, <1>4

(* The declaration of a prefix is the only one, and has its URI.           *)
LEMMA NsURIDeclares ==
  ASSUME NEW t \in StartTags, NEW p, NsAt(t, p) # {}
  PROVE  /\ p \in NsPrefixes /\ NsURI(t, p) \in URIs
         /\ \E k \in DOMAIN t.atts : t.atts[k] = Att("xmlns", p, NsURI(t, p))
         /\ \A k \in DOMAIN t.atts : IsNs(t.atts[k]) /\ t.atts[k].name = p => t.atts[k] = Att("xmlns", p, NsURI(t, p))
<1> DEFINE k == CHOOSE i \in NsAt(t, p) : TRUE
<1>1. k \in NsAt(t, p)
  OBVIOUS
<1>2. NsURI(t, p) = t.atts[k].value
  BY DEF NsURI
<1> HIDE DEF k
<1>3. k \in DOMAIN t.atts /\ IsNs(t.atts[k]) /\ t.atts[k].name = p
  BY <1>1 DEF NsAt
<1>4. t.atts[k] = Att(t.atts[k].prefix, t.atts[k].name, t.atts[k].value)
  BY <1>3, StartTagsAre, AttsAre
<1>5. t.atts[k].prefix = "xmlns" /\ p \in NsPrefixes /\ t.atts[k].value \in URIs
  BY <1>3, StartTagsAre, AttsAre
<1>6. t.atts[k] = Att("xmlns", p, NsURI(t, p))
  BY <1>2, <1>3, <1>4, <1>5
<1>7. ASSUME NEW i \in DOMAIN t.atts, IsNs(t.atts[i]), t.atts[i].name = p PROVE i = k
  <2>1. Distinct(t.atts)
    BY StartTagsAre
  <2> QED BY <1>3, <1>5, <1>7, <2>1 DEF Distinct, IsNs
<1> QED
  BY <1>2, <1>3, <1>5, <1>6, <1>7

(* AsOf has the attributes that declare nothing,                           *)
LEMMA AsOfSelects ==
  ASSUME NEW t \in StartTags
  PROVE  LET used == AsOf(t)
         IN /\ used \in Seq(Atts) /\ Len(used) \in Nat /\ DOMAIN used = 1 .. Len(used)
            /\ \E f \in [DOMAIN used -> DOMAIN t.atts] :
                 /\ \A k \in DOMAIN used : used[k] = t.atts[f[k]] /\ ~IsNs(t.atts[f[k]])
                 /\ \A j, k \in DOMAIN used : f[j] = f[k] => j = k
                 /\ \A i \in DOMAIN t.atts : ~IsNs(t.atts[i]) => \E k \in DOMAIN used : f[k] = i
<1> DEFINE places == {i \in DOMAIN t.atts : ~IsNs(t.atts[i])}
           used == AsOf(t)
<1>1. places \subseteq DOMAIN t.atts /\ used = At(t.atts, places)
  BY DEF AsOf
<1>2. \A i \in places : i \in DOMAIN t.atts /\ ~IsNs(t.atts[i])
  OBVIOUS
<1>3. \A i \in DOMAIN t.atts : ~IsNs(t.atts[i]) => i \in places
  OBVIOUS
<1>4. t.atts \in Seq(Atts)
  BY StartTagsAre
<1> HIDE DEF places, used
<1>5. used \in Seq(Atts) /\ Len(used) \in Nat /\ DOMAIN used = 1 .. Len(used) /\ Selection(used, t.atts, places)
  BY <1>1, <1>4, AtSelects, Zenon
<1>6. PICK f \in [DOMAIN used -> places] :
        /\ \A k \in DOMAIN used : used[k] = t.atts[f[k]]
        /\ \A j, k \in DOMAIN used : f[j] = f[k] => j = k
        /\ \A i \in places : \E k \in DOMAIN used : f[k] = i
  BY <1>5, Zenon DEF Selection
<1>7. f \in [DOMAIN used -> DOMAIN t.atts]
  BY <1>1, <1>6
<1>8. \A k \in DOMAIN used : used[k] = t.atts[f[k]] /\ ~IsNs(t.atts[f[k]])
  BY <1>2, <1>6
<1>9. \A i \in DOMAIN t.atts : ~IsNs(t.atts[i]) => \E k \in DOMAIN used : f[k] = i
  BY <1>3, <1>6
<1>10. \E g \in [DOMAIN used -> DOMAIN t.atts] :
         /\ \A k \in DOMAIN used : used[k] = t.atts[g[k]] /\ ~IsNs(t.atts[g[k]])
         /\ \A j, k \in DOMAIN used : g[j] = g[k] => j = k
         /\ \A i \in DOMAIN t.atts : ~IsNs(t.atts[i]) => \E k \in DOMAIN used : g[k] = i
  BY <1>6, <1>7, <1>8, <1>9
<1> QED
  BY <1>5, <1>10 DEF used

(* NsOf the declarations of other prefixes than the element's,             *)
LEMMA NsOfSelects ==
  ASSUME NEW t \in StartTags
  PROVE  LET ns == NsOf(t)
             Other(i) == IsNs(t.atts[i]) /\ t.atts[i].name # t.prefix
         IN /\ ns \in Seq(Atts) /\ Len(ns) \in Nat /\ DOMAIN ns = 1 .. Len(ns)
            /\ \E f \in [DOMAIN ns -> DOMAIN t.atts] :
                 /\ \A k \in DOMAIN ns : ns[k] = t.atts[f[k]] /\ Other(f[k])
                 /\ \A j, k \in DOMAIN ns : f[j] = f[k] => j = k
                 /\ \A i \in DOMAIN t.atts : Other(i) => \E k \in DOMAIN ns : f[k] = i
<1> DEFINE Other(i) == IsNs(t.atts[i]) /\ t.atts[i].name # t.prefix
           places == {i \in DOMAIN t.atts : Other(i)}
           ns == NsOf(t)
<1>1. places \subseteq DOMAIN t.atts /\ ns = At(t.atts, places)
  BY DEF NsOf
<1>2. \A i \in places : i \in DOMAIN t.atts /\ Other(i)
  OBVIOUS
<1>3. \A i \in DOMAIN t.atts : Other(i) => i \in places
  OBVIOUS
<1>4. t.atts \in Seq(Atts)
  BY StartTagsAre
<1> HIDE DEF places, ns
<1>5. ns \in Seq(Atts) /\ Len(ns) \in Nat /\ DOMAIN ns = 1 .. Len(ns) /\ Selection(ns, t.atts, places)
  BY <1>1, <1>4, AtSelects, Zenon
<1>6. PICK f \in [DOMAIN ns -> places] :
        /\ \A k \in DOMAIN ns : ns[k] = t.atts[f[k]]
        /\ \A j, k \in DOMAIN ns : f[j] = f[k] => j = k
        /\ \A i \in places : \E k \in DOMAIN ns : f[k] = i
  BY <1>5, Zenon DEF Selection
<1>7. f \in [DOMAIN ns -> DOMAIN t.atts]
  BY <1>1, <1>6
<1>8. \A k \in DOMAIN ns : ns[k] = t.atts[f[k]] /\ Other(f[k])
  BY <1>2, <1>6
<1>9. \A i \in DOMAIN t.atts : Other(i) => \E k \in DOMAIN ns : f[k] = i
  BY <1>3, <1>6
<1>10. \E g \in [DOMAIN ns -> DOMAIN t.atts] :
         /\ \A k \in DOMAIN ns : ns[k] = t.atts[g[k]] /\ Other(g[k])
         /\ \A j, k \in DOMAIN ns : g[j] = g[k] => j = k
         /\ \A i \in DOMAIN t.atts : Other(i) => \E k \in DOMAIN ns : g[k] = i
  BY <1>6, <1>7, <1>8, <1>9
<1> QED
  BY <1>5, <1>10 DEF ns

(* and Unclaimed those of the plain prefixes.                              *)
LEMMA UnclaimedSelects ==
  ASSUME NEW t \in StartTags
  PROVE  LET un == Unclaimed(t)
             IsPlain(i) == IsNs(t.atts[i]) /\ t.atts[i].name \in Plain(t)
         IN /\ un \in Seq(Atts) /\ Len(un) \in Nat /\ DOMAIN un = 1 .. Len(un)
            /\ \E g \in [DOMAIN un -> DOMAIN t.atts] :
                 /\ \A k \in DOMAIN un : un[k] = t.atts[g[k]] /\ IsPlain(g[k])
                 /\ \A j, k \in DOMAIN un : g[j] = g[k] => j = k
                 /\ \A i \in DOMAIN t.atts : IsPlain(i) => \E k \in DOMAIN un : g[k] = i
<1> DEFINE ns == NsOf(t)
           used == AsOf(t)
           IsPlain(i) == IsNs(t.atts[i]) /\ t.atts[i].name \in Plain(t)
           places == {j \in DOMAIN ns : \A i \in DOMAIN used : used[i].prefix # ns[j].name}
           un == Unclaimed(t)
<1>1. places \subseteq DOMAIN ns /\ un = At(ns, places)
  BY DEF Unclaimed
<1>2. ns \in Seq(Atts) /\ used \in Seq(Atts)
  BY NsOfSelects, AsOfSelects
<1>3. PICK f \in [DOMAIN ns -> DOMAIN t.atts] :
        /\ \A k \in DOMAIN ns : ns[k] = t.atts[f[k]] /\ IsNs(t.atts[f[k]]) /\ t.atts[f[k]].name # t.prefix
        /\ \A j, k \in DOMAIN ns : f[j] = f[k] => j = k
        /\ \A i \in DOMAIN t.atts : IsNs(t.atts[i]) /\ t.atts[i].name # t.prefix => \E k \in DOMAIN ns : f[k] = i
  BY NsOfSelects
<1>4. PICK h \in [DOMAIN used -> DOMAIN t.atts] :
        /\ \A k \in DOMAIN used : used[k] = t.atts[h[k]] /\ ~IsNs(t.atts[h[k]])
        /\ \A i \in DOMAIN t.atts : ~IsNs(t.atts[i]) => \E k \in DOMAIN used : h[k] = i
  BY AsOfSelects
<1> HIDE DEF ns, used, un
<1>5. ASSUME NEW j \in places PROVE j \in DOMAIN ns /\ IsPlain(f[j])
  <2> DEFINE p == ns[j].name
  <2>1. j \in DOMAIN ns /\ \A i \in DOMAIN used : used[i].prefix # p
    OBVIOUS
  <2>2. f[j] \in DOMAIN t.atts /\ IsNs(t.atts[f[j]]) /\ p = t.atts[f[j]].name /\ p # t.prefix
    BY <1>3, <2>1
  <2> HIDE DEF p, places
  <2>3. p \in NsPrefixes /\ NsAt(t, p) # {}
    <3>1. p \in NsPrefixes
      BY <2>2, StartTagsAre, AttsAre
    <3>2. f[j] \in NsAt(t, p)
      BY <2>2 DEF NsAt
    <3> QED BY <3>1, <3>2
  <2>4. ASSUME NEW i \in DOMAIN t.atts PROVE t.atts[i].prefix # p
    <3>1. CASE IsNs(t.atts[i])
      BY <2>3, <3>1, NamespacesAssumption DEF IsNs
    <3>2. CASE ~IsNs(t.atts[i])
      <4>1. PICK k \in DOMAIN used : h[k] = i
        BY <1>4, <3>2
      <4>2. used[k] = t.atts[i]
        BY <1>4, <4>1
      <4> QED BY <2>1, <4>2
    <3> QED BY <3>1, <3>2
  <2>5. p \in Plain(t)
    BY <2>2, <2>3, <2>4 DEF Plain
  <2> QED BY <2>1, <2>2, <2>5
<1>6. ASSUME NEW i \in DOMAIN t.atts, IsPlain(i) PROVE \E j \in places : f[j] = i
  <2>1. t.atts[i].name # t.prefix /\ \A k \in DOMAIN t.atts : t.atts[k].prefix # t.atts[i].name
    BY <1>6 DEF Plain
  <2>2. PICK j \in DOMAIN ns : f[j] = i
    BY <1>3, <1>6, <2>1
  <2>3. ns[j] = t.atts[i]
    BY <1>3, <2>2
  <2>4. ASSUME NEW k \in DOMAIN used PROVE used[k].prefix # ns[j].name
    <3>1. h[k] \in DOMAIN t.atts /\ used[k] = t.atts[h[k]]
      BY <1>4
    <3> QED BY <2>1, <2>3, <3>1
  <2> QED BY <2>2, <2>4
<1>7. un \in Seq(Atts) /\ Len(un) \in Nat /\ DOMAIN un = 1 .. Len(un) /\ Selection(un, ns, places)
  <2> HIDE DEF places
  <2> QED BY <1>1, <1>2, AtSelects, Zenon
<1>8. PICK e \in [DOMAIN un -> places] :
        /\ \A k \in DOMAIN un : un[k] = ns[e[k]]
        /\ \A j, k \in DOMAIN un : e[j] = e[k] => j = k
        /\ \A i \in places : \E k \in DOMAIN un : e[k] = i
  <2> HIDE DEF places
  <2> QED BY <1>7, Zenon DEF Selection
<1> DEFINE g == [k \in DOMAIN un |-> f[e[k]]]
<1> HIDE DEF places, IsPlain
<1>9. g \in [DOMAIN un -> DOMAIN t.atts]
  BY <1>1, <1>3, <1>8
<1>10. \A k \in DOMAIN un : un[k] = t.atts[g[k]] /\ IsPlain(g[k])
  BY <1>3, <1>5, <1>8
<1>11. \A j, k \in DOMAIN un : g[j] = g[k] => j = k
  BY <1>1, <1>3, <1>8
<1>12. ASSUME NEW i \in DOMAIN t.atts, IsPlain(i) PROVE \E k \in DOMAIN un : g[k] = i
  <2>1. PICK j \in places : f[j] = i
    BY <1>6, <1>12
  <2>2. PICK k \in DOMAIN un : e[k] = j
    BY <1>8
  <2> QED BY <2>1, <2>2
<1> HIDE DEF g
<1>13. \E f2 \in [DOMAIN un -> DOMAIN t.atts] :
         /\ \A k \in DOMAIN un : un[k] = t.atts[f2[k]] /\ IsPlain(f2[k])
         /\ \A j, k \in DOMAIN un : f2[j] = f2[k] => j = k
         /\ \A i \in DOMAIN t.atts : IsPlain(i) => \E k \in DOMAIN un : f2[k] = i
  BY <1>9, <1>10, <1>11, <1>12
<1> QED
  BY <1>7, <1>13 DEF IsPlain, un

(* The three kinds of calls that a script is made of.                      *)
StartCall(t) == Call("start", t.prefix, "e", ElemURI(t), Empty)
AttrCall(t, i) == LET a == AsOf(t)[i] IN Call("attr", a.prefix, a.name, Claimed(t, i), a.value)
DeclCall(t, j) == Call("attr", "xmlns", Unclaimed(t)[j].name, Empty, Unclaimed(t)[j].value)

(* A call that may be left to be made.                                     *)
CallFits(c, plain) ==
  /\ c \in Calls /\ c.prefix # "bad" /\ c.name # "bad"
  /\ c.op = "start" => c.prefix \in AnyPrefix
  /\ c.prefix = "xmlns" => c.uri = Empty /\ c.name \in plain
  /\ c.uri # Empty => c.prefix \in NsPrefixes /\ c.prefix \notin plain

(* Such calls are typed.                                                   *)
LEMMA CallTyped ==
  ASSUME NEW op \in {"start", "attr"}, NEW p \in NsPrefixes \cup {Empty, "xmlns"}, NEW n \in Names \cup NsPrefixes \cup {"e"},
         NEW u \in AnyURI, NEW v \in AnyURI
  PROVE  Call(op, p, n, u, v) \in Calls
BY DEF Call, Calls, AnyPrefix, LocalNames

(* An attribute claims the declaration of its prefix if it is the first.   *)
LEMMA ClaimedIs ==
  ASSUME NEW t \in StartTags, NEW i \in DOMAIN AsOf(t), Claimed(t, i) # Empty
  PROVE  LET p == AsOf(t)[i].prefix
         IN /\ p # t.prefix /\ NsAt(t, p) # {} /\ Claimed(t, i) = NsURI(t, p)
            /\ \A j \in 1 .. i - 1 : AsOf(t)[j].prefix # p
BY DEF Claimed

(* What is claimed is a URI or nothing.                                    *)
LEMMA ClaimedFits ==
  ASSUME NEW t \in StartTags, NEW i \in DOMAIN AsOf(t)
  PROVE  Claimed(t, i) \in AnyURI
<1>1. CASE Claimed(t, i) = Empty
  BY <1>1 DEF AnyURI
<1>2. CASE Claimed(t, i) # Empty
  <2> DEFINE p == AsOf(t)[i].prefix
  <2>1. NsAt(t, p) # {} /\ Claimed(t, i) = NsURI(t, p)
    BY <1>2, ClaimedIs, Zenon
  <2> HIDE DEF p
  <2>2. Claimed(t, i) \in URIs
    BY <2>1, NsURIDeclares
  <2> QED BY <2>2 DEF AnyURI
<1> QED BY <1>1, <1>2

(* No two claim the same,                                                  *)
LEMMA OneClaims ==
  ASSUME NEW t \in StartTags, NEW i \in DOMAIN AsOf(t), NEW j \in DOMAIN AsOf(t),
         Claimed(t, i) # Empty, Claimed(t, j) # Empty, AsOf(t)[i].prefix = AsOf(t)[j].prefix
  PROVE  i = j
<1> DEFINE used == AsOf(t)
<1>1. Len(used) \in Nat /\ DOMAIN used = 1 .. Len(used)
  BY AsOfSelects
<1>2. /\ \A k \in 1 .. i - 1 : used[k].prefix # used[i].prefix
      /\ \A k \in 1 .. j - 1 : used[k].prefix # used[j].prefix
      /\ i \in DOMAIN used /\ j \in DOMAIN used /\ used[i].prefix = used[j].prefix
  BY ClaimedIs, Zenon
<1> HIDE DEF used
<1>3. i \in Nat /\ j \in Nat /\ i >= 1 /\ j >= 1
  BY <1>1, <1>2
<1>4. i < j => i \in 1 .. j - 1
  BY <1>3
<1>5. j < i => j \in 1 .. i - 1
  BY <1>3
<1>6. i < j \/ j < i \/ i = j
  BY <1>3
<1> QED
  BY <1>2, <1>4, <1>5, <1>6, Zenon

(* and what is used is claimed.                                            *)
LEMMA SomeoneClaims ==
  ASSUME NEW t \in StartTags, NEW i \in DOMAIN AsOf(t), AsOf(t)[i].prefix # t.prefix, NsAt(t, AsOf(t)[i].prefix) # {}
  PROVE  \E k \in DOMAIN AsOf(t) : AsOf(t)[k].prefix = AsOf(t)[i].prefix /\ Claimed(t, k) = NsURI(t, AsOf(t)[i].prefix)
<1> DEFINE used == AsOf(t)
           p == used[i].prefix
           T == {k \in DOMAIN used : used[k].prefix = p}
<1>1. Len(used) \in Nat /\ DOMAIN used = 1 .. Len(used)
  BY AsOfSelects
<1> HIDE DEF used
<1>2. i \in T
  BY DEF used
<1>3. T \subseteq Nat
  <2>1. T \subseteq DOMAIN used
    OBVIOUS
  <2> HIDE DEF T
  <2>2. DOMAIN used \subseteq Nat
    BY <1>1
  <2> QED BY <2>1, <2>2
<1>4. PICK k \in T : \A j \in T : k <= j
  <2> HIDE DEF T
  <2> QED BY <1>2, <1>3, LeastNatural
<1>5. k \in DOMAIN used /\ used[k].prefix = p
  OBVIOUS
<1>6. ASSUME NEW j \in 1 .. k - 1 PROVE used[j].prefix # p
  <2>1. j \in DOMAIN used /\ ~(k <= j)
    <3> HIDE DEF T
    <3>1. k \in DOMAIN used
      BY <1>5
    <3>2. j \in 1 .. k - 1
      OBVIOUS
    <3>3. k \in 1 .. Len(used)
      BY <1>1, <3>1
    <3>4. j \in 1 .. Len(used) /\ ~(k <= j)
      BY <1>1, <3>2, <3>3
    <3> QED BY <1>1, <3>4
  <2> QED BY <1>4, <2>1
<1>7. p # t.prefix /\ NsAt(t, p) # {}
  BY DEF used
<1> HIDE DEF p
<1>8. Claimed(t, k) = NsURI(t, p)
  BY <1>5, <1>6, <1>7, Zenon DEF Claimed, used
<1> QED
  BY <1>5, <1>8 DEF p, used

(* Where the calls are in the script.                                      *)
ScriptPlaces(t, calls) ==
  /\ 1 \in DOMAIN calls /\ calls[1] = StartCall(t)
  /\ \A i \in DOMAIN AsOf(t) : 1 + i \in DOMAIN calls /\ calls[1 + i] = AttrCall(t, i)
  /\ \A j \in DOMAIN Unclaimed(t) : (1 + Len(AsOf(t))) + j \in DOMAIN calls /\ calls[(1 + Len(AsOf(t))) + j] = DeclCall(t, j)
  /\ \A d \in DOMAIN calls : \/ d = 1
                             \/ \E i \in DOMAIN AsOf(t) : d = 1 + i
                             \/ \E j \in DOMAIN Unclaimed(t) : d = (1 + Len(AsOf(t))) + j

(* Every call that xml_elem_start makes may be made.                       *)
LEMMA CallsFit ==
  ASSUME NEW t \in StartTags
  PROVE  /\ CallFits(StartCall(t), Plain(t))
         /\ \A i \in DOMAIN AsOf(t) : CallFits(AttrCall(t, i), Plain(t))
         /\ \A j \in DOMAIN Unclaimed(t) : CallFits(DeclCall(t, j), Plain(t))
<1> DEFINE plain == Plain(t)
<1>1. t.prefix \in NsPrefixes \cup {Empty} /\ \A k \in DOMAIN t.atts : t.atts[k] \in Atts
  BY StartTagsAre
<1>2. \A p \in NsPrefixes : p # "bad" /\ p # "xmlns" /\ p # Empty
  BY NamespacesAssumption
<1>3. \A n \in Names : n # "bad"
  BY NamespacesAssumption
<1> \A p \in {Empty} : p # "bad" /\ p # "xmlns"
  BY Zenon DEF Empty
<1>4. CallFits(StartCall(t), plain)
  <2> DEFINE c == StartCall(t)
             u == ElemURI(t)
  <2>1. u # Empty => t.prefix \in NsPrefixes /\ u \in URIs
    <3>1. ASSUME u # Empty PROVE NsAt(t, t.prefix) # {} /\ u = NsURI(t, t.prefix)
      BY <3>1 DEF ElemURI
    <3> HIDE DEF u
    <3> QED BY <3>1, NsURIDeclares
  <2>2. t.prefix \notin plain
    BY DEF Plain
  <2>3. c.op = "start" /\ c.prefix = t.prefix /\ c.name = "e" /\ c.uri = u
    BY DEF Call, StartCall
  <2>4. c \in Calls
    <3>1. u \in AnyURI /\ Empty \in AnyURI
      BY <2>1 DEF AnyURI
    <3> HIDE DEF u
    <3>2. "start" \in {"start", "attr"} /\ t.prefix \in NsPrefixes \cup {Empty, "xmlns"} /\ "e" \in Names \cup NsPrefixes \cup {"e"}
      BY <1>1
    <3> QED BY <3>1, <3>2, CallTyped, Zenon DEF StartCall, u
  <2>5. c.prefix # "bad" /\ c.prefix # "xmlns" /\ c.name # "bad" /\ c.prefix \in AnyPrefix
    BY <1>1, <1>2, <2>3 DEF AnyPrefix
  <2> HIDE DEF c, u, plain
  <2>6. c.uri # Empty => c.prefix \in NsPrefixes /\ c.prefix \notin plain
    BY <2>1, <2>2, <2>3
  <2>7. CallFits(c, plain)
    BY <2>4, <2>5, <2>6 DEF CallFits
  <2> QED BY <2>7 DEF c, plain
<1>5. ASSUME NEW i \in DOMAIN AsOf(t) PROVE CallFits(AttrCall(t, i), plain)
  <2> DEFINE a == AsOf(t)[i]
             u == Claimed(t, i)
             c == AttrCall(t, i)
  <2>1. \E k \in DOMAIN t.atts : a = t.atts[k] /\ ~IsNs(t.atts[k])
    BY AsOfSelects
  <2>2. PICK k \in DOMAIN t.atts : a = t.atts[k] /\ ~IsNs(t.atts[k])
    BY <2>1
  <2>3. u # Empty => NsAt(t, a.prefix) # {}
    BY ClaimedIs
  <2>4. c.op = "attr" /\ c.prefix = a.prefix /\ c.name = a.name /\ c.uri = u
    BY DEF Call, AttrCall
  <2>5. c = Call("attr", a.prefix, a.name, u, a.value)
    BY DEF AttrCall
  <2>6. u \in AnyURI
    BY ClaimedFits
  <2> HIDE DEF a, u, c, plain
  <2>7. a.prefix \in NsPrefixes \cup {Empty} /\ a.name \in Names /\ a.value = Empty
    BY <1>1, <2>2, AttsAre
  <2>8. a.prefix \notin plain
    BY <2>2 DEF Plain, plain
  <2>9. u # Empty => a.prefix \in NsPrefixes
    BY <2>3, NsURIDeclares
  <2>10. c \in Calls
    <3>1. /\ a.prefix \in NsPrefixes \cup {Empty, "xmlns"} /\ a.name \in Names \cup NsPrefixes \cup {"e"} /\ a.value \in AnyURI
          /\ "attr" \in {"start", "attr"}
      BY <2>7 DEF AnyURI
    <3> QED BY <2>5, <2>6, <3>1, CallTyped, Zenon
  <2>11. c.prefix # "bad" /\ c.prefix # "xmlns" /\ c.name # "bad"
    <3>1. a.prefix # "bad" /\ a.prefix # "xmlns" /\ a.name # "bad"
      BY <1>2, <1>3, <2>7
    <3> QED BY <2>4, <3>1
  <2>12. c.op # "start"
    BY <2>4
  <2>13. c.uri # Empty => c.prefix \in NsPrefixes /\ c.prefix \notin plain
    BY <2>4, <2>8, <2>9
  <2>14. CallFits(c, plain)
    BY <2>10, <2>11, <2>12, <2>13 DEF CallFits
  <2> QED BY <2>14 DEF c, plain
<1>6. ASSUME NEW j \in DOMAIN Unclaimed(t) PROVE CallFits(DeclCall(t, j), plain)
  <2> DEFINE a == Unclaimed(t)[j]
             c == DeclCall(t, j)
  <2>1. \E k \in DOMAIN t.atts : a = t.atts[k] /\ IsNs(t.atts[k]) /\ t.atts[k].name \in Plain(t)
    BY UnclaimedSelects
  <2>2. PICK k \in DOMAIN t.atts : a = t.atts[k] /\ IsNs(t.atts[k]) /\ t.atts[k].name \in Plain(t)
    BY <2>1
  <2>3. c.op = "attr" /\ c.prefix = "xmlns" /\ c.name = a.name /\ c.uri = Empty
    BY DEF Call, DeclCall
  <2>4. c = Call("attr", "xmlns", a.name, Empty, a.value)
    BY DEF DeclCall
  <2> HIDE DEF a, c
  <2>5. a.name \in NsPrefixes /\ a.value \in URIs /\ a.name \in plain
    BY <1>1, <2>2, AttsAre
  <2> HIDE DEF plain
  <2>6. c \in Calls
    <3>1. /\ "xmlns" \in NsPrefixes \cup {Empty, "xmlns"} /\ a.name \in Names \cup NsPrefixes \cup {"e"}
          /\ a.value \in AnyURI /\ Empty \in AnyURI /\ "attr" \in {"start", "attr"}
      BY <2>5 DEF AnyURI
    <3> QED BY <2>4, <3>1, CallTyped, Zenon
  <2>7. c.prefix # "bad" /\ c.name # "bad" /\ c.op # "start"
    BY <1>2, <2>3, <2>5
  <2>8. c.uri = Empty /\ c.name \in plain
    BY <2>3, <2>5
  <2>9. CallFits(c, plain)
    BY <2>6, <2>7, <2>8 DEF CallFits
  <2> QED BY <2>9 DEF c, plain
<1> QED
  BY <1>4, <1>5, <1>6

(* The script is these calls in this order.                                *)
LEMMA ScriptIsPlaced ==
  ASSUME NEW t \in StartTags
  PROVE  XmlElemStart(t) \in Seq(Calls) /\ ScriptPlaces(t, XmlElemStart(t))
<1> DEFINE first == <<StartCall(t)>>
           attrs == [i \in DOMAIN AsOf(t) |-> AttrCall(t, i)]
           decls == [j \in DOMAIN Unclaimed(t) |-> DeclCall(t, j)]
           head == first \o attrs
           calls == head \o decls
           n == Len(AsOf(t))
<1>1. XmlElemStart(t) = calls
  BY DEF XmlElemStart, StartCall, AttrCall, DeclCall
<1>2. /\ n \in Nat /\ DOMAIN AsOf(t) = 1 .. n
      /\ Len(Unclaimed(t)) \in Nat /\ DOMAIN Unclaimed(t) = 1 .. Len(Unclaimed(t))
  BY AsOfSelects, UnclaimedSelects
<1>3. /\ StartCall(t) \in Calls /\ \A i \in DOMAIN AsOf(t) : AttrCall(t, i) \in Calls
      /\ \A j \in DOMAIN Unclaimed(t) : DeclCall(t, j) \in Calls
  BY CallsFit DEF CallFits
<1>4. first \in Seq(Calls) /\ DOMAIN first = {1} /\ first[1] = StartCall(t) /\ Len(first) = 1
  <2> DEFINE c == StartCall(t)
  <2>1. c \in Calls
    BY <1>3
  <2> HIDE DEF c
  <2>2. <<c>> \in Seq(Calls) /\ DOMAIN <<c>> = {1} /\ <<c>>[1] = c /\ Len(<<c>>) = 1
    BY <2>1
  <2> QED BY <2>2 DEF c
<1>5. attrs \in Seq(Calls) /\ DOMAIN attrs = DOMAIN AsOf(t) /\ \A i \in DOMAIN AsOf(t) : attrs[i] = AttrCall(t, i)
  <2>1. attrs \in [1 .. n -> Calls]
    BY <1>2, <1>3
  <2> QED BY <1>2, <2>1, SeqDef
<1>6. decls \in Seq(Calls) /\ DOMAIN decls = DOMAIN Unclaimed(t) /\ \A j \in DOMAIN Unclaimed(t) : decls[j] = DeclCall(t, j)
  <2>1. decls \in [1 .. Len(Unclaimed(t)) -> Calls]
    BY <1>2, <1>3
  <2> QED BY <1>2, <2>1, SeqDef
<1> HIDE DEF attrs, decls, first
<1>7. Len(attrs) = n
  BY <1>2, <1>5, LenProperties
<1>8. /\ head \in Seq(Calls) /\ Len(head) = Len(first) + Len(attrs)
      /\ \A i \in DOMAIN first : i \in DOMAIN head /\ head[i] = first[i]
      /\ \A d \in DOMAIN head : d \in DOMAIN first \/ \E i \in DOMAIN attrs : d = Len(first) + i
  BY <1>4, <1>5, Joined, Zenon
<1>9. ASSUME NEW i \in DOMAIN attrs PROVE Len(first) + i \in DOMAIN head /\ head[Len(first) + i] = attrs[i]
  <2>1. first \in Seq(Calls) /\ attrs \in Seq(Calls)
    BY <1>4, <1>5
  <2> HIDE DEF head
  <2>2. \A u, m : u = first \o attrs /\ m = Len(first) => m + i \in DOMAIN u /\ u[m + i] = attrs[i]
    BY <2>1, Joined
  <2> QED BY <2>2 DEF head
<1> HIDE DEF head
<1>10. Len(head) = 1 + n
  BY <1>4, <1>7, <1>8
<1>11. /\ calls \in Seq(Calls)
       /\ \A i \in DOMAIN head : i \in DOMAIN calls /\ calls[i] = head[i]
       /\ \A d \in DOMAIN calls : d \in DOMAIN head \/ \E j \in DOMAIN decls : d = Len(head) + j
  BY <1>6, <1>8, Joined, Zenon
<1>12. ASSUME NEW j \in DOMAIN decls PROVE Len(head) + j \in DOMAIN calls /\ calls[Len(head) + j] = decls[j]
  BY <1>6, <1>8, Joined
<1> HIDE DEF calls, n
<1>13. 1 \in DOMAIN calls /\ calls[1] = StartCall(t)
  BY <1>4, <1>8, <1>11
<1>14. ASSUME NEW i \in DOMAIN AsOf(t) PROVE 1 + i \in DOMAIN calls /\ calls[1 + i] = AttrCall(t, i)
  BY <1>4, <1>5, <1>9, <1>11
<1>15. ASSUME NEW j \in DOMAIN Unclaimed(t) PROVE (1 + n) + j \in DOMAIN calls /\ calls[(1 + n) + j] = DeclCall(t, j)
  BY <1>6, <1>10, <1>12
<1>16. ASSUME NEW d \in DOMAIN calls
       PROVE  d = 1 \/ (\E i \in DOMAIN AsOf(t) : d = 1 + i) \/ \E j \in DOMAIN Unclaimed(t) : d = (1 + n) + j
  <2>1. d \in DOMAIN head \/ \E j \in DOMAIN decls : d = Len(head) + j
    BY <1>11
  <2>2. d \in DOMAIN head => d = 1 \/ \E i \in DOMAIN attrs : d = 1 + i
    BY <1>4, <1>8
  <2> QED BY <1>5, <1>6, <1>10, <2>1, <2>2
<1>17. ScriptPlaces(t, calls)
  BY <1>13, <1>14, <1>15, <1>16 DEF ScriptPlaces, n
<1> QED
  BY <1>1, <1>11, <1>17

(* What the tag has, what opening the element will add to it, and what is  *)
(* left in a script, as attributes of the source.                          *)
AttOf(m) == Att(m.prefix, m.name, m.value)

SameKey(x, y) == x.prefix = y.prefix /\ x.name = y.name

Marked(out) == {AttOf(out[i]) : i \in DOMAIN out}
Undeclared(spaces) == {Att("xmlns", spaces[i].prefix, spaces[i].uri) : i \in {j \in DOMAIN spaces : ~spaces[j].written}}
ToWrite(calls) == {AttOf(calls[i]) : i \in {j \in DOMAIN calls : calls[j].op = "attr"}}
ToClaim(calls) == {Att("xmlns", calls[i].prefix, calls[i].uri) : i \in {j \in DOMAIN calls : calls[j].uri # Empty}}

(* No attribute is written twice, and no prefix claimed twice.             *)
WritesOnce(calls) ==
  \A i, j \in DOMAIN calls : calls[i].op = "attr" /\ calls[j].op = "attr" /\ SameKey(calls[i], calls[j]) => i = j

ClaimsOnce(calls) ==
  \A i, j \in DOMAIN calls : calls[i].uri # Empty /\ calls[j].uri # Empty /\ calls[i].prefix = calls[j].prefix => i = j

(* Which attribute of the source a call writes, and what it claims.        *)
LEMMA CallsAre ==
  ASSUME NEW t \in StartTags
  PROVE  /\ StartCall(t).op = "start" /\ StartCall(t).prefix = t.prefix /\ StartCall(t).uri = ElemURI(t)
         /\ \E f \in [DOMAIN AsOf(t) -> DOMAIN t.atts] :
              /\ \A i \in DOMAIN AsOf(t) :
                   /\ AttrCall(t, i).op = "attr" /\ AttrCall(t, i).prefix = AsOf(t)[i].prefix
                   /\ AttrCall(t, i).uri = Claimed(t, i)
                   /\ AsOf(t)[i] = t.atts[f[i]] /\ ~IsNs(t.atts[f[i]])
                   /\ AttOf(AttrCall(t, i)) = t.atts[f[i]] /\ SameKey(AttrCall(t, i), t.atts[f[i]])
              /\ \A i, j \in DOMAIN AsOf(t) : f[i] = f[j] => i = j
              /\ \A k \in DOMAIN t.atts : ~IsNs(t.atts[k]) => \E i \in DOMAIN AsOf(t) : f[i] = k
         /\ \E g \in [DOMAIN Unclaimed(t) -> DOMAIN t.atts] :
              /\ \A j \in DOMAIN Unclaimed(t) :
                   /\ DeclCall(t, j).op = "attr" /\ DeclCall(t, j).uri = Empty
                   /\ IsNs(t.atts[g[j]]) /\ t.atts[g[j]].name \in Plain(t)
                   /\ AttOf(DeclCall(t, j)) = t.atts[g[j]] /\ SameKey(DeclCall(t, j), t.atts[g[j]])
              /\ \A i, j \in DOMAIN Unclaimed(t) : g[i] = g[j] => i = j
              /\ \A k \in DOMAIN t.atts : IsNs(t.atts[k]) /\ t.atts[k].name \in Plain(t)
                   => \E j \in DOMAIN Unclaimed(t) : g[j] = k
<1>1. StartCall(t).op = "start" /\ StartCall(t).prefix = t.prefix /\ StartCall(t).uri = ElemURI(t)
  BY DEF StartCall, Call
<1>2. \A k \in DOMAIN t.atts : t.atts[k] \in Atts
  BY StartTagsAre
<1>3. PICK f \in [DOMAIN AsOf(t) -> DOMAIN t.atts] :
        /\ \A k \in DOMAIN AsOf(t) : AsOf(t)[k] = t.atts[f[k]] /\ ~IsNs(t.atts[f[k]])
        /\ \A j, k \in DOMAIN AsOf(t) : f[j] = f[k] => j = k
        /\ \A i \in DOMAIN t.atts : ~IsNs(t.atts[i]) => \E k \in DOMAIN AsOf(t) : f[k] = i
  BY AsOfSelects
<1>4. PICK g \in [DOMAIN Unclaimed(t) -> DOMAIN t.atts] :
        /\ \A k \in DOMAIN Unclaimed(t) : Unclaimed(t)[k] = t.atts[g[k]] /\ IsNs(t.atts[g[k]]) /\ t.atts[g[k]].name \in Plain(t)
        /\ \A j, k \in DOMAIN Unclaimed(t) : g[j] = g[k] => j = k
        /\ \A i \in DOMAIN t.atts : IsNs(t.atts[i]) /\ t.atts[i].name \in Plain(t) => \E k \in DOMAIN Unclaimed(t) : g[k] = i
  BY UnclaimedSelects
<1>5. ASSUME NEW i \in DOMAIN AsOf(t)
      PROVE  /\ AttrCall(t, i).op = "attr" /\ AttrCall(t, i).prefix = AsOf(t)[i].prefix /\ AttrCall(t, i).uri = Claimed(t, i)
             /\ AsOf(t)[i] = t.atts[f[i]] /\ ~IsNs(t.atts[f[i]])
             /\ AttOf(AttrCall(t, i)) = t.atts[f[i]] /\ SameKey(AttrCall(t, i), t.atts[f[i]])
  <2> DEFINE a == AsOf(t)[i]
             c == AttrCall(t, i)
  <2>1. c.op = "attr" /\ c.prefix = a.prefix /\ c.name = a.name /\ c.uri = Claimed(t, i) /\ c.value = a.value
    BY DEF AttrCall, Call
  <2>2. a = t.atts[f[i]] /\ ~IsNs(t.atts[f[i]]) /\ f[i] \in DOMAIN t.atts
    BY <1>3
  <2> HIDE DEF a, c
  <2>3. a = Att(a.prefix, a.name, a.value)
    BY <1>2, <2>2, AttsAre
  <2>4. AttOf(c) = a /\ SameKey(c, a)
    BY <2>1, <2>3 DEF AttOf, SameKey
  <2> QED BY <2>1, <2>2, <2>4 DEF a, c
<1>6. ASSUME NEW j \in DOMAIN Unclaimed(t)
      PROVE  /\ DeclCall(t, j).op = "attr" /\ DeclCall(t, j).uri = Empty
             /\ IsNs(t.atts[g[j]]) /\ t.atts[g[j]].name \in Plain(t)
             /\ AttOf(DeclCall(t, j)) = t.atts[g[j]] /\ SameKey(DeclCall(t, j), t.atts[g[j]])
  <2> DEFINE a == Unclaimed(t)[j]
             c == DeclCall(t, j)
  <2>1. c.op = "attr" /\ c.prefix = "xmlns" /\ c.name = a.name /\ c.uri = Empty /\ c.value = a.value
    BY DEF DeclCall, Call
  <2>2. a = t.atts[g[j]] /\ IsNs(t.atts[g[j]]) /\ t.atts[g[j]].name \in Plain(t) /\ g[j] \in DOMAIN t.atts
    BY <1>4
  <2> HIDE DEF a, c
  <2>3. a = Att(a.prefix, a.name, a.value) /\ a.prefix = "xmlns"
    BY <1>2, <2>2, AttsAre
  <2>4. AttOf(c) = a /\ SameKey(c, a)
    BY <2>1, <2>3 DEF AttOf, SameKey
  <2> QED BY <2>1, <2>2, <2>4 DEF a, c
<1>7. \E h \in [DOMAIN AsOf(t) -> DOMAIN t.atts] :
        /\ \A i \in DOMAIN AsOf(t) :
             /\ AttrCall(t, i).op = "attr" /\ AttrCall(t, i).prefix = AsOf(t)[i].prefix
             /\ AttrCall(t, i).uri = Claimed(t, i)
             /\ AsOf(t)[i] = t.atts[h[i]] /\ ~IsNs(t.atts[h[i]])
             /\ AttOf(AttrCall(t, i)) = t.atts[h[i]] /\ SameKey(AttrCall(t, i), t.atts[h[i]])
        /\ \A i, j \in DOMAIN AsOf(t) : h[i] = h[j] => i = j
        /\ \A k \in DOMAIN t.atts : ~IsNs(t.atts[k]) => \E i \in DOMAIN AsOf(t) : h[i] = k
  BY <1>3, <1>5
<1>8. \E h \in [DOMAIN Unclaimed(t) -> DOMAIN t.atts] :
        /\ \A j \in DOMAIN Unclaimed(t) :
             /\ DeclCall(t, j).op = "attr" /\ DeclCall(t, j).uri = Empty
             /\ IsNs(t.atts[h[j]]) /\ t.atts[h[j]].name \in Plain(t)
             /\ AttOf(DeclCall(t, j)) = t.atts[h[j]] /\ SameKey(DeclCall(t, j), t.atts[h[j]])
        /\ \A i, j \in DOMAIN Unclaimed(t) : h[i] = h[j] => i = j
        /\ \A k \in DOMAIN t.atts : IsNs(t.atts[k]) /\ t.atts[k].name \in Plain(t)
             => \E j \in DOMAIN Unclaimed(t) : h[j] = k
  BY <1>4, <1>6
<1> QED
  BY <1>1, <1>7, <1>8, Zenon

(* The calls fit, and all but the first write attributes,                  *)
LEMMA ScriptFits ==
  ASSUME NEW t \in StartTags
  PROVE  LET calls == XmlElemStart(t)
         IN /\ calls \in Seq(Calls) /\ calls # <<>> /\ calls[1] = StartCall(t)
            /\ \A d \in DOMAIN calls : CallFits(calls[d], Plain(t)) /\ (d # 1 => calls[d].op = "attr")
<1> DEFINE calls == XmlElemStart(t)
<1>1. calls \in Seq(Calls) /\ ScriptPlaces(t, calls)
  BY ScriptIsPlaced
<1>2. /\ CallFits(StartCall(t), Plain(t))
      /\ \A i \in DOMAIN AsOf(t) : CallFits(AttrCall(t, i), Plain(t)) /\ AttrCall(t, i).op = "attr"
      /\ \A j \in DOMAIN Unclaimed(t) : CallFits(DeclCall(t, j), Plain(t)) /\ DeclCall(t, j).op = "attr"
  BY CallsFit, CallsAre
<1> HIDE DEF calls
<1>3. 1 \in DOMAIN calls /\ calls[1] = StartCall(t)
  BY <1>1 DEF ScriptPlaces
<1>4. calls # <<>>
  <2>1. DOMAIN <<>> = {}
    BY NoneOrOne
  <2> QED BY <1>3, <2>1
<1>5. ASSUME NEW d \in DOMAIN calls
      PROVE  CallFits(calls[d], Plain(t)) /\ (d # 1 => calls[d].op = "attr")
  <2>1. \/ d = 1
        \/ \E i \in DOMAIN AsOf(t) : d = 1 + i /\ calls[1 + i] = AttrCall(t, i)
        \/ \E j \in DOMAIN Unclaimed(t) : d = (1 + Len(AsOf(t))) + j /\ calls[(1 + Len(AsOf(t))) + j] = DeclCall(t, j)
    BY <1>1 DEF ScriptPlaces
  <2> QED BY <1>2, <1>3, <2>1
<1> QED
  BY <1>1, <1>3, <1>4, <1>5 DEF calls

(* no attribute is written twice and no prefix claimed twice,              *)
LEMMA ScriptOnce ==
  ASSUME NEW t \in StartTags
  PROVE  WritesOnce(XmlElemStart(t)) /\ ClaimsOnce(XmlElemStart(t))
<1> DEFINE calls == XmlElemStart(t)
           n == 1 + Len(AsOf(t))
           used == DOMAIN AsOf(t)
           un == DOMAIN Unclaimed(t)
<1>1. /\ 1 \in DOMAIN calls /\ calls[1] = StartCall(t)
      /\ \A i \in used : 1 + i \in DOMAIN calls /\ calls[1 + i] = AttrCall(t, i)
      /\ \A j \in un : n + j \in DOMAIN calls /\ calls[n + j] = DeclCall(t, j)
      /\ \A d \in DOMAIN calls : d = 1 \/ (\E i \in used : d = 1 + i) \/ (\E j \in un : d = n + j)
  BY ScriptIsPlaced, Zenon DEF ScriptPlaces
<1>2. StartCall(t).op = "start" /\ StartCall(t).prefix = t.prefix /\ StartCall(t).uri = ElemURI(t)
  BY CallsAre
<1>3. PICK f \in [used -> DOMAIN t.atts] :
        /\ \A i \in used :
             /\ AttrCall(t, i).op = "attr" /\ AttrCall(t, i).prefix = AsOf(t)[i].prefix
             /\ AttrCall(t, i).uri = Claimed(t, i)
             /\ ~IsNs(t.atts[f[i]]) /\ SameKey(AttrCall(t, i), t.atts[f[i]])
        /\ \A i, j \in used : f[i] = f[j] => i = j
  BY CallsAre
<1>4. PICK g \in [un -> DOMAIN t.atts] :
        /\ \A j \in un :
             /\ DeclCall(t, j).op = "attr" /\ DeclCall(t, j).uri = Empty
             /\ IsNs(t.atts[g[j]]) /\ SameKey(DeclCall(t, j), t.atts[g[j]])
        /\ \A i, j \in un : g[i] = g[j] => i = j
  BY CallsAre
<1>5. ASSUME NEW i \in DOMAIN t.atts, NEW j \in DOMAIN t.atts, NEW x, NEW y,
             SameKey(x, t.atts[i]), SameKey(y, t.atts[j]), SameKey(x, y)
      PROVE  i = j /\ (IsNs(t.atts[i]) <=> IsNs(t.atts[j]))
  BY <1>5, StartTagsAre DEF Distinct, SameKey
<1>6. \A i \in used, j \in used : Claimed(t, i) # Empty /\ Claimed(t, j) # Empty /\ AsOf(t)[i].prefix = AsOf(t)[j].prefix => i = j
  BY OneClaims
<1>7. \A i \in used : Claimed(t, i) # Empty => AsOf(t)[i].prefix # t.prefix
  BY ClaimedIs
<1> HIDE DEF calls, n, used, un
<1>8. ASSUME NEW i \in DOMAIN calls, calls[i].op = "attr"
      PROVE  (\E k \in used : i = 1 + k /\ calls[i] = AttrCall(t, k)) \/ (\E k \in un : i = n + k /\ calls[i] = DeclCall(t, k))
  BY <1>1, <1>2, <1>8
<1>9. ASSUME NEW i \in DOMAIN calls, NEW j \in DOMAIN calls,
             calls[i].op = "attr", calls[j].op = "attr", SameKey(calls[i], calls[j])
      PROVE  i = j
  <2>1. CASE \E k \in used : i = 1 + k /\ calls[i] = AttrCall(t, k)
    <3>1. PICK k \in used : i = 1 + k /\ calls[i] = AttrCall(t, k)
      BY <2>1
    <3>2. f[k] \in DOMAIN t.atts /\ SameKey(calls[i], t.atts[f[k]]) /\ ~IsNs(t.atts[f[k]])
      BY <1>3, <3>1
    <3>3. ASSUME NEW m \in used, j = 1 + m, calls[j] = AttrCall(t, m) PROVE i = j
      <4>1. f[m] \in DOMAIN t.atts /\ SameKey(calls[j], t.atts[f[m]])
        BY <1>3, <3>3
      <4>2. f[k] = f[m]
        BY <1>5, <1>9, <3>2, <4>1
      <4> QED BY <1>3, <3>1, <3>3, <4>2
    <3>4. ASSUME NEW m \in un, j = n + m, calls[j] = DeclCall(t, m) PROVE FALSE
      <4>1. g[m] \in DOMAIN t.atts /\ SameKey(calls[j], t.atts[g[m]]) /\ IsNs(t.atts[g[m]])
        BY <1>4, <3>4
      <4> QED BY <1>5, <1>9, <3>2, <4>1
    <3> QED BY <1>8, <1>9, <3>3, <3>4
  <2>2. CASE \E k \in un : i = n + k /\ calls[i] = DeclCall(t, k)
    <3>1. PICK k \in un : i = n + k /\ calls[i] = DeclCall(t, k)
      BY <2>2
    <3>2. g[k] \in DOMAIN t.atts /\ SameKey(calls[i], t.atts[g[k]]) /\ IsNs(t.atts[g[k]])
      BY <1>4, <3>1
    <3>3. ASSUME NEW m \in un, j = n + m, calls[j] = DeclCall(t, m) PROVE i = j
      <4>1. g[m] \in DOMAIN t.atts /\ SameKey(calls[j], t.atts[g[m]])
        BY <1>4, <3>3
      <4>2. g[k] = g[m]
        BY <1>5, <1>9, <3>2, <4>1
      <4> QED BY <1>4, <3>1, <3>3, <4>2
    <3>4. ASSUME NEW m \in used, j = 1 + m, calls[j] = AttrCall(t, m) PROVE FALSE
      <4>1. f[m] \in DOMAIN t.atts /\ SameKey(calls[j], t.atts[f[m]]) /\ ~IsNs(t.atts[f[m]])
        BY <1>3, <3>4
      <4> QED BY <1>5, <1>9, <3>2, <4>1
    <3> QED BY <1>8, <1>9, <3>3, <3>4
  <2> QED BY <1>8, <1>9, <2>1, <2>2
<1>10. ASSUME NEW i \in DOMAIN calls, calls[i].uri # Empty
       PROVE  (i = 1 /\ calls[i].prefix = t.prefix)
               \/ \E k \in used : i = 1 + k /\ calls[i].prefix = AsOf(t)[k].prefix /\ Claimed(t, k) # Empty
  BY <1>1, <1>2, <1>3, <1>4, <1>10
<1>11. ASSUME NEW i \in DOMAIN calls, NEW j \in DOMAIN calls,
              calls[i].uri # Empty, calls[j].uri # Empty, calls[i].prefix = calls[j].prefix
       PROVE  i = j
  BY <1>6, <1>7, <1>10, <1>11
<1>12. WritesOnce(calls) /\ ClaimsOnce(calls)
  BY <1>9, <1>11 DEF WritesOnce, ClaimsOnce
<1> QED
  BY <1>12 DEF calls

(* and together they write the attributes of the start tag.                *)
LEMMA ScriptWritesAll ==
  ASSUME NEW t \in StartTags
  PROVE  ToWrite(XmlElemStart(t)) \cup ToClaim(XmlElemStart(t)) = {t.atts[k] : k \in DOMAIN t.atts}
<1> DEFINE calls == XmlElemStart(t)
           n == 1 + Len(AsOf(t))
           used == DOMAIN AsOf(t)
           un == DOMAIN Unclaimed(t)
           all == {t.atts[k] : k \in DOMAIN t.atts}
           now == ToWrite(calls) \cup ToClaim(calls)
<1>1. /\ 1 \in DOMAIN calls /\ calls[1] = StartCall(t)
      /\ \A i \in used : 1 + i \in DOMAIN calls /\ calls[1 + i] = AttrCall(t, i)
      /\ \A j \in un : n + j \in DOMAIN calls /\ calls[n + j] = DeclCall(t, j)
      /\ \A d \in DOMAIN calls : d = 1 \/ (\E i \in used : d = 1 + i) \/ (\E j \in un : d = n + j)
  BY ScriptIsPlaced, Zenon DEF ScriptPlaces
<1>2. StartCall(t).op = "start" /\ StartCall(t).prefix = t.prefix /\ StartCall(t).uri = ElemURI(t)
  BY CallsAre
<1>3. PICK f \in [used -> DOMAIN t.atts] :
        /\ \A i \in used :
             /\ AttrCall(t, i).op = "attr" /\ AttrCall(t, i).prefix = AsOf(t)[i].prefix
             /\ AttrCall(t, i).uri = Claimed(t, i) /\ AsOf(t)[i] = t.atts[f[i]]
             /\ AttOf(AttrCall(t, i)) = t.atts[f[i]]
        /\ \A k \in DOMAIN t.atts : ~IsNs(t.atts[k]) => \E i \in used : f[i] = k
  BY CallsAre
<1>4. PICK g \in [un -> DOMAIN t.atts] :
        /\ \A j \in un :
             /\ DeclCall(t, j).op = "attr" /\ DeclCall(t, j).uri = Empty
             /\ AttOf(DeclCall(t, j)) = t.atts[g[j]]
        /\ \A k \in DOMAIN t.atts : IsNs(t.atts[k]) /\ t.atts[k].name \in Plain(t) => \E j \in un : g[j] = k
  BY CallsAre
<1>5. ASSUME NEW i \in used, Claimed(t, i) # Empty
      PROVE  NsAt(t, AsOf(t)[i].prefix) # {} /\ Claimed(t, i) = NsURI(t, AsOf(t)[i].prefix)
  BY <1>5, ClaimedIs
<1>6. ElemURI(t) # Empty => NsAt(t, t.prefix) # {} /\ ElemURI(t) = NsURI(t, t.prefix)
  BY DEF ElemURI
<1>7. ASSUME NEW i \in used, AsOf(t)[i].prefix # t.prefix, NsAt(t, AsOf(t)[i].prefix) # {}
      PROVE  \E k \in used : AsOf(t)[k].prefix = AsOf(t)[i].prefix /\ Claimed(t, k) = NsURI(t, AsOf(t)[i].prefix)
  BY <1>7, SomeoneClaims
<1> HIDE DEF calls, n, used, un
<1>8. ASSUME NEW i \in DOMAIN calls, calls[i].op = "attr" PROVE AttOf(calls[i]) \in all
  BY <1>1, <1>2, <1>3, <1>4, <1>8
<1>9. ASSUME NEW p, NsAt(t, p) # {} PROVE Att("xmlns", p, NsURI(t, p)) \in all
  BY <1>9, NsURIDeclares
<1> HIDE DEF all
<1>10. ASSUME NEW i \in DOMAIN calls, calls[i].uri # Empty PROVE Att("xmlns", calls[i].prefix, calls[i].uri) \in all
  <2>1. CASE i = 1
    BY <1>1, <1>2, <1>6, <1>9, <1>10, <2>1
  <2>2. CASE \E k \in used : i = 1 + k
    <3>1. PICK k \in used : i = 1 + k
      BY <2>2
    <3>2. calls[i].prefix = AsOf(t)[k].prefix /\ calls[i].uri = Claimed(t, k)
      BY <1>1, <1>3, <3>1
    <3> QED BY <1>5, <1>9, <1>10, <3>2
  <2>3. CASE \E j \in un : i = n + j
    BY <1>1, <1>4, <1>10, <2>3
  <2> QED BY <1>1, <2>1, <2>2, <2>3
<1>11. now \subseteq all
  BY <1>8, <1>10 DEF ToWrite, ToClaim
<1>12. ASSUME NEW i \in DOMAIN calls, calls[i].op = "attr" PROVE AttOf(calls[i]) \in now
  BY <1>12 DEF ToWrite
<1>13. ASSUME NEW i \in DOMAIN calls, calls[i].uri # Empty PROVE Att("xmlns", calls[i].prefix, calls[i].uri) \in now
  BY <1>13 DEF ToClaim
<1> HIDE DEF now
<1>14. ASSUME NEW k \in DOMAIN t.atts PROVE t.atts[k] \in now
  <2>1. CASE ~IsNs(t.atts[k])
    <3>1. PICK i \in used : f[i] = k
      BY <1>3, <2>1
    <3>2. 1 + i \in DOMAIN calls /\ calls[1 + i].op = "attr" /\ AttOf(calls[1 + i]) = t.atts[k]
      BY <1>1, <1>3, <3>1
    <3> QED BY <1>12, <3>2
  <2>2. CASE IsNs(t.atts[k])
    <3> DEFINE p == t.atts[k].name
    <3>1. NsAt(t, p) # {}
      <4>1. k \in NsAt(t, p)
        BY <2>2 DEF NsAt
      <4> QED BY <4>1
    <3>2. t.atts[k] = Att("xmlns", p, NsURI(t, p)) /\ p \in NsPrefixes /\ NsURI(t, p) # Empty
      <4>1. NsURI(t, p) \in URIs /\ p \in NsPrefixes
        BY <3>1, NsURIDeclares
      <4>2. Empty \notin URIs
        BY NamespacesAssumption
      <4> QED BY <2>2, <3>1, <4>1, <4>2, NsURIDeclares
    <3>3. CASE p = t.prefix
      <4>1. ElemURI(t) = NsURI(t, p)
        BY <3>1, <3>3 DEF ElemURI
      <4>2. calls[1].uri = NsURI(t, p) /\ calls[1].prefix = p /\ 1 \in DOMAIN calls
        BY <1>1, <1>2, <3>3, <4>1
      <4> HIDE DEF p
      <4> QED BY <1>13, <3>2, <4>2
    <3>4. CASE p # t.prefix /\ \E i \in used : AsOf(t)[i].prefix = p
      <4>1. PICK i \in used : AsOf(t)[i].prefix = p
        BY <3>4
      <4>2. PICK m \in used : AsOf(t)[m].prefix = p /\ Claimed(t, m) = NsURI(t, p)
        BY <1>7, <3>1, <3>4, <4>1
      <4>3. 1 + m \in DOMAIN calls /\ calls[1 + m].prefix = p /\ calls[1 + m].uri = NsURI(t, p)
        BY <1>1, <1>3, <4>2
      <4> HIDE DEF p
      <4> QED BY <1>13, <3>2, <4>3
    <3>5. CASE p # t.prefix /\ ~\E i \in used : AsOf(t)[i].prefix = p
      <4>1. ASSUME NEW i \in DOMAIN t.atts PROVE t.atts[i].prefix # p
        <5>1. CASE IsNs(t.atts[i])
          BY <3>2, <5>1, NamespacesAssumption DEF IsNs
        <5>2. CASE ~IsNs(t.atts[i])
          <6>1. PICK m \in used : f[m] = i
            BY <1>3, <5>2
          <6>2. AsOf(t)[m] = t.atts[i]
            BY <1>3, <6>1
          <6> QED BY <3>5, <6>2
        <5> QED BY <5>1, <5>2
      <4>2. p \in Plain(t)
        BY <3>1, <3>2, <3>5, <4>1 DEF Plain
      <4>3. PICK j \in un : g[j] = k
        BY <1>4, <2>2, <4>2
      <4>4. n + j \in DOMAIN calls /\ calls[n + j].op = "attr" /\ AttOf(calls[n + j]) = t.atts[k]
        BY <1>1, <1>4, <4>3
      <4> QED BY <1>12, <4>4
    <3> QED BY <3>3, <3>4, <3>5
  <2> QED BY <2>1, <2>2
<1>15. all \subseteq now
  BY <1>14 DEF all
<1>16. now = all
  BY <1>11, <1>15
<1> QED
  BY <1>16 DEF now, all, calls

-----------------------------------------------------------------------------
(* The calls that are left, and the steps.                                 *)

Scripted ==
  /\ script \in Seq(Calls) /\ (src = Free \/ src \in StartTags)
  /\ src = Free => script = <<>>
  /\ \A i \in DOMAIN script : CallFits(script[i], Plain(src))

(* The inductive invariant of the types and of the declarations.           *)
TagInv == ElemTyped /\ Declared(Plain(src)) /\ Scripted

(* The user that makes calls of its own has no start tag to follow.        *)
LEMMA FreeIsPlainless == Plain(Free) = {} /\ \A t \in StartTags : t # Free
<1>1. Free.prefix = "free" /\ Free.atts = <<>>
  BY DEF Free
<1>2. DOMAIN <<>> = {}
  BY NoneOrOne
<1>3. Plain(Free) = {}
  <2>1. \A p : NsAt(Free, p) = {}
    BY <1>1, <1>2 DEF NsAt
  <2> QED BY <2>1 DEF Plain
<1>4. "free" # Empty
  BY Zenon DEF Empty
<1>5. ASSUME NEW t \in StartTags PROVE t # Free
  <2>1. t.prefix \in NsPrefixes \cup {Empty}
    BY StartTagsAre
  <2> QED BY <1>1, <1>4, <2>1, TagReplayAssumption
<1> QED
  BY <1>3, <1>5

(* A call of an attribute that fits makes one that does.                   *)
LEMMA AttributeFits ==
  ASSUME NEW c, NEW plain, CallFits(c, plain)
  PROVE  Fits(Attribute(c), plain)
<1>1. c \in Calls /\ (c.prefix = "xmlns" => c.name \in plain)
      /\ (c.uri # Empty => c.prefix \in NsPrefixes /\ c.prefix \notin plain)
  BY DEF CallFits
<1>2. /\ Attribute(c) \in Arguments /\ Attribute(c).prefix = c.prefix /\ Attribute(c).name = c.name
      /\ Attribute(c).uri = c.uri
  BY <1>1 DEF Attribute, Arguments, Calls
<1>3. NsPrefixes \subseteq AnyPrefix
  BY DEF AnyPrefix
<1> HIDE DEF Calls
<1> QED
  BY <1>1, <1>2, <1>3 DEF Fits, Argument

(* Any other attribute fits when nothing is plain.                         *)
LEMMA FreeAttrsFit ==
  ASSUME NEW a \in FreeAttrs
  PROVE  Fits(a, {})
<1>1. /\ {CHOOSE n \in Names : TRUE, "bad"} \subseteq LocalNames /\ NsPrefixes \subseteq LocalNames
      /\ {Empty} \subseteq AnyURI /\ AnyPrefix \ {"xmlns"} \subseteq AnyPrefix /\ {"xmlns"} \subseteq AnyPrefix
  BY DEF LocalNames, AnyPrefix, AnyURI
<1>2. \/ a \in [prefix : AnyPrefix \ {"xmlns"}, name : {CHOOSE n \in Names : TRUE, "bad"}, uri : AnyURI, value : {Empty}]
      \/ a \in [prefix : {"xmlns"}, name : NsPrefixes, uri : AnyURI, value : {Empty}]
  BY DEF FreeAttrs
<1>3. a \in Arguments
  BY <1>1, <1>2 DEF Arguments
<1> QED
  BY <1>3 DEF Fits, Argument

(* The invariant holds at first,                                           *)
LEMMA TagInvInit == Init => TagInv
<1> SUFFICES ASSUME Init PROVE TagInv
  OBVIOUS
<1>1. /\ elem = [state |-> "none", prefix |-> Empty, uri |-> Empty, namespaces |-> <<>>]
      /\ tag = <<>> /\ err = FALSE /\ refused = FALSE
  BY DEF Init, TagInit
<1>2. <<>> \in Seq(Spaces) /\ <<>> \in Seq(Marks) /\ <<>> \in Seq(Calls) /\ DOMAIN <<>> = {}
  BY NoneOrOne
<1>3. elem \in Elems /\ elem.state = "none" /\ elem.namespaces = <<>>
  <2>1. "none" \in States /\ Empty \in AnyPrefix /\ Empty \in AnyURI
    BY DEF States, AnyPrefix, AnyURI
  <2> QED BY <1>1, <1>2, <2>1, ElemOfParts, Zenon
<1>4. ElemTyped
  BY <1>1, <1>2, <1>3 DEF ElemTyped, Once
<1>5. Declared(Plain(src))
  BY <1>1, <1>2, <1>3 DEF Declared, BadUnwritten
<1>6. Scripted
  <2>1. CASE src = Free /\ script = <<>>
    BY <1>2, <2>1 DEF Scripted
  <2>2. CASE src \in StartTags /\ script = XmlElemStart(src)
    <3>1. script \in Seq(Calls) /\ \A i \in DOMAIN script : CallFits(script[i], Plain(src))
      BY <2>2, ScriptFits, Zenon
    <3> QED BY <2>2, <3>1, FreeIsPlainless DEF Scripted
  <2> QED BY <2>1, <2>2 DEF Init
<1> QED
  BY <1>4, <1>5, <1>6 DEF TagInv

(* What the calls keep of the element stays true of its source.            *)
LEMMA SameSource ==
  ASSUME NEW plain, plain = Plain(src), src' = src, Declared(plain)'
  PROVE  Declared(Plain(src))'
<1>1. Plain(src') = plain
  OBVIOUS
<1>2. Declared(plain)'
  OBVIOUS
<1> QED
  BY <1>1, <1>2 DEF Declared

(* gotester makes the first call of the script.                            *)
LEMMA PlayKeeps ==
  ASSUME TagInv, Play
  PROVE  TagInv'
<1> DEFINE c == Head(script)
<1>1. PICK plain : plain = Plain(src)
  OBVIOUS
<1>2. ElemTyped /\ Declared(plain) /\ Scripted
  BY <1>1 DEF TagInv
<1>3. script \in Seq(Calls) /\ script # <<>> /\ script' = Tail(script) /\ src' = src
  BY <1>2 DEF Play, Scripted
<1>4. /\ script' \in Seq(Calls) /\ Len(script) \in Nat /\ Len(script) >= 1 /\ DOMAIN script = 1 .. Len(script)
      /\ DOMAIN script' = 1 .. Len(script) - 1 /\ \A i \in DOMAIN script' : script'[i] = script[i + 1]
  BY <1>3, FirstDropped, LenProperties
<1>5. CallFits(c, plain)
  <2>1. 1 \in DOMAIN script /\ c = script[1]
    BY <1>3, <1>4
  <2> QED BY <1>1, <1>2, <2>1 DEF Scripted
<1>6. \/ c.op = "start" /\ Start(c.prefix, c.uri, <<>>)
      \/ c.op = "attr" /\ WriteAttr(Attribute(c))
  BY Zenon DEF Play
<1>7. ElemTyped' /\ Declared(plain)'
  <2> HIDE DEF c
  <2>1. CASE c.op = "start" /\ Start(c.prefix, c.uri, <<>>)
    <3>1. c \in Calls /\ c.prefix \in AnyPrefix /\ (c.uri # Empty => c.prefix \notin plain)
      BY <1>5, <2>1, Zenon DEF CallFits
    <3>2. c.uri \in AnyURI
      BY <3>1 DEF Calls
    <3> QED BY <1>2, <2>1, <3>1, <3>2, StartKeeps, Zenon
  <2>2. CASE c.op = "attr" /\ WriteAttr(Attribute(c))
    <3>1. Fits(Attribute(c), plain)
      BY <1>5, AttributeFits, Zenon
    <3> QED BY <1>2, <2>2, <3>1, WriteAttrKeeps, Zenon
  <2> QED BY <1>6, <2>1, <2>2
<1>8. Scripted'
  <2>1. src' = Free \/ src' \in StartTags
    BY <1>2, <1>3 DEF Scripted
  <2>2. src' # Free
    BY <1>2, <1>3 DEF Scripted
  <2>3. ASSUME NEW i \in DOMAIN script' PROVE CallFits(script'[i], plain)
    <3>1. i + 1 \in DOMAIN script /\ script'[i] = script[i + 1]
      BY <1>4
    <3> QED BY <1>1, <1>2, <3>1 DEF Scripted
  <2>4. \A i \in DOMAIN script' : CallFits(script'[i], Plain(src'))
    BY <1>1, <1>3, <2>3
  <2> QED BY <1>4, <2>1, <2>2, <2>4 DEF Scripted
<1>9. Declared(Plain(src))'
  BY <1>1, <1>3, <1>7, SameSource, Zenon
<1> QED
  BY <1>7, <1>8, <1>9 DEF TagInv

(* The other steps leave the script alone.                                 *)
LEMMA ScriptStays ==
  ASSUME Scripted, UNCHANGED <<src, script>>
  PROVE  Scripted'
BY DEF Scripted

(* and every step keeps it.                                                *)
LEMMA TagInvNext == TagInv /\ [Next]_vars => TagInv'
<1> SUFFICES ASSUME TagInv, [Next]_vars PROVE TagInv'
  OBVIOUS
<1>1. PICK plain : plain = Plain(src)
  OBVIOUS
<1>2. ElemTyped /\ Declared(plain) /\ Scripted
  BY <1>1 DEF TagInv
<1>3. ASSUME src = Free PROVE plain = {}
  BY <1>1, <1>3, FreeIsPlainless
<1>4. CASE Play
  BY <1>4, PlayKeeps
<1>5. CASE OpenNow
  <2>1. Opened /\ UNCHANGED <<src, script>>
    BY <1>5 DEF OpenNow
  <2>2. ElemTyped' /\ Declared(plain)'
    BY <1>2, <2>1, OpenedKeeps
  <2>3. Scripted' /\ src' = src
    BY <1>2, <2>1, ScriptStays
  <2>4. Declared(Plain(src))'
    BY <1>1, <2>2, <2>3, SameSource, Zenon
  <2> QED BY <2>2, <2>3, <2>4 DEF TagInv
<1>6. CASE FreeStart
  <2>1. PICK p \in AnyPrefix, u \in AnyURI, attrs \in {<<>>} \cup {<<a>> : a \in FreeAttrs} : Start(p, u, attrs)
    BY <1>6, Zenon DEF FreeStart
  <2>2. plain = {} /\ UNCHANGED <<src, script>>
    BY <1>3, <1>6 DEF FreeStart
  <2>3. attrs = <<>> \/ \E a : attrs = <<a>> /\ Fits(a, plain)
    BY <2>2, FreeAttrsFit
  <2>4. p \notin plain
    BY <2>2
  <2>5. ElemTyped' /\ Declared(plain)'
    BY <1>2, <2>1, <2>3, <2>4, StartKeeps, Zenon
  <2>6. Scripted' /\ src' = src
    BY <1>2, <2>2, ScriptStays
  <2>7. Declared(Plain(src))'
    BY <1>1, <2>5, <2>6, SameSource, Zenon
  <2> QED BY <2>5, <2>6, <2>7 DEF TagInv
<1>7. CASE FreeAttr
  <2>1. PICK a \in FreeAttrs : WriteAttr(a)
    BY <1>7, Zenon DEF FreeAttr
  <2>2. plain = {} /\ UNCHANGED <<src, script>>
    BY <1>3, <1>7 DEF FreeAttr
  <2>3. Fits(a, plain)
    BY <2>2, FreeAttrsFit
  <2>4. ElemTyped' /\ Declared(plain)'
    BY <1>2, <2>1, <2>3, WriteAttrKeeps, Zenon
  <2>5. Scripted' /\ src' = src
    BY <1>2, <2>2, ScriptStays
  <2>6. Declared(Plain(src))'
    BY <1>1, <2>4, <2>5, SameSource, Zenon
  <2> QED BY <2>4, <2>5, <2>6 DEF TagInv
<1>8. CASE UNCHANGED vars
  <2>1. elem' = elem /\ tag' = tag /\ err' = err /\ refused' = refused /\ src' = src /\ script' = script
    BY <1>8 DEF vars
  <2> QED BY <2>1 DEF TagInv, ElemTyped, Declared, Scripted
<1> QED
  BY <1>4, <1>5, <1>6, <1>7, <1>8 DEF Next

(* The properties follow.                                                  *)
LEMMA TagInvTypes == TagInv => TypeOK
<1> SUFFICES ASSUME TagInv PROVE TypeOK
  OBVIOUS
<1>1. elem \in Elems /\ Once(elem.namespaces) /\ err \in BOOLEAN /\ refused \in BOOLEAN
  BY DEF TagInv, ElemTyped
<1> QED
  BY <1>1 DEF TypeOK, Once, Elems, Spaces

(* An element is torn by a call that failed.                               *)
LEMMA TagInvTears == TagInv => OnlyRefusalTears
BY DEF TagInv, Declared, OnlyRefusalTears

(* In a finished tag, the namespace that an attribute was given is         *)
(* written, and what is written is declared once.                          *)
LEMMA TagInvBinds == TagInv => PrefixesBound
<1> SUFFICES ASSUME TagInv, elem.state = "opened",
                    NEW i \in DOMAIN tag, tag[i].given # Empty
             PROVE  \E d \in DOMAIN tag : Declarations(tag[i].prefix) = {d} /\ tag[d].value = tag[i].given
  BY DEF PrefixesBound
<1>1. Once(elem.namespaces) /\ Bound(elem.namespaces, tag, Plain(src)) /\ Finished(elem.namespaces, tag)
  BY DEF TagInv, ElemTyped, Declared
<1> DEFINE spaces == elem.namespaces
<1>2. PICK k \in DOMAIN spaces : spaces[k].prefix = tag[i].prefix /\ spaces[k].uri = tag[i].given
  BY <1>1, Zenon DEF Bound
<1>3. PICK j \in DOMAIN spaces : spaces[j].prefix = tag[i].prefix /\ spaces[j].written
  BY <1>1, Zenon DEF Finished
<1>4. j = k
  BY <1>1, <1>2, <1>3 DEF Once
<1>5. PICK d \in DOMAIN tag : DeclaredAt(tag, d, spaces[j].prefix, spaces[j].uri)
  BY <1>1, <1>3, Zenon DEF Bound
<1>6. Declarations(tag[i].prefix) = Decls(tag, tag[i].prefix)
  BY DEF Declarations, Decls
<1> QED
  BY <1>2, <1>3, <1>4, <1>5, <1>6 DEF DeclaredAt

-----------------------------------------------------------------------------
(* The source adds up. *)

AttsOf(t) == {t.atts[k] : k \in DOMAIN t.atts}

(* No attribute is in the tag twice.                                       *)
KeysOnce(out) == \A i, j \in DOMAIN out : SameKey(out[i], out[j]) => i = j

(* What a call of the script writes, and what it claims.                   *)
Writes(c) == IF c.op = "attr" THEN {AttOf(c)} ELSE {}
Claims(c) == IF c.uri # Empty THEN {Att("xmlns", c.prefix, c.uri)} ELSE {}

(* What is in the tag, what opening the element declares and what the      *)
(* script has left are all, and nothing is there twice.                    *)
AddsUp(spaces, out, calls, all) ==
  /\ Marked(out) \cup Undeclared(spaces) \cup ToWrite(calls) \cup ToClaim(calls) = all
  /\ WritesOnce(calls) /\ ClaimsOnce(calls) /\ KeysOnce(out)
  /\ \A i \in DOMAIN spaces : spaces[i].prefix # "bad"
  /\ \A i \in DOMAIN calls : calls[i].uri # Empty => Unregistered(spaces, calls[i].prefix)
  /\ \A i \in DOMAIN out, j \in DOMAIN calls : calls[j].op = "attr" => ~SameKey(out[i], calls[j])

(* The script declares nothing itself but what is plain.                   *)
OnlyPlain(out, plain) ==
  \A d \in DOMAIN out : out[d].prefix = "xmlns" /\ out[d].by = "user" => out[d].name \in plain

(* The inductive invariant of the script.                                  *)
Rebuilding ==
  src # Free =>
    /\ err = FALSE /\ elem.state # "torn"
    /\ elem.state = "none" => script = XmlElemStart(src)
    /\ elem.state # "none" => elem.prefix = src.prefix /\ \A i \in DOMAIN script : script[i].op = "attr"
    /\ elem.state = "opened" => script = <<>> /\ AllWritten(elem.namespaces)
    /\ AddsUp(elem.namespaces, tag, script, AttsOf(src)) /\ OnlyPlain(tag, Plain(src))

(* One more attribute of the script, or the declarations of namespaces,    *)
(* leave it so.                                                            *)
LEMMA OnlyPlainMore ==
  ASSUME NEW out \in Seq(Marks), NEW plain, OnlyPlain(out, plain), NEW m \in Marks,
         m.prefix = "xmlns" /\ m.by = "user" => m.name \in plain
  PROVE  OnlyPlain(Append(out, m), plain)
<1> DEFINE more == Append(out, m)
           n == Len(out) + 1
<1>1. /\ more[n] = m /\ \A i \in DOMAIN more : i = n \/ i \in DOMAIN out
      /\ \A i \in DOMAIN out : i \in DOMAIN more /\ more[i] = out[i]
  BY LastAdded, Zenon
<1> HIDE DEF more, n
<1>2. \A d \in DOMAIN more : (d \in DOMAIN out /\ more[d] = out[d]) \/ more[d] = m
  BY <1>1
<1>3. OnlyPlain(more, plain)
  BY <1>2 DEF OnlyPlain
<1> QED
  BY <1>3 DEF more

(* Declarations that are the Writer's say nothing of the script.           *)
LEMMA OnlyPlainDeclared ==
  ASSUME NEW out \in Seq(Marks), NEW plain, OnlyPlain(out, plain), NEW new \in Seq(Spaces)
  PROVE  OnlyPlain(DeclarationsOf(new), plain) /\ OnlyPlain(out \o DeclarationsOf(new), plain)
<1> DEFINE decls == DeclarationsOf(new)
           longer == out \o decls
           n == Len(out)
<1>1. decls \in Seq(Marks) /\ \A k \in DOMAIN decls : decls[k].by = "writer"
  BY DeclarationsOfMarks
<1> HIDE DEF decls
<1>2. Extends(longer, out, decls)
  BY <1>1, JoinedExtends, Zenon
<1> HIDE DEF longer
<1>3. \A d \in DOMAIN longer : (d \in DOMAIN out /\ longer[d] = out[d]) \/ longer[d].by = "writer"
  BY <1>1, <1>2 DEF Extends
<1>4. OnlyPlain(decls, plain) /\ OnlyPlain(longer, plain)
  BY <1>1, <1>3 DEF OnlyPlain
<1> QED
  BY <1>4 DEF longer, decls

(* The script without its first call.                                      *)
LEMMA OneCallLess ==
  ASSUME NEW calls \in Seq(Calls), calls # <<>>
  PROVE  LET rest == Tail(calls)
         IN /\ \A i \in DOMAIN rest : i + 1 \in DOMAIN calls /\ rest[i] = calls[i + 1]
            /\ 1 \in DOMAIN calls /\ Head(calls) = calls[1]
            /\ \A d \in DOMAIN calls : d # 1 => \E i \in DOMAIN rest : d = i + 1
            /\ \A i \in DOMAIN rest : i + 1 # 1
            /\ \A i, j \in DOMAIN rest : i + 1 = j + 1 => i = j
<1> DEFINE rest == Tail(calls)
<1>1. /\ rest \in Seq(Calls) /\ Len(calls) \in Nat /\ Len(calls) >= 1 /\ DOMAIN calls = 1 .. Len(calls)
      /\ DOMAIN rest = 1 .. Len(calls) - 1 /\ \A i \in DOMAIN rest : rest[i] = calls[i + 1]
  BY FirstDropped, LenProperties
<1>2. Head(calls) = calls[1]
  OBVIOUS
<1> HIDE DEF rest
<1>3. \A d \in DOMAIN calls : d # 1 => \E i \in DOMAIN rest : d = i + 1
  <2>1. ASSUME NEW d \in DOMAIN calls, d # 1 PROVE d - 1 \in DOMAIN rest /\ d = (d - 1) + 1
    BY <1>1, <2>1
  <2> QED BY <2>1
<1>4. \A i \in DOMAIN rest : i + 1 \in DOMAIN calls /\ i + 1 # 1 /\ i \in Nat
  BY <1>1
<1>5. \A i, j \in DOMAIN rest : i + 1 = j + 1 => i = j
  BY <1>1
<1> QED
  BY <1>1, <1>2, <1>3, <1>4, <1>5 DEF rest

(* The first call is what the script then has less,                        *)
LEMMA LessToWrite ==
  ASSUME NEW calls \in Seq(Calls), calls # <<>>
  PROVE  /\ ToWrite(calls) = Writes(Head(calls)) \cup ToWrite(Tail(calls))
         /\ ToClaim(calls) = Claims(Head(calls)) \cup ToClaim(Tail(calls))
<1> DEFINE rest == Tail(calls)
           c == Head(calls)
<1>1. /\ \A i \in DOMAIN rest : i + 1 \in DOMAIN calls /\ rest[i] = calls[i + 1]
      /\ 1 \in DOMAIN calls /\ c = calls[1]
      /\ \A d \in DOMAIN calls : d # 1 => \E i \in DOMAIN rest : d = i + 1
  BY OneCallLess, Zenon
<1> HIDE DEF rest, c
<1>2. ToWrite(calls) = Writes(c) \cup ToWrite(rest)
  <2>1. ASSUME NEW x \in ToWrite(calls) PROVE x \in Writes(c) \cup ToWrite(rest)
    <3>1. PICK d \in DOMAIN calls : calls[d].op = "attr" /\ x = AttOf(calls[d])
      BY Zenon DEF ToWrite
    <3>2. CASE d = 1
      BY <1>1, <3>1, <3>2 DEF Writes
    <3>3. CASE d # 1
      <4>1. PICK i \in DOMAIN rest : d = i + 1
        BY <1>1, <3>3
      <4>2. rest[i] = calls[d]
        BY <1>1, <4>1
      <4> QED BY <3>1, <4>2 DEF ToWrite
    <3> QED BY <3>2, <3>3
  <2>2. ASSUME NEW x \in Writes(c) PROVE x \in ToWrite(calls)
    <3>1. c.op = "attr" /\ x = AttOf(c)
      BY DEF Writes
    <3> QED BY <1>1, <3>1 DEF ToWrite
  <2>3. ASSUME NEW x \in ToWrite(rest) PROVE x \in ToWrite(calls)
    <3>1. PICK i \in DOMAIN rest : rest[i].op = "attr" /\ x = AttOf(rest[i])
      BY Zenon DEF ToWrite
    <3>2. i + 1 \in DOMAIN calls /\ rest[i] = calls[i + 1]
      BY <1>1
    <3> QED BY <3>1, <3>2 DEF ToWrite
  <2> QED BY <2>1, <2>2, <2>3
<1>3. ToClaim(calls) = Claims(c) \cup ToClaim(rest)
  <2>1. ASSUME NEW x \in ToClaim(calls) PROVE x \in Claims(c) \cup ToClaim(rest)
    <3>1. PICK d \in DOMAIN calls : calls[d].uri # Empty /\ x = Att("xmlns", calls[d].prefix, calls[d].uri)
      BY Zenon DEF ToClaim
    <3>2. CASE d = 1
      BY <1>1, <3>1, <3>2 DEF Claims
    <3>3. CASE d # 1
      <4>1. PICK i \in DOMAIN rest : d = i + 1
        BY <1>1, <3>3
      <4>2. rest[i] = calls[d]
        BY <1>1, <4>1
      <4> QED BY <3>1, <4>2 DEF ToClaim
    <3> QED BY <3>2, <3>3
  <2>2. ASSUME NEW x \in Claims(c) PROVE x \in ToClaim(calls)
    <3>1. c.uri # Empty /\ x = Att("xmlns", c.prefix, c.uri)
      BY DEF Claims
    <3> QED BY <1>1, <3>1 DEF ToClaim
  <2>3. ASSUME NEW x \in ToClaim(rest) PROVE x \in ToClaim(calls)
    <3>1. PICK i \in DOMAIN rest : rest[i].uri # Empty /\ x = Att("xmlns", rest[i].prefix, rest[i].uri)
      BY Zenon DEF ToClaim
    <3>2. i + 1 \in DOMAIN calls /\ rest[i] = calls[i + 1]
      BY <1>1
    <3> QED BY <3>1, <3>2 DEF ToClaim
  <2> QED BY <2>1, <2>2, <2>3
<1> QED
  BY <1>2, <1>3 DEF rest, c

(* and what is left does not repeat it.                                    *)
LEMMA RestOnce ==
  ASSUME NEW calls \in Seq(Calls), calls # <<>>, WritesOnce(calls), ClaimsOnce(calls)
  PROVE  LET rest == Tail(calls)
             c == Head(calls)
         IN /\ WritesOnce(rest) /\ ClaimsOnce(rest)
            /\ \A i \in DOMAIN rest : rest[i].op = "attr" /\ c.op = "attr" => ~SameKey(c, rest[i])
            /\ \A i \in DOMAIN rest : rest[i].uri # Empty /\ c.uri # Empty => rest[i].prefix # c.prefix
<1> DEFINE rest == Tail(calls)
           c == Head(calls)
<1>1. /\ \A i \in DOMAIN rest : i + 1 \in DOMAIN calls /\ rest[i] = calls[i + 1] /\ i + 1 # 1
      /\ 1 \in DOMAIN calls /\ c = calls[1]
      /\ \A i, j \in DOMAIN rest : i + 1 = j + 1 => i = j
  BY OneCallLess, Zenon
<1> HIDE DEF rest, c
<1>2. WritesOnce(rest)
  <2>1. ASSUME NEW i \in DOMAIN rest, NEW j \in DOMAIN rest, rest[i].op = "attr", rest[j].op = "attr",
               SameKey(rest[i], rest[j])
        PROVE  i = j
    <3>1. i + 1 = j + 1
      BY <1>1, <2>1 DEF WritesOnce
    <3> QED BY <1>1, <3>1
  <2> QED BY <2>1 DEF WritesOnce
<1>3. ClaimsOnce(rest)
  <2>1. ASSUME NEW i \in DOMAIN rest, NEW j \in DOMAIN rest, rest[i].uri # Empty, rest[j].uri # Empty,
               rest[i].prefix = rest[j].prefix
        PROVE  i = j
    <3>1. i + 1 = j + 1
      BY <1>1, <2>1 DEF ClaimsOnce
    <3> QED BY <1>1, <3>1
  <2> QED BY <2>1 DEF ClaimsOnce
<1>4. ASSUME NEW i \in DOMAIN rest, rest[i].op = "attr", c.op = "attr" PROVE ~SameKey(c, rest[i])
  BY <1>1, <1>4 DEF WritesOnce
<1>5. ASSUME NEW i \in DOMAIN rest, rest[i].uri # Empty, c.uri # Empty PROVE rest[i].prefix # c.prefix
  BY <1>1, <1>5 DEF ClaimsOnce
<1> QED
  BY <1>2, <1>3, <1>4, <1>5 DEF rest, c

(* One attribute more in the tag, one namespace more to declare.           *)
LEMMA MarkedMore ==
  ASSUME NEW out \in Seq(Marks), NEW m \in Marks
  PROVE  /\ Marked(Append(out, m)) = Marked(out) \cup {AttOf(m)}
         /\ (KeysOnce(out) /\ (\A i \in DOMAIN out : ~SameKey(out[i], m)) => KeysOnce(Append(out, m)))
<1> DEFINE more == Append(out, m)
           n == Len(out) + 1
<1>1. /\ n \in DOMAIN more /\ more[n] = m
      /\ \A i \in DOMAIN out : i \in DOMAIN more /\ more[i] = out[i]
      /\ \A i \in DOMAIN more : i = n \/ i \in DOMAIN out
  BY LastAdded, Zenon
<1> HIDE DEF more, n
<1>2. Marked(more) = Marked(out) \cup {AttOf(m)}
  <2>1. ASSUME NEW x \in Marked(more) PROVE x \in Marked(out) \cup {AttOf(m)}
    BY <1>1 DEF Marked
  <2>2. ASSUME NEW x \in Marked(out) PROVE x \in Marked(more)
    BY <1>1 DEF Marked
  <2>3. AttOf(m) \in Marked(more)
    BY <1>1 DEF Marked
  <2> QED BY <2>1, <2>2, <2>3
<1>3. ASSUME KeysOnce(out), \A i \in DOMAIN out : ~SameKey(out[i], m) PROVE KeysOnce(more)
  <2>1. ASSUME NEW i \in DOMAIN more, NEW j \in DOMAIN more, SameKey(more[i], more[j]) PROVE i = j
    <3>1. CASE i = n /\ j = n
      BY <3>1
    <3>2. CASE i \in DOMAIN out /\ j \in DOMAIN out
      BY <1>1, <1>3, <2>1, <3>2 DEF KeysOnce
    <3>3. CASE i = n /\ j \in DOMAIN out
      BY <1>1, <1>3, <2>1, <3>3 DEF SameKey
    <3>4. CASE i \in DOMAIN out /\ j = n
      BY <1>1, <1>3, <2>1, <3>4 DEF SameKey
    <3> QED BY <1>1, <3>1, <3>2, <3>3, <3>4
  <2> QED BY <2>1 DEF KeysOnce
<1> QED
  BY <1>2, <1>3 DEF more

(* A namespace that is registered is one more to declare.                  *)
LEMMA UndeclaredMore ==
  ASSUME NEW spaces \in Seq(Spaces), NEW ns \in Spaces, ns.written = FALSE
  PROVE  Undeclared(Append(spaces, ns)) = Undeclared(spaces) \cup {Att("xmlns", ns.prefix, ns.uri)}
<1> DEFINE more == Append(spaces, ns)
           n == Len(spaces) + 1
<1>1. /\ n \in DOMAIN more /\ more[n] = ns
      /\ \A i \in DOMAIN spaces : i \in DOMAIN more /\ more[i] = spaces[i]
      /\ \A i \in DOMAIN more : i = n \/ i \in DOMAIN spaces
  BY LastAdded, Zenon
<1> HIDE DEF more, n
<1>2. ASSUME NEW x \in Undeclared(more) PROVE x \in Undeclared(spaces) \cup {Att("xmlns", ns.prefix, ns.uri)}
  <2>1. PICK i \in DOMAIN more : ~more[i].written /\ x = Att("xmlns", more[i].prefix, more[i].uri)
    BY Zenon DEF Undeclared
  <2> QED BY <1>1, <2>1 DEF Undeclared
<1>3. ASSUME NEW x \in Undeclared(spaces) PROVE x \in Undeclared(more)
  <2>1. PICK i \in DOMAIN spaces : ~spaces[i].written /\ x = Att("xmlns", spaces[i].prefix, spaces[i].uri)
    BY Zenon DEF Undeclared
  <2> QED BY <1>1, <2>1 DEF Undeclared
<1>4. Att("xmlns", ns.prefix, ns.uri) \in Undeclared(more)
  BY <1>1 DEF Undeclared
<1> QED
  BY <1>2, <1>3, <1>4 DEF more

(* An attribute with good names whose prefix can be claimed is accepted.   *)
LEMMA AttrAccepts ==
  ASSUME NEW spaces \in Seq(Spaces), NEW out, NEW a, CheckName(a.prefix, a.name),
         a.uri # Empty => Unregistered(spaces, a.prefix)
  PROVE  LET r == Attr(Result(spaces, out, FALSE), a)
         IN /\ r.failed = FALSE /\ r.out = Append(out, MarkOf(a))
            /\ r.spaces = IF a.uri = Empty THEN spaces ELSE Append(spaces, SpaceOf(a))
<1> DEFINE now == Result(spaces, out, FALSE)
           r == Attr(now, a)
<1>1. now.spaces = spaces /\ now.out = out
  BY DEF Result
<1>2. ~(a.uri # Empty /\ Conflict(spaces, a))
  BY DEF Conflict, Unregistered
<1>3. Registered(spaces, a) = IF a.uri = Empty THEN spaces ELSE Append(spaces, SpaceOf(a))
  BY DEF Registered, Unregistered, SpaceOf
<1> HIDE DEF now
<1>4. r = Result(Registered(spaces, a), Append(out, MarkOf(a)), FALSE)
  BY <1>1, <1>2 DEF Attr, MarkOf
<1> HIDE DEF r
<1>5. r.failed = FALSE /\ r.out = Append(out, MarkOf(a)) /\ r.spaces = Registered(spaces, a)
  BY <1>4 DEF Result
<1> QED
  BY <1>3, <1>5 DEF r, now

(* The source adds up when its element is started,                         *)
LEMMA StartAddsUp ==
  ASSUME NEW calls \in Seq(Calls), calls # <<>>, WritesOnce(calls), ClaimsOnce(calls), NEW plain,
         \A i \in DOMAIN calls : CallFits(calls[i], plain), Head(calls).op = "start"
  PROVE  LET c == Head(calls)
             own == Own(c.prefix, c.uri)
         IN AddsUp(own, DeclarationsOf(own), Tail(calls), ToWrite(calls) \cup ToClaim(calls))
<1> DEFINE c == Head(calls)
           rest == Tail(calls)
           own == Own(c.prefix, c.uri)
           out == DeclarationsOf(own)
<1>1. /\ \A i \in DOMAIN rest : i + 1 \in DOMAIN calls /\ rest[i] = calls[i + 1]
      /\ 1 \in DOMAIN calls /\ c = calls[1]
  BY OneCallLess, Zenon
<1>2. /\ ToWrite(calls) = Writes(c) \cup ToWrite(rest)
      /\ ToClaim(calls) = Claims(c) \cup ToClaim(rest)
  BY LessToWrite, Zenon
<1>3. /\ WritesOnce(rest) /\ ClaimsOnce(rest)
      /\ \A i \in DOMAIN rest : rest[i].uri # Empty /\ c.uri # Empty => rest[i].prefix # c.prefix
  BY RestOnce, Zenon
<1>4. CallFits(c, plain) /\ \A i \in DOMAIN rest : CallFits(rest[i], plain)
  BY <1>1
<1>5. c.op = "start"
  OBVIOUS
<1> HIDE DEF c, rest
<1>6. /\ c.prefix # "bad" /\ c.prefix \in AnyPrefix
      /\ (c.uri # Empty => c.prefix \in NsPrefixes /\ c.prefix \notin plain)
  BY <1>4, <1>5 DEF CallFits
<1>7. c.uri # Empty => c.prefix # Empty
  BY <1>6, NamespacesAssumption
<1>8. c.uri \in AnyURI
  BY <1>4 DEF CallFits, Calls
<1>9. Writes(c) = {}
  BY <1>5 DEF Writes
<1>10. CASE c.uri = Empty
  <2>1. own = <<>>
    BY <1>10 DEF Own
  <2>2. DOMAIN own = {} /\ DOMAIN out = {}
    BY <2>1, NoneOrOne DEF DeclarationsOf
  <2> HIDE DEF own, out
  <2>3. Marked(out) = {} /\ Undeclared(own) = {} /\ Claims(c) = {}
    BY <1>10, <2>2 DEF Marked, Undeclared, Claims
  <2>4. Marked(out) \cup Undeclared(own) \cup ToWrite(rest) \cup ToClaim(rest) = ToWrite(calls) \cup ToClaim(calls)
    BY <1>2, <1>9, <2>3
  <2>5. KeysOnce(out)
    BY <2>2 DEF KeysOnce
  <2>6. AddsUp(own, out, rest, ToWrite(calls) \cup ToClaim(calls))
    BY <1>3, <2>2, <2>4, <2>5 DEF AddsUp, Unregistered
  <2> QED BY <2>6 DEF own, out, rest, c
<1>11. CASE c.uri # Empty
  <2> DEFINE ns == Namespace(c.prefix, c.uri, TRUE)
             m == Declaration(ns)
  <2>1. ns \in Spaces /\ ns.prefix = c.prefix /\ ns.uri = c.uri /\ ns.written = TRUE
    BY <1>6, <1>8, <1>11 DEF Namespace, Spaces, AnyURI
  <2>2. own = <<ns>>
    BY <1>7, <1>11 DEF Own
  <2>3. DOMAIN own = {1} /\ own[1] = ns
    BY <2>1, <2>2, NoneOrOne
  <2>4. DOMAIN out = {1} /\ out[1] = m
    BY <2>3 DEF DeclarationsOf
  <2>5. m.prefix = "xmlns" /\ m.name = c.prefix /\ m.value = c.uri
    BY <2>1 DEF Declaration, Printed
  <2> HIDE DEF own, out, ns, m
  <2>6. Marked(out) = Claims(c)
    BY <1>11, <2>4, <2>5 DEF Marked, AttOf, Claims
  <2>7. Undeclared(own) = {}
    BY <2>1, <2>3 DEF Undeclared
  <2>8. Marked(out) \cup Undeclared(own) \cup ToWrite(rest) \cup ToClaim(rest) = ToWrite(calls) \cup ToClaim(calls)
    BY <1>2, <1>9, <2>6, <2>7
  <2>9. KeysOnce(out)
    BY <2>4 DEF KeysOnce
  <2>10. \A i \in DOMAIN own : own[i].prefix # "bad"
    BY <1>6, <2>1, <2>3
  <2>11. \A i \in DOMAIN rest : rest[i].uri # Empty => Unregistered(own, rest[i].prefix)
    BY <1>3, <1>11, <2>1, <2>3 DEF Unregistered
  <2>12. \A i \in DOMAIN out, j \in DOMAIN rest : rest[j].op = "attr" => ~SameKey(out[i], rest[j])
    <3>1. ASSUME NEW j \in DOMAIN rest, SameKey(m, rest[j]) PROVE FALSE
      <4>1. rest[j].prefix = "xmlns" /\ rest[j].name = c.prefix
        BY <2>5, <3>1 DEF SameKey
      <4>2. rest[j].name \in plain
        BY <1>4, <4>1 DEF CallFits
      <4> QED BY <1>6, <1>11, <4>1, <4>2
    <3> QED BY <2>4, <3>1
  <2>13. AddsUp(own, out, rest, ToWrite(calls) \cup ToClaim(calls))
    BY <1>3, <2>8, <2>9, <2>10, <2>11, <2>12 DEF AddsUp
  <2> QED BY <2>13 DEF own, out, rest, c
<1> QED
  BY <1>10, <1>11

(* and when an attribute of the script is written,                         *)
LEMMA AttrAddsUp ==
  ASSUME NEW spaces \in Seq(Spaces), NEW out \in Seq(Marks), NEW calls \in Seq(Calls), calls # <<>>, NEW plain,
         \A i \in DOMAIN calls : CallFits(calls[i], plain), Head(calls).op = "attr",
         NEW all, AddsUp(spaces, out, calls, all)
  PROVE  LET r == Attr(Result(spaces, out, FALSE), Attribute(Head(calls)))
         IN r.failed = FALSE /\ AddsUp(r.spaces, r.out, Tail(calls), all)
<1> DEFINE c == Head(calls)
           rest == Tail(calls)
           a == Attribute(c)
           r == Attr(Result(spaces, out, FALSE), a)
           m == MarkOf(a)
<1>1. /\ \A i \in DOMAIN rest : i + 1 \in DOMAIN calls /\ rest[i] = calls[i + 1]
      /\ 1 \in DOMAIN calls /\ c = calls[1]
  BY OneCallLess, Zenon
<1>2. /\ ToWrite(calls) = Writes(c) \cup ToWrite(rest)
      /\ ToClaim(calls) = Claims(c) \cup ToClaim(rest)
  BY LessToWrite, Zenon
<1>3. /\ Marked(out) \cup Undeclared(spaces) \cup ToWrite(calls) \cup ToClaim(calls) = all
      /\ WritesOnce(calls) /\ ClaimsOnce(calls) /\ KeysOnce(out)
      /\ \A i \in DOMAIN spaces : spaces[i].prefix # "bad"
      /\ \A i \in DOMAIN calls : calls[i].uri # Empty => Unregistered(spaces, calls[i].prefix)
      /\ \A i \in DOMAIN out, j \in DOMAIN calls : calls[j].op = "attr" => ~SameKey(out[i], calls[j])
  BY DEF AddsUp
<1>4. /\ WritesOnce(rest) /\ ClaimsOnce(rest)
      /\ \A i \in DOMAIN rest : rest[i].op = "attr" /\ c.op = "attr" => ~SameKey(c, rest[i])
      /\ \A i \in DOMAIN rest : rest[i].uri # Empty /\ c.uri # Empty => rest[i].prefix # c.prefix
  BY <1>3, RestOnce, Zenon
<1>5. CallFits(c, plain) /\ c.op = "attr" /\ (c.uri # Empty => Unregistered(spaces, c.prefix))
      /\ \A i \in DOMAIN out : ~SameKey(out[i], c)
  BY <1>1, <1>3
<1>6. \A i \in DOMAIN rest : rest[i].uri # Empty => Unregistered(spaces, rest[i].prefix)
  BY <1>1, <1>3
<1>7. \A i \in DOMAIN out, j \in DOMAIN rest : rest[j].op = "attr" => ~SameKey(out[i], rest[j])
  BY <1>1, <1>3
<1> HIDE DEF c, rest
<1>8. a.prefix = c.prefix /\ a.name = c.name /\ a.value = c.value /\ a.uri = c.uri
  BY DEF Attribute
<1>9. Fits(a, plain)
  BY <1>5, AttributeFits
<1> HIDE DEF a
<1>10. CheckName(a.prefix, a.name)
  BY <1>5, <1>8 DEF CheckName, CallFits
<1>11. /\ r.failed = FALSE /\ r.out = Append(out, m)
       /\ r.spaces = IF a.uri = Empty THEN spaces ELSE Append(spaces, SpaceOf(a))
  <2>1. a.uri # Empty => Unregistered(spaces, a.prefix)
    BY <1>5, <1>8
  <2> QED BY <1>10, <2>1, AttrAccepts, Zenon
<1>12. Argument(a) /\ a \in Arguments
  BY <1>9 DEF Fits, Argument
<1>13. m \in Marks /\ m.prefix = c.prefix /\ m.name = c.name /\ m.value = c.value
  BY <1>8, <1>12, MarkOfIsMark
<1> HIDE DEF r, m
<1>14. AttOf(m) = AttOf(c) /\ Writes(c) = {AttOf(c)}
  BY <1>5, <1>13 DEF AttOf, Writes
<1>15. \A x : SameKey(m, x) <=> SameKey(c, x)
  BY <1>13 DEF SameKey
<1>16. \A x : SameKey(x, m) <=> SameKey(x, c)
  BY <1>13 DEF SameKey
<1>17. Marked(r.out) = Marked(out) \cup Writes(c) /\ KeysOnce(r.out)
  BY <1>3, <1>5, <1>11, <1>13, <1>14, <1>16, MarkedMore
<1>18. \A i \in DOMAIN r.out, j \in DOMAIN rest : rest[j].op = "attr" => ~SameKey(r.out[i], rest[j])
  <2> DEFINE n == Len(out) + 1
             more == Append(out, m)
  <2>1. /\ more[n] = m
        /\ \A i \in DOMAIN out : i \in DOMAIN more /\ more[i] = out[i]
        /\ \A i \in DOMAIN more : i = n \/ i \in DOMAIN out
    BY <1>13, LastAdded, Zenon
  <2>3. r.out = more
    BY <1>11
  <2> HIDE DEF n, more
  <2>2. ASSUME NEW i \in DOMAIN more, NEW j \in DOMAIN rest, rest[j].op = "attr", SameKey(more[i], rest[j])
        PROVE  FALSE
    <3>1. CASE i = n
      BY <1>4, <1>5, <1>15, <2>1, <2>2, <3>1
    <3>2. CASE i \in DOMAIN out
      BY <1>7, <2>1, <2>2, <3>2
    <3> QED BY <2>1, <3>1, <3>2
  <2> QED BY <2>2, <2>3
<1>19. /\ Undeclared(r.spaces) = Undeclared(spaces) \cup Claims(c)
       /\ \A i \in DOMAIN r.spaces : r.spaces[i].prefix # "bad"
       /\ \A i \in DOMAIN rest : rest[i].uri # Empty => Unregistered(r.spaces, rest[i].prefix)
  <2>1. CASE a.uri = Empty
    <3>1. r.spaces = spaces /\ Claims(c) = {}
      BY <1>8, <1>11, <2>1 DEF Claims
    <3> QED BY <1>3, <1>6, <3>1
  <2>2. CASE a.uri # Empty
    <3> DEFINE ns == SpaceOf(a)
               n == Len(spaces) + 1
               more == Append(spaces, ns)
    <3>1. r.spaces = more
      BY <1>11, <2>2
    <3>2. ns \in Spaces /\ ns.prefix = c.prefix /\ ns.uri = c.uri /\ ns.written = FALSE
      BY <1>8, <1>12, <2>2, SpaceOfIsSpace
    <3>9. ns \in Spaces
      BY <3>2
    <3> HIDE DEF ns
    <3>3. Claims(c) = {Att("xmlns", ns.prefix, ns.uri)}
      BY <1>8, <2>2, <3>2 DEF Claims
    <3>4. Undeclared(r.spaces) = Undeclared(spaces) \cup Claims(c)
      BY <3>1, <3>2, <3>3, UndeclaredMore
    <3>5. /\ more[n] = ns
          /\ \A i \in DOMAIN spaces : more[i] = spaces[i]
          /\ \A i \in DOMAIN more : i = n \/ i \in DOMAIN spaces
      BY <3>9, LastAdded, Zenon
    <3> HIDE DEF n, more
    <3>6. c.prefix # "bad"
      BY <1>5 DEF CallFits
    <3>7. \A i \in DOMAIN r.spaces : r.spaces[i].prefix # "bad"
      BY <1>3, <3>1, <3>2, <3>5, <3>6
    <3>8. ASSUME NEW i \in DOMAIN rest, rest[i].uri # Empty PROVE Unregistered(r.spaces, rest[i].prefix)
      <4>1. rest[i].prefix # c.prefix /\ Unregistered(spaces, rest[i].prefix)
        BY <1>4, <1>6, <1>8, <2>2, <3>8
      <4> QED BY <3>1, <3>2, <3>5, <4>1 DEF Unregistered
    <3> QED BY <3>4, <3>7, <3>8
  <2> QED BY <2>1, <2>2
<1>20. Marked(r.out) \cup Undeclared(r.spaces) \cup ToWrite(rest) \cup ToClaim(rest) = all
  BY <1>2, <1>3, <1>17, <1>19
<1>21. r.failed = FALSE /\ AddsUp(r.spaces, r.out, rest, all)
  BY <1>4, <1>11, <1>17, <1>18, <1>19, <1>20 DEF AddsUp
<1> QED
  BY <1>21 DEF r, a, rest, c

(* and when the element is opened: every unwritten namespace comes to be   *)
(* an attribute of the tag, which had none for its prefix.                 *)
LEMMA OpenedAddsUp ==
  ASSUME NEW spaces \in Seq(Spaces), Once(spaces), NEW out \in Seq(Marks), NEW plain, Bound(spaces, out, plain),
         NEW all, AddsUp(spaces, out, <<>>, all), OnlyPlain(out, plain)
  PROVE  LET new  == Unwritten(spaces)
             more == MarkedWritten(spaces, new)
         IN AllWritten(more) /\ AddsUp(more, out \o DeclarationsOf(new), <<>>, all)
            /\ \A k \in DOMAIN new : CheckName(new[k].prefix, Empty)
<1> DEFINE new == Unwritten(spaces)
           more == MarkedWritten(spaces, new)
           decls == DeclarationsOf(new)
           longer == out \o decls
           n == Len(out)
<1>1. AllWritten(more)
  BY OpenedBound, Zenon
<1>2. new \in Seq(Spaces)
  BY UnwrittenSelects
<1>3. PICK f \in [DOMAIN new -> DOMAIN spaces] :
        /\ \A k \in DOMAIN new : new[k] = spaces[f[k]] /\ ~spaces[f[k]].written
        /\ \A j, k \in DOMAIN new : f[j] = f[k] => j = k
        /\ \A i \in DOMAIN spaces : ~spaces[i].written => \E k \in DOMAIN new : f[k] = i
  BY UnwrittenSelects
<1> HIDE DEF new
<1>4. DOMAIN more = DOMAIN spaces /\ \A i \in DOMAIN spaces : more[i].prefix = spaces[i].prefix
  BY MarkedWrittenFits, Zenon
<1>5. /\ decls \in Seq(Marks) /\ DOMAIN decls = DOMAIN new
      /\ \A k \in DOMAIN new : decls[k].prefix = "xmlns" /\ decls[k].name = new[k].prefix /\ decls[k].value = new[k].uri
  BY <1>2, DeclarationsOfMarks
<1> HIDE DEF decls
<1>6. /\ \A i \in DOMAIN out : i \in DOMAIN longer /\ longer[i] = out[i]
      /\ \A k \in DOMAIN decls : n + k \in DOMAIN longer /\ longer[n + k] = decls[k]
      /\ \A d \in DOMAIN longer : d \in DOMAIN out \/ \E k \in DOMAIN decls : d = n + k
  <2>1. decls \in Seq(Marks)
    BY <1>5
  <2>2. Extends(longer, out, decls)
    BY <2>1, JoinedExtends, Zenon
  <2> HIDE DEF longer
  <2> QED BY <1>5, <2>2 DEF Extends
<1> HIDE DEF longer, n, more
<1>7. /\ Marked(out) \cup Undeclared(spaces) \cup ToWrite(<<>>) \cup ToClaim(<<>>) = all
      /\ WritesOnce(<<>>) /\ ClaimsOnce(<<>>) /\ KeysOnce(out)
      /\ \A i \in DOMAIN spaces : spaces[i].prefix # "bad"
  BY DEF AddsUp
<1>8. \A k \in DOMAIN new : f[k] \in DOMAIN spaces /\ new[k] = spaces[f[k]] /\ ~spaces[f[k]].written
  BY <1>3
<1>9. \A k \in DOMAIN new : CheckName(new[k].prefix, Empty)
  <2>1. Empty # "bad"
    BY Zenon DEF Empty
  <2> QED BY <1>7, <1>8, <2>1 DEF CheckName
<1>10. Undeclared(more) = {}
  BY <1>1 DEF Undeclared, AllWritten
<1>11. Marked(longer) = Marked(out) \cup Undeclared(spaces)
  <2>1. ASSUME NEW k \in DOMAIN new PROVE AttOf(decls[k]) = Att("xmlns", spaces[f[k]].prefix, spaces[f[k]].uri)
    BY <1>5, <1>8 DEF AttOf
  <2>2. ASSUME NEW x \in Marked(longer) PROVE x \in Marked(out) \cup Undeclared(spaces)
    <3>1. PICK d \in DOMAIN longer : x = AttOf(longer[d])
      BY Zenon DEF Marked
    <3>2. CASE d \in DOMAIN out
      BY <1>6, <3>1, <3>2 DEF Marked
    <3>3. CASE \E k \in DOMAIN decls : d = n + k
      <4>1. PICK k \in DOMAIN new : longer[d] = decls[k]
        BY <1>5, <1>6, <3>3
      <4>2. x = Att("xmlns", spaces[f[k]].prefix, spaces[f[k]].uri)
        BY <2>1, <3>1, <4>1
      <4> QED BY <1>8, <4>2 DEF Undeclared
    <3> QED BY <1>6, <3>2, <3>3
  <2>3. ASSUME NEW x \in Marked(out) PROVE x \in Marked(longer)
    BY <1>6 DEF Marked
  <2>4. ASSUME NEW x \in Undeclared(spaces) PROVE x \in Marked(longer)
    <3>1. PICK i \in DOMAIN spaces : ~spaces[i].written /\ x = Att("xmlns", spaces[i].prefix, spaces[i].uri)
      BY Zenon DEF Undeclared
    <3>2. PICK k \in DOMAIN new : f[k] = i
      BY <1>3, <3>1
    <3>3. x = AttOf(decls[k])
      BY <2>1, <3>1, <3>2
    <3> QED BY <1>5, <1>6, <3>2, <3>3 DEF Marked
  <2> QED BY <2>2, <2>3, <2>4
<1>12. KeysOnce(longer)
  <2>1. ASSUME NEW i \in DOMAIN out, NEW k \in DOMAIN new PROVE ~SameKey(out[i], decls[k]) /\ ~SameKey(decls[k], out[i])
    <3>1. Decls(out, spaces[f[k]].prefix) = {} /\ spaces[f[k]].prefix \notin plain
      BY <1>8 DEF Bound
    <3>2. i \notin Decls(out, spaces[f[k]].prefix) /\ out[i].by \in {"user", "writer"}
      <4>1. out[i] \in Marks
        BY LenProperties, ElementOfSeq
      <4> QED BY <3>1, <4>1 DEF Marks
    <3>3. ~(out[i].prefix = "xmlns" /\ out[i].name = spaces[f[k]].prefix)
      BY <3>1, <3>2 DEF Decls, OnlyPlain
    <3>4. decls[k].prefix = "xmlns" /\ decls[k].name = spaces[f[k]].prefix
      BY <1>5, <1>8
    <3> QED BY <3>3, <3>4 DEF SameKey
  <2>2. ASSUME NEW j \in DOMAIN new, NEW k \in DOMAIN new, SameKey(decls[j], decls[k]) PROVE j = k
    <3>1. spaces[f[j]].prefix = spaces[f[k]].prefix
      BY <1>5, <1>8, <2>2 DEF SameKey
    <3>2. f[j] = f[k]
      BY <1>8, <3>1 DEF Once
    <3> QED BY <1>3, <3>2
  <2>3. ASSUME NEW i \in DOMAIN longer, NEW j \in DOMAIN longer, SameKey(longer[i], longer[j]) PROVE i = j
    <3>1. CASE i \in DOMAIN out /\ j \in DOMAIN out
      BY <1>6, <1>7, <2>3, <3>1 DEF KeysOnce
    <3>2. CASE i \in DOMAIN out /\ \E k \in DOMAIN decls : j = n + k
      <4>1. PICK k \in DOMAIN new : longer[j] = decls[k]
        BY <1>5, <1>6, <3>2
      <4> QED BY <1>6, <2>1, <2>3, <3>2, <4>1
    <3>3. CASE j \in DOMAIN out /\ \E k \in DOMAIN decls : i = n + k
      <4>1. PICK k \in DOMAIN new : longer[i] = decls[k]
        BY <1>5, <1>6, <3>3
      <4> QED BY <1>6, <2>1, <2>3, <3>3, <4>1
    <3>4. CASE (\E k \in DOMAIN decls : i = n + k) /\ \E k \in DOMAIN decls : j = n + k
      <4>1. PICK k \in DOMAIN new : i = n + k /\ longer[i] = decls[k]
        BY <1>5, <1>6, <3>4
      <4>2. PICK l \in DOMAIN new : j = n + l /\ longer[j] = decls[l]
        BY <1>5, <1>6, <3>4
      <4> QED BY <2>2, <2>3, <4>1, <4>2
    <3> QED BY <1>6, <3>1, <3>2, <3>3, <3>4
  <2> QED BY <2>3 DEF KeysOnce
<1>13. \A i \in DOMAIN more : more[i].prefix # "bad"
  BY <1>4, <1>7
<1>14. DOMAIN <<>> = {}
  BY NoneOrOne
<1>15. AddsUp(more, longer, <<>>, all)
  BY <1>7, <1>10, <1>11, <1>12, <1>13, <1>14 DEF AddsUp
<1> QED
  BY <1>1, <1>9, <1>15 DEF longer, decls, more, new

(* The script has the whole source to write,                               *)
LEMMA RebuildingInit == Init => Rebuilding
<1> SUFFICES ASSUME Init, src # Free PROVE Rebuilding
  BY DEF Rebuilding
<1>1. src \in StartTags /\ script = XmlElemStart(src)
  BY DEF Init
<1>2. elem.state = "none" /\ elem.namespaces = <<>> /\ tag = <<>> /\ err = FALSE
  BY DEF Init, TagInit
<1>3. DOMAIN <<>> = {}
  BY NoneOrOne
<1>4. ToWrite(script) \cup ToClaim(script) = AttsOf(src)
  BY <1>1, ScriptWritesAll, Zenon DEF AttsOf
<1>5. WritesOnce(script) /\ ClaimsOnce(script)
  BY <1>1, ScriptOnce, Zenon
<1>6. Marked(tag) = {} /\ Undeclared(elem.namespaces) = {}
  BY <1>2, <1>3 DEF Marked, Undeclared
<1>7. AddsUp(elem.namespaces, tag, script, AttsOf(src))
  BY <1>2, <1>3, <1>4, <1>5, <1>6 DEF AddsUp, KeysOnce, Unregistered
<1> QED
  BY <1>1, <1>2, <1>3, <1>7 DEF Rebuilding, OnlyPlain

(* The steps of the script.                                                *)
LEMMA PlayRebuilds ==
  ASSUME TagInv, Rebuilding, src # Free, Play
  PROVE  Rebuilding'
<1> DEFINE c == Head(script)
           rest == Tail(script)
           all == AttsOf(src)
           plain == Plain(src)
<1>1. script \in Seq(Calls) /\ src \in StartTags /\ \A i \in DOMAIN script : CallFits(script[i], plain)
  BY DEF TagInv, Scripted
<1>2. script # <<>> /\ script' = rest /\ src' = src
  BY DEF Play
<1>3. /\ err = FALSE /\ elem.state # "torn"
      /\ elem.state = "none" => script = XmlElemStart(src)
      /\ elem.state # "none" => elem.prefix = src.prefix /\ \A i \in DOMAIN script : script[i].op = "attr"
      /\ elem.state = "opened" => script = <<>>
      /\ AddsUp(elem.namespaces, tag, script, all) /\ OnlyPlain(tag, plain)
  BY DEF Rebuilding
<1>4. /\ \A i \in DOMAIN rest : i + 1 \in DOMAIN script /\ rest[i] = script[i + 1] /\ i + 1 # 1
      /\ 1 \in DOMAIN script /\ c = script[1]
  BY <1>1, <1>2, OneCallLess, Zenon
<1>5. elem \in Elems /\ elem.namespaces \in Seq(Spaces) /\ tag \in Seq(Marks)
  BY ElemParts DEF TagInv, ElemTyped
<1>6. AttsOf(src)' = all /\ Plain(src)' = plain
  BY <1>2
<1>7. ASSUME elem'.state # "none", elem'.state # "torn", elem'.state # "opened", elem'.prefix = src.prefix, err' = FALSE,
             \A i \in DOMAIN rest : rest[i].op = "attr", AddsUp(elem'.namespaces, tag', rest, all),
             OnlyPlain(tag', plain)
      PROVE  Rebuilding'
  BY <1>2, <1>6, <1>7 DEF Rebuilding
<1>8. CASE elem.state = "none"
  <2>1. script = XmlElemStart(src)
    BY <1>3, <1>8
  <2>2. script[1] = StartCall(src) /\ \A i \in DOMAIN script : i # 1 => script[i].op = "attr"
    BY <1>1, <2>1, ScriptFits, Zenon
  <2>3. c.op = "start" /\ c.prefix = src.prefix /\ \A i \in DOMAIN rest : rest[i].op = "attr"
    BY <1>1, <1>4, <2>2, CallsAre
  <2>4. CallFits(c, plain)
    BY <1>1, <1>4
  <2>5. "start" # "attr"
    OBVIOUS
  <2>6. Start(c.prefix, c.uri, <<>>)
    <3>1. \/ c.op = "start" /\ Start(c.prefix, c.uri, <<>>)
          \/ c.op = "attr" /\ WriteAttr(Attribute(c))
      BY Zenon DEF Play
    <3> QED BY <2>3, <2>5, <3>1
  <2> DEFINE own == Own(c.prefix, c.uri)
             out == DeclarationsOf(own)
  <2>7. AddsUp(own, out, rest, ToWrite(script) \cup ToClaim(script))
    <3>1. WritesOnce(script) /\ ClaimsOnce(script)
      BY <1>3 DEF AddsUp
    <3> QED BY <1>1, <1>2, <2>3, <3>1, StartAddsUp, Zenon
  <2>8. ToWrite(script) \cup ToClaim(script) = all
    BY <1>1, <2>1, ScriptWritesAll, Zenon DEF AttsOf
  <2>9. /\ elem' = [state |-> "open", prefix |-> c.prefix, uri |-> c.uri, namespaces |-> own]
        /\ tag' = out /\ err' = FALSE
    <3>1. Open(c.prefix, c.uri, <<>>) = Result(own, out, FALSE)
      BY DEF Open, Own, DeclarationsOf
    <3>2. c.prefix # "bad"
      BY <2>4 DEF CallFits
    <3> DEFINE r == Open(c.prefix, c.uri, <<>>)
    <3>3. /\ elem' = [state |-> "open", prefix |-> c.prefix, uri |-> c.uri, namespaces |-> r.spaces]
          /\ tag' = r.out /\ err' = r.failed
      BY <2>6, <3>2 DEF Start
    <3>4. r.spaces = own /\ r.out = out /\ r.failed = FALSE
      BY <3>1 DEF Result
    <3> HIDE DEF r, own, out
    <3> QED BY <3>3, <3>4
  <2>11. OnlyPlain(out, plain)
    <3>1. c \in Calls /\ c.prefix \in AnyPrefix /\ (c.uri # Empty => c.prefix \notin plain)
      BY <2>3, <2>4, Zenon DEF CallFits
    <3>2. c.uri \in AnyURI
      BY <3>1 DEF Calls
    <3>3. own \in Seq(Spaces)
      BY <3>1, <3>2, OwnFits, Zenon
    <3> QED BY <1>3, <1>5, <3>3, OnlyPlainDeclared, Zenon
  <2> HIDE DEF own, out, c, rest
  <2>10. elem'.state = "open" /\ elem'.prefix = c.prefix /\ elem'.namespaces = own
    BY <2>9
  <2> QED BY <1>7, <2>3, <2>7, <2>8, <2>9, <2>10, <2>11 DEF rest
<1>9. CASE elem.state # "none"
  <2>1. elem.state = "open"
    BY <1>2, <1>3, <1>5, <1>9, ElemParts DEF States
  <2>2. c.op = "attr" /\ \A i \in DOMAIN rest : rest[i].op = "attr"
    BY <1>3, <1>4, <1>9
  <2>3. WriteAttr(Attribute(c))
    <3>1. \/ c.op = "start" /\ Start(c.prefix, c.uri, <<>>)
          \/ c.op = "attr" /\ WriteAttr(Attribute(c))
      BY Zenon DEF Play
    <3>2. ~Start(c.prefix, c.uri, <<>>)
      BY <2>1 DEF Start
    <3> QED BY <3>1, <3>2
  <2> DEFINE r == Attr(Result(elem.namespaces, tag, FALSE), Attribute(c))
  <2>4. r.failed = FALSE /\ AddsUp(r.spaces, r.out, rest, all)
    BY <1>1, <1>2, <1>3, <1>5, <2>2, AttrAddsUp, Zenon
  <2>5. elem' = [elem EXCEPT !.namespaces = r.spaces] /\ tag' = r.out /\ err' = FALSE
    BY <2>1, <2>3, <2>4, Zenon DEF WriteAttr
  <2>8. CallFits(c, plain)
    BY <1>1, <1>4
  <2>9. Argument(Attribute(c))
    BY <2>8, AttributeFits, Zenon DEF Fits
  <2>6. r.spaces \in Seq(Spaces)
    <3>1. Once(elem.namespaces)
      BY DEF TagInv, ElemTyped
    <3> QED BY <1>5, <2>9, <3>1, AttrTypes, Zenon
  <2>10. OnlyPlain(tag', plain)
    <3> DEFINE m == MarkOf(Attribute(c))
    <3>1. m \in Marks /\ m.prefix = c.prefix /\ m.name = c.name
      <4>1. Attribute(c).prefix = c.prefix /\ Attribute(c).name = c.name
        BY DEF Attribute
      <4> QED BY <2>9, <4>1, MarkOfIsMark DEF Argument
    <3>2. r.out = tag \/ r.out = Append(tag, m)
      BY <1>5, <2>9, AttrTag, Zenon
    <3> HIDE DEF r, m, c
    <3>3. m.prefix = "xmlns" => m.name \in plain
      BY <2>8, <3>1 DEF CallFits
    <3>4. OnlyPlain(Append(tag, m), plain)
      BY <1>3, <1>5, <3>1, <3>3, OnlyPlainMore
    <3> QED BY <1>3, <2>5, <3>2, <3>4
  <2> HIDE DEF r, c, rest
  <2>7. elem'.state = elem.state /\ elem'.prefix = elem.prefix /\ elem'.namespaces = r.spaces
    BY <1>5, <2>5, <2>6, ElemRegisters
  <2> QED BY <1>3, <1>7, <1>9, <2>1, <2>2, <2>4, <2>5, <2>7, <2>10 DEF rest
<1> QED
  BY <1>8, <1>9

(* Opening the element declares what was claimed and not yet written.      *)
LEMMA OpenNowRebuilds ==
  ASSUME TagInv, Rebuilding, src # Free, OpenNow
  PROVE  Rebuilding'
<1> DEFINE spaces == elem.namespaces
           new  == Unwritten(spaces)
           bads == {i \in DOMAIN new : ~CheckName(new[i].prefix, Empty)}
           good == IF bads = {} THEN new
                   ELSE SubSeq(new, 1, (CHOOSE i \in bads : \A j \in bads : i <= j) - 1)
           more == MarkedWritten(spaces, good)
           all == AttsOf(src)
<1>1. script = <<>> /\ Opened /\ src' = src /\ script' = script
  BY DEF OpenNow
<1>2. elem.state = "open"
  BY <1>1 DEF Opened
<1>3. elem \in Elems /\ spaces \in Seq(Spaces) /\ Once(spaces) /\ tag \in Seq(Marks)
  BY ElemParts DEF TagInv, ElemTyped
<1>4. Bound(spaces, tag, Plain(src))
  BY <1>2 DEF TagInv, Declared
<1>5. elem.prefix = src.prefix /\ AddsUp(spaces, tag, <<>>, all) /\ OnlyPlain(tag, Plain(src))
  BY <1>1, <1>2 DEF Rebuilding
<1>6. /\ AllWritten(MarkedWritten(spaces, new))
      /\ AddsUp(MarkedWritten(spaces, new), tag \o DeclarationsOf(new), <<>>, all)
      /\ \A k \in DOMAIN new : CheckName(new[k].prefix, Empty)
  BY <1>3, <1>4, <1>5, OpenedAddsUp, Zenon
<1>7. bads = {}
  BY <1>6
<1>8. good = new
  BY <1>7
<1>9. /\ tag' = tag \o DeclarationsOf(good)
      /\ elem' = [elem EXCEPT !.state = IF bads = {} THEN "opened" ELSE "torn", !.namespaces = more]
      /\ err' = (bads # {})
  BY <1>1, Zenon DEF Opened, DeclarationsOf, MarkedWritten
<1>10. more \in Seq(Spaces)
  BY <1>3, MarkedWrittenFits, Zenon
<1> HIDE DEF good, bads, new
<1>11. /\ tag' = tag \o DeclarationsOf(new) /\ err' = FALSE
       /\ elem' = [elem EXCEPT !.state = "opened", !.namespaces = more]
  BY <1>7, <1>8, <1>9
<1>12. more = MarkedWritten(spaces, new)
  BY <1>8
<1> HIDE DEF more
<1>13. elem'.state = "opened" /\ elem'.prefix = elem.prefix /\ elem'.namespaces = more
  <2>1. "opened" \in States
    BY DEF States
  <2>2. elem \in Elems
    BY <1>3
  <2> DEFINE g == [elem EXCEPT !.state = "opened", !.namespaces = more]
  <2>3. g.state = "opened" /\ g.prefix = elem.prefix /\ g.namespaces = more
    BY <2>2 DEF Elems
  <2> HIDE DEF g
  <2> QED BY <1>11, <2>3 DEF g
<1>14. AttsOf(src)' = all /\ Plain(src)' = Plain(src)
  BY <1>1
<1>17. OnlyPlain(tag', Plain(src)')
  <2>1. new \in Seq(Spaces)
    BY <1>3, UnwrittenSelects, Zenon DEF new
  <2>2. OnlyPlain(tag \o DeclarationsOf(new), Plain(src))
    BY <1>3, <1>5, <2>1, OnlyPlainDeclared, Zenon
  <2> QED BY <1>11, <1>14, <2>2
<1>15. AddsUp(elem'.namespaces, tag', script', AttsOf(src)') /\ AllWritten(elem'.namespaces)
  BY <1>1, <1>6, <1>11, <1>12, <1>13, <1>14
<1>16. DOMAIN <<>> = {}
  BY NoneOrOne
<1> QED
  BY <1>1, <1>5, <1>11, <1>13, <1>15, <1>16, <1>17 DEF Rebuilding

(* All steps keep the sum.                                                 *)
LEMMA RebuildingNext == TagInv /\ Rebuilding /\ [Next]_vars => Rebuilding'
<1> SUFFICES ASSUME TagInv, Rebuilding, [Next]_vars PROVE Rebuilding'
  OBVIOUS
<1>1. CASE src = Free
  <2>1. src' = src
    <3>1. Play \/ OpenNow \/ FreeStart \/ FreeAttr => src' = src
      BY Zenon DEF Play, OpenNow, FreeStart, FreeAttr
    <3>2. UNCHANGED vars => src' = src
      BY DEF vars
    <3> QED BY <3>1, <3>2 DEF Next
  <2> QED BY <1>1, <2>1 DEF Rebuilding
<1>2. CASE src # Free
  <2>1. ~FreeStart /\ ~FreeAttr
    BY <1>2 DEF FreeStart, FreeAttr
  <2>2. CASE Play
    BY <1>2, <2>2, PlayRebuilds
  <2>3. CASE OpenNow
    BY <1>2, <2>3, OpenNowRebuilds
  <2>4. CASE UNCHANGED vars
    <3>1. elem' = elem /\ tag' = tag /\ err' = err /\ src' = src /\ script' = script
      BY <2>4 DEF vars
    <3>2. AttsOf(src)' = AttsOf(src) /\ Plain(src)' = Plain(src)
      BY <3>1
    <3> QED BY <3>1, <3>2 DEF Rebuilding
  <2> QED BY <2>1, <2>2, <2>3, <2>4 DEF Next
<1> QED
  BY <1>1, <1>2

(* A map between numbered places that takes no two to one leaves none      *)
(* over.                                                                   *)
LEMMA NoFewer ==
  ASSUME NEW m \in Nat, NEW n \in Nat, NEW f \in [1 .. m -> 1 .. n], \A i, j \in 1 .. m : f[i] = f[j] => i = j
  PROVE  m <= n
<1>1. f \in Injection(1 .. m, 1 .. n)
  BY DEF Injection, IsInjective
<1>2. IsFiniteSet(1 .. m) /\ Cardinality(1 .. m) = m /\ IsFiniteSet(1 .. n) /\ Cardinality(1 .. n) = n
  BY FS_Interval
<1>3. Cardinality(1 .. m) <= Cardinality(1 .. n)
  BY <1>1, <1>2, FS_Injection
<1> QED
  BY <1>2, <1>3

(* A tag that has the attributes of the source, each once, has as many.    *)
LEMMA SameLength ==
  ASSUME NEW t \in StartTags, NEW out \in Seq(Marks), KeysOnce(out), Marked(out) = AttsOf(t)
  PROVE  Len(out) = Len(t.atts)
<1>1. /\ t.atts \in Seq(Atts) /\ Distinct(t.atts)
      /\ Len(out) \in Nat /\ DOMAIN out = 1 .. Len(out) /\ Len(t.atts) \in Nat /\ DOMAIN t.atts = 1 .. Len(t.atts)
  BY StartTagsAre, LenProperties
<1>2. \A i \in DOMAIN out : \E k \in DOMAIN t.atts : AttOf(out[i]) = t.atts[k]
  <2>1. ASSUME NEW i \in DOMAIN out PROVE AttOf(out[i]) \in AttsOf(t)
    BY DEF Marked
  <2> QED BY <2>1 DEF AttsOf
<1>3. \A k \in DOMAIN t.atts : \E i \in DOMAIN out : AttOf(out[i]) = t.atts[k]
  <2>1. ASSUME NEW k \in DOMAIN t.atts PROVE t.atts[k] \in Marked(out)
    BY DEF AttsOf
  <2> QED BY <2>1 DEF Marked
<1>4. \A i \in DOMAIN out : AttOf(out[i]).prefix = out[i].prefix /\ AttOf(out[i]).name = out[i].name
  BY DEF AttOf, Att
<1>5. Len(out) <= Len(t.atts)
  <2> DEFINE f == [i \in 1 .. Len(out) |-> CHOOSE k \in DOMAIN t.atts : AttOf(out[i]) = t.atts[k]]
  <2>1. ASSUME NEW i \in 1 .. Len(out) PROVE f[i] \in DOMAIN t.atts /\ AttOf(out[i]) = t.atts[f[i]]
    BY <1>1, <1>2
  <2>2. f \in [1 .. Len(out) -> 1 .. Len(t.atts)]
    BY <1>1, <2>1
  <2> HIDE DEF f
  <2>3. ASSUME NEW i \in 1 .. Len(out), NEW j \in 1 .. Len(out), f[i] = f[j] PROVE i = j
    <3>1. AttOf(out[i]) = AttOf(out[j])
      BY <2>1, <2>3
    <3>2. SameKey(out[i], out[j])
      BY <1>1, <1>4, <3>1 DEF SameKey
    <3> QED BY <1>1, <3>2 DEF KeysOnce
  <2> QED BY <1>1, <2>2, <2>3, NoFewer
<1>6. Len(t.atts) <= Len(out)
  <2> DEFINE g == [k \in 1 .. Len(t.atts) |-> CHOOSE i \in DOMAIN out : AttOf(out[i]) = t.atts[k]]
  <2>1. ASSUME NEW k \in 1 .. Len(t.atts) PROVE g[k] \in DOMAIN out /\ AttOf(out[g[k]]) = t.atts[k]
    BY <1>1, <1>3
  <2>2. g \in [1 .. Len(t.atts) -> 1 .. Len(out)]
    BY <1>1, <2>1
  <2> HIDE DEF g
  <2>3. ASSUME NEW j \in 1 .. Len(t.atts), NEW k \in 1 .. Len(t.atts), g[j] = g[k] PROVE j = k
    <3>1. t.atts[j] = t.atts[k]
      BY <2>1, <2>3
    <3> QED BY <1>1, <3>1 DEF Distinct
  <2> QED BY <1>1, <2>2, <2>3, NoFewer
<1> QED
  BY <1>1, <1>5, <1>6

(* When nothing is left, the tag has it all.                               *)
LEMMA RebuildingRebuilds == TagInv /\ Rebuilding => TagRebuilt
<1> SUFFICES ASSUME TagInv, Rebuilding, src # Free PROVE TagRebuilt
  BY DEF TagRebuilt
<1>1. src \in StartTags /\ tag \in Seq(Marks)
  BY DEF TagInv, Scripted, ElemTyped
<1>2. ~err
  BY DEF Rebuilding
<1>3. ASSUME elem.state = "opened"
      PROVE  /\ elem.prefix = src.prefix /\ Len(tag) = Len(src.atts)
             /\ {Att(tag[i].prefix, tag[i].name, tag[i].value) : i \in DOMAIN tag} = Range(src.atts)
  <2>1. /\ elem.prefix = src.prefix /\ script = <<>> /\ AllWritten(elem.namespaces)
        /\ AddsUp(elem.namespaces, tag, script, AttsOf(src))
    BY <1>3 DEF Rebuilding
  <2>2. DOMAIN <<>> = {}
    BY NoneOrOne
  <2>3. Undeclared(elem.namespaces) = {} /\ ToWrite(script) = {} /\ ToClaim(script) = {}
    BY <2>1, <2>2 DEF Undeclared, AllWritten, ToWrite, ToClaim
  <2>4. Marked(tag) = AttsOf(src) /\ KeysOnce(tag)
    BY <2>1, <2>3 DEF AddsUp
  <2>5. Len(tag) = Len(src.atts)
    BY <1>1, <2>4, SameLength
  <2>6. {Att(tag[i].prefix, tag[i].name, tag[i].value) : i \in DOMAIN tag} = Marked(tag)
    BY DEF Marked, AttOf
  <2>7. Range(src.atts) = AttsOf(src)
    BY Zenon DEF Range, AttsOf
  <2> QED BY <2>1, <2>4, <2>5, <2>6, <2>7
<1> QED
  BY <1>2, <1>3 DEF TagRebuilt

-----------------------------------------------------------------------------
(* What holds of every run. *)

(* Every part of the state keeps its type, and a namespace is registered   *)
(* for a prefix once, whatever calls are made (attr.go:80-98).             *)
THEOREM TagTypeCorrect == Spec => []TypeOK
<1>1. Init => TagInv
  BY TagInvInit
<1>2. TagInv /\ [Next]_vars => TagInv'
  BY TagInvNext
<1>3. TagInv => TypeOK
  BY TagInvTypes
<1> QED
  BY <1>1, <1>2, <1>3, PTL DEF Spec

(* Opening an element fails only after a call of its user has returned an  *)
(* error: a name that is none was refused when it was registered           *)
(* (elem.go:74-107).                                                       *)
THEOREM TearingIsRefused == Spec => []OnlyRefusalTears
<1>1. Init => TagInv
  BY TagInvInit
<1>2. TagInv /\ [Next]_vars => TagInv'
  BY TagInvNext
<1>3. TagInv => OnlyRefusalTears
  BY TagInvTears
<1> QED
  BY <1>1, <1>2, <1>3, PTL DEF Spec

(* In a finished start tag, each prefix that was given a URI is declared   *)
(* by the Writer exactly once and with that URI, for every order of calls  *)
(* that register and write it, those that write an xmlns:p of their own    *)
(* among them.                                                             *)
THEOREM PrefixesAreBound == Spec => []PrefixesBound
<1>1. Init => TagInv
  BY TagInvInit
<1>2. TagInv /\ [Next]_vars => TagInv'
  BY TagInvNext
<1>3. TagInv => PrefixesBound
  BY TagInvBinds
<1> QED
  BY <1>1, <1>2, <1>3, PTL DEF Spec

(* testbuilder takes a start tag apart and gotester writes it again: no    *)
(* call is refused, and the finished tag has the attributes of the source, *)
(* those that declare prefixes too, each once (testbuilder.c,              *)
(* xml_elem_start; elem.go:74-107).                                        *)
THEOREM TagIsRebuilt == Spec => []TagRebuilt
<1> DEFINE Inv == TagInv /\ Rebuilding
<1>1. Init => Inv
  BY TagInvInit, RebuildingInit
<1>2. Inv /\ [Next]_vars => Inv'
  BY TagInvNext, RebuildingNext
<1>3. Inv => TagRebuilt
  BY RebuildingRebuilds
<1> QED
  BY <1>1, <1>2, <1>3, PTL DEF Spec
=============================================================================
