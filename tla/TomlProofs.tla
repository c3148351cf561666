----------------------------- MODULE TomlProofs -----------------------------
(***************************************************************************)
(* What TLAPS proves of Toml, for any keys, any contents of inline tables, *)
(* and any numbers of parts and statements: every document makes a tree,   *)
(* what it says is found in it, a plain document that is valid is          *)
(* accepted, and, where keys have one part, no other is.                   *)
(*                                                                         *)
(* The ways down a path are recursive functions; what holds of them holds  *)
(* after every step, by the least number of steps after which it would     *)
(* not.                                                                    *)
(***************************************************************************)
EXTENDS Toml, SequenceTheorems, FiniteSetTheorems, WellFoundedInduction, TLAPS

-----------------------------------------------------------------------------
(* Numbers. *)

\* A set of numbers has a least one.
LEMMA Least ==
  ASSUME NEW S \in SUBSET Nat, S # {}
  PROVE  \E x \in S : \A y \in S : x <= y
<1> DEFINE R == {ss \in Nat \X Nat : ss[1] < ss[2]}
<1>1. IsWellFoundedOn(R, Nat)
  BY NatLessThanWellFounded DEF OpToRel
<1>2. \A x, y \in Nat : x < y => <<x, y>> \in R
  OBVIOUS
<1> HIDE DEF R
<1>3. PICK x \in S : \A y \in S : ~(<<y, x>> \in R)
  BY <1>1, WFMin
<1>4. \A y \in S : ~(y < x)
  BY <1>2, <1>3
<1>5. x \in Nat /\ \A y \in S : y \in Nat
  OBVIOUS
<1>6. \A y \in S : x <= y
  BY <1>4, <1>5
<1> QED BY <1>6

-----------------------------------------------------------------------------
(* Paths. *)

Labels == Keys \cup ToSet(Elements)
Pre(w, k) == SubSeq(w, 1, k)

LEMMA PreIs ==
  ASSUME NEW S, NEW w \in Seq(S), NEW k \in 0 .. Len(w)
  PROVE  /\ Pre(w, k) \in Seq(S) /\ Len(Pre(w, k)) = k
         /\ \A j \in 1 .. k : Pre(w, k)[j] = w[j]
<1>1. k \in Int /\ 1 \in Int /\ \A i \in 1 .. k : w[i] \in S
  OBVIOUS
<1>2. /\ SubSeq(w, 1, k) \in Seq(S)
      /\ Len(SubSeq(w, 1, k)) = IF 1 <= k THEN k - 1 + 1 ELSE 0
      /\ \A i \in 1 .. k - 1 + 1 : SubSeq(w, 1, k)[i] = w[1 + i - 1]
  BY <1>1, SubSeqProperties
<1> QED BY <1>2 DEF Pre

LEMMA PreEnds ==
  ASSUME NEW S, NEW w \in Seq(S)
  PROVE  Pre(w, 0) = <<>> /\ Pre(w, Len(w)) = w
BY SubSeqFull, SubSeqEmpty DEF Pre

LEMMA PreNext ==
  ASSUME NEW S, NEW w \in Seq(S), NEW k \in 0 .. Len(w) - 1
  PROVE  /\ w[k + 1] \in S /\ Pre(w, k) \in Seq(S)
         /\ Pre(w, k + 1) = Append(Pre(w, k), w[k + 1])
<1>1. k + 1 \in 1 .. Len(w) /\ k \in 0 .. Len(w) /\ k + 1 \in 0 .. Len(w)
  OBVIOUS
<1>2. w[k + 1] \in S /\ Pre(w, k) \in Seq(S) /\ Pre(w, k + 1) \in Seq(S)
  BY <1>1, PreIs
<1>3. Len(Pre(w, k + 1)) = k + 1 /\ Len(Pre(w, k)) = k
  BY <1>1, PreIs
<1>4. /\ Append(Pre(w, k), w[k + 1]) \in Seq(S) /\ Len(Append(Pre(w, k), w[k + 1])) = k + 1
      /\ \A j \in 1 .. k : Append(Pre(w, k), w[k + 1])[j] = Pre(w, k)[j]
      /\ Append(Pre(w, k), w[k + 1])[k + 1] = w[k + 1]
  BY <1>2, <1>3, AppendProperties
<1>5. \A j \in 1 .. k + 1 : Pre(w, k + 1)[j] = Append(Pre(w, k), w[k + 1])[j]
  <2> SUFFICES ASSUME NEW j \in 1 .. k + 1
               PROVE Pre(w, k + 1)[j] = Append(Pre(w, k), w[k + 1])[j]
    OBVIOUS
  <2>1. Pre(w, k + 1)[j] = w[j]
    BY <1>1, PreIs
  <2>2. CASE j = k + 1
    BY <1>4, <2>1, <2>2
  <2>3. CASE j # k + 1
    <3>1. j \in 1 .. k
      BY <2>3
    <3>2. Pre(w, k)[j] = w[j]
      BY <1>1, <3>1, PreIs
    <3> QED BY <1>4, <2>1, <3>1, <3>2
  <2> QED BY <2>2, <2>3
<1>6. Pre(w, k + 1) = Append(Pre(w, k), w[k + 1])
  BY <1>2, <1>3, <1>4, <1>5, SeqEqual
<1> QED BY <1>2, <1>6

LEMMA PrePre ==
  ASSUME NEW S, NEW w \in Seq(S), NEW k \in 0 .. Len(w), NEW j \in 0 .. k
  PROVE  Pre(Pre(w, k), j) = Pre(w, j)
<1>1. j \in 0 .. Len(w) /\ Pre(w, k) \in Seq(S) /\ Len(Pre(w, k)) = k
  BY PreIs
<1>2. /\ Pre(Pre(w, k), j) \in Seq(S) /\ Len(Pre(Pre(w, k), j)) = j
      /\ \A i \in 1 .. j : Pre(Pre(w, k), j)[i] = Pre(w, k)[i]
  BY <1>1, PreIs
<1>3. /\ Pre(w, j) \in Seq(S) /\ Len(Pre(w, j)) = j /\ \A i \in 1 .. j : Pre(w, j)[i] = w[i]
  BY <1>1, PreIs
<1>4. \A i \in 1 .. j : Pre(w, k)[i] = w[i]
  <2>1. \A i \in 1 .. k : Pre(w, k)[i] = w[i]
    BY PreIs
  <2> QED BY <2>1
<1> QED BY <1>2, <1>3, <1>4, SeqEqual

\* A path is below another.
LEMMA Joined ==
  ASSUME NEW S, NEW p \in Seq(S), NEW q \in Seq(S)
  PROVE  /\ p \o q \in Seq(S) /\ Len(p \o q) = Len(p) + Len(q)
         /\ Pre(p \o q, Len(p)) = p
         /\ \A i \in 1 .. Len(q) : (p \o q)[Len(p) + i] = q[i]
<1>1. /\ p \o q \in Seq(S) /\ Len(p \o q) = Len(p) + Len(q)
      /\ \A i \in 1 .. Len(p) + Len(q) :
           (p \o q)[i] = IF i <= Len(p) THEN p[i] ELSE q[i - Len(p)]
  BY ConcatProperties
<1>2. Len(p) \in 0 .. Len(p \o q)
  BY <1>1
<1>3. /\ Pre(p \o q, Len(p)) \in Seq(S) /\ Len(Pre(p \o q, Len(p))) = Len(p)
      /\ \A j \in 1 .. Len(p) : Pre(p \o q, Len(p))[j] = (p \o q)[j]
  BY <1>1, <1>2, PreIs
<1>4. \A j \in 1 .. Len(p) : (p \o q)[j] = p[j]
  BY <1>1
<1>5. Pre(p \o q, Len(p)) = p
  BY <1>3, <1>4, SeqEqual
<1>6. \A i \in 1 .. Len(q) : (p \o q)[Len(p) + i] = q[i]
  BY <1>1
<1> QED BY <1>1, <1>5, <1>6

LEMMA Parent ==
  ASSUME NEW S, NEW p \in Seq(S), p # <<>>
  PROVE  /\ Front(p) \in Seq(S) /\ Last(p) \in S /\ p = Append(Front(p), Last(p))
         /\ Len(p) \in Nat \ {0} /\ Len(Front(p)) = Len(p) - 1
         /\ Front(p) = Pre(p, Len(p) - 1)
<1>1. Len(p) \in Nat \ {0} /\ Len(p) - 1 \in 0 .. Len(p) - 1 /\ Len(p) - 1 \in 0 .. Len(p)
  BY EmptySeq
<1>2. Front(p) = Pre(p, Len(p) - 1)
  BY DEF Front, Pre
<1>3. p[Len(p) - 1 + 1] \in S /\ Pre(p, Len(p) - 1 + 1) = Append(Pre(p, Len(p) - 1), p[Len(p) - 1 + 1])
  BY <1>1, PreNext
<1>4. Len(p) - 1 + 1 = Len(p) /\ Pre(p, Len(p)) = p
  BY PreEnds
<1>5. Front(p) \in Seq(S) /\ Len(Front(p)) = Len(p) - 1
  BY <1>1, <1>2, PreIs
<1> QED BY <1>1, <1>2, <1>3, <1>4, <1>5 DEF Last

LEMMA Child ==
  ASSUME NEW S, NEW p \in Seq(S), NEW k \in S
  PROVE  /\ Append(p, k) \in Seq(S) /\ Append(p, k) # <<>> /\ Len(Append(p, k)) = Len(p) + 1
         /\ Front(Append(p, k)) = p /\ Last(Append(p, k)) = k
<1>1. /\ Append(p, k) \in Seq(S) /\ Append(p, k) # <<>> /\ Len(Append(p, k)) = Len(p) + 1
      /\ Append(p, k)[Len(p) + 1] = k
  BY AppendProperties
<1>2. Append(p, k) = Append(Front(Append(p, k)), Last(Append(p, k)))
      /\ Front(Append(p, k)) \in Seq(S) /\ Last(Append(p, k)) \in S
  BY <1>1, Parent
<1>3. Front(Append(p, k)) = p /\ Last(Append(p, k)) = k
  BY <1>2, AppendInjective
<1> QED BY <1>1, <1>3

LEMMA Cancel ==
  ASSUME NEW S, NEW p \in Seq(S), NEW q \in Seq(S), NEW r \in Seq(S), p \o q = p \o r
  PROVE  q = r
BY ConcatSimplifications

\* A path that ends below another.
LEMMA JoinedAppend ==
  ASSUME NEW S, NEW p \in Seq(S), NEW f \in Seq(S), NEW l \in S
  PROVE  p \o Append(f, l) = Append(p \o f, l)
<1>1. Append(f, l) = f \o <<l>>
  BY AppendIsConcat
<1>2. <<l>> \in Seq(S) /\ p \o f \in Seq(S)
  BY Joined
<1>3. (p \o f) \o <<l>> = p \o (f \o <<l>>)
  BY <1>2, ConcatAssociative
<1>4. Append(p \o f, l) = (p \o f) \o <<l>>
  BY <1>2, AppendIsConcat
<1> QED BY <1>1, <1>3, <1>4

LEMMA JoinedParent ==
  ASSUME NEW S, NEW p \in Seq(S), NEW q \in Seq(S), q # <<>>
  PROVE  /\ p \o q = Append(p \o Front(q), Last(q)) /\ p \o Front(q) \in Seq(S)
         /\ p \o Front(q) = Pre(p \o q, Len(p) + Len(q) - 1) /\ p \o q # <<>>
<1>1. Front(q) \in Seq(S) /\ Last(q) \in S /\ q = Append(Front(q), Last(q)) /\ Len(q) \in Nat \ {0}
  BY Parent
<1>2. p \o Front(q) \in Seq(S)
  BY <1>1, Joined
<1>3. p \o q = Append(p \o Front(q), Last(q))
  BY <1>1, JoinedAppend
<1>4. p \o q \in Seq(S) /\ Len(p \o q) = Len(p) + Len(q) /\ p \o q # <<>>
  BY <1>1, <1>2, <1>3, Joined, Child
<1>5. Front(Append(p \o Front(q), Last(q))) = p \o Front(q)
  BY <1>1, <1>2, Child
<1>6. Front(p \o q) = p \o Front(q)
  BY <1>3, <1>5
<1>7. Front(p \o q) = Pre(p \o q, Len(p \o q) - 1)
  BY <1>4, Parent
<1> QED BY <1>2, <1>3, <1>4, <1>6, <1>7

-----------------------------------------------------------------------------
(* Trees. *)

\* Only tables are declared by headers.
Nodes ==
  {e \in [type : {"table", "array", "number"}, flags : SUBSET Flags, by : Nat] :
     "std" \in e.flags => e.type = "table"}

\* The first m elements of an array, and no other, are in a tree.
Counted(t, p, m) == \A i \in DOMAIN Elements : Append(p, Elements[i]) \in DOMAIN t <=> i <= m

Holds(t, p, k) ==
  /\ p \in DOMAIN t
  /\ \/ t[p].type = "table" /\ k \in Keys
     \/ t[p].type = "array" /\ k \in ToSet(Elements)

\* Tables hold keys and arrays their first elements, up to n of them.
Tree(t, n) ==
  /\ t \in [DOMAIN t -> Nodes] /\ DOMAIN t \subseteq Seq(Labels) /\ <<>> \in DOMAIN t
  /\ \A p \in DOMAIN t : p # <<>> => Holds(t, Front(p), Last(p))
  /\ \A p \in DOMAIN t :
       t[p].type = "array" => \E m \in 0 .. Len(Elements) : m <= n /\ Counted(t, p, m)

LEMMA NodeFields ==
  ASSUME NEW e \in Nodes
  PROVE  /\ e.type \in {"table", "array", "number"} /\ e.flags \subseteq Flags /\ e.by \in Nat
         /\ e = [type |-> e.type, flags |-> e.flags, by |-> e.by]
         /\ "std" \in e.flags => e.type = "table"
BY DEF Nodes

LEMMA NodeMade ==
  ASSUME NEW type \in {"table", "array", "number"}, NEW flags \in SUBSET Flags, NEW n \in Nat,
         "std" \in flags => type = "table"
  PROVE  LET e == [type |-> type, flags |-> flags, by |-> n]
         IN  e \in Nodes /\ e.type = type /\ e.flags = flags /\ e.by = n
BY DEF Nodes

LEMMA NodeIs ==
  ASSUME NEW type \in {"table", "array", "number"}, NEW flags \in SUBSET Flags, NEW n \in Nat,
         "std" \in flags => type = "table"
  PROVE  /\ Node(type, flags, n) \in Nodes
         /\ Node(type, flags, n).type = type /\ Node(type, flags, n).flags = flags
         /\ Node(type, flags, n).by = n
BY DEF Node, Nodes

LEMMA ElementsAre ==
  /\ Len(Elements) \in Nat \ {0} /\ DOMAIN Elements = 1 .. Len(Elements)
  /\ \A i, j \in DOMAIN Elements : i # j => Elements[i] # Elements[j]
  /\ \A i \in DOMAIN Elements : Elements[i] \notin Keys
  /\ MaxStatements \in Nat \ {0} /\ MaxStatements <= Len(Elements)
  /\ MaxParts \in Nat /\ MaxParts > 1
<1>1. /\ Elements \in Seq(STRING) /\ MaxStatements \in 1 .. Len(Elements)
      /\ MaxParts \in Nat \ {0, 1}
      /\ \A i, j \in DOMAIN Elements : i # j => Elements[i] # Elements[j]
      /\ \A i \in DOMAIN Elements : Elements[i] \notin Keys
  BY TomlAssumption
<1>2. Len(Elements) \in Nat /\ DOMAIN Elements = 1 .. Len(Elements)
  <2> DEFINE e == Elements
  <2>1. e \in Seq(STRING)
    BY <1>1
  <2> HIDE DEF e
  <2>2. Len(e) \in Nat /\ DOMAIN e = 1 .. Len(e)
    BY <2>1, LenProperties
  <2> QED BY <2>2 DEF e
<1>3. MaxParts \in Nat /\ MaxParts > 1
  BY <1>1
<1> QED BY <1>1, <1>2, <1>3

LEMMA ElementIs ==
  ASSUME NEW i \in DOMAIN Elements
  PROVE  Elements[i] \in Labels /\ Elements[i] \in ToSet(Elements) /\ Elements[i] \notin Keys
BY TomlAssumption DEF Labels, ToSet

LEMMA TreeGrows == ASSUME NEW t, NEW n \in Nat, NEW m \in Nat, n <= m, Tree(t, n) PROVE Tree(t, m)
<1>1. \A i \in 0 .. Len(Elements) : i <= n => i <= m
  BY ElementsAre
<1> QED BY <1>1 DEF Tree

\* A path of a tree, and the node it is in.
LEMMA Above1 ==
  ASSUME NEW t, NEW n, Tree(t, n), NEW p \in Seq(Labels), NEW k \in Labels,
         Append(p, k) \in DOMAIN t
  PROVE  Holds(t, p, k)
<1>1. Append(p, k) # <<>> /\ Front(Append(p, k)) = p /\ Last(Append(p, k)) = k
  BY Child
<1> QED BY <1>1 DEF Tree

\* Whatever is above a node is there, and is no number.
LEMMA AboveAll ==
  ASSUME NEW t, NEW n, Tree(t, n), NEW w \in DOMAIN t
  PROVE  /\ w \in Seq(Labels)
         /\ \A k \in 0 .. Len(w) : Pre(w, k) \in DOMAIN t
         /\ \A k \in 0 .. Len(w) - 1 : Holds(t, Pre(w, k), w[k + 1])
<1>1. w \in Seq(Labels)
  BY DEF Tree
<1> DEFINE S == {j \in 0 .. Len(w) : Pre(w, Len(w) - j) \notin DOMAIN t}
<1>2. S = {}
  <2> SUFFICES ASSUME S # {} PROVE FALSE
    OBVIOUS
  <2>1. S \in SUBSET Nat
    OBVIOUS
  <2>2. PICK j \in S : \A i \in S : j <= i
    <3> HIDE DEF S
    <3> QED BY <2>1, Least
  <2>3. CASE j = 0
    <3>1. Len(w) - j = Len(w) /\ Pre(w, Len(w)) = w
      BY <1>1, <2>3, PreEnds
    <3> QED BY <2>2, <3>1
  <2>4. CASE j # 0
    <3>1. j - 1 \in 0 .. Len(w) /\ j - 1 \notin S
      BY <1>1, <2>2, <2>4
    <3>2. Pre(w, Len(w) - (j - 1)) \in DOMAIN t
      BY <3>1
    <3>3. PICK k \in 0 .. Len(w) - 1 : k = Len(w) - j
      <4>1. j \in 1 .. Len(w)
        BY <2>2, <2>4
      <4>2. Len(w) - j \in 0 .. Len(w) - 1
        BY <1>1, <4>1
      <4> QED BY <4>2
    <3>4. k + 1 = Len(w) - (j - 1)
      BY <1>1, <2>2, <3>3
    <3>5. w[k + 1] \in Labels /\ Pre(w, k) \in Seq(Labels) /\ Pre(w, k + 1) = Append(Pre(w, k), w[k + 1])
      BY <1>1, PreNext
    <3>6. Append(Pre(w, k), w[k + 1]) \in DOMAIN t
      BY <3>2, <3>4, <3>5
    <3>7. Holds(t, Pre(w, k), w[k + 1])
      BY <3>5, <3>6, Above1
    <3> QED BY <2>2, <3>3, <3>7 DEF Holds
  <2> QED BY <2>3, <2>4
<1>3. ASSUME NEW k \in 0 .. Len(w) PROVE Pre(w, k) \in DOMAIN t
  <2>1. PICK j \in 0 .. Len(w) : k = Len(w) - j
    <3>1. Len(w) - k \in 0 .. Len(w) /\ k = Len(w) - (Len(w) - k)
      BY <1>1
    <3> QED BY <3>1
  <2>2. j \notin S
    BY <1>2
  <2> QED BY <2>1, <2>2
<1>4. ASSUME NEW k \in 0 .. Len(w) - 1 PROVE Holds(t, Pre(w, k), w[k + 1])
  <2>1. k + 1 \in 0 .. Len(w)
    BY <1>1
  <2>2. w[k + 1] \in Labels /\ Pre(w, k) \in Seq(Labels) /\ Pre(w, k + 1) = Append(Pre(w, k), w[k + 1])
    BY <1>1, PreNext
  <2>3. Append(Pre(w, k), w[k + 1]) \in DOMAIN t
    BY <1>3, <2>1, <2>2
  <2> QED BY <2>2, <2>3, Above1
<1> QED BY <1>1, <1>3, <1>4

\* The number of elements of an array.
LEMMA CountIs ==
  ASSUME NEW t, NEW p, NEW m \in 0 .. Len(Elements), Counted(t, p, m)
  PROVE  Count(t, p) = m
<1>1. DOMAIN Elements = 1 .. Len(Elements) /\ Len(Elements) \in Nat
  BY ElementsAre
<1>2. {i \in DOMAIN Elements : Append(p, Elements[i]) \in DOMAIN t} = 1 .. m
  BY <1>1 DEF Counted
<1>3. Cardinality(1 .. m) = m
  <2>1. Cardinality(1 .. m) = IF 1 > m THEN 0 ELSE m - 1 + 1
    BY FS_Interval
  <2> QED BY <2>1
<1> QED BY <1>2, <1>3 DEF Count

\* Where a tree may be grafted: a new key of a table, or the next element of an array.
Fits(t, p, k, n) ==
  /\ p \in DOMAIN t /\ Append(p, k) \notin DOMAIN t
  /\ \/ t[p].type = "table" /\ k \in Keys
     \/ /\ t[p].type = "array"
        /\ \E m \in 0 .. Len(Elements) - 1 : m + 1 <= n /\ Counted(t, p, m) /\ k = Elements[m + 1]

LEMMA FitsWhere ==
  ASSUME NEW t, NEW p, NEW k, NEW n, Fits(t, p, k, n)
  PROVE  \/ t[p].type = "table" /\ k \in Keys
         \/ t[p].type = "array" /\ \E m \in 0 .. Len(Elements) - 1 : k = Elements[m + 1]
BY Zenon DEF Fits

LEMMA FitsLabel == ASSUME NEW t, NEW p, NEW k, NEW n, Fits(t, p, k, n) PROVE k \in Labels
<1>1. CASE k \in Keys
  BY <1>1 DEF Labels
<1>2. ASSUME NEW m \in 0 .. Len(Elements) - 1, k = Elements[m + 1] PROVE k \in Labels
  <2>1. m + 1 \in DOMAIN Elements
    BY ElementsAre
  <2> QED BY <1>2, <2>1, ElementIs
<1> QED BY <1>1, <1>2 DEF Fits

\* What a graft is.
Grafted(g, t, a, v) ==
  /\ g = [q \in DOMAIN g |-> g[q]]
  /\ DOMAIN g = DOMAIN t \cup {a \o r : r \in DOMAIN v}
  /\ \A q \in DOMAIN t : g[q] = t[q]
  /\ \A r \in DOMAIN v : a \o r \notin DOMAIN t /\ g[a \o r] = v[r]

LEMMA GraftIs ==
  ASSUME NEW t, NEW n, Tree(t, n), NEW v, NEW l, Tree(v, l),
         NEW a \in Seq(Labels), a \notin DOMAIN t
  PROVE  Grafted(Graft(t, a, v), t, a, v)
<1> DEFINE g == Graft(t, a, v)
<1>1. /\ DOMAIN g = DOMAIN t \cup {a \o r : r \in DOMAIN v}
      /\ \A q \in DOMAIN g : g[q] = IF q \in DOMAIN t THEN t[q] ELSE v[SubSeq(q, Len(a) + 1, Len(q))]
      /\ g = [q \in DOMAIN g |-> g[q]]
  BY DEF Graft
<1> HIDE DEF g
<1>2. ASSUME NEW r \in DOMAIN v PROVE a \o r \notin DOMAIN t /\ g[a \o r] = v[r]
  <2>1. r \in Seq(Labels)
    BY DEF Tree
  <2>2. a \o r \in Seq(Labels) /\ Len(a \o r) = Len(a) + Len(r) /\ Pre(a \o r, Len(a)) = a
    BY <2>1, Joined
  <2>3. a \o r \notin DOMAIN t
    <3>1. Len(a) \in 0 .. Len(a \o r)
      BY <2>1, <2>2
    <3> QED BY <2>2, <3>1, AboveAll
  <2>4. SubSeq(a \o r, Len(a) + 1, Len(a \o r)) = r
    <3>1. CASE r = <<>>
      <4>1. Len(a \o r) < Len(a) + 1
        BY <2>2, <3>1
      <4>2. Len(a) + 1 \in Int /\ Len(a \o r) \in Int
        BY <2>2
      <4> QED BY <3>1, <4>1, <4>2, SubSeqEmpty
    <3>2. CASE r # <<>>
      <4>1. Len(r) \in Nat \ {0}
        BY <2>1, <3>2, EmptySeq
      <4>2. /\ Len(a) + 1 \in Len(a) + 1 .. Len(a) + Len(r)
            /\ Len(a \o r) \in Len(a) + 1 .. Len(a) + Len(r)
        BY <2>2, <4>1
      <4>3. SubSeq(a \o r, Len(a) + 1, Len(a \o r)) = SubSeq(r, Len(a) + 1 - Len(a), Len(a \o r) - Len(a))
        BY <2>1, <4>2, SubSeqOfConcat2
      <4>4. Len(a) + 1 - Len(a) = 1 /\ Len(a \o r) - Len(a) = Len(r)
        BY <2>1, <2>2
      <4> QED BY <2>1, <4>3, <4>4, SubSeqFull
    <3> QED BY <3>1, <3>2
  <2> QED BY <1>1, <2>3, <2>4
<1>3. ASSUME NEW q \in DOMAIN t PROVE g[q] = t[q]
  BY <1>1
<1> QED BY <1>1, <1>2, <1>3 DEF Grafted, g

\* Below a path that is not there.
LEMMA BelowNew ==
  ASSUME NEW t, NEW n, Tree(t, n), NEW p \in Seq(Labels), NEW k \in Labels,
         Append(p, k) \notin DOMAIN t, NEW r \in Seq(Labels), r # <<>>
  PROVE  LET a == Append(p, k)
         IN  /\ a \o r # <<>> /\ Front(a \o r) = a \o Front(r) /\ Last(a \o r) = Last(r)
             /\ Front(a \o r) # p /\ Front(a \o r) \notin DOMAIN t
<1> DEFINE a == Append(p, k)
<1>1. a \in Seq(Labels) /\ Front(a) = p /\ Len(a) = Len(p) + 1
  BY Child
<1>2. Front(r) \in Seq(Labels) /\ Last(r) \in Labels
  BY Parent
<1> HIDE DEF a
<1>3. a \o r = Append(a \o Front(r), Last(r)) /\ a \o Front(r) \in Seq(Labels) /\ a \o r # <<>>
  BY <1>1, JoinedParent
<1>4. Front(a \o r) = a \o Front(r) /\ Last(a \o r) = Last(r)
  <2>1. /\ Front(Append(a \o Front(r), Last(r))) = a \o Front(r)
        /\ Last(Append(a \o Front(r), Last(r))) = Last(r)
    BY <1>2, <1>3, Child
  <2> QED BY <1>3, <2>1
<1>5. Len(a \o Front(r)) = Len(a) + Len(Front(r)) /\ Pre(a \o Front(r), Len(a)) = a
  BY <1>1, <1>2, Joined
<1>6. a \o Front(r) \notin DOMAIN t
  <2>1. Len(a) \in 0 .. Len(a \o Front(r))
    BY <1>1, <1>2, <1>5
  <2> QED BY <1>3, <1>5, <2>1, AboveAll DEF a
<1>7. a \o Front(r) # p
  <2>1. Len(Front(r)) \in Nat /\ Len(p) \in Nat
    BY <1>2
  <2>2. Len(a \o Front(r)) # Len(p)
    BY <1>1, <1>5, <2>1
  <2> QED BY <2>2
<1> QED BY <1>3, <1>4, <1>6, <1>7 DEF a

\* A tree grafted where it fits makes a tree.
LEMMA GraftTree ==
  ASSUME NEW t, NEW n \in Nat, Tree(t, n), NEW v, NEW l \in Nat, Tree(v, l), l <= n,
         NEW p, NEW k, Fits(t, p, k, n)
  PROVE  /\ Tree(Graft(t, Append(p, k), v), n)
         /\ Grafted(Graft(t, Append(p, k), v), t, Append(p, k), v)
<1> DEFINE a == Append(p, k)
           g == Graft(t, a, v)
<1>1. k \in Labels /\ p \in DOMAIN t /\ p \in Seq(Labels) /\ a \notin DOMAIN t
  BY FitsLabel DEF Fits, Tree
<1>2. a \in Seq(Labels) /\ a # <<>> /\ Front(a) = p /\ Last(a) = k
  BY <1>1, Child
<1>3. Grafted(g, t, a, v)
  BY <1>1, <1>2, GraftIs
<1> HIDE DEF g
<1>4. ASSUME NEW r \in DOMAIN v PROVE r \in Seq(Labels) /\ a \o r \in Seq(Labels)
  <2>1. r \in Seq(Labels)
    BY DEF Tree
  <2> QED BY <1>2, <2>1, Joined
<1>5. <<>> \in DOMAIN v /\ a \o <<>> = a
  BY <1>2, ConcatEmptySeq DEF Tree
<1>6. g \in [DOMAIN g -> Nodes] /\ DOMAIN g \subseteq Seq(Labels) /\ <<>> \in DOMAIN g
  <2>1. DOMAIN g \subseteq Seq(Labels) /\ <<>> \in DOMAIN g
    BY <1>3, <1>4 DEF Grafted, Tree
  <2>2. ASSUME NEW q \in DOMAIN g PROVE g[q] \in Nodes
    <3>1. CASE q \in DOMAIN t
      BY <1>3, <3>1 DEF Grafted, Tree
    <3>2. ASSUME NEW r \in DOMAIN v, q = a \o r PROVE g[q] \in Nodes
      <4>1. g[q] = v[r]
        BY <1>3, <3>2 DEF Grafted
      <4>2. v[r] \in Nodes
        BY DEF Tree
      <4> QED BY <4>1, <4>2
    <3> QED BY <1>3, <3>1, <3>2 DEF Grafted
  <2>3. g = [q \in DOMAIN g |-> g[q]]
    BY <1>3 DEF Grafted
  <2> QED BY <2>1, <2>2, <2>3
<1>7. ASSUME NEW q \in DOMAIN g, q # <<>> PROVE Holds(g, Front(q), Last(q))
  <2>1. CASE q \in DOMAIN t
    <3>1. Holds(t, Front(q), Last(q))
      BY <1>7, <2>1 DEF Tree
    <3>2. Front(q) \in DOMAIN g /\ g[Front(q)] = t[Front(q)]
      BY <1>3, <3>1 DEF Grafted, Holds
    <3> QED BY <3>1, <3>2 DEF Holds
  <2>2. CASE q = a
    <3>1. p \in DOMAIN g /\ g[p] = t[p]
      BY <1>1, <1>3 DEF Grafted
    <3>2. \/ t[p].type = "table" /\ k \in Keys
          \/ t[p].type = "array" /\ k \in ToSet(Elements)
      <4>1. ASSUME NEW m \in 0 .. Len(Elements) - 1 PROVE Elements[m + 1] \in ToSet(Elements)
        <5>1. m + 1 \in DOMAIN Elements
          BY ElementsAre
        <5> QED BY <5>1, ElementIs
      <4>2. \/ t[p].type = "table" /\ k \in Keys
            \/ t[p].type = "array" /\ \E m \in 0 .. Len(Elements) - 1 : k = Elements[m + 1]
        BY FitsWhere
      <4> QED BY <4>1, <4>2
    <3> QED BY <1>2, <2>2, <3>1, <3>2 DEF Holds
  <2>3. ASSUME NEW r \in DOMAIN v, q = a \o r, r # <<>> PROVE Holds(g, Front(q), Last(q))
    <3>1. Front(q) = a \o Front(r) /\ Last(q) = Last(r)
      BY <1>1, <1>4, <2>3, BelowNew
    <3>2. Holds(v, Front(r), Last(r))
      BY <2>3 DEF Tree
    <3>3. a \o Front(r) \in DOMAIN g /\ g[a \o Front(r)] = v[Front(r)]
      BY <1>3, <3>2 DEF Grafted, Holds
    <3> QED BY <3>1, <3>2, <3>3 DEF Holds
  <2> QED BY <1>3, <1>5, <2>1, <2>2, <2>3 DEF Grafted
<1>8. ASSUME NEW q \in DOMAIN g, g[q].type = "array"
      PROVE  \E m \in 0 .. Len(Elements) : m <= n /\ Counted(g, q, m)
  <2>1. CASE q \in DOMAIN t /\ q # p
    <3>1. t[q].type = "array" /\ q \in Seq(Labels)
      BY <1>3, <1>8, <2>1 DEF Grafted, Tree
    <3>2. PICK m \in 0 .. Len(Elements) : m <= n /\ Counted(t, q, m)
      BY <2>1, <3>1 DEF Tree
    <3>3. ASSUME NEW i \in DOMAIN Elements, NEW r \in DOMAIN v PROVE Append(q, Elements[i]) # a \o r
      <4>1. Front(Append(q, Elements[i])) = q
        BY <3>1, ElementIs, Child
      <4>2. CASE r = <<>>
        BY <1>2, <1>5, <2>1, <4>1, <4>2
      <4>3. CASE r # <<>>
        <5>1. Front(a \o r) \notin DOMAIN t
          BY <1>1, <1>4, <4>3, BelowNew
        <5> QED BY <2>1, <4>1, <5>1
      <4> QED BY <4>2, <4>3
    <3>4. \A i \in DOMAIN Elements :
            Append(q, Elements[i]) \in DOMAIN g <=> Append(q, Elements[i]) \in DOMAIN t
      BY <1>3, <3>3 DEF Grafted
    <3> QED BY <3>2, <3>4 DEF Counted
  <2>2. CASE q = p
    <3>1. t[p].type = "array"
      BY <1>1, <1>3, <1>8, <2>2 DEF Grafted
    <3>2. PICK m \in 0 .. Len(Elements) - 1 : m + 1 <= n /\ Counted(t, p, m) /\ k = Elements[m + 1]
      BY <3>1 DEF Fits
    <3>3. m + 1 \in DOMAIN Elements /\ m + 1 \in 0 .. Len(Elements) /\ DOMAIN Elements = 1 .. Len(Elements)
      BY ElementsAre
    <3>4. ASSUME NEW i \in DOMAIN Elements
          PROVE  Append(p, Elements[i]) \in {a \o r : r \in DOMAIN v} <=> i = m + 1
      <4>1. ASSUME NEW r \in DOMAIN v, Append(p, Elements[i]) = a \o r PROVE i = m + 1
        <5>1. Front(Append(p, Elements[i])) = p /\ Last(Append(p, Elements[i])) = Elements[i]
          BY <1>1, ElementIs, Child
        <5>2. CASE r = <<>>
          <6>1. Elements[i] = Elements[m + 1]
            BY <1>2, <1>5, <3>2, <4>1, <5>1, <5>2
          <6> QED BY <3>3, <6>1, ElementsAre
        <5>3. CASE r # <<>>
          <6>1. Front(a \o r) # p
            BY <1>1, <1>4, <5>3, BelowNew
          <6> QED BY <4>1, <5>1, <6>1
        <5> QED BY <5>2, <5>3
      <4>2. ASSUME i = m + 1 PROVE Append(p, Elements[i]) = a \o <<>>
        BY <1>5, <3>2, <4>2
      <4> QED BY <1>5, <4>1, <4>2
    <3>5. \A i \in DOMAIN Elements :
            Append(p, Elements[i]) \in DOMAIN g <=> Append(p, Elements[i]) \in DOMAIN t \/ i = m + 1
      BY <1>3, <3>4 DEF Grafted
    <3>6. ASSUME NEW i \in DOMAIN Elements PROVE (i <= m \/ i = m + 1) <=> i <= m + 1
      BY <3>3
    <3>7. Counted(g, p, m + 1)
      BY <3>2, <3>5, <3>6 DEF Counted
    <3> QED BY <2>2, <3>2, <3>3, <3>7
  <2>3. ASSUME NEW r \in DOMAIN v, q = a \o r
        PROVE  \E m \in 0 .. Len(Elements) : m <= n /\ Counted(g, q, m)
    <3>1. v[r].type = "array" /\ r \in Seq(Labels) /\ q \notin DOMAIN t /\ q \in Seq(Labels)
      BY <1>3, <1>4, <1>8, <2>3 DEF Grafted
    <3>2. PICK m \in 0 .. Len(Elements) : m <= l /\ Counted(v, r, m)
      BY <3>1 DEF Tree
    <3>3. ASSUME NEW i \in DOMAIN Elements
          PROVE  Append(q, Elements[i]) \in DOMAIN g <=> Append(r, Elements[i]) \in DOMAIN v
      <4>1. Elements[i] \in Labels
        BY ElementIs
      <4>2. a \o Append(r, Elements[i]) = Append(q, Elements[i]) /\ Append(r, Elements[i]) \in Seq(Labels)
        <5> HIDE DEF a
        <5>1. Append(r, Elements[i]) \in Seq(Labels)
          BY <3>1, <4>1, Child
        <5>2. a \o Append(r, Elements[i]) = Append(a \o r, Elements[i])
          BY <1>2, <3>1, <4>1, JoinedAppend
        <5> QED BY <2>3, <5>1, <5>2
      <4>3. Append(q, Elements[i]) \notin DOMAIN t
        BY <3>1, <4>1, Above1 DEF Holds
      <4>4. ASSUME NEW r2 \in DOMAIN v, Append(q, Elements[i]) = a \o r2 PROVE r2 = Append(r, Elements[i])
        <5>1. r2 \in Seq(Labels) /\ a \o r2 = a \o Append(r, Elements[i])
          BY <1>4, <4>2, <4>4
        <5> QED BY <1>2, <4>2, <5>1, Cancel
      <4> QED BY <1>3, <4>2, <4>3, <4>4 DEF Grafted
    <3>4. m <= n
      BY <3>2, ElementsAre
    <3> QED BY <3>2, <3>3, <3>4 DEF Counted
  <2> QED BY <1>3, <2>1, <2>2, <2>3 DEF Grafted
<1>9. Tree(g, n)
  BY <1>6, <1>7, <1>8 DEF Tree
<1> QED BY <1>3, <1>9 DEF g

-----------------------------------------------------------------------------
(* Places in trees, and the ways down. *)

IsPlace(s) == s = [ok |-> s.ok, tree |-> s.tree, at |-> s.at]

\* A place in a table of a tree whose arrays have at most m elements.
PlaceOK(s, m) ==
  /\ IsPlace(s) /\ s.ok \in BOOLEAN /\ Tree(s.tree, m)
  /\ s.at \in DOMAIN s.tree /\ s.tree[s.at].type = "table"

Kept(t, u) == DOMAIN t \subseteq DOMAIN u /\ \A q \in DOMAIN t : u[q] = t[q]

NoArrays(t) == \A q \in DOMAIN t : t[q].type # "array"

LEMMA FailPlace ==
  ASSUME NEW s, IsPlace(s)
  PROVE  IsPlace(Fail(s)) /\ Fail(s).ok = FALSE /\ Fail(s).tree = s.tree /\ Fail(s).at = s.at
<1>1. PICK o, t, a : s = [ok |-> o, tree |-> t, at |-> a]
  BY DEF IsPlace
<1>2. ASSUME NEW x PROVE [s EXCEPT !.ok = x] = [ok |-> x, tree |-> t, at |-> a]
  BY <1>1
<1>3. Fail(s) = [ok |-> FALSE, tree |-> t, at |-> a]
  BY <1>2 DEF Fail
<1>4. s.tree = t /\ s.at = a
  BY <1>1
<1> QED BY <1>3, <1>4 DEF IsPlace

LEMMA EnterPlace ==
  ASSUME NEW s, IsPlace(s), NEW p
  PROVE  /\ IsPlace(Enter(s, p)) /\ Enter(s, p).ok = s.ok /\ Enter(s, p).tree = s.tree
         /\ Enter(s, p).at = p
<1>1. PICK o, t, a : s = [ok |-> o, tree |-> t, at |-> a]
  BY DEF IsPlace
<1>2. Enter(s, p) = [ok |-> o, tree |-> t, at |-> p] /\ s.tree = t /\ s.ok = o
  BY <1>1 DEF Enter
<1> QED BY <1>2 DEF IsPlace

LEMMA MakePlace ==
  ASSUME NEW s, IsPlace(s), NEW p, NEW node
  PROVE  /\ IsPlace(Make(s, p, node)) /\ Make(s, p, node).ok = s.ok
         /\ Make(s, p, node).tree = Put(s.tree, p, node) /\ Make(s, p, node).at = p
<1> DEFINE u == Put(s.tree, p, node)
<1>1. Make(s, p, node) = [s EXCEPT !.tree = u, !.at = p]
  BY DEF Make
<1> HIDE DEF u
<1>2. PICK o, t, a : s = [ok |-> o, tree |-> t, at |-> a]
  BY DEF IsPlace
<1>3. Make(s, p, node) = [ok |-> o, tree |-> u, at |-> p] /\ s.ok = o
  BY <1>1, <1>2
<1> QED BY <1>3 DEF IsPlace, u

LEMMA PlaceIs ==
  ASSUME NEW t, NEW p
  PROVE  IsPlace(Place(t, p)) /\ Place(t, p).ok = TRUE /\ Place(t, p).tree = t /\ Place(t, p).at = p
BY DEF Place, IsPlace

\* A tree of one node.
LEMMA LeafTree ==
  ASSUME NEW node \in Nodes, NEW m \in Nat
  PROVE  /\ Tree(Leaf(node), m) /\ DOMAIN Leaf(node) = {<<>>} /\ Leaf(node)[<<>>] = node
<1>1. DOMAIN Leaf(node) = {<<>>} /\ Leaf(node)[<<>>] = node /\ Leaf(node) \in [{<<>>} -> Nodes]
  BY DEF Leaf
<1>2. Counted(Leaf(node), <<>>, 0)
  <2>1. ASSUME NEW i \in DOMAIN Elements PROVE Append(<<>>, Elements[i]) # <<>> /\ ~(i <= 0)
    <3>1. <<>> \in Seq(Labels) /\ Elements[i] \in Labels
      BY ElementIs
    <3> QED BY <3>1, Child, ElementsAre
  <2> QED BY <1>1, <2>1 DEF Counted
<1>3. 0 \in 0 .. Len(Elements) /\ 0 <= m /\ <<>> \in Seq(Labels)
  BY ElementsAre
<1> QED BY <1>1, <1>2, <1>3 DEF Tree

ChildOf(a, p, k) == a = Append(p, k)

\* A node put where it fits.
LEMMA PutTree ==
  ASSUME NEW t, NEW m \in Nat, Tree(t, m), NEW p, NEW k, Fits(t, p, k, m), NEW node \in Nodes,
         NEW a, ChildOf(a, p, k)
  PROVE  /\ Tree(Put(t, a, node), m) /\ DOMAIN Put(t, a, node) = DOMAIN t \cup {a}
         /\ Kept(t, Put(t, a, node)) /\ Put(t, a, node)[a] = node
<1> DEFINE v == Leaf(node)
           u == Graft(t, a, v)
<1>1. Tree(v, 0) /\ DOMAIN v = {<<>>} /\ v[<<>>] = node
  BY LeafTree
<1>2. Tree(u, m) /\ Grafted(u, t, a, v)
  <2> HIDE DEF v
  <2> QED BY <1>1, GraftTree DEF ChildOf
<1>3. a \in Seq(Labels)
  <2>1. k \in Labels /\ p \in Seq(Labels)
    BY FitsLabel DEF Fits, Tree
  <2> QED BY <2>1, Child DEF ChildOf
<1>4. a \o <<>> = a
  BY <1>3, ConcatEmptySeq
<1> HIDE DEF u, v
<1>5. {a \o r : r \in DOMAIN v} = {a}
  BY <1>1, <1>4
<1>6. DOMAIN u = DOMAIN t \cup {a} /\ Kept(t, u)
  BY <1>2, <1>5 DEF Grafted, Kept
<1>7. u[a] = node
  BY <1>1, <1>2, <1>4 DEF Grafted
<1> QED BY <1>2, <1>6, <1>7 DEF Put, u, v

\* One step down from s to r: by the key k, to a table that was there or that it
\* makes, with these flags, in statement n.  Unless the step is straight, it may
\* go on, into an array.
Steps(s, r, k, m, straight, dotted, flags, n) ==
  LET p == Append(s.at, k) IN
  /\ PlaceOK(r, m) /\ Kept(s.tree, r.tree)
  /\ \A q \in DOMAIN r.tree \ DOMAIN s.tree :
       s.ok /\ q = p /\ r.tree[q] = Node("table", flags, n)
  /\ r.ok => s.ok
  /\ straight /\ r.ok => r.at = p
  /\ straight /\ s.ok /\ ~r.ok =>
       \/ p \in DOMAIN s.tree /\ s.tree[p].type # "table"
       \/ dotted /\ "explicit" \in s.tree[s.at].flags

LEMMA KeptSame == ASSUME NEW t PROVE Kept(t, t)
BY DEF Kept

\* A missing table is made.
LEMMA MakeAt ==
  ASSUME NEW s, NEW m \in Nat, IsPlace(s), Tree(s.tree, m), NEW k, Fits(s.tree, s.at, k, m),
         NEW node \in Nodes, NEW p, ChildOf(p, s.at, k)
  PROVE  /\ IsPlace(Make(s, p, node)) /\ Make(s, p, node).ok = s.ok /\ Make(s, p, node).at = p
         /\ Tree(Make(s, p, node).tree, m)
         /\ DOMAIN Make(s, p, node).tree = DOMAIN s.tree \cup {p}
         /\ Kept(s.tree, Make(s, p, node).tree) /\ Make(s, p, node).tree[p] = node
<1>1. /\ IsPlace(Make(s, p, node)) /\ Make(s, p, node).ok = s.ok
      /\ Make(s, p, node).tree = Put(s.tree, p, node) /\ Make(s, p, node).at = p
  BY MakePlace
<1>2. /\ Tree(Put(s.tree, p, node), m) /\ DOMAIN Put(s.tree, p, node) = DOMAIN s.tree \cup {p}
      /\ Kept(s.tree, Put(s.tree, p, node)) /\ Put(s.tree, p, node)[p] = node
  <2>1. ASSUME NEW t, NEW q, Tree(t, m), Fits(t, q, k, m), ChildOf(p, q, k)
        PROVE  /\ Tree(Put(t, p, node), m) /\ DOMAIN Put(t, p, node) = DOMAIN t \cup {p}
               /\ Kept(t, Put(t, p, node)) /\ Put(t, p, node)[p] = node
    BY <2>1, PutTree
  <2> QED BY <2>1
<1> QED BY <1>1, <1>2

\* A table may be made at p, under the key k of the table where s is.
Makes(s, p, k, m, node) ==
  /\ PlaceOK(s, m) /\ k \in Keys /\ p = Append(s.at, k) /\ p \notin DOMAIN s.tree
  /\ m \in Nat /\ node \in Nodes /\ node.type = "table"

LEMMA MakeTable ==
  ASSUME NEW s, NEW p, NEW k, NEW m, NEW node, Makes(s, p, k, m, node)
  PROVE  /\ PlaceOK(Make(s, p, node), m) /\ Make(s, p, node).ok = s.ok
         /\ Make(s, p, node).at = p
         /\ DOMAIN Make(s, p, node).tree = DOMAIN s.tree \cup {p}
         /\ Kept(s.tree, Make(s, p, node).tree) /\ Make(s, p, node).tree[p] = node
<1>1. /\ m \in Nat /\ IsPlace(s) /\ Tree(s.tree, m) /\ Fits(s.tree, s.at, k, m)
      /\ node \in Nodes /\ ChildOf(p, s.at, k)
  BY DEF Makes, Fits, PlaceOK, ChildOf
<1>2. /\ IsPlace(Make(s, p, node)) /\ Make(s, p, node).ok = s.ok /\ Make(s, p, node).at = p
      /\ Tree(Make(s, p, node).tree, m)
      /\ DOMAIN Make(s, p, node).tree = DOMAIN s.tree \cup {p}
      /\ Kept(s.tree, Make(s, p, node).tree) /\ Make(s, p, node).tree[p] = node
  BY <1>1, MakeAt
<1>3. s.ok \in BOOLEAN /\ node.type = "table"
  BY DEF Makes, PlaceOK
<1>4. PlaceOK(Make(s, p, node), m)
  BY <1>2, <1>3 DEF PlaceOK
<1> QED BY <1>2, <1>4

LEMMA MakeSteps ==
  ASSUME NEW s, NEW m \in Nat, PlaceOK(s, m), s.ok, NEW k \in Keys,
         NEW flags \in SUBSET Flags, NEW n \in Nat, Append(s.at, k) \notin DOMAIN s.tree,
         NEW straight, NEW dotted
  PROVE  Steps(s, Make(s, Append(s.at, k), Node("table", flags, n)), k, m, straight, dotted, flags, n)
<1> DEFINE node == Node("table", flags, n)
           p == Append(s.at, k)
           r == Make(s, p, node)
<1>1. node \in Nodes /\ node.type = "table"
  BY NodeIs
<1> HIDE DEF node
<1>2. Makes(s, p, k, m, node)
  BY <1>1 DEF Makes
<1> HIDE DEF p
<1>3. PlaceOK(r, m)
  BY <1>2, MakeTable
<1>4. r.at = p
  BY <1>2, MakeTable
<1>5. r.ok = s.ok
  BY <1>2, MakeTable, Zenon
<1>6. DOMAIN r.tree = DOMAIN s.tree \cup {p}
  BY <1>2, MakeTable
<1>7. Kept(s.tree, r.tree) /\ r.tree[p] = node
  BY <1>2, MakeTable
<1> HIDE DEF r
<1>8. /\ \A q \in DOMAIN r.tree \ DOMAIN s.tree : q = p /\ r.tree[q] = node
      /\ r.ok /\ r.at = p
  BY <1>4, <1>5, <1>6, <1>7
<1> QED BY <1>3, <1>7, <1>8 DEF Steps, r, p, node

\* A table is entered.
LEMMA EnterSteps ==
  ASSUME NEW s, NEW m \in Nat, PlaceOK(s, m), s.ok, NEW k \in Keys, NEW flags, NEW n,
         NEW p \in DOMAIN s.tree, s.tree[p].type = "table", NEW straight, NEW dotted,
         straight => p = Append(s.at, k)
  PROVE  Steps(s, Enter(s, p), k, m, straight, dotted, flags, n)
<1> DEFINE r == Enter(s, p)
<1>1. IsPlace(r) /\ r.ok = s.ok /\ r.tree = s.tree /\ r.at = p
  BY EnterPlace DEF PlaceOK
<1>2. PlaceOK(r, m)
  BY <1>1 DEF PlaceOK
<1> HIDE DEF r
<1> QED BY <1>1, <1>2, KeptSame DEF Steps, r

\* The way ends.
LEMMA FailSteps ==
  ASSUME NEW s, NEW m \in Nat, PlaceOK(s, m), s.ok, NEW k \in Keys, NEW flags, NEW n,
         NEW straight, NEW dotted,
         straight => \/ Append(s.at, k) \in DOMAIN s.tree /\ s.tree[Append(s.at, k)].type # "table"
                     \/ dotted /\ "explicit" \in s.tree[s.at].flags
  PROVE  Steps(s, Fail(s), k, m, straight, dotted, flags, n)
<1> DEFINE r == Fail(s)
<1>1. IsPlace(r) /\ r.ok = FALSE /\ r.tree = s.tree /\ r.at = s.at
  BY FailPlace DEF PlaceOK
<1>2. PlaceOK(r, m)
  BY <1>1 DEF PlaceOK
<1> HIDE DEF r
<1> QED BY <1>1, <1>2, KeptSame DEF Steps, r

LEMMA StaySteps ==
  ASSUME NEW s, NEW m \in Nat, PlaceOK(s, m), ~s.ok, NEW k, NEW flags, NEW n,
         NEW straight, NEW dotted
  PROVE  Steps(s, s, k, m, straight, dotted, flags, n)
BY KeptSame DEF Steps

\* DescendInto is such a step, straight where there are no arrays.
LEMMA DescendIntoSteps ==
  ASSUME NEW s, NEW m \in Nat, PlaceOK(s, m), NEW k \in Keys,
         NEW flags \in SUBSET Flags, NEW n \in Nat
  PROVE  Steps(s, DescendInto(s, k, flags, n), k, m, NoArrays(s.tree), FALSE, flags, n)
<1> DEFINE p == Append(s.at, k)
           last == Append(p, Elements[Count(s.tree, p)])
           straight == NoArrays(s.tree)
           r == DescendInto(s, k, flags, n)
<1>1. CASE ~s.ok
  <2>1. r = s
    BY <1>1 DEF DescendInto
  <2> HIDE DEF r
  <2> QED BY <1>1, <2>1, StaySteps DEF r
<1>2. CASE s.ok /\ p \notin DOMAIN s.tree
  <2>1. r = Make(s, p, Node("table", flags, n))
    BY <1>2 DEF DescendInto
  <2> HIDE DEF r
  <2> QED BY <1>2, <2>1, MakeSteps DEF r
<1>3. CASE s.ok /\ p \in DOMAIN s.tree /\ s.tree[p].type = "table"
  <2>1. r = Enter(s, p)
    BY <1>3 DEF DescendInto
  <2> HIDE DEF r
  <2> QED BY <1>3, <2>1, EnterSteps DEF r
<1>4. CASE s.ok /\ p \in DOMAIN s.tree /\ s.tree[p].type = "array"
  <2>1. r = IF Count(s.tree, p) > 0 /\ s.tree[last].type = "table" THEN Enter(s, last) ELSE Fail(s)
    BY <1>4 DEF DescendInto
  <2>2. ~straight
    BY <1>4 DEF NoArrays
  <2>3. CASE Count(s.tree, p) > 0 /\ s.tree[last].type = "table"
    <3>1. PICK i \in 0 .. Len(Elements) : i <= m /\ Counted(s.tree, p, i)
      BY <1>4 DEF PlaceOK, Tree
    <3>2. Count(s.tree, p) = i
      BY <3>1, CountIs
    <3>3. i \in DOMAIN Elements /\ i <= i
      BY <2>3, <3>2, ElementsAre
    <3>4. last \in DOMAIN s.tree
      BY <3>1, <3>2, <3>3 DEF Counted
    <3>5. r = Enter(s, last)
      BY <2>1, <2>3
    <3> HIDE DEF r, last
    <3> QED BY <1>4, <2>2, <2>3, <3>4, <3>5, EnterSteps DEF r
  <2>4. CASE ~(Count(s.tree, p) > 0 /\ s.tree[last].type = "table")
    <3>1. r = Fail(s)
      BY <2>1, <2>4
    <3> HIDE DEF r
    <3> QED BY <1>4, <2>2, <3>1, FailSteps DEF r
  <2> QED BY <2>3, <2>4
<1>5. CASE s.ok /\ p \in DOMAIN s.tree /\ s.tree[p].type = "number"
  <2>1. r = Fail(s)
    BY <1>5 DEF DescendInto
  <2>2. s.tree[p].type # "table"
    BY <1>5
  <2> HIDE DEF r
  <2> QED BY <1>5, <2>1, <2>2, FailSteps DEF r
<1>6. p \in DOMAIN s.tree => s.tree[p].type \in {"table", "array", "number"}
  <2>1. p \in DOMAIN s.tree => s.tree[p] \in Nodes
    BY DEF PlaceOK, Tree
  <2> QED BY <2>1, NodeFields
<1>7. s.ok \in BOOLEAN
  BY DEF PlaceOK
<1> QED BY <1>1, <1>2, <1>3, <1>4, <1>5, <1>6, <1>7

\* So is a step of a dotted key, which enters no arrays.
LEMMA DottedSteps ==
  ASSUME NEW s, NEW m \in Nat, PlaceOK(s, m), NEW path \in Seq(Keys), NEW i \in 1 .. Len(path),
         NEW n \in Nat
  PROVE  Steps(s, DottedStep(s, path, i, n), path[i], m, TRUE, i > 1, {}, n)
<1> DEFINE p == Append(s.at, path[i])
           r == DottedStep(s, path, i, n)
<1>1. path[i] \in Keys /\ {} \in SUBSET Flags /\ s.ok \in BOOLEAN
  BY DEF PlaceOK
<1>2. CASE ~s.ok
  <2>1. r = s
    BY <1>2 DEF DottedStep
  <2> HIDE DEF r
  <2> QED BY <1>2, <2>1, StaySteps DEF r
<1>3. CASE s.ok /\ p \notin DOMAIN s.tree /\ ~(i > 1 /\ Has(s, "explicit"))
  <2>1. r = Make(s, p, Node("table", {}, n))
    BY <1>3 DEF DottedStep
  <2> HIDE DEF r
  <2> QED BY <1>1, <1>3, <2>1, MakeSteps DEF r
<1>4. CASE s.ok /\ p \notin DOMAIN s.tree /\ i > 1 /\ Has(s, "explicit")
  <2>1. r = Fail(s)
    BY <1>4 DEF DottedStep
  <2>2. "explicit" \in s.tree[s.at].flags
    BY <1>4 DEF Has
  <2>3. Steps(s, Fail(s), path[i], m, TRUE, TRUE, {}, n)
    BY <1>1, <1>4, <2>2, FailSteps
  <2>4. (i > 1) = TRUE
    BY <1>4
  <2> QED BY <2>1, <2>3, <2>4
<1>5. CASE s.ok /\ p \in DOMAIN s.tree /\ s.tree[p].type = "table"
  <2>1. r = Enter(s, p)
    BY <1>5 DEF DottedStep
  <2> HIDE DEF r
  <2> QED BY <1>1, <1>5, <2>1, EnterSteps DEF r
<1>6. CASE s.ok /\ p \in DOMAIN s.tree /\ s.tree[p].type # "table" /\ s.tree[p].type # "none"
  <2>1. r = Fail(s)
    BY <1>6 DEF DottedStep
  <2> HIDE DEF r
  <2> QED BY <1>1, <1>6, <2>1, FailSteps DEF r
<1>7. p \in DOMAIN s.tree => s.tree[p].type # "none"
  <2>1. p \in DOMAIN s.tree => s.tree[p] \in Nodes
    BY DEF PlaceOK, Tree
  <2> QED BY <2>1, NodeFields
<1> QED BY <1>1, <1>2, <1>3, <1>4, <1>5, <1>6, <1>7

\* The first i steps down a path lead from s to r.
Walks(s, r, path, i, m, straight, dotted, flags, n) ==
  LET w == s.at \o path
      l == Len(s.at)
  IN
  /\ PlaceOK(r, m) /\ Kept(s.tree, r.tree)
  /\ \A q \in DOMAIN r.tree \ DOMAIN s.tree : r.tree[q] = Node("table", flags, n)
  /\ r.ok => s.ok
  /\ straight =>
       /\ \A q \in DOMAIN r.tree \ DOMAIN s.tree : \E j \in l + 1 .. l + i : q = Pre(w, j)
       /\ r.ok => r.at = Pre(w, l + i)
       /\ s.ok /\ ~r.ok =>
            \/ \E j \in l + 1 .. l + i : Pre(w, j) \in DOMAIN s.tree /\ s.tree[Pre(w, j)].type # "table"
            \/ dotted /\ \E j \in l + 1 .. l + i - 1 :
                 Pre(w, j) \in DOMAIN s.tree /\ "explicit" \in s.tree[Pre(w, j)].flags

LEMMA NoWalk ==
  ASSUME NEW s, NEW m \in Nat, PlaceOK(s, m), NEW path \in Seq(Keys),
         NEW straight, NEW dotted, NEW flags, NEW n
  PROVE  Walks(s, s, path, 0, m, straight, dotted, flags, n)
<1>1. s.at \in Seq(Labels) /\ path \in Seq(Labels) /\ s.ok \in BOOLEAN
  BY DEF PlaceOK, Tree, Labels
<1>2. Pre(s.at \o path, Len(s.at)) = s.at
  BY <1>1, Joined
<1>3. Len(s.at) + 0 = Len(s.at)
  BY <1>1
<1> QED BY <1>1, <1>2, <1>3, KeptSame DEF Walks

\* One step more.
LEMMA WalkSteps ==
  ASSUME NEW s, NEW m \in Nat, PlaceOK(s, m), NEW path \in Seq(Keys), NEW i \in 1 .. Len(path),
         NEW straight, NEW dotted, NEW flags \in {{}, {"std"}}, NEW n \in Nat,
         NEW r, Walks(s, r, path, i - 1, m, straight, dotted, flags, n),
         NEW z, NEW here, here => dotted /\ i > 1, Steps(r, z, path[i], m, straight, here, flags, n)
  PROVE  Walks(s, z, path, i, m, straight, dotted, flags, n)
<1> DEFINE w == s.at \o path
           l == Len(s.at)
           made == Node("table", flags, n)
<1>1. s.at \in Seq(Labels) /\ path \in Seq(Labels) /\ s.ok \in BOOLEAN /\ Len(path) \in Nat
  BY DEF PlaceOK, Tree, Labels
<1>2. w \in Seq(Labels) /\ Len(w) = l + Len(path) /\ w[l + i] = path[i] /\ l \in Nat
  BY <1>1, Joined
<1>3. Pre(w, l + i) = Append(Pre(w, l + i - 1), path[i])
  <2>1. PICK k \in 0 .. Len(w) - 1 : k = l + i - 1
    <3>1. Len(w) \in Nat /\ l + i - 1 \in 0 .. Len(w) - 1
      BY <1>1, <1>2
    <3> QED BY <3>1
  <2>2. k + 1 = l + i
    BY <1>2, <2>1
  <2> QED BY <1>2, <2>1, <2>2, PreNext
<1>4. made.type = "table" /\ made.flags = flags /\ "explicit" \notin flags
  <2>1. flags \in SUBSET Flags
    BY DEF Flags
  <2>2. made.type = "table" /\ made.flags = flags
    BY <2>1, NodeIs
  <2> QED BY <2>2
<1> HIDE DEF w, l, made
<1>5. /\ PlaceOK(r, m) /\ Kept(s.tree, r.tree)
      /\ \A q \in DOMAIN r.tree \ DOMAIN s.tree : r.tree[q] = made
      /\ r.ok => s.ok
  BY DEF Walks, made
<1>6. /\ PlaceOK(z, m) /\ Kept(r.tree, z.tree)
      /\ \A q \in DOMAIN z.tree \ DOMAIN r.tree :
           r.ok /\ q = Append(r.at, path[i]) /\ z.tree[q] = made
      /\ z.ok => r.ok
  BY DEF Steps, made
<1>7. Kept(s.tree, z.tree)
  BY <1>5, <1>6 DEF Kept
<1>8. \A q \in DOMAIN z.tree \ DOMAIN s.tree : z.tree[q] = made
  BY <1>5, <1>6 DEF Kept
<1>9. z.ok => s.ok
  BY <1>5, <1>6
<1>10. ASSUME straight
       PROVE  /\ \A q \in DOMAIN z.tree \ DOMAIN s.tree : \E j \in l + 1 .. l + i : q = Pre(w, j)
              /\ z.ok => z.at = Pre(w, l + i)
              /\ s.ok /\ ~z.ok =>
                   \/ \E j \in l + 1 .. l + i :
                        Pre(w, j) \in DOMAIN s.tree /\ s.tree[Pre(w, j)].type # "table"
                   \/ dotted /\ \E j \in l + 1 .. l + i - 1 :
                        Pre(w, j) \in DOMAIN s.tree /\ "explicit" \in s.tree[Pre(w, j)].flags
  <2>1. /\ \A q \in DOMAIN r.tree \ DOMAIN s.tree : \E j \in l + 1 .. l + (i - 1) : q = Pre(w, j)
        /\ r.ok => r.at = Pre(w, l + (i - 1))
        /\ s.ok /\ ~r.ok =>
             \/ \E j \in l + 1 .. l + (i - 1) :
                  Pre(w, j) \in DOMAIN s.tree /\ s.tree[Pre(w, j)].type # "table"
             \/ dotted /\ \E j \in l + 1 .. l + (i - 1) - 1 :
                  Pre(w, j) \in DOMAIN s.tree /\ "explicit" \in s.tree[Pre(w, j)].flags
    BY <1>10 DEF Walks, w, l
  <2>2. /\ z.ok => z.at = Append(r.at, path[i])
        /\ r.ok /\ ~z.ok =>
             \/ /\ Append(r.at, path[i]) \in DOMAIN r.tree
                /\ r.tree[Append(r.at, path[i])].type # "table"
             \/ dotted /\ i > 1 /\ "explicit" \in r.tree[r.at].flags
    BY <1>10 DEF Steps
  <2>3. /\ l + (i - 1) = l + i - 1 /\ l + i \in l + 1 .. l + i
        /\ i > 1 => l + i - 1 \in l + 1 .. l + i - 1
        /\ \A j \in l + 1 .. l + i - 1 : j \in l + 1 .. l + i
        /\ \A j \in l + 1 .. l + i - 1 - 1 : j \in l + 1 .. l + i - 1
    BY <1>2
  <2>4. r.ok => Append(r.at, path[i]) = Pre(w, l + i)
    BY <1>3, <2>1, <2>3
  <2>5. ASSUME NEW q \in DOMAIN z.tree \ DOMAIN s.tree
        PROVE  \E j \in l + 1 .. l + i : q = Pre(w, j)
    <3>1. CASE q \in DOMAIN r.tree
      BY <2>1, <2>3, <2>5, <3>1
    <3>2. CASE q \notin DOMAIN r.tree
      <4>1. r.ok /\ q = Append(r.at, path[i])
        BY <1>6, <2>5, <3>2
      <4> QED BY <2>3, <2>4, <4>1
    <3> QED BY <3>1, <3>2
  <2>6. z.ok => z.at = Pre(w, l + i)
    BY <1>6, <2>2, <2>4
  <2>7. ASSUME s.ok, ~z.ok
        PROVE  \/ \E j \in l + 1 .. l + i :
                    Pre(w, j) \in DOMAIN s.tree /\ s.tree[Pre(w, j)].type # "table"
               \/ dotted /\ \E j \in l + 1 .. l + i - 1 :
                    Pre(w, j) \in DOMAIN s.tree /\ "explicit" \in s.tree[Pre(w, j)].flags
    <3>1. CASE ~r.ok
      <4>1. CASE \E j \in l + 1 .. l + (i - 1) :
                   Pre(w, j) \in DOMAIN s.tree /\ s.tree[Pre(w, j)].type # "table"
        BY <2>3, <4>1
      <4>2. CASE dotted /\ \E j \in l + 1 .. l + (i - 1) - 1 :
                   Pre(w, j) \in DOMAIN s.tree /\ "explicit" \in s.tree[Pre(w, j)].flags
        <5>1. PICK j \in l + 1 .. l + (i - 1) - 1 :
                Pre(w, j) \in DOMAIN s.tree /\ "explicit" \in s.tree[Pre(w, j)].flags
          BY <4>2
        <5>2. j \in l + 1 .. l + i - 1
          BY <1>2
        <5> QED BY <4>2, <5>1, <5>2
      <4> QED BY <2>1, <2>7, <3>1, <4>1, <4>2
    <3>2. CASE r.ok
      <4>1. CASE /\ Append(r.at, path[i]) \in DOMAIN r.tree
                 /\ r.tree[Append(r.at, path[i])].type # "table"
        <5>1. Pre(w, l + i) \in DOMAIN r.tree /\ r.tree[Pre(w, l + i)].type # "table"
          BY <2>4, <3>2, <4>1
        <5>2. Pre(w, l + i) \in DOMAIN s.tree
          BY <1>4, <1>5, <5>1
        <5>3. s.tree[Pre(w, l + i)].type # "table"
          BY <1>5, <5>1, <5>2 DEF Kept
        <5> QED BY <2>3, <5>2, <5>3
      <4>2. CASE dotted /\ i > 1 /\ "explicit" \in r.tree[r.at].flags
        <5>1. r.at = Pre(w, l + i - 1) /\ r.at \in DOMAIN r.tree
          BY <1>5, <2>1, <2>3, <3>2 DEF PlaceOK
        <5>2. Pre(w, l + i - 1) \in DOMAIN s.tree
          BY <1>4, <1>5, <4>2, <5>1
        <5>3. "explicit" \in s.tree[Pre(w, l + i - 1)].flags
          BY <1>5, <4>2, <5>1, <5>2 DEF Kept
        <5>4. l + i - 1 \in l + 1 .. l + i - 1
          BY <2>3, <4>2
        <5> QED BY <4>2, <5>2, <5>3, <5>4
      <4> QED BY <2>2, <2>7, <3>2, <4>1, <4>2
    <3> QED BY <1>5, <3>1, <3>2 DEF PlaceOK
  <2> QED BY <2>5, <2>6, <2>7
<1> QED BY <1>6, <1>7, <1>8, <1>9, <1>10 DEF Walks, w, l, made

LEMMA StepsWhere ==
  ASSUME NEW s, NEW r, NEW k, NEW m, NEW flags, NEW n, NEW dotted, NEW A, NEW B, B => A,
         Steps(s, r, k, m, A, dotted, flags, n)
  PROVE  Steps(s, r, k, m, B, dotted, flags, n)
BY DEF Steps

LEMMA WalksNoArrays ==
  ASSUME NEW s, NEW r, NEW path, NEW i, NEW m, NEW straight, NEW dotted,
         NEW flags \in SUBSET Flags, NEW n \in Nat,
         Walks(s, r, path, i, m, straight, dotted, flags, n), NoArrays(s.tree)
  PROVE  NoArrays(r.tree)
<1>1. /\ Kept(s.tree, r.tree)
      /\ \A q \in DOMAIN r.tree \ DOMAIN s.tree : r.tree[q] = Node("table", flags, n)
  BY DEF Walks
<1>2. Node("table", flags, n).type = "table"
  BY NodeIs
<1> QED BY <1>1, <1>2 DEF NoArrays, Kept

\* The places on the first k steps of Descend.
DescentOf(s, path, flags, n, k, at) ==
  at = [i \in 0 .. k |-> IF i = 0 THEN s ELSE DescendInto(at[i - 1], path[i], flags, n)]

LEMMA DescentExists ==
  ASSUME NEW s, NEW path, NEW flags, NEW n, NEW k \in Nat
  PROVE  \E at : DescentOf(s, path, flags, n, k, at)
<1> DEFINE S == {j \in Nat : ~\E at : DescentOf(s, path, flags, n, j, at)}
<1> SUFFICES ASSUME S # {} PROVE FALSE
  OBVIOUS
<1>1. PICK j \in S : \A i \in S : j <= i
  <2>1. S \in SUBSET Nat
    OBVIOUS
  <2> HIDE DEF S
  <2> QED BY <2>1, Least
<1>2. CASE j = 0
  <2>1. DescentOf(s, path, flags, n, 0, [i \in 0 .. 0 |-> s])
    BY DEF DescentOf
  <2> QED BY <1>1, <1>2, <2>1
<1>3. CASE j # 0
  <2>1. j - 1 \in Nat /\ j - 1 \notin S
    BY <1>1, <1>3
  <2>2. PICK at : DescentOf(s, path, flags, n, j - 1, at)
    BY <2>1
  <2> DEFINE next == DescendInto(at[j - 1], path[j], flags, n)
             more == [i \in 0 .. j |-> IF i < j THEN at[i] ELSE next]
  <2>3. ASSUME NEW i \in 0 .. j
        PROVE  more[i] = IF i = 0 THEN s ELSE DescendInto(more[i - 1], path[i], flags, n)
    <3> HIDE DEF next
    <3>1. CASE i = j
      <4>1. more[j] = next /\ more[j - 1] = at[j - 1]
        BY <2>1
      <4> QED BY <1>3, <3>1, <4>1 DEF next
    <3>2. CASE i # j /\ i = 0
      <4>1. more[0] = at[0] /\ at[0] = s
        BY <2>1, <2>2, <3>2 DEF DescentOf
      <4> QED BY <3>2, <4>1
    <3>3. CASE i # j /\ i # 0
      <4>1. more[i] = at[i] /\ more[i - 1] = at[i - 1]
        BY <3>3
      <4>2. at[i] = DescendInto(at[i - 1], path[i], flags, n)
        BY <2>1, <2>2, <3>3 DEF DescentOf
      <4> QED BY <3>3, <4>1, <4>2
    <3> QED BY <3>1, <3>2, <3>3
  <2>4. DescentOf(s, path, flags, n, j, more)
    <3>1. more = [i \in 0 .. j |-> more[i]]
      OBVIOUS
    <3> HIDE DEF more
    <3> QED BY <2>3, <3>1 DEF DescentOf
  <2> QED BY <1>1, <2>4
<1> QED BY <1>2, <1>3

\* Descend walks down the path, past the elements of arrays.
LEMMA DescendWalks ==
  ASSUME NEW s, NEW m \in Nat, PlaceOK(s, m), NEW path \in Seq(Keys),
         NEW flags \in {{}, {"std"}}, NEW n \in Nat
  PROVE  Walks(s, Descend(s, path, flags, n), path, Len(path), m, NoArrays(s.tree), FALSE, flags, n)
<1>0. Len(path) \in Nat
  OBVIOUS
<1>1. PICK at : DescentOf(s, path, flags, n, Len(path), at)
  BY <1>0, DescentExists
<1>2. Descend(s, path, flags, n) =
        (CHOOSE at_1 : DescentOf(s, path, flags, n, Len(path), at_1))[Len(path)]
  BY DEF Descend, DescentOf
<1>3. PICK to : /\ DescentOf(s, path, flags, n, Len(path), to)
                /\ Descend(s, path, flags, n) = to[Len(path)]
  BY <1>1, <1>2
<1> DEFINE W(i) == Walks(s, to[i], path, i, m, NoArrays(s.tree), FALSE, flags, n)
           S == {i \in 0 .. Len(path) : ~W(i)}
<1> HIDE DEF W
<1>4. S = {}
  <2> SUFFICES ASSUME S # {} PROVE FALSE
    OBVIOUS
  <2>1. PICK i \in S : \A j \in S : i <= j
    <3>1. S \in SUBSET Nat
      BY <1>0
    <3> HIDE DEF S
    <3> QED BY <3>1, Least
  <2>2. CASE i = 0
    <3>1. to[0] = s
      BY <1>3 DEF DescentOf
    <3>2. W(0)
      BY <3>1, NoWalk DEF W
    <3> QED BY <2>1, <2>2, <3>2
  <2>3. CASE i # 0
    <3>1. i \in 1 .. Len(path) /\ i \in 0 .. Len(path) /\ i - 1 \in 0 .. Len(path) /\ i - 1 \notin S
      BY <1>0, <2>1, <2>3
    <3>2. W(i - 1)
      BY <3>1
    <3>3. to[i] = DescendInto(to[i - 1], path[i], flags, n)
      BY <1>3, <2>3, <3>1 DEF DescentOf
    <3>4. PlaceOK(to[i - 1], m) /\ path[i] \in Keys /\ flags \in SUBSET Flags
      BY <3>1, <3>2 DEF Walks, Flags, W
    <3>5. Steps(to[i - 1], to[i], path[i], m, NoArrays(to[i - 1].tree), FALSE, flags, n)
      BY <3>3, <3>4, DescendIntoSteps
    <3>6. NoArrays(s.tree) => NoArrays(to[i - 1].tree)
      BY <3>2, <3>4, WalksNoArrays DEF W
    <3>7. Steps(to[i - 1], to[i], path[i], m, NoArrays(s.tree), FALSE, flags, n)
      BY <3>5, <3>6, StepsWhere
    <3>9. W(i)
      <4>1. Walks(s, to[i - 1], path, i - 1, m, NoArrays(s.tree), FALSE, flags, n)
        BY <3>2 DEF W
      <4>2. flags \in {{}, {"std"}} /\ n \in Nat /\ path \in Seq(Keys) /\ i \in 1 .. Len(path)
        BY <3>1
      <4>3. Walks(s, to[i], path, i, m, NoArrays(s.tree), FALSE, flags, n)
        BY <3>7, <4>1, <4>2, WalkSteps, Zenon
      <4> QED BY <4>3 DEF W
    <3> QED BY <2>1, <3>9
  <2> QED BY <2>2, <2>3
<1>5. W(Len(path))
  <2>1. Len(path) \in 0 .. Len(path)
    BY <1>0
  <2> QED BY <1>4, <2>1
<1> QED BY <1>3, <1>5 DEF W

\* The places on the first k steps of Dotted.
DottingOf(s, path, n, k, at) ==
  at = [i \in 0 .. k |-> IF i = 0 THEN s ELSE DottedStep(at[i - 1], path, i, n)]

LEMMA DottingExists ==
  ASSUME NEW s, NEW path, NEW n, NEW k \in Nat
  PROVE  \E at : DottingOf(s, path, n, k, at)
<1> DEFINE S == {j \in Nat : ~\E at : DottingOf(s, path, n, j, at)}
<1> SUFFICES ASSUME S # {} PROVE FALSE
  OBVIOUS
<1>1. PICK j \in S : \A i \in S : j <= i
  <2>1. S \in SUBSET Nat
    OBVIOUS
  <2> HIDE DEF S
  <2> QED BY <2>1, Least
<1>2. CASE j = 0
  <2>1. DottingOf(s, path, n, 0, [i \in 0 .. 0 |-> s])
    BY DEF DottingOf
  <2> QED BY <1>1, <1>2, <2>1
<1>3. CASE j # 0
  <2>1. j - 1 \in Nat /\ j - 1 \notin S
    BY <1>1, <1>3
  <2>2. PICK at : DottingOf(s, path, n, j - 1, at)
    BY <2>1
  <2> DEFINE next == DottedStep(at[j - 1], path, j, n)
             more == [i \in 0 .. j |-> IF i < j THEN at[i] ELSE next]
  <2>3. ASSUME NEW i \in 0 .. j
        PROVE  more[i] = IF i = 0 THEN s ELSE DottedStep(more[i - 1], path, i, n)
    <3> HIDE DEF next
    <3>1. CASE i = j
      <4>1. more[j] = next /\ more[j - 1] = at[j - 1]
        BY <2>1
      <4> QED BY <1>3, <3>1, <4>1 DEF next
    <3>2. CASE i # j /\ i = 0
      <4>1. more[0] = at[0] /\ at[0] = s
        BY <2>1, <2>2, <3>2 DEF DottingOf
      <4> QED BY <3>2, <4>1
    <3>3. CASE i # j /\ i # 0
      <4>1. more[i] = at[i] /\ more[i - 1] = at[i - 1]
        BY <3>3
      <4>2. at[i] = DottedStep(at[i - 1], path, i, n)
        BY <2>1, <2>2, <3>3 DEF DottingOf
      <4> QED BY <3>3, <4>1, <4>2
    <3> QED BY <3>1, <3>2, <3>3
  <2>4. DottingOf(s, path, n, j, more)
    <3>1. more = [i \in 0 .. j |-> more[i]]
      OBVIOUS
    <3> HIDE DEF more
    <3> QED BY <2>3, <3>1 DEF DottingOf
  <2> QED BY <1>1, <2>4
<1> QED BY <1>2, <1>3

\* Dotted walks down the path, but for its last part, unless there is something
\* else, or a table that has been defined.
LEMMA DottedWalks ==
  ASSUME NEW s, NEW m \in Nat, PlaceOK(s, m), NEW path \in Seq(Keys), path # <<>>, NEW n \in Nat
  PROVE  Walks(s, Dotted(s, path, n), path, Len(path) - 1, m, TRUE, TRUE, {}, n)
<1>0. Len(path) \in Nat \ {0} /\ Len(path) - 1 \in Nat
  BY EmptySeq
<1>1. PICK at : DottingOf(s, path, n, Len(path) - 1, at)
  BY <1>0, DottingExists
<1>2. Dotted(s, path, n) =
        (CHOOSE at_1 : DottingOf(s, path, n, Len(path) - 1, at_1))[Len(path) - 1]
  BY DEF Dotted, DottingOf
<1>3. PICK to : /\ DottingOf(s, path, n, Len(path) - 1, to)
                /\ Dotted(s, path, n) = to[Len(path) - 1]
  BY <1>1, <1>2
<1> DEFINE W(i) == Walks(s, to[i], path, i, m, TRUE, TRUE, {}, n)
           S == {i \in 0 .. Len(path) - 1 : ~W(i)}
<1> HIDE DEF W
<1>4. S = {}
  <2> SUFFICES ASSUME S # {} PROVE FALSE
    OBVIOUS
  <2>1. PICK i \in S : \A j \in S : i <= j
    <3>1. S \in SUBSET Nat
      BY <1>0
    <3> HIDE DEF S
    <3> QED BY <3>1, Least
  <2>2. CASE i = 0
    <3>1. to[0] = s
      BY <1>0, <1>3 DEF DottingOf
    <3>2. W(0)
      BY <3>1, NoWalk DEF W
    <3> QED BY <2>1, <2>2, <3>2
  <2>3. CASE i # 0
    <3>1. /\ i \in 1 .. Len(path) /\ i \in 0 .. Len(path) - 1 /\ i - 1 \in 0 .. Len(path) - 1
          /\ i - 1 \notin S
      BY <1>0, <2>1, <2>3
    <3>2. W(i - 1)
      BY <3>1
    <3>3. to[i] = DottedStep(to[i - 1], path, i, n)
      BY <1>3, <2>3, <3>1 DEF DottingOf
    <3>4. PlaceOK(to[i - 1], m)
      BY <3>2 DEF Walks, W
    <3>5. Steps(to[i - 1], to[i], path[i], m, TRUE, i > 1, {}, n)
      BY <3>1, <3>3, <3>4, DottedSteps
    <3>6. W(i)
      <4>1. Walks(s, to[i - 1], path, i - 1, m, TRUE, TRUE, {}, n)
        BY <3>2 DEF W
      <4>2. {} \in {{}, {"std"}} /\ (i > 1 => TRUE /\ i > 1)
        OBVIOUS
      <4>3. Walks(s, to[i], path, i, m, TRUE, TRUE, {}, n)
        BY <3>1, <3>5, <4>1, <4>2, WalkSteps, Zenon
      <4> QED BY <4>3 DEF W
    <3> QED BY <2>1, <3>1, <3>6
  <2> QED BY <2>2, <2>3
<1>5. W(Len(path) - 1)
  <2>1. Len(path) - 1 \in 0 .. Len(path) - 1
    BY <1>0
  <2> QED BY <1>4, <2>1
<1> QED BY <1>3, <1>5 DEF W

-----------------------------------------------------------------------------
(* Values. *)

\* Flags do not matter for the shape of a tree.
LEMMA Reflagged ==
  ASSUME NEW t, NEW m, Tree(t, m), NEW u, u \in [DOMAIN t -> Nodes],
         \A p \in DOMAIN t : u[p].type = t[p].type
  PROVE  Tree(u, m)
<1>1. DOMAIN u = DOMAIN t
  OBVIOUS
<1>2. \A p, k : Holds(t, p, k) => Holds(u, p, k)
  BY <1>1 DEF Holds
<1>3. \A p, i : Counted(t, p, i) => Counted(u, p, i)
  BY <1>1 DEF Counted
<1>4. u \in [DOMAIN u -> Nodes] /\ DOMAIN u \subseteq Seq(Labels) /\ <<>> \in DOMAIN u
  BY <1>1 DEF Tree
<1>5. ASSUME NEW p \in DOMAIN u, p # <<>> PROVE Holds(u, Front(p), Last(p))
  BY <1>1, <1>2, <1>5 DEF Tree
<1>6. ASSUME NEW p \in DOMAIN u, u[p].type = "array"
      PROVE  \E i \in 0 .. Len(Elements) : i <= m /\ Counted(u, p, i)
  <2>1. t[p].type = "array" /\ p \in DOMAIN t
    BY <1>1, <1>6
  <2>2. PICK i \in 0 .. Len(Elements) : i <= m /\ Counted(t, p, i)
    BY <2>1 DEF Tree
  <2> QED BY <1>3, <2>2
<1> QED BY <1>4, <1>5, <1>6 DEF Tree

LEMMA MarkIs ==
  ASSUME NEW t, NEW m, Tree(t, m), NEW p \in DOMAIN t, NEW flag \in {"explicit", "inlined"}
  PROVE  LET u == Mark(t, p, flag)
         IN  /\ Tree(u, m) /\ DOMAIN u = DOMAIN t /\ \A q \in DOMAIN t : q # p => u[q] = t[q]
             /\ u[p].type = t[p].type /\ u[p].by = t[p].by /\ u[p].flags = t[p].flags \cup {flag}
<1> DEFINE u == Mark(t, p, flag)
           node == [t[p] EXCEPT !.flags = @ \cup {flag}]
<1>1. t \in [DOMAIN t -> Nodes]
  BY DEF Tree
<1>2. /\ node \in Nodes /\ node.type = t[p].type /\ node.by = t[p].by
      /\ node.flags = t[p].flags \cup {flag}
  <2>1. t[p] \in Nodes
    BY <1>1
  <2>2. PICK a \in {"table", "array", "number"}, f \in SUBSET Flags, b \in Nat :
          t[p] = [type |-> a, flags |-> f, by |-> b] /\ ("std" \in f => a = "table")
    <3>1. t[p] = [type |-> t[p].type, flags |-> t[p].flags, by |-> t[p].by]
      BY <2>1, NodeFields
    <3>2. t[p].type \in {"table", "array", "number"} /\ t[p].flags \in SUBSET Flags /\ t[p].by \in Nat
      BY <2>1, NodeFields
    <3>3. "std" \in t[p].flags => t[p].type = "table"
      BY <2>1, NodeFields
    <3> QED BY <3>1, <3>2, <3>3
  <2>3. node = [type |-> a, flags |-> f \cup {flag}, by |-> b]
    BY <2>2
  <2>4. f \cup {flag} \in SUBSET Flags /\ ("std" \in f \cup {flag} => a = "table")
    BY <2>2 DEF Flags
  <2>5. t[p].type = a /\ t[p].flags = f /\ t[p].by = b
    BY <2>2
  <2> QED BY <2>3, <2>4, <2>5, NodeMade
<1> HIDE DEF node
<1>3. u = [t EXCEPT ![p] = node]
  BY <1>1 DEF Mark, node
<1>4. u \in [DOMAIN t -> Nodes] /\ u[p] = node /\ \A q \in DOMAIN t : q # p => u[q] = t[q]
  BY <1>1, <1>2, <1>3
<1> HIDE DEF u
<1>5. \A q \in DOMAIN t : u[q].type = t[q].type
  BY <1>2, <1>4
<1>6. Tree(u, m)
  BY <1>4, <1>5, Reflagged
<1> QED BY <1>2, <1>4, <1>6 DEF u

LEMMA InlinedIs ==
  ASSUME NEW t, NEW m, Tree(t, m)
  PROVE  /\ Tree(Inlined(t), m) /\ DOMAIN Inlined(t) = DOMAIN t
         /\ \A p \in DOMAIN t : Inlined(t)[p].type = t[p].type
<1>1. ASSUME NEW p \in DOMAIN t
      PROVE  Inlined(t)[p] \in Nodes /\ Inlined(t)[p].type = t[p].type
  <2>1. t[p] \in Nodes /\ Inlined(t)[p] = [t[p] EXCEPT !.flags = @ \cup {"inlined"}]
    BY DEF Tree, Inlined
  <2>2. PICK a \in {"table", "array", "number"}, f \in SUBSET Flags, b \in Nat :
          t[p] = [type |-> a, flags |-> f, by |-> b] /\ ("std" \in f => a = "table")
    <3>1. t[p] = [type |-> t[p].type, flags |-> t[p].flags, by |-> t[p].by]
      BY <2>1, NodeFields
    <3>2. t[p].type \in {"table", "array", "number"} /\ t[p].flags \in SUBSET Flags /\ t[p].by \in Nat
      BY <2>1, NodeFields
    <3>3. "std" \in t[p].flags => t[p].type = "table"
      BY <2>1, NodeFields
    <3> QED BY <3>1, <3>2, <3>3
  <2>3. Inlined(t)[p] = [type |-> a, flags |-> f \cup {"inlined"}, by |-> b]
    BY <2>1, <2>2
  <2>4. f \cup {"inlined"} \in SUBSET Flags /\ ("std" \in f \cup {"inlined"} => a = "table")
    BY <2>2 DEF Flags
  <2>5. t[p].type = a
    BY <2>2
  <2> QED BY <2>3, <2>4, <2>5, NodeMade
<1>2. Inlined(t) \in [DOMAIN t -> Nodes]
  BY <1>1 DEF Inlined
<1>3. Tree(Inlined(t), m)
  BY <1>1, <1>2, Reflagged
<1> QED BY <1>1, <1>2, <1>3

\* A value is added where it fits, unless there is one.
LEMMA AddFits ==
  ASSUME NEW s, NEW m \in Nat, IsPlace(s), Tree(s.tree, m), NEW k, Fits(s.tree, s.at, k, m),
         NEW v, NEW l \in Nat, Tree(v, l), l <= m
  PROVE  /\ IsPlace(Add(s, k, v)) /\ Add(s, k, v).ok = s.ok /\ Add(s, k, v).at = s.at
         /\ Tree(Add(s, k, v).tree, m)
         /\ Grafted(Add(s, k, v).tree, s.tree, Append(s.at, k), v)
<1> DEFINE g == Graft(s.tree, Append(s.at, k), v)
<1>1. Tree(g, m) /\ Grafted(g, s.tree, Append(s.at, k), v)
  BY GraftTree
<1>2. Add(s, k, v) = [s EXCEPT !.tree = g]
  BY DEF Add, Fits
<1> HIDE DEF g
<1>3. PICK o, t, a : s = [ok |-> o, tree |-> t, at |-> a]
  BY DEF IsPlace
<1>4. Add(s, k, v) = [ok |-> o, tree |-> g, at |-> a] /\ s.ok = o /\ s.at = a
  BY <1>2, <1>3
<1>5. Add(s, k, v).tree = g /\ IsPlace(Add(s, k, v)) /\ Add(s, k, v).ok = s.ok /\ Add(s, k, v).at = s.at
  BY <1>4 DEF IsPlace
<1> QED BY <1>1, <1>5

LEMMA GraftedKeeps ==
  ASSUME NEW g, NEW t, NEW a, NEW v, Grafted(g, t, a, v)
  PROVE  Kept(t, g)
BY DEF Grafted, Kept

LEMMA AddIs ==
  ASSUME NEW s, NEW m \in Nat, PlaceOK(s, m), NEW k \in Keys,
         NEW v, NEW l \in Nat, Tree(v, l), l <= m
  PROVE  LET r == Add(s, k, v)
             p == Append(s.at, k)
         IN  /\ PlaceOK(r, m) /\ Kept(s.tree, r.tree) /\ r.at = s.at
             /\ p \in DOMAIN s.tree => ~r.ok
             /\ p \notin DOMAIN s.tree => r.ok = s.ok /\ Grafted(r.tree, s.tree, p, v)
             /\ r.ok => s.ok
<1> DEFINE r == Add(s, k, v)
           p == Append(s.at, k)
<1>1. CASE p \in DOMAIN s.tree
  <2>1. r = Fail(s)
    BY <1>1 DEF Add
  <2>2. IsPlace(r) /\ r.ok = FALSE /\ r.tree = s.tree /\ r.at = s.at
    BY <2>1, FailPlace DEF PlaceOK
  <2> HIDE DEF r
  <2>3. PlaceOK(r, m)
    BY <2>2 DEF PlaceOK
  <2> QED BY <1>1, <2>2, <2>3, KeptSame DEF r
<1>2. CASE p \notin DOMAIN s.tree
  <2>1. IsPlace(s) /\ Tree(s.tree, m) /\ Fits(s.tree, s.at, k, m)
    BY <1>2 DEF PlaceOK, Fits
  <2>2. IsPlace(r) /\ r.ok = s.ok /\ r.at = s.at /\ Tree(r.tree, m)
        /\ Grafted(r.tree, s.tree, p, v)
    BY <2>1, AddFits
  <2> HIDE DEF r
  <2>3. Kept(s.tree, r.tree)
    BY <2>2, GraftedKeeps
  <2>4. PlaceOK(r, m)
    BY <2>2, <2>3 DEF PlaceOK, Kept
  <2> QED BY <1>2, <2>2, <2>3, <2>4 DEF r
<1> QED BY <1>1, <1>2

\* A place in a tree of tables and the like, not in an array.
Rooted(s, m) == PlaceOK(s, m) /\ s.tree[<<>>].type = "table"

InlineParts == [path : Seq(Keys) \ {<<>>}, value : {"1", "{}"}]

LEMMA RootLeaf ==
  ASSUME NEW type \in {"table", "array", "number"}, NEW n \in Nat, NEW m \in Nat
  PROVE  LET t == Leaf(Node(type, {}, n))
         IN  /\ Tree(t, m) /\ DOMAIN t = {<<>>} /\ t[<<>>] = Node(type, {}, n)
             /\ t[<<>>].type = type
<1> DEFINE node == Node(type, {}, n)
<1>1. node \in Nodes /\ node.type = type
  BY NodeIs
<1> HIDE DEF node
<1>2. Tree(Leaf(node), m) /\ DOMAIN Leaf(node) = {<<>>} /\ Leaf(node)[<<>>] = node
  BY <1>1, LeafTree
<1> QED BY <1>1, <1>2 DEF node

LEMMA InlineEntryOK ==
  ASSUME NEW t, NEW m \in Nat, Rooted(t, m), NEW e \in InlineParts, NEW n \in Nat
  PROVE  Rooted(InlineEntry(t, e, n), m)
<1> DEFINE s == Descend(t, Front(e.path), {}, n)
           marked == [s EXCEPT !.tree = Mark(s.tree, s.at, "explicit")]
           value == IF e.value = "{}" THEN Inlined(Braces(n)) ELSE Number(n)
           added == Add(marked, Last(e.path), value)
<1>1. e.path \in Seq(Keys) /\ e.path # <<>>
  BY DEF InlineParts
<1>2. Front(e.path) \in Seq(Keys) /\ Last(e.path) \in Keys
  BY <1>1, Parent
<1>3. Rooted(s, m)
  <2>1. Walks(t, s, Front(e.path), Len(Front(e.path)), m, NoArrays(t.tree), FALSE, {}, n)
    BY <1>2, DescendWalks DEF Rooted
  <2> HIDE DEF s
  <2>2. PlaceOK(s, m) /\ Kept(t.tree, s.tree)
    BY <2>1 DEF Walks
  <2>3. <<>> \in DOMAIN t.tree /\ t.tree[<<>>].type = "table"
    BY DEF Rooted, PlaceOK, Tree
  <2> QED BY <2>2, <2>3 DEF Rooted, Kept
<1>4. Tree(value, 0)
  <2>1. Tree(Number(n), 0) /\ Tree(Braces(n), 0)
    BY RootLeaf DEF Number, Braces
  <2>2. Tree(Inlined(Braces(n)), 0)
    BY <2>1, InlinedIs
  <2> QED BY <2>1, <2>2
<1>5. InlineEntry(t, e, n) = IF ~s.ok \/ Has(s, "inlined") THEN Fail(s) ELSE Enter(added, <<>>)
  BY DEF InlineEntry
<1> HIDE DEF s, value
<1>6. CASE ~s.ok \/ Has(s, "inlined")
  <2>1. InlineEntry(t, e, n) = Fail(s)
    BY <1>5, <1>6
  <2>2. IsPlace(Fail(s)) /\ Fail(s).ok = FALSE /\ Fail(s).tree = s.tree /\ Fail(s).at = s.at
    BY <1>3, FailPlace DEF Rooted, PlaceOK
  <2> QED BY <1>3, <2>1, <2>2 DEF Rooted, PlaceOK
<1>7. CASE ~(~s.ok \/ Has(s, "inlined"))
  <2>1. InlineEntry(t, e, n) = Enter(added, <<>>)
    BY <1>5, <1>7
  <2>2. Rooted(marked, m)
    <3> DEFINE u == Mark(s.tree, s.at, "explicit")
    <3>1. Tree(s.tree, m) /\ s.at \in DOMAIN s.tree /\ "explicit" \in Flags
      BY <1>3 DEF Rooted, PlaceOK, Flags
    <3>2. /\ Tree(u, m) /\ DOMAIN u = DOMAIN s.tree
          /\ \A q \in DOMAIN s.tree : q # s.at => u[q] = s.tree[q]
          /\ u[s.at].type = s.tree[s.at].type
      BY <3>1, MarkIs
    <3> HIDE DEF u
    <3>3. PICK o, tt, a : s = [ok |-> o, tree |-> tt, at |-> a]
      BY <1>3 DEF Rooted, PlaceOK, IsPlace
    <3>4. marked = [ok |-> o, tree |-> u, at |-> a] /\ s.ok = o /\ s.at = a
      BY <3>3 DEF u
    <3>5. IsPlace(marked) /\ marked.tree = u /\ marked.at = s.at /\ marked.ok = s.ok
      BY <3>4 DEF IsPlace
    <3> HIDE DEF marked
    <3>6. <<>> \in DOMAIN s.tree
      BY <3>1 DEF Tree
    <3> QED BY <1>3, <3>2, <3>5, <3>6 DEF Rooted, PlaceOK
  <2> HIDE DEF marked
  <2>3. PlaceOK(added, m) /\ Kept(marked.tree, added.tree)
    <3>1. 0 \in Nat /\ 0 <= m /\ PlaceOK(marked, m)
      BY <2>2 DEF Rooted
    <3> QED BY <1>2, <1>4, <3>1, AddIs
  <2> HIDE DEF added
  <2>4. <<>> \in DOMAIN added.tree /\ added.tree[<<>>].type = "table"
    BY <2>2, <2>3 DEF Rooted, PlaceOK, Tree, Kept
  <2> DEFINE r == Enter(added, <<>>)
  <2>5. IsPlace(r) /\ r.ok = added.ok /\ r.tree = added.tree /\ r.at = <<>>
    BY <2>3, EnterPlace DEF PlaceOK
  <2> HIDE DEF r
  <2>6. Rooted(r, m)
    BY <2>3, <2>4, <2>5 DEF Rooted, PlaceOK
  <2> QED BY <2>1, <2>6 DEF r
<1> QED BY <1>6, <1>7

\* The places after the first k entries of an inline table.
InliningOf(entries, n, k, at) ==
  at = [i \in 0 .. k |-> IF i = 0 THEN Place(Braces(n), <<>>)
                         ELSE InlineEntry(at[i - 1], entries[i], n)]

LEMMA InliningExists ==
  ASSUME NEW entries, NEW n, NEW k \in Nat
  PROVE  \E at : InliningOf(entries, n, k, at)
<1> DEFINE S == {j \in Nat : ~\E at : InliningOf(entries, n, j, at)}
           start == Place(Braces(n), <<>>)
<1> SUFFICES ASSUME S # {} PROVE FALSE
  OBVIOUS
<1>1. PICK j \in S : \A i \in S : j <= i
  <2>1. S \in SUBSET Nat
    OBVIOUS
  <2> HIDE DEF S
  <2> QED BY <2>1, Least
<1>2. CASE j = 0
  <2>1. InliningOf(entries, n, 0, [i \in 0 .. 0 |-> start])
    BY DEF InliningOf
  <2> QED BY <1>1, <1>2, <2>1
<1>3. CASE j # 0
  <2>1. j - 1 \in Nat /\ j - 1 \notin S
    BY <1>1, <1>3
  <2>2. PICK at : InliningOf(entries, n, j - 1, at)
    BY <2>1
  <2> DEFINE next == InlineEntry(at[j - 1], entries[j], n)
             more == [i \in 0 .. j |-> IF i < j THEN at[i] ELSE next]
  <2>3. ASSUME NEW i \in 0 .. j
        PROVE  more[i] = IF i = 0 THEN start ELSE InlineEntry(more[i - 1], entries[i], n)
    <3> HIDE DEF next, start
    <3>1. CASE i = j
      <4>1. more[j] = next /\ more[j - 1] = at[j - 1]
        BY <2>1
      <4> QED BY <1>3, <3>1, <4>1 DEF next
    <3>2. CASE i # j /\ i = 0
      <4>1. more[0] = at[0] /\ at[0] = start
        BY <2>1, <2>2, <3>2 DEF InliningOf, start
      <4> QED BY <3>2, <4>1
    <3>3. CASE i # j /\ i # 0
      <4>1. more[i] = at[i] /\ more[i - 1] = at[i - 1]
        BY <3>3
      <4>2. at[i] = InlineEntry(at[i - 1], entries[i], n)
        BY <2>1, <2>2, <3>3 DEF InliningOf
      <4> QED BY <3>3, <4>1, <4>2
    <3> QED BY <3>1, <3>2, <3>3
  <2>4. InliningOf(entries, n, j, more)
    <3>1. more = [i \in 0 .. j |-> more[i]]
      OBVIOUS
    <3> HIDE DEF more
    <3> QED BY <2>3, <3>1 DEF InliningOf
  <2> QED BY <1>1, <2>4
<1> QED BY <1>2, <1>3

LEMMA InlineTableOK ==
  ASSUME NEW entries \in Seq(InlineParts), NEW n \in Nat
  PROVE  LET s == InlineTable(entries, n)
         IN  Rooted(s, 0) /\ s.tree[<<>>].type = "table"
<1>0. Len(entries) \in Nat
  OBVIOUS
<1>1. PICK at : InliningOf(entries, n, Len(entries), at)
  BY <1>0, InliningExists
<1>2. PICK to : /\ InliningOf(entries, n, Len(entries), to)
                /\ InlineTable(entries, n) =
                     [to[Len(entries)] EXCEPT !.tree = Inlined(to[Len(entries)].tree)]
  <2> DEFINE chosen == CHOOSE at_1 : InliningOf(entries, n, Len(entries), at_1)
  <2>1. InlineTable(entries, n) =
          [chosen[Len(entries)] EXCEPT !.tree = Inlined(chosen[Len(entries)].tree)]
    BY DEF InlineTable, InliningOf
  <2>2. InliningOf(entries, n, Len(entries), chosen)
    BY <1>1
  <2> QED BY <2>1, <2>2
<1> DEFINE S == {i \in 0 .. Len(entries) : ~Rooted(to[i], 0)}
<1>3. S = {}
  <2> SUFFICES ASSUME S # {} PROVE FALSE
    OBVIOUS
  <2>1. PICK i \in S : \A j \in S : i <= j
    <3>1. S \in SUBSET Nat
      BY <1>0
    <3> HIDE DEF S
    <3> QED BY <3>1, Least
  <2>2. CASE i = 0
    <3>1. to[0] = Place(Braces(n), <<>>)
      BY <1>0, <1>2 DEF InliningOf
    <3>2. /\ Tree(Braces(n), 0) /\ DOMAIN Braces(n) = {<<>>} /\ Braces(n)[<<>>].type = "table"
      BY RootLeaf DEF Braces
    <3>3. /\ IsPlace(to[0]) /\ to[0].ok \in BOOLEAN /\ to[0].tree = Braces(n)
          /\ to[0].at = <<>>
      <4> DEFINE b == Braces(n)
      <4> HIDE DEF b
      <4>1. /\ IsPlace(Place(b, <<>>)) /\ Place(b, <<>>).tree = b /\ Place(b, <<>>).at = <<>>
            /\ Place(b, <<>>).ok \in BOOLEAN
        BY PlaceIs
      <4> QED BY <3>1, <4>1 DEF b
    <3>4. Rooted(to[0], 0)
      BY <3>2, <3>3 DEF Rooted, PlaceOK
    <3> QED BY <2>1, <2>2, <3>4
  <2>3. CASE i # 0
    <3>1. /\ i \in 1 .. Len(entries) /\ i \in 0 .. Len(entries) /\ i - 1 \in 0 .. Len(entries)
          /\ i - 1 \notin S
      BY <1>0, <2>1, <2>3
    <3>2. Rooted(to[i - 1], 0)
      BY <3>1
    <3>3. to[i] = InlineEntry(to[i - 1], entries[i], n)
      BY <1>2, <2>3, <3>1 DEF InliningOf
    <3>4. entries[i] \in InlineParts
      BY <3>1
    <3>5. Rooted(to[i], 0)
      BY <3>2, <3>3, <3>4, InlineEntryOK
    <3> QED BY <2>1, <3>5
  <2> QED BY <2>2, <2>3
<1>4. Rooted(to[Len(entries)], 0)
  <2>1. Len(entries) \in 0 .. Len(entries)
    BY <1>0
  <2> QED BY <1>3, <2>1
<1> DEFINE z == to[Len(entries)]
           u == Inlined(z.tree)
           s == InlineTable(entries, n)
<1>5. Rooted(z, 0) /\ s = [z EXCEPT !.tree = u]
  BY <1>2, <1>4
<1> HIDE DEF z, s
<1>6. Tree(u, 0) /\ DOMAIN u = DOMAIN z.tree /\ \A p \in DOMAIN z.tree : u[p].type = z.tree[p].type
  BY <1>5, InlinedIs DEF Rooted, PlaceOK
<1> HIDE DEF u
<1>7. PICK o, t, a : z = [ok |-> o, tree |-> t, at |-> a]
  BY <1>5 DEF Rooted, PlaceOK, IsPlace
<1>8. s = [ok |-> o, tree |-> u, at |-> a] /\ z.ok = o /\ z.at = a
  BY <1>5, <1>7
<1>9. IsPlace(s) /\ s.tree = u /\ s.at = z.at /\ s.ok = z.ok
  BY <1>8 DEF IsPlace
<1>10. <<>> \in DOMAIN z.tree
  BY <1>5 DEF Rooted, PlaceOK, Tree
<1>11. Rooted(s, 0)
  BY <1>5, <1>6, <1>9, <1>10 DEF Rooted, PlaceOK
<1> QED BY <1>11 DEF Rooted, s

LEMMA InlineArrayOK ==
  ASSUME NEW entries \in Seq(InlineParts), NEW n \in Nat
  PROVE  LET s == InlineArray(entries, n) IN s.ok \in BOOLEAN /\ Tree(s.tree, 1)
<1> DEFINE s == InlineTable(entries, n)
           array == Leaf(Node("array", {}, n))
           b == Place(array, <<>>)
           a == Add(b, Elements[1], s.tree)
           r == InlineArray(entries, n)
<1>1. Rooted(s, 0)
  BY InlineTableOK
<1>2. /\ Tree(array, 1) /\ DOMAIN array = {<<>>} /\ array[<<>>].type = "array"
  BY RootLeaf
<1> HIDE DEF s, array
<1>3. IsPlace(b) /\ b.tree = array /\ b.at = <<>>
  BY PlaceIs
<1> HIDE DEF b
<1>4. Fits(array, <<>>, Elements[1], 1)
  <2>1. \A i \in DOMAIN Elements : Append(<<>>, Elements[i]) \notin DOMAIN array /\ ~(i <= 0)
    <3>1. ASSUME NEW i \in DOMAIN Elements PROVE Append(<<>>, Elements[i]) # <<>> /\ ~(i <= 0)
      <4>1. <<>> \in Seq(Labels) /\ Elements[i] \in Labels
        BY ElementIs
      <4> QED BY <4>1, Child, ElementsAre
    <3> QED BY <1>2, <3>1
  <2>2. Counted(array, <<>>, 0)
    BY <2>1 DEF Counted
  <2>3. 0 \in 0 .. Len(Elements) - 1 /\ 0 + 1 <= 1 /\ 1 \in DOMAIN Elements /\ 0 + 1 = 1
    BY ElementsAre
  <2> QED BY <1>2, <2>1, <2>2, <2>3 DEF Fits
<1>5. Tree(a.tree, 1)
  <2>1. Tree(s.tree, 0) /\ 0 <= 1 /\ 0 \in Nat /\ 1 \in Nat
    BY <1>1 DEF Rooted, PlaceOK
  <2> QED BY <1>2, <1>3, <1>4, <2>1, AddFits
<1> DEFINE u == Inlined(a.tree)
<1>6. Tree(u, 1)
  <2> HIDE DEF a
  <2> QED BY <1>5, InlinedIs
<1>7. r = [s EXCEPT !.tree = u]
  BY DEF InlineArray, s, array, b
<1> HIDE DEF u, r
<1>8. PICK o, t, p : s = [ok |-> o, tree |-> t, at |-> p]
  BY <1>1 DEF Rooted, PlaceOK, IsPlace
<1>9. r = [ok |-> o, tree |-> u, at |-> p] /\ s.ok = o
  BY <1>7, <1>8
<1>10. r.ok \in BOOLEAN /\ r.tree = u
  BY <1>1, <1>9 DEF Rooted, PlaceOK
<1> QED BY <1>6, <1>10 DEF r

\* Every value is a tree.
LEMMA ValuesAre ==
  ASSUME NEW n \in Nat, NEW value \in Values(n)
  PROVE  value.ok \in BOOLEAN /\ Tree(value.tree, 1)
<1>1. CASE value = Place(Number(n), <<>>)
  <2>1. Tree(Number(n), 1)
    BY RootLeaf DEF Number
  <2> DEFINE t == Number(n)
  <2> HIDE DEF t
  <2>2. Place(t, <<>>).ok \in BOOLEAN /\ Place(t, <<>>).tree = t
    BY PlaceIs
  <2> QED BY <1>1, <2>1, <2>2 DEF t
<1>2. ASSUME NEW e \in Inlines, value = InlineTable(e, n)
      PROVE value.ok \in BOOLEAN /\ Tree(value.tree, 1)
  <2>1. e \in Seq(InlineParts)
    BY TomlAssumption DEF InlineParts
  <2>2. Rooted(value, 0)
    BY <1>2, <2>1, InlineTableOK
  <2> QED BY <2>2, TreeGrows DEF Rooted, PlaceOK
<1>3. ASSUME NEW e \in Inlines, value = InlineArray(e, n)
      PROVE value.ok \in BOOLEAN /\ Tree(value.tree, 1)
  <2>1. e \in Seq(InlineParts)
    BY TomlAssumption DEF InlineParts
  <2> QED BY <1>3, <2>1, InlineArrayOK
<1> QED BY <1>1, <1>2, <1>3 DEF Values

-----------------------------------------------------------------------------
(* Statements. *)

\* What is in a tree stays there; the numbers stay what they are.
Grown(t, u) ==
  /\ DOMAIN t \subseteq DOMAIN u
  /\ \A q \in DOMAIN t : u[q].type = t[q].type /\ (t[q].type = "number" => u[q] = t[q])

NoInlined(t) == \A q \in DOMAIN t : "inlined" \notin t[q].flags

LEMMA KeptGrown == ASSUME NEW t, NEW u, Kept(t, u) PROVE Grown(t, u)
BY DEF Kept, Grown

LEMMA GrownGrown == ASSUME NEW t, NEW u, NEW v, Grown(t, u), Grown(u, v) PROVE Grown(t, v)
BY DEF Grown

LEMMA StartIs ==
  ASSUME NEW t, NEW m, Tree(t, m), NEW p \in DOMAIN t, t[p].type = "table"
  PROVE  PlaceOK(Place(t, p), m) /\ Place(t, p).tree = t /\ Place(t, p).at = p /\ Place(t, p).ok
<1> DEFINE b == Place(t, p)
<1>1. IsPlace(b) /\ b.ok \in BOOLEAN /\ b.tree = t /\ b.at = p
  BY PlaceIs
<1>2. b.ok
  BY PlaceIs
<1> HIDE DEF b
<1>3. PlaceOK(b, m)
  BY <1>1 DEF PlaceOK
<1> QED BY <1>1, <1>2, <1>3 DEF b

\* The way down from the top, to the table that a header is in.
LEMMA DescendFromTop ==
  ASSUME NEW t, NEW m \in Nat, Tree(t, m), t[<<>>].type = "table",
         NEW path \in Seq(Keys), path # <<>>, NEW n \in Nat
  PROVE  LET s == Descend(Place(t, <<>>), Front(path), {"std"}, n) IN
         /\ PlaceOK(s, m) /\ Kept(t, s.tree)
         /\ \A q \in DOMAIN s.tree \ DOMAIN t : s.tree[q] = Node("table", {"std"}, n)
         /\ NoArrays(t) =>
              /\ \A q \in DOMAIN s.tree \ DOMAIN t : \E j \in 1 .. Len(path) - 1 : q = Pre(path, j)
              /\ s.ok => s.at = Front(path)
              /\ ~s.ok => \E j \in 1 .. Len(path) - 1 :
                            Pre(path, j) \in DOMAIN t /\ t[Pre(path, j)].type # "table"
<1> DEFINE b == Place(t, <<>>)
           f == Front(path)
           s == Descend(b, f, {"std"}, n)
<1>1. /\ f \in Seq(Keys) /\ Len(f) = Len(path) - 1 /\ f = Pre(path, Len(path) - 1)
      /\ Len(path) \in Nat \ {0}
  BY Parent
<1>2. PlaceOK(b, m) /\ b.tree = t /\ b.at = <<>> /\ b.ok
  <2>1. <<>> \in DOMAIN t
    BY DEF Tree
  <2> QED BY <2>1, StartIs
<1> HIDE DEF b, f
<1>3. <<>> \o f = f /\ Len(<<>>) = 0
  BY <1>1, ConcatEmptySeq
<1>4. Walks(b, s, f, Len(f), m, NoArrays(b.tree), FALSE, {"std"}, n)
  BY <1>1, <1>2, DescendWalks
<1> HIDE DEF s
<1>5. /\ PlaceOK(s, m) /\ Kept(t, s.tree)
      /\ \A q \in DOMAIN s.tree \ DOMAIN t : s.tree[q] = Node("table", {"std"}, n)
  BY <1>2, <1>4 DEF Walks
<1>6. ASSUME NoArrays(t)
      PROVE  /\ \A q \in DOMAIN s.tree \ DOMAIN t : \E j \in 0 + 1 .. 0 + Len(f) : q = Pre(f, j)
             /\ s.ok => s.at = Pre(f, 0 + Len(f))
             /\ ~s.ok => \E j \in 0 + 1 .. 0 + Len(f) :
                           Pre(f, j) \in DOMAIN t /\ t[Pre(f, j)].type # "table"
  BY <1>2, <1>3, <1>4, <1>6 DEF Walks
<1>7. 0 + 1 = 1 /\ 0 + Len(f) = Len(path) - 1 /\ Pre(f, Len(path) - 1) = f
  BY <1>1, PreEnds
<1>8. \A j \in 1 .. Len(path) - 1 : Pre(f, j) = Pre(path, j)
  <2>1. Len(path) - 1 \in 0 .. Len(path) /\ \A j \in 1 .. Len(path) - 1 : j \in 0 .. Len(path) - 1
    BY <1>1
  <2> QED BY <1>1, <2>1, PrePre
<1> QED BY <1>5, <1>6, <1>7, <1>8 DEF s, b, f

\* What a header does.
LEMMA StdTableIs ==
  ASSUME NEW t, NEW m \in Nat, Tree(t, m), t[<<>>].type = "table",
         NEW path \in Seq(Keys), path # <<>>, NEW n \in Nat
  PROVE  LET r == StdTable(t, path, n) IN
         /\ PlaceOK(r, m) /\ Grown(t, r.tree)
         /\ NoArrays(t) /\ NoInlined(t) /\ r.ok =>
              /\ r.at = path
              /\ path \in DOMAIN t =>
                   Definable(t, path) /\ r.tree[path].flags = t[path].flags \cup {"explicit"}
              /\ path \notin DOMAIN t => r.tree[path].flags = {"std", "explicit"}
              /\ \A q \in DOMAIN t : q # path => r.tree[q] = t[q]
              /\ \A q \in DOMAIN r.tree \ DOMAIN t :
                   /\ \E j \in 1 .. Len(path) : q = Pre(path, j)
                   /\ q # path => r.tree[q] = Node("table", {"std"}, n)
         /\ NoArrays(t) /\ NoInlined(t) /\ ~r.ok =>
              \/ \E j \in 1 .. Len(path) - 1 : Pre(path, j) \in DOMAIN t /\ t[Pre(path, j)].type # "table"
              \/ path \in DOMAIN t /\ ~Definable(t, path)
<1> DEFINE s == Descend(Place(t, <<>>), Front(path), {"std"}, n)
           k == Last(path)
           p == Append(s.at, k)
           r == StdTable(t, path, n)
           new == Node("table", {"std", "explicit"}, n)
           plain == NoArrays(t) /\ NoInlined(t)
<1>1. /\ PlaceOK(s, m) /\ Kept(t, s.tree)
      /\ \A q \in DOMAIN s.tree \ DOMAIN t : s.tree[q] = Node("table", {"std"}, n)
      /\ NoArrays(t) =>
           /\ \A q \in DOMAIN s.tree \ DOMAIN t : \E j \in 1 .. Len(path) - 1 : q = Pre(path, j)
           /\ s.ok => s.at = Front(path)
           /\ ~s.ok => \E j \in 1 .. Len(path) - 1 :
                         Pre(path, j) \in DOMAIN t /\ t[Pre(path, j)].type # "table"
  BY DescendFromTop
<1>2. /\ r = IF ~s.ok THEN s
             ELSE IF p \in DOMAIN s.tree
             THEN IF Definable(s.tree, p) THEN Place(Mark(s.tree, p, "explicit"), p) ELSE Fail(s)
             ELSE IF Has(s, "inlined") THEN Fail(s) ELSE Make(s, p, new)
  BY DEF StdTable
<1> HIDE DEF s, r, plain
<1>3. /\ k \in Keys /\ Len(path) \in Nat \ {0} /\ path = Append(Front(path), k)
      /\ Pre(path, Len(path)) = path /\ Len(path) \in 1 .. Len(path)
      /\ \A j \in 1 .. Len(path) - 1 : j \in 1 .. Len(path) /\ j \in 0 .. Len(path) /\ j # Len(path)
  <2>1. k \in Keys /\ Len(path) \in Nat \ {0} /\ path = Append(Front(path), k)
    BY Parent
  <2>2. Pre(path, Len(path)) = path
    BY PreEnds
  <2> DEFINE l == Len(path)
  <2>3. l \in 1 .. l /\ \A j \in 1 .. l - 1 : j \in 1 .. l /\ j \in 0 .. l /\ j # l
    <3>1. l \in Nat \ {0}
      BY <2>1
    <3> HIDE DEF l
    <3> QED BY <3>1
  <2> QED BY <2>1, <2>2, <2>3
<1>4. ASSUME plain
      PROVE  /\ \A q \in DOMAIN s.tree \ DOMAIN t : \E j \in 1 .. Len(path) : q = Pre(path, j)
             /\ s.ok => p = path
             /\ path \in DOMAIN s.tree => path \in DOMAIN t
  <2>1. NoArrays(t)
    BY <1>4 DEF plain
  <2>2. s.ok => p = path
    BY <1>1, <1>3, <2>1
  <2>3. ASSUME NEW j \in 1 .. Len(path) - 1 PROVE path # Pre(path, j)
    <3>1. j \in 0 .. Len(path) /\ j # Len(path)
      BY <1>3
    <3>2. Len(Pre(path, j)) = j
      BY <3>1, PreIs
    <3> QED BY <3>1, <3>2
  <2> QED BY <1>1, <1>3, <2>1, <2>2, <2>3
<1>5. Grown(t, s.tree)
  BY <1>1, KeptGrown
<1>6. CASE ~s.ok
  <2>1. r = s
    BY <1>2, <1>6
  <2> QED BY <1>1, <1>5, <1>6, <2>1 DEF r
<1>7. CASE s.ok /\ p \in DOMAIN s.tree /\ Definable(s.tree, p)
  <2> DEFINE u == Mark(s.tree, p, "explicit")
  <2>1. r = Place(u, p)
    BY <1>2, <1>7
  <2>2. Tree(s.tree, m) /\ s.tree[p].type = "table"
    <3>1. Tree(s.tree, m) /\ "std" \in s.tree[p].flags
      BY <1>1, <1>7 DEF PlaceOK, Definable
    <3>2. s.tree[p] \in Nodes
      BY <1>7, <3>1 DEF Tree
    <3> QED BY <3>1, <3>2, NodeFields
  <2> HIDE DEF p
  <2>3. /\ Tree(u, m) /\ DOMAIN u = DOMAIN s.tree
        /\ \A q \in DOMAIN s.tree : q # p => u[q] = s.tree[q]
        /\ u[p].type = s.tree[p].type /\ u[p].flags = s.tree[p].flags \cup {"explicit"}
    BY <1>7, <2>2, MarkIs
  <2> HIDE DEF u
  <2>4. PlaceOK(r, m) /\ r.tree = u /\ r.at = p /\ r.ok
    BY <1>7, <2>1, <2>2, <2>3, StartIs
  <2>5. Grown(s.tree, u)
    BY <1>7, <2>2, <2>3 DEF Grown
  <2>6. Grown(t, r.tree)
    BY <1>5, <2>4, <2>5, GrownGrown
  <2>7. ASSUME plain
        PROVE  /\ r.at = path /\ path \in DOMAIN t
               /\ Definable(t, path) /\ r.tree[path].flags = t[path].flags \cup {"explicit"}
               /\ \A q \in DOMAIN t : q # path => r.tree[q] = t[q]
               /\ \A q \in DOMAIN r.tree \ DOMAIN t :
                    /\ \E j \in 1 .. Len(path) : q = Pre(path, j)
                    /\ q # path => r.tree[q] = Node("table", {"std"}, n)
    <3>1. p = path /\ path \in DOMAIN t /\ s.tree[path] = t[path]
      BY <1>1, <1>4, <1>7, <2>7 DEF Kept
    <3>2. Definable(t, path)
      BY <1>7, <3>1 DEF Definable
    <3>3. \A q \in DOMAIN t : q # path => r.tree[q] = t[q]
      BY <1>1, <2>3, <2>4, <3>1 DEF Kept
    <3>4. \A q \in DOMAIN r.tree \ DOMAIN t :
                    /\ \E j \in 1 .. Len(path) : q = Pre(path, j)
                    /\ q # path => r.tree[q] = Node("table", {"std"}, n)
      BY <1>1, <1>4, <2>3, <2>4, <2>7, <3>1
    <3>5. r.tree[path].flags = t[path].flags \cup {"explicit"}
      BY <2>3, <2>4, <3>1
    <3> QED BY <2>4, <3>1, <3>2, <3>3, <3>4, <3>5
  <2> QED BY <2>4, <2>6, <2>7 DEF r, plain
<1>8. CASE s.ok /\ p \in DOMAIN s.tree /\ ~Definable(s.tree, p)
  <2>1. r = Fail(s)
    BY <1>2, <1>8
  <2>2. IsPlace(r) /\ r.ok = FALSE /\ r.tree = s.tree /\ r.at = s.at
    BY <1>1, <2>1, FailPlace DEF PlaceOK
  <2>3. PlaceOK(r, m) /\ Grown(t, r.tree)
    BY <1>1, <1>5, <2>2 DEF PlaceOK
  <2>4. ASSUME plain PROVE path \in DOMAIN t /\ ~Definable(t, path)
    <3>1. p = path /\ path \in DOMAIN t /\ s.tree[path] = t[path]
      BY <1>1, <1>4, <1>8, <2>4 DEF Kept
    <3> QED BY <1>8, <3>1 DEF Definable
  <2> QED BY <2>2, <2>3, <2>4 DEF r, plain
<1>9. CASE s.ok /\ p \notin DOMAIN s.tree /\ Has(s, "inlined")
  <2>1. r = Fail(s)
    BY <1>2, <1>9
  <2>2. IsPlace(r) /\ r.ok = FALSE /\ r.tree = s.tree /\ r.at = s.at
    BY <1>1, <2>1, FailPlace DEF PlaceOK
  <2>3. PlaceOK(r, m) /\ Grown(t, r.tree)
    BY <1>1, <1>5, <2>2 DEF PlaceOK
  <2>4. ~plain
    <3>1. s.at \in DOMAIN s.tree /\ "inlined" \in s.tree[s.at].flags
      BY <1>1, <1>9 DEF Has, PlaceOK
    <3>2. {"std"} \in SUBSET Flags
      BY DEF Flags
    <3>3. Node("table", {"std"}, n).flags = {"std"}
      BY <3>2, NodeIs
    <3>4. s.at \in DOMAIN t /\ t[s.at] = s.tree[s.at]
      BY <1>1, <3>1, <3>3 DEF Kept
    <3> QED BY <3>1, <3>4 DEF plain, NoInlined
  <2> QED BY <2>2, <2>3, <2>4 DEF r, plain
<1>10. CASE s.ok /\ p \notin DOMAIN s.tree /\ ~Has(s, "inlined")
  <2>1. r = Make(s, p, new)
    BY <1>2, <1>10
  <2>2. new \in Nodes /\ new.type = "table" /\ new.flags = {"std", "explicit"}
    <3>1. {"std", "explicit"} \in SUBSET Flags
      BY DEF Flags
    <3> QED BY <3>1, NodeIs
  <2> HIDE DEF new
  <2>3. Makes(s, p, k, m, new)
    BY <1>1, <1>3, <1>10, <2>2 DEF Makes
  <2> HIDE DEF p, k
  <2>4. /\ PlaceOK(r, m) /\ r.ok = s.ok /\ r.at = p
        /\ DOMAIN r.tree = DOMAIN s.tree \cup {p} /\ Kept(s.tree, r.tree) /\ r.tree[p] = new
    BY <2>1, <2>3, MakeTable
  <2>5. PlaceOK(r, m)
    BY <2>4
  <2>6. Grown(t, r.tree)
    BY <1>5, <2>4, KeptGrown, GrownGrown
  <2>7. ASSUME plain
        PROVE  /\ r.at = path /\ path \notin DOMAIN t
               /\ r.tree[path].flags = {"std", "explicit"}
               /\ \A q \in DOMAIN t : q # path => r.tree[q] = t[q]
               /\ \A q \in DOMAIN r.tree \ DOMAIN t :
                    /\ \E j \in 1 .. Len(path) : q = Pre(path, j)
                    /\ q # path => r.tree[q] = Node("table", {"std"}, n)
    <3>1. p = path /\ path \notin DOMAIN t
      BY <1>1, <1>4, <1>10, <2>7 DEF Kept
    <3>2. \A q \in DOMAIN t : q # path => r.tree[q] = t[q]
      BY <1>1, <2>4 DEF Kept
    <3>3. ASSUME NEW q \in DOMAIN r.tree \ DOMAIN t
          PROVE  /\ \E j \in 1 .. Len(path) : q = Pre(path, j)
                 /\ q # path => r.tree[q] = Node("table", {"std"}, n)
      <4>1. CASE q = path
        BY <1>3, <4>1
      <4>2. CASE q # path
        <5>1. q \in DOMAIN s.tree \ DOMAIN t /\ r.tree[q] = s.tree[q]
          BY <2>4, <3>1, <3>3, <4>2 DEF Kept
        <5> QED BY <1>1, <1>4, <2>7, <5>1
      <4> QED BY <4>1, <4>2
    <3> QED BY <2>2, <2>4, <3>1, <3>2, <3>3
  <2>8. r.ok
    BY <1>10, <2>4
  <2> QED BY <2>5, <2>6, <2>7, <2>8 DEF r, plain
<1> QED BY <1>6, <1>7, <1>8, <1>9, <1>10

\* The next element of an array fits.
LEMMA NextElement ==
  ASSUME NEW t, NEW m \in Nat, Tree(t, m), m + 1 <= Len(Elements),
         NEW p \in DOMAIN t, t[p].type = "array"
  PROVE  Fits(t, p, Elements[Count(t, p) + 1], m + 1) /\ Tree(t, m + 1)
<1>1. PICK i \in 0 .. Len(Elements) : i <= m /\ Counted(t, p, i)
  BY DEF Tree
<1>2. Count(t, p) = i
  BY <1>1, CountIs
<1>3. /\ i \in 0 .. Len(Elements) - 1 /\ i + 1 <= m + 1 /\ i + 1 \in DOMAIN Elements
      /\ ~(i + 1 <= i) /\ m + 1 \in Nat /\ m <= m + 1
  BY <1>1, ElementsAre
<1>4. Append(p, Elements[i + 1]) \notin DOMAIN t
  BY <1>1, <1>3 DEF Counted
<1>5. Fits(t, p, Elements[i + 1], m + 1)
  BY <1>1, <1>3, <1>4 DEF Fits
<1> QED BY <1>2, <1>3, <1>5, TreeGrows

\* A table made where it fits.
LEMMA MakeThere ==
  ASSUME NEW s, NEW m \in Nat, IsPlace(s), s.ok \in BOOLEAN, NEW p, NEW k, Tree(s.tree, m),
         Fits(s.tree, p, k, m), NEW node \in Nodes, node.type = "table", NEW a, ChildOf(a, p, k)
  PROVE  PlaceOK(Make(s, a, node), m) /\ Kept(s.tree, Make(s, a, node).tree)
<1> DEFINE r == Make(s, a, node)
           u == Put(s.tree, a, node)
<1>1. IsPlace(r) /\ r.ok = s.ok /\ r.tree = u /\ r.at = a
  BY MakePlace
<1>2. Tree(u, m) /\ DOMAIN u = DOMAIN s.tree \cup {a} /\ Kept(s.tree, u) /\ u[a] = node
  <2> DEFINE t == s.tree
  <2>1. Tree(t, m) /\ Fits(t, p, k, m)
    OBVIOUS
  <2> HIDE DEF t
  <2>2. /\ Tree(Put(t, a, node), m) /\ DOMAIN Put(t, a, node) = DOMAIN t \cup {a}
        /\ Kept(t, Put(t, a, node)) /\ Put(t, a, node)[a] = node
    BY <2>1, PutTree
  <2> QED BY <2>2 DEF t
<1> HIDE DEF r, u
<1>3. r.ok \in BOOLEAN
  BY <1>1
<1>4. PlaceOK(r, m)
  BY <1>1, <1>2, <1>3 DEF PlaceOK
<1> QED BY <1>1, <1>2, <1>4 DEF r

\* The first element of an array that is made.
LEMMA FirstElement ==
  ASSUME NEW s, NEW m \in Nat \ {0}, PlaceOK(s, m), NEW k \in Keys, NEW n \in Nat,
         NEW p, ChildOf(p, s.at, k), p \notin DOMAIN s.tree
  PROVE  LET b == Make(s, p, Node("array", {}, n)) IN
         /\ IsPlace(b) /\ b.ok \in BOOLEAN /\ Tree(b.tree, m) /\ Kept(s.tree, b.tree)
         /\ Fits(b.tree, p, Elements[1], m)
<1> DEFINE array == Node("array", {}, n)
           b == Make(s, p, array)
<1>1. array \in Nodes /\ array.type = "array"
  BY NodeIs
<1> HIDE DEF array
<1>2. IsPlace(s) /\ Tree(s.tree, m) /\ Fits(s.tree, s.at, k, m) /\ s.ok \in BOOLEAN
  BY DEF PlaceOK, Fits, ChildOf
<1>3. /\ IsPlace(b) /\ b.ok = s.ok /\ Tree(b.tree, m) /\ Kept(s.tree, b.tree)
      /\ DOMAIN b.tree = DOMAIN s.tree \cup {p} /\ b.tree[p] = array
  BY <1>1, <1>2, MakeAt
<1> HIDE DEF b
<1>4. p \in Seq(Labels)
  <2>1. s.at \in Seq(Labels) /\ k \in Labels
    BY DEF PlaceOK, Tree, Labels
  <2> QED BY <2>1, Child DEF ChildOf
<1>5. ASSUME NEW i \in DOMAIN Elements PROVE Append(p, Elements[i]) \notin DOMAIN b.tree
  <2>1. Elements[i] \in Labels
    BY ElementIs
  <2>2. Append(p, Elements[i]) # p
    <3>1. Len(Append(p, Elements[i])) = Len(p) + 1 /\ Len(p) \in Nat
      BY <1>4, <2>1, Child
    <3> QED BY <3>1
  <2>3. Append(p, Elements[i]) \in DOMAIN s.tree => p \in DOMAIN s.tree
    BY <1>2, <1>4, <2>1, Above1 DEF Holds
  <2> QED BY <1>3, <2>2, <2>3
<1>6. Counted(b.tree, p, 0)
  <2>1. \A i \in DOMAIN Elements : ~(i <= 0)
    BY ElementsAre
  <2> QED BY <1>5, <2>1 DEF Counted
<1>7. 0 \in 0 .. Len(Elements) - 1 /\ 0 + 1 <= m /\ 0 + 1 = 1 /\ 1 \in DOMAIN Elements
  BY ElementsAre
<1>8. Fits(b.tree, p, Elements[1], m)
  BY <1>1, <1>3, <1>5, <1>6, <1>7 DEF Fits
<1> QED BY <1>2, <1>3, <1>8 DEF b, array

\* What a header of an array does.
LEMMA ArrayTableIs ==
  ASSUME NEW t, NEW m \in Nat, Tree(t, m), m + 1 <= Len(Elements), t[<<>>].type = "table",
         NEW path \in Seq(Keys), path # <<>>, NEW n \in Nat
  PROVE  PlaceOK(ArrayTable(t, path, n), m + 1) /\ Grown(t, ArrayTable(t, path, n).tree)
<1> DEFINE s == Descend(Place(t, <<>>), Front(path), {"std"}, n)
           k == Last(path)
           p == Append(s.at, k)
           more == Append(p, Elements[Count(s.tree, p) + 1])
           table == Node("table", {}, n)
           b == Make(s, p, Node("array", {}, n))
           first == Append(p, Elements[1])
           r == ArrayTable(t, path, n)
<1>1. PlaceOK(s, m) /\ Kept(t, s.tree)
  BY DescendFromTop
<1>2. r = IF ~s.ok THEN s
          ELSE IF p \in DOMAIN s.tree
          THEN IF s.tree[p].type = "array" /\ "inlined" \notin s.tree[p].flags
               THEN Make(s, more, table) ELSE Fail(s)
          ELSE IF Has(s, "inlined") THEN Fail(s) ELSE Make(b, first, table)
  BY DEF ArrayTable
<1>3. k \in Keys
  BY Parent
<1>4. table \in Nodes /\ table.type = "table"
  BY NodeIs
<1>5. m + 1 \in Nat \ {0} /\ m <= m + 1 /\ m + 1 \in Nat
  OBVIOUS
<1> HIDE DEF s, r, k, table
<1>6. PlaceOK(s, m + 1) /\ IsPlace(s) /\ s.ok \in BOOLEAN /\ Tree(s.tree, m)
  BY <1>1, <1>5, TreeGrows DEF PlaceOK
<1>7. Grown(t, s.tree)
  BY <1>1, KeptGrown
<1>8. CASE r = s
  BY <1>6, <1>7, <1>8 DEF r
<1>9. CASE r = Fail(s)
  <2>1. IsPlace(r) /\ r.ok = FALSE /\ r.tree = s.tree /\ r.at = s.at
    BY <1>6, <1>9, FailPlace
  <2>2. PlaceOK(r, m + 1) /\ Grown(t, r.tree)
    BY <1>6, <1>7, <2>1 DEF PlaceOK
  <2> QED BY <2>2 DEF r
<1>10. CASE r = Make(s, more, table) /\ p \in DOMAIN s.tree /\ s.tree[p].type = "array"
  <2> DEFINE e == Elements[Count(s.tree, p) + 1]
  <2>1. Fits(s.tree, p, e, m + 1) /\ Tree(s.tree, m + 1)
    BY <1>6, <1>10, NextElement
  <2>2. ChildOf(more, p, e)
    BY DEF ChildOf
  <2> HIDE DEF e, more, p
  <2>3. PlaceOK(r, m + 1) /\ Kept(s.tree, r.tree)
    BY <1>4, <1>5, <1>6, <1>10, <2>1, <2>2, MakeThere
  <2> QED BY <1>7, <2>3, KeptGrown, GrownGrown DEF r
<1>11. CASE r = Make(b, first, table) /\ p \notin DOMAIN s.tree
  <2>1. ChildOf(p, s.at, k) /\ ChildOf(first, p, Elements[1])
    BY DEF ChildOf
  <2> HIDE DEF first, p
  <2>2. /\ IsPlace(b) /\ b.ok \in BOOLEAN /\ Tree(b.tree, m + 1) /\ Kept(s.tree, b.tree)
        /\ Fits(b.tree, p, Elements[1], m + 1)
    BY <1>3, <1>5, <1>6, <1>11, <2>1, FirstElement
  <2> HIDE DEF b
  <2>3. PlaceOK(r, m + 1) /\ Kept(b.tree, r.tree)
    BY <1>4, <1>5, <1>11, <2>1, <2>2, MakeThere
  <2>4. Grown(s.tree, b.tree) /\ Grown(b.tree, r.tree)
    BY <2>2, <2>3, KeptGrown
  <2> QED BY <1>7, <2>3, <2>4, GrownGrown DEF r
<1> QED BY <1>2, <1>8, <1>9, <1>10, <1>11

\* Statement n, a number at w, makes u of t: the number, and the tables that its
\* key defines, below the first l parts of w.
Said(t, u, w, l, n) ==
  /\ w \in DOMAIN u /\ u[w] = Node("number", {}, n)
  /\ \A q \in DOMAIN u \ DOMAIN t :
       q # w => u[q] = Node("table", {}, n) /\ \E j \in l + 1 .. Len(w) - 1 : q = Pre(w, j)

\* The tables that a key defines may not be, or there is something there already.
Refused(t, w, l) ==
  \/ w \in DOMAIN t
  \/ \E j \in l + 1 .. Len(w) - 1 :
       Pre(w, j) \in DOMAIN t /\ (t[Pre(w, j)].type # "table" \/ "explicit" \in t[Pre(w, j)].flags)

\* The way down from the current table.
LEMMA DottedFromHere ==
  ASSUME NEW t, NEW m \in Nat, Tree(t, m), cur \in DOMAIN t, t[cur].type = "table",
         NEW path \in Seq(Keys), path # <<>>, NEW n \in Nat
  PROVE  LET s == Dotted(FromHere(t), path, n)
             w == cur \o path
             l == Len(cur)
         IN
         /\ PlaceOK(s, m) /\ Kept(t, s.tree) /\ w \in Seq(Labels) /\ w # <<>>
         /\ \A q \in DOMAIN s.tree \ DOMAIN t :
              s.tree[q] = Node("table", {}, n) /\ \E j \in l + 1 .. Len(w) - 1 : q = Pre(w, j)
         /\ s.ok => s.at = Pre(w, Len(w) - 1) /\ Append(s.at, Last(path)) = w
         /\ ~s.ok => Refused(t, w, l)
<1> DEFINE b == FromHere(t)
           s == Dotted(b, path, n)
           w == cur \o path
           l == Len(cur)
           k == Len(path) - 1
<1>1. PlaceOK(b, m) /\ b.tree = t /\ b.at = cur /\ b.ok
  BY StartIs DEF FromHere
<1> HIDE DEF b
<1>2. Walks(b, s, path, k, m, TRUE, TRUE, {}, n)
  BY <1>1, DottedWalks
<1>3. /\ cur \in Seq(Labels) /\ path \in Seq(Labels)
  BY DEF Tree, Labels
<1>4. /\ w = Append(cur \o Front(path), Last(path))
      /\ cur \o Front(path) = Pre(w, l + Len(path) - 1) /\ w # <<>>
      /\ w \in Seq(Labels) /\ Len(w) = l + Len(path)
  BY <1>3, JoinedParent, Joined
<1>5. /\ l \in Nat /\ k \in Int /\ Len(path) \in Nat /\ Len(w) \in Nat
      /\ l + k = Len(w) - 1 /\ l + Len(path) - 1 = Len(w) - 1
  BY <1>3, <1>4
<1> HIDE DEF s
<1>6. /\ PlaceOK(s, m) /\ Kept(t, s.tree)
      /\ \A q \in DOMAIN s.tree \ DOMAIN t : s.tree[q] = Node("table", {}, n)
      /\ \A q \in DOMAIN s.tree \ DOMAIN t : \E j \in l + 1 .. l + k : q = Pre(w, j)
      /\ s.ok => s.at = Pre(w, l + k)
      /\ ~s.ok =>
           \/ \E j \in l + 1 .. l + k : Pre(w, j) \in DOMAIN t /\ t[Pre(w, j)].type # "table"
           \/ \E j \in l + 1 .. l + k - 1 :
                Pre(w, j) \in DOMAIN t /\ "explicit" \in t[Pre(w, j)].flags
  BY <1>1, <1>2 DEF Walks
<1> HIDE DEF w, l, k
<1>7. ASSUME ~s.ok PROVE Refused(t, w, l)
  <2>1. ASSUME NEW j \in l + 1 .. l + k - 1 PROVE j \in l + 1 .. Len(w) - 1
    <3>1. l + k - 1 <= Len(w) - 1 /\ l + k - 1 \in Int /\ Len(w) \in Nat
      BY <1>5
    <3> QED BY <1>5, <3>1
  <2> QED BY <1>5, <1>6, <1>7, <2>1 DEF Refused
<1>8. ASSUME s.ok PROVE s.at = Pre(w, Len(w) - 1) /\ Append(s.at, Last(path)) = w
  BY <1>4, <1>5, <1>6, <1>8
<1> QED BY <1>4, <1>5, <1>6, <1>7, <1>8 DEF s, b, w, l, k

\* A number added.
LEMMA AddNumber ==
  ASSUME NEW t, NEW s, NEW w, NEW l, NEW n \in Nat, NEW g, NEW m,
         Kept(t, s.tree), Tree(s.tree, m), w \notin DOMAIN s.tree, w \in Seq(Labels),
         Grafted(g, s.tree, w, Number(n)),
         \A q \in DOMAIN s.tree \ DOMAIN t :
           s.tree[q] = Node("table", {}, n) /\ \E j \in l + 1 .. Len(w) - 1 : q = Pre(w, j)
  PROVE  Said(t, g, w, l, n)
<1> DEFINE v == Number(n)
<1>1. DOMAIN v = {<<>>} /\ v[<<>>] = Node("number", {}, n)
  BY RootLeaf DEF Number
<1> HIDE DEF v
<1>2. w \o <<>> = w
  BY ConcatEmptySeq
<1>3. /\ DOMAIN g = DOMAIN s.tree \cup {w} /\ g[w] = Node("number", {}, n)
      /\ \A q \in DOMAIN s.tree : g[q] = s.tree[q]
  BY <1>1, <1>2 DEF Grafted, v
<1> QED BY <1>3 DEF Said, Kept

\* What a key and its value do.
LEMMA KeyValueIs ==
  ASSUME NEW t, NEW m \in Nat \ {0}, Tree(t, m), cur \in DOMAIN t, t[cur].type = "table",
         NEW path \in Seq(Keys), path # <<>>, NEW n \in Nat,
         NEW value, value.ok \in BOOLEAN, Tree(value.tree, 1)
  PROVE  LET r == KeyValue(t, path, value, n)
             w == cur \o path
             l == Len(cur)
         IN
         /\ PlaceOK(r, m) /\ Kept(t, r.tree) /\ w \in Seq(Labels) /\ w # <<>>
         /\ r.ok => w \notin DOMAIN t
         /\ r.ok /\ value.tree = Number(n) => Said(t, r.tree, w, l, n)
         /\ ~r.ok /\ value.ok /\ NoInlined(t) => Refused(t, w, l)
<1> DEFINE s == Dotted(FromHere(t), path, n)
           w == cur \o path
           l == Len(cur)
           k == Last(path)
           v == value.tree
           r == KeyValue(t, path, value, n)
<1>1. /\ PlaceOK(s, m) /\ Kept(t, s.tree) /\ w \in Seq(Labels) /\ w # <<>>
      /\ \A q \in DOMAIN s.tree \ DOMAIN t :
           s.tree[q] = Node("table", {}, n) /\ \E j \in l + 1 .. Len(w) - 1 : q = Pre(w, j)
      /\ s.ok => s.at = Pre(w, Len(w) - 1) /\ Append(s.at, k) = w
      /\ ~s.ok => Refused(t, w, l)
  BY DottedFromHere
<1>2. r = IF ~s.ok \/ ~Extensible(s, path) \/ ~value.ok THEN Fail(s) ELSE Add(s, k, v)
  BY DEF KeyValue
<1>3. k \in Keys /\ Tree(v, 1) /\ 1 <= m /\ 1 \in Nat
  BY Parent
<1>4. /\ Len(path) > 1 => Len(w) - 1 \in l + 1 .. Len(w) - 1
      /\ Len(w) \in Nat \ {0}
      /\ \A j \in l + 1 .. Len(w) - 1 : j \in 0 .. Len(w) /\ j # Len(w)
  <2>1. cur \in Seq(Labels) /\ path \in Seq(Labels)
    BY DEF Tree, Labels
  <2>2. Len(w) = l + Len(path) /\ l \in Nat /\ Len(path) \in Nat
    BY <2>1, Joined
  <2>3. Len(w) # 0
    BY <1>1, EmptySeq
  <2> HIDE DEF w, l
  <2> QED BY <2>2, <2>3
<1>5. w \in DOMAIN s.tree => w \in DOMAIN t
  <2>1. ASSUME NEW j \in l + 1 .. Len(w) - 1 PROVE Pre(w, j) # w
    <3>1. j \in 0 .. Len(w) /\ j # Len(w)
      BY <1>4
    <3>2. Len(Pre(w, j)) = j
      BY <1>1, <3>1, PreIs
    <3> QED BY <3>1, <3>2
  <2> QED BY <1>1, <2>1
<1> HIDE DEF s, r, w, l, k, v
<1>6. CASE r = Fail(s)
  <2>1. IsPlace(r) /\ r.ok = FALSE /\ r.tree = s.tree /\ r.at = s.at
    BY <1>1, <1>6, FailPlace DEF PlaceOK
  <2>2. PlaceOK(r, m) /\ Kept(t, r.tree)
    BY <1>1, <2>1 DEF PlaceOK
  <2>3. ASSUME s.ok, ~Extensible(s, path), NoInlined(t) PROVE Refused(t, w, l)
    <3>0. ~Has(s, "inlined") => Len(path) > 1 /\ Has(s, "explicit")
      BY <2>3, Zenon DEF Extensible
    <3>1. s.at \in DOMAIN s.tree
      BY <1>1 DEF PlaceOK
    <3>2. Node("table", {}, n).flags = {}
      BY NodeIs
    <3>3. s.at \in DOMAIN t /\ t[s.at] = s.tree[s.at]
      BY <1>1, <3>0, <3>1, <3>2 DEF Has, Kept
    <3>4. Len(path) > 1 /\ "explicit" \in t[s.at].flags
      BY <2>3, <3>0, <3>1, <3>3 DEF Has, NoInlined
    <3> QED BY <1>1, <1>4, <2>3, <3>3, <3>4 DEF Refused
  <2>4. ~r.ok
    BY <2>1
  <2>5. ASSUME value.ok, NoInlined(t) PROVE Refused(t, w, l)
    <3>1. CASE ~s.ok
      BY <1>1, <3>1
    <3>2. CASE s.ok /\ ~Extensible(s, path)
      BY <2>3, <2>5, <3>2
    <3>3. CASE s.ok /\ Extensible(s, path)
      <4>1. r = Add(s, k, v)
        BY <1>2, <2>5, <3>3
      <4>2. w \in DOMAIN s.tree
        <5>1. Append(s.at, k) \notin DOMAIN s.tree => Add(s, k, v).ok = s.ok
          BY <1>1, <1>3, AddIs
        <5> QED BY <1>1, <2>4, <3>3, <4>1, <5>1
      <4> QED BY <1>5, <4>2 DEF Refused
    <3> QED BY <3>1, <3>2, <3>3
  <2> QED BY <1>1, <2>2, <2>4, <2>5 DEF r, w, l
<1>7. CASE s.ok /\ Extensible(s, path) /\ value.ok /\ r = Add(s, k, v)
  <2> DEFINE p == Append(s.at, k)
  <2>1. /\ PlaceOK(r, m) /\ Kept(s.tree, r.tree)
        /\ p \in DOMAIN s.tree => ~r.ok
        /\ p \notin DOMAIN s.tree => Grafted(r.tree, s.tree, p, v)
    BY <1>1, <1>3, <1>7, AddIs
  <2>2. p \notin DOMAIN s.tree => r.ok
    <3>1. p \notin DOMAIN s.tree => Add(s, k, v).ok = s.ok
      BY <1>1, <1>3, AddIs
    <3> QED BY <1>7, <3>1
  <2>3. p = w
    BY <1>1, <1>7
  <2> HIDE DEF p
  <2>4. Kept(t, r.tree)
    BY <1>1, <2>1 DEF Kept
  <2>5. r.ok => w \notin DOMAIN t
    BY <1>1, <2>1, <2>3 DEF Kept
  <2>6. ASSUME r.ok, v = Number(n) PROVE Said(t, r.tree, w, l, n)
    <3>1. w \notin DOMAIN s.tree /\ Grafted(r.tree, s.tree, w, Number(n))
      BY <2>1, <2>3, <2>6
    <3>2. Tree(s.tree, m)
      BY <1>1 DEF PlaceOK
    <3> QED BY <1>1, <3>1, <3>2, AddNumber
  <2>7. ~r.ok => Refused(t, w, l)
    BY <1>5, <2>2, <2>3 DEF Refused
  <2> QED BY <1>1, <2>1, <2>4, <2>5, <2>6, <2>7 DEF r, w, l, v
<1> QED BY <1>2, <1>6, <1>7

-----------------------------------------------------------------------------
(* The statements read, and the tree they make. *)

Statements ==
  [kind : {"header", "array", "number", "inline"}, path : Seq(Keys) \ {<<>>},
   full : Seq(Labels) \ {<<>>}]

Numbers(d) == {i \in DOMAIN d : d[i].kind = "number"}
HeadersOf(d) == {i \in DOMAIN d : d[i].kind = "header"}

\* The tables that the key of statement i defines.
KeyTables(d, i) ==
  {Pre(d[i].full, k) : k \in Len(d[i].full) - Len(d[i].path) + 1 .. Len(d[i].full) - 1}

NumbersThere(t, d) == \A i \in Numbers(d) : d[i].full \in DOMAIN t /\ t[d[i].full] = Node("number", {}, i)

\* In every state.
TomlInv ==
  /\ doc \in Seq(Statements) /\ Len(doc) <= MaxStatements /\ ok \in BOOLEAN
  /\ Tree(tree, Len(doc)) /\ tree[<<>>].type = "table"
  /\ cur \in DOMAIN tree /\ tree[cur].type = "table"
  /\ ok => NumbersThere(tree, doc)

\* Where a plain document has been read without an error, every node is of a
\* statement, a table is explicit if and only if it has a header, and is without
\* "std" only if a key defines it.
PlainTree(t, d) ==
  /\ NoArrays(t) /\ NoInlined(t)
  /\ \A p \in DOMAIN t : p # <<>> =>
       \E i \in DOMAIN d : \E k \in 0 .. Len(d[i].full) : p = Pre(d[i].full, k)
  /\ \A p \in DOMAIN t : t[p].type = "number" => \E i \in Numbers(d) : p = d[i].full
  /\ \A p \in DOMAIN t : "explicit" \in t[p].flags => \E i \in HeadersOf(d) : p = d[i].path
  /\ \A p \in DOMAIN t :
       p # <<>> /\ t[p].type = "table" /\ "std" \notin t[p].flags =>
         \E i \in Numbers(d) : p \in KeyTables(d, i)
  /\ \A i \in HeadersOf(d) :
       /\ d[i].full = d[i].path /\ d[i].path \in DOMAIN t
       /\ t[d[i].path].type = "table" /\ "explicit" \in t[d[i].path].flags
  /\ \A i, j \in HeadersOf(d) : i # j => d[i].path # d[j].path

PlainInv == Plain /\ ok => PlainTree(tree, doc)

\* The document e is d and one more statement, number n.
Longer(e, d, st, n) ==
  /\ n \in Nat \ {0} /\ Len(e) = n /\ e \in Seq(Statements) /\ DOMAIN e = DOMAIN d \cup {n}
  /\ n \notin DOMAIN d /\ e[n] = st /\ \A i \in DOMAIN d : e[i] = d[i]

LEMMA LongerIs ==
  ASSUME NEW d \in Seq(Statements), NEW st \in Statements
  PROVE  Longer(Append(d, st), d, st, Len(d) + 1)
<1> DEFINE e == Append(d, st)
           n == Len(d) + 1
<1>1. /\ e \in Seq(Statements) /\ Len(e) = n /\ n \in Nat \ {0} /\ e[n] = st
      /\ \A i \in 1 .. Len(d) : e[i] = d[i]
  BY AppendProperties
<1>2. DOMAIN d = 1 .. Len(d) /\ DOMAIN e = 1 .. n /\ Len(d) \in Nat
  BY <1>1, LenProperties
<1>3. DOMAIN e = DOMAIN d \cup {n} /\ n \notin DOMAIN d
  BY <1>2
<1> QED BY <1>1, <1>2, <1>3 DEF Longer

LEMMA PathsAre ==
  ASSUME NEW n \in Nat, NEW path \in Paths(n)
  PROVE  path \in Seq(Keys) /\ path # <<>>
<1>1. PICK k \in 1 .. n : path \in [1 .. k -> Keys]
  BY DEF Paths
<1>2. k \in Nat /\ k # 0
  BY <1>1
<1>3. path \in Seq(Keys) /\ Len(path) = k
  BY <1>1, <1>2, SeqDef, LenProperties
<1> QED BY <1>2, <1>3, EmptySeq

\* One statement more: s is what it makes.
LEMMA TomlSteps ==
  ASSUME TomlInv, More, NEW s, NEW there, NEW st \in Statements,
         PlaceOK(s, Line), Grown(tree, s.tree), Becomes(s, there), doc' = Append(doc, st),
         s.ok => there \in DOMAIN s.tree /\ s.tree[there].type = "table",
         s.ok /\ st.kind = "number" =>
           st.full \in DOMAIN s.tree /\ s.tree[st.full] = Node("number", {}, Line)
  PROVE  TomlInv'
<1> DEFINE n == Len(doc) + 1
           d == doc
           t == tree
<1>1. /\ d \in Seq(Statements) /\ Len(d) \in Nat /\ Len(d) < MaxStatements /\ ok /\ Tree(t, Len(d))
      /\ t[<<>>].type = "table" /\ cur \in DOMAIN t /\ t[cur].type = "table" /\ NumbersThere(t, d)
  BY DEF TomlInv, More
<1>2. Longer(doc', d, st, n)
  BY <1>1, LongerIs
<1>3. n \in Nat /\ Len(d) <= n /\ n <= MaxStatements
  BY <1>1, ElementsAre
<1>4. PlaceOK(s, n)
  BY DEF Line
<1>5. s.ok \in BOOLEAN /\ Tree(s.tree, n) /\ <<>> \in DOMAIN t
  BY <1>1, <1>4 DEF PlaceOK, Tree
<1>6. /\ ok' = s.ok
      /\ s.ok => tree' = s.tree /\ cur' = there
      /\ ~s.ok => tree' = t /\ cur' = cur
  BY DEF Becomes
<1>7. /\ \A i \in Numbers(doc') : i # n => i \in Numbers(d) /\ doc'[i] = d[i]
      /\ n \in Numbers(doc') => st.kind = "number" /\ doc'[n] = st
  BY <1>2 DEF Longer, Numbers
<1> HIDE DEF d, n, t
<1>8. CASE s.ok
  <2>1. tree'[<<>>].type = "table"
    BY <1>1, <1>5, <1>6, <1>8 DEF Grown, t
  <2>2. ASSUME NEW i \in Numbers(doc')
        PROVE  doc'[i].full \in DOMAIN s.tree /\ s.tree[doc'[i].full] = Node("number", {}, i)
    <3>1. CASE i = n
      BY <1>7, <1>8, <2>2, <3>1 DEF Line, n
    <3>2. CASE i # n
      <4>1. i \in Numbers(d) /\ doc'[i] = d[i]
        BY <1>7, <3>2
      <4>2. d[i].full \in DOMAIN t /\ t[d[i].full] = Node("number", {}, i)
        BY <1>1, <4>1 DEF NumbersThere
      <4>4. Node("number", {}, i).type = "number"
        BY DEF Node
      <4> QED BY <4>1, <4>2, <4>4 DEF Grown, t
    <3> QED BY <3>1, <3>2
  <2>3. NumbersThere(tree', doc')
    BY <1>6, <1>8, <2>2 DEF NumbersThere
  <2>4. doc' \in Seq(Statements) /\ Len(doc') = n /\ ok' \in BOOLEAN /\ Tree(tree', n)
    BY <1>2, <1>5, <1>6, <1>8 DEF Longer
  <2>5. cur' \in DOMAIN tree' /\ tree'[cur'].type = "table"
    BY <1>6, <1>8
  <2> QED BY <1>3, <2>1, <2>3, <2>4, <2>5 DEF TomlInv
<1>9. CASE ~s.ok
  <2>1. Tree(t, n)
    BY <1>1, <1>3, TreeGrows
  <2>2. /\ doc' \in Seq(Statements) /\ Len(doc') = n /\ ok' \in BOOLEAN
        /\ ~ok' /\ tree' = t /\ cur' = cur
    BY <1>2, <1>5, <1>6, <1>9 DEF Longer
  <2> QED BY <1>1, <1>3, <2>1, <2>2 DEF TomlInv
<1> QED BY <1>8, <1>9

LEMMA HeaderStep ==
  ASSUME TomlInv, More, NEW path \in Seq(Keys), path # <<>>,
         Becomes(StdTable(tree, path, Line), StdTable(tree, path, Line).at),
         Says("header", path, path)
  PROVE  TomlInv'
<1> DEFINE s == StdTable(tree, path, Line)
           st == [kind |-> "header", path |-> path, full |-> path]
<1>1. Len(doc) \in Nat /\ Line \in Nat /\ Len(doc) <= Line /\ Tree(tree, Len(doc)) /\ tree[<<>>].type = "table"
  BY DEF TomlInv, Line
<1>2. Tree(tree, Line)
  BY <1>1, TreeGrows
<1>3. PlaceOK(s, Line) /\ Grown(tree, s.tree)
  BY <1>1, <1>2, StdTableIs
<1>4. st \in Statements /\ st.kind # "number" /\ doc' = Append(doc, st)
  <2>1. path \in Seq(Labels)
    BY DEF Labels
  <2> QED BY <2>1 DEF Statements, Says
<1> HIDE DEF s, st
<1>5. s.at \in DOMAIN s.tree /\ s.tree[s.at].type = "table"
  BY <1>3 DEF PlaceOK
<1>6. Becomes(s, s.at)
  BY DEF s
<1> QED BY <1>3, <1>4, <1>5, <1>6, TomlSteps

LEMMA ArrayHeaderStep ==
  ASSUME TomlInv, More, NEW path \in Seq(Keys), path # <<>>,
         Becomes(ArrayTable(tree, path, Line), ArrayTable(tree, path, Line).at),
         Says("array", path, path)
  PROVE  TomlInv'
<1> DEFINE s == ArrayTable(tree, path, Line)
           st == [kind |-> "array", path |-> path, full |-> path]
<1>1. /\ Len(doc) \in Nat /\ Len(doc) < MaxStatements /\ Tree(tree, Len(doc))
      /\ tree[<<>>].type = "table"
  BY DEF TomlInv, More
<1>2. Line = Len(doc) + 1 /\ Line \in Nat /\ Len(doc) + 1 <= Len(Elements)
  BY <1>1, ElementsAre DEF Line
<1>3. PlaceOK(s, Line) /\ Grown(tree, s.tree)
  BY <1>1, <1>2, ArrayTableIs
<1>4. st \in Statements /\ st.kind # "number" /\ doc' = Append(doc, st)
  <2>1. path \in Seq(Labels)
    BY DEF Labels
  <2> QED BY <2>1 DEF Statements, Says
<1> HIDE DEF s, st
<1>5. s.at \in DOMAIN s.tree /\ s.tree[s.at].type = "table"
  BY <1>3 DEF PlaceOK
<1>6. Becomes(s, s.at)
  BY DEF s
<1> QED BY <1>3, <1>4, <1>5, <1>6, TomlSteps

\* What a key and its value make, as a statement.
LEMMA KeyValueParts ==
  ASSUME TomlInv, NEW path \in Seq(Keys), path # <<>>, NEW value \in Values(Line)
  PROVE  LET s == KeyValue(tree, path, value, Line)
             w == cur \o path
             l == Len(cur)
         IN
         /\ PlaceOK(s, Line) /\ Kept(tree, s.tree) /\ w \in Seq(Labels) /\ w # <<>>
         /\ s.ok => w \notin DOMAIN tree
         /\ s.ok /\ value.tree = Number(Line) => Said(tree, s.tree, w, l, Line)
         /\ ~s.ok /\ value.ok /\ NoInlined(tree) => Refused(tree, w, l)
<1>1. /\ Len(doc) \in Nat /\ Line \in Nat \ {0} /\ Len(doc) <= Line /\ Tree(tree, Len(doc))
      /\ cur \in DOMAIN tree /\ tree[cur].type = "table"
  BY DEF TomlInv, Line
<1>2. Tree(tree, Line)
  BY <1>1, TreeGrows
<1>3. value.ok \in BOOLEAN /\ Tree(value.tree, 1)
  BY <1>1, ValuesAre
<1> QED BY <1>1, <1>2, <1>3, KeyValueIs

LEMMA KeyValueStep ==
  ASSUME TomlInv, More, NEW path \in Seq(Keys), path # <<>>, NEW value \in Values(Line),
         Becomes(KeyValue(tree, path, value, Line), cur),
         Says(IF value.ok /\ value.tree = Number(Line) THEN "number" ELSE "inline",
              path, cur \o path)
  PROVE  TomlInv'
<1> DEFINE s == KeyValue(tree, path, value, Line)
           w == cur \o path
           kind == IF value.ok /\ value.tree = Number(Line) THEN "number" ELSE "inline"
           st == [kind |-> kind, path |-> path, full |-> w]
<1>1. /\ PlaceOK(s, Line) /\ Kept(tree, s.tree) /\ w \in Seq(Labels) /\ w # <<>>
      /\ s.ok /\ value.tree = Number(Line) => Said(tree, s.tree, w, Len(cur), Line)
  BY KeyValueParts
<1>2. /\ kind \in {"number", "inline"}
      /\ kind = "number" => value.tree = Number(Line)
  OBVIOUS
<1>3. doc' = Append(doc, st)
  BY DEF Says
<1>4. Becomes(s, cur)
  OBVIOUS
<1>5. cur \in DOMAIN tree /\ tree[cur].type = "table"
  BY DEF TomlInv
<1> HIDE DEF s, w, kind
<1>6. st \in Statements /\ st.kind = kind /\ st.full = w
  BY <1>1, <1>2 DEF Statements
<1> HIDE DEF st
<1>7. Grown(tree, s.tree) /\ cur \in DOMAIN s.tree /\ s.tree[cur].type = "table"
  BY <1>1, <1>5, KeptGrown DEF Kept
<1>8. s.ok /\ st.kind = "number" =>
        st.full \in DOMAIN s.tree /\ s.tree[st.full] = Node("number", {}, Line)
  BY <1>1, <1>2, <1>6 DEF Said
<1> QED BY <1>1, <1>3, <1>4, <1>6, <1>7, <1>8, TomlSteps

LEMMA TomlStarts == TomlInit => TomlInv
<1> SUFFICES ASSUME TomlInit PROVE TomlInv
  OBVIOUS
<1>1. tree = Leaf(Node("table", {}, 0)) /\ cur = <<>> /\ ok = TRUE /\ doc = <<>>
  BY DEF TomlInit, Top
<1>2. Tree(tree, 0) /\ <<>> \in DOMAIN tree /\ tree[<<>>].type = "table"
  BY <1>1, RootLeaf
<1>3. doc \in Seq(Statements) /\ Len(doc) = 0 /\ DOMAIN doc = {} /\ 0 <= MaxStatements
  BY <1>1, ElementsAre
<1>4. NumbersThere(tree, doc)
  BY <1>3 DEF NumbersThere, Numbers
<1> QED BY <1>1, <1>2, <1>3, <1>4 DEF TomlInv

LEMMA TomlStays == TomlInv /\ [TomlNext]_toml => TomlInv'
<1> SUFFICES ASSUME TomlInv, [TomlNext]_toml PROVE TomlInv'
  OBVIOUS
<1>1. MaxParts \in Nat /\ MaxParts - 1 \in Nat
  BY ElementsAre
<1>2. CASE ReadHeader
  <2>1. PICK path \in Paths(MaxParts) :
          /\ More /\ Becomes(StdTable(tree, path, Line), StdTable(tree, path, Line).at)
          /\ Says("header", path, path)
    BY <1>2 DEF ReadHeader
  <2>2. path \in Seq(Keys) /\ path # <<>>
    BY <1>1, PathsAre
  <2> QED BY <2>1, <2>2, HeaderStep
<1>3. CASE ReadArrayHeader
  <2>1. PICK path \in Paths(MaxParts - 1) :
          /\ More /\ Becomes(ArrayTable(tree, path, Line), ArrayTable(tree, path, Line).at)
          /\ Says("array", path, path)
    BY <1>3 DEF ReadArrayHeader
  <2>2. path \in Seq(Keys) /\ path # <<>>
    BY <1>1, PathsAre
  <2> QED BY <2>1, <2>2, ArrayHeaderStep
<1>4. CASE ReadKeyValue
  <2>1. PICK path \in Paths(MaxParts), value \in Values(Line) :
          /\ More /\ Becomes(KeyValue(tree, path, value, Line), cur)
          /\ Says(IF value.ok /\ value.tree = Number(Line) THEN "number" ELSE "inline",
                  path, cur \o path)
    BY <1>4 DEF ReadKeyValue
  <2>2. path \in Seq(Keys) /\ path # <<>>
    BY <1>1, PathsAre
  <2> QED BY <2>1, <2>2, KeyValueStep
<1>5. CASE UNCHANGED toml
  BY <1>5 DEF toml, TomlInv
<1> QED BY <1>2, <1>3, <1>4, <1>5 DEF TomlNext

LEMMA TomlAlways == TomlSpec => []TomlInv
BY TomlStarts, TomlStays, PTL DEF TomlSpec

LEMMA TomlTypes == TomlInv => TomlTypeOK
<1> SUFFICES ASSUME TomlInv PROVE TomlTypeOK
  OBVIOUS
<1>1. /\ ok \in BOOLEAN /\ cur \in DOMAIN tree /\ tree[cur].type = "table"
      /\ Tree(tree, Len(doc))
  BY DEF TomlInv
<1>2. ASSUME NEW p \in DOMAIN tree
      PROVE  tree[p] \in [type : {"table", "array", "number"}, flags : SUBSET Flags, by : Nat]
  <2>1. tree[p] \in Nodes
    BY <1>1 DEF Tree
  <2> QED BY <2>1 DEF Nodes
<1>3. ASSUME NEW p \in DOMAIN tree, p # <<>>
      PROVE  /\ Front(p) \in DOMAIN tree /\ tree[Front(p)].type # "number"
             /\ tree[Front(p)].type = "array" => Last(p) \in ToSet(Elements)
  <2>1. Holds(tree, Front(p), Last(p))
    BY <1>1, <1>3 DEF Tree
  <2> QED BY <2>1 DEF Holds
<1> QED BY <1>1, <1>2, <1>3 DEF TomlTypeOK

\* Every node has a type and flags, is below a table or an array, and is one of the
\* numbered elements if it is below an array, whatever the document says.
THEOREM TomlTypeCorrect == TomlSpec => []TomlTypeOK
BY TomlAlways, TomlTypes, PTL

LEMMA TomlFinds == TomlInv => SaidIsFound
<1> SUFFICES ASSUME TomlInv, ok, NEW i \in DOMAIN doc, doc[i].kind = "number",
                    \A p \in Holders(doc[i].full) \cap DOMAIN tree : tree[p].type = "table"
             PROVE  Lookup(doc[i].full) = Node("number", {}, i)
  BY DEF SaidIsFound
<1> DEFINE w == doc[i].full
<1>1. Tree(tree, Len(doc)) /\ w \in DOMAIN tree /\ tree[w] = Node("number", {}, i)
  BY DEF TomlInv, NumbersThere, Numbers
<1>2. Holders(w) \subseteq DOMAIN tree
  <2>1. w \in Seq(Labels) /\ \A k \in 0 .. Len(w) : Pre(w, k) \in DOMAIN tree
    BY <1>1, AboveAll
  <2>2. \A k \in 0 .. Len(w) - 1 : k \in 0 .. Len(w)
    BY <2>1
  <2> QED BY <2>1, <2>2 DEF Holders, Pre
<1> QED BY <1>1, <1>2 DEF Lookup

\* A number that a document has said, by a dotted key, under a header or under none,
\* is what toml_seek finds by its whole path, unless the path leads into an array.
THEOREM TomlFound == TomlSpec => []SaidIsFound
BY TomlAlways, TomlFinds, PTL

LEMMA LongerSays ==
  ASSUME NEW e, NEW d, NEW st, NEW n, Longer(e, d, st, n)
  PROVE  /\ \A i \in DOMAIN d : i \in DOMAIN e /\ e[i] = d[i]
         /\ \A i \in Numbers(d) : i \in Numbers(e) /\ e[i] = d[i] /\ KeyTables(e, i) = KeyTables(d, i)
         /\ \A i \in HeadersOf(d) : i \in HeadersOf(e) /\ e[i] = d[i]
         /\ \A i \in HeadersOf(e) : i # n => i \in HeadersOf(d) /\ e[i] = d[i]
         /\ n \in HeadersOf(e) <=> st.kind = "header"
         /\ n \in Numbers(e) <=> st.kind = "number"
         /\ n \in DOMAIN e /\ e[n] = st
<1>1. /\ DOMAIN e = DOMAIN d \cup {n} /\ n \notin DOMAIN d /\ e[n] = st
      /\ \A i \in DOMAIN d : e[i] = d[i]
  BY DEF Longer
<1>2. \A i \in Numbers(d) : i \in DOMAIN d /\ i \in Numbers(e)
  BY <1>1 DEF Numbers
<1>3. \A i \in DOMAIN d : KeyTables(e, i) = KeyTables(d, i)
  BY <1>1 DEF KeyTables
<1>4. \A i \in HeadersOf(d) : i \in HeadersOf(e) /\ e[i] = d[i]
  BY <1>1 DEF HeadersOf
<1>5. \A i \in HeadersOf(e) : i # n => i \in HeadersOf(d) /\ e[i] = d[i]
  BY <1>1 DEF HeadersOf
<1>6. n \in HeadersOf(e) <=> st.kind = "header"
  BY <1>1 DEF HeadersOf
<1>7. n \in Numbers(e) <=> st.kind = "number"
  BY <1>1 DEF Numbers
<1> QED BY <1>1, <1>2, <1>3, <1>4, <1>5, <1>6, <1>7

\* A header for path, statement n, makes u of the tree t.
HeaderMade(t, u, path, n) ==
  /\ path \in DOMAIN u /\ u[path].type = "table"
  /\ path \in DOMAIN t => Definable(t, path) /\ u[path].flags = t[path].flags \cup {"explicit"}
  /\ path \notin DOMAIN t => u[path].flags = {"std", "explicit"}
  /\ DOMAIN t \subseteq DOMAIN u /\ \A q \in DOMAIN t : q # path => u[q] = t[q]
  /\ \A q \in DOMAIN u \ DOMAIN t :
       /\ \E j \in 1 .. Len(path) : q = Pre(path, j)
       /\ q # path => u[q] = Node("table", {"std"}, n)

LEMMA PlainHeader ==
  ASSUME NEW t, NEW d, PlainTree(t, d), NEW u, NEW path \in Seq(Labels), NEW n \in Nat,
         HeaderMade(t, u, path, n),
         NEW e, NEW st, Longer(e, d, st, n), st.kind = "header", st.path = path, st.full = path
  PROVE  PlainTree(u, e)
<1>1. /\ path \in DOMAIN u /\ u[path].type = "table" /\ "explicit" \in u[path].flags
      /\ "std" \in u[path].flags
      /\ \A q \in DOMAIN t : q # path => u[q] = t[q]
      /\ \A q \in DOMAIN u : q \notin DOMAIN t /\ q # path => u[q] = Node("table", {"std"}, n)
  BY DEF HeaderMade, Definable
<1>2. LET new == Node("table", {"std"}, n) IN new.type = "table" /\ new.flags = {"std"}
  BY DEF Node
<1>3. /\ \A i \in DOMAIN d : i \in DOMAIN e /\ e[i] = d[i]
      /\ \A i \in Numbers(d) : i \in Numbers(e) /\ e[i] = d[i] /\ KeyTables(e, i) = KeyTables(d, i)
      /\ \A i \in HeadersOf(d) : i \in HeadersOf(e) /\ e[i] = d[i]
      /\ \A i \in HeadersOf(e) : i # n => i \in HeadersOf(d) /\ e[i] = d[i]
      /\ n \in HeadersOf(e) /\ n \in DOMAIN e /\ e[n] = st
  BY LongerSays
<1>4. NoArrays(u)
  BY <1>1, <1>2 DEF PlainTree, NoArrays
<1>5. NoInlined(u)
  <2>1. "inlined" \notin u[path].flags
    BY DEF HeaderMade, PlainTree, NoInlined
  <2> QED BY <1>1, <1>2, <2>1 DEF PlainTree, NoInlined
<1>6. ASSUME NEW p \in DOMAIN u, p # <<>>
      PROVE  \E i \in DOMAIN e : \E k \in 0 .. Len(e[i].full) : p = Pre(e[i].full, k)
  <2>1. CASE p \in DOMAIN t
    <3>1. PICK i \in DOMAIN d : \E k \in 0 .. Len(d[i].full) : p = Pre(d[i].full, k)
      BY <1>6, <2>1 DEF PlainTree
    <3> QED BY <1>3, <3>1
  <2>2. CASE p \notin DOMAIN t
    <3>1. PICK j \in 1 .. Len(path) : p = Pre(path, j)
      BY <2>2 DEF HeaderMade
    <3>2. j \in 0 .. Len(path)
      OBVIOUS
    <3> QED BY <1>3, <3>1, <3>2
  <2> QED BY <2>1, <2>2
<1>7. ASSUME NEW p \in DOMAIN u, u[p].type = "number" PROVE \E i \in Numbers(e) : p = e[i].full
  <2>1. p \in DOMAIN t /\ t[p].type = "number"
    BY <1>1, <1>2, <1>7
  <2>2. PICK i \in Numbers(d) : p = d[i].full
    BY <2>1 DEF PlainTree
  <2> QED BY <1>3, <2>2
<1>8. ASSUME NEW p \in DOMAIN u, "explicit" \in u[p].flags
      PROVE  \E i \in HeadersOf(e) : p = e[i].path
  <2>1. CASE p = path
    BY <1>3, <2>1
  <2>2. CASE p # path
    <3>1. p \in DOMAIN t /\ "explicit" \in t[p].flags
      BY <1>1, <1>2, <1>8, <2>2
    <3>2. PICK i \in HeadersOf(d) : p = d[i].path
      BY <3>1 DEF PlainTree
    <3> QED BY <1>3, <3>2
  <2> QED BY <2>1, <2>2
<1>9. ASSUME NEW p \in DOMAIN u, p # <<>>, u[p].type = "table", "std" \notin u[p].flags
      PROVE  \E i \in Numbers(e) : p \in KeyTables(e, i)
  <2>1. p \in DOMAIN t /\ u[p] = t[p]
    BY <1>1, <1>2, <1>9
  <2>2. PICK i \in Numbers(d) : p \in KeyTables(d, i)
    BY <1>9, <2>1 DEF PlainTree
  <2> QED BY <1>3, <2>2
<1>10. ASSUME NEW i \in HeadersOf(e)
       PROVE  /\ e[i].full = e[i].path /\ e[i].path \in DOMAIN u
              /\ u[e[i].path].type = "table" /\ "explicit" \in u[e[i].path].flags
  <2>1. CASE i = n
    BY <1>1, <1>3, <2>1
  <2>2. CASE i # n
    <3>1. i \in HeadersOf(d) /\ e[i] = d[i]
      BY <1>3, <2>2
    <3>2. /\ d[i].full = d[i].path /\ d[i].path \in DOMAIN t
          /\ t[d[i].path].type = "table" /\ "explicit" \in t[d[i].path].flags
      BY <3>1 DEF PlainTree
    <3>3. d[i].path # path => u[d[i].path] = t[d[i].path]
      BY <1>1, <3>2
    <3>4. d[i].path \in DOMAIN u
      BY <3>2 DEF HeaderMade
    <3> QED BY <1>1, <3>1, <3>2, <3>3, <3>4
  <2> QED BY <2>1, <2>2
<1>11. ASSUME NEW i \in HeadersOf(d) PROVE d[i].path # path
  <2>1. d[i].path \in DOMAIN t /\ "explicit" \in t[d[i].path].flags
    BY DEF PlainTree
  <2>2. path \in DOMAIN t => "explicit" \notin t[path].flags
    BY DEF HeaderMade, Definable
  <2> QED BY <2>1, <2>2
<1>12. ASSUME NEW i \in HeadersOf(e), NEW j \in HeadersOf(e), i # j PROVE e[i].path # e[j].path
  <2>1. CASE i = n
    BY <1>3, <1>11, <1>12, <2>1
  <2>2. CASE j = n
    BY <1>3, <1>11, <1>12, <2>2
  <2>3. CASE i # n /\ j # n
    <3>1. i \in HeadersOf(d) /\ j \in HeadersOf(d) /\ e[i] = d[i] /\ e[j] = d[j]
      BY <1>3, <2>3
    <3> QED BY <1>12, <3>1 DEF PlainTree
  <2> QED BY <2>1, <2>2, <2>3
<1> QED BY <1>4, <1>5, <1>6, <1>7, <1>8, <1>9, <1>10, <1>12 DEF PlainTree

LEMMA PlainNumber ==
  ASSUME NEW t, NEW d, PlainTree(t, d), NEW u, NEW w \in Seq(Labels), NEW l, NEW n \in Nat,
         w # <<>>, Kept(t, u), Said(t, u, w, l, n),
         NEW e, NEW st, Longer(e, d, st, n), st.kind = "number", st.full = w,
         Len(w) - Len(st.path) = l
  PROVE  PlainTree(u, e)
<1>1. /\ w \in DOMAIN u /\ u[w] = Node("number", {}, n)
      /\ \A q \in DOMAIN t : u[q] = t[q]
      /\ DOMAIN t \subseteq DOMAIN u
      /\ \A q \in DOMAIN u : q \notin DOMAIN t /\ q # w => u[q] = Node("table", {}, n)
      /\ \A q \in DOMAIN u : q \notin DOMAIN t /\ q # w => \E j \in l + 1 .. Len(w) - 1 : q = Pre(w, j)
  BY DEF Said, Kept
<1>2. /\ Node("table", {}, n).type = "table" /\ Node("table", {}, n).flags = {}
      /\ Node("number", {}, n).type = "number" /\ Node("number", {}, n).flags = {}
  BY DEF Node
<1>3. /\ \A i \in DOMAIN d : i \in DOMAIN e /\ e[i] = d[i]
      /\ \A i \in Numbers(d) : i \in Numbers(e) /\ e[i] = d[i] /\ KeyTables(e, i) = KeyTables(d, i)
      /\ \A i \in HeadersOf(d) : i \in HeadersOf(e) /\ e[i] = d[i]
      /\ \A i \in HeadersOf(e) : i \in HeadersOf(d) /\ e[i] = d[i]
      /\ n \in Numbers(e) /\ n \in DOMAIN e /\ e[n] = st
  <2>1. n \in HeadersOf(e) <=> st.kind = "header"
    BY LongerSays
  <2>2. n \notin HeadersOf(e)
    BY <2>1
  <2> QED BY <2>2, LongerSays
<1>4. KeyTables(e, n) = {Pre(w, k) : k \in l + 1 .. Len(w) - 1}
  BY <1>3 DEF KeyTables
<1>5. NoArrays(u) /\ NoInlined(u)
  BY <1>1, <1>2 DEF PlainTree, NoArrays, NoInlined
<1>6. ASSUME NEW p \in DOMAIN u, p # <<>>
      PROVE  \E i \in DOMAIN e : \E k \in 0 .. Len(e[i].full) : p = Pre(e[i].full, k)
  <2>1. CASE p \in DOMAIN t
    <3>1. PICK i \in DOMAIN d : \E k \in 0 .. Len(d[i].full) : p = Pre(d[i].full, k)
      BY <1>6, <2>1 DEF PlainTree
    <3> QED BY <1>3, <3>1
  <2>2. CASE p = w
    <3>1. Len(w) \in 0 .. Len(w) /\ Pre(w, Len(w)) = w
      BY PreEnds
    <3> QED BY <1>3, <2>2, <3>1
  <2>3. CASE p \notin DOMAIN t /\ p # w
    <3>1. PICK j \in l + 1 .. Len(w) - 1 : p = Pre(w, j)
      BY <1>1, <2>3
    <3>2. CASE j \in 0 .. Len(w)
      BY <1>3, <3>1, <3>2
    <3>3. CASE j < 0
      <4>1. p = <<>>
        BY <3>1, <3>3, SubSeqEmpty DEF Pre
      <4> QED BY <1>6, <4>1
    <3>4. j <= Len(w) /\ j \in Int
      BY <3>1
    <3> QED BY <3>2, <3>3, <3>4
  <2> QED BY <2>1, <2>2, <2>3
<1>7. ASSUME NEW p \in DOMAIN u, u[p].type = "number" PROVE \E i \in Numbers(e) : p = e[i].full
  <2>1. CASE p = w
    BY <1>3, <2>1
  <2>2. CASE p # w
    <3>1. p \in DOMAIN t /\ t[p].type = "number"
      BY <1>1, <1>2, <1>7, <2>2
    <3>2. PICK i \in Numbers(d) : p = d[i].full
      BY <3>1 DEF PlainTree
    <3> QED BY <1>3, <3>2
  <2> QED BY <2>1, <2>2
<1>8. ASSUME NEW p \in DOMAIN u, "explicit" \in u[p].flags
      PROVE  \E i \in HeadersOf(e) : p = e[i].path
  <2>1. p \in DOMAIN t /\ "explicit" \in t[p].flags
    BY <1>1, <1>2, <1>8
  <2>2. PICK i \in HeadersOf(d) : p = d[i].path
    BY <2>1 DEF PlainTree
  <2> QED BY <1>3, <2>2
<1>9. ASSUME NEW p \in DOMAIN u, p # <<>>, u[p].type = "table", "std" \notin u[p].flags
      PROVE  \E i \in Numbers(e) : p \in KeyTables(e, i)
  <2>1. CASE p \in DOMAIN t
    <3>1. PICK i \in Numbers(d) : p \in KeyTables(d, i)
      BY <1>1, <1>9, <2>1 DEF PlainTree
    <3> QED BY <1>3, <3>1
  <2>2. CASE p \notin DOMAIN t
    <3>1. p # w
      BY <1>1, <1>2, <1>9
    <3>2. PICK j \in l + 1 .. Len(w) - 1 : p = Pre(w, j)
      BY <1>1, <2>2, <3>1
    <3> QED BY <1>3, <1>4, <3>2
  <2> QED BY <2>1, <2>2
<1>10. ASSUME NEW i \in HeadersOf(e)
       PROVE  /\ e[i].full = e[i].path /\ e[i].path \in DOMAIN u
              /\ u[e[i].path].type = "table" /\ "explicit" \in u[e[i].path].flags
  <2>1. i \in HeadersOf(d) /\ e[i] = d[i]
    BY <1>3
  <2>2. /\ d[i].full = d[i].path /\ d[i].path \in DOMAIN t
        /\ t[d[i].path].type = "table" /\ "explicit" \in t[d[i].path].flags
    BY <2>1 DEF PlainTree
  <2> QED BY <1>1, <2>1, <2>2
<1>11. ASSUME NEW i \in HeadersOf(e), NEW j \in HeadersOf(e), i # j PROVE e[i].path # e[j].path
  <2>1. i \in HeadersOf(d) /\ j \in HeadersOf(d) /\ e[i] = d[i] /\ e[j] = d[j]
    BY <1>3
  <2> QED BY <1>11, <2>1 DEF PlainTree
<1> QED BY <1>5, <1>6, <1>7, <1>8, <1>9, <1>10, <1>11 DEF PlainTree

-----------------------------------------------------------------------------
(* Plain documents that are valid. *)

ValidDoc(d) ==
  /\ \A i \in DOMAIN d, j \in Numbers(d) : i # j => ~IsPrefix(d[j].full, d[i].full)
  /\ \A i, j \in HeadersOf(d) : i # j => d[i].path # d[j].path
  /\ \A i \in HeadersOf(d), j \in Numbers(d) : d[i].path \notin KeyTables(d, j)

LEMMA PrePrefix ==
  ASSUME NEW S, NEW w \in Seq(S), NEW k \in 0 .. Len(w)
  PROVE  IsPrefix(Pre(w, k), w)
<1>1. Len(Pre(w, k)) = k /\ k \in 0 .. k /\ k <= Len(w)
  BY PreIs
<1>2. Pre(Pre(w, k), k) = Pre(w, k)
  BY <1>1, PrePre
<1> QED BY <1>1, <1>2 DEF IsPrefix, Pre

\* The node at p, no table, is the number of a statement, so that nothing else is said
\* of what is below p.
LEMMA NumberInTheWay ==
  ASSUME NEW t, t \in [DOMAIN t -> Nodes], NEW d, PlainTree(t, d), NEW p \in DOMAIN t,
         t[p].type # "table", NEW e, NEW st, NEW n, Longer(e, d, st, n),
         NEW w \in Seq(Labels), st.full = w, NEW k \in 0 .. Len(w), p = Pre(w, k)
  PROVE  ~ValidDoc(e)
<1>1. t[p].type = "number"
  <2>1. t[p] \in Nodes
    OBVIOUS
  <2> QED BY <2>1, NodeFields DEF PlainTree, NoArrays
<1>2. PICK i \in Numbers(d) : p = d[i].full
  BY <1>1 DEF PlainTree
<1>3. i \in Numbers(e) /\ e[i] = d[i] /\ n \in DOMAIN e /\ e[n] = st
  BY LongerSays
<1>4. i # n
  BY <1>2 DEF Longer, Numbers
<1>5. IsPrefix(e[i].full, e[n].full)
  BY <1>2, <1>3, PrePrefix
<1> QED BY <1>3, <1>4, <1>5 DEF ValidDoc

\* A header is refused only in a document that is not valid.
LEMMA HeaderAccepted ==
  ASSUME NEW t, t \in [DOMAIN t -> Nodes], NEW d, PlainTree(t, d),
         NEW path \in Seq(Labels), path # <<>>, NEW n,
         NEW e, NEW st, Longer(e, d, st, n), st.kind = "header", st.path = path, st.full = path,
         \/ \E j \in 1 .. Len(path) - 1 : Pre(path, j) \in DOMAIN t /\ t[Pre(path, j)].type # "table"
         \/ path \in DOMAIN t /\ ~Definable(t, path)
  PROVE  ~ValidDoc(e)
<1>1. ASSUME NEW j \in 1 .. Len(path) - 1, Pre(path, j) \in DOMAIN t, t[Pre(path, j)].type # "table"
      PROVE  ~ValidDoc(e)
  <2>1. j \in 0 .. Len(path)
    OBVIOUS
  <2> QED BY <1>1, <2>1, NumberInTheWay
<1>2. CASE path \in DOMAIN t /\ t[path].type # "table"
  <2>1. Len(path) \in 0 .. Len(path) /\ path = Pre(path, Len(path))
    BY PreEnds
  <2> QED BY <1>2, <2>1, NumberInTheWay
<1>3. n \in HeadersOf(e) /\ n \in DOMAIN e /\ e[n] = st
  BY LongerSays
<1>4. CASE path \in DOMAIN t /\ "explicit" \in t[path].flags
  <2>1. PICK i \in HeadersOf(d) : path = d[i].path
    BY <1>4 DEF PlainTree
  <2>2. i \in HeadersOf(e) /\ e[i] = d[i]
    BY LongerSays
  <2>3. i # n
    BY <2>1 DEF Longer, HeadersOf
  <2> QED BY <1>3, <2>1, <2>2, <2>3 DEF ValidDoc
<1>5. CASE path \in DOMAIN t /\ t[path].type = "table" /\ "std" \notin t[path].flags
  <2>1. PICK i \in Numbers(d) : path \in KeyTables(d, i)
    BY <1>5 DEF PlainTree
  <2>2. i \in Numbers(e) /\ KeyTables(e, i) = KeyTables(d, i)
    BY LongerSays
  <2> QED BY <1>3, <2>1, <2>2 DEF ValidDoc
<1> QED BY <1>1, <1>2, <1>4, <1>5 DEF Definable

\* A number is refused only in a document that is not valid.
LEMMA NumberAccepted ==
  ASSUME NEW t, t \in [DOMAIN t -> Nodes], NEW d, PlainTree(t, d), d \in Seq(Statements),
         NEW w \in Seq(Labels), w # <<>>, NEW l \in Nat, NEW n, Refused(t, w, l),
         NEW e, NEW st, Longer(e, d, st, n), st.kind = "number", st.full = w,
         Len(w) - Len(st.path) = l
  PROVE  ~ValidDoc(e)
<1>1. n \in Numbers(e) /\ n \in DOMAIN e /\ e[n] = st
  BY LongerSays
<1>2. CASE w \in DOMAIN t
  <2>1. PICK i \in DOMAIN d : \E k \in 0 .. Len(d[i].full) : w = Pre(d[i].full, k)
    BY <1>2 DEF PlainTree
  <2>2. i \in DOMAIN e /\ e[i] = d[i]
    BY LongerSays
  <2>3. i # n
    BY <2>1 DEF Longer
  <2>4. d[i].full \in Seq(Labels)
    <3>1. d[i] \in Statements
      OBVIOUS
    <3> QED BY <3>1 DEF Statements
  <2>5. IsPrefix(w, d[i].full)
    BY <2>1, <2>4, PrePrefix
  <2> QED BY <1>1, <2>2, <2>3, <2>5 DEF ValidDoc
<1>3. ASSUME NEW j \in l + 1 .. Len(w) - 1, Pre(w, j) \in DOMAIN t
      PROVE  /\ t[Pre(w, j)].type # "table" => ~ValidDoc(e)
             /\ "explicit" \in t[Pre(w, j)].flags => ~ValidDoc(e)
  <2>1. j \in 0 .. Len(w)
    OBVIOUS
  <2>2. ASSUME t[Pre(w, j)].type # "table" PROVE ~ValidDoc(e)
    BY <1>3, <2>1, <2>2, NumberInTheWay
  <2>3. ASSUME "explicit" \in t[Pre(w, j)].flags PROVE ~ValidDoc(e)
    <3>1. PICK i \in HeadersOf(d) : Pre(w, j) = d[i].path
      BY <1>3, <2>3 DEF PlainTree
    <3>2. i \in HeadersOf(e) /\ e[i] = d[i]
      BY LongerSays
    <3>3. Pre(w, j) \in KeyTables(e, n)
      BY <1>1 DEF KeyTables
    <3> QED BY <1>1, <3>1, <3>2, <3>3 DEF ValidDoc
  <2> QED BY <2>2, <2>3
<1> QED BY <1>2, <1>3 DEF Refused

\* What is read, of keys with one part, is valid.
LEMMA ReadIsValid ==
  ASSUME NEW t, NEW m, Tree(t, m), NEW d \in Seq(Statements), PlainTree(t, d), NumbersThere(t, d),
         \A i \in DOMAIN d : i \in HeadersOf(d) \cup Numbers(d),
         \A i \in Numbers(d) : Len(d[i].path) = 1
  PROVE  ValidDoc(d)
<1>1. ASSUME NEW i \in DOMAIN d, NEW j \in Numbers(d), i # j, IsPrefix(d[j].full, d[i].full)
      PROVE  FALSE
  <2> DEFINE w == d[i].full
             v == d[j].full
             k == Len(v)
  <2>1. v \in DOMAIN t /\ t[v] = Node("number", {}, j)
    BY DEF NumbersThere
  <2>2. t[v].type = "number" /\ t[v].by = j
    BY <2>1 DEF Node
  <2>3. w \in Seq(Labels) /\ v \in Seq(Labels) /\ j \in DOMAIN d
    <3>1. d[i] \in Statements /\ j \in DOMAIN d /\ d[j] \in Statements
      BY DEF Numbers
    <3> QED BY <3>1 DEF Statements
  <2>4. w \in DOMAIN t /\ (t[w].type = "table" \/ t[w].by = i)
    <3>1. CASE i \in HeadersOf(d)
      BY <3>1 DEF PlainTree
    <3>2. CASE i \in Numbers(d)
      <4>1. w \in DOMAIN t /\ t[w] = Node("number", {}, i)
        BY <3>2 DEF NumbersThere
      <4> QED BY <4>1 DEF Node
    <3> QED BY <3>1, <3>2
  <2>5. k \in Nat /\ Len(w) \in Nat /\ k <= Len(w) /\ Pre(w, k) = v
    <3>1. k <= Len(w) /\ Pre(v, k) = Pre(w, k)
      BY <1>1 DEF IsPrefix, Pre
    <3>2. Pre(v, k) = v
      BY <2>3, PreEnds
    <3> QED BY <2>3, <3>1, <3>2
  <2> HIDE DEF w, v, k
  <2>6. CASE k = Len(w)
    <3>1. w = v
      BY <2>3, <2>5, <2>6, PreEnds
    <3> QED BY <1>1, <2>2, <2>4, <3>1
  <2>7. CASE k # Len(w)
    <3>1. k \in 0 .. Len(w) - 1
      BY <2>5, <2>7
    <3>2. Holds(t, Pre(w, k), w[k + 1])
      BY <2>4, <3>1, AboveAll
    <3> QED BY <2>2, <2>5, <3>2 DEF Holds
  <2> QED BY <2>6, <2>7
<1>2. \A i, j \in HeadersOf(d) : i # j => d[i].path # d[j].path
  BY DEF PlainTree
<1>3. ASSUME NEW j \in Numbers(d) PROVE KeyTables(d, j) = {}
  <2>1. Len(d[j].path) = 1
    OBVIOUS
  <2>2. Len(d[j].full) \in Nat
    <3>1. d[j] \in Statements
      BY DEF Numbers
    <3> QED BY <3>1 DEF Statements
  <2>3. Len(d[j].full) - Len(d[j].path) + 1 .. Len(d[j].full) - 1 = {}
    BY <2>1, <2>2
  <2> QED BY <2>3 DEF KeyTables
<1> QED BY <1>1, <1>2, <1>3 DEF ValidDoc

PlainDoc(d) == \A i \in DOMAIN d : d[i].kind \in {"header", "number"}

LEMMA ValidIs ==
  /\ Plain <=> PlainDoc(doc)
  /\ Valid <=> ValidDoc(doc)
  /\ Plain' <=> PlainDoc(doc')
  /\ Valid' <=> ValidDoc(doc')
<1>1. Plain <=> PlainDoc(doc)
  BY DEF Plain, PlainDoc
<1>2. Plain' <=> PlainDoc(doc')
  BY DEF Plain, PlainDoc
<1>3. Valid <=> ValidDoc(doc)
  BY DEF Valid, ValidDoc, Of, Defines, Numbers, HeadersOf, KeyTables, Pre
<1>4. Valid' <=> ValidDoc(doc')
  BY DEF Valid, ValidDoc, Of, Defines, Numbers, HeadersOf, KeyTables, Pre
<1> QED BY <1>1, <1>2, <1>3, <1>4

LEMMA PlainBefore ==
  ASSUME NEW e, NEW d, NEW st, NEW n, Longer(e, d, st, n), PlainDoc(e)
  PROVE  PlainDoc(d) /\ st.kind \in {"header", "number"}
<1>1. \A i \in DOMAIN d : i \in DOMAIN e /\ e[i] = d[i]
  BY LongerSays
<1>2. n \in DOMAIN e /\ e[n] = st
  BY LongerSays
<1> QED BY <1>1, <1>2 DEF PlainDoc

\* A header that is read in a plain document.
LEMMA HeaderMakes ==
  ASSUME TomlInv, PlainTree(tree, doc), NEW path \in Seq(Keys), path # <<>>
  PROVE  LET s == StdTable(tree, path, Line) IN
         /\ s.ok => HeaderMade(tree, s.tree, path, Line)
         /\ ~s.ok =>
              \/ \E j \in 1 .. Len(path) - 1 : Pre(path, j) \in DOMAIN tree /\ tree[Pre(path, j)].type # "table"
              \/ path \in DOMAIN tree /\ ~Definable(tree, path)
<1> DEFINE s == StdTable(tree, path, Line)
<1>1. /\ Len(doc) \in Nat /\ Line \in Nat /\ Len(doc) <= Line /\ Tree(tree, Len(doc))
      /\ tree[<<>>].type = "table" /\ NoArrays(tree) /\ NoInlined(tree)
  BY DEF TomlInv, Line, PlainTree
<1>2. Tree(tree, Line)
  BY <1>1, TreeGrows
<1>3. /\ PlaceOK(s, Line) /\ Grown(tree, s.tree)
      /\ s.ok =>
              /\ s.at = path
              /\ path \in DOMAIN tree =>
                   Definable(tree, path) /\ s.tree[path].flags = tree[path].flags \cup {"explicit"}
              /\ path \notin DOMAIN tree => s.tree[path].flags = {"std", "explicit"}
              /\ \A q \in DOMAIN tree : q # path => s.tree[q] = tree[q]
              /\ \A q \in DOMAIN s.tree \ DOMAIN tree :
                   /\ \E j \in 1 .. Len(path) : q = Pre(path, j)
                   /\ q # path => s.tree[q] = Node("table", {"std"}, Line)
      /\ ~s.ok =>
              \/ \E j \in 1 .. Len(path) - 1 : Pre(path, j) \in DOMAIN tree /\ tree[Pre(path, j)].type # "table"
              \/ path \in DOMAIN tree /\ ~Definable(tree, path)
  BY <1>1, <1>2, StdTableIs
<1> HIDE DEF s
<1>4. s.at \in DOMAIN s.tree /\ s.tree[s.at].type = "table" /\ DOMAIN tree \subseteq DOMAIN s.tree
  BY <1>3 DEF PlaceOK, Grown
<1>5. ASSUME s.ok PROVE HeaderMade(tree, s.tree, path, Line)
  BY <1>3, <1>4, <1>5 DEF HeaderMade
<1> QED BY <1>3, <1>5 DEF s

LEMMA PlainHeaderStep ==
  ASSUME TomlInv, PlainInv, More, NEW path \in Seq(Keys), path # <<>>,
         Becomes(StdTable(tree, path, Line), StdTable(tree, path, Line).at),
         Says("header", path, path)
  PROVE  PlainInv' /\ ValidAccepted'
<1> DEFINE s == StdTable(tree, path, Line)
           st == [kind |-> "header", path |-> path, full |-> path]
<1> SUFFICES ASSUME PlainDoc(doc')
             PROVE  /\ ok' => PlainTree(tree', doc')
                    /\ ValidDoc(doc') => ok'
  BY ValidIs DEF PlainInv, ValidAccepted
<1>1. /\ path \in Seq(Labels) /\ doc \in Seq(Statements) /\ ok /\ Tree(tree, Len(doc))
      /\ Line \in Nat
  BY DEF TomlInv, More, Labels, Line
<1>2. st \in Statements /\ st.kind = "header" /\ st.path = path /\ st.full = path /\ doc' = Append(doc, st)
  BY <1>1 DEF Statements, Says
<1>3. /\ ok' = s.ok
      /\ s.ok => tree' = s.tree
  BY DEF Becomes
<1> HIDE DEF st
<1>4. Longer(doc', doc, st, Line)
  BY <1>1, <1>2, LongerIs DEF Line
<1>5. PlainTree(tree, doc)
  BY <1>1, <1>4, PlainBefore, ValidIs DEF PlainInv
<1>6. /\ s.ok => HeaderMade(tree, s.tree, path, Line)
      /\ ~s.ok =>
              \/ \E j \in 1 .. Len(path) - 1 : Pre(path, j) \in DOMAIN tree /\ tree[Pre(path, j)].type # "table"
              \/ path \in DOMAIN tree /\ ~Definable(tree, path)
  BY <1>5, HeaderMakes
<1> HIDE DEF s
<1>7. CASE s.ok
  <2>1. PlainTree(s.tree, doc')
    BY <1>1, <1>2, <1>4, <1>5, <1>6, <1>7, PlainHeader
  <2> QED BY <1>3, <1>7, <2>1
<1>8. CASE ~s.ok
  <2>1. tree \in [DOMAIN tree -> Nodes]
    BY <1>1 DEF Tree
  <2>2. ~ValidDoc(doc')
    BY <1>1, <1>2, <1>4, <1>5, <1>6, <1>8, <2>1, HeaderAccepted
  <2> QED BY <1>3, <1>8, <2>2
<1> QED BY <1>7, <1>8

LEMMA PlainNumberStep ==
  ASSUME TomlInv, PlainInv, More, NEW path \in Seq(Keys), path # <<>>, NEW value \in Values(Line),
         Becomes(KeyValue(tree, path, value, Line), cur),
         Says(IF value.ok /\ value.tree = Number(Line) THEN "number" ELSE "inline",
              path, cur \o path)
  PROVE  PlainInv' /\ ValidAccepted'
<1> DEFINE s == KeyValue(tree, path, value, Line)
           w == cur \o path
           l == Len(cur)
           kind == IF value.ok /\ value.tree = Number(Line) THEN "number" ELSE "inline"
           st == [kind |-> kind, path |-> path, full |-> w]
<1> SUFFICES ASSUME PlainDoc(doc')
             PROVE  /\ ok' => PlainTree(tree', doc')
                    /\ ValidDoc(doc') => ok'
  BY ValidIs DEF PlainInv, ValidAccepted
<1>1. /\ doc \in Seq(Statements) /\ ok /\ Tree(tree, Len(doc)) /\ Line \in Nat
      /\ cur \in Seq(Labels)
  BY DEF TomlInv, More, Line, Tree
<1>2. /\ PlaceOK(s, Line) /\ Kept(tree, s.tree) /\ w \in Seq(Labels) /\ w # <<>>
      /\ s.ok => w \notin DOMAIN tree
      /\ s.ok /\ value.tree = Number(Line) => Said(tree, s.tree, w, l, Line)
      /\ ~s.ok /\ value.ok /\ NoInlined(tree) => Refused(tree, w, l)
  BY KeyValueParts
<1>3. /\ kind \in {"number", "inline"}
      /\ kind = "number" => value.ok /\ value.tree = Number(Line)
  OBVIOUS
<1>4. doc' = Append(doc, st)
  BY DEF Says
<1>5. /\ ok' = s.ok
      /\ s.ok => tree' = s.tree
  BY DEF Becomes
<1>6. l \in Nat /\ Len(w) - Len(path) = l
  <2>1. path \in Seq(Labels)
    BY DEF Labels
  <2>2. Len(w) = l + Len(path) /\ l \in Nat /\ Len(path) \in Nat
    BY <1>1, <2>1, Joined
  <2> QED BY <2>2
<1> HIDE DEF s, w, l, kind
<1>7. st \in Statements /\ st.kind = kind /\ st.path = path /\ st.full = w
  BY <1>2, <1>3 DEF Statements
<1> HIDE DEF st
<1>8. Longer(doc', doc, st, Line)
  BY <1>1, <1>4, <1>7, LongerIs DEF Line
<1>9. PlainTree(tree, doc) /\ st.kind = "number" /\ value.ok /\ value.tree = Number(Line)
  <2>1. PlainDoc(doc) /\ st.kind \in {"header", "number"}
    BY <1>8, PlainBefore
  <2>2. PlainTree(tree, doc)
    BY <1>1, <2>1, ValidIs DEF PlainInv
  <2> QED BY <1>3, <1>7, <2>1, <2>2
<1>10. CASE s.ok
  <2>1. PlainTree(s.tree, doc')
    BY <1>1, <1>2, <1>6, <1>7, <1>8, <1>9, <1>10, PlainNumber
  <2> QED BY <1>5, <1>10, <2>1
<1>11. CASE ~s.ok
  <2>1. tree \in [DOMAIN tree -> Nodes] /\ NoInlined(tree)
    BY <1>1, <1>9 DEF Tree, PlainTree
  <2>2. Refused(tree, w, l)
    BY <1>2, <1>9, <1>11, <2>1
  <2>3. ~ValidDoc(doc')
    BY <1>1, <1>2, <1>6, <1>7, <1>8, <1>9, <2>1, <2>2, NumberAccepted
  <2> QED BY <1>5, <1>11, <2>3
<1> QED BY <1>10, <1>11

LEMMA PlainArrayStep ==
  ASSUME TomlInv, NEW path \in Seq(Keys), path # <<>>, Says("array", path, path)
  PROVE  PlainInv' /\ ValidAccepted'
<1> DEFINE st == [kind |-> "array", path |-> path, full |-> path]
<1>1. path \in Seq(Labels) /\ doc \in Seq(Statements) /\ doc' = Append(doc, st)
  BY DEF TomlInv, Labels, Says
<1>2. st \in Statements /\ st.kind = "array"
  BY <1>1 DEF Statements
<1> HIDE DEF st
<1>3. Longer(doc', doc, st, Len(doc) + 1)
  BY <1>1, <1>2, LongerIs
<1>4. ~PlainDoc(doc')
  BY <1>2, <1>3, PlainBefore
<1> QED BY <1>4, ValidIs DEF PlainInv, ValidAccepted

LEMMA PlainStarts == TomlInit => PlainInv /\ ValidAccepted
<1> SUFFICES ASSUME TomlInit PROVE PlainInv /\ ValidAccepted
  OBVIOUS
<1>1. tree = Leaf(Node("table", {}, 0)) /\ ok = TRUE /\ doc = <<>>
  BY DEF TomlInit, Top
<1>2. DOMAIN tree = {<<>>} /\ tree[<<>>].type = "table" /\ tree[<<>>].flags = {}
  BY <1>1 DEF Leaf, Node
<1>3. HeadersOf(doc) = {}
  BY <1>1 DEF HeadersOf
<1>4. PlainTree(tree, doc)
  BY <1>2, <1>3 DEF PlainTree, NoArrays, NoInlined
<1> QED BY <1>1, <1>4 DEF PlainInv, ValidAccepted

LEMMA PlainStays == TomlInv /\ PlainInv /\ ValidAccepted /\ [TomlNext]_toml => PlainInv' /\ ValidAccepted'
<1> SUFFICES ASSUME TomlInv, PlainInv, ValidAccepted, [TomlNext]_toml PROVE PlainInv' /\ ValidAccepted'
  OBVIOUS
<1>1. MaxParts \in Nat /\ MaxParts - 1 \in Nat
  BY ElementsAre
<1>2. CASE ReadHeader
  <2>1. PICK path \in Paths(MaxParts) :
          /\ More /\ Becomes(StdTable(tree, path, Line), StdTable(tree, path, Line).at)
          /\ Says("header", path, path)
    BY <1>2 DEF ReadHeader
  <2>2. path \in Seq(Keys) /\ path # <<>>
    BY <1>1, PathsAre
  <2> QED BY <2>1, <2>2, PlainHeaderStep
<1>3. CASE ReadArrayHeader
  <2>1. PICK path \in Paths(MaxParts - 1) : Says("array", path, path)
    BY <1>3 DEF ReadArrayHeader
  <2>2. path \in Seq(Keys) /\ path # <<>>
    BY <1>1, PathsAre
  <2> QED BY <2>1, <2>2, PlainArrayStep
<1>4. CASE ReadKeyValue
  <2>1. PICK path \in Paths(MaxParts), value \in Values(Line) :
          /\ More /\ Becomes(KeyValue(tree, path, value, Line), cur)
          /\ Says(IF value.ok /\ value.tree = Number(Line) THEN "number" ELSE "inline",
                  path, cur \o path)
    BY <1>4 DEF ReadKeyValue
  <2>2. path \in Seq(Keys) /\ path # <<>>
    BY <1>1, PathsAre
  <2> QED BY <2>1, <2>2, PlainNumberStep
<1>5. CASE UNCHANGED toml
  <2>1. tree' = tree /\ ok' = ok /\ doc' = doc
    BY <1>5 DEF toml
  <2>2. /\ PlainDoc(doc) /\ ok => PlainTree(tree, doc)
        /\ PlainDoc(doc) /\ ValidDoc(doc) => ok
    BY ValidIs DEF PlainInv, ValidAccepted
  <2> QED BY <2>1, <2>2, ValidIs DEF PlainInv, ValidAccepted
<1> QED BY <1>2, <1>3, <1>4, <1>5 DEF TomlNext

LEMMA PlainAlways == TomlSpec => [](TomlInv /\ PlainInv /\ ValidAccepted)
<1>1. TomlInit => TomlInv /\ PlainInv /\ ValidAccepted
  BY TomlStarts, PlainStarts
<1>2. TomlInv /\ PlainInv /\ ValidAccepted /\ [TomlNext]_toml => (TomlInv /\ PlainInv /\ ValidAccepted)'
  BY TomlStays, PlainStays
<1> QED BY <1>1, <1>2, PTL DEF TomlSpec

\* However a document without arrays and inline tables orders its headers and keys, if
\* nothing in it is said twice or below a number, and no table is both defined by a
\* dotted key and by a header, the parser reports no error.
THEOREM TomlAccepts == TomlSpec => []ValidAccepted
BY PlainAlways, PTL

LEMMA PlainExact == TomlInv /\ PlainInv /\ ValidAccepted => PlainKeysExact
<1> SUFFICES ASSUME TomlInv, PlainInv, ValidAccepted, Plain,
                    \A i \in Of("number") : Len(doc[i].path) = 1
             PROVE  ok = Valid
  BY DEF PlainKeysExact
<1>1. Valid => ok
  BY DEF ValidAccepted
<1>2. ASSUME ok PROVE Valid
  <2>1. PlainTree(tree, doc) /\ Tree(tree, Len(doc)) /\ doc \in Seq(Statements) /\ NumbersThere(tree, doc)
    BY <1>2 DEF PlainInv, TomlInv
  <2>2. \A i \in DOMAIN doc : i \in HeadersOf(doc) \cup Numbers(doc)
    BY DEF Plain, HeadersOf, Numbers
  <2>3. \A i \in Numbers(doc) : Len(doc[i].path) = 1
    BY DEF Of, Numbers
  <2>4. ValidDoc(doc)
    BY <2>1, <2>2, <2>3, ReadIsValid
  <2> QED BY <2>4, ValidIs
<1>3. ok \in BOOLEAN /\ Valid \in BOOLEAN
  BY DEF TomlInv, Valid
<1>4. CASE ok
  <2>1. Valid = TRUE
    BY <1>2, <1>3, <1>4
  <2>2. ok = TRUE
    BY <1>3, <1>4
  <2> QED BY <2>1, <2>2
<1>5. CASE ~ok
  <2>1. Valid = FALSE
    BY <1>1, <1>3, <1>5
  <2>2. ok = FALSE
    BY <1>3, <1>5
  <2> QED BY <2>1, <2>2
<1> QED BY <1>4, <1>5

\* Where keys have one part, as in the file of presets, the parser accepts exactly the
\* documents in which no table and no key comes twice.
THEOREM TomlExact == TomlSpec => []PlainKeysExact
BY PlainAlways, PlainExact, PTL
=============================================================================
