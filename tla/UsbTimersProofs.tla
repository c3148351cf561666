-------------------------- MODULE UsbTimersProofs --------------------------
(***************************************************************************)
(* What TLAPS proves of UsbTimers, for any set of transfers, any timeouts  *)
(* and any patience.                                                       *)
(***************************************************************************)
EXTENDS UsbTimers, SequenceTheorems, WellFoundedInduction, TLAPS

\* Transfers are sorted by deadline; those without one come last.
Before(s, t) == IsSet(left[t]) => IsSet(left[s]) /\ left[s] <= left[t]
Sorted(l) == \A j, k \in DOMAIN l : j < k => Before(l[j], l[k])

\* The timer fires in time for the first deadline that is to be handled,
\* unless a transfer before it has timed out; only passed deadlines have been
\* handled.  Nobody waits where there is a timer.
IInv ==
  /\ list \in Seq(Transfers) /\ DeadlinesOK /\ Sorted(list)
  /\ \A t \in expired : left[t] = 0
  /\ useTimer => wait = Off
  /\ TimerCovers

-----------------------------------------------------------------------------
(* Positions in the list. *)

\* A set of natural numbers has a least element.
LEMMA MinIs ==
  ASSUME NEW S \in SUBSET Nat, S # {}
  PROVE  Min(S) \in S /\ \A n \in S : Min(S) <= n
<1> DEFINE R == {ss \in Nat \X Nat : ss[1] < ss[2]}
<1>1. IsWellFoundedOn(R, Nat)
  BY NatLessThanWellFounded DEF OpToRel
<1>2. \A x, y \in Nat : x < y => <<x, y>> \in R
  OBVIOUS
<1>3. S \subseteq Nat /\ S # {}
  OBVIOUS
<1> HIDE DEF R
<1>4. PICK x \in S : \A y \in S : ~(<<y, x>> \in R)
  BY <1>1, <1>3, WFMin
<1>5. \A y \in S : ~(y < x)
  BY <1>2, <1>4
<1>6. \A y \in S : x <= y
  BY <1>5
<1> QED
  BY <1>6 DEF Min

\* A walk stops at a position it stops at, or behind the list, and at no
\* earlier one.
LEMMA WalkStops ==
  ASSUME NEW l \in Seq(Transfers), NEW S \in SUBSET (1..Len(l))
  PROVE  LET n == Min(S \cup {Len(l) + 1}) IN
         /\ n \in 1..(Len(l) + 1)
         /\ n = Len(l) + 1 \/ n \in S
         /\ \A k \in S : n <= k
<1> DEFINE n == Len(l)
<1>1. n \in Nat
  OBVIOUS
<1> HIDE DEF n
<1>2. \A x \in S : x \in 1..n
  BY DEF n
<1>3. S \cup {n + 1} \subseteq Nat
  BY <1>1, <1>2
<1>4. Min(S \cup {n + 1}) \in S \cup {n + 1} /\ \A k \in S \cup {n + 1} : Min(S \cup {n + 1}) <= k
  BY <1>3, MinIs
<1> DEFINE m == Min(S \cup {n + 1})
<1>5. m = n + 1 \/ m \in 1..n
  BY <1>2, <1>4
<1>6. m = n + 1 \/ m \in S
  BY <1>4
<1>7. \A k \in S : m <= k
  BY <1>4
<1> HIDE DEF m
<1>8. m \in 1..(n + 1)
  BY <1>1, <1>5
<1> QED
  BY <1>6, <1>7, <1>8 DEF n, m

LEMMA Inserted ==
  ASSUME NEW l \in Seq(Transfers), NEW n \in 1..(Len(l) + 1), NEW t \in Transfers
  PROVE  /\ InsertAt(l, n, t) \in Seq(Transfers)
         /\ Len(InsertAt(l, n, t)) = Len(l) + 1
         /\ \A k \in 1..(Len(l) + 1) :
              InsertAt(l, n, t)[k] = IF k < n THEN l[k] ELSE IF k = n THEN t ELSE l[k - 1]
<1> DEFINE a == SubSeq(l, 1, n - 1)
           b == SubSeq(l, n, Len(l))
<1>1. Len(l) \in Nat /\ n \in Nat
  OBVIOUS
<1>2. /\ a \in Seq(Transfers) /\ Len(a) = n - 1
      /\ \A k \in 1..(n - 1) : a[k] = l[k]
  BY <1>1
<1>3. /\ b \in Seq(Transfers) /\ Len(b) = Len(l) - n + 1
      /\ \A k \in 1..(Len(l) - n + 1) : b[k] = l[n + k - 1]
  BY <1>1
<1>4. InsertAt(l, n, t) = (a \o <<t>>) \o b
  BY DEF InsertAt
<1> HIDE DEF a, b
<1>5. /\ a \o <<t>> \in Seq(Transfers) /\ Len(a \o <<t>>) = n
      /\ \A k \in 1..n : (a \o <<t>>)[k] = IF k < n THEN l[k] ELSE t
  BY <1>1, <1>2
<1> DEFINE c == a \o <<t>>
<1>6. c \in Seq(Transfers) /\ Len(c) = n /\ \A k \in 1..n : c[k] = IF k < n THEN l[k] ELSE t
  BY <1>5
<1>7. InsertAt(l, n, t) = c \o b
  BY <1>4
<1> HIDE DEF c
<1>8. /\ c \o b \in Seq(Transfers) /\ Len(c \o b) = Len(l) + 1
      /\ \A k \in 1..(Len(l) + 1) : (c \o b)[k] = IF k <= n THEN c[k] ELSE b[k - n]
  <2>1. c \o b \in Seq(Transfers) /\ Len(c \o b) = Len(c) + Len(b)
    BY <1>3, <1>6, ConcatProperties
  <2>2. \A k \in 1..(Len(c) + Len(b)) : (c \o b)[k] = IF k <= Len(c) THEN c[k] ELSE b[k - Len(c)]
    BY <1>3, <1>6, ConcatProperties
  <2>3. Len(c) + Len(b) = Len(l) + 1
    BY <1>1, <1>3, <1>6
  <2> QED
    BY <1>6, <2>1, <2>2, <2>3
<1> QED
  BY <1>1, <1>3, <1>6, <1>7, <1>8

LEMMA Removed ==
  ASSUME NEW l \in Seq(Transfers), NEW n \in 1..Len(l)
  PROVE  /\ RemoveAt(l, n) \in Seq(Transfers)
         /\ Len(RemoveAt(l, n)) = Len(l) - 1
         /\ \A k \in 1..(Len(l) - 1) :
              RemoveAt(l, n)[k] = IF k < n THEN l[k] ELSE l[k + 1]
<1> DEFINE a == SubSeq(l, 1, n - 1)
           b == SubSeq(l, n + 1, Len(l))
<1>1. Len(l) \in Nat /\ n \in Nat
  OBVIOUS
<1>2. /\ a \in Seq(Transfers) /\ Len(a) = n - 1
      /\ \A k \in 1..(n - 1) : a[k] = l[k]
  BY <1>1
<1>3. /\ b \in Seq(Transfers) /\ Len(b) = Len(l) - n
      /\ \A k \in 1..(Len(l) - n) : b[k] = l[n + k]
  BY <1>1
<1>4. RemoveAt(l, n) = a \o b
  BY DEF RemoveAt
<1> HIDE DEF a, b
<1>5. /\ a \o b \in Seq(Transfers) /\ Len(a \o b) = Len(l) - 1
      /\ \A k \in 1..(Len(l) - 1) : (a \o b)[k] = IF k < n THEN a[k] ELSE b[k - (n - 1)]
  <2>1. a \o b \in Seq(Transfers) /\ Len(a \o b) = Len(a) + Len(b)
    BY <1>2, <1>3, ConcatProperties
  <2>2. \A k \in 1..(Len(a) + Len(b)) : (a \o b)[k] = IF k <= Len(a) THEN a[k] ELSE b[k - Len(a)]
    BY <1>2, <1>3, ConcatProperties
  <2>3. Len(a) + Len(b) = Len(l) - 1
    BY <1>1, <1>2, <1>3
  <2>4. \A k \in 1..(Len(l) - 1) : k <= n - 1 <=> k < n
    BY <1>1
  <2> QED
    BY <1>2, <2>1, <2>2, <2>3, <2>4
<1>6. ASSUME NEW k \in 1..(Len(l) - 1)
      PROVE  (a \o b)[k] = IF k < n THEN l[k] ELSE l[k + 1]
  <2>1. CASE k < n
    <3>1. k \in 1..(n - 1)
      BY <1>1, <2>1
    <3> QED
      BY <1>2, <1>5, <2>1, <3>1
  <2>2. CASE ~(k < n)
    <3>1. k - (n - 1) \in 1..(Len(l) - n) /\ n + (k - (n - 1)) = k + 1
      BY <1>1, <2>2
    <3>2. b[k - (n - 1)] = l[k + 1]
      BY <1>3, <3>1
    <3> QED
      BY <1>5, <2>2, <3>2
  <2> QED
    BY <2>1, <2>2
<1> QED
  BY <1>4, <1>5, <1>6

-----------------------------------------------------------------------------
(* What the operations compute. *)

\* What is armed is no later than any deadline that is to be handled.
LEMMA NextDeadlineIs ==
  ASSUME NEW l \in Seq(Transfers), NEW e, Sorted(l),
         left \in [Transfers -> Nat \cup {Forever}]
  PROVE  /\ NextDeadline(l, e) \in Nat \cup {Off}
         /\ \A k \in 1..Len(l) : l[k] \notin e /\ IsSet(left[l[k]]) =>
              NextDeadline(l, e) # Off /\ NextDeadline(l, e) <= left[l[k]]
<1> DEFINE stops == {k \in DOMAIN l : ~IsSet(left[l[k]]) \/ l[k] \notin e}
           m == Min(stops)
<1>1. DOMAIN l = 1..Len(l) /\ Len(l) \in Nat /\ \A k \in 1..Len(l) : l[k] \in Transfers
  OBVIOUS
<1>2. stops \subseteq 1..Len(l) /\ stops \subseteq Nat
  BY <1>1
<1>3. stops # {} => m \in stops /\ \A k \in stops : m <= k
  BY <1>2, MinIs
<1>4. NextDeadline(l, e) = IF stops # {} /\ IsSet(left[l[m]]) THEN left[l[m]] ELSE Off
  BY DEF NextDeadline
<1>5. \A k \in 1..Len(l) : l[k] \notin e => k \in stops
  BY <1>1
<1>6. stops # {} => m \in 1..Len(l)
  BY <1>2, <1>3
<1> HIDE DEF stops, m
<1>7. \A k \in stops : m = k \/ m < k
  BY <1>2, <1>3, <1>6
<1>8. ASSUME NEW k \in 1..Len(l), l[k] \notin e, IsSet(left[l[k]])
      PROVE  stops # {} /\ IsSet(left[l[m]]) /\ left[l[m]] <= left[l[k]]
  <2>1. k \in stops
    BY <1>5, <1>8
  <2>2. CASE m = k
    <3>1. left[l[k]] \in Nat
      BY <1>1, <1>8 DEF IsSet
    <3> QED
      BY <1>8, <2>1, <2>2, <3>1
  <2>3. CASE m < k
    <3>1. Before(l[m], l[k])
      BY <1>1, <1>6, <2>1, <2>3 DEF Sorted
    <3> QED
      BY <1>8, <2>1, <3>1 DEF Before
  <2> QED
    BY <1>7, <2>1, <2>2, <2>3
<1>9. stops # {} /\ IsSet(left[l[m]]) => left[l[m]] \in Nat
  BY <1>1, <1>6 DEF IsSet
<1> QED
  BY <1>4, <1>8, <1>9, DeadlinesAssumption

\* Only deadlines that have passed are handled, and what was stays so.
LEMMA HandledIs ==
  ASSUME list \in Seq(Transfers), DeadlinesOK, \A t \in expired : left[t] = 0
  PROVE  /\ expired \subseteq Handled /\ Handled \subseteq Flying
         /\ \A t \in Handled : left[t] = 0
<1> DEFINE Stops(t) == ~IsSet(left[t]) \/ (t \notin expired /\ left[t] > 0)
           S == {k \in DOMAIN list : Stops(list[k])}
           n == FirstOf(S)
           h == SubSeq(list, 1, n - 1)
<1>1. DOMAIN list = 1..Len(list) /\ Len(list) \in Nat
  OBVIOUS
<1>2. S \in SUBSET (1..Len(list))
  BY <1>1
<1>3. n \in 1..(Len(list) + 1) /\ \A k \in S : n <= k
  BY <1>2, WalkStops DEF FirstOf
<1>4. Handled = expired \cup ToSet(h)
  BY DEF Handled
<1> HIDE DEF n, S
<1>5. h \in Seq(Transfers) /\ Len(h) = n - 1 /\ \A k \in 1..(n - 1) : h[k] = list[k]
  BY <1>1, <1>3
<1>6. ASSUME NEW t \in ToSet(h)
      PROVE  t \in Flying /\ left[t] = 0
  <2>1. PICK k \in 1..(n - 1) : t = list[k]
    BY <1>3, <1>5 DEF ToSet
  <2>2. k \in 1..Len(list) /\ k \notin S
    BY <1>1, <1>3, <2>1
  <2>3. IsSet(left[t]) /\ (t \in expired \/ ~(left[t] > 0))
    BY <1>1, <2>1, <2>2 DEF S
  <2>4. t \in Flying /\ left[t] \in Nat
    BY <1>1, <2>1, <2>2, <2>3 DEF Flying, ToSet, DeadlinesOK, IsSet
  <2> QED
    BY <2>3, <2>4
<1> QED
  BY <1>4, <1>6 DEF DeadlinesOK

\* add_to_flying_list finds the place behind those that are due no later.
LEMMA PlaceIs ==
  ASSUME list \in Seq(Transfers), Sorted(list), NEW n \in Nat \cup {Forever},
         left \in [Transfers -> Nat \cup {Forever}]
  PROVE  /\ PlaceFor(n) \in 1..(Len(list) + 1)
         /\ \A k \in 1..Len(list) :
              /\ k < PlaceFor(n) /\ n # Forever => IsSet(left[list[k]]) /\ left[list[k]] <= n
              /\ k >= PlaceFor(n) => n # Forever /\ Later(left[list[k]], n)
<1>1. /\ DOMAIN list = 1..Len(list) /\ Len(list) \in Nat
      /\ \A k \in 1..Len(list) : list[k] \in Transfers
  OBVIOUS
<1>2. CASE n = Forever
  BY <1>1, <1>2 DEF PlaceFor
<1>3. CASE n # Forever
  <2> DEFINE S == {k \in DOMAIN list : Later(left[list[k]], n)}
             p == FirstOf(S)
  <2>1. S \in SUBSET (1..Len(list))
    BY <1>1
  <2>2. p \in 1..(Len(list) + 1) /\ (p = Len(list) + 1 \/ p \in S) /\ \A k \in S : p <= k
    BY <2>1, WalkStops DEF FirstOf
  <2>3. PlaceFor(n) = p /\ n \in Nat
    BY <1>3 DEF PlaceFor
  <2> HIDE DEF p
  <2>4. ASSUME NEW k \in 1..Len(list), k < p
        PROVE  IsSet(left[list[k]]) /\ left[list[k]] <= n
    <3>1. ~Later(left[list[k]], n)
      BY <1>1, <2>2, <2>4
    <3>2. left[list[k]] \in Nat \cup {Forever}
      BY <1>1
    <3> QED
      BY <2>3, <3>1, <3>2 DEF Later, IsSet
  <2>5. ASSUME NEW k \in 1..Len(list), k >= p
        PROVE  Later(left[list[k]], n)
    <3>1. p \in S /\ p \in 1..Len(list) /\ Later(left[list[p]], n)
      BY <1>1, <2>2, <2>5
    <3>2. CASE k = p
      BY <3>1, <3>2
    <3>3. CASE p < k
      <4>1. Before(list[p], list[k])
        BY <1>1, <3>1, <3>3 DEF Sorted
      <4>2. left[list[k]] \in Nat \cup {Forever} /\ left[list[p]] \in Nat \cup {Forever}
        BY <1>1, <3>1
      <4> QED
        BY <2>3, <3>1, <4>1, <4>2 DEF Before, Later, IsSet
    <3> QED
      BY <2>2, <2>5, <3>2, <3>3
  <2> QED
    BY <1>3, <2>2, <2>3, <2>4, <2>5
<1> QED
  BY <1>2, <1>3

-----------------------------------------------------------------------------
(* The steps. *)

\* A transfer is in the list where it was, or behind the one that was added.
LEMMA AddStep ==
  ASSUME IInv, NEW t \in Transfers, Add(t)
  PROVE  IInv'
<1> DEFINE N == Len(list)
<1>1. /\ list \in Seq(Transfers) /\ N \in Nat /\ DOMAIN list = 1..N
      /\ \A k \in 1..N : list[k] \in Flying
      /\ DeadlinesOK /\ Sorted(list) /\ left \in [Transfers -> Nat \cup {Forever}]
  BY DEF IInv, DeadlinesOK, Flying, ToSet
<1>2. PICK n \in Timeouts \cup {Forever} :
        /\ list' = InsertAt(list, PlaceFor(n), t)
        /\ left' = [left EXCEPT ![t] = n]
        /\ timer' = IF useTimer /\ n # Forever /\ list'[1] = t THEN n ELSE timer
  BY DEF Add
<1>3. /\ t \notin Flying /\ expired' = expired \ {t}
      /\ useTimer' = useTimer /\ wait' = wait
  BY DEF Add
<1>4. n \in Nat \cup {Forever} /\ (n # Forever => n \in Nat)
  BY DeadlinesAssumption
<1> DEFINE p == PlaceFor(n)
<1>5. /\ p \in 1..(N + 1)
      /\ \A k \in 1..N :
           /\ k < p /\ n # Forever => IsSet(left[list[k]]) /\ left[list[k]] <= n
           /\ k >= p => n # Forever /\ Later(left[list[k]], n)
  BY <1>1, <1>4, PlaceIs
<1> HIDE DEF p
<1>6. /\ list' \in Seq(Transfers) /\ Len(list') = N + 1 /\ DOMAIN list' = 1..(N + 1)
      /\ \A k \in 1..(N + 1) :
           list'[k] = IF k < p THEN list[k] ELSE IF k = p THEN t ELSE list[k - 1]
  <2> DEFINE l == InsertAt(list, p, t)
  <2>1. /\ l \in Seq(Transfers) /\ Len(l) = N + 1
        /\ \A k \in 1..(N + 1) :
             l[k] = IF k < p THEN list[k] ELSE IF k = p THEN t ELSE list[k - 1]
    BY <1>1, <1>5, Inserted
  <2>2. list' = l
    BY <1>2 DEF p
  <2> HIDE DEF l
  <2>3. DOMAIN l = 1..(N + 1)
    BY <2>1
  <2> QED
    BY <2>1, <2>2, <2>3
<1> HIDE DEF N
<1>7. left' \in [Transfers -> Nat \cup {Forever}] /\ left'[t] = n
  BY <1>1, <1>2, <1>4
<1>8. \A k \in 1..N : list[k] # t /\ left'[list[k]] = left[list[k]] /\ list[k] \in Transfers
  BY <1>1, <1>2, <1>3, <1>7 DEF DeadlinesOK
<1>9. Flying' = Flying \cup {t}
  <2>1. ASSUME NEW k \in 1..(N + 1) PROVE list'[k] \in Flying \cup {t}
    BY <1>1, <1>5, <1>6
  <2>2. ASSUME NEW k \in 1..N PROVE \E j \in 1..(N + 1) : list'[j] = list[k]
    <3>1. CASE k < p
      BY <1>1, <1>6, <3>1
    <3>2. CASE k >= p
      <4>1. k + 1 \in 1..(N + 1) /\ list'[k + 1] = list[k]
        BY <1>1, <1>5, <1>6, <3>2
      <4> QED
        BY <4>1
    <3> QED
      BY <1>1, <1>5, <3>1, <3>2
  <2>3. list'[p] = t
    BY <1>1, <1>5, <1>6
  <2>4. Flying = {list[k] : k \in 1..N} /\ Flying' = {list'[k] : k \in 1..(N + 1)}
    BY <1>1, <1>6 DEF Flying, ToSet
  <2> QED
    BY <1>5, <2>1, <2>2, <2>3, <2>4
<1>10. ASSUME NEW j \in DOMAIN list', NEW k \in DOMAIN list', j < k
       PROVE  list'[j] # list'[k] /\ Before(list[j], list[k])'
  <2>1. j \in 1..(N + 1) /\ k \in 1..(N + 1) /\ p \in 1..(N + 1) /\ N \in Nat
    BY <1>1, <1>5, <1>6
  <2>2. CASE k < p
    <3>1. list'[j] = list[j] /\ list'[k] = list[k] /\ j \in 1..N /\ k \in 1..N
      BY <1>6, <1>10, <2>1, <2>2
    <3>2. list[j] # list[k] /\ Before(list[j], list[k])
      BY <1>1, <1>10, <3>1 DEF DeadlinesOK, Sorted
    <3> QED
      BY <1>8, <3>1, <3>2 DEF Before, IsSet
  <2>3. CASE k = p
    <3>1. list'[j] = list[j] /\ list'[k] = t /\ j \in 1..N /\ j < p
      BY <1>6, <1>10, <2>1, <2>3
    <3> QED
      BY <1>5, <1>7, <1>8, <3>1 DEF Before, IsSet
  <2>4. CASE p < k /\ j < p
    <3>1. list'[j] = list[j] /\ list'[k] = list[k - 1] /\ j \in 1..N /\ k - 1 \in 1..N /\ j < k - 1
      BY <1>6, <1>10, <2>1, <2>4
    <3>2. list[j] # list[k - 1] /\ Before(list[j], list[k - 1])
      BY <1>1, <1>10, <3>1 DEF DeadlinesOK, Sorted
    <3> QED
      BY <1>8, <3>1, <3>2 DEF Before, IsSet
  <2>5. CASE p < k /\ j = p
    <3>1. list'[j] = t /\ list'[k] = list[k - 1] /\ k - 1 \in 1..N /\ k - 1 >= p
      BY <1>6, <1>10, <2>1, <2>5
    <3>2. n # Forever /\ Later(left[list[k - 1]], n) /\ left[list[k - 1]] \in Nat \cup {Forever}
      BY <1>1, <1>5, <1>8, <3>1
    <3> QED
      BY <1>4, <1>7, <1>8, <3>1, <3>2 DEF Before, IsSet, Later
  <2>6. CASE p < j
    <3>1. list'[j] = list[j - 1] /\ list'[k] = list[k - 1] /\ j - 1 \in 1..N /\ k - 1 \in 1..N
          /\ j - 1 < k - 1
      BY <1>6, <1>10, <2>1, <2>6
    <3>2. list[j - 1] # list[k - 1] /\ Before(list[j - 1], list[k - 1])
      BY <1>1, <1>10, <3>1 DEF DeadlinesOK, Sorted
    <3> QED
      BY <1>8, <3>1, <3>2 DEF Before, IsSet
  <2> QED
    BY <1>10, <2>1, <2>2, <2>3, <2>4, <2>5, <2>6
<1>11. Sorted(list)'
  BY <1>10 DEF Sorted
<1>12. DeadlinesOK'
  <2>1. \A j, k \in DOMAIN list' : list'[j] = list'[k] => j = k
    BY <1>6, <1>10
  <2>2. Flying' \subseteq Transfers /\ expired' \subseteq Flying'
    BY <1>1, <1>3, <1>9 DEF DeadlinesOK
  <2>3. timer' \in Nat \cup {Off}
    BY <1>1, <1>2, <1>4 DEF DeadlinesOK
  <2> QED
    BY <1>1, <1>3, <1>7, <2>1, <2>2, <2>3 DEF DeadlinesOK
<1>13. \A u \in expired' : left'[u] = 0
  BY <1>1, <1>2, <1>3 DEF IInv, DeadlinesOK
<1>14. ASSUME useTimer, NEW u \in Flying' \ expired'
       PROVE  \/ ~IsSet(left'[u]) \/ list'[1] \in expired'
              \/ timer' # Off /\ timer' <= left'[u]
  <2>1. CASE p = 1
    <3>1. list'[1] = t
      BY <1>1, <1>6, <2>1
    <3>2. PICK k \in 1..(N + 1) : u = list'[k]
      BY <1>6, <1>14 DEF Flying, ToSet
    <3>3. k = 1 \/ Before(list[1], list[k])'
      BY <1>1, <1>6, <1>11, <3>2 DEF Sorted
    <3>4. left'[u] \in Nat \cup {Forever}
      BY <1>1, <1>7, <1>9, <1>14 DEF DeadlinesOK
    <3>5. CASE IsSet(left'[u])
      <4>1. n # Forever /\ n <= left'[u]
        BY <1>4, <1>7, <3>1, <3>2, <3>3, <3>4, <3>5 DEF Before, IsSet
      <4>2. timer' = n
        BY <1>2, <1>14, <3>1, <4>1
      <4> QED
        BY <1>4, <4>1, <4>2, DeadlinesAssumption
    <3> QED
      BY <3>5
  <2>2. CASE p # 1
    <3>1. 1 \in 1..N /\ list'[1] = list[1] /\ 1 < p
      BY <1>1, <1>5, <1>6, <2>2
    <3>2. timer' = timer
      BY <1>2, <1>8, <3>1
    <3>3. list[1] \in Flying /\ (list[1] \in expired => list'[1] \in expired')
      BY <1>1, <1>3, <1>8, <3>1
    <3>4. CASE u # t
      <4>1. u \in Flying \ expired /\ left'[u] = left[u]
        BY <1>1, <1>2, <1>3, <1>9, <1>14, <3>4 DEF DeadlinesOK
      <4> QED
        BY <1>14, <3>2, <3>3, <4>1 DEF IInv, TimerCovers
    <3>5. CASE u = t /\ n # Forever /\ list[1] \notin expired
      <4>1. IsSet(left[list[1]]) /\ left[list[1]] <= n
        BY <1>5, <3>1, <3>5
      <4>2. timer # Off /\ timer <= left[list[1]]
        BY <1>14, <3>3, <3>5, <4>1 DEF IInv, TimerCovers
      <4>3. left[list[1]] \in Nat /\ timer \in Nat
        BY <1>1, <1>8, <3>1, <4>1, <4>2 DEF IsSet, DeadlinesOK
      <4> QED
        BY <1>4, <1>7, <3>2, <3>5, <4>1, <4>2, <4>3
    <3> QED
      BY <1>7, <3>3, <3>4, <3>5 DEF IsSet
  <2> QED
    BY <2>1, <2>2
<1>15. TimerCovers'
  BY <1>3, <1>12, <1>14 DEF TimerCovers, IsSet
<1> QED
  BY <1>3, <1>6, <1>11, <1>12, <1>13, <1>15 DEF IInv

\* The transfers that are left close up, in the same order.
LEMMA LeaveStep ==
  ASSUME IInv, NEW t \in Transfers, Leave(t)
  PROVE  IInv'
<1> DEFINE N == Len(list)
<1>1. /\ list \in Seq(Transfers) /\ N \in Nat /\ DOMAIN list = 1..N
      /\ \A k \in 1..N : list[k] \in Flying
      /\ DeadlinesOK /\ Sorted(list) /\ left \in [Transfers -> Nat \cup {Forever}]
  BY DEF IInv, DeadlinesOK, Flying, ToSet
<1>2. PICK p \in 1..N : list[p] = t /\ list' = RemoveAt(list, p)
  BY <1>1 DEF Leave
<1>3. /\ timer' = IF Rearm(t) THEN NextDeadline(list', expired) ELSE timer
      /\ left' = [left EXCEPT ![t] = Forever] /\ expired' = expired \ {t}
      /\ useTimer' = useTimer /\ wait' = wait
  BY DEF Leave
<1> DEFINE l == RemoveAt(list, p)
<1>4. l \in Seq(Transfers) /\ Len(l) = N - 1
      /\ \A k \in 1..(N - 1) : l[k] = IF k < p THEN list[k] ELSE list[k + 1]
  BY <1>1, Removed
<1>5. list' = l
  BY <1>2
<1> HIDE DEF l, N
<1>6. DOMAIN l = 1..(N - 1)
  BY <1>4
<1>7. left' \in [Transfers -> Nat \cup {Forever}]
  BY <1>1, <1>3
<1>8. \A u \in Transfers : u # t => left'[u] = left[u]
  BY <1>1, <1>3
<1>9. ASSUME NEW k \in 1..(N - 1)
      PROVE  l[k] \in Flying \ {t}
  <2>1. CASE k < p
    BY <1>1, <1>2, <1>4, <2>1 DEF DeadlinesOK
  <2>2. CASE k >= p
    <3>1. k + 1 \in 1..N /\ k + 1 # p /\ l[k] = list[k + 1]
      BY <1>1, <1>4, <2>2
    <3> QED
      BY <1>1, <1>2, <3>1 DEF DeadlinesOK
  <2> QED
    BY <1>1, <2>1, <2>2
<1>10. Flying' = Flying \ {t}
  <2>1. ASSUME NEW k \in 1..N, k # p PROVE \E j \in 1..(N - 1) : l[j] = list[k]
    <3>1. CASE k < p
      BY <1>1, <1>4, <3>1
    <3>2. CASE k > p
      <4>1. k - 1 \in 1..(N - 1) /\ l[k - 1] = list[k]
        BY <1>1, <1>4, <3>2
      <4> QED
        BY <4>1
    <3> QED
      BY <1>1, <2>1, <3>1, <3>2
  <2>2. Flying = {list[k] : k \in 1..N} /\ Flying' = {l[k] : k \in 1..(N - 1)}
    BY <1>1, <1>5, <1>6 DEF Flying, ToSet
  <2> QED
    BY <1>2, <1>9, <2>1, <2>2
<1>11. ASSUME NEW j \in 1..(N - 1), NEW k \in 1..(N - 1), j < k
       PROVE  l[j] # l[k] /\ Before(l[j], l[k])
  <2>1. PICK a \in 1..N : l[j] = list[a] /\ (a = j \/ a = j + 1) /\ (a = j + 1 => j >= p)
    BY <1>1, <1>4
  <2>2. PICK b \in 1..N : l[k] = list[b] /\ (b = k \/ b = k + 1) /\ (b = k => k < p)
    BY <1>1, <1>4
  <2>3. a < b
    BY <1>1, <1>11, <2>1, <2>2
  <2>4. Before(list[a], list[b])
    BY <1>1, <2>3 DEF Sorted
  <2>5. a # b /\ list[a] # list[b]
    BY <1>1, <2>3 DEF DeadlinesOK
  <2> QED
    BY <2>1, <2>2, <2>4, <2>5
<1>12. Sorted(l)
  BY <1>6, <1>11 DEF Sorted
<1>13. Sorted(list)'
  <2>1. ASSUME NEW j \in 1..(N - 1), NEW k \in 1..(N - 1), j < k
        PROVE  Before(list[j], list[k])'
    <3>1. Before(l[j], l[k]) /\ left'[l[j]] = left[l[j]] /\ left'[l[k]] = left[l[k]]
      BY <1>1, <1>8, <1>9, <1>11, <2>1 DEF DeadlinesOK
    <3> QED
      BY <1>5, <3>1 DEF Before, IsSet
  <2> QED
    BY <1>5, <1>6, <2>1 DEF Sorted
<1>14. /\ NextDeadline(l, expired) \in Nat \cup {Off}
       /\ \A k \in 1..Len(l) : l[k] \notin expired /\ IsSet(left[l[k]]) =>
            NextDeadline(l, expired) # Off /\ NextDeadline(l, expired) <= left[l[k]]
  BY <1>1, <1>4, <1>12, NextDeadlineIs
<1>15. DeadlinesOK'
  <2>1. \A j, k \in DOMAIN list' : list'[j] = list'[k] => j = k
    <3>1. \A j, k \in 1..(N - 1) : j # k => j < k \/ k < j
      BY <1>1
    <3> QED
      BY <1>5, <1>6, <1>11, <3>1
  <2>2. Flying' \subseteq Transfers /\ expired' \subseteq Flying'
    BY <1>1, <1>3, <1>10 DEF DeadlinesOK
  <2>3. timer' \in Nat \cup {Off}
    BY <1>1, <1>3, <1>5, <1>14 DEF DeadlinesOK
  <2> QED
    BY <1>1, <1>3, <1>7, <2>1, <2>2, <2>3 DEF DeadlinesOK
<1>16. \A u \in expired' : left'[u] = 0
  BY <1>1, <1>3, <1>8 DEF IInv, DeadlinesOK
<1>17. ASSUME useTimer, NEW u \in Flying' \ expired', IsSet(left'[u]), list'[1] \notin expired'
       PROVE  timer' # Off /\ timer' <= left'[u]
  <2>1. PICK k \in 1..(N - 1) : u = l[k]
    BY <1>5, <1>6, <1>17 DEF Flying, ToSet
  <2>2. u \in Flying /\ u # t /\ u \notin expired /\ left'[u] = left[u]
    BY <1>1, <1>3, <1>8, <1>10, <1>17 DEF DeadlinesOK
  <2>3. CASE Rearm(t)
    BY <1>3, <1>4, <1>5, <1>14, <1>17, <2>1, <2>2, <2>3 DEF IsSet
  <2>4. CASE ~Rearm(t)
    <3>1. timer' = timer
      BY <1>3, <2>4
    <3>2. ASSUME p = 1 PROVE FALSE
      <4>1. ~IsSet(left[t])
        BY <1>2, <1>17, <2>4, <3>2 DEF Rearm
      <4>2. l[k] = list[k + 1] /\ k + 1 \in 1..N /\ 1 < k + 1
        BY <1>1, <1>4, <3>2
      <4>3. Before(t, u)
        BY <1>1, <1>2, <2>1, <3>2, <4>2 DEF Sorted
      <4> QED
        BY <1>17, <2>2, <4>1, <4>3 DEF Before, IsSet
    <3>3. l[1] = list[1] /\ list[1] # t
      BY <1>1, <1>2, <1>4, <3>2 DEF DeadlinesOK
    <3>4. list[1] \notin expired
      BY <1>3, <1>5, <1>17, <3>3
    <3> QED
      BY <1>17, <2>2, <3>1, <3>4 DEF IInv, TimerCovers, IsSet
  <2> QED
    BY <2>3, <2>4
<1>18. TimerCovers'
  BY <1>3, <1>15, <1>17 DEF TimerCovers, IsSet
<1> QED
  BY <1>3, <1>4, <1>5, <1>13, <1>15, <1>16, <1>18 DEF IInv

LEMMA TriggerStep ==
  ASSUME IInv, Trigger
  PROVE  IInv'
<1>1. /\ expired' = Handled /\ timer' = NextDeadline(list, Handled)
      /\ list' = list /\ left' = left /\ useTimer' = useTimer /\ wait' = wait
  BY DEF Trigger
<1>2. expired \subseteq Handled /\ Handled \subseteq Flying /\ \A t \in Handled : left[t] = 0
  BY HandledIs DEF IInv
<1>3. /\ NextDeadline(list, Handled) \in Nat \cup {Off}
      /\ \A k \in 1..Len(list) : list[k] \notin Handled /\ IsSet(left[list[k]]) =>
           NextDeadline(list, Handled) # Off /\ NextDeadline(list, Handled) <= left[list[k]]
  BY NextDeadlineIs DEF IInv, DeadlinesOK
<1>4. Flying' = Flying /\ Flying = {list[k] : k \in 1..Len(list)}
  BY <1>1 DEF Flying, ToSet, IInv
<1>5. DeadlinesOK'
  BY <1>1, <1>2, <1>3, <1>4 DEF IInv, DeadlinesOK
<1>6. TimerCovers'
  BY <1>1, <1>3, <1>4, <1>5 DEF TimerCovers, IsSet
<1> QED
  BY <1>1, <1>2, <1>5, <1>6 DEF IInv, Sorted, Before, IsSet

\* Whoever waits, where there is no timer, touches no deadline.
LEMMA WaitStep ==
  ASSUME IInv, Look \/ Waited \/ Woken
  PROVE  IInv'
<1>1. /\ list' = list /\ left' = left /\ timer' = timer /\ useTimer' = useTimer
      /\ expired' \in {expired, Handled}
  BY DEF Look, Waited, Woken
<1>2. expired \subseteq Handled /\ Handled \subseteq Flying /\ \A t \in Handled : left[t] = 0
  BY HandledIs DEF IInv
<1>3. /\ NextDeadline(list, expired) \in Nat \cup {Off}
  BY NextDeadlineIs DEF IInv, DeadlinesOK
<1>4. wait' \in 0..Patience \cup {Off}
  <2>1. CASE Look
    BY <1>3, <2>1, DeadlinesAssumption DEF Look, IInv, DeadlinesOK
  <2>2. CASE Waited \/ Woken
    BY <2>2 DEF Waited, Woken
  <2> QED
    BY <2>1, <2>2
<1>5. Flying' = Flying
  BY <1>1 DEF Flying
<1>6. DeadlinesOK'
  BY <1>1, <1>2, <1>4, <1>5 DEF IInv, DeadlinesOK
<1>7. ASSUME useTimer PROVE wait' = Off /\ expired' = expired
  <2>1. wait = Off
    BY <1>7 DEF IInv
  <2>2. ~Look /\ ~Waited /\ ~Woken
    BY <1>7, <2>1, DeadlinesAssumption DEF Look, Waited, Woken
  <2> QED
    BY <2>2
<1>8. TimerCovers'
  BY <1>1, <1>5, <1>6, <1>7 DEF IInv, TimerCovers, IsSet
<1>9. \A t \in expired' : left'[t] = 0
  BY <1>1, <1>2 DEF IInv
<1>10. Sorted(list)'
  BY <1>1 DEF IInv, Sorted, Before, IsSet
<1> QED
  BY <1>1, <1>6, <1>7, <1>8, <1>9, <1>10 DEF IInv

LEMMA DownIs ==
  /\ \A d \in Nat : Down(d) \in Nat /\ Down(d) <= d
  /\ \A c, d \in Nat : c <= d => Down(c) <= Down(d)
  /\ Down(0) = 0 /\ Down(Forever) = Forever /\ Down(Off) = Off
BY DeadlinesAssumption DEF Down

\* Time keeps the order, and comes closer to the timer as to the deadlines.
LEMMA TickStep ==
  ASSUME IInv, Tick
  PROVE  IInv'
<1>1. /\ list' = list /\ expired' = expired /\ useTimer' = useTimer
      /\ left' = [t \in Transfers |-> Down(left[t])]
      /\ timer' = Down(timer) /\ wait' = Down(wait)
  BY DEF Tick
<1>2. \A t \in Transfers : left'[t] = Down(left[t]) /\ left[t] \in Nat \cup {Forever}
  BY <1>1 DEF IInv, DeadlinesOK
<1>3. ASSUME NEW t \in Transfers
      PROVE  /\ left'[t] \in Nat \cup {Forever}
             /\ IsSet(left'[t]) => IsSet(left[t]) /\ left[t] \in Nat
             /\ IsSet(left[t]) => IsSet(left'[t]) /\ left[t] \in Nat
  BY <1>2, DownIs, DeadlinesAssumption DEF IsSet
<1>4. left' \in [Transfers -> Nat \cup {Forever}]
  BY <1>1, <1>2, <1>3
<1>5. wait' \in 0..Patience \cup {Off} /\ timer' \in Nat \cup {Off} /\ timer \in Nat \cup {Off}
  <2>1. wait \in 0..Patience \cup {Off} /\ timer \in Nat \cup {Off}
    BY DEF IInv, DeadlinesOK
  <2>2. Patience \in Nat
    BY DeadlinesAssumption
  <2>3. \A d \in 0..Patience : Down(d) \in 0..Patience
    BY <2>2, DownIs
  <2> QED
    BY <1>1, <2>1, <2>3, DownIs
<1>6. Flying' = Flying
  BY <1>1 DEF Flying
<1>7. DeadlinesOK'
  BY <1>1, <1>4, <1>5, <1>6 DEF IInv, DeadlinesOK
<1>8. ASSUME NEW s \in Transfers, NEW t \in Transfers, Before(s, t)
      PROVE  Before(s, t)'
  BY <1>2, <1>3, <1>8, DownIs DEF Before, IsSet
<1>9. Sorted(list)'
  <2>1. \A k \in DOMAIN list : list[k] \in Transfers
    BY DEF IInv
  <2> QED
    BY <1>1, <1>8, <2>1 DEF IInv, Sorted
<1>10. ASSUME useTimer, NEW t \in Flying \ expired, IsSet(left'[t]), list[1] \notin expired
       PROVE  timer' # Off /\ timer' <= left'[t]
  <2>1. t \in Transfers /\ IsSet(left[t]) /\ left[t] \in Nat
    BY <1>3, <1>10 DEF IInv, DeadlinesOK
  <2>2. timer # Off /\ timer <= left[t] /\ timer \in Nat
    BY <1>5, <1>10, <2>1 DEF IInv, TimerCovers
  <2> QED
    BY <1>1, <1>2, <2>1, <2>2, DownIs, DeadlinesAssumption
<1>11. TimerCovers'
  BY <1>1, <1>6, <1>7, <1>10 DEF TimerCovers, IsSet
<1>12. \A t \in expired' : left'[t] = 0
  BY <1>1, <1>2, DownIs DEF IInv, DeadlinesOK
<1>13. useTimer => wait' = Off
  BY <1>1, DownIs DEF IInv
<1> QED
  BY <1>1, <1>7, <1>9, <1>11, <1>12, <1>13 DEF IInv

LEMMA InitInv == Init => IInv
<1> SUFFICES ASSUME Init PROVE IInv
  OBVIOUS
<1>1. list = <<>> /\ list \in Seq(Transfers) /\ DOMAIN list = {} /\ Flying = {}
  BY DEF Init, Flying, ToSet
<1> QED
  BY <1>1, DeadlinesAssumption DEF Init, IInv, DeadlinesOK, Sorted, TimerCovers

LEMMA NextInv == IInv /\ [Next]_vars => IInv'
<1> SUFFICES ASSUME IInv, [Next]_vars PROVE IInv'
  OBVIOUS
<1>1. CASE \E t \in Transfers : Add(t)
  BY <1>1, AddStep
<1>2. CASE \E t \in Transfers : Leave(t)
  BY <1>2, LeaveStep
<1>3. CASE Trigger
  BY <1>3, TriggerStep
<1>4. CASE Look \/ Waited \/ Woken
  BY <1>4, WaitStep
<1>5. CASE Tick
  BY <1>5, TickStep
<1>6. CASE UNCHANGED vars
  BY <1>6 DEF vars, IInv, DeadlinesOK, Sorted, Before, IsSet, TimerCovers, Flying
<1> QED
  BY <1>1, <1>2, <1>3, <1>4, <1>5, <1>6 DEF Next

-----------------------------------------------------------------------------
(* What holds in every state. *)

THEOREM Invariant == Spec => []IInv
<1>1. Init => IInv
  BY InitInv
<1>2. IInv /\ [Next]_vars => IInv'
  BY NextInv
<1> QED
  BY <1>1, <1>2, PTL DEF Spec

\* The armed timer fires no later than the first deadline that is to be
\* handled, however transfers come, go and time out, unless one before it has
\* timed out and not come back: the list stays sorted (libusb/io.c).
THEOREM TimerInTime == Spec => []TimerCovers
<1>1. IInv => TimerCovers
  BY DEF IInv
<1> QED
  BY <1>1, Invariant, PTL

\* A timeout is handled only when the deadline has passed, and the list is
\* sorted by deadline, which lets handle_timeouts_locked stop at the first
\* transfer that is not due.
THEOREM NeverEarly == Spec => [](Sorted(list) /\ \A t \in expired : left[t] = 0)
<1>1. IInv => Sorted(list) /\ \A t \in expired : left[t] = 0
  BY DEF IInv
<1> QED
  BY <1>1, Invariant, PTL
=============================================================================
