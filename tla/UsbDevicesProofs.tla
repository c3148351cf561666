-------------------------- MODULE UsbDevicesProofs --------------------------
(***************************************************************************)
(* What TLAPS proves of UsbDevices, for any tree of hubs and devices, any  *)
(* memory and any callbacks.                                               *)
(***************************************************************************)
EXTENDS UsbDevices, FiniteSetTheorems, SequenceTheorems, WellFoundedInduction, TLAPS

\* How far a session is from its root.
Tier == CHOOSE tier \in [Sessions -> 1..7] :
          \A s \in Sessions : Parent[s] # Nothing => tier[s] = tier[Parent[s]] + 1

-----------------------------------------------------------------------------
(* The inductive invariant. *)

\* What holds at which place of the application.
Starting == {"start", "opendir", "scan", "scanned", "give up"}
Leaving == {"exit", "messages", "devices", "join"}
Listing == {"lock", "poll", "copy"}
Opening == {"open", "missing", "refused"}
PlaceLock == lock = "app" <=> pc \in {"scan", "poll", "refused"}
PlaceReady ==
  /\ ready <=> users > 0
  /\ pc \in Starting => users = 0
  /\ pc \notin Starting \cup {"idle"} => users > 0
PlaceMonitor ==
  /\ pc = "start" \/ (pc = "idle" /\ users = 0) => monitor = "off" /\ usbDevs = {}
  /\ stopping => pc \in {"give up", "join"} /\ monitor # "off"
  /\ monitor = "off" => pc \in {"start", "give up", "join"} \/ (pc = "idle" /\ users = 0)
PlaceMessages ==
  /\ ~ready => messages = <<>> /\ batch = <<>> /\ handle = NoDevice
  /\ batch # <<>> => pc \in {"process", "called"}
  /\ pc = "called" => batch # <<>>
PlaceExit ==
  /\ pc \in Leaving => ~active /\ jobs = <<>> /\ handle = NoDevice
  /\ pc \in {"devices", "join"} => messages = <<>>
  /\ leftover # {} => pc = "devices"
PlaceApp ==
  /\ pc \in Opening => handle \in Devices
  /\ enumerating # Nothing => pc \in Listing
  /\ pc \in Listing /\ enumerating = Nothing => held = {}
PlaceInv ==
  PlaceLock /\ PlaceReady /\ PlaceMonitor /\ PlaceMessages /\ PlaceExit /\ PlaceApp

\* What is in memory: a device that is freed has no parent, no session, and
\* nobody was told of it; a device is behind its parent.
MemInv ==
  /\ \A d \in Devices : refs[d] > 0 => session[d] \in Sessions
  /\ \A d \in Devices : refs[d] = 0 => parent[d] = NoDevice
  /\ \A d \in Devices : parent[d] # NoDevice => session[parent[d]] = Parent[session[d]]
  /\ \A c \in Callbacks, d \in Devices : refs[d] = 0 => told[c][d] = "nothing"

\* The list.
ListInv ==
  /\ usbDevs \subseteq Alive /\ usbDevs \cap lost = {}
  /\ \A d, e \in usbDevs : session[d] = session[e] => d = e

\* The messages that have not been handled, oldest first: after the arrival of
\* a device that is listed no more comes its departure, and nothing comes
\* after that.
Pending == batch \o messages
Event(e, d) == [event |-> e, dev |-> d]
Told(d, e) == \E c \in Callbacks : told[c][d] = e
Departed(d) == Told(d, "left") \/ \E k \in DOMAIN Pending : Pending[k] = Event("left", d)
\* The calls in progress.
Stack == {jobs[k] : k \in DOMAIN jobs}
AtLeft(d) == \E j \in Stack : j.at = "left" /\ j.dev = d
MsgInv ==
  /\ \A k \in DOMAIN Pending : Pending[k].event = "arrived" =>
       \/ Pending[k].dev \in usbDevs \/ AtLeft(Pending[k].dev)
       \/ \E l \in DOMAIN Pending : l > k /\ Pending[l] = Event("left", Pending[k].dev)
  /\ \A d \in Devices : Departed(d) => d \notin usbDevs
  /\ \A k, l \in DOMAIN Pending :
       Pending[k].event = "left" /\ l > k => Pending[l].dev # Pending[k].dev
  /\ \A d \in Devices : Told(d, "left") =>
       \A k \in DOMAIN Pending : Pending[k] # Event("arrived", d)

JobOK(j) ==
  /\ j.at \in {"find", "lose"} <=> j.dev = NoDevice
  /\ j.dev # NoDevice => session[j.dev] = j.id
  /\ j.at \in {"parent", "again", "attach"} => Find(j.id) = {} /\ ~Departed(j.dev)
  /\ j.at \in {"parent", "again"} => parent[j.dev] = NoDevice
  /\ j.at \in {"parent", "again", "attach", "left"} => j.dev \notin usbDevs \cup lost
  /\ j.at \in {"notify", "detach"} => j.dev \in usbDevs
  /\ j.at = "left" => ~Departed(j.dev)
JobOrder ==
  /\ \A k \in DOMAIN jobs : k < Len(jobs) => jobs[k].at = "again"
  /\ \A k, l \in DOMAIN jobs : k < l => Tier[jobs[l].id] < Tier[jobs[k].id]
JobInv == JobOrder /\ \A j \in Stack : JobOK(j)

\* TypeOK, in parts.
MemTypes ==
  /\ refs \in [Devices -> Nat] /\ session \in [Devices -> Sessions \cup {Nothing}]
  /\ parent \in [Devices -> Devices \cup {NoDevice}] /\ attached \subseteq Devices
  /\ told \in ToldOf({"nothing", "arrived", "left"})
BusTypes == plugged \subseteq Sessions /\ uevents \in Seq(Uevents) /\ due \in Nat
LockTypes ==
  /\ monitor \in {"off", "poll", "woken", "work"} /\ lock \in {"free", "monitor", "app"}
  /\ monitor = "work" <=> lock = "monitor"
  /\ jobs # <<>> => lock # "free"
JobsTypes == jobs \in Seq(Jobs)
ListTypes ==
  /\ usbDevs \subseteq Devices /\ lost \subseteq Devices /\ leftover \subseteq Devices
  /\ messages \in Seq(Messages) /\ batch \in Seq(Messages)
FlagTypes == active \in BOOLEAN /\ ready \in BOOLEAN /\ stopping \in BOOLEAN
AppTypes ==
  /\ users \in 0..MaxUsers /\ pc \in Places /\ todo \subseteq Sessions
  /\ held \subseteq Devices /\ handle \in Devices \cup {NoDevice}
HotTypes ==
  /\ cbs \subseteq Callbacks /\ leaving \subseteq cbs /\ walk \subseteq Callbacks
  /\ calling \in Callbacks \cup {Nothing} /\ enumerating \in Callbacks \cup {Nothing}
Types ==
  MemTypes /\ BusTypes /\ LockTypes /\ JobsTypes /\ ListTypes /\ FlagTypes /\ AppTypes /\ HotTypes

IInv ==
  Types /\ PlaceInv /\ MemInv /\ RefsExact /\ ListInv /\ MsgInv /\ JobInv

-----------------------------------------------------------------------------
(* Counting. *)

\* A count is a natural number.
LEMMA NumberNat ==
  ASSUME NEW T, NEW s \in Seq(T), NEW X
  PROVE  /\ IsFiniteSet({k \in DOMAIN s : s[k] \in X})
         /\ Number(s, X) \in Nat
<1>1. IsFiniteSet(1..Len(s))
  BY FS_Interval
<1>2. {k \in DOMAIN s : s[k] \in X} \subseteq 1..Len(s)
  OBVIOUS
<1>3. IsFiniteSet({k \in DOMAIN s : s[k] \in X})
  BY <1>1, <1>2, FS_Subset
<1> QED
  BY <1>3, FS_CardinalityType DEF Number

\* There is nothing to count in nothing.
LEMMA NumberNone == \A X : Number(<<>>, X) = 0
<1>1. \A X : {k \in DOMAIN <<>> : <<>>[k] \in X} = {}
  OBVIOUS
<1> QED
  BY <1>1, FS_EmptySet DEF Number

\* What is there is counted.
LEMMA NumberSome ==
  ASSUME NEW T, NEW s \in Seq(T), NEW X, NEW k \in DOMAIN s, s[k] \in X
  PROVE  Number(s, X) >= 1
<1> DEFINE S == {i \in DOMAIN s : s[i] \in X}
<1>1. IsFiniteSet(S) /\ Number(s, X) \in Nat
  BY NumberNat
<1>2. Number(s, X) = Cardinality(S)
  BY DEF Number
<1>3. S # {}
  OBVIOUS
<1> HIDE DEF S
<1> QED
  BY <1>1, <1>2, <1>3, FS_EmptySet

\* Counting with one more at the end.
LEMMA NumberAppend ==
  ASSUME NEW T, NEW s \in Seq(T), NEW x \in T, NEW X
  PROVE  Number(Append(s, x), X) = Number(s, X) + Count(x \in X)
<1> DEFINE S == {k \in DOMAIN s : s[k] \in X}
           n == Len(s) + 1
           U == {k \in DOMAIN Append(s, x) : Append(s, x)[k] \in X}
<1>1. IsFiniteSet(S) /\ Cardinality(S) = Number(s, X) /\ Number(s, X) \in Nat
  BY NumberNat DEF Number
<1>2. Cardinality(U) = Number(Append(s, x), X)
  BY DEF Number
<1>3. U = IF x \in X THEN S \cup {n} ELSE S
  <2>1. /\ DOMAIN Append(s, x) = DOMAIN s \cup {n} /\ n \notin DOMAIN s
        /\ Append(s, x)[n] = x /\ \A k \in DOMAIN s : Append(s, x)[k] = s[k]
    OBVIOUS
  <2> QED
    BY <2>1
<1>4. n \notin S
  OBVIOUS
<1> HIDE DEF S, U, n
<1>5. CASE x \in X
  <2>1. Cardinality(S \cup {n}) = Cardinality(S) + 1
    BY <1>1, <1>4, FS_AddElement
  <2> QED
    BY <1>1, <1>2, <1>3, <1>5, <2>1 DEF Count
<1>6. CASE x \notin X
  BY <1>1, <1>2, <1>3, <1>6 DEF Count
<1> QED
  BY <1>5, <1>6

\* Counting with the first one gone.
LEMMA NumberTail ==
  ASSUME NEW T, NEW s \in Seq(T), s # <<>>, NEW X
  PROVE  Number(s, X) = Number(Tail(s), X) + Count(Head(s) \in X)
<1> DEFINE S == {k \in DOMAIN Tail(s) : Tail(s)[k] \in X}
           U == {k \in DOMAIN s : s[k] \in X}
           V == U \ {1}
           f == [k \in S |-> k + 1]
<1>1. /\ Tail(s) \in Seq(T) /\ DOMAIN s = 1..Len(s) /\ DOMAIN Tail(s) = 1..(Len(s) - 1)
      /\ Len(s) \in Nat /\ Len(s) >= 1 /\ \A k \in 1..(Len(s) - 1) : Tail(s)[k] = s[k + 1]
      /\ Head(s) = s[1]
  OBVIOUS
<1>2. IsFiniteSet(S) /\ Cardinality(S) = Number(Tail(s), X) /\ Number(Tail(s), X) \in Nat
  BY <1>1, NumberNat DEF Number
<1>3. IsFiniteSet(U) /\ Cardinality(U) = Number(s, X) /\ Number(s, X) \in Nat
  BY NumberNat DEF Number
<1>4. f \in Bijection(S, V)
  <2>1. f \in [S -> V]
    BY <1>1
  <2>2. \A a, b \in S : f[a] = f[b] => a = b
    BY <1>1
  <2>3. ASSUME NEW v \in V PROVE \E k \in S : f[k] = v
    <3>1. v - 1 \in S /\ f[v - 1] = v
      BY <1>1
    <3> QED
      BY <3>1
  <2> HIDE DEF f, S, V
  <2> QED
    BY <2>1, <2>2, <2>3, Zenon DEF Bijection, Injection, Surjection, IsInjective
<1>5. ExistsBijection(S, V)
  BY <1>4 DEF ExistsBijection
<1>6. 1 \in U <=> Head(s) \in X
  BY <1>1
<1>7. IsFiniteSet(V) /\ V = U \ {1}
  BY <1>3, FS_Subset
<1> HIDE DEF S, U, V, f
<1>8. Cardinality(V) = Cardinality(S)
  BY <1>2, <1>5, <1>7, FS_Bijection
<1>9. CASE Head(s) \in X
  <2>1. Cardinality(V) = Cardinality(U) - 1
    BY <1>3, <1>6, <1>7, <1>9, FS_RemoveElement
  <2> QED
    BY <1>2, <1>3, <1>8, <1>9, <2>1 DEF Count
<1>10. CASE Head(s) \notin X
  <2>1. V = U
    BY <1>6, <1>7, <1>10
  <2> QED
    BY <1>2, <1>3, <1>8, <1>10, <2>1 DEF Count
<1> QED
  BY <1>9, <1>10

\* A sequence is its front and its last element.
LEMMA FrontLast ==
  ASSUME NEW T, NEW s \in Seq(T), s # <<>>
  PROVE  /\ Front(s) \in Seq(T) /\ Last(s) \in T /\ Len(Front(s)) = Len(s) - 1
         /\ Len(s) \in Nat /\ Len(s) >= 1 /\ Last(s) = s[Len(s)]
         /\ \A k \in 1..(Len(s) - 1) : Front(s)[k] = s[k]
         /\ s = Append(Front(s), Last(s))
<1>1. Len(s) \in Nat /\ Len(s) >= 1
  OBVIOUS
<1>2. /\ Front(s) \in Seq(T) /\ Len(Front(s)) = Len(s) - 1
      /\ \A k \in 1..(Len(s) - 1) : Front(s)[k] = s[k]
  BY <1>1 DEF Front
<1>3. Last(s) \in T /\ Last(s) = s[Len(s)]
  BY <1>1 DEF Last
<1>4. s = Append(Front(s), Last(s))
  BY <1>1, <1>2, <1>3
<1> QED
  BY <1>1, <1>2, <1>3, <1>4

\* Sets of devices are finite.
LEMMA DevicesFinite ==
  ASSUME NEW S \in SUBSET Devices
  PROVE  IsFiniteSet(S) /\ Cardinality(S) \in Nat
<1>1. IsFiniteSet(Devices)
  BY FS_Interval, UsbDevicesAssumption DEF Devices
<1> QED
  BY <1>1, FS_Subset, FS_CardinalityType

\* NoDevice is no device.
LEMMA NotADevice == NoDevice \notin Devices /\ Devices \subseteq Nat
  BY UsbDevicesAssumption DEF Devices, NoDevice

\* Tier is what the assumption on the constants promises.
LEMMA TierIs ==
  /\ Tier \in [Sessions -> 1..7]
  /\ \A s \in Sessions : Parent[s] # Nothing => Tier[s] = Tier[Parent[s]] + 1
<1> DEFINE P(tier) == \A s \in Sessions : Parent[s] # Nothing => tier[s] = tier[Parent[s]] + 1
<1>1. \E tier \in [Sessions -> 1..7] : P(tier)
  BY UsbDevicesAssumption
<1>2. Tier = CHOOSE tier \in [Sessions -> 1..7] : P(tier)
  BY DEF Tier
<1> HIDE DEF P
<1>3. Tier \in [Sessions -> 1..7] /\ P(Tier)
  BY <1>1, <1>2, Zenon
<1> QED
  BY <1>3 DEF P

-----------------------------------------------------------------------------
(* What libusb_unref_device frees. *)

Reach(d, passing) == {e \in Devices : Reaches(d, e, passing)}

\* Reach is the least set that holds d and is closed upwards.
LEMMA ReachIs ==
  ASSUME parent \in [Devices -> Devices \cup {NoDevice}], NEW d \in Devices, NEW P
  PROVE  /\ Reach(d, P) \subseteq Devices /\ d \in Reach(d, P) /\ Closed(Reach(d, P), P)
         /\ \A S \in SUBSET Devices : d \in S /\ Closed(S, P) => Reach(d, P) \subseteq S
<1>1. Reach(d, P) \subseteq Devices /\ d \in Reach(d, P)
  BY DEF Reach, Reaches
<1>2. \A S \in SUBSET Devices : d \in S /\ Closed(S, P) => Reach(d, P) \subseteq S
  BY DEF Reach, Reaches
<1>3. ASSUME NEW e \in Reach(d, P) \cap P, parent[e] # NoDevice
      PROVE  parent[e] \in Reach(d, P)
  <2>1. parent[e] \in Devices /\ e \in Devices
    BY <1>1, <1>3
  <2>2. ASSUME NEW S \in SUBSET Devices, d \in S, Closed(S, P)
        PROVE  parent[e] \in S
    <3>1. e \in S
      BY <1>2, <1>3, <2>2
    <3> QED
      BY <1>3, <2>2, <3>1 DEF Closed
  <2> QED
    BY <2>1, <2>2 DEF Reach, Reaches
<1>4. Closed(Reach(d, P), P)
  BY <1>3 DEF Closed
<1> QED
  BY <1>1, <1>2, <1>4

\* What is reached beside d is the parent of something reached.
LEMMA ReachFrom ==
  ASSUME parent \in [Devices -> Devices \cup {NoDevice}], NEW d \in Devices, NEW P,
         NEW e \in Reach(d, P), e # d
  PROVE  \E c \in Reach(d, P) \cap P : parent[c] = e
<1> DEFINE S == Reach(d, P) \ {e}
<1>1. SUFFICES ASSUME \A c \in Reach(d, P) \cap P : parent[c] # e
               PROVE  FALSE
  OBVIOUS
<1>2. S \in SUBSET Devices /\ d \in S
  BY ReachIs
<1>3. Closed(S, P)
  <2>1. Closed(Reach(d, P), P)
    BY ReachIs
  <2> QED
    BY <1>1, <2>1 DEF Closed
<1>4. Reach(d, P) \subseteq S
  BY <1>2, <1>3, ReachIs
<1> QED
  BY <1>4

\* What is destroyed if its reference is dropped, and what d takes with it.
Single == {e \in Devices : refs[e] = 1}
Dropped(d) == Reach(d, Single)
Level(d) == Tier[session[d]]
Rooted ==
  /\ refs \in [Devices -> Nat] /\ session \in [Devices -> Sessions \cup {Nothing}]
  /\ parent \in [Devices -> Devices \cup {NoDevice}]
  /\ \A c \in Alive : parent[c] \in Alive \cup {NoDevice}

\* A parent is one level above.
LEMMA LevelIs ==
  ASSUME Rooted, MemInv, NEW c \in Alive
  PROVE  /\ Level(c) \in 1..7
         /\ parent[c] # NoDevice =>
              parent[c] \in Alive /\ Level(parent[c]) = Level(c) - 1
<1>1. session[c] \in Sessions /\ Level(c) \in 1..7
  BY TierIs DEF MemInv, Alive, Level
<1>2. ASSUME parent[c] # NoDevice
      PROVE  parent[c] \in Alive /\ Level(parent[c]) = Level(c) - 1
  <2>1. parent[c] \in Alive /\ c \in Devices
    BY <1>2 DEF Rooted, Alive
  <2>2. session[parent[c]] \in Sessions /\ session[parent[c]] = Parent[session[c]]
    BY <1>2, <2>1 DEF MemInv, Alive
  <2>3. Parent[session[c]] # Nothing
    BY <2>2, UsbDevicesAssumption
  <2>4. Tier[session[c]] = Tier[session[parent[c]]] + 1
    BY <1>1, <2>2, <2>3, TierIs
  <2>5. Tier[session[parent[c]]] \in 1..7
    BY <2>2, TierIs
  <2> QED
    BY <2>1, <2>4, <2>5 DEF Level
<1> QED
  BY <1>1, <1>2

\* What d takes with it is above it, with one device on a level.
LEMMA Lineage ==
  ASSUME Rooted, MemInv, NEW d \in Alive
  PROVE  /\ Dropped(d) \subseteq Alive
         /\ \A e \in Dropped(d) : e = d \/ Level(e) < Level(d)
         /\ \A e, f \in Dropped(d) : Level(e) = Level(f) => e = f
<1> DEFINE A == {e \in Alive : e = d \/ Level(e) < Level(d)}
           B == {e \in Dropped(d) : \A f \in Dropped(d) : Level(f) = Level(e) => f = e}
<1>1. d \in Devices /\ Alive \subseteq Devices
  BY DEF Alive
<1>2. parent \in [Devices -> Devices \cup {NoDevice}]
  BY DEF Rooted
<1>3. Closed(A, Single)
  <2>1. ASSUME NEW e \in A, parent[e] # NoDevice
        PROVE  parent[e] \in A
    <3>1. /\ Level(e) \in 1..7 /\ Level(d) \in 1..7
          /\ parent[e] \in Alive /\ Level(parent[e]) = Level(e) - 1
      BY <2>1, LevelIs
    <3> QED
      BY <2>1, <3>1
  <2> QED
    BY <2>1 DEF Closed
<1>4. Dropped(d) \subseteq A
  BY <1>1, <1>2, <1>3, ReachIs DEF Dropped
<1>5. Closed(B, Single)
  <2>1. ASSUME NEW e \in B \cap Single, parent[e] # NoDevice
        PROVE  parent[e] \in B
    <3>1. parent[e] \in Dropped(d)
      <4>1. Closed(Dropped(d), Single)
        BY <1>1, <1>2, ReachIs DEF Dropped
      <4> QED
        BY <2>1, <4>1 DEF Closed
    <3>2. e \in Alive /\ Level(e) \in 1..7 /\ Level(parent[e]) = Level(e) - 1
      BY <1>4, <2>1, LevelIs
    <3>3. Level(d) \in 1..7 /\ Level(e) <= Level(d)
      BY <1>4, <2>1, <3>2, LevelIs
    <3>4. ASSUME NEW f \in Dropped(d), Level(f) = Level(parent[e])
          PROVE  f = parent[e]
      <4>1. f # d
        BY <3>2, <3>3, <3>4
      <4>2. PICK c \in Dropped(d) \cap Single : parent[c] = f
        BY <1>1, <1>2, <4>1, ReachFrom DEF Dropped
      <4>3. f \in Devices /\ f # NoDevice
        BY <1>1, <1>4, <3>4, NotADevice
      <4>4. c \in Alive /\ Level(c) \in 1..7 /\ Level(f) = Level(c) - 1
        BY <1>4, <4>2, <4>3, LevelIs
      <4>5. Level(c) = Level(e)
        BY <3>2, <3>4, <4>4
      <4>6. c = e
        BY <2>1, <4>2, <4>5
      <4> QED
        BY <4>2, <4>6
    <3> QED
      BY <3>1, <3>4
  <2> QED
    BY <2>1 DEF Closed
<1>6. d \in B /\ B \in SUBSET Devices
  <2>1. d \in Dropped(d) /\ Dropped(d) \subseteq Devices
    BY <1>1, <1>2, ReachIs DEF Dropped
  <2>2. Level(d) \in 1..7 /\ \A f \in Dropped(d) : Level(f) \in 1..7
    BY <1>4, LevelIs
  <2> QED
    BY <1>4, <2>1, <2>2
<1>7. Dropped(d) \subseteq B
  BY <1>1, <1>2, <1>5, <1>6, ReachIs DEF Dropped
<1> QED
  BY <1>4, <1>7

\* b counts the references of a device beside its children's.
Counted(b) == \A e \in Devices : refs[e] = b[e] + Cardinality(Children(e))
Less1(b, d) == [e \in Devices |-> IF e = d THEN b[e] - 1 ELSE b[e]]

\* Whoever is counted is there, and so is the parent of whoever is there.
LEMMA CountedAlive ==
  ASSUME MemTypes, NEW b \in [Devices -> Nat], Counted(b)
  PROVE  /\ Rooted
         /\ \A e \in Devices : b[e] >= 1 => e \in Alive
         /\ \A c \in Alive : parent[c] # NoDevice => c \in Children(parent[c])
<1>1. ASSUME NEW e \in Devices
      PROVE  /\ IsFiniteSet(Children(e)) /\ Cardinality(Children(e)) \in Nat
             /\ Children(e) # {} => Cardinality(Children(e)) >= 1
  <2>1. Children(e) \subseteq Devices
    BY DEF Children, Alive
  <2>2. IsFiniteSet(Children(e)) /\ Cardinality(Children(e)) \in Nat
    BY <2>1, DevicesFinite
  <2> QED
    BY <2>2, FS_EmptySet
<1>2. \A e \in Devices : b[e] >= 1 => e \in Alive
  <2>1. ASSUME NEW e \in Devices, b[e] >= 1
        PROVE  refs[e] > 0
    <3>1. b[e] \in Nat /\ Cardinality(Children(e)) \in Nat
      BY <1>1
    <3>2. refs[e] = b[e] + Cardinality(Children(e))
      BY DEF Counted
    <3> QED
      BY <2>1, <3>1, <3>2
  <2> QED
    BY <2>1 DEF Alive
<1>3. ASSUME NEW c \in Alive, parent[c] # NoDevice
      PROVE  c \in Children(parent[c]) /\ parent[c] \in Alive
  <2>1. parent[c] \in Devices
    BY <1>3 DEF MemTypes, Alive
  <2>2. c \in Children(parent[c])
    BY <1>3 DEF Children
  <2>3. Cardinality(Children(parent[c])) \in Nat /\ Cardinality(Children(parent[c])) >= 1
    BY <1>1, <2>1, <2>2
  <2>4. b[parent[c]] \in Nat
    BY <2>1
  <2>5. refs[parent[c]] > 0
    BY <2>1, <2>3, <2>4 DEF Counted
  <2> QED
    BY <2>1, <2>2, <2>5 DEF Alive
<1>4. Rooted
  BY <1>3 DEF Rooted, MemTypes
<1> QED
  BY <1>2, <1>3, <1>4

\* Unreferencing d takes one from the references that are counted in b, and
\* whatever is freed with it is not counted by anybody any more.
LEMMA UnrefStep ==
  ASSUME MemTypes, MemInv, NEW b \in [Devices -> Nat], Counted(b),
         NEW d \in Devices, b[d] >= 1, Unref(d)
  PROVE  /\ MemTypes' /\ MemInv' /\ Counted(Less1(b, d))'
         /\ \A e \in Devices : refs'[e] <= refs[e]
         /\ \A e \in Devices : refs'[e] > 0 => session'[e] = session[e] /\ parent'[e] = parent[e]
         /\ \A c \in Callbacks, e \in Devices : told'[c][e] \in {told[c][e], "nothing"}
         /\ \A c \in Callbacks, e \in Devices : refs'[e] > 0 => told'[c][e] = told[c][e]
         /\ \A e \in Devices : refs[e] > 0 /\ refs'[e] = 0 => refs[e] = 1 /\ e \in Line(d)
<1> DEFINE D == Dropped(d)
<1>1. /\ Rooted /\ d \in Alive /\ Alive \subseteq Devices
      /\ \A c \in Alive : parent[c] # NoDevice => c \in Children(parent[c])
  BY CountedAlive DEF Alive
<1>2. /\ D \subseteq Alive /\ \A e \in D : e = d \/ Level(e) < Level(d)
      /\ \A e, f \in D : Level(e) = Level(f) => e = f
  BY <1>1, Lineage
<1>3. parent \in [Devices -> Devices \cup {NoDevice}] /\ refs \in [Devices -> Nat]
  BY DEF MemTypes
<1>4. /\ d \in D /\ \A e \in D : refs[e] = 1 /\ parent[e] # NoDevice => parent[e] \in D
      /\ \A e \in D : e # d => \E c \in D : refs[c] = 1 /\ parent[c] = e
  <2>1. d \in D /\ Closed(D, Single)
    BY <1>3, ReachIs DEF Dropped
  <2>2. ASSUME NEW e \in D, refs[e] = 1, parent[e] # NoDevice
        PROVE  parent[e] \in D
    <3>1. e \in Single
      BY <1>1, <1>2, <2>2 DEF Single
    <3> QED
      BY <2>1, <2>2, <3>1 DEF Closed
  <2>3. ASSUME NEW e \in D, e # d
        PROVE  \E c \in D : refs[c] = 1 /\ parent[c] = e
    <3>1. PICK c \in Reach(d, Single) \cap Single : parent[c] = e
      BY <1>3, <2>3, ReachFrom DEF Dropped
    <3> QED
      BY <3>1 DEF Dropped, Single
  <2> QED
    BY <2>1, <2>2, <2>3
<1>5. /\ refs' \in [Devices -> Nat]
      /\ \A e \in Devices : refs'[e] = IF e \in D THEN refs[e] - 1 ELSE refs[e]
  <2>1. refs' = [e \in Devices |-> IF e \in D THEN refs[e] - 1 ELSE refs[e]]
    <3>1. refs' = Drop(refs, d)
      BY DEF Unref
    <3>2. \A e \in Devices : Reaches(d, e, Single) <=> e \in D
      BY DEF Dropped, Reach
    <3> HIDE DEF D
    <3> QED
      BY <3>1, <3>2 DEF Drop, Single
  <2>2. \A e \in D : refs[e] \in Nat \ {0}
    BY <1>2, <1>3 DEF Alive
  <2> HIDE DEF D
  <2> QED
    BY <1>3, <2>1, <2>2
<1> HIDE DEF D
<1>6. \A e \in Devices : refs'[e] <= refs[e] /\ (refs'[e] > 0 => refs[e] > 0)
  BY <1>3, <1>5
<1>7. /\ session' = [e \in Devices |-> IF refs'[e] = 0 THEN Nothing ELSE session[e]]
      /\ parent' = [e \in Devices |-> IF refs'[e] = 0 THEN NoDevice ELSE parent[e]]
      /\ attached' = {e \in attached : refs'[e] > 0}
      /\ told' = [c \in Callbacks |->
                    [e \in Devices |-> IF refs'[e] = 0 THEN "nothing" ELSE told[c][e]]]
  BY DEF Unref, Cleared
<1>8. MemTypes'
  <2>1. session' \in [Devices -> Sessions \cup {Nothing}] /\ attached' \subseteq Devices
    BY <1>7 DEF MemTypes
  <2>2. parent' \in [Devices -> Devices \cup {NoDevice}]
    BY <1>3, <1>7
  <2>3. told' \in ToldOf({"nothing", "arrived", "left"})
    BY <1>7 DEF MemTypes, ToldOf
  <2> QED
    BY <1>5, <2>1, <2>2, <2>3 DEF MemTypes, ToldOf
<1>9. /\ \A e \in Devices : refs'[e] > 0 => session'[e] = session[e] /\ parent'[e] = parent[e]
      /\ \A c \in Callbacks, e \in Devices : told'[c][e] \in {told[c][e], "nothing"}
      /\ \A c \in Callbacks, e \in Devices : refs'[e] > 0 => told'[c][e] = told[c][e]
      /\ \A e \in Devices : refs'[e] = 0 =>
           parent'[e] = NoDevice /\ \A c \in Callbacks : told'[c][e] = "nothing"
  BY <1>5, <1>7
<1>10. \A e \in Devices : refs[e] > 0 /\ refs'[e] = 0 => refs[e] = 1 /\ e \in Line(d)
  <2>1. ASSUME NEW e \in Devices, refs[e] > 0, refs'[e] = 0
        PROVE  refs[e] = 1 /\ e \in D
    BY <1>3, <1>5, <2>1
  <2>2. D \subseteq Line(d)
    <3>1. /\ d \in Reach(d, Devices) /\ Closed(Reach(d, Devices), Devices)
          /\ Reach(d, Devices) \subseteq Devices
      BY <1>3, ReachIs
    <3>2. Closed(Reach(d, Devices), Single)
      BY <3>1 DEF Closed, Single
    <3>3. D \subseteq Reach(d, Devices)
      BY <1>3, <3>1, <3>2, ReachIs DEF D, Dropped
    <3> QED
      BY <3>3 DEF Line, Reach
  <2> QED
    BY <2>1, <2>2
<1>11. ASSUME NEW c \in Children(d), refs'[c] = 0
       PROVE  FALSE
  <2>1. c \in Alive /\ parent[c] = d /\ c \in Devices
    BY <1>1, <1>11 DEF Children
  <2>2. c \in D
    BY <1>3, <1>5, <1>11, <2>1 DEF Alive
  <2>3. Level(c) \in 1..7 /\ Level(d) \in 1..7 /\ Level(d) = Level(c) - 1
    BY <1>1, <2>1, LevelIs, NotADevice
  <2> QED
    BY <1>2, <2>2, <2>3
<1>12. ASSUME NEW e \in Devices
       PROVE  /\ Children(e)' = {c \in Children(e) : refs'[c] > 0}
              /\ IsFiniteSet(Children(e)) /\ Cardinality(Children(e)) \in Nat
              /\ IsFiniteSet(Children(e)') /\ Cardinality(Children(e)') \in Nat
  <2>1. Children(e)' = {c \in Children(e) : refs'[c] > 0}
    <3>1. e # NoDevice
      BY NotADevice
    <3> QED
      BY <1>6, <1>9 DEF Children, Alive
  <2>2. Children(e) \subseteq Devices /\ Children(e)' \subseteq Devices
    BY <1>1, <2>1 DEF Children
  <2> QED
    BY <2>1, <2>2, DevicesFinite
<1>13. ASSUME NEW e \in Devices, e \notin D \/ e = d
       PROVE  Children(e)' = Children(e)
  <2>1. ASSUME NEW c \in Children(e), refs'[c] = 0
        PROVE  FALSE
    <3>1. c \in Alive /\ parent[c] = e /\ c \in Devices
      BY <1>1, <2>1 DEF Children
    <3>2. c \in D /\ refs[c] = 1
      BY <1>3, <1>5, <2>1, <3>1 DEF Alive
    <3>3. e \in D
      BY <1>4, <3>1, <3>2, NotADevice
    <3> QED
      BY <1>11, <1>13, <2>1, <3>3
  <2>2. \A c \in Children(e) : c \in Devices
    BY <1>1 DEF Children
  <2> QED
    BY <1>5, <1>12, <2>1, <2>2
<1>14. ASSUME NEW e \in D, e # d
       PROVE  Cardinality(Children(e)') = Cardinality(Children(e)) - 1
  <2>1. e \in Devices
    BY <1>1, <1>2
  <2>2. PICK c \in D : refs[c] = 1 /\ parent[c] = e
    BY <1>4, <1>14
  <2>3. c \in Children(e) /\ refs'[c] = 0 /\ c \in Devices
    BY <1>1, <1>2, <1>3, <1>5, <2>2 DEF Children
  <2>4. ASSUME NEW f \in Children(e), refs'[f] = 0
        PROVE  f = c
    <3>1. f \in Alive /\ parent[f] = e /\ f \in Devices
      BY <1>1, <2>4 DEF Children
    <3>2. f \in D
      BY <1>3, <1>5, <2>4, <3>1 DEF Alive
    <3>3. /\ Level(f) \in 1..7 /\ Level(e) = Level(f) - 1
          /\ Level(c) \in 1..7 /\ Level(e) = Level(c) - 1
      BY <1>1, <1>2, <2>1, <2>2, <3>1, LevelIs, NotADevice
    <3> QED
      BY <1>2, <2>2, <3>2, <3>3
  <2>5. Children(e)' = Children(e) \ {c}
    <3>1. \A f \in Children(e) : f \in Devices
      BY <1>1 DEF Children
    <3> QED
      BY <1>5, <1>12, <2>1, <2>3, <2>4, <3>1
  <2>6. Cardinality(Children(e) \ {c}) = Cardinality(Children(e)) - 1
    <3>1. IsFiniteSet(Children(e))
      BY <1>12, <2>1
    <3> QED
      BY <2>3, <3>1, FS_RemoveElement
  <2> QED
    BY <2>5, <2>6
<1>15. Counted(Less1(b, d))'
  <2>1. ASSUME NEW e \in Devices
        PROVE  refs'[e] = Less1(b, d)[e] + Cardinality(Children(e)')
    <3>1. /\ refs[e] = b[e] + Cardinality(Children(e)) /\ b[e] \in Nat
          /\ Cardinality(Children(e)) \in Nat
          /\ Less1(b, d)[e] = IF e = d THEN b[e] - 1 ELSE b[e]
      BY <1>12 DEF Counted, Less1
    <3>2. CASE e \notin D
      BY <1>4, <1>5, <1>13, <3>1, <3>2
    <3>3. CASE e = d
      BY <1>4, <1>5, <1>13, <3>1, <3>3
    <3>4. CASE e \in D /\ e # d
      BY <1>5, <1>14, <3>1, <3>4
    <3> QED
      BY <3>2, <3>3, <3>4
  <2> QED
    BY <2>1 DEF Counted, Less1
<1>16. MemInv'
  <2>1. \A e \in Devices : refs'[e] > 0 => session'[e] \in Sessions
    BY <1>6, <1>9 DEF MemInv
  <2>2. ASSUME NEW e \in Devices, NEW p \in Devices, parent'[e] = p
        PROVE  session'[p] = Parent[session'[e]]
    <3>1. refs'[e] > 0 /\ parent[e] = p /\ session'[e] = session[e]
      BY <1>5, <1>9, <2>2, NotADevice
    <3>2. e \in Alive /\ session[p] = Parent[session[e]]
      BY <1>6, <2>2, <3>1, NotADevice DEF MemInv, Alive
    <3>3. refs'[p] > 0
      <4>1. e \in Children(p)'
        BY <1>1, <1>12, <2>2, <3>1, <3>2 DEF Children
      <4>2. Cardinality(Children(p)') \in Nat /\ Cardinality(Children(p)') # 0
        BY <1>12, <4>1, FS_EmptySet
      <4>3. refs'[p] = Less1(b, d)[p] + Cardinality(Children(p)')
        BY <1>15 DEF Counted, Less1
      <4>4. Less1(b, d)[p] \in Nat
        BY DEF Less1
      <4> QED
        BY <4>2, <4>3, <4>4
    <3> QED
      BY <1>9, <3>1, <3>2, <3>3
  <2>3. \A e \in Devices : refs'[e] = 0 =>
          parent'[e] = NoDevice /\ \A c \in Callbacks : told'[c][e] = "nothing"
    BY <1>9
  <2>4. \A e \in Devices : parent'[e] \in Devices \cup {NoDevice}
    BY <1>8 DEF MemTypes
  <2>5. \A e \in Devices : parent'[e] # NoDevice => session'[parent'[e]] = Parent[session'[e]]
    BY <2>2, <2>4
  <2> QED
    BY <2>1, <2>3, <2>5 DEF MemInv
<1> QED
  BY <1>6, <1>8, <1>9, <1>10, <1>15, <1>16

-----------------------------------------------------------------------------
(* Types. *)

\* The call in progress and those below it are calls; pushing is appending.
LEMMA StackTypes ==
  ASSUME jobs \in Seq(Jobs), Working
  PROVE  /\ Now \in Jobs /\ Front(jobs) \in Seq(Jobs)
         /\ \A j \in Jobs : Front(jobs) \o <<j>> = Append(Front(jobs), j)
         /\ \A i, j \in Jobs :
              Front(jobs) \o <<i, j>> = Append(Append(Front(jobs), i), j)
<1>1. jobs # <<>>
  BY DEF Working
<1>2. Front(jobs) \in Seq(Jobs) /\ Last(jobs) \in Jobs
  BY <1>1, FrontLast
<1>3. \A j \in Jobs : Front(jobs) \o <<j>> = Append(Front(jobs), j)
  BY <1>2
<1>4. \A i, j \in Jobs : Front(jobs) \o <<i, j>> = Append(Append(Front(jobs), i), j)
  BY <1>2
<1> QED
  BY <1>2, <1>3, <1>4 DEF Now

\* New calls have the types of calls.
LEMMA JobTypes ==
  /\ \A at \in {"find", "lose"}, s \in Sessions :
       /\ Job(at, s) \in Jobs /\ <<Job(at, s)>> \in Seq(Jobs)
       /\ Job(at, s).at = at /\ Job(at, s).id = s /\ Job(at, s).dev = NoDevice
  /\ \A m \in Uevents : Act(m) \in Seq(Jobs)
<1>1. \A at \in {"find", "lose"}, s \in Sessions :
       /\ Job(at, s) \in Jobs /\ <<Job(at, s)>> \in Seq(Jobs)
       /\ Job(at, s).at = at /\ Job(at, s).id = s /\ Job(at, s).dev = NoDevice
  BY DEF Job, Jobs
<1>2. ASSUME NEW m \in Uevents
      PROVE  Act(m) \in Seq(Jobs)
  <2>1. m.id \in Sessions /\ (IF m.act = "add" THEN "find" ELSE "lose") \in {"find", "lose"}
    BY DEF Uevents
  <2>2. <<Job(IF m.act = "add" THEN "find" ELSE "lose", m.id)>> \in Seq(Jobs)
    BY <1>1, <2>1
  <2> QED
    BY <2>2 DEF Act
<1> QED
  BY <1>1, <1>2

\* Types is TypeOK, in parts.
LEMMA TypeParts == TypeOK <=> Types
BY DEF TypeOK, Types, MemTypes, BusTypes, LockTypes, JobsTypes, ListTypes, FlagTypes, AppTypes,
       HotTypes, Working

-----------------------------------------------------------------------------
(* The call in progress, and those that wait for it. *)

Below == {jobs[k] : k \in 1..(Len(jobs) - 1)}

\* The call in progress and those that wait for it are as they should be; those that
\* wait are for other sessions.
LEMMA StackIs ==
  ASSUME JobsTypes, JobInv, Working
  PROVE  /\ Now \in Jobs /\ JobOK(Now) /\ Stack = Below \cup {Now} /\ Below \subseteq Stack
         /\ \A j \in Below : j \in Jobs /\ JobOK(j) /\ j.at = "again" /\ j.id # Now.id
<1>1. /\ jobs \in Seq(Jobs) /\ jobs # <<>>
      /\ \A k, l \in DOMAIN jobs : k < l => Tier[jobs[l].id] < Tier[jobs[k].id]
      /\ \A k \in DOMAIN jobs : k < Len(jobs) => jobs[k].at = "again"
  BY DEF JobsTypes, JobInv, JobOrder, Working
<1>2. Len(jobs) \in Nat /\ Len(jobs) >= 1 /\ Now = jobs[Len(jobs)] /\ DOMAIN jobs = 1..Len(jobs)
  <2>1. Len(jobs) \in Nat /\ Len(jobs) >= 1 /\ DOMAIN jobs = 1..Len(jobs)
    BY <1>1
  <2>2. Last(jobs) = jobs[Len(jobs)]
    BY <1>1, FrontLast
  <2> QED
    BY <2>1, <2>2 DEF Now
<1>3. Stack = Below \cup {Now} /\ Below \subseteq Stack
  BY <1>2 DEF Stack, Below
<1>4. Stack \subseteq Jobs
  BY <1>1 DEF Stack
<1>5. \A s \in Sessions : Tier[s] \in Nat
  BY TierIs
<1>6. ASSUME NEW j \in Below
      PROVE  j.at = "again" /\ j.id # Now.id
  <2>1. PICK k \in 1..(Len(jobs) - 1) : j = jobs[k]
    BY DEF Below
  <2>2. k \in DOMAIN jobs /\ Len(jobs) \in DOMAIN jobs /\ k < Len(jobs)
    BY <1>2, <2>1
  <2>3. Tier[Now.id] < Tier[j.id] /\ j.at = "again"
    BY <1>1, <1>2, <2>1, <2>2
  <2>4. Now.id \in Sessions
    BY <1>3, <1>4 DEF Jobs
  <2> QED
    BY <1>5, <2>3, <2>4
<1> QED
  BY <1>3, <1>4, <1>6 DEF JobInv

\* What the operations do to the calls.
LEMMA StackDone ==
  ASSUME JobsTypes, Working, Done
  PROVE  JobsTypes' /\ Stack' = Below
<1>1. jobs \in Seq(Jobs) /\ jobs # <<>>
  BY DEF JobsTypes, Working
<1>2. /\ jobs' \in Seq(Jobs) /\ Len(jobs') = Len(jobs) - 1 /\ Len(jobs) \in Nat
      /\ \A k \in 1..(Len(jobs) - 1) : jobs'[k] = jobs[k]
  BY <1>1, FrontLast DEF Done
<1> QED
  BY <1>2 DEF JobsTypes, Stack, Below

\* ... when the call in progress goes on,
LEMMA StackBecomes ==
  ASSUME JobsTypes, Working, NEW j \in Jobs, Becomes(j)
  PROVE  JobsTypes' /\ Stack' = Below \cup {j}
<1>1. jobs \in Seq(Jobs) /\ jobs # <<>>
  BY DEF JobsTypes, Working
<1>2. /\ Front(jobs) \in Seq(Jobs) /\ Len(Front(jobs)) = Len(jobs) - 1 /\ Len(jobs) \in Nat
      /\ Len(jobs) >= 1 /\ \A k \in 1..(Len(jobs) - 1) : Front(jobs)[k] = jobs[k]
  BY <1>1, FrontLast
<1>3. jobs' = Append(Front(jobs), j)
  BY <1>1, StackTypes DEF Becomes, Working
<1>4. /\ jobs' \in Seq(Jobs) /\ Len(jobs') = Len(jobs) /\ jobs'[Len(jobs)] = j
      /\ \A k \in 1..(Len(jobs) - 1) : jobs'[k] = jobs[k]
  BY <1>2, <1>3
<1> QED
  BY <1>2, <1>4 DEF JobsTypes, Stack, Below

\* ... and when it calls another.
LEMMA StackPushed ==
  ASSUME JobsTypes, Working, NEW i \in Jobs, NEW j \in Jobs, jobs' = Front(jobs) \o <<i, j>>
  PROVE  JobsTypes' /\ Stack' = Below \cup {i, j}
<1>1. jobs \in Seq(Jobs) /\ jobs # <<>>
  BY DEF JobsTypes, Working
<1>2. /\ Front(jobs) \in Seq(Jobs) /\ Len(Front(jobs)) = Len(jobs) - 1 /\ Len(jobs) \in Nat
      /\ Len(jobs) >= 1 /\ \A k \in 1..(Len(jobs) - 1) : Front(jobs)[k] = jobs[k]
  BY <1>1, FrontLast
<1>3. jobs' = Append(Append(Front(jobs), i), j)
  BY <1>1, StackTypes DEF Working
<1>4. /\ jobs' \in Seq(Jobs) /\ Len(jobs') = Len(jobs) + 1
      /\ jobs'[Len(jobs)] = i /\ jobs'[Len(jobs) + 1] = j
      /\ \A k \in 1..(Len(jobs) - 1) : jobs'[k] = jobs[k]
  <2> DEFINE f == Append(Front(jobs), i)
  <2>1. /\ f \in Seq(Jobs) /\ Len(f) = Len(jobs) /\ f[Len(jobs)] = i
        /\ \A k \in 1..(Len(jobs) - 1) : f[k] = jobs[k]
    BY <1>2
  <2>2. jobs' = Append(f, j)
    BY <1>3
  <2> HIDE DEF f
  <2>3. /\ Append(f, j) \in Seq(Jobs) /\ Len(Append(f, j)) = Len(f) + 1
        /\ Append(f, j)[Len(f) + 1] = j /\ \A k \in 1..Len(f) : Append(f, j)[k] = f[k]
    BY <2>1
  <2>4. Len(jobs) \in 1..Len(f) /\ \A k \in 1..(Len(jobs) - 1) : k \in 1..Len(f)
    BY <1>2, <2>1
  <2> QED
    BY <2>1, <2>2, <2>3, <2>4
<1>5. DOMAIN jobs' = 1..(Len(jobs) + 1)
  BY <1>2, <1>4
<1>6. 1..(Len(jobs) + 1) = 1..(Len(jobs) - 1) \cup {Len(jobs), Len(jobs) + 1}
  BY <1>2
<1>7. Stack' = {jobs'[k] : k \in 1..(Len(jobs) - 1)} \cup {i, j}
  BY <1>4, <1>5, <1>6 DEF Stack
<1>8. {jobs'[k] : k \in 1..(Len(jobs) - 1)} = Below
  BY <1>4 DEF Below
<1> QED
  BY <1>4, <1>7, <1>8 DEF JobsTypes

\* Where the call in progress is at.
LEMMA Doings == \A at : Doing(at) => Working /\ Now.at = at
BY DEF Doing, Now

Ats == {"find", "parent", "again", "attach", "notify", "lose", "detach", "left", "drop"}
\* What a call becomes.
LEMMA Moved ==
  ASSUME NEW j \in Jobs, NEW at \in Ats, NEW d \in Devices \cup {NoDevice}
  PROVE  /\ [j EXCEPT !.at = at] \in Jobs /\ [j EXCEPT !.at = at].at = at
         /\ [j EXCEPT !.at = at].id = j.id /\ [j EXCEPT !.at = at].dev = j.dev
         /\ [j EXCEPT !.at = at, !.dev = d] \in Jobs
         /\ [j EXCEPT !.at = at, !.dev = d].at = at
         /\ [j EXCEPT !.at = at, !.dev = d].id = j.id
         /\ [j EXCEPT !.at = at, !.dev = d].dev = d
BY DEF Jobs, Ats

-----------------------------------------------------------------------------
(* Who refers to a device, beside its children. *)

Holding == {"parent", "again", "attach", "detach", "left", "drop"}
MsgRefs(d) == Number(messages, LeftOf(d)) + Number(batch, LeftOf(d))
JobRefs(d) == Number(jobs, JobsOf(d, Holding)) + Number(jobs, JobsOf(d, {"left"}))
AppRefs(d) == Count(d \in held) + Count(d = handle)
Others(d) == Count(Own(d)) + MsgRefs(d) + JobRefs(d) + AppRefs(d) + Count(d \in lost)
Beside == [d \in Devices |-> Others(d)]

\* The counts are natural numbers, and RefsExact says that those of children and the
\* others add up.
LEMMA OthersIs ==
  ASSUME Types
  PROVE  /\ \A d \in Devices :
              /\ MsgRefs(d) \in Nat /\ JobRefs(d) \in Nat /\ AppRefs(d) \in Nat
              /\ Count(Own(d)) \in Nat /\ Count(d \in lost) \in Nat /\ Others(d) \in Nat
         /\ Beside \in [Devices -> Nat] /\ (RefsExact <=> Counted(Beside))
<1>1. ASSUME NEW d \in Devices
      PROVE  /\ MsgRefs(d) \in Nat /\ JobRefs(d) \in Nat /\ AppRefs(d) \in Nat
             /\ Count(Own(d)) \in Nat /\ Count(d \in lost) \in Nat /\ Others(d) \in Nat
             /\ References(d) = Others(d) + Cardinality(Children(d))
  <2>1. /\ messages \in Seq(Messages) /\ batch \in Seq(Messages) /\ jobs \in Seq(Jobs)
    BY DEF Types, ListTypes, JobsTypes
  <2>2. /\ Number(messages, LeftOf(d)) \in Nat /\ Number(batch, LeftOf(d)) \in Nat
        /\ Number(jobs, JobsOf(d, Holding)) \in Nat /\ Number(jobs, JobsOf(d, {"left"})) \in Nat
    BY <2>1, NumberNat
  <2>3. Children(d) \subseteq Devices
    BY DEF Children, Alive
  <2>4. Cardinality(Children(d)) \in Nat
    BY <2>3, DevicesFinite
  <2>5. \A b : Count(b) \in Nat
    BY DEF Count
  <2>6. MsgRefs(d) \in Nat /\ JobRefs(d) \in Nat /\ AppRefs(d) \in Nat
    BY <2>2, <2>5 DEF MsgRefs, JobRefs, AppRefs
  <2>7. Others(d) \in Nat
    BY <2>5, <2>6 DEF Others
  <2>8. References(d) = Others(d) + Cardinality(Children(d))
    BY <2>2, <2>4, <2>5 DEF References, Others, MsgRefs, JobRefs, AppRefs, Holding
  <2> QED
    BY <2>5, <2>6, <2>7, <2>8
<1>2. Beside \in [Devices -> Nat]
  BY <1>1 DEF Beside
<1>3. RefsExact <=> Counted(Beside)
  BY <1>1 DEF RefsExact, Counted, Beside
<1> QED
  BY <1>1, <1>2, <1>3

\* Whoever is counted refers to a device that is there.
Wanted == {d \in Devices : Others(d) >= 1}
\* Referring to a device counts.
LEMMA Referred ==
  ASSUME Types, RefsExact
  PROVE  /\ Wanted \subseteq Alive
         /\ \A d \in Devices : d \in held \/ d = handle \/ d \in lost \/ Own(d) => d \in Wanted
         /\ \A k \in DOMAIN messages : messages[k].event = "left" => messages[k].dev \in Wanted
         /\ \A k \in DOMAIN batch : batch[k].event = "left" => batch[k].dev \in Wanted
         /\ \A j \in Stack : j.at \in Holding /\ j.dev # NoDevice => j.dev \in Wanted
<1>1. Wanted \subseteq Alive
  BY OthersIs, CountedAlive DEF Beside, Types, Wanted
<1>2. /\ messages \in Seq(Messages) /\ batch \in Seq(Messages) /\ jobs \in Seq(Jobs)
  BY DEF Types, ListTypes, JobsTypes
<1>3. ASSUME NEW d \in Devices, d \in held \/ d = handle \/ d \in lost \/ Own(d)
      PROVE  d \in Wanted
  <2>1. AppRefs(d) >= 1 \/ Count(d \in lost) >= 1 \/ Count(Own(d)) >= 1
    BY <1>3 DEF AppRefs, Count
  <2> QED
    BY <1>3, <2>1, OthersIs DEF Others, Wanted
<1>4. ASSUME NEW q \in {messages, batch}, NEW k \in DOMAIN q, q[k].event = "left"
      PROVE  q[k].dev \in Wanted
  <2>1. q \in Seq(Messages) /\ q[k] \in Messages
    BY <1>2
  <2>2. q[k].dev \in Devices /\ q[k] \in LeftOf(q[k].dev)
    BY <1>4, <2>1 DEF Messages, LeftOf
  <2> DEFINE d == q[k].dev
  <2>3. Number(q, LeftOf(d)) >= 1
    BY <2>1, <2>2, NumberSome
  <2>4. Number(messages, LeftOf(d)) \in Nat /\ Number(batch, LeftOf(d)) \in Nat
    BY <1>2, NumberNat
  <2>5. MsgRefs(d) >= 1
    BY <2>3, <2>4 DEF MsgRefs
  <2> HIDE DEF d
  <2>6. d \in Devices
    BY <2>2 DEF d
  <2>7. d \in Wanted
    BY <2>5, <2>6, OthersIs DEF Others, Wanted
  <2> QED
    BY <2>7 DEF d
<1>5. ASSUME NEW j \in Stack, j.at \in Holding, j.dev # NoDevice
      PROVE  j.dev \in Wanted
  <2>1. PICK k \in DOMAIN jobs : jobs[k] = j
    BY <1>5 DEF Stack
  <2>2. j \in Jobs
    BY <1>2, <2>1
  <2> DEFINE d == j.dev
  <2>3. d \in Devices /\ j \in JobsOf(d, Holding)
    BY <1>5, <2>2 DEF Jobs, JobsOf
  <2>4. Number(jobs, JobsOf(d, Holding)) >= 1
    BY <1>2, <2>1, <2>3, NumberSome
  <2>5. Number(jobs, JobsOf(d, Holding)) \in Nat /\ Number(jobs, JobsOf(d, {"left"})) \in Nat
    BY <1>2, NumberNat
  <2>6. JobRefs(d) >= 1
    BY <2>4, <2>5 DEF JobRefs
  <2> HIDE DEF d
  <2>7. d \in Wanted
    BY <2>3, <2>6, OthersIs DEF Others, Wanted
  <2> QED
    BY <2>7 DEF d
<1> QED
  BY <1>1, <1>3, <1>4, <1>5

\* What is left of the memory when a reference has been dropped.
Frees ==
  /\ \A e \in Devices : refs'[e] <= refs[e]
  /\ \A e \in Devices : refs'[e] > 0 => session'[e] = session[e] /\ parent'[e] = parent[e]
  /\ \A c \in Callbacks, e \in Devices : told'[c][e] \in {told[c][e], "nothing"}
  /\ \A c \in Callbacks, e \in Devices : refs'[e] > 0 => told'[c][e] = told[c][e]

\* A reference is dropped by somebody who counted.
LEMMA Unrefs ==
  ASSUME Types, MemInv, RefsExact, NEW d \in Wanted, Unref(d)
  PROVE  /\ MemTypes' /\ MemInv' /\ Frees
         /\ \A e \in Devices : refs[e] > 0 /\ refs'[e] = 0 => refs[e] = 1 /\ e \in Line(d)
         /\ Types' /\ (\A e \in Devices : Others(e)' = IF e = d THEN Others(e) - 1 ELSE Others(e))
              => RefsExact'
<1>1. MemTypes /\ Beside \in [Devices -> Nat] /\ Counted(Beside)
  BY OthersIs DEF Types
<1>2. PICK b \in [Devices -> Nat] : b = Beside
  BY <1>1
<1>3. Counted(b) /\ d \in Devices /\ b[d] >= 1
  BY <1>1, <1>2 DEF Wanted, Beside
<1>4. /\ MemTypes' /\ MemInv' /\ Counted(Less1(b, d))' /\ Frees
      /\ \A e \in Devices : refs[e] > 0 /\ refs'[e] = 0 => refs[e] = 1 /\ e \in Line(d)
  BY <1>1, <1>3, UnrefStep DEF Frees
<1>5. ASSUME Types', \A e \in Devices : Others(e)' = IF e = d THEN Others(e) - 1 ELSE Others(e)
      PROVE  RefsExact'
  <2>1. RefsExact' <=> Counted(Beside)'
    BY <1>5, OthersIs, PTL
  <2>2. Beside' = Less1(b, d)
    BY <1>2, <1>5 DEF Beside, Less1
  <2>3. Counted(Beside)'
    <3>1. \A e \in Devices : refs'[e] = Less1(b, d)[e] + Cardinality(Children(e)')
      BY <1>4 DEF Counted, Less1
    <3> QED
      BY <2>2, <3>1 DEF Counted
  <2> QED
    BY <2>1, <2>3
<1> QED
  BY <1>4, <1>5

\* Whose reference the operations drop.
LEMMA Drops ==
  ASSUME IInv
  PROVE  /\ DropFound => Now.dev \in Wanted
         /\ held \subseteq Wanted /\ (At("devices") => leftover \subseteq Wanted)
         /\ OpenFails \/ Close => handle \in Wanted
         /\ \A m \in {messages, batch} :
              m # <<>> /\ HoldsDevice(Head(m)) => Head(m).dev \in Wanted
<1>1. Types /\ PlaceInv /\ RefsExact /\ JobInv
  BY DEF IInv
<1>2. ASSUME DropFound
      PROVE  Now.dev \in Wanted
  <2>1. Working /\ Now.at = "drop"
    BY <1>2, Doings DEF DropFound
  <2>2. Now \in Stack /\ JobOK(Now)
    BY <1>1, <2>1, StackIs DEF Types
  <2>3. Now.dev # NoDevice
    BY <2>1, <2>2 DEF JobOK
  <2> QED
    BY <1>1, <2>1, <2>2, <2>3, Referred DEF Holding
<1>3. held \subseteq Wanted
  BY <1>1, Referred DEF Types, AppTypes
<1>4. At("devices") => leftover \subseteq Wanted
  BY <1>1, Referred DEF Types, ListTypes, Own
<1>5. OpenFails \/ Close => handle \in Wanted
  BY <1>1, Referred DEF OpenFails, Close, At, PlaceInv, PlaceApp, Opening, Types, AppTypes
<1>6. ASSUME NEW m \in {messages, batch}, m # <<>>, HoldsDevice(Head(m))
      PROVE  Head(m).dev \in Wanted
  <2>1. m \in Seq(Messages)
    BY <1>1 DEF Types, ListTypes
  <2>2. 1 \in DOMAIN m /\ Head(m) = m[1]
    BY <1>6, <2>1
  <2> QED
    BY <1>1, <1>6, <2>2, Referred DEF HoldsDevice
<1> QED
  BY <1>2, <1>3, <1>4, <1>5, <1>6

-----------------------------------------------------------------------------
(* The messages that have not been handled. *)

\* Pending holds the messages of both lists, those being handled first.
LEMMA PendingIs ==
  ASSUME ListTypes
  PROVE  /\ Pending \in Seq(Messages)
         /\ \A k \in DOMAIN Pending : Pending[k] \in Messages /\ Pending[k].dev \in Devices
         /\ \A k \in DOMAIN Pending : Pending[k] \in ToSet(messages) \cup ToSet(batch)
         /\ \A m \in ToSet(messages) \cup ToSet(batch) : \E k \in DOMAIN Pending : Pending[k] = m
         /\ batch # <<>> => Pending # <<>> /\ 1 \in DOMAIN Pending /\ Pending[1] = Head(batch)
<1>1. messages \in Seq(Messages) /\ batch \in Seq(Messages)
  BY DEF ListTypes
<1>2. Pending \in Seq(Messages)
  BY <1>1 DEF Pending
<1>3. \A k \in DOMAIN Pending : Pending[k] \in Messages /\ Pending[k].dev \in Devices
  <2>1. \A m \in Messages : m.dev \in Devices
    BY DEF Messages
  <2>2. \A k \in DOMAIN Pending : Pending[k] \in Messages
    BY <1>2
  <2> QED
    BY <2>1, <2>2
<1>4. /\ DOMAIN Pending = 1..(Len(batch) + Len(messages)) /\ Len(batch) \in Nat
      /\ Len(messages) \in Nat
      /\ \A k \in 1..Len(batch) : Pending[k] = batch[k]
      /\ \A k \in 1..Len(messages) : Pending[Len(batch) + k] = messages[k]
  BY <1>1 DEF Pending
<1>5. ASSUME NEW k \in DOMAIN Pending
      PROVE  Pending[k] \in ToSet(messages) \cup ToSet(batch)
  <2>1. CASE k <= Len(batch)
    BY <1>1, <1>4, <1>5, <2>1 DEF ToSet
  <2>2. CASE k > Len(batch)
    <3>1. k - Len(batch) \in DOMAIN messages /\ Pending[k] = messages[k - Len(batch)]
      BY <1>1, <1>4, <1>5, <2>2
    <3> QED
      BY <3>1 DEF ToSet
  <2> QED
    BY <1>4, <1>5, <2>1, <2>2
<1>6. ASSUME NEW m \in ToSet(messages) \cup ToSet(batch)
      PROVE  \E k \in DOMAIN Pending : Pending[k] = m
  <2>1. CASE m \in ToSet(batch)
    <3>1. PICK k \in DOMAIN batch : batch[k] = m
      BY <2>1 DEF ToSet
    <3>2. k \in DOMAIN Pending /\ Pending[k] = m
      BY <1>1, <1>4, <3>1
    <3> QED
      BY <3>2
  <2>2. CASE m \in ToSet(messages)
    <3>1. PICK k \in DOMAIN messages : messages[k] = m
      BY <2>2 DEF ToSet
    <3>2. Len(batch) + k \in DOMAIN Pending /\ Pending[Len(batch) + k] = m
      BY <1>1, <1>4, <3>1
    <3> QED
      BY <3>2
  <2> QED
    BY <1>6, <2>1, <2>2
<1>7. batch # <<>> => Pending # <<>> /\ 1 \in DOMAIN Pending /\ Pending[1] = Head(batch)
  BY <1>1, <1>2, <1>4
<1> QED
  BY <1>2, <1>3, <1>5, <1>6, <1>7

\* A new message is the last.
LEMMA PendingAppend ==
  ASSUME ListTypes, NEW m \in Messages, messages' = Append(messages, m), batch' = batch
  PROVE  Pending' = Append(Pending, m)
BY DEF ListTypes, Pending

\* The first message goes first.
LEMMA PendingTail ==
  ASSUME ListTypes,
         \/ batch # <<>> /\ batch' = Tail(batch) /\ messages' = messages
         \/ batch = <<>> /\ batch' = <<>> /\ messages # <<>> /\ messages' = Tail(messages)
  PROVE  Pending # <<>> /\ Pending' = Tail(Pending)
<1>1. messages \in Seq(Messages) /\ batch \in Seq(Messages)
  BY DEF ListTypes
<1>2. CASE batch # <<>> /\ batch' = Tail(batch) /\ messages' = messages
  BY <1>1, <1>2 DEF Pending
<1>3. CASE batch = <<>> /\ batch' = <<>> /\ messages # <<>> /\ messages' = Tail(messages)
  BY <1>1, <1>3 DEF Pending
<1> QED
  BY <1>2, <1>3

\* Devices that are named are there.
LEMMA Named == IInv => NamedAlive
<1> SUFFICES ASSUME IInv PROVE NamedAlive
  OBVIOUS
<1>1. Types /\ RefsExact /\ MsgInv /\ ListInv
  BY DEF IInv
<1>2. usbDevs \cup held \subseteq Alive
  BY <1>1, Drops, Referred DEF ListInv
<1>3. \A k \in DOMAIN Pending : Pending[k].event = "left" => Pending[k].dev \in Alive
  <2>1. \A m \in ToSet(messages) \cup ToSet(batch) : m.event = "left" => m.dev \in Alive
    BY <1>1, Referred DEF ToSet
  <2> QED
    BY <1>1, <2>1, PendingIs DEF Types
<1>4. ASSUME NEW k \in DOMAIN Pending, Pending[k].event = "arrived"
      PROVE  Pending[k].dev \in Alive
  <2>1. CASE Pending[k].dev \in usbDevs
    BY <1>2, <2>1
  <2>2. CASE AtLeft(Pending[k].dev)
    <3>1. PICK j \in Stack : j.at = "left" /\ j.dev = Pending[k].dev
      BY <2>2 DEF AtLeft
    <3>2. j.dev # NoDevice /\ j.at \in Holding
      BY <1>1, <3>1, PendingIs, NotADevice DEF Types, Holding
    <3> QED
      BY <1>1, <3>1, <3>2, Referred
  <2>3. CASE \E l \in DOMAIN Pending : l > k /\ Pending[l] = Event("left", Pending[k].dev)
    BY <1>3, <2>3 DEF Event
  <2> QED
    BY <1>1, <1>4, <2>1, <2>2, <2>3 DEF MsgInv
<1>5. \A m \in ToSet(messages) \cup ToSet(batch) : m.dev \in Alive
  <2>1. \A k \in DOMAIN Pending : Pending[k].event \in {"arrived", "left"}
    BY <1>1, PendingIs DEF Types, Messages
  <2> QED
    BY <1>1, <1>3, <1>4, <2>1, PendingIs DEF Types
<1>6. \A d \in Alive : parent[d] \in Alive \cup {NoDevice}
  BY <1>1, OthersIs, CountedAlive DEF Rooted, Types
<1> QED
  BY <1>2, <1>5, <1>6 DEF NamedAlive

-----------------------------------------------------------------------------
(* Every step keeps the types. *)

\* The bus and the socket.
LEMMA BusStep ==
  ASSUME IInv, [Next]_vars
  PROVE  BusTypes'
<1>1. CASE \E s \in Sessions : Plug(s)
  <2>1. PICK s \in Sessions : Plug(s)
    BY <1>1
  <2>2. /\ [act |-> "add", id |-> s] \in Uevents /\ [act |-> "other", id |-> s] \in Uevents
        /\ [act |-> "remove", id |-> s] \in Uevents
    BY DEF Uevents
  <2>3. uevents' \in Seq(Uevents)
    BY <2>1, <2>2 DEF Plug, Announce, IInv, Types, BusTypes
  <2> QED
    BY <2>1, <2>3 DEF Plug, BusUnchanged, IInv, Types, BusTypes
<1>2. CASE \E s \in Sessions : Unplug(s)
  <2>1. PICK s \in Sessions : Unplug(s)
    BY <1>2
  <2>2. /\ [act |-> "add", id |-> s] \in Uevents /\ [act |-> "other", id |-> s] \in Uevents
        /\ [act |-> "remove", id |-> s] \in Uevents
    BY DEF Uevents
  <2>3. uevents' \in Seq(Uevents)
    BY <2>1, <2>2 DEF Unplug, Announce, IInv, Types, BusTypes
  <2> QED
    BY <2>1, <2>3 DEF Unplug, BusUnchanged, IInv, Types, BusTypes
<1>3. CASE Known \/ Allocate \/ HasParent \/ NoParent \/ ParentFirst \/ Attach
           \/ Arrived \/ Gone \/ Detach \/ Left \/ DropFound
  <2>1. UNCHANGED <<plugged, uevents, due>>
    BY <1>3 DEF
      Known, Allocate, HasParent, NoParent, ParentFirst, Attach, Arrived, Gone, Detach,
      Left, DropFound, WorkUnchanged, bus, memory, thread, context, hotplug, app
  <2> QED
    BY <2>1 DEF IInv, Types, BusTypes
<1>4. CASE MonitorReads
  BY <1>4 DEF
    MonitorReads, MonitorUnchanged, bus, Announce, Less, Uevents, IInv, Types, BusTypes
<1>5. CASE MonitorExits
  BY <1>5 DEF
    MonitorExits, MonitorUnchanged, bus, Announce, Less, Uevents, IInv, Types, BusTypes
<1>6. CASE MonitorWakes \/ MonitorDone
  <2>1. UNCHANGED <<plugged, uevents, due>>
    BY <1>6 DEF
      MonitorWakes, MonitorDone, MonitorUnchanged, bus, memory, thread, context,
      hotplug, app
  <2> QED
    BY <2>1 DEF IInv, Types, BusTypes
<1>7. CASE InitAgain \/ InitBegins \/ MonitorStarts \/ ScanBegins \/ ScanEntry
           \/ ScanEnds \/ InitEnds \/ ScanFails \/ GivesUp
  <2>1. UNCHANGED <<plugged, uevents, due>>
    BY <1>7 DEF
      InitAgain, InitBegins, MonitorStarts, ScanBegins, ScanEntry, ScanEnds, InitEnds,
      ScanFails, GivesUp, InitUnchanged, bus, memory, thread, context, hotplug, app
  <2> QED
    BY <2>1 DEF IInv, Types, BusTypes
<1>8. CASE PollBegins
  BY <1>8 DEF
    PollBegins, ListUnchanged, bus, Announce, Less, Uevents, IInv, Types, BusTypes
<1>9. CASE PollReads
  BY <1>9 DEF
    PollReads, ListUnchanged, bus, Announce, Less, Uevents, IInv, Types, BusTypes
<1>10. CASE CopyList
  BY <1>10 DEF
    CopyList, ListUnchanged, bus, Announce, Less, Uevents, IInv, Types, BusTypes
<1>11. CASE Enumerate
  BY <1>11 DEF
    Enumerate, ListUnchanged, bus, Announce, Less, Uevents, IInv, Types, BusTypes
<1>12. CASE ListBegins \/ PollEmpty \/ FreeList \/ Open \/ OpenNode \/ OpenMissing
            \/ OpenFails \/ Close
  <2>1. UNCHANGED <<plugged, uevents, due>>
    BY <1>12 DEF
      ListBegins, PollEmpty, FreeList, Open, OpenNode, OpenMissing, OpenFails, Close,
      ListUnchanged, bus, memory, thread, context, hotplug, app
  <2> QED
    BY <2>1 DEF IInv, Types, BusTypes
<1>13. CASE Register \/ Deregister \/ Process \/ CallbackSkipped \/ CallbackCalled
            \/ CallbackReturns \/ MessageDone \/ Processed
  <2>1. UNCHANGED <<plugged, uevents, due>>
    BY <1>13 DEF
      Register, Deregister, Process, CallbackSkipped, CallbackCalled, CallbackReturns,
      MessageDone, Processed, HotplugUnchanged, RefsUnchanged, bus, memory, thread,
      context, hotplug, app
  <2> QED
    BY <2>1 DEF IInv, Types, BusTypes
<1>14. CASE ExitNot \/ ExitBegins \/ FreeCallbacks \/ FreeMessage \/ FreeDevices
            \/ FreeDevice \/ StopMonitor \/ ExitEnds
  <2>1. UNCHANGED <<plugged, uevents, due>>
    BY <1>14 DEF
      ExitNot, ExitBegins, FreeCallbacks, FreeMessage, FreeDevices, FreeDevice,
      StopMonitor, ExitEnds, ExitUnchanged, RefsUnchanged, bus, memory, thread,
      context, hotplug, app
  <2> QED
    BY <2>1 DEF IInv, Types, BusTypes
<1>15. CASE UNCHANGED vars
  BY <1>15 DEF vars, bus, memory, thread, context, hotplug, app, IInv, IInv, Types, BusTypes
<1> QED
  BY <1>1, <1>2, <1>3, <1>4, <1>5, <1>6, <1>7, <1>8, <1>9, <1>10, <1>11, <1>12, <1>13,
     <1>14, <1>15
     DEF Next, Work, Monitor, Initialise, Use, Events, Exit

\* The lock and the monitor.
LEMMA LockStep ==
  ASSUME IInv, [Next]_vars
  PROVE  LockTypes'
<1>1. CASE \E s \in Sessions : Plug(s) \/ Unplug(s)
  <2>1. UNCHANGED <<monitor, lock, jobs>>
    BY <1>1 DEF
      Plug, Unplug, BusUnchanged, bus, memory, thread, context, hotplug, app
  <2> QED
    BY <2>1 DEF IInv, Types, LockTypes
<1>2. CASE Known
  BY <1>2 DEF
    Known, WorkUnchanged, thread, PlaceInv, PlaceLock, PlaceMonitor, At, TakeLock, Working, Doing, IInv, Types,
    LockTypes
<1>3. CASE Allocate
  BY <1>3 DEF
    Allocate, WorkUnchanged, thread, PlaceInv, PlaceLock, PlaceMonitor, At, TakeLock, Working, Doing, IInv,
    Types, LockTypes
<1>4. CASE HasParent
  BY <1>4 DEF
    HasParent, WorkUnchanged, thread, PlaceInv, PlaceLock, PlaceMonitor, At, TakeLock, Working, Doing, IInv,
    Types, LockTypes
<1>5. CASE NoParent
  BY <1>5 DEF
    NoParent, WorkUnchanged, thread, PlaceInv, PlaceLock, PlaceMonitor, At, TakeLock, Working, Doing, IInv,
    Types, LockTypes
<1>6. CASE ParentFirst
  BY <1>6 DEF
    ParentFirst, WorkUnchanged, thread, PlaceInv, PlaceLock, PlaceMonitor, At, TakeLock, Working, Doing, IInv,
    Types, LockTypes
<1>7. CASE Attach
  BY <1>7 DEF
    Attach, WorkUnchanged, thread, PlaceInv, PlaceLock, PlaceMonitor, At, TakeLock, Working, Doing, IInv, Types,
    LockTypes
<1>8. CASE Arrived
  BY <1>8 DEF
    Arrived, WorkUnchanged, thread, PlaceInv, PlaceLock, PlaceMonitor, At, TakeLock, Working, Doing, IInv,
    Types, LockTypes
<1>9. CASE Gone
  BY <1>9 DEF
    Gone, WorkUnchanged, thread, PlaceInv, PlaceLock, PlaceMonitor, At, TakeLock, Working, Doing, IInv, Types,
    LockTypes
<1>10. CASE Detach
  BY <1>10 DEF
    Detach, WorkUnchanged, thread, PlaceInv, PlaceLock, PlaceMonitor, At, TakeLock, Working, Doing, IInv, Types,
    LockTypes
<1>11. CASE Left
  BY <1>11 DEF
    Left, WorkUnchanged, thread, PlaceInv, PlaceLock, PlaceMonitor, At, TakeLock, Working, Doing, IInv, Types,
    LockTypes
<1>12. CASE DropFound
  BY <1>12 DEF
    DropFound, WorkUnchanged, thread, PlaceInv, PlaceLock, PlaceMonitor, At, TakeLock, Working, Doing, IInv,
    Types, LockTypes
<1>13. CASE MonitorWakes
  BY <1>13 DEF
    MonitorWakes, MonitorUnchanged, thread, PlaceInv, PlaceLock, PlaceMonitor, At, TakeLock, Working, Doing,
    IInv, Types, LockTypes
<1>14. CASE MonitorReads
  BY <1>14 DEF
    MonitorReads, MonitorUnchanged, thread, PlaceInv, PlaceLock, PlaceMonitor, At, TakeLock, Working, Doing,
    IInv, Types, LockTypes
<1>15. CASE MonitorDone
  BY <1>15 DEF
    MonitorDone, MonitorUnchanged, thread, PlaceInv, PlaceLock, PlaceMonitor, At, TakeLock, Working, Doing,
    IInv, Types, LockTypes
<1>16. CASE MonitorExits
  BY <1>16 DEF
    MonitorExits, MonitorUnchanged, thread, PlaceInv, PlaceLock, PlaceMonitor, At, TakeLock, Working, Doing,
    IInv, Types, LockTypes
<1>17. CASE MonitorStarts
  BY <1>17 DEF
    MonitorStarts, InitUnchanged, thread, PlaceInv, PlaceLock, PlaceMonitor, At, TakeLock, Working, Doing, IInv,
    Types, LockTypes
<1>18. CASE ScanBegins
  BY <1>18 DEF
    ScanBegins, InitUnchanged, thread, PlaceInv, PlaceLock, PlaceMonitor, At, TakeLock, Working, Doing, IInv,
    Types, LockTypes
<1>19. CASE ScanEntry
  BY <1>19 DEF
    ScanEntry, InitUnchanged, thread, PlaceInv, PlaceLock, PlaceMonitor, At, TakeLock, Working, Doing, IInv,
    Types, LockTypes
<1>20. CASE ScanEnds
  BY <1>20 DEF
    ScanEnds, InitUnchanged, thread, PlaceInv, PlaceLock, PlaceMonitor, At, TakeLock, Working, Doing, IInv,
    Types, LockTypes
<1>21. CASE ScanFails
  BY <1>21 DEF
    ScanFails, InitUnchanged, thread, PlaceInv, PlaceLock, PlaceMonitor, At, TakeLock, Working, Doing, IInv,
    Types, LockTypes
<1>22. CASE InitAgain \/ InitBegins \/ InitEnds \/ GivesUp
  <2>1. UNCHANGED <<monitor, lock, jobs>>
    BY <1>22 DEF
      InitAgain, InitBegins, InitEnds, GivesUp, InitUnchanged, bus, memory, thread,
      context, hotplug, app
  <2> QED
    BY <2>1 DEF IInv, Types, LockTypes
<1>23. CASE PollBegins
  BY <1>23 DEF
    PollBegins, ListUnchanged, thread, PlaceInv, PlaceLock, PlaceMonitor, At, TakeLock, Working, Doing, IInv,
    Types, LockTypes
<1>24. CASE PollReads
  BY <1>24 DEF
    PollReads, ListUnchanged, thread, PlaceInv, PlaceLock, PlaceMonitor, At, TakeLock, Working, Doing, IInv,
    Types, LockTypes
<1>25. CASE PollEmpty
  BY <1>25 DEF
    PollEmpty, ListUnchanged, thread, PlaceInv, PlaceLock, PlaceMonitor, At, TakeLock, Working, Doing, IInv,
    Types, LockTypes
<1>26. CASE OpenMissing
  BY <1>26 DEF
    OpenMissing, ListUnchanged, thread, PlaceInv, PlaceLock, PlaceMonitor, At, TakeLock, Working, Doing, IInv,
    Types, LockTypes
<1>27. CASE OpenFails
  BY <1>27 DEF
    OpenFails, ListUnchanged, thread, PlaceInv, PlaceLock, PlaceMonitor, At, TakeLock, Working, Doing, IInv,
    Types, LockTypes
<1>28. CASE ListBegins \/ CopyList \/ Enumerate \/ FreeList \/ Open \/ OpenNode
            \/ Close
  <2>1. UNCHANGED <<monitor, lock, jobs>>
    BY <1>28 DEF
      ListBegins, CopyList, Enumerate, FreeList, Open, OpenNode, Close, ListUnchanged,
      bus, memory, thread, context, hotplug, app
  <2> QED
    BY <2>1 DEF IInv, Types, LockTypes
<1>29. CASE Register \/ Deregister \/ Process \/ CallbackSkipped \/ CallbackCalled
            \/ CallbackReturns \/ MessageDone \/ Processed
  <2>1. UNCHANGED <<monitor, lock, jobs>>
    BY <1>29 DEF
      Register, Deregister, Process, CallbackSkipped, CallbackCalled, CallbackReturns,
      MessageDone, Processed, HotplugUnchanged, RefsUnchanged, bus, memory, thread,
      context, hotplug, app
  <2> QED
    BY <2>1 DEF IInv, Types, LockTypes
<1>30. CASE ExitNot \/ ExitBegins \/ FreeCallbacks \/ FreeMessage \/ FreeDevices
            \/ FreeDevice \/ StopMonitor \/ ExitEnds
  <2>1. UNCHANGED <<monitor, lock, jobs>>
    BY <1>30 DEF
      ExitNot, ExitBegins, FreeCallbacks, FreeMessage, FreeDevices, FreeDevice,
      StopMonitor, ExitEnds, ExitUnchanged, RefsUnchanged, bus, memory, thread,
      context, hotplug, app
  <2> QED
    BY <2>1 DEF IInv, Types, LockTypes
<1>31. CASE UNCHANGED vars
  BY <1>31 DEF vars, bus, memory, thread, context, hotplug, app, IInv, IInv, Types, LockTypes
<1> QED
  BY <1>1, <1>2, <1>3, <1>4, <1>5, <1>6, <1>7, <1>8, <1>9, <1>10, <1>11, <1>12, <1>13,
     <1>14, <1>15, <1>16, <1>17, <1>18, <1>19, <1>20, <1>21, <1>22, <1>23, <1>24, <1>25,
     <1>26, <1>27, <1>28, <1>29, <1>30, <1>31
     DEF Next, Work, Monitor, Initialise, Use, Events, Exit

\* The calls in progress.
LEMMA JobsStep ==
  ASSUME IInv, [Next]_vars
  PROVE  JobsTypes'
<1>1. CASE \E s \in Sessions : Plug(s) \/ Unplug(s)
  <2>1. UNCHANGED <<jobs>>
    BY <1>1 DEF
      Plug, Unplug, BusUnchanged, bus, memory, thread, context, hotplug, app
  <2> QED
    BY <2>1 DEF IInv, Types, JobsTypes
<1>2. CASE Known
  BY <1>2, StackDone, Doings DEF Known, IInv, Types
<1>3. CASE Allocate
  <2>1. Working /\ Now \in Jobs
    BY <1>3, StackIs, Doings DEF Allocate, IInv, Types
  <2>2. PICK d \in Devices : Becomes([Now EXCEPT !.at = "parent", !.dev = d])
    BY <1>3 DEF Allocate
  <2>3. [Now EXCEPT !.at = "parent", !.dev = d] \in Jobs
    BY <2>1, <2>2, Moved DEF Ats, Jobs
  <2> QED
    BY <1>3, <2>1, <2>2, <2>3, StackBecomes DEF Allocate, IInv, Types
<1>4. CASE HasParent
  <2>1. Working /\ Now \in Jobs
    BY <1>4, StackIs, Doings DEF HasParent, IInv, Types
  <2>2. [Now EXCEPT !.at = "attach"] \in Jobs
    BY <2>1, Moved DEF Ats, Jobs
  <2> QED
    BY <1>4, <2>1, <2>2, StackBecomes DEF HasParent, IInv, Types
<1>5. CASE NoParent
  <2>1. Working /\ Now \in Jobs
    BY <1>5, StackIs, Doings DEF NoParent, IInv, Types
  <2>2. [Now EXCEPT !.at = "attach"] \in Jobs
    BY <2>1, Moved DEF Ats, Jobs
  <2> QED
    BY <1>5, <2>1, <2>2, StackBecomes DEF NoParent, IInv, Types
<1>6. CASE ParentFirst
  <2>1. Working /\ Now \in Jobs
    BY <1>6, StackIs, Doings DEF ParentFirst, IInv, Types
  <2>2. Parent[Now.id] \in Sessions
    BY <1>6, <2>1, UsbDevicesAssumption DEF ParentFirst, Jobs
  <2>3. [Now EXCEPT !.at = "again"] \in Jobs /\ Job("find", Parent[Now.id]) \in Jobs
    BY <2>1, <2>2, Moved, JobTypes DEF Ats, Jobs
  <2> QED
    BY <1>6, <2>1, <2>3, StackPushed DEF ParentFirst, IInv, Types
<1>7. CASE Attach
  <2>1. Working /\ Now \in Jobs
    BY <1>7, StackIs, Doings DEF Attach, IInv, Types
  <2>2. [Now EXCEPT !.at = "notify"] \in Jobs
    BY <2>1, Moved DEF Ats, Jobs
  <2> QED
    BY <1>7, <2>1, <2>2, StackBecomes DEF Attach, IInv, Types
<1>8. CASE Arrived
  BY <1>8, StackDone, Doings DEF Arrived, IInv, Types
<1>9. CASE Gone
  <2>1. Working /\ Now \in Jobs
    BY <1>9, StackIs, Doings DEF Gone, IInv, Types
  <2>2. CASE Done
    BY <2>1, <2>2, StackDone DEF IInv, Types
  <2>3. CASE ~Done
    <3>1. PICK d \in Find(Now.id) : Becomes([Now EXCEPT !.at = "detach", !.dev = d])
      BY <1>9, <2>3 DEF Gone
    <3>2. d \in Devices
      BY <3>1 DEF Find, IInv, Types, ListTypes
    <3>3. [Now EXCEPT !.at = "detach", !.dev = d] \in Jobs
      BY <2>1, <3>2, Moved DEF Ats
    <3> QED
      BY <2>1, <3>1, <3>3, StackBecomes DEF IInv, Types
  <2> QED
    BY <2>2, <2>3
<1>10. CASE Detach
  <2>1. Working /\ Now \in Jobs
    BY <1>10, StackIs, Doings DEF Detach, IInv, Types
  <2>2. [Now EXCEPT !.at = "left"] \in Jobs
    BY <2>1, Moved DEF Ats, Jobs
  <2> QED
    BY <1>10, <2>1, <2>2, StackBecomes DEF Detach, IInv, Types
<1>11. CASE Left
  <2>1. Working /\ Now \in Jobs
    BY <1>11, StackIs, Doings DEF Left, IInv, Types
  <2>2. [Now EXCEPT !.at = "drop"] \in Jobs
    BY <2>1, Moved DEF Ats, Jobs
  <2> QED
    BY <1>11, <2>1, <2>2, StackBecomes DEF Left, IInv, Types
<1>12. CASE DropFound
  BY <1>12, StackDone, Doings DEF DropFound, IInv, Types
<1>13. CASE MonitorReads
  <2>1. uevents # <<>> => Head(uevents) \in Uevents
    BY DEF IInv, Types, BusTypes
  <2>2. jobs' = jobs \/ (uevents # <<>> /\ jobs' = Act(Head(uevents)))
    BY <1>13 DEF MonitorReads
  <2> QED
    BY <2>1, <2>2, JobTypes DEF IInv, Types, JobsTypes
<1>14. CASE MonitorWakes \/ MonitorDone \/ MonitorExits
  <2>1. UNCHANGED <<jobs>>
    BY <1>14 DEF
      MonitorWakes, MonitorDone, MonitorExits, MonitorUnchanged, bus, memory, thread,
      context, hotplug, app
  <2> QED
    BY <2>1 DEF IInv, Types, JobsTypes
<1>15. CASE ScanEntry
  <2>1. PICK s \in Sessions : jobs' = <<Job("find", s)>>
    BY <1>15 DEF ScanEntry, IInv, Types, AppTypes
  <2> QED
    BY <2>1, JobTypes DEF JobsTypes
<1>16. CASE InitAgain \/ InitBegins \/ MonitorStarts \/ ScanBegins \/ ScanEnds
            \/ InitEnds \/ ScanFails \/ GivesUp
  <2>1. UNCHANGED <<jobs>>
    BY <1>16 DEF
      InitAgain, InitBegins, MonitorStarts, ScanBegins, ScanEnds, InitEnds, ScanFails,
      GivesUp, InitUnchanged, bus, memory, thread, context, hotplug, app
  <2> QED
    BY <2>1 DEF IInv, Types, JobsTypes
<1>17. CASE PollReads
  <2>1. uevents # <<>> => Head(uevents) \in Uevents
    BY DEF IInv, Types, BusTypes
  <2>2. jobs' = jobs \/ (uevents # <<>> /\ jobs' = Act(Head(uevents)))
    BY <1>17 DEF PollReads
  <2> QED
    BY <2>1, <2>2, JobTypes DEF IInv, Types, JobsTypes
<1>18. CASE OpenMissing
  <2>1. jobs' = <<>> \/ (handle \in attached /\ jobs' = <<Job("lose", session[handle])>>)
    BY <1>18 DEF OpenMissing
  <2>2. handle \in attached => session[handle] \in Sessions
    <3>1. PlaceInv /\ Types /\ RefsExact /\ MemInv
      BY DEF IInv
    <3>2. handle \in Devices
      BY <1>18, <3>1 DEF OpenMissing, At, PlaceInv, PlaceApp, Opening
    <3>3. handle \in Alive
      BY <3>1, <3>2, Referred
    <3> QED
      BY <3>1, <3>2, <3>3 DEF MemInv, Alive
  <2>3. <<>> \in Seq(Jobs)
    OBVIOUS
  <2>4. CASE jobs' = <<>>
    BY <2>3, <2>4 DEF JobsTypes
  <2>5. CASE handle \in attached /\ jobs' = <<Job("lose", session[handle])>>
    BY <2>2, <2>5, JobTypes DEF JobsTypes
  <2> QED
    BY <2>1, <2>4, <2>5
<1>19. CASE ListBegins \/ PollBegins \/ PollEmpty \/ CopyList \/ Enumerate \/ FreeList
            \/ Open \/ OpenNode \/ OpenFails \/ Close
  <2>1. UNCHANGED <<jobs>>
    BY <1>19 DEF
      ListBegins, PollBegins, PollEmpty, CopyList, Enumerate, FreeList, Open, OpenNode,
      OpenFails, Close, ListUnchanged, bus, memory, thread, context, hotplug, app
  <2> QED
    BY <2>1 DEF IInv, Types, JobsTypes
<1>20. CASE Register \/ Deregister \/ Process \/ CallbackSkipped \/ CallbackCalled
            \/ CallbackReturns \/ MessageDone \/ Processed
  <2>1. UNCHANGED <<jobs>>
    BY <1>20 DEF
      Register, Deregister, Process, CallbackSkipped, CallbackCalled, CallbackReturns,
      MessageDone, Processed, HotplugUnchanged, RefsUnchanged, bus, memory, thread,
      context, hotplug, app
  <2> QED
    BY <2>1 DEF IInv, Types, JobsTypes
<1>21. CASE ExitNot \/ ExitBegins \/ FreeCallbacks \/ FreeMessage \/ FreeDevices
            \/ FreeDevice \/ StopMonitor \/ ExitEnds
  <2>1. UNCHANGED <<jobs>>
    BY <1>21 DEF
      ExitNot, ExitBegins, FreeCallbacks, FreeMessage, FreeDevices, FreeDevice,
      StopMonitor, ExitEnds, ExitUnchanged, RefsUnchanged, bus, memory, thread,
      context, hotplug, app
  <2> QED
    BY <2>1 DEF IInv, Types, JobsTypes
<1>22. CASE UNCHANGED vars
  BY <1>22 DEF vars, bus, memory, thread, context, hotplug, app, IInv, IInv, Types, JobsTypes
<1> QED
  BY <1>1, <1>2, <1>3, <1>4, <1>5, <1>6, <1>7, <1>8, <1>9, <1>10, <1>11, <1>12, <1>13,
     <1>14, <1>15, <1>16, <1>17, <1>18, <1>19, <1>20, <1>21, <1>22
     DEF Next, Work, Monitor, Initialise, Use, Events, Exit

\* The list and the messages.
LEMMA ListStep ==
  ASSUME IInv, [Next]_vars
  PROVE  ListTypes'
<1>1. CASE \E s \in Sessions : Plug(s) \/ Unplug(s)
  <2>1. UNCHANGED <<usbDevs, lost, leftover, messages, batch>>
    BY <1>1 DEF
      Plug, Unplug, BusUnchanged, bus, memory, thread, context, hotplug, app
  <2> QED
    BY <2>1 DEF IInv, Types, ListTypes
<1>2. CASE Attach
  <2>1. Now.dev \in Devices
    BY <1>2, StackIs, Doings DEF Attach, IInv, Types, JobOK, Jobs
  <2> QED
    BY <1>2, <2>1 DEF Attach, WorkUnchanged, app, IInv, Types, ListTypes
<1>3. CASE Arrived
  <2>1. Now.dev \in Devices
    BY <1>3, StackIs, Doings DEF Arrived, IInv, Types, JobOK, Jobs
  <2>2. Event("arrived", Now.dev) \in Messages
    BY <2>1 DEF Event, Messages
  <2>3. messages' \in Seq(Messages)
    BY <1>3, <2>2 DEF Arrived, Notify, Event, IInv, Types, ListTypes
  <2> QED
    BY <1>3, <2>1, <2>3 DEF Arrived, WorkUnchanged, app, IInv, Types, ListTypes
<1>4. CASE Detach
  BY <1>4 DEF
    Detach, WorkUnchanged, app, IInv, Types, ListTypes
<1>5. CASE Left
  <2>1. Now.dev \in Devices
    BY <1>5, StackIs, Doings DEF Left, IInv, Types, JobOK, Jobs
  <2>2. Event("left", Now.dev) \in Messages
    BY <2>1 DEF Event, Messages
  <2>3. messages' \in Seq(Messages)
    BY <1>5, <2>2 DEF Left, Notify, Event, IInv, Types, ListTypes
  <2> QED
    BY <1>5, <2>1, <2>3 DEF Left, WorkUnchanged, app, IInv, Types, ListTypes
<1>6. CASE Known \/ Allocate \/ HasParent \/ NoParent \/ ParentFirst \/ Gone
           \/ DropFound
  <2>1. UNCHANGED <<usbDevs, lost, leftover, messages, batch>>
    BY <1>6 DEF
      Known, Allocate, HasParent, NoParent, ParentFirst, Gone, DropFound,
      WorkUnchanged, bus, memory, thread, context, hotplug, app
  <2> QED
    BY <2>1 DEF IInv, Types, ListTypes
<1>7. CASE MonitorWakes \/ MonitorReads \/ MonitorDone \/ MonitorExits
  <2>1. UNCHANGED <<usbDevs, lost, leftover, messages, batch>>
    BY <1>7 DEF
      MonitorWakes, MonitorReads, MonitorDone, MonitorExits, MonitorUnchanged, bus,
      memory, thread, context, hotplug, app
  <2> QED
    BY <2>1 DEF IInv, Types, ListTypes
<1>8. CASE GivesUp
  BY <1>8 DEF
    GivesUp, InitUnchanged, app, IInv, Types, ListTypes
<1>9. CASE InitAgain \/ InitBegins \/ MonitorStarts \/ ScanBegins \/ ScanEntry
           \/ ScanEnds \/ InitEnds \/ ScanFails
  <2>1. UNCHANGED <<usbDevs, lost, leftover, messages, batch>>
    BY <1>9 DEF
      InitAgain, InitBegins, MonitorStarts, ScanBegins, ScanEntry, ScanEnds, InitEnds,
      ScanFails, InitUnchanged, bus, memory, thread, context, hotplug, app
  <2> QED
    BY <2>1 DEF IInv, Types, ListTypes
<1>10. CASE ListBegins \/ PollBegins \/ PollReads \/ PollEmpty \/ CopyList \/ Enumerate
            \/ FreeList \/ Open \/ OpenNode \/ OpenMissing \/ OpenFails \/ Close
  <2>1. UNCHANGED <<usbDevs, lost, leftover, messages, batch>>
    BY <1>10 DEF
      ListBegins, PollBegins, PollReads, PollEmpty, CopyList, Enumerate, FreeList,
      Open, OpenNode, OpenMissing, OpenFails, Close, ListUnchanged, bus, memory,
      thread, context, hotplug, app
  <2> QED
    BY <2>1 DEF IInv, Types, ListTypes
<1>11. CASE Process
  BY <1>11 DEF
    Process, HotplugUnchanged, app, IInv, Types, ListTypes
<1>12. CASE MessageDone
  BY <1>12 DEF
    MessageDone, HotplugUnchanged, app, IInv, Types, ListTypes
<1>13. CASE Register \/ Deregister \/ CallbackSkipped \/ CallbackCalled
            \/ CallbackReturns \/ Processed
  <2>1. UNCHANGED <<usbDevs, lost, leftover, messages, batch>>
    BY <1>13 DEF
      Register, Deregister, CallbackSkipped, CallbackCalled, CallbackReturns,
      Processed, HotplugUnchanged, RefsUnchanged, bus, memory, thread, context,
      hotplug, app
  <2> QED
    BY <2>1 DEF IInv, Types, ListTypes
<1>14. CASE FreeMessage
  BY <1>14 DEF
    FreeMessage, ExitUnchanged, app, IInv, Types, ListTypes
<1>15. CASE FreeDevices
  BY <1>15 DEF
    FreeDevices, ExitUnchanged, app, IInv, Types, ListTypes
<1>16. CASE FreeDevice
  BY <1>16 DEF
    FreeDevice, ExitUnchanged, app, IInv, Types, ListTypes
<1>17. CASE ExitEnds
  BY <1>17 DEF
    ExitEnds, ExitUnchanged, app, IInv, Types, ListTypes
<1>18. CASE ExitNot \/ ExitBegins \/ FreeCallbacks \/ StopMonitor
  <2>1. UNCHANGED <<usbDevs, lost, leftover, messages, batch>>
    BY <1>18 DEF
      ExitNot, ExitBegins, FreeCallbacks, StopMonitor, ExitUnchanged, RefsUnchanged,
      bus, memory, thread, context, hotplug, app
  <2> QED
    BY <2>1 DEF IInv, Types, ListTypes
<1>19. CASE UNCHANGED vars
  BY <1>19 DEF vars, bus, memory, thread, context, hotplug, app, IInv, IInv, Types, ListTypes
<1> QED
  BY <1>1, <1>2, <1>3, <1>4, <1>5, <1>6, <1>7, <1>8, <1>9, <1>10, <1>11, <1>12, <1>13,
     <1>14, <1>15, <1>16, <1>17, <1>18, <1>19
     DEF Next, Work, Monitor, Initialise, Use, Events, Exit

\* The flags.
LEMMA FlagStep ==
  ASSUME IInv, [Next]_vars
  PROVE  FlagTypes'
<1>1. CASE \E s \in Sessions : Plug(s) \/ Unplug(s)
  <2>1. UNCHANGED <<active, ready, stopping>>
    BY <1>1 DEF
      Plug, Unplug, BusUnchanged, bus, memory, thread, context, hotplug, app
  <2> QED
    BY <2>1 DEF IInv, Types, FlagTypes
<1>2. CASE Known \/ Allocate \/ HasParent \/ NoParent \/ ParentFirst \/ Attach
           \/ Arrived \/ Gone \/ Detach \/ Left \/ DropFound
  <2>1. UNCHANGED <<active, ready, stopping>>
    BY <1>2 DEF
      Known, Allocate, HasParent, NoParent, ParentFirst, Attach, Arrived, Gone, Detach,
      Left, DropFound, WorkUnchanged, bus, memory, thread, context, hotplug, app
  <2> QED
    BY <2>1 DEF IInv, Types, FlagTypes
<1>3. CASE MonitorExits
  BY <1>3 DEF
    MonitorExits, MonitorUnchanged, context, thread, At, IInv, Types, FlagTypes
<1>4. CASE MonitorWakes \/ MonitorReads \/ MonitorDone
  <2>1. UNCHANGED <<active, ready, stopping>>
    BY <1>4 DEF
      MonitorWakes, MonitorReads, MonitorDone, MonitorUnchanged, bus, memory, thread,
      context, hotplug, app
  <2> QED
    BY <2>1 DEF IInv, Types, FlagTypes
<1>5. CASE InitBegins
  BY <1>5 DEF
    InitBegins, InitUnchanged, context, thread, At, IInv, Types, FlagTypes
<1>6. CASE MonitorStarts
  BY <1>6 DEF
    MonitorStarts, InitUnchanged, context, thread, At, IInv, Types, FlagTypes
<1>7. CASE InitEnds
  BY <1>7 DEF
    InitEnds, InitUnchanged, context, thread, At, IInv, Types, FlagTypes
<1>8. CASE ScanFails
  BY <1>8 DEF
    ScanFails, InitUnchanged, context, thread, At, IInv, Types, FlagTypes
<1>9. CASE GivesUp
  BY <1>9 DEF
    GivesUp, InitUnchanged, context, thread, At, IInv, Types, FlagTypes
<1>10. CASE InitAgain \/ ScanBegins \/ ScanEntry \/ ScanEnds
  <2>1. UNCHANGED <<active, ready, stopping>>
    BY <1>10 DEF
      InitAgain, ScanBegins, ScanEntry, ScanEnds, InitUnchanged, bus, memory, thread,
      context, hotplug, app
  <2> QED
    BY <2>1 DEF IInv, Types, FlagTypes
<1>11. CASE ListBegins \/ PollBegins \/ PollReads \/ PollEmpty \/ CopyList \/ Enumerate
            \/ FreeList \/ Open \/ OpenNode \/ OpenMissing \/ OpenFails \/ Close
  <2>1. UNCHANGED <<active, ready, stopping>>
    BY <1>11 DEF
      ListBegins, PollBegins, PollReads, PollEmpty, CopyList, Enumerate, FreeList,
      Open, OpenNode, OpenMissing, OpenFails, Close, ListUnchanged, bus, memory,
      thread, context, hotplug, app
  <2> QED
    BY <2>1 DEF IInv, Types, FlagTypes
<1>12. CASE Register \/ Deregister \/ Process \/ CallbackSkipped \/ CallbackCalled
            \/ CallbackReturns \/ MessageDone \/ Processed
  <2>1. UNCHANGED <<active, ready, stopping>>
    BY <1>12 DEF
      Register, Deregister, Process, CallbackSkipped, CallbackCalled, CallbackReturns,
      MessageDone, Processed, HotplugUnchanged, RefsUnchanged, bus, memory, thread,
      context, hotplug, app
  <2> QED
    BY <2>1 DEF IInv, Types, FlagTypes
<1>13. CASE ExitBegins
  BY <1>13 DEF
    ExitBegins, ExitUnchanged, context, thread, At, IInv, Types, FlagTypes
<1>14. CASE StopMonitor
  BY <1>14 DEF
    StopMonitor, ExitUnchanged, context, thread, At, IInv, Types, FlagTypes
<1>15. CASE ExitEnds
  BY <1>15 DEF
    ExitEnds, ExitUnchanged, context, thread, At, IInv, Types, FlagTypes
<1>16. CASE ExitNot \/ FreeCallbacks \/ FreeMessage \/ FreeDevices \/ FreeDevice
  <2>1. UNCHANGED <<active, ready, stopping>>
    BY <1>16 DEF
      ExitNot, FreeCallbacks, FreeMessage, FreeDevices, FreeDevice, ExitUnchanged,
      RefsUnchanged, bus, memory, thread, context, hotplug, app
  <2> QED
    BY <2>1 DEF IInv, Types, FlagTypes
<1>17. CASE UNCHANGED vars
  BY <1>17 DEF vars, bus, memory, thread, context, hotplug, app, IInv, IInv, Types, FlagTypes
<1> QED
  BY <1>1, <1>2, <1>3, <1>4, <1>5, <1>6, <1>7, <1>8, <1>9, <1>10, <1>11, <1>12, <1>13,
     <1>14, <1>15, <1>16, <1>17
     DEF Next, Work, Monitor, Initialise, Use, Events, Exit

\* The application.
LEMMA AppStep ==
  ASSUME IInv, [Next]_vars
  PROVE  AppTypes'
<1>1. CASE \E s \in Sessions : Plug(s) \/ Unplug(s)
  <2>1. UNCHANGED <<users, pc, todo, held, handle>>
    BY <1>1 DEF
      Plug, Unplug, BusUnchanged, bus, memory, thread, context, hotplug, app
  <2> QED
    BY <2>1 DEF IInv, Types, AppTypes
<1>2. CASE Known \/ Allocate \/ HasParent \/ NoParent \/ ParentFirst \/ Attach
           \/ Arrived \/ Gone \/ Detach \/ Left \/ DropFound
  <2>1. UNCHANGED <<users, pc, todo, held, handle>>
    BY <1>2 DEF
      Known, Allocate, HasParent, NoParent, ParentFirst, Attach, Arrived, Gone, Detach,
      Left, DropFound, WorkUnchanged, bus, memory, thread, context, hotplug, app
  <2> QED
    BY <2>1 DEF IInv, Types, AppTypes
<1>3. CASE MonitorWakes \/ MonitorReads \/ MonitorDone \/ MonitorExits
  <2>1. UNCHANGED <<users, pc, todo, held, handle>>
    BY <1>3 DEF
      MonitorWakes, MonitorReads, MonitorDone, MonitorExits, MonitorUnchanged, bus,
      memory, thread, context, hotplug, app
  <2> QED
    BY <2>1 DEF IInv, Types, AppTypes
<1>4. CASE InitAgain
  <2>1. users' \in 0..MaxUsers
    BY <1>4, UsbDevicesAssumption DEF InitAgain, IInv, Types, AppTypes
  <2> QED
    BY <1>4, <2>1 DEF InitAgain, InitUnchanged, IInv, Types, AppTypes, Places
<1>5. CASE InitBegins
  BY <1>5 DEF
    InitBegins, InitUnchanged, context, app, At, Up, Places, IInv, Types, AppTypes
<1>6. CASE MonitorStarts
  BY <1>6 DEF
    MonitorStarts, InitUnchanged, context, app, At, Up, Places, IInv, Types, AppTypes
<1>7. CASE ScanBegins
  BY <1>7 DEF ScanBegins, InitUnchanged, context, IInv, Types, AppTypes, BusTypes, Places
<1>8. CASE ScanEntry
  BY <1>8 DEF
    ScanEntry, InitUnchanged, context, app, At, Up, Places, IInv, Types, AppTypes
<1>9. CASE ScanEnds
  BY <1>9 DEF
    ScanEnds, InitUnchanged, context, app, At, Up, Places, IInv, Types, AppTypes
<1>10. CASE InitEnds
  <2>1. users' \in 0..MaxUsers
    BY <1>10, UsbDevicesAssumption DEF InitEnds, IInv, Types, AppTypes
  <2> QED
    BY <1>10, <2>1 DEF InitEnds, InitUnchanged, IInv, Types, AppTypes, Places
<1>11. CASE ScanFails
  BY <1>11 DEF
    ScanFails, InitUnchanged, context, app, At, Up, Places, IInv, Types, AppTypes
<1>12. CASE GivesUp
  BY <1>12 DEF
    GivesUp, InitUnchanged, context, app, At, Up, Places, IInv, Types, AppTypes
<1>13. CASE ListBegins
  BY <1>13 DEF
    ListBegins, ListUnchanged, context, app, At, Up, Places, IInv, Types, AppTypes
<1>14. CASE PollBegins
  BY <1>14 DEF
    PollBegins, ListUnchanged, context, app, At, Up, Places, IInv, Types, AppTypes
<1>15. CASE PollReads
  BY <1>15 DEF
    PollReads, ListUnchanged, context, app, At, Up, Places, IInv, Types, AppTypes
<1>16. CASE PollEmpty
  BY <1>16 DEF
    PollEmpty, ListUnchanged, context, app, At, Up, Places, IInv, Types, AppTypes
<1>17. CASE CopyList
  BY <1>17 DEF CopyList, ListUnchanged, context, IInv, Types, AppTypes, ListTypes, Places
<1>18. CASE Enumerate
  BY <1>18 DEF
    Enumerate, ListUnchanged, context, app, At, Up, Places, IInv, Types, AppTypes
<1>19. CASE FreeList
  BY <1>19 DEF
    FreeList, ListUnchanged, context, app, At, Up, Places, IInv, Types, AppTypes
<1>20. CASE Open
  BY <1>20 DEF
    Open, ListUnchanged, context, app, At, Up, Places, IInv, Types, AppTypes
<1>21. CASE OpenNode
  BY <1>21 DEF
    OpenNode, ListUnchanged, context, app, At, Up, Places, IInv, Types, AppTypes
<1>22. CASE OpenMissing
  BY <1>22 DEF
    OpenMissing, ListUnchanged, context, app, At, Up, Places, IInv, Types, AppTypes
<1>23. CASE OpenFails
  BY <1>23 DEF
    OpenFails, ListUnchanged, context, app, At, Up, Places, IInv, Types, AppTypes
<1>24. CASE Close
  BY <1>24 DEF
    Close, ListUnchanged, context, app, At, Up, Places, IInv, Types, AppTypes
<1>25. CASE Register
  BY <1>25 DEF
    Register, HotplugUnchanged, context, app, At, Up, Places, IInv, Types, AppTypes
<1>26. CASE Process
  BY <1>26 DEF
    Process, HotplugUnchanged, context, app, At, Up, Places, IInv, Types, AppTypes
<1>27. CASE CallbackCalled
  BY <1>27 DEF
    CallbackCalled, HotplugUnchanged, context, app, At, Up, Places, IInv, Types,
    AppTypes
<1>28. CASE CallbackReturns
  BY <1>28 DEF
    CallbackReturns, HotplugUnchanged, context, app, At, Up, Places, IInv, Types,
    AppTypes
<1>29. CASE Processed
  BY <1>29 DEF
    Processed, HotplugUnchanged, context, app, At, Up, Places, IInv, Types, AppTypes
<1>30. CASE Deregister \/ CallbackSkipped \/ MessageDone
  <2>1. UNCHANGED <<users, pc, todo, held, handle>>
    BY <1>30 DEF
      Deregister, CallbackSkipped, MessageDone, HotplugUnchanged, RefsUnchanged, bus,
      memory, thread, context, hotplug, app
  <2> QED
    BY <2>1 DEF IInv, Types, AppTypes
<1>31. CASE ExitNot
  <2>1. users' \in 0..MaxUsers
    BY <1>31, UsbDevicesAssumption DEF ExitNot, IInv, Types, AppTypes
  <2> QED
    BY <1>31, <2>1 DEF ExitNot, ExitUnchanged, IInv, Types, AppTypes, Places
<1>32. CASE ExitBegins
  BY <1>32 DEF
    ExitBegins, ExitUnchanged, context, app, At, Up, Places, IInv, Types, AppTypes
<1>33. CASE FreeCallbacks
  BY <1>33 DEF
    FreeCallbacks, ExitUnchanged, context, app, At, Up, Places, IInv, Types, AppTypes
<1>34. CASE FreeDevices
  BY <1>34 DEF
    FreeDevices, ExitUnchanged, context, app, At, Up, Places, IInv, Types, AppTypes
<1>35. CASE StopMonitor
  BY <1>35 DEF
    StopMonitor, ExitUnchanged, context, app, At, Up, Places, IInv, Types, AppTypes
<1>36. CASE ExitEnds
  <2>1. users' \in 0..MaxUsers
    BY <1>36, UsbDevicesAssumption DEF ExitEnds, IInv, Types, AppTypes
  <2> QED
    BY <1>36, <2>1 DEF ExitEnds, ExitUnchanged, IInv, Types, AppTypes, Places
<1>37. CASE FreeMessage \/ FreeDevice
  <2>1. UNCHANGED <<users, pc, todo, held, handle>>
    BY <1>37 DEF
      FreeMessage, FreeDevice, ExitUnchanged, RefsUnchanged, bus, memory, thread,
      context, hotplug, app
  <2> QED
    BY <2>1 DEF IInv, Types, AppTypes
<1>38. CASE UNCHANGED vars
  BY <1>38 DEF vars, bus, memory, thread, context, hotplug, app, IInv, IInv, Types, AppTypes
<1> QED
  BY <1>1, <1>2, <1>3, <1>4, <1>5, <1>6, <1>7, <1>8, <1>9, <1>10, <1>11, <1>12, <1>13,
     <1>14, <1>15, <1>16, <1>17, <1>18, <1>19, <1>20, <1>21, <1>22, <1>23, <1>24, <1>25,
     <1>26, <1>27, <1>28, <1>29, <1>30, <1>31, <1>32, <1>33, <1>34, <1>35, <1>36, <1>37,
     <1>38
     DEF Next, Work, Monitor, Initialise, Use, Events, Exit

\* The callbacks.
LEMMA HotStep ==
  ASSUME IInv, [Next]_vars
  PROVE  HotTypes'
<1>1. CASE \E s \in Sessions : Plug(s) \/ Unplug(s)
  <2>1. UNCHANGED <<cbs, leaving, walk, calling, enumerating>>
    BY <1>1 DEF
      Plug, Unplug, BusUnchanged, bus, memory, thread, context, hotplug, app
  <2> QED
    BY <2>1 DEF IInv, Types, HotTypes
<1>2. CASE Known \/ Allocate \/ HasParent \/ NoParent \/ ParentFirst \/ Attach
           \/ Arrived \/ Gone \/ Detach \/ Left \/ DropFound
  <2>1. UNCHANGED <<cbs, leaving, walk, calling, enumerating>>
    BY <1>2 DEF
      Known, Allocate, HasParent, NoParent, ParentFirst, Attach, Arrived, Gone, Detach,
      Left, DropFound, WorkUnchanged, bus, memory, thread, context, hotplug, app
  <2> QED
    BY <2>1 DEF IInv, Types, HotTypes
<1>3. CASE MonitorWakes \/ MonitorReads \/ MonitorDone \/ MonitorExits
  <2>1. UNCHANGED <<cbs, leaving, walk, calling, enumerating>>
    BY <1>3 DEF
      MonitorWakes, MonitorReads, MonitorDone, MonitorExits, MonitorUnchanged, bus,
      memory, thread, context, hotplug, app
  <2> QED
    BY <2>1 DEF IInv, Types, HotTypes
<1>4. CASE InitAgain \/ InitBegins \/ MonitorStarts \/ ScanBegins \/ ScanEntry
           \/ ScanEnds \/ InitEnds \/ ScanFails \/ GivesUp
  <2>1. UNCHANGED <<cbs, leaving, walk, calling, enumerating>>
    BY <1>4 DEF
      InitAgain, InitBegins, MonitorStarts, ScanBegins, ScanEntry, ScanEnds, InitEnds,
      ScanFails, GivesUp, InitUnchanged, bus, memory, thread, context, hotplug, app
  <2> QED
    BY <2>1 DEF IInv, Types, HotTypes
<1>5. CASE Enumerate
  BY <1>5 DEF
    Enumerate, ListUnchanged, hotplug, At, IInv, Types, HotTypes
<1>6. CASE ListBegins \/ PollBegins \/ PollReads \/ PollEmpty \/ CopyList \/ FreeList
           \/ Open \/ OpenNode \/ OpenMissing \/ OpenFails \/ Close
  <2>1. UNCHANGED <<cbs, leaving, walk, calling, enumerating>>
    BY <1>6 DEF
      ListBegins, PollBegins, PollReads, PollEmpty, CopyList, FreeList, Open, OpenNode,
      OpenMissing, OpenFails, Close, ListUnchanged, bus, memory, thread, context,
      hotplug, app
  <2> QED
    BY <2>1 DEF IInv, Types, HotTypes
<1>7. CASE Register
  BY <1>7 DEF
    Register, HotplugUnchanged, hotplug, At, IInv, Types, HotTypes
<1>8. CASE Deregister
  BY <1>8 DEF
    Deregister, HotplugUnchanged, hotplug, At, IInv, Types, HotTypes
<1>9. CASE Process
  BY <1>9 DEF
    Process, HotplugUnchanged, hotplug, At, IInv, Types, HotTypes
<1>10. CASE CallbackSkipped
  BY <1>10 DEF
    CallbackSkipped, HotplugUnchanged, hotplug, At, IInv, Types, HotTypes
<1>11. CASE CallbackCalled
  BY <1>11 DEF
    CallbackCalled, HotplugUnchanged, hotplug, At, IInv, Types, HotTypes
<1>12. CASE CallbackReturns
  BY <1>12 DEF
    CallbackReturns, HotplugUnchanged, hotplug, At, IInv, Types, HotTypes
<1>13. CASE MessageDone
  BY <1>13 DEF
    MessageDone, HotplugUnchanged, hotplug, At, IInv, Types, HotTypes
<1>14. CASE Processed
  BY <1>14 DEF
    Processed, HotplugUnchanged, hotplug, At, IInv, Types, HotTypes
<1>15. CASE FreeCallbacks
  BY <1>15 DEF
    FreeCallbacks, ExitUnchanged, hotplug, At, IInv, Types, HotTypes
<1>16. CASE ExitNot \/ ExitBegins \/ FreeMessage \/ FreeDevices \/ FreeDevice
            \/ StopMonitor \/ ExitEnds
  <2>1. UNCHANGED <<cbs, leaving, walk, calling, enumerating>>
    BY <1>16 DEF
      ExitNot, ExitBegins, FreeMessage, FreeDevices, FreeDevice, StopMonitor, ExitEnds,
      ExitUnchanged, RefsUnchanged, bus, memory, thread, context, hotplug, app
  <2> QED
    BY <2>1 DEF IInv, Types, HotTypes
<1>17. CASE UNCHANGED vars
  BY <1>17 DEF vars, bus, memory, thread, context, hotplug, app, IInv, IInv, Types, HotTypes
<1> QED
  BY <1>1, <1>2, <1>3, <1>4, <1>5, <1>6, <1>7, <1>8, <1>9, <1>10, <1>11, <1>12, <1>13,
     <1>14, <1>15, <1>16, <1>17
     DEF Next, Work, Monitor, Initialise, Use, Events, Exit

\* The memory: nothing that is freed keeps a parent or a session.
LEMMA MemStep ==
  ASSUME IInv, [Next]_vars
  PROVE  MemTypes' /\ MemInv'
<1>1. CASE \E s \in Sessions : Plug(s) \/ Unplug(s)
  <2>1. UNCHANGED <<refs, session, parent, attached, told>>
    BY <1>1 DEF
      Plug, Unplug, BusUnchanged, bus, memory, thread, context, hotplug, app
  <2> QED
    BY <2>1 DEF IInv, Types, MemTypes, MemInv
<1>2. CASE Allocate
  <2>1. Types /\ MemInv /\ RefsExact
    BY DEF IInv
  <2>2. PICK d \in Devices \ Alive :
          /\ refs' = [refs EXCEPT ![d] = 1] /\ session' = [session EXCEPT ![d] = Now.id]
    BY <1>2 DEF Allocate
  <2>3. UNCHANGED <<parent, told, attached>>
    BY <1>2 DEF Allocate
  <2>4. Now.id \in Sessions
    BY <1>2, StackIs, Doings DEF Allocate, IInv, Types, Jobs
  <2>5. MemTypes'
    BY <2>1, <2>2, <2>3, <2>4 DEF Types, MemTypes, ToldOf
  <2>6. parent[d] = NoDevice /\ \A e \in Devices : parent[e] # d
    <3>1. refs[d] = 0
      BY <2>1, <2>2 DEF Types, MemTypes, Alive
    <3>2. \A e \in Alive : parent[e] \in Alive \cup {NoDevice}
      BY <2>1, OthersIs, CountedAlive DEF Rooted, Types
    <3>3. \A e \in Devices \ Alive : parent[e] = NoDevice
      BY <2>1 DEF MemInv, Types, MemTypes, Alive
    <3> QED
      BY <2>1, <2>2, <3>1, <3>2, <3>3, NotADevice DEF MemInv
  <2>7. MemInv'
    BY <2>1, <2>2, <2>3, <2>4, <2>6 DEF MemInv, Types, MemTypes
  <2> QED
    BY <2>5, <2>7
<1>3. CASE HasParent
  <2>1. Types /\ MemInv /\ RefsExact
    BY DEF IInv
  <2>2. Working /\ Now.at \in {"parent", "again"}
    BY <1>3, Doings DEF HasParent
  <2>3. /\ Now \in Stack /\ session[Now.dev] = Now.id /\ Now.dev \in Devices
        /\ parent[Now.dev] = NoDevice
    BY <2>2, StackIs DEF IInv, Types, JobOK, Jobs
  <2>4. Now.dev \in Alive
    BY <2>1, <2>2, <2>3, Referred, NotADevice DEF Holding
  <2>5. PICK p \in Find(Parent[Now.id]) : Ref(p) /\ parent' = [parent EXCEPT ![Now.dev] = p]
    BY <1>3 DEF HasParent
  <2>6. p \in Devices /\ session[p] = Parent[session[Now.dev]]
    BY <2>3, <2>5 DEF Find, IInv, Types, ListTypes
  <2>7. UNCHANGED <<session, told, attached>>
    BY <1>3 DEF HasParent
  <2>8. MemTypes'
    BY <2>1, <2>3, <2>5, <2>6, <2>7 DEF Types, MemTypes, Ref, ToldOf
  <2>9. p \in Alive
    BY <2>5, Named DEF Find, NamedAlive
  <2> DEFINE d == Now.dev
  <2> HIDE DEF d
  <2>10. /\ refs \in [Devices -> Nat] /\ refs' = [refs EXCEPT ![p] = @ + 1]
         /\ parent \in [Devices -> Devices \cup {NoDevice}] /\ parent' = [parent EXCEPT ![d] = p]
    BY <2>1, <2>5 DEF Types, MemTypes, Ref, d
  <2>11. d \in Devices /\ refs[d] > 0 /\ refs[p] > 0 /\ session[p] = Parent[session[d]]
    BY <2>3, <2>4, <2>6, <2>9 DEF Alive, d
  <2>12. MemInv'
    BY <2>1, <2>6, <2>7, <2>10, <2>11 DEF MemInv
  <2> QED
    BY <2>8, <2>12
<1>4. CASE Attach
  <2>1. Now.dev \in Devices
    BY <1>4, StackIs, Doings DEF Attach, IInv, Types, JobOK, Jobs
  <2> QED
    BY <1>4, <2>1 DEF Attach, IInv, Types, MemTypes, MemInv
<1>5. CASE Gone
  <2>1. Types /\ MemInv /\ RefsExact
    BY DEF IInv
  <2>2. UNCHANGED <<session, parent, told, attached>>
    BY <1>5 DEF Gone
  <2>3. refs' = refs \/ \E d \in Alive : Ref(d)
    BY <1>5, Named DEF Gone, Find, NamedAlive
  <2>4. MemTypes'
    BY <2>1, <2>2, <2>3 DEF Types, MemTypes, Ref, Referenced, ToldOf, Alive
  <2>5. MemInv'
    BY <2>1, <2>2, <2>3 DEF MemInv, Types, MemTypes, Ref, Referenced, Alive
  <2> QED
    BY <2>4, <2>5
<1>6. CASE Detach
  <2>1. Now.dev \in Devices
    BY <1>6, StackIs, Doings DEF Detach, IInv, Types, JobOK, Jobs
  <2> QED
    BY <1>6, <2>1 DEF Detach, IInv, Types, MemTypes, MemInv
<1>7. CASE DropFound
  BY <1>7, Drops, Unrefs DEF DropFound, IInv, Types
<1>8. CASE Known \/ NoParent \/ ParentFirst \/ Arrived \/ Left
  <2>1. UNCHANGED <<refs, session, parent, attached, told>>
    BY <1>8 DEF
      Known, NoParent, ParentFirst, Arrived, Left, WorkUnchanged, bus, memory, thread,
      context, hotplug, app
  <2> QED
    BY <2>1 DEF IInv, Types, MemTypes, MemInv
<1>9. CASE MonitorWakes \/ MonitorReads \/ MonitorDone \/ MonitorExits
  <2>1. UNCHANGED <<refs, session, parent, attached, told>>
    BY <1>9 DEF
      MonitorWakes, MonitorReads, MonitorDone, MonitorExits, MonitorUnchanged, bus,
      memory, thread, context, hotplug, app
  <2> QED
    BY <2>1 DEF IInv, Types, MemTypes, MemInv
<1>10. CASE InitAgain \/ InitBegins \/ MonitorStarts \/ ScanBegins \/ ScanEntry
            \/ ScanEnds \/ InitEnds \/ ScanFails \/ GivesUp
  <2>1. UNCHANGED <<refs, session, parent, attached, told>>
    BY <1>10 DEF
      InitAgain, InitBegins, MonitorStarts, ScanBegins, ScanEntry, ScanEnds, InitEnds,
      ScanFails, GivesUp, InitUnchanged, bus, memory, thread, context, hotplug, app
  <2> QED
    BY <2>1 DEF IInv, Types, MemTypes, MemInv
<1>11. CASE CopyList
  <2>1. Types /\ MemInv /\ RefsExact
    BY DEF IInv
  <2>2. UNCHANGED <<session, parent, told, attached>>
    BY <1>11 DEF CopyList
  <2>3. refs' = Referenced(usbDevs) /\ usbDevs \subseteq Alive
    BY <1>11, Named DEF CopyList, NamedAlive
  <2>4. MemTypes'
    BY <2>1, <2>2, <2>3 DEF Types, MemTypes, Ref, Referenced, ToldOf, Alive
  <2>5. MemInv'
    BY <2>1, <2>2, <2>3 DEF MemInv, Types, MemTypes, Ref, Referenced, Alive
  <2> QED
    BY <2>4, <2>5
<1>12. CASE Enumerate
  <2>1. Types /\ MemInv
    BY DEF IInv
  <2>2. UNCHANGED memory
    BY <1>12 DEF Enumerate, ListUnchanged, memory
  <2>3. /\ told' = [told EXCEPT ![enumerating] =
                       [d \in Devices |-> IF d \in usbDevs THEN "arrived" ELSE @[d]]]
        /\ \A d \in usbDevs : refs[d] > 0
    BY <1>12, Named DEF Enumerate, Tell, NamedAlive, Alive
  <2>4. told' \in ToldOf({"nothing", "arrived", "left"})
    BY <2>1, <2>3 DEF Types, MemTypes, ToldOf
  <2>5. \A x \in Callbacks, d \in Devices : refs[d] = 0 => told'[x][d] = "nothing"
    BY <2>1, <2>3 DEF Types, MemTypes, ToldOf, MemInv
  <2> QED
    BY <2>1, <2>2, <2>4, <2>5 DEF Types, MemTypes, MemInv, memory
<1>13. CASE FreeList
  <2>1. PICK d \in held : Unref(d)
    BY <1>13 DEF FreeList
  <2>2. d \in Wanted
    BY <1>13, <2>1, Drops DEF FreeList
  <2> QED
    BY <2>1, <2>2, Unrefs DEF IInv
<1>14. CASE Open
  <2>1. Types /\ MemInv /\ RefsExact
    BY DEF IInv
  <2>2. UNCHANGED <<session, parent, told, attached>>
    BY <1>14 DEF Open
  <2>3. \E d \in Alive : Ref(d)
    BY <1>14, Named DEF Open, NamedAlive
  <2>4. MemTypes'
    BY <2>1, <2>2, <2>3 DEF Types, MemTypes, Ref, Referenced, ToldOf, Alive
  <2>5. MemInv'
    BY <2>1, <2>2, <2>3 DEF MemInv, Types, MemTypes, Ref, Referenced, Alive
  <2> QED
    BY <2>4, <2>5
<1>15. CASE OpenFails
  BY <1>15, Drops, Unrefs DEF OpenFails, IInv, Types
<1>16. CASE Close
  BY <1>16, Drops, Unrefs DEF Close, IInv, Types
<1>17. CASE ListBegins \/ PollBegins \/ PollReads \/ PollEmpty \/ OpenNode
            \/ OpenMissing
  <2>1. UNCHANGED <<refs, session, parent, attached, told>>
    BY <1>17 DEF
      ListBegins, PollBegins, PollReads, PollEmpty, OpenNode, OpenMissing,
      ListUnchanged, bus, memory, thread, context, hotplug, app
  <2> QED
    BY <2>1 DEF IInv, Types, MemTypes, MemInv
<1>18. CASE Register
  <2>1. Types /\ MemInv
    BY DEF IInv
  <2>2. UNCHANGED memory
    BY <1>18 DEF Register, HotplugUnchanged, memory
  <2>3. PICK c \in Callbacks : told' = [told EXCEPT ![c] = [d \in Devices |-> "nothing"]]
    BY <1>18 DEF Register
  <2>4. told' \in ToldOf({"nothing", "arrived", "left"})
    BY <2>1, <2>3 DEF Types, MemTypes, ToldOf
  <2>5. \A x \in Callbacks, d \in Devices : refs[d] = 0 => told'[x][d] = "nothing"
    BY <2>1, <2>3 DEF Types, MemTypes, ToldOf, MemInv
  <2> QED
    BY <2>1, <2>2, <2>4, <2>5 DEF Types, MemTypes, MemInv, memory
<1>19. CASE CallbackCalled
  <2>1. Types /\ MemInv
    BY DEF IInv
  <2>2. UNCHANGED memory
    BY <1>19 DEF CallbackCalled, HotplugUnchanged, memory
  <2>3. PICK c \in walk : Tell(c, Head(batch).event, {Head(batch).dev})
    BY <1>19 DEF CallbackCalled
  <2>4. Head(batch) \in Messages /\ Head(batch) \in ToSet(batch)
    BY <1>19 DEF CallbackCalled, IInv, Types, ListTypes, ToSet
  <2>5. Head(batch).event \in {"arrived", "left"} /\ refs[Head(batch).dev] > 0
    BY <2>4, Named DEF Messages, NamedAlive, Alive
  <2>6. told' \in ToldOf({"nothing", "arrived", "left"})
    BY <2>1, <2>3, <2>5 DEF Tell, Types, MemTypes, ToldOf
  <2>7. \A x \in Callbacks, d \in Devices : refs[d] = 0 => told'[x][d] = "nothing"
    BY <2>1, <2>3, <2>5 DEF Tell, Types, MemTypes, ToldOf, MemInv
  <2> QED
    BY <2>1, <2>2, <2>6, <2>7 DEF Types, MemTypes, MemInv, memory
<1>20. CASE MessageDone
  <2>1. CASE HoldsDevice(Head(batch))
    BY <1>20, <2>1, Drops, Unrefs DEF MessageDone, IInv
  <2>2. CASE ~HoldsDevice(Head(batch))
    BY <1>20, <2>2 DEF MessageDone, RefsUnchanged, memory, IInv, Types, MemTypes, MemInv
  <2> QED
    BY <2>1, <2>2
<1>21. CASE Deregister \/ Process \/ CallbackSkipped \/ CallbackReturns \/ Processed
  <2>1. UNCHANGED <<refs, session, parent, attached, told>>
    BY <1>21 DEF
      Deregister, Process, CallbackSkipped, CallbackReturns, Processed,
      HotplugUnchanged, RefsUnchanged, bus, memory, thread, context, hotplug, app
  <2> QED
    BY <2>1 DEF IInv, Types, MemTypes, MemInv
<1>22. CASE FreeMessage
  <2>1. CASE HoldsDevice(Head(messages))
    BY <1>22, <2>1, Drops, Unrefs DEF FreeMessage, IInv
  <2>2. CASE ~HoldsDevice(Head(messages))
    BY <1>22, <2>2 DEF FreeMessage, RefsUnchanged, memory, IInv, Types, MemTypes, MemInv
  <2> QED
    BY <2>1, <2>2
<1>23. CASE FreeDevice
  <2>1. PICK d \in leftover : Unref(d)
    BY <1>23 DEF FreeDevice
  <2>2. d \in Wanted
    BY <1>23, <2>1, Drops DEF FreeDevice
  <2> QED
    BY <2>1, <2>2, Unrefs DEF IInv
<1>24. CASE ExitNot \/ ExitBegins \/ FreeCallbacks \/ FreeDevices \/ StopMonitor
            \/ ExitEnds
  <2>1. UNCHANGED <<refs, session, parent, attached, told>>
    BY <1>24 DEF
      ExitNot, ExitBegins, FreeCallbacks, FreeDevices, StopMonitor, ExitEnds,
      ExitUnchanged, RefsUnchanged, bus, memory, thread, context, hotplug, app
  <2> QED
    BY <2>1 DEF IInv, Types, MemTypes, MemInv
<1>25. CASE UNCHANGED vars
  BY <1>25 DEF vars, bus, memory, thread, context, hotplug, app, IInv, Types, MemTypes, MemInv
<1> QED
  BY <1>1, <1>2, <1>3, <1>4, <1>5, <1>6, <1>7, <1>8, <1>9, <1>10, <1>11, <1>12, <1>13,
     <1>14, <1>15, <1>16, <1>17, <1>18, <1>19, <1>20, <1>21, <1>22, <1>23, <1>24, <1>25
     DEF Next, Work, Monitor, Initialise, Use, Events, Exit

\* The application has the lock at three places.
LEMMA PlaceLockStep ==
  ASSUME IInv, [Next]_vars
  PROVE  PlaceLock'
<1>1. CASE \E s \in Sessions : Plug(s) \/ Unplug(s)
  <2>1. UNCHANGED <<lock, pc>>
    BY <1>1 DEF
      Plug, Unplug, BusUnchanged, bus, memory, thread, context, hotplug, app
  <2> QED
    BY <2>1 DEF IInv, PlaceInv, PlaceLock
<1>2. CASE Known \/ Allocate \/ HasParent \/ NoParent \/ ParentFirst \/ Attach
           \/ Arrived \/ Gone \/ Detach \/ Left \/ DropFound
  <2>1. UNCHANGED <<lock, pc>>
    BY <1>2 DEF
      Known, Allocate, HasParent, NoParent, ParentFirst, Attach, Arrived, Gone, Detach,
      Left, DropFound, WorkUnchanged, bus, memory, thread, context, hotplug, app
  <2> QED
    BY <2>1 DEF IInv, PlaceInv, PlaceLock
<1>3. CASE MonitorReads
  BY <1>3 DEF
    MonitorReads, MonitorUnchanged, thread, app, context, At, Up, TakeLock, IInv,
    PlaceInv, PlaceLock, PlaceReady, Types, LockTypes, Starting, Leaving, Listing,
    Opening
<1>4. CASE MonitorDone
  BY <1>4 DEF
    MonitorDone, MonitorUnchanged, thread, app, context, At, Up, TakeLock, IInv,
    PlaceInv, PlaceLock, PlaceReady, Types, LockTypes, Starting, Leaving, Listing,
    Opening
<1>5. CASE MonitorWakes \/ MonitorExits
  <2>1. UNCHANGED <<lock, pc>>
    BY <1>5 DEF
      MonitorWakes, MonitorExits, MonitorUnchanged, bus, memory, thread, context,
      hotplug, app
  <2> QED
    BY <2>1 DEF IInv, PlaceInv, PlaceLock
<1>6. CASE InitBegins
  BY <1>6 DEF
    InitBegins, InitUnchanged, thread, app, context, At, Up, TakeLock, IInv, PlaceInv,
    PlaceLock, PlaceReady, Types, LockTypes, Starting, Leaving, Listing, Opening
<1>7. CASE MonitorStarts
  BY <1>7 DEF
    MonitorStarts, InitUnchanged, thread, app, context, At, Up, TakeLock, IInv,
    PlaceInv, PlaceLock, PlaceReady, Types, LockTypes, Starting, Leaving, Listing,
    Opening
<1>8. CASE ScanBegins
  BY <1>8 DEF
    ScanBegins, InitUnchanged, thread, app, context, At, Up, TakeLock, IInv, PlaceInv,
    PlaceLock, PlaceReady, Types, LockTypes, Starting, Leaving, Listing, Opening
<1>9. CASE ScanEnds
  BY <1>9 DEF
    ScanEnds, InitUnchanged, thread, app, context, At, Up, TakeLock, IInv, PlaceInv,
    PlaceLock, PlaceReady, Types, LockTypes, Starting, Leaving, Listing, Opening
<1>10. CASE InitEnds
  BY <1>10 DEF
    InitEnds, InitUnchanged, thread, app, context, At, Up, TakeLock, IInv, PlaceInv,
    PlaceLock, PlaceReady, Types, LockTypes, Starting, Leaving, Listing, Opening
<1>11. CASE ScanFails
  BY <1>11 DEF
    ScanFails, InitUnchanged, thread, app, context, At, Up, TakeLock, IInv, PlaceInv,
    PlaceLock, PlaceReady, Types, LockTypes, Starting, Leaving, Listing, Opening
<1>12. CASE GivesUp
  BY <1>12 DEF
    GivesUp, InitUnchanged, thread, app, context, At, Up, TakeLock, IInv, PlaceInv,
    PlaceLock, PlaceReady, Types, LockTypes, Starting, Leaving, Listing, Opening
<1>13. CASE InitAgain \/ ScanEntry
  <2>1. UNCHANGED <<lock, pc>>
    BY <1>13 DEF
      InitAgain, ScanEntry, InitUnchanged, bus, memory, thread, context, hotplug, app
  <2> QED
    BY <2>1 DEF IInv, PlaceInv, PlaceLock
<1>14. CASE ListBegins
  BY <1>14 DEF
    ListBegins, ListUnchanged, thread, app, context, At, Up, TakeLock, IInv, PlaceInv,
    PlaceLock, PlaceReady, Types, LockTypes, Starting, Leaving, Listing, Opening
<1>15. CASE PollBegins
  BY <1>15 DEF
    PollBegins, ListUnchanged, thread, app, context, At, Up, TakeLock, IInv, PlaceInv,
    PlaceLock, PlaceReady, Types, LockTypes, Starting, Leaving, Listing, Opening
<1>16. CASE PollReads
  BY <1>16 DEF
    PollReads, ListUnchanged, thread, app, context, At, Up, TakeLock, IInv, PlaceInv,
    PlaceLock, PlaceReady, Types, LockTypes, Starting, Leaving, Listing, Opening
<1>17. CASE PollEmpty
  BY <1>17 DEF
    PollEmpty, ListUnchanged, thread, app, context, At, Up, TakeLock, IInv, PlaceInv,
    PlaceLock, PlaceReady, Types, LockTypes, Starting, Leaving, Listing, Opening
<1>18. CASE CopyList
  BY <1>18 DEF
    CopyList, ListUnchanged, thread, app, context, At, Up, TakeLock, IInv, PlaceInv,
    PlaceLock, PlaceReady, Types, LockTypes, Starting, Leaving, Listing, Opening
<1>19. CASE Enumerate
  BY <1>19 DEF
    Enumerate, ListUnchanged, thread, app, context, At, Up, TakeLock, IInv, PlaceInv,
    PlaceLock, PlaceReady, Types, LockTypes, Starting, Leaving, Listing, Opening
<1>20. CASE Open
  BY <1>20 DEF
    Open, ListUnchanged, thread, app, context, At, Up, TakeLock, IInv, PlaceInv,
    PlaceLock, PlaceReady, Types, LockTypes, Starting, Leaving, Listing, Opening
<1>21. CASE OpenNode
  BY <1>21 DEF
    OpenNode, ListUnchanged, thread, app, context, At, Up, TakeLock, IInv, PlaceInv,
    PlaceLock, PlaceReady, Types, LockTypes, Starting, Leaving, Listing, Opening
<1>22. CASE OpenMissing
  BY <1>22 DEF
    OpenMissing, ListUnchanged, thread, app, context, At, Up, TakeLock, IInv, PlaceInv,
    PlaceLock, PlaceReady, Types, LockTypes, Starting, Leaving, Listing, Opening
<1>23. CASE OpenFails
  BY <1>23 DEF
    OpenFails, ListUnchanged, thread, app, context, At, Up, TakeLock, IInv, PlaceInv,
    PlaceLock, PlaceReady, Types, LockTypes, Starting, Leaving, Listing, Opening
<1>24. CASE FreeList \/ Close
  <2>1. UNCHANGED <<lock, pc>>
    BY <1>24 DEF
      FreeList, Close, ListUnchanged, bus, memory, thread, context, hotplug, app
  <2> QED
    BY <2>1 DEF IInv, PlaceInv, PlaceLock
<1>25. CASE Register
  BY <1>25 DEF
    Register, HotplugUnchanged, thread, app, context, At, Up, TakeLock, IInv, PlaceInv,
    PlaceLock, PlaceReady, Types, LockTypes, Starting, Leaving, Listing, Opening
<1>26. CASE Process
  BY <1>26 DEF
    Process, HotplugUnchanged, thread, app, context, At, Up, TakeLock, IInv, PlaceInv,
    PlaceLock, PlaceReady, Types, LockTypes, Starting, Leaving, Listing, Opening
<1>27. CASE CallbackCalled
  BY <1>27 DEF
    CallbackCalled, HotplugUnchanged, thread, app, context, At, Up, TakeLock, IInv,
    PlaceInv, PlaceLock, PlaceReady, Types, LockTypes, Starting, Leaving, Listing,
    Opening
<1>28. CASE CallbackReturns
  BY <1>28 DEF
    CallbackReturns, HotplugUnchanged, thread, app, context, At, Up, TakeLock, IInv,
    PlaceInv, PlaceLock, PlaceReady, Types, LockTypes, Starting, Leaving, Listing,
    Opening
<1>29. CASE Processed
  BY <1>29 DEF
    Processed, HotplugUnchanged, thread, app, context, At, Up, TakeLock, IInv,
    PlaceInv, PlaceLock, PlaceReady, Types, LockTypes, Starting, Leaving, Listing,
    Opening
<1>30. CASE Deregister \/ CallbackSkipped \/ MessageDone
  <2>1. UNCHANGED <<lock, pc>>
    BY <1>30 DEF
      Deregister, CallbackSkipped, MessageDone, HotplugUnchanged, RefsUnchanged, bus,
      memory, thread, context, hotplug, app
  <2> QED
    BY <2>1 DEF IInv, PlaceInv, PlaceLock
<1>31. CASE ExitBegins
  BY <1>31 DEF
    ExitBegins, ExitUnchanged, thread, app, context, At, Up, TakeLock, IInv, PlaceInv,
    PlaceLock, PlaceReady, Types, LockTypes, Starting, Leaving, Listing, Opening
<1>32. CASE FreeCallbacks
  BY <1>32 DEF
    FreeCallbacks, ExitUnchanged, thread, app, context, At, Up, TakeLock, IInv,
    PlaceInv, PlaceLock, PlaceReady, Types, LockTypes, Starting, Leaving, Listing,
    Opening
<1>33. CASE FreeDevices
  BY <1>33 DEF
    FreeDevices, ExitUnchanged, thread, app, context, At, Up, TakeLock, IInv, PlaceInv,
    PlaceLock, PlaceReady, Types, LockTypes, Starting, Leaving, Listing, Opening
<1>34. CASE StopMonitor
  BY <1>34 DEF
    StopMonitor, ExitUnchanged, thread, app, context, At, Up, TakeLock, IInv, PlaceInv,
    PlaceLock, PlaceReady, Types, LockTypes, Starting, Leaving, Listing, Opening
<1>35. CASE ExitEnds
  BY <1>35 DEF
    ExitEnds, ExitUnchanged, thread, app, context, At, Up, TakeLock, IInv, PlaceInv,
    PlaceLock, PlaceReady, Types, LockTypes, Starting, Leaving, Listing, Opening
<1>36. CASE ExitNot \/ FreeMessage \/ FreeDevice
  <2>1. UNCHANGED <<lock, pc>>
    BY <1>36 DEF
      ExitNot, FreeMessage, FreeDevice, ExitUnchanged, RefsUnchanged, bus, memory,
      thread, context, hotplug, app
  <2> QED
    BY <2>1 DEF IInv, PlaceInv, PlaceLock
<1>37. CASE UNCHANGED vars
  BY <1>37 DEF vars, bus, memory, thread, context, hotplug, app, IInv, PlaceInv, PlaceLock
<1> QED
  BY <1>1, <1>2, <1>3, <1>4, <1>5, <1>6, <1>7, <1>8, <1>9, <1>10, <1>11, <1>12, <1>13,
     <1>14, <1>15, <1>16, <1>17, <1>18, <1>19, <1>20, <1>21, <1>22, <1>23, <1>24, <1>25,
     <1>26, <1>27, <1>28, <1>29, <1>30, <1>31, <1>32, <1>33, <1>34, <1>35, <1>36, <1>37
     DEF Next, Work, Monitor, Initialise, Use, Events, Exit

\* The context is ready while it has users.
LEMMA PlaceReadyStep ==
  ASSUME IInv, [Next]_vars
  PROVE  PlaceReady'
<1>1. CASE \E s \in Sessions : Plug(s) \/ Unplug(s)
  <2>1. UNCHANGED <<ready, users, pc>>
    BY <1>1 DEF
      Plug, Unplug, BusUnchanged, bus, memory, thread, context, hotplug, app
  <2> QED
    BY <2>1 DEF IInv, PlaceInv, PlaceReady
<1>2. CASE Known \/ Allocate \/ HasParent \/ NoParent \/ ParentFirst \/ Attach
           \/ Arrived \/ Gone \/ Detach \/ Left \/ DropFound
  <2>1. UNCHANGED <<ready, users, pc>>
    BY <1>2 DEF
      Known, Allocate, HasParent, NoParent, ParentFirst, Attach, Arrived, Gone, Detach,
      Left, DropFound, WorkUnchanged, bus, memory, thread, context, hotplug, app
  <2> QED
    BY <2>1 DEF IInv, PlaceInv, PlaceReady
<1>3. CASE MonitorWakes \/ MonitorReads \/ MonitorDone \/ MonitorExits
  <2>1. UNCHANGED <<ready, users, pc>>
    BY <1>3 DEF
      MonitorWakes, MonitorReads, MonitorDone, MonitorExits, MonitorUnchanged, bus,
      memory, thread, context, hotplug, app
  <2> QED
    BY <2>1 DEF IInv, PlaceInv, PlaceReady
<1>4. CASE InitAgain
  BY <1>4 DEF
    InitAgain, InitUnchanged, app, context, At, Up, IInv, PlaceInv, PlaceReady, Types,
    AppTypes, FlagTypes, Starting, Leaving, Listing, Opening
<1>5. CASE InitBegins
  BY <1>5 DEF
    InitBegins, InitUnchanged, app, context, At, Up, IInv, PlaceInv, PlaceReady, Types,
    AppTypes, FlagTypes, Starting, Leaving, Listing, Opening
<1>6. CASE MonitorStarts
  BY <1>6 DEF
    MonitorStarts, InitUnchanged, app, context, At, Up, IInv, PlaceInv, PlaceReady,
    Types, AppTypes, FlagTypes, Starting, Leaving, Listing, Opening
<1>7. CASE ScanBegins
  BY <1>7 DEF
    ScanBegins, InitUnchanged, app, context, At, Up, IInv, PlaceInv, PlaceReady, Types,
    AppTypes, FlagTypes, Starting, Leaving, Listing, Opening
<1>8. CASE ScanEnds
  BY <1>8 DEF
    ScanEnds, InitUnchanged, app, context, At, Up, IInv, PlaceInv, PlaceReady, Types,
    AppTypes, FlagTypes, Starting, Leaving, Listing, Opening
<1>9. CASE InitEnds
  BY <1>9 DEF
    InitEnds, InitUnchanged, app, context, At, Up, IInv, PlaceInv, PlaceReady, Types,
    AppTypes, FlagTypes, Starting, Leaving, Listing, Opening
<1>10. CASE ScanFails
  BY <1>10 DEF
    ScanFails, InitUnchanged, app, context, At, Up, IInv, PlaceInv, PlaceReady, Types,
    AppTypes, FlagTypes, Starting, Leaving, Listing, Opening
<1>11. CASE GivesUp
  BY <1>11 DEF
    GivesUp, InitUnchanged, app, context, At, Up, IInv, PlaceInv, PlaceReady, Types,
    AppTypes, FlagTypes, Starting, Leaving, Listing, Opening
<1>12. CASE ScanEntry
  <2>1. UNCHANGED <<ready, users, pc>>
    BY <1>12 DEF
      ScanEntry, InitUnchanged, bus, memory, thread, context, hotplug, app
  <2> QED
    BY <2>1 DEF IInv, PlaceInv, PlaceReady
<1>13. CASE ListBegins
  BY <1>13 DEF
    ListBegins, ListUnchanged, app, context, At, Up, IInv, PlaceInv, PlaceReady, Types,
    AppTypes, FlagTypes, Starting, Leaving, Listing, Opening
<1>14. CASE PollBegins
  BY <1>14 DEF
    PollBegins, ListUnchanged, app, context, At, Up, IInv, PlaceInv, PlaceReady, Types,
    AppTypes, FlagTypes, Starting, Leaving, Listing, Opening
<1>15. CASE PollReads
  BY <1>15 DEF
    PollReads, ListUnchanged, app, context, At, Up, IInv, PlaceInv, PlaceReady, Types,
    AppTypes, FlagTypes, Starting, Leaving, Listing, Opening
<1>16. CASE PollEmpty
  BY <1>16 DEF
    PollEmpty, ListUnchanged, app, context, At, Up, IInv, PlaceInv, PlaceReady, Types,
    AppTypes, FlagTypes, Starting, Leaving, Listing, Opening
<1>17. CASE CopyList
  BY <1>17 DEF
    CopyList, ListUnchanged, app, context, At, Up, IInv, PlaceInv, PlaceReady, Types,
    AppTypes, FlagTypes, Starting, Leaving, Listing, Opening
<1>18. CASE Enumerate
  BY <1>18 DEF
    Enumerate, ListUnchanged, app, context, At, Up, IInv, PlaceInv, PlaceReady, Types,
    AppTypes, FlagTypes, Starting, Leaving, Listing, Opening
<1>19. CASE Open
  BY <1>19 DEF
    Open, ListUnchanged, app, context, At, Up, IInv, PlaceInv, PlaceReady, Types,
    AppTypes, FlagTypes, Starting, Leaving, Listing, Opening
<1>20. CASE OpenNode
  BY <1>20 DEF
    OpenNode, ListUnchanged, app, context, At, Up, IInv, PlaceInv, PlaceReady, Types,
    AppTypes, FlagTypes, Starting, Leaving, Listing, Opening
<1>21. CASE OpenMissing
  BY <1>21 DEF
    OpenMissing, ListUnchanged, app, context, At, Up, IInv, PlaceInv, PlaceReady,
    Types, AppTypes, FlagTypes, Starting, Leaving, Listing, Opening
<1>22. CASE OpenFails
  BY <1>22 DEF
    OpenFails, ListUnchanged, app, context, At, Up, IInv, PlaceInv, PlaceReady, Types,
    AppTypes, FlagTypes, Starting, Leaving, Listing, Opening
<1>23. CASE FreeList \/ Close
  <2>1. UNCHANGED <<ready, users, pc>>
    BY <1>23 DEF
      FreeList, Close, ListUnchanged, bus, memory, thread, context, hotplug, app
  <2> QED
    BY <2>1 DEF IInv, PlaceInv, PlaceReady
<1>24. CASE Register
  BY <1>24 DEF
    Register, HotplugUnchanged, app, context, At, Up, IInv, PlaceInv, PlaceReady,
    Types, AppTypes, FlagTypes, Starting, Leaving, Listing, Opening
<1>25. CASE Process
  BY <1>25 DEF
    Process, HotplugUnchanged, app, context, At, Up, IInv, PlaceInv, PlaceReady, Types,
    AppTypes, FlagTypes, Starting, Leaving, Listing, Opening
<1>26. CASE CallbackCalled
  BY <1>26 DEF
    CallbackCalled, HotplugUnchanged, app, context, At, Up, IInv, PlaceInv, PlaceReady,
    Types, AppTypes, FlagTypes, Starting, Leaving, Listing, Opening
<1>27. CASE CallbackReturns
  BY <1>27 DEF
    CallbackReturns, HotplugUnchanged, app, context, At, Up, IInv, PlaceInv,
    PlaceReady, Types, AppTypes, FlagTypes, Starting, Leaving, Listing, Opening
<1>28. CASE Processed
  BY <1>28 DEF
    Processed, HotplugUnchanged, app, context, At, Up, IInv, PlaceInv, PlaceReady,
    Types, AppTypes, FlagTypes, Starting, Leaving, Listing, Opening
<1>29. CASE Deregister \/ CallbackSkipped \/ MessageDone
  <2>1. UNCHANGED <<ready, users, pc>>
    BY <1>29 DEF
      Deregister, CallbackSkipped, MessageDone, HotplugUnchanged, RefsUnchanged, bus,
      memory, thread, context, hotplug, app
  <2> QED
    BY <2>1 DEF IInv, PlaceInv, PlaceReady
<1>30. CASE ExitNot
  BY <1>30 DEF
    ExitNot, ExitUnchanged, app, context, At, Up, IInv, PlaceInv, PlaceReady, Types,
    AppTypes, FlagTypes, Starting, Leaving, Listing, Opening
<1>31. CASE ExitBegins
  BY <1>31 DEF
    ExitBegins, ExitUnchanged, app, context, At, Up, IInv, PlaceInv, PlaceReady, Types,
    AppTypes, FlagTypes, Starting, Leaving, Listing, Opening
<1>32. CASE FreeCallbacks
  BY <1>32 DEF
    FreeCallbacks, ExitUnchanged, app, context, At, Up, IInv, PlaceInv, PlaceReady,
    Types, AppTypes, FlagTypes, Starting, Leaving, Listing, Opening
<1>33. CASE FreeDevices
  BY <1>33 DEF
    FreeDevices, ExitUnchanged, app, context, At, Up, IInv, PlaceInv, PlaceReady,
    Types, AppTypes, FlagTypes, Starting, Leaving, Listing, Opening
<1>34. CASE StopMonitor
  BY <1>34 DEF
    StopMonitor, ExitUnchanged, app, context, At, Up, IInv, PlaceInv, PlaceReady,
    Types, AppTypes, FlagTypes, Starting, Leaving, Listing, Opening
<1>35. CASE ExitEnds
  BY <1>35 DEF
    ExitEnds, ExitUnchanged, app, context, At, Up, IInv, PlaceInv, PlaceReady, Types,
    AppTypes, FlagTypes, Starting, Leaving, Listing, Opening
<1>36. CASE FreeMessage \/ FreeDevice
  <2>1. UNCHANGED <<ready, users, pc>>
    BY <1>36 DEF
      FreeMessage, FreeDevice, ExitUnchanged, RefsUnchanged, bus, memory, thread,
      context, hotplug, app
  <2> QED
    BY <2>1 DEF IInv, PlaceInv, PlaceReady
<1>37. CASE UNCHANGED vars
  BY <1>37 DEF vars, bus, memory, thread, context, hotplug, app, IInv, PlaceInv, PlaceReady
<1> QED
  BY <1>1, <1>2, <1>3, <1>4, <1>5, <1>6, <1>7, <1>8, <1>9, <1>10, <1>11, <1>12, <1>13,
     <1>14, <1>15, <1>16, <1>17, <1>18, <1>19, <1>20, <1>21, <1>22, <1>23, <1>24, <1>25,
     <1>26, <1>27, <1>28, <1>29, <1>30, <1>31, <1>32, <1>33, <1>34, <1>35, <1>36, <1>37
     DEF Next, Work, Monitor, Initialise, Use, Events, Exit

\* The monitor runs while there is a context.
LEMMA PlaceMonitorStep ==
  ASSUME IInv, [Next]_vars
  PROVE  PlaceMonitor'
<1>1. CASE \E s \in Sessions : Plug(s) \/ Unplug(s)
  <2>1. UNCHANGED <<pc, users, monitor, usbDevs, stopping>>
    BY <1>1 DEF
      Plug, Unplug, BusUnchanged, bus, memory, thread, context, hotplug, app
  <2> QED
    BY <2>1 DEF IInv, PlaceInv, PlaceMonitor
<1>2. CASE Attach
  <2>1. lock # "free"
    BY <1>2 DEF Attach, Doing, Working, IInv, Types, LockTypes
  <2>2. ~(pc = "start" \/ (pc = "idle" /\ users = 0))
    BY <2>1 DEF IInv, Types, LockTypes, PlaceInv, PlaceLock, PlaceMonitor
  <2> QED
    BY <1>2, <2>2 DEF Attach, WorkUnchanged, context, app, thread, IInv, PlaceInv, PlaceMonitor
<1>3. CASE Detach
  BY <1>3 DEF
    Detach, WorkUnchanged, app, context, thread, At, Up, Working, Doing, IInv,
    PlaceInv, PlaceMonitor, PlaceReady, PlaceExit, Types, FlagTypes, Starting, Leaving,
    Listing, Opening
<1>4. CASE Known \/ Allocate \/ HasParent \/ NoParent \/ ParentFirst \/ Arrived \/ Gone
           \/ Left \/ DropFound
  <2>1. UNCHANGED <<pc, users, monitor, usbDevs, stopping>>
    BY <1>4 DEF
      Known, Allocate, HasParent, NoParent, ParentFirst, Arrived, Gone, Left,
      DropFound, WorkUnchanged, bus, memory, thread, context, hotplug, app
  <2> QED
    BY <2>1 DEF IInv, PlaceInv, PlaceMonitor
<1>5. CASE MonitorWakes
  BY <1>5 DEF
    MonitorWakes, MonitorUnchanged, app, context, thread, At, Up, Working, Doing, IInv,
    PlaceInv, PlaceMonitor, PlaceReady, PlaceExit, Types, FlagTypes, Starting, Leaving,
    Listing, Opening
<1>6. CASE MonitorReads
  BY <1>6 DEF
    MonitorReads, MonitorUnchanged, app, context, thread, At, Up, Working, Doing, IInv,
    PlaceInv, PlaceMonitor, PlaceReady, PlaceExit, Types, FlagTypes, Starting, Leaving,
    Listing, Opening
<1>7. CASE MonitorDone
  BY <1>7 DEF
    MonitorDone, MonitorUnchanged, app, context, thread, At, Up, Working, Doing, IInv,
    PlaceInv, PlaceMonitor, PlaceReady, PlaceExit, Types, FlagTypes, Starting, Leaving,
    Listing, Opening
<1>8. CASE MonitorExits
  BY <1>8 DEF
    MonitorExits, MonitorUnchanged, app, context, thread, At, Up, Working, Doing, IInv,
    PlaceInv, PlaceMonitor, PlaceReady, PlaceExit, Types, FlagTypes, Starting, Leaving,
    Listing, Opening
<1>9. CASE InitAgain
  BY <1>9 DEF
    InitAgain, InitUnchanged, app, context, thread, At, Up, Working, Doing, IInv,
    PlaceInv, PlaceMonitor, PlaceReady, PlaceExit, Types, FlagTypes, Starting, Leaving,
    Listing, Opening
<1>10. CASE InitBegins
  BY <1>10 DEF
    InitBegins, InitUnchanged, app, context, thread, At, Up, Working, Doing, IInv,
    PlaceInv, PlaceMonitor, PlaceReady, PlaceExit, Types, FlagTypes, Starting, Leaving,
    Listing, Opening
<1>11. CASE MonitorStarts
  BY <1>11 DEF
    MonitorStarts, InitUnchanged, app, context, thread, At, Up, Working, Doing, IInv,
    PlaceInv, PlaceMonitor, PlaceReady, PlaceExit, Types, FlagTypes, Starting, Leaving,
    Listing, Opening
<1>12. CASE ScanBegins
  BY <1>12 DEF
    ScanBegins, InitUnchanged, app, context, thread, At, Up, Working, Doing, IInv,
    PlaceInv, PlaceMonitor, PlaceReady, PlaceExit, Types, FlagTypes, Starting, Leaving,
    Listing, Opening
<1>13. CASE ScanEnds
  BY <1>13 DEF
    ScanEnds, InitUnchanged, app, context, thread, At, Up, Working, Doing, IInv,
    PlaceInv, PlaceMonitor, PlaceReady, PlaceExit, Types, FlagTypes, Starting, Leaving,
    Listing, Opening
<1>14. CASE InitEnds
  BY <1>14 DEF
    InitEnds, InitUnchanged, app, context, thread, At, Up, Working, Doing, IInv,
    PlaceInv, PlaceMonitor, PlaceReady, PlaceExit, Types, FlagTypes, Starting, Leaving,
    Listing, Opening
<1>15. CASE ScanFails
  BY <1>15 DEF
    ScanFails, InitUnchanged, app, context, thread, At, Up, Working, Doing, IInv,
    PlaceInv, PlaceMonitor, PlaceReady, PlaceExit, Types, FlagTypes, Starting, Leaving,
    Listing, Opening
<1>16. CASE GivesUp
  BY <1>16 DEF
    GivesUp, InitUnchanged, app, context, thread, At, Up, Working, Doing, IInv,
    PlaceInv, PlaceMonitor, PlaceReady, PlaceExit, Types, FlagTypes, Starting, Leaving,
    Listing, Opening
<1>17. CASE ScanEntry
  <2>1. UNCHANGED <<pc, users, monitor, usbDevs, stopping>>
    BY <1>17 DEF
      ScanEntry, InitUnchanged, bus, memory, thread, context, hotplug, app
  <2> QED
    BY <2>1 DEF IInv, PlaceInv, PlaceMonitor
<1>18. CASE ListBegins
  BY <1>18 DEF
    ListBegins, ListUnchanged, app, context, thread, At, Up, Working, Doing, IInv,
    PlaceInv, PlaceMonitor, PlaceReady, PlaceExit, Types, FlagTypes, Starting, Leaving,
    Listing, Opening
<1>19. CASE PollBegins
  BY <1>19 DEF
    PollBegins, ListUnchanged, app, context, thread, At, Up, Working, Doing, IInv,
    PlaceInv, PlaceMonitor, PlaceReady, PlaceExit, Types, FlagTypes, Starting, Leaving,
    Listing, Opening
<1>20. CASE PollReads
  BY <1>20 DEF
    PollReads, ListUnchanged, app, context, thread, At, Up, Working, Doing, IInv,
    PlaceInv, PlaceMonitor, PlaceReady, PlaceExit, Types, FlagTypes, Starting, Leaving,
    Listing, Opening
<1>21. CASE PollEmpty
  BY <1>21 DEF
    PollEmpty, ListUnchanged, app, context, thread, At, Up, Working, Doing, IInv,
    PlaceInv, PlaceMonitor, PlaceReady, PlaceExit, Types, FlagTypes, Starting, Leaving,
    Listing, Opening
<1>22. CASE CopyList
  BY <1>22 DEF
    CopyList, ListUnchanged, app, context, thread, At, Up, Working, Doing, IInv,
    PlaceInv, PlaceMonitor, PlaceReady, PlaceExit, Types, FlagTypes, Starting, Leaving,
    Listing, Opening
<1>23. CASE Enumerate
  BY <1>23 DEF
    Enumerate, ListUnchanged, app, context, thread, At, Up, Working, Doing, IInv,
    PlaceInv, PlaceMonitor, PlaceReady, PlaceExit, Types, FlagTypes, Starting, Leaving,
    Listing, Opening
<1>24. CASE Open
  BY <1>24 DEF
    Open, ListUnchanged, app, context, thread, At, Up, Working, Doing, IInv, PlaceInv,
    PlaceMonitor, PlaceReady, PlaceExit, Types, FlagTypes, Starting, Leaving, Listing,
    Opening
<1>25. CASE OpenNode
  BY <1>25 DEF
    OpenNode, ListUnchanged, app, context, thread, At, Up, Working, Doing, IInv,
    PlaceInv, PlaceMonitor, PlaceReady, PlaceExit, Types, FlagTypes, Starting, Leaving,
    Listing, Opening
<1>26. CASE OpenMissing
  BY <1>26 DEF
    OpenMissing, ListUnchanged, app, context, thread, At, Up, Working, Doing, IInv,
    PlaceInv, PlaceMonitor, PlaceReady, PlaceExit, Types, FlagTypes, Starting, Leaving,
    Listing, Opening
<1>27. CASE OpenFails
  BY <1>27 DEF
    OpenFails, ListUnchanged, app, context, thread, At, Up, Working, Doing, IInv,
    PlaceInv, PlaceMonitor, PlaceReady, PlaceExit, Types, FlagTypes, Starting, Leaving,
    Listing, Opening
<1>28. CASE FreeList \/ Close
  <2>1. UNCHANGED <<pc, users, monitor, usbDevs, stopping>>
    BY <1>28 DEF
      FreeList, Close, ListUnchanged, bus, memory, thread, context, hotplug, app
  <2> QED
    BY <2>1 DEF IInv, PlaceInv, PlaceMonitor
<1>29. CASE Register
  <2>1. pc' = pc \/ (pc = "idle" /\ users > 0 /\ pc' = "lock")
    BY <1>29 DEF Register, Up, At
  <2>2. UNCHANGED <<users, monitor, stopping, usbDevs>>
    BY <1>29 DEF Register, HotplugUnchanged, context, app, thread
  <2>3. CASE pc' = pc
    BY <2>2, <2>3 DEF IInv, PlaceInv, PlaceMonitor
  <2>4. CASE pc = "idle" /\ users > 0 /\ pc' = "lock"
    <3>1. ~stopping /\ monitor # "off"
      BY <2>4 DEF IInv, PlaceInv, PlaceMonitor, Types, AppTypes
    <3> QED
      BY <2>2, <2>4, <3>1 DEF PlaceMonitor
  <2> QED
    BY <2>1, <2>3, <2>4
<1>30. CASE Process
  BY <1>30 DEF
    Process, HotplugUnchanged, app, context, thread, At, Up, Working, Doing, IInv,
    PlaceInv, PlaceMonitor, PlaceReady, PlaceExit, Types, FlagTypes, Starting, Leaving,
    Listing, Opening
<1>31. CASE CallbackCalled
  BY <1>31 DEF
    CallbackCalled, HotplugUnchanged, app, context, thread, At, Up, Working, Doing,
    IInv, PlaceInv, PlaceMonitor, PlaceReady, PlaceExit, Types, FlagTypes, Starting,
    Leaving, Listing, Opening
<1>32. CASE CallbackReturns
  BY <1>32 DEF
    CallbackReturns, HotplugUnchanged, app, context, thread, At, Up, Working, Doing,
    IInv, PlaceInv, PlaceMonitor, PlaceReady, PlaceExit, Types, FlagTypes, Starting,
    Leaving, Listing, Opening
<1>33. CASE Processed
  BY <1>33 DEF
    Processed, HotplugUnchanged, app, context, thread, At, Up, Working, Doing, IInv,
    PlaceInv, PlaceMonitor, PlaceReady, PlaceExit, Types, FlagTypes, Starting, Leaving,
    Listing, Opening
<1>34. CASE Deregister \/ CallbackSkipped \/ MessageDone
  <2>1. UNCHANGED <<pc, users, monitor, usbDevs, stopping>>
    BY <1>34 DEF
      Deregister, CallbackSkipped, MessageDone, HotplugUnchanged, RefsUnchanged, bus,
      memory, thread, context, hotplug, app
  <2> QED
    BY <2>1 DEF IInv, PlaceInv, PlaceMonitor
<1>35. CASE ExitNot
  BY <1>35 DEF
    ExitNot, ExitUnchanged, app, context, thread, At, Up, Working, Doing, IInv,
    PlaceInv, PlaceMonitor, PlaceReady, PlaceExit, Types, FlagTypes, Starting, Leaving,
    Listing, Opening
<1>36. CASE ExitBegins
  BY <1>36 DEF
    ExitBegins, ExitUnchanged, app, context, thread, At, Up, Working, Doing, IInv,
    PlaceInv, PlaceMonitor, PlaceReady, PlaceExit, Types, FlagTypes, Starting, Leaving,
    Listing, Opening
<1>37. CASE FreeCallbacks
  BY <1>37 DEF
    FreeCallbacks, ExitUnchanged, app, context, thread, At, Up, Working, Doing, IInv,
    PlaceInv, PlaceMonitor, PlaceReady, PlaceExit, Types, FlagTypes, Starting, Leaving,
    Listing, Opening
<1>38. CASE FreeDevices
  BY <1>38 DEF
    FreeDevices, ExitUnchanged, app, context, thread, At, Up, Working, Doing, IInv,
    PlaceInv, PlaceMonitor, PlaceReady, PlaceExit, Types, FlagTypes, Starting, Leaving,
    Listing, Opening
<1>39. CASE FreeDevice
  BY <1>39 DEF
    FreeDevice, ExitUnchanged, app, context, thread, At, Up, Working, Doing, IInv,
    PlaceInv, PlaceMonitor, PlaceReady, PlaceExit, Types, FlagTypes, Starting, Leaving,
    Listing, Opening
<1>40. CASE StopMonitor
  BY <1>40 DEF
    StopMonitor, ExitUnchanged, app, context, thread, At, Up, Working, Doing, IInv,
    PlaceInv, PlaceMonitor, PlaceReady, PlaceExit, Types, FlagTypes, Starting, Leaving,
    Listing, Opening
<1>41. CASE ExitEnds
  BY <1>41 DEF
    ExitEnds, ExitUnchanged, app, context, thread, At, Up, Working, Doing, IInv,
    PlaceInv, PlaceMonitor, PlaceReady, PlaceExit, Types, FlagTypes, Starting, Leaving,
    Listing, Opening
<1>42. CASE FreeMessage
  <2>1. UNCHANGED <<pc, users, monitor, usbDevs, stopping>>
    BY <1>42 DEF
      FreeMessage, ExitUnchanged, RefsUnchanged, bus, memory, thread, context, hotplug,
      app
  <2> QED
    BY <2>1 DEF IInv, PlaceInv, PlaceMonitor
<1>43. CASE UNCHANGED vars
  BY <1>43 DEF vars, bus, memory, thread, context, hotplug, app, IInv, PlaceInv, PlaceMonitor
<1> QED
  BY <1>1, <1>2, <1>3, <1>4, <1>5, <1>6, <1>7, <1>8, <1>9, <1>10, <1>11, <1>12, <1>13,
     <1>14, <1>15, <1>16, <1>17, <1>18, <1>19, <1>20, <1>21, <1>22, <1>23, <1>24, <1>25,
     <1>26, <1>27, <1>28, <1>29, <1>30, <1>31, <1>32, <1>33, <1>34, <1>35, <1>36, <1>37,
     <1>38, <1>39, <1>40, <1>41, <1>42, <1>43
     DEF Next, Work, Monitor, Initialise, Use, Events, Exit

\* There are messages while the context is ready.
LEMMA PlaceMessagesStep ==
  ASSUME IInv, [Next]_vars
  PROVE  PlaceMessages'
<1>1. CASE \E s \in Sessions : Plug(s) \/ Unplug(s)
  <2>1. UNCHANGED <<ready, messages, batch, handle, pc>>
    BY <1>1 DEF
      Plug, Unplug, BusUnchanged, bus, memory, thread, context, hotplug, app
  <2> QED
    BY <2>1 DEF IInv, PlaceInv, PlaceMessages
<1>2. CASE Arrived
  BY <1>2 DEF
    Arrived, WorkUnchanged, app, context, At, Up, Notify, IInv, PlaceInv,
    PlaceMessages, PlaceReady, PlaceExit, Types, FlagTypes, ListTypes, Starting,
    Leaving, Listing, Opening
<1>3. CASE Left
  BY <1>3 DEF
    Left, WorkUnchanged, app, context, At, Up, Notify, IInv, PlaceInv, PlaceMessages,
    PlaceReady, PlaceExit, Types, FlagTypes, ListTypes, Starting, Leaving, Listing,
    Opening
<1>4. CASE Known \/ Allocate \/ HasParent \/ NoParent \/ ParentFirst \/ Attach \/ Gone
           \/ Detach \/ DropFound
  <2>1. UNCHANGED <<ready, messages, batch, handle, pc>>
    BY <1>4 DEF
      Known, Allocate, HasParent, NoParent, ParentFirst, Attach, Gone, Detach,
      DropFound, WorkUnchanged, bus, memory, thread, context, hotplug, app
  <2> QED
    BY <2>1 DEF IInv, PlaceInv, PlaceMessages
<1>5. CASE MonitorWakes \/ MonitorReads \/ MonitorDone \/ MonitorExits
  <2>1. UNCHANGED <<ready, messages, batch, handle, pc>>
    BY <1>5 DEF
      MonitorWakes, MonitorReads, MonitorDone, MonitorExits, MonitorUnchanged, bus,
      memory, thread, context, hotplug, app
  <2> QED
    BY <2>1 DEF IInv, PlaceInv, PlaceMessages
<1>6. CASE InitBegins
  BY <1>6 DEF
    InitBegins, InitUnchanged, app, context, At, Up, Notify, IInv, PlaceInv,
    PlaceMessages, PlaceReady, PlaceExit, Types, FlagTypes, ListTypes, Starting,
    Leaving, Listing, Opening
<1>7. CASE MonitorStarts
  BY <1>7 DEF
    MonitorStarts, InitUnchanged, app, context, At, Up, Notify, IInv, PlaceInv,
    PlaceMessages, PlaceReady, PlaceExit, Types, FlagTypes, ListTypes, Starting,
    Leaving, Listing, Opening
<1>8. CASE ScanBegins
  BY <1>8 DEF
    ScanBegins, InitUnchanged, app, context, At, Up, Notify, IInv, PlaceInv,
    PlaceMessages, PlaceReady, PlaceExit, Types, FlagTypes, ListTypes, Starting,
    Leaving, Listing, Opening
<1>9. CASE ScanEnds
  BY <1>9 DEF
    ScanEnds, InitUnchanged, app, context, At, Up, Notify, IInv, PlaceInv,
    PlaceMessages, PlaceReady, PlaceExit, Types, FlagTypes, ListTypes, Starting,
    Leaving, Listing, Opening
<1>10. CASE InitEnds
  BY <1>10 DEF
    InitEnds, InitUnchanged, app, context, At, Up, Notify, IInv, PlaceInv,
    PlaceMessages, PlaceReady, PlaceExit, Types, FlagTypes, ListTypes, Starting,
    Leaving, Listing, Opening
<1>11. CASE ScanFails
  BY <1>11 DEF
    ScanFails, InitUnchanged, app, context, At, Up, Notify, IInv, PlaceInv,
    PlaceMessages, PlaceReady, PlaceExit, Types, FlagTypes, ListTypes, Starting,
    Leaving, Listing, Opening
<1>12. CASE GivesUp
  BY <1>12 DEF
    GivesUp, InitUnchanged, app, context, At, Up, Notify, IInv, PlaceInv,
    PlaceMessages, PlaceReady, PlaceExit, Types, FlagTypes, ListTypes, Starting,
    Leaving, Listing, Opening
<1>13. CASE InitAgain \/ ScanEntry
  <2>1. UNCHANGED <<ready, messages, batch, handle, pc>>
    BY <1>13 DEF
      InitAgain, ScanEntry, InitUnchanged, bus, memory, thread, context, hotplug, app
  <2> QED
    BY <2>1 DEF IInv, PlaceInv, PlaceMessages
<1>14. CASE ListBegins
  BY <1>14 DEF
    ListBegins, ListUnchanged, app, context, At, Up, Notify, IInv, PlaceInv,
    PlaceMessages, PlaceReady, PlaceExit, Types, FlagTypes, ListTypes, Starting,
    Leaving, Listing, Opening
<1>15. CASE PollBegins
  BY <1>15 DEF
    PollBegins, ListUnchanged, app, context, At, Up, Notify, IInv, PlaceInv,
    PlaceMessages, PlaceReady, PlaceExit, Types, FlagTypes, ListTypes, Starting,
    Leaving, Listing, Opening
<1>16. CASE PollReads
  BY <1>16 DEF
    PollReads, ListUnchanged, app, context, At, Up, Notify, IInv, PlaceInv,
    PlaceMessages, PlaceReady, PlaceExit, Types, FlagTypes, ListTypes, Starting,
    Leaving, Listing, Opening
<1>17. CASE PollEmpty
  BY <1>17 DEF
    PollEmpty, ListUnchanged, app, context, At, Up, Notify, IInv, PlaceInv,
    PlaceMessages, PlaceReady, PlaceExit, Types, FlagTypes, ListTypes, Starting,
    Leaving, Listing, Opening
<1>18. CASE CopyList
  BY <1>18 DEF
    CopyList, ListUnchanged, app, context, At, Up, Notify, IInv, PlaceInv,
    PlaceMessages, PlaceReady, PlaceExit, Types, FlagTypes, ListTypes, Starting,
    Leaving, Listing, Opening
<1>19. CASE Enumerate
  BY <1>19 DEF
    Enumerate, ListUnchanged, app, context, At, Up, Notify, IInv, PlaceInv,
    PlaceMessages, PlaceReady, PlaceExit, Types, FlagTypes, ListTypes, Starting,
    Leaving, Listing, Opening
<1>20. CASE Open
  BY <1>20 DEF
    Open, ListUnchanged, app, context, At, Up, Notify, IInv, PlaceInv, PlaceMessages,
    PlaceReady, PlaceExit, Types, FlagTypes, ListTypes, Starting, Leaving, Listing,
    Opening
<1>21. CASE OpenNode
  BY <1>21 DEF
    OpenNode, ListUnchanged, app, context, At, Up, Notify, IInv, PlaceInv,
    PlaceMessages, PlaceReady, PlaceExit, Types, FlagTypes, ListTypes, Starting,
    Leaving, Listing, Opening
<1>22. CASE OpenMissing
  BY <1>22 DEF
    OpenMissing, ListUnchanged, app, context, At, Up, Notify, IInv, PlaceInv,
    PlaceMessages, PlaceReady, PlaceExit, Types, FlagTypes, ListTypes, Starting,
    Leaving, Listing, Opening
<1>23. CASE OpenFails
  BY <1>23 DEF
    OpenFails, ListUnchanged, app, context, At, Up, Notify, IInv, PlaceInv,
    PlaceMessages, PlaceReady, PlaceExit, Types, FlagTypes, ListTypes, Starting,
    Leaving, Listing, Opening
<1>24. CASE Close
  BY <1>24 DEF
    Close, ListUnchanged, app, context, At, Up, Notify, IInv, PlaceInv, PlaceMessages,
    PlaceReady, PlaceExit, Types, FlagTypes, ListTypes, Starting, Leaving, Listing,
    Opening
<1>25. CASE FreeList
  <2>1. UNCHANGED <<ready, messages, batch, handle, pc>>
    BY <1>25 DEF
      FreeList, ListUnchanged, bus, memory, thread, context, hotplug, app
  <2> QED
    BY <2>1 DEF IInv, PlaceInv, PlaceMessages
<1>26. CASE Register
  BY <1>26 DEF
    Register, HotplugUnchanged, app, context, At, Up, Notify, IInv, PlaceInv,
    PlaceMessages, PlaceReady, PlaceExit, Types, FlagTypes, ListTypes, Starting,
    Leaving, Listing, Opening
<1>27. CASE Process
  BY <1>27 DEF
    Process, HotplugUnchanged, app, context, At, Up, Notify, IInv, PlaceInv,
    PlaceMessages, PlaceReady, PlaceExit, Types, FlagTypes, ListTypes, Starting,
    Leaving, Listing, Opening
<1>28. CASE CallbackCalled
  BY <1>28 DEF
    CallbackCalled, HotplugUnchanged, app, context, At, Up, Notify, IInv, PlaceInv,
    PlaceMessages, PlaceReady, PlaceExit, Types, FlagTypes, ListTypes, Starting,
    Leaving, Listing, Opening
<1>29. CASE CallbackReturns
  BY <1>29 DEF
    CallbackReturns, HotplugUnchanged, app, context, At, Up, Notify, IInv, PlaceInv,
    PlaceMessages, PlaceReady, PlaceExit, Types, FlagTypes, ListTypes, Starting,
    Leaving, Listing, Opening
<1>30. CASE MessageDone
  BY <1>30 DEF
    MessageDone, HotplugUnchanged, RefsUnchanged, app, context, At, Up, Notify, IInv,
    PlaceInv, PlaceMessages, PlaceReady, PlaceExit, Types, FlagTypes, ListTypes,
    Starting, Leaving, Listing, Opening
<1>31. CASE Processed
  BY <1>31 DEF
    Processed, HotplugUnchanged, app, context, At, Up, Notify, IInv, PlaceInv,
    PlaceMessages, PlaceReady, PlaceExit, Types, FlagTypes, ListTypes, Starting,
    Leaving, Listing, Opening
<1>32. CASE Deregister \/ CallbackSkipped
  <2>1. UNCHANGED <<ready, messages, batch, handle, pc>>
    BY <1>32 DEF
      Deregister, CallbackSkipped, HotplugUnchanged, RefsUnchanged, bus, memory,
      thread, context, hotplug, app
  <2> QED
    BY <2>1 DEF IInv, PlaceInv, PlaceMessages
<1>33. CASE ExitBegins
  BY <1>33 DEF
    ExitBegins, ExitUnchanged, app, context, At, Up, Notify, IInv, PlaceInv,
    PlaceMessages, PlaceReady, PlaceExit, Types, FlagTypes, ListTypes, Starting,
    Leaving, Listing, Opening
<1>34. CASE FreeCallbacks
  BY <1>34 DEF
    FreeCallbacks, ExitUnchanged, app, context, At, Up, Notify, IInv, PlaceInv,
    PlaceMessages, PlaceReady, PlaceExit, Types, FlagTypes, ListTypes, Starting,
    Leaving, Listing, Opening
<1>35. CASE FreeMessage
  BY <1>35 DEF
    FreeMessage, ExitUnchanged, RefsUnchanged, app, context, At, Up, Notify, IInv,
    PlaceInv, PlaceMessages, PlaceReady, PlaceExit, Types, FlagTypes, ListTypes,
    Starting, Leaving, Listing, Opening
<1>36. CASE FreeDevices
  BY <1>36 DEF
    FreeDevices, ExitUnchanged, app, context, At, Up, Notify, IInv, PlaceInv,
    PlaceMessages, PlaceReady, PlaceExit, Types, FlagTypes, ListTypes, Starting,
    Leaving, Listing, Opening
<1>37. CASE StopMonitor
  BY <1>37 DEF
    StopMonitor, ExitUnchanged, app, context, At, Up, Notify, IInv, PlaceInv,
    PlaceMessages, PlaceReady, PlaceExit, Types, FlagTypes, ListTypes, Starting,
    Leaving, Listing, Opening
<1>38. CASE ExitEnds
  BY <1>38 DEF
    ExitEnds, ExitUnchanged, app, context, At, Up, Notify, IInv, PlaceInv,
    PlaceMessages, PlaceReady, PlaceExit, Types, FlagTypes, ListTypes, Starting,
    Leaving, Listing, Opening
<1>39. CASE ExitNot \/ FreeDevice
  <2>1. UNCHANGED <<ready, messages, batch, handle, pc>>
    BY <1>39 DEF
      ExitNot, FreeDevice, ExitUnchanged, RefsUnchanged, bus, memory, thread, context,
      hotplug, app
  <2> QED
    BY <2>1 DEF IInv, PlaceInv, PlaceMessages
<1>40. CASE UNCHANGED vars
  BY <1>40 DEF vars, bus, memory, thread, context, hotplug, app, IInv, PlaceInv, PlaceMessages
<1> QED
  BY <1>1, <1>2, <1>3, <1>4, <1>5, <1>6, <1>7, <1>8, <1>9, <1>10, <1>11, <1>12, <1>13,
     <1>14, <1>15, <1>16, <1>17, <1>18, <1>19, <1>20, <1>21, <1>22, <1>23, <1>24, <1>25,
     <1>26, <1>27, <1>28, <1>29, <1>30, <1>31, <1>32, <1>33, <1>34, <1>35, <1>36, <1>37,
     <1>38, <1>39, <1>40
     DEF Next, Work, Monitor, Initialise, Use, Events, Exit

\* libusb_exit works on a context nobody else sees.
LEMMA PlaceExitStep ==
  ASSUME IInv, [Next]_vars
  PROVE  PlaceExit'
<1>1. CASE \E s \in Sessions : Plug(s) \/ Unplug(s)
  <2>1. UNCHANGED <<pc, active, jobs, handle, messages, leftover>>
    BY <1>1 DEF
      Plug, Unplug, BusUnchanged, bus, memory, thread, context, hotplug, app
  <2> QED
    BY <2>1 DEF IInv, PlaceInv, PlaceExit
<1>2. CASE Known
  BY <1>2 DEF
    Known, WorkUnchanged, app, context, thread, At, Up, Working, Doing, Act, ListFree,
    IInv, PlaceInv, PlaceExit, PlaceReady, Types, FlagTypes, JobsTypes, Starting,
    Leaving, Listing, Opening
<1>3. CASE Allocate
  BY <1>3 DEF
    Allocate, WorkUnchanged, app, context, thread, At, Up, Working, Doing, Act,
    ListFree, IInv, PlaceInv, PlaceExit, PlaceReady, Types, FlagTypes, JobsTypes,
    Starting, Leaving, Listing, Opening
<1>4. CASE HasParent
  BY <1>4 DEF
    HasParent, WorkUnchanged, app, context, thread, At, Up, Working, Doing, Act,
    ListFree, IInv, PlaceInv, PlaceExit, PlaceReady, Types, FlagTypes, JobsTypes,
    Starting, Leaving, Listing, Opening
<1>5. CASE NoParent
  BY <1>5 DEF
    NoParent, WorkUnchanged, app, context, thread, At, Up, Working, Doing, Act,
    ListFree, IInv, PlaceInv, PlaceExit, PlaceReady, Types, FlagTypes, JobsTypes,
    Starting, Leaving, Listing, Opening
<1>6. CASE ParentFirst
  BY <1>6 DEF
    ParentFirst, WorkUnchanged, app, context, thread, At, Up, Working, Doing, Act,
    ListFree, IInv, PlaceInv, PlaceExit, PlaceReady, Types, FlagTypes, JobsTypes,
    Starting, Leaving, Listing, Opening
<1>7. CASE Attach
  BY <1>7 DEF
    Attach, WorkUnchanged, app, context, thread, At, Up, Working, Doing, Act, ListFree,
    IInv, PlaceInv, PlaceExit, PlaceReady, Types, FlagTypes, JobsTypes, Starting,
    Leaving, Listing, Opening
<1>8. CASE Arrived
  BY <1>8 DEF
    Arrived, WorkUnchanged, app, context, thread, At, Up, Working, Doing, Act,
    ListFree, IInv, PlaceInv, PlaceExit, PlaceReady, Types, FlagTypes, JobsTypes,
    Starting, Leaving, Listing, Opening
<1>9. CASE Gone
  BY <1>9 DEF
    Gone, WorkUnchanged, app, context, thread, At, Up, Working, Doing, Act, ListFree,
    IInv, PlaceInv, PlaceExit, PlaceReady, Types, FlagTypes, JobsTypes, Starting,
    Leaving, Listing, Opening
<1>10. CASE Detach
  BY <1>10 DEF
    Detach, WorkUnchanged, app, context, thread, At, Up, Working, Doing, Act, ListFree,
    IInv, PlaceInv, PlaceExit, PlaceReady, Types, FlagTypes, JobsTypes, Starting,
    Leaving, Listing, Opening
<1>11. CASE Left
  BY <1>11 DEF
    Left, WorkUnchanged, app, context, thread, At, Up, Working, Doing, Act, ListFree,
    IInv, PlaceInv, PlaceExit, PlaceReady, Types, FlagTypes, JobsTypes, Starting,
    Leaving, Listing, Opening
<1>12. CASE DropFound
  BY <1>12 DEF
    DropFound, WorkUnchanged, app, context, thread, At, Up, Working, Doing, Act,
    ListFree, IInv, PlaceInv, PlaceExit, PlaceReady, Types, FlagTypes, JobsTypes,
    Starting, Leaving, Listing, Opening
<1>13. CASE MonitorReads
  BY <1>13 DEF
    MonitorReads, MonitorUnchanged, app, context, thread, At, Up, Working, Doing, Act,
    ListFree, IInv, PlaceInv, PlaceExit, PlaceReady, Types, FlagTypes, JobsTypes,
    Starting, Leaving, Listing, Opening
<1>14. CASE MonitorWakes \/ MonitorDone \/ MonitorExits
  <2>1. UNCHANGED <<pc, active, jobs, handle, messages, leftover>>
    BY <1>14 DEF
      MonitorWakes, MonitorDone, MonitorExits, MonitorUnchanged, bus, memory, thread,
      context, hotplug, app
  <2> QED
    BY <2>1 DEF IInv, PlaceInv, PlaceExit
<1>15. CASE InitBegins
  BY <1>15 DEF
    InitBegins, InitUnchanged, app, context, thread, At, Up, Working, Doing, Act,
    ListFree, IInv, PlaceInv, PlaceExit, PlaceReady, Types, FlagTypes, JobsTypes,
    Starting, Leaving, Listing, Opening
<1>16. CASE MonitorStarts
  BY <1>16 DEF
    MonitorStarts, InitUnchanged, app, context, thread, At, Up, Working, Doing, Act,
    ListFree, IInv, PlaceInv, PlaceExit, PlaceReady, Types, FlagTypes, JobsTypes,
    Starting, Leaving, Listing, Opening
<1>17. CASE ScanBegins
  BY <1>17 DEF
    ScanBegins, InitUnchanged, app, context, thread, At, Up, Working, Doing, Act,
    ListFree, IInv, PlaceInv, PlaceExit, PlaceReady, Types, FlagTypes, JobsTypes,
    Starting, Leaving, Listing, Opening
<1>18. CASE ScanEntry
  BY <1>18 DEF
    ScanEntry, InitUnchanged, app, context, thread, At, Up, Working, Doing, Act,
    ListFree, IInv, PlaceInv, PlaceExit, PlaceReady, Types, FlagTypes, JobsTypes,
    Starting, Leaving, Listing, Opening
<1>19. CASE ScanEnds
  BY <1>19 DEF
    ScanEnds, InitUnchanged, app, context, thread, At, Up, Working, Doing, Act,
    ListFree, IInv, PlaceInv, PlaceExit, PlaceReady, Types, FlagTypes, JobsTypes,
    Starting, Leaving, Listing, Opening
<1>20. CASE InitEnds
  BY <1>20 DEF
    InitEnds, InitUnchanged, app, context, thread, At, Up, Working, Doing, Act,
    ListFree, IInv, PlaceInv, PlaceExit, PlaceReady, Types, FlagTypes, JobsTypes,
    Starting, Leaving, Listing, Opening
<1>21. CASE ScanFails
  BY <1>21 DEF
    ScanFails, InitUnchanged, app, context, thread, At, Up, Working, Doing, Act,
    ListFree, IInv, PlaceInv, PlaceExit, PlaceReady, Types, FlagTypes, JobsTypes,
    Starting, Leaving, Listing, Opening
<1>22. CASE GivesUp
  BY <1>22 DEF
    GivesUp, InitUnchanged, app, context, thread, At, Up, Working, Doing, Act,
    ListFree, IInv, PlaceInv, PlaceExit, PlaceReady, Types, FlagTypes, JobsTypes,
    Starting, Leaving, Listing, Opening
<1>23. CASE InitAgain
  <2>1. UNCHANGED <<pc, active, jobs, handle, messages, leftover>>
    BY <1>23 DEF
      InitAgain, InitUnchanged, bus, memory, thread, context, hotplug, app
  <2> QED
    BY <2>1 DEF IInv, PlaceInv, PlaceExit
<1>24. CASE ListBegins
  BY <1>24 DEF
    ListBegins, ListUnchanged, app, context, thread, At, Up, Working, Doing, Act,
    ListFree, IInv, PlaceInv, PlaceExit, PlaceReady, Types, FlagTypes, JobsTypes,
    Starting, Leaving, Listing, Opening
<1>25. CASE PollBegins
  BY <1>25 DEF
    PollBegins, ListUnchanged, app, context, thread, At, Up, Working, Doing, Act,
    ListFree, IInv, PlaceInv, PlaceExit, PlaceReady, Types, FlagTypes, JobsTypes,
    Starting, Leaving, Listing, Opening
<1>26. CASE PollReads
  BY <1>26 DEF
    PollReads, ListUnchanged, app, context, thread, At, Up, Working, Doing, Act,
    ListFree, IInv, PlaceInv, PlaceExit, PlaceReady, Types, FlagTypes, JobsTypes,
    Starting, Leaving, Listing, Opening
<1>27. CASE PollEmpty
  BY <1>27 DEF
    PollEmpty, ListUnchanged, app, context, thread, At, Up, Working, Doing, Act,
    ListFree, IInv, PlaceInv, PlaceExit, PlaceReady, Types, FlagTypes, JobsTypes,
    Starting, Leaving, Listing, Opening
<1>28. CASE CopyList
  BY <1>28 DEF
    CopyList, ListUnchanged, app, context, thread, At, Up, Working, Doing, Act,
    ListFree, IInv, PlaceInv, PlaceExit, PlaceReady, Types, FlagTypes, JobsTypes,
    Starting, Leaving, Listing, Opening
<1>29. CASE Enumerate
  BY <1>29 DEF
    Enumerate, ListUnchanged, app, context, thread, At, Up, Working, Doing, Act,
    ListFree, IInv, PlaceInv, PlaceExit, PlaceReady, Types, FlagTypes, JobsTypes,
    Starting, Leaving, Listing, Opening
<1>30. CASE Open
  BY <1>30 DEF
    Open, ListUnchanged, app, context, thread, At, Up, Working, Doing, Act, ListFree,
    IInv, PlaceInv, PlaceExit, PlaceReady, Types, FlagTypes, JobsTypes, Starting,
    Leaving, Listing, Opening
<1>31. CASE OpenNode
  BY <1>31 DEF
    OpenNode, ListUnchanged, app, context, thread, At, Up, Working, Doing, Act,
    ListFree, IInv, PlaceInv, PlaceExit, PlaceReady, Types, FlagTypes, JobsTypes,
    Starting, Leaving, Listing, Opening
<1>32. CASE OpenMissing
  BY <1>32 DEF
    OpenMissing, ListUnchanged, app, context, thread, At, Up, Working, Doing, Act,
    ListFree, IInv, PlaceInv, PlaceExit, PlaceReady, Types, FlagTypes, JobsTypes,
    Starting, Leaving, Listing, Opening
<1>33. CASE OpenFails
  BY <1>33 DEF
    OpenFails, ListUnchanged, app, context, thread, At, Up, Working, Doing, Act,
    ListFree, IInv, PlaceInv, PlaceExit, PlaceReady, Types, FlagTypes, JobsTypes,
    Starting, Leaving, Listing, Opening
<1>34. CASE Close
  BY <1>34 DEF
    Close, ListUnchanged, app, context, thread, At, Up, Working, Doing, Act, ListFree,
    IInv, PlaceInv, PlaceExit, PlaceReady, Types, FlagTypes, JobsTypes, Starting,
    Leaving, Listing, Opening
<1>35. CASE FreeList
  <2>1. UNCHANGED <<pc, active, jobs, handle, messages, leftover>>
    BY <1>35 DEF
      FreeList, ListUnchanged, bus, memory, thread, context, hotplug, app
  <2> QED
    BY <2>1 DEF IInv, PlaceInv, PlaceExit
<1>36. CASE Register
  BY <1>36 DEF
    Register, HotplugUnchanged, app, context, thread, At, Up, Working, Doing, Act,
    ListFree, IInv, PlaceInv, PlaceExit, PlaceReady, Types, FlagTypes, JobsTypes,
    Starting, Leaving, Listing, Opening
<1>37. CASE Process
  BY <1>37 DEF
    Process, HotplugUnchanged, app, context, thread, At, Up, Working, Doing, Act,
    ListFree, IInv, PlaceInv, PlaceExit, PlaceReady, Types, FlagTypes, JobsTypes,
    Starting, Leaving, Listing, Opening
<1>38. CASE CallbackCalled
  BY <1>38 DEF
    CallbackCalled, HotplugUnchanged, app, context, thread, At, Up, Working, Doing,
    Act, ListFree, IInv, PlaceInv, PlaceExit, PlaceReady, Types, FlagTypes, JobsTypes,
    Starting, Leaving, Listing, Opening
<1>39. CASE CallbackReturns
  BY <1>39 DEF
    CallbackReturns, HotplugUnchanged, app, context, thread, At, Up, Working, Doing,
    Act, ListFree, IInv, PlaceInv, PlaceExit, PlaceReady, Types, FlagTypes, JobsTypes,
    Starting, Leaving, Listing, Opening
<1>40. CASE Processed
  BY <1>40 DEF
    Processed, HotplugUnchanged, app, context, thread, At, Up, Working, Doing, Act,
    ListFree, IInv, PlaceInv, PlaceExit, PlaceReady, Types, FlagTypes, JobsTypes,
    Starting, Leaving, Listing, Opening
<1>41. CASE Deregister \/ CallbackSkipped \/ MessageDone
  <2>1. UNCHANGED <<pc, active, jobs, handle, messages, leftover>>
    BY <1>41 DEF
      Deregister, CallbackSkipped, MessageDone, HotplugUnchanged, RefsUnchanged, bus,
      memory, thread, context, hotplug, app
  <2> QED
    BY <2>1 DEF IInv, PlaceInv, PlaceExit
<1>42. CASE ExitBegins
  BY <1>42 DEF
    ExitBegins, ExitUnchanged, app, context, thread, At, Up, Working, Doing, Act,
    ListFree, IInv, PlaceInv, PlaceExit, PlaceReady, Types, FlagTypes, JobsTypes,
    Starting, Leaving, Listing, Opening
<1>43. CASE FreeCallbacks
  BY <1>43 DEF
    FreeCallbacks, ExitUnchanged, app, context, thread, At, Up, Working, Doing, Act,
    ListFree, IInv, PlaceInv, PlaceExit, PlaceReady, Types, FlagTypes, JobsTypes,
    Starting, Leaving, Listing, Opening
<1>44. CASE FreeMessage
  BY <1>44 DEF
    FreeMessage, ExitUnchanged, RefsUnchanged, app, context, thread, At, Up, Working,
    Doing, Act, ListFree, IInv, PlaceInv, PlaceExit, PlaceReady, Types, FlagTypes,
    JobsTypes, Starting, Leaving, Listing, Opening
<1>45. CASE FreeDevices
  BY <1>45 DEF
    FreeDevices, ExitUnchanged, app, context, thread, At, Up, Working, Doing, Act,
    ListFree, IInv, PlaceInv, PlaceExit, PlaceReady, Types, FlagTypes, JobsTypes,
    Starting, Leaving, Listing, Opening
<1>46. CASE FreeDevice
  BY <1>46 DEF
    FreeDevice, ExitUnchanged, app, context, thread, At, Up, Working, Doing, Act,
    ListFree, IInv, PlaceInv, PlaceExit, PlaceReady, Types, FlagTypes, JobsTypes,
    Starting, Leaving, Listing, Opening
<1>47. CASE StopMonitor
  BY <1>47 DEF
    StopMonitor, ExitUnchanged, app, context, thread, At, Up, Working, Doing, Act,
    ListFree, IInv, PlaceInv, PlaceExit, PlaceReady, Types, FlagTypes, JobsTypes,
    Starting, Leaving, Listing, Opening
<1>48. CASE ExitEnds
  BY <1>48 DEF
    ExitEnds, ExitUnchanged, app, context, thread, At, Up, Working, Doing, Act,
    ListFree, IInv, PlaceInv, PlaceExit, PlaceReady, Types, FlagTypes, JobsTypes,
    Starting, Leaving, Listing, Opening
<1>49. CASE ExitNot
  <2>1. UNCHANGED <<pc, active, jobs, handle, messages, leftover>>
    BY <1>49 DEF
      ExitNot, ExitUnchanged, RefsUnchanged, bus, memory, thread, context, hotplug, app
  <2> QED
    BY <2>1 DEF IInv, PlaceInv, PlaceExit
<1>50. CASE UNCHANGED vars
  BY <1>50 DEF vars, bus, memory, thread, context, hotplug, app, IInv, PlaceInv, PlaceExit
<1> QED
  BY <1>1, <1>2, <1>3, <1>4, <1>5, <1>6, <1>7, <1>8, <1>9, <1>10, <1>11, <1>12, <1>13,
     <1>14, <1>15, <1>16, <1>17, <1>18, <1>19, <1>20, <1>21, <1>22, <1>23, <1>24, <1>25,
     <1>26, <1>27, <1>28, <1>29, <1>30, <1>31, <1>32, <1>33, <1>34, <1>35, <1>36, <1>37,
     <1>38, <1>39, <1>40, <1>41, <1>42, <1>43, <1>44, <1>45, <1>46, <1>47, <1>48, <1>49,
     <1>50
     DEF Next, Work, Monitor, Initialise, Use, Events, Exit

\* What the application has in hand.
LEMMA PlaceAppStep ==
  ASSUME IInv, [Next]_vars
  PROVE  PlaceApp'
<1>1. CASE \E s \in Sessions : Plug(s) \/ Unplug(s)
  <2>1. UNCHANGED <<pc, handle, enumerating, held>>
    BY <1>1 DEF
      Plug, Unplug, BusUnchanged, bus, memory, thread, context, hotplug, app
  <2> QED
    BY <2>1 DEF IInv, PlaceInv, PlaceApp
<1>2. CASE Known \/ Allocate \/ HasParent \/ NoParent \/ ParentFirst \/ Attach
           \/ Arrived \/ Gone \/ Detach \/ Left \/ DropFound
  <2>1. UNCHANGED <<pc, handle, enumerating, held>>
    BY <1>2 DEF
      Known, Allocate, HasParent, NoParent, ParentFirst, Attach, Arrived, Gone, Detach,
      Left, DropFound, WorkUnchanged, bus, memory, thread, context, hotplug, app
  <2> QED
    BY <2>1 DEF IInv, PlaceInv, PlaceApp
<1>3. CASE MonitorWakes \/ MonitorReads \/ MonitorDone \/ MonitorExits
  <2>1. UNCHANGED <<pc, handle, enumerating, held>>
    BY <1>3 DEF
      MonitorWakes, MonitorReads, MonitorDone, MonitorExits, MonitorUnchanged, bus,
      memory, thread, context, hotplug, app
  <2> QED
    BY <2>1 DEF IInv, PlaceInv, PlaceApp
<1>4. CASE InitBegins
  BY <1>4 DEF
    InitBegins, InitUnchanged, app, context, hotplug, At, Up, IInv, PlaceInv, PlaceApp,
    PlaceReady, Types, AppTypes, Starting, Leaving, Listing, Opening
<1>5. CASE MonitorStarts
  BY <1>5 DEF
    MonitorStarts, InitUnchanged, app, context, hotplug, At, Up, IInv, PlaceInv,
    PlaceApp, PlaceReady, Types, AppTypes, Starting, Leaving, Listing, Opening
<1>6. CASE ScanBegins
  BY <1>6 DEF
    ScanBegins, InitUnchanged, app, context, hotplug, At, Up, IInv, PlaceInv, PlaceApp,
    PlaceReady, Types, AppTypes, Starting, Leaving, Listing, Opening
<1>7. CASE ScanEnds
  BY <1>7 DEF
    ScanEnds, InitUnchanged, app, context, hotplug, At, Up, IInv, PlaceInv, PlaceApp,
    PlaceReady, Types, AppTypes, Starting, Leaving, Listing, Opening
<1>8. CASE InitEnds
  BY <1>8 DEF
    InitEnds, InitUnchanged, app, context, hotplug, At, Up, IInv, PlaceInv, PlaceApp,
    PlaceReady, Types, AppTypes, Starting, Leaving, Listing, Opening
<1>9. CASE ScanFails
  BY <1>9 DEF
    ScanFails, InitUnchanged, app, context, hotplug, At, Up, IInv, PlaceInv, PlaceApp,
    PlaceReady, Types, AppTypes, Starting, Leaving, Listing, Opening
<1>10. CASE GivesUp
  BY <1>10 DEF
    GivesUp, InitUnchanged, app, context, hotplug, At, Up, IInv, PlaceInv, PlaceApp,
    PlaceReady, Types, AppTypes, Starting, Leaving, Listing, Opening
<1>11. CASE InitAgain \/ ScanEntry
  <2>1. UNCHANGED <<pc, handle, enumerating, held>>
    BY <1>11 DEF
      InitAgain, ScanEntry, InitUnchanged, bus, memory, thread, context, hotplug, app
  <2> QED
    BY <2>1 DEF IInv, PlaceInv, PlaceApp
<1>12. CASE ListBegins
  BY <1>12 DEF
    ListBegins, ListUnchanged, app, context, hotplug, At, Up, IInv, PlaceInv, PlaceApp,
    PlaceReady, Types, AppTypes, Starting, Leaving, Listing, Opening
<1>13. CASE PollBegins
  BY <1>13 DEF
    PollBegins, ListUnchanged, app, context, hotplug, At, Up, IInv, PlaceInv, PlaceApp,
    PlaceReady, Types, AppTypes, Starting, Leaving, Listing, Opening
<1>14. CASE PollReads
  BY <1>14 DEF
    PollReads, ListUnchanged, app, context, hotplug, At, Up, IInv, PlaceInv, PlaceApp,
    PlaceReady, Types, AppTypes, Starting, Leaving, Listing, Opening
<1>15. CASE PollEmpty
  BY <1>15 DEF
    PollEmpty, ListUnchanged, app, context, hotplug, At, Up, IInv, PlaceInv, PlaceApp,
    PlaceReady, Types, AppTypes, Starting, Leaving, Listing, Opening
<1>16. CASE CopyList
  BY <1>16 DEF
    CopyList, ListUnchanged, app, context, hotplug, At, Up, IInv, PlaceInv, PlaceApp,
    PlaceReady, Types, AppTypes, Starting, Leaving, Listing, Opening
<1>17. CASE Enumerate
  BY <1>17 DEF
    Enumerate, ListUnchanged, app, context, hotplug, At, Up, IInv, PlaceInv, PlaceApp,
    PlaceReady, Types, AppTypes, Starting, Leaving, Listing, Opening
<1>18. CASE FreeList
  BY <1>18 DEF
    FreeList, ListUnchanged, app, context, hotplug, At, Up, IInv, PlaceInv, PlaceApp,
    PlaceReady, Types, AppTypes, Starting, Leaving, Listing, Opening
<1>19. CASE Open
  BY <1>19 DEF
    Open, ListUnchanged, app, context, hotplug, At, Up, IInv, PlaceInv, PlaceApp,
    PlaceReady, Types, AppTypes, Starting, Leaving, Listing, Opening
<1>20. CASE OpenNode
  BY <1>20 DEF
    OpenNode, ListUnchanged, app, context, hotplug, At, Up, IInv, PlaceInv, PlaceApp,
    PlaceReady, Types, AppTypes, Starting, Leaving, Listing, Opening
<1>21. CASE OpenMissing
  BY <1>21 DEF
    OpenMissing, ListUnchanged, app, context, hotplug, At, Up, IInv, PlaceInv,
    PlaceApp, PlaceReady, Types, AppTypes, Starting, Leaving, Listing, Opening
<1>22. CASE OpenFails
  BY <1>22 DEF
    OpenFails, ListUnchanged, app, context, hotplug, At, Up, IInv, PlaceInv, PlaceApp,
    PlaceReady, Types, AppTypes, Starting, Leaving, Listing, Opening
<1>23. CASE Close
  BY <1>23 DEF
    Close, ListUnchanged, app, context, hotplug, At, Up, IInv, PlaceInv, PlaceApp,
    PlaceReady, Types, AppTypes, Starting, Leaving, Listing, Opening
<1>24. CASE Register
  <2>1. \/ pc' = pc /\ enumerating' = enumerating
        \/ pc = "idle" /\ users > 0 /\ pc' = "lock" /\ enumerating' \in Callbacks
    BY <1>24 DEF Register, Up, At
  <2>2. UNCHANGED <<users, monitor, stopping, usbDevs, handle, held>>
    BY <1>24 DEF Register, HotplugUnchanged, context, app, thread
  <2> QED
    BY <2>1, <2>2, UsbDevicesAssumption DEF IInv, PlaceInv, PlaceApp, PlaceReady,
       Starting, Listing, Opening, Types, AppTypes, FlagTypes
<1>25. CASE Process
  BY <1>25 DEF
    Process, HotplugUnchanged, app, context, hotplug, At, Up, IInv, PlaceInv, PlaceApp,
    PlaceReady, Types, AppTypes, Starting, Leaving, Listing, Opening
<1>26. CASE CallbackCalled
  BY <1>26 DEF
    CallbackCalled, HotplugUnchanged, app, context, hotplug, At, Up, IInv, PlaceInv,
    PlaceApp, PlaceReady, Types, AppTypes, Starting, Leaving, Listing, Opening
<1>27. CASE CallbackReturns
  BY <1>27 DEF
    CallbackReturns, HotplugUnchanged, app, context, hotplug, At, Up, IInv, PlaceInv,
    PlaceApp, PlaceReady, Types, AppTypes, Starting, Leaving, Listing, Opening
<1>28. CASE Processed
  BY <1>28 DEF
    Processed, HotplugUnchanged, app, context, hotplug, At, Up, IInv, PlaceInv,
    PlaceApp, PlaceReady, Types, AppTypes, Starting, Leaving, Listing, Opening
<1>29. CASE Deregister \/ CallbackSkipped \/ MessageDone
  <2>1. UNCHANGED <<pc, handle, enumerating, held>>
    BY <1>29 DEF
      Deregister, CallbackSkipped, MessageDone, HotplugUnchanged, RefsUnchanged, bus,
      memory, thread, context, hotplug, app
  <2> QED
    BY <2>1 DEF IInv, PlaceInv, PlaceApp
<1>30. CASE ExitBegins
  BY <1>30 DEF
    ExitBegins, ExitUnchanged, app, context, hotplug, At, Up, IInv, PlaceInv, PlaceApp,
    PlaceReady, Types, AppTypes, Starting, Leaving, Listing, Opening
<1>31. CASE FreeCallbacks
  BY <1>31 DEF
    FreeCallbacks, ExitUnchanged, app, context, hotplug, At, Up, IInv, PlaceInv,
    PlaceApp, PlaceReady, Types, AppTypes, Starting, Leaving, Listing, Opening
<1>32. CASE FreeDevices
  BY <1>32 DEF
    FreeDevices, ExitUnchanged, app, context, hotplug, At, Up, IInv, PlaceInv,
    PlaceApp, PlaceReady, Types, AppTypes, Starting, Leaving, Listing, Opening
<1>33. CASE StopMonitor
  BY <1>33 DEF
    StopMonitor, ExitUnchanged, app, context, hotplug, At, Up, IInv, PlaceInv,
    PlaceApp, PlaceReady, Types, AppTypes, Starting, Leaving, Listing, Opening
<1>34. CASE ExitEnds
  BY <1>34 DEF
    ExitEnds, ExitUnchanged, app, context, hotplug, At, Up, IInv, PlaceInv, PlaceApp,
    PlaceReady, Types, AppTypes, Starting, Leaving, Listing, Opening
<1>35. CASE ExitNot \/ FreeMessage \/ FreeDevice
  <2>1. UNCHANGED <<pc, handle, enumerating, held>>
    BY <1>35 DEF
      ExitNot, FreeMessage, FreeDevice, ExitUnchanged, RefsUnchanged, bus, memory,
      thread, context, hotplug, app
  <2> QED
    BY <2>1 DEF IInv, PlaceInv, PlaceApp
<1>36. CASE UNCHANGED vars
  BY <1>36 DEF vars, bus, memory, thread, context, hotplug, app, IInv, PlaceInv, PlaceApp
<1> QED
  BY <1>1, <1>2, <1>3, <1>4, <1>5, <1>6, <1>7, <1>8, <1>9, <1>10, <1>11, <1>12, <1>13,
     <1>14, <1>15, <1>16, <1>17, <1>18, <1>19, <1>20, <1>21, <1>22, <1>23, <1>24, <1>25,
     <1>26, <1>27, <1>28, <1>29, <1>30, <1>31, <1>32, <1>33, <1>34, <1>35, <1>36
     DEF Next, Work, Monitor, Initialise, Use, Events, Exit

\* The types together.
LEMMA TypesStep == IInv /\ [Next]_vars => Types'
BY MemStep, BusStep, LockStep, JobsStep, ListStep, FlagStep, AppStep, HotStep DEF Types

\* The places together.
LEMMA PlaceStep == IInv /\ [Next]_vars => PlaceInv'
BY PlaceLockStep, PlaceReadyStep, PlaceMonitorStep, PlaceMessagesStep, PlaceExitStep,
   PlaceAppStep DEF PlaceInv

-----------------------------------------------------------------------------
(* Every step keeps the count of the references. *)

\* What a call in progress holds.
Weight(j, d) ==
  IF j.dev = d /\ j.at \in Holding THEN IF j.at = "left" THEN 2 ELSE 1 ELSE 0
Holds(s, d) == Number(s, JobsOf(d, Holding)) + Number(s, JobsOf(d, {"left"}))

\* What one more call holds.
LEMMA HoldsAppend ==
  ASSUME NEW s \in Seq(Jobs), NEW j \in Jobs, NEW d \in Devices
  PROVE  /\ Holds(s, d) \in Nat /\ Weight(j, d) \in Nat
         /\ Holds(Append(s, j), d) = Holds(s, d) + Weight(j, d)
<1>1. /\ Number(s, JobsOf(d, Holding)) \in Nat /\ Number(s, JobsOf(d, {"left"})) \in Nat
      /\ Number(Append(s, j), JobsOf(d, Holding))
           = Number(s, JobsOf(d, Holding)) + Count(j \in JobsOf(d, Holding))
      /\ Number(Append(s, j), JobsOf(d, {"left"}))
           = Number(s, JobsOf(d, {"left"})) + Count(j \in JobsOf(d, {"left"}))
  BY NumberNat, NumberAppend
<1>2. /\ Weight(j, d) = Count(j \in JobsOf(d, Holding)) + Count(j \in JobsOf(d, {"left"}))
      /\ Weight(j, d) \in Nat
  BY DEF Weight, JobsOf, Count, Holding
<1>3. Count(j \in JobsOf(d, Holding)) \in Nat /\ Count(j \in JobsOf(d, {"left"})) \in Nat
  BY DEF Count
<1> QED
  BY <1>1, <1>2, <1>3 DEF Holds

\* No call holds nothing.
LEMMA HoldsNone ==
  ASSUME NEW d \in Devices
  PROVE  Holds(<<>>, d) = 0
BY NumberNone DEF Holds

\* What the operations do to it.
LEMMA Weighs ==
  ASSUME JobsTypes, Working, NEW d \in Devices
  PROVE  /\ JobRefs(d) \in Nat /\ Weight(Now, d) \in Nat /\ JobRefs(d) >= Weight(Now, d)
         /\ Done => JobRefs(d)' = JobRefs(d) - Weight(Now, d)
         /\ \A j \in Jobs : Becomes(j) =>
              JobRefs(d)' = (JobRefs(d) - Weight(Now, d)) + Weight(j, d)
         /\ \A i, j \in Jobs : jobs' = Front(jobs) \o <<i, j>> =>
              JobRefs(d)' = (JobRefs(d) - Weight(Now, d)) + Weight(i, d) + Weight(j, d)
<1> DEFINE f == Front(jobs)
<1>1. /\ Now \in Jobs /\ f \in Seq(Jobs) /\ jobs = Append(f, Now)
      /\ \A j \in Jobs : f \o <<j>> = Append(f, j)
      /\ \A i, j \in Jobs : f \o <<i, j>> = Append(Append(f, i), j)
  BY StackTypes, FrontLast DEF JobsTypes, Working, Now
<1>2. JobRefs(d) = Holds(jobs, d) /\ JobRefs(d)' = Holds(jobs', d)
  BY DEF JobRefs, Holds
<1>3. Done => jobs' = f
  BY DEF Done
<1>4. \A j \in Jobs : Becomes(j) => jobs' = f \o <<j>>
  BY DEF Becomes
<1> HIDE DEF f
<1>5. /\ Holds(f, d) \in Nat /\ Weight(Now, d) \in Nat
      /\ JobRefs(d) = Holds(f, d) + Weight(Now, d)
  BY <1>1, <1>2, HoldsAppend
<1>6. \A j \in Jobs : Holds(Append(f, j), d) = Holds(f, d) + Weight(j, d) /\ Weight(j, d) \in Nat
  BY <1>1, HoldsAppend
<1>7. ASSUME NEW i \in Jobs, NEW j \in Jobs
      PROVE  Holds(Append(Append(f, i), j), d) = Holds(f, d) + Weight(i, d) + Weight(j, d)
  <2>1. Append(f, i) \in Seq(Jobs)
    BY <1>1
  <2>2. Holds(Append(Append(f, i), j), d) = Holds(Append(f, i), d) + Weight(j, d)
    BY <2>1, HoldsAppend
  <2> QED
    BY <1>6, <2>2
<1>8. Done => JobRefs(d)' = JobRefs(d) - Weight(Now, d)
  BY <1>2, <1>3, <1>5
<1>9. ASSUME NEW j \in Jobs, Becomes(j)
      PROVE  JobRefs(d)' = (JobRefs(d) - Weight(Now, d)) + Weight(j, d)
  <2>1. JobRefs(d)' = Holds(Append(f, j), d)
    BY <1>1, <1>2, <1>4, <1>9
  <2> QED
    BY <1>5, <1>6, <2>1
<1>10. ASSUME NEW i \in Jobs, NEW j \in Jobs, jobs' = f \o <<i, j>>
       PROVE  JobRefs(d)' = (JobRefs(d) - Weight(Now, d)) + Weight(i, d) + Weight(j, d)
  <2>1. JobRefs(d)' = Holds(Append(Append(f, i), j), d)
    BY <1>1, <1>2, <1>10
  <2> QED
    BY <1>5, <1>6, <1>7, <2>1
<1> QED
  BY <1>5, <1>8, <1>9, <1>10 DEF f

\* Nobody is at work, or a new work begins.
LEMMA WeighsNone ==
  ASSUME NEW d \in Devices
  PROVE  /\ jobs = <<>> => JobRefs(d) = 0
         /\ jobs' = <<>> => JobRefs(d)' = 0
         /\ \A at \in {"find", "lose"}, s \in Sessions : jobs' = <<Job(at, s)>> => JobRefs(d)' = 0
<1>1. JobRefs(d) = Holds(jobs, d) /\ JobRefs(d)' = Holds(jobs', d)
  BY DEF JobRefs, Holds
<1>2. ASSUME NEW at \in {"find", "lose"}, NEW s \in Sessions
      PROVE  Holds(<<Job(at, s)>>, d) = 0
  <2>1. Job(at, s) \in Jobs /\ Job(at, s).at = at
    BY JobTypes
  <2>2. Weight(Job(at, s), d) = 0
    BY <2>1 DEF Weight, Holding
  <2>3. <<>> \in Seq(Jobs) /\ Append(<<>>, Job(at, s)) = <<Job(at, s)>>
    OBVIOUS
  <2>4. Holds(Append(<<>>, Job(at, s)), d) = Holds(<<>>, d) + Weight(Job(at, s), d)
    BY <2>1, <2>3, HoldsAppend
  <2> QED
    BY <2>2, <2>3, <2>4, HoldsNone
<1> QED
  BY <1>1, <1>2, HoldsNone

\* The messages.
LEMMA MsgWeighs ==
  ASSUME ListTypes, NEW d \in Devices
  PROVE  /\ Number(messages, LeftOf(d)) \in Nat /\ Number(batch, LeftOf(d)) \in Nat
         /\ \A e \in {"arrived", "left"}, f \in Devices : messages' = Append(messages, Event(e, f)) =>
              Number(messages, LeftOf(d))'
                = Number(messages, LeftOf(d)) + IF e = "left" /\ d = f THEN 1 ELSE 0
         /\ messages # <<>> /\ messages' = Tail(messages) =>
              Number(messages, LeftOf(d))' = Number(messages, LeftOf(d)) -
                IF HoldsDevice(Head(messages)) /\ Head(messages).dev = d THEN 1 ELSE 0
         /\ batch # <<>> /\ batch' = Tail(batch) =>
              Number(batch, LeftOf(d))' = Number(batch, LeftOf(d)) -
                IF HoldsDevice(Head(batch)) /\ Head(batch).dev = d THEN 1 ELSE 0
<1>1. messages \in Seq(Messages) /\ batch \in Seq(Messages)
  BY DEF ListTypes
<1>2. \A q \in {messages, batch} : Number(q, LeftOf(d)) \in Nat
  BY <1>1, NumberNat
<1>3. \A m \in Messages :
        Count(m \in LeftOf(d)) = IF HoldsDevice(m) /\ m.dev = d THEN 1 ELSE 0
  BY DEF Messages, LeftOf, HoldsDevice, Count
<1>4. ASSUME NEW e \in {"arrived", "left"}, NEW f \in Devices,
             messages' = Append(messages, Event(e, f))
      PROVE  Number(messages, LeftOf(d))'
               = Number(messages, LeftOf(d)) + IF e = "left" /\ d = f THEN 1 ELSE 0
  <2>1. Event(e, f) \in Messages /\ Event(e, f).event = e /\ Event(e, f).dev = f
    BY DEF Event, Messages
  <2>2. Number(Append(messages, Event(e, f)), LeftOf(d))
          = Number(messages, LeftOf(d)) + Count(Event(e, f) \in LeftOf(d))
    BY <1>1, <2>1, NumberAppend
  <2> QED
    BY <1>2, <1>3, <1>4, <2>1, <2>2 DEF HoldsDevice
<1>5. ASSUME NEW q \in {messages, batch}, q # <<>>
      PROVE  Number(Tail(q), LeftOf(d)) = Number(q, LeftOf(d)) -
               IF HoldsDevice(Head(q)) /\ Head(q).dev = d THEN 1 ELSE 0
  <2>1. q \in Seq(Messages) /\ Head(q) \in Messages /\ Tail(q) \in Seq(Messages)
    BY <1>1, <1>5
  <2>2. Number(q, LeftOf(d)) = Number(Tail(q), LeftOf(d)) + Count(Head(q) \in LeftOf(d))
    BY <1>5, <2>1, NumberTail
  <2>3. Number(Tail(q), LeftOf(d)) \in Nat
    BY <2>1, NumberNat
  <2> QED
    BY <1>3, <2>1, <2>2, <2>3
<1> QED
  BY <1>1, <1>2, <1>4, <1>5

\* The numbers are numbers.
OthersTyped ==
  \A d \in Devices :
    /\ MsgRefs(d) \in Nat /\ JobRefs(d) \in Nat /\ AppRefs(d) \in Nat
    /\ Count(Own(d)) \in Nat /\ Count(d \in lost) \in Nat /\ Others(d) \in Nat
\* Others and its parts are natural numbers: a form that can be primed.
LEMMA OthersNumbers == Types => OthersTyped
BY OthersIs DEF OthersTyped

\* The count stays exact when what a device is given and what it loses agree.
LEMMA Rebalance ==
  ASSUME Types, Types', RefsExact,
         \A d \in Devices :
           refs'[d] = refs[d] + (Others(d)' - Others(d))
                              + (Cardinality(Children(d)') - Cardinality(Children(d)))
  PROVE  RefsExact'
<1>1. RefsExact' <=> Counted(Beside)'
  BY OthersIs, PTL
<1>2. Counted(Beside) /\ Beside \in [Devices -> Nat]
  BY OthersIs
<1>3. ASSUME NEW d \in Devices
      PROVE  /\ Others(d) \in Nat /\ Others(d)' \in Nat
             /\ Cardinality(Children(d)) \in Nat /\ Cardinality(Children(d)') \in Nat
  <2>1. Children(d) \in SUBSET Devices /\ Children(d)' \in SUBSET Devices
    BY DEF Children, Alive
  <2>2. Others(d) \in Nat
    BY OthersIs
  <2>3. OthersTyped'
    BY OthersNumbers, PTL
  <2> QED
    BY <2>1, <2>2, <2>3, DevicesFinite DEF OthersTyped
<1>4. ASSUME NEW d \in Devices
      PROVE  refs'[d] = Others(d)' + Cardinality(Children(d)')
  <2>1. refs[d] = Others(d) + Cardinality(Children(d))
    BY <1>2 DEF Counted, Beside
  <2> QED
    BY <1>3, <2>1
<1>5. Counted(Beside)'
  BY <1>4 DEF Counted, Beside
<1> QED
  BY <1>1, <1>5

\* Nobody is born, dies or moves.
SameFamily == parent' = parent /\ Alive' = Alive
\* ... and so nobody's children change.
LEMMA Families ==
  ASSUME SameFamily, NEW d \in Devices
  PROVE  Children(d)' = Children(d)
BY DEF SameFamily, Children

\* Where families stay, the count is exact if the others' parts agree.
LEMMA OthersMove ==
  ASSUME Types, Types', RefsExact, SameFamily,
         \A d \in Devices :
           /\ refs'[d] = refs[d] + ((Count(Own(d))' - Count(Own(d))) + (MsgRefs(d)' - MsgRefs(d))
                                    + (JobRefs(d)' - JobRefs(d)) + (AppRefs(d)' - AppRefs(d))
                                    + (Count(d \in lost)' - Count(d \in lost)))
  PROVE  RefsExact'
<1>1. ASSUME NEW d \in Devices
      PROVE  refs'[d] = refs[d] + (Others(d)' - Others(d))
                              + (Cardinality(Children(d)') - Cardinality(Children(d)))
  <2>1. /\ MsgRefs(d) \in Nat /\ JobRefs(d) \in Nat /\ AppRefs(d) \in Nat
        /\ Count(Own(d)) \in Nat /\ Count(d \in lost) \in Nat
    BY OthersIs
  <2>2. OthersTyped'
    BY OthersNumbers, PTL
  <2>3. Children(d)' = Children(d) /\ Cardinality(Children(d)) \in Nat
    <3>1. Children(d) \in SUBSET Devices
      BY DEF Children, Alive
    <3> QED
      BY <3>1, Families, DevicesFinite
  <2>4. refs[d] \in Nat
    BY DEF Types, MemTypes
  <2>5. Others(d) = Count(Own(d)) + MsgRefs(d) + JobRefs(d) + AppRefs(d) + Count(d \in lost)
    BY DEF Others
  <2>6. Others(d)' = Count(Own(d))' + MsgRefs(d)' + JobRefs(d)' + AppRefs(d)' + Count(d \in lost)'
    BY DEF Others
  <2> QED
    BY <2>1, <2>2, <2>3, <2>4, <2>5, <2>6 DEF OthersTyped
<1> QED
  BY <1>1, Rebalance

\* Who does not touch the references keeps them exact.
LEMMA RefFrame ==
  ASSUME Types, Types', RefsExact,
         UNCHANGED <<usbDevs, refs, parent, messages, batch, held, handle, lost, leftover>>,
         pc' = pc \/ {pc, pc'} \cap {"devices", "join"} = {},
         \A d \in Devices : JobRefs(d)' = JobRefs(d)
  PROVE  RefsExact'
<1>1. SameFamily
  BY DEF SameFamily, Alive
<1>2. ASSUME NEW d \in Devices
      PROVE  /\ Count(Own(d))' = Count(Own(d)) /\ MsgRefs(d)' = MsgRefs(d)
             /\ AppRefs(d)' = AppRefs(d) /\ Count(d \in lost)' = Count(d \in lost)
             /\ refs[d] \in Nat
  BY DEF Own, At, MsgRefs, AppRefs, Types, MemTypes
<1>3. OthersTyped
  BY OthersNumbers
<1>4. \A d \in Devices :
        refs'[d] = refs[d] + ((Count(Own(d))' - Count(Own(d))) + (MsgRefs(d)' - MsgRefs(d))
                              + (JobRefs(d)' - JobRefs(d)) + (AppRefs(d)' - AppRefs(d))
                              + (Count(d \in lost)' - Count(d \in lost)))
  BY <1>2, <1>3 DEF OthersTyped
<1> QED
  BY <1>1, <1>4, OthersMove

\* Every operation takes as many references as it begins to refer, and drops as many
\* as it ceases to.
LEMMA RefStep ==
  ASSUME IInv, Types', [Next]_vars
  PROVE  RefsExact'
<1>1. CASE \E s \in Sessions : Plug(s) \/ Unplug(s)
  <2>1. UNCHANGED <<jobs, usbDevs, refs, parent, messages, batch, held, handle, lost, leftover, pc>>
    BY <1>1 DEF
      Plug, Unplug, BusUnchanged, bus, memory, thread, context, hotplug, app
  <2> QED
    BY <2>1, RefFrame DEF IInv, JobRefs
<1>2. CASE Known
  <2>1. UNCHANGED <<usbDevs, refs, parent, messages, batch, held, handle, lost, leftover>> /\ pc' = pc
    BY <1>2 DEF Known, WorkUnchanged, memory, app
  <2>2. Working /\ Now.at = "find" /\ Done
    BY <1>2, Doings DEF Known
  <2>9. \A d \in Devices : JobRefs(d)' = JobRefs(d)
    BY <2>2, Weighs DEF IInv, Types, Weight, Holding
  <2> QED
    BY <2>1, <2>9, RefFrame DEF IInv
<1>3. CASE Allocate
  <2>1. /\ Working /\ Now \in Jobs /\ Now.at = "find" /\ Now.id \in Sessions
        /\ pc \notin {"devices", "join"}
    <3>1. Working /\ Now.at = "find"
      BY <1>3, Doings DEF Allocate
    <3>2. Now \in Jobs /\ JobOK(Now)
      BY <3>1, StackIs DEF IInv, Types
    <3>3. pc \notin {"devices", "join"}
      BY <3>1 DEF IInv, PlaceInv, PlaceExit, Leaving, Working
    <3> QED
      BY <3>1, <3>2, <3>3 DEF JobOK, Jobs
  <2>2. PICK e \in Devices \ Alive :
          /\ refs' = [refs EXCEPT ![e] = 1]
          /\ Becomes([Now EXCEPT !.at = "parent", !.dev = e])
    BY <1>3 DEF Allocate
  <2>3. UNCHANGED <<usbDevs, parent, messages, batch, held, handle, lost, leftover, pc>>
    BY <1>3 DEF Allocate, WorkUnchanged, app
  <2> DEFINE j == [Now EXCEPT !.at = "parent", !.dev = e]
  <2>4. j \in Jobs /\ Becomes(j) /\ j.at = "parent" /\ j.dev = e
    <3>1. Becomes(j)
      BY <2>2
    <3>2. "parent" \in Ats /\ e \in Devices \cup {NoDevice}
      BY DEF Ats
    <3>3. j \in Jobs /\ j.at = "parent" /\ j.dev = e
      BY <2>1, <3>2 DEF Jobs, Ats
    <3> QED
      BY <3>1, <3>3
  <2> HIDE DEF j
  <2>5. \A d \in Devices : JobRefs(d)' = JobRefs(d) + (IF d = e THEN 1 ELSE 0)
    BY <2>1, <2>4, Weighs DEF IInv, Types, Weight, Holding
  <2>6. /\ OthersTyped /\ refs \in [Devices -> Nat]
        /\ \A d \in Devices : Children(d) \in SUBSET Devices
    BY OthersNumbers DEF IInv, Types, MemTypes, Children, Alive
  <2>7. refs[e] = 0 /\ parent[e] = NoDevice
    BY <2>2, <2>6 DEF Alive, IInv, MemInv
  <2>8. \A d \in Devices : refs'[d] = refs[d] + (IF d = e THEN 1 ELSE 0)
    BY <2>2, <2>6, <2>7
  <2>9. \A d \in Devices :
           /\ Count(Own(d))' = Count(Own(d)) /\ MsgRefs(d)' = MsgRefs(d)
           /\ AppRefs(d)' = AppRefs(d) /\ Count(d \in lost)' = Count(d \in lost)
    BY <2>3 DEF Own, At, MsgRefs, AppRefs
  <2>10. \A d \in Devices : Others(d)' = Others(d) + (IF d = e THEN 1 ELSE 0)
    BY <2>5, <2>6, <2>9 DEF Others, OthersTyped
  <2>11. \A d \in Devices : Children(d)' = Children(d)
    <3>1. Alive' = Alive \cup {e}
      BY <2>2, <2>6, <2>8 DEF Alive
    <3> QED
      BY <2>3, <2>7, <3>1, NotADevice DEF Children
  <2>12. \A d \in Devices :
           refs'[d] = refs[d] + (Others(d)' - Others(d))
                              + (Cardinality(Children(d)') - Cardinality(Children(d)))
    BY <2>6, <2>8, <2>10, <2>11, DevicesFinite DEF OthersTyped
  <2> QED
    BY <2>12, Rebalance DEF IInv
<1>4. CASE HasParent
  <2>1. /\ Working /\ Now \in Jobs /\ Now.at \in {"parent", "again"} /\ Now.dev \in Devices
        /\ parent[Now.dev] = NoDevice /\ Now.dev \in Alive
    <3>1. Working /\ Now.at \in {"parent", "again"}
      BY <1>4, Doings DEF HasParent
    <3>2. Now \in Jobs /\ JobOK(Now) /\ Now \in Stack
      BY <3>1, StackIs DEF IInv, Types
    <3>3. Now.dev \in Devices
      BY <3>1, <3>2 DEF JobOK, Jobs
    <3>4. Now.dev \in Alive
      BY <3>1, <3>2, <3>3, Referred, NotADevice DEF IInv, Holding
    <3> QED
      BY <3>1, <3>2, <3>3, <3>4 DEF JobOK
  <2> DEFINE n == Now.dev
             j == [Now EXCEPT !.at = "attach"]
  <2>2. j \in Jobs /\ Becomes(j) /\ j.at = "attach" /\ j.dev = n
    <3>1. Becomes(j)
      BY <1>4 DEF HasParent
    <3>2. "attach" \in Ats /\ NoDevice \in Devices \cup {NoDevice}
      BY DEF Ats
    <3>3. j \in Jobs /\ j.at = "attach" /\ j.dev = n
      BY <2>1, <3>2 DEF Jobs, Ats
    <3> QED
      BY <3>1, <3>3
  <2>3. PICK p \in Find(Parent[Now.id]) : Ref(p) /\ parent' = [parent EXCEPT ![n] = p]
    BY <1>4 DEF HasParent
  <2>4. UNCHANGED <<usbDevs, messages, batch, held, handle, lost, leftover, pc>>
    BY <1>4 DEF HasParent, WorkUnchanged, app
  <2> HIDE DEF j
  <2>5. \A d \in Devices : JobRefs(d)' = JobRefs(d)
    <3>1. \A d \in Devices : Weight(j, d) = Weight(Now, d)
      BY <2>1, <2>2 DEF Weight, Holding
    <3> QED
      BY <2>1, <2>2, <3>1, Weighs DEF IInv, Types
  <2> HIDE DEF n
  <2>6. n \in Devices /\ n \in Alive /\ parent[n] = NoDevice /\ p \in Devices /\ p \in Alive
    BY <2>1, <2>3, Named DEF Find, NamedAlive, Alive, n
  <2>7. /\ OthersTyped /\ refs \in [Devices -> Nat] /\ parent \in [Devices -> Devices \cup {NoDevice}]
        /\ \A d \in Devices : Children(d) \in SUBSET Devices
    BY OthersNumbers DEF IInv, Types, MemTypes, Children, Alive
  <2>8. \A d \in Devices : refs'[d] = refs[d] + (IF d = p THEN 1 ELSE 0)
    BY <2>3, <2>6, <2>7 DEF Ref
  <2>9. Alive' = Alive
    BY <2>6, <2>7, <2>8 DEF Alive
  <2>10. \A d \in Devices : Others(d)' = Others(d)
    BY <2>4, <2>5 DEF Others, Own, At, MsgRefs, AppRefs
  <2>11. /\ n \notin Children(p) /\ Children(p)' = Children(p) \cup {n}
         /\ \A d \in Devices : d # p => Children(d)' = Children(d)
    BY <2>3, <2>6, <2>7, <2>9, NotADevice DEF Children
  <2>12. \A d \in Devices : IsFiniteSet(Children(d)) /\ Cardinality(Children(d)) \in Nat
    BY <2>7, DevicesFinite
  <2>13. Cardinality(Children(p)') = Cardinality(Children(p)) + 1
    BY <2>6, <2>11, <2>12, FS_AddElement
  <2>14. ASSUME NEW d \in Devices
         PROVE  refs'[d] = refs[d] + (Others(d)' - Others(d))
                              + (Cardinality(Children(d)') - Cardinality(Children(d)))
    <3>1. /\ refs[d] \in Nat /\ Others(d) \in Nat /\ Others(d)' = Others(d)
          /\ Cardinality(Children(d)) \in Nat
      BY <2>7, <2>10, <2>12 DEF OthersTyped
    <3>2. CASE d = p
      BY <2>8, <2>13, <3>1, <3>2
    <3>3. CASE d # p
      BY <2>8, <2>11, <3>1, <3>3
    <3> QED
      BY <3>2, <3>3
  <2> QED
    BY <2>14, Rebalance DEF IInv
<1>5. CASE NoParent
  <2>1. UNCHANGED <<usbDevs, refs, parent, messages, batch, held, handle, lost, leftover>> /\ pc' = pc
    BY <1>5 DEF NoParent, WorkUnchanged, memory, app
  <2>2. Working /\ Now \in Jobs /\ Now.at \in {"parent", "again"}
    BY <1>5, Doings, StackIs DEF NoParent, IInv, Types
  <2> DEFINE j == [Now EXCEPT !.at = "attach"]
  <2>3. j \in Jobs /\ Becomes(j) /\ j.at = "attach" /\ j.dev = Now.dev
    <3>1. Becomes(j)
      BY <1>5 DEF NoParent
    <3>2. "attach" \in Ats /\ NoDevice \in Devices \cup {NoDevice}
      BY DEF Ats
    <3>3. j \in Jobs /\ j.at = "attach" /\ j.dev = Now.dev
      BY <2>2, <3>2 DEF Jobs, Ats
    <3> QED
      BY <3>1, <3>3
  <2> HIDE DEF j
  <2>9. \A d \in Devices : JobRefs(d)' = JobRefs(d)
    <3>1. \A d \in Devices : Weight(j, d) = Weight(Now, d)
      BY <2>2, <2>3 DEF Weight, Holding
    <3> QED
      BY <2>2, <2>3, <3>1, Weighs DEF IInv, Types
  <2> QED
    BY <2>1, <2>9, RefFrame DEF IInv
<1>6. CASE ParentFirst
  <2>1. UNCHANGED <<usbDevs, refs, parent, messages, batch, held, handle, lost, leftover>> /\ pc' = pc
    BY <1>6 DEF ParentFirst, WorkUnchanged, memory, app
  <2>2. Working /\ Now \in Jobs /\ Now.at = "parent"
    BY <1>6, Doings, StackIs DEF ParentFirst, IInv, Types
  <2>3. Parent[Now.id] \in Sessions
    BY <1>6, <2>2, UsbDevicesAssumption DEF ParentFirst, Jobs
  <2> DEFINE i == [Now EXCEPT !.at = "again"]
             j == Job("find", Parent[Now.id])
  <2>4. /\ i \in Jobs /\ j \in Jobs
        /\ jobs' = Front(jobs) \o <<i, j>> /\ i.at = "again" /\ i.dev = Now.dev
        /\ j.at = "find"
    <3>1. jobs' = Front(jobs) \o <<i, j>>
      BY <1>6 DEF ParentFirst
    <3>2. "again" \in Ats /\ NoDevice \in Devices \cup {NoDevice}
      BY DEF Ats
    <3>3. i \in Jobs /\ i.at = "again" /\ i.dev = Now.dev
      BY <2>2, <3>2 DEF Jobs, Ats
    <3>4. j \in Jobs /\ j.at = "find"
      BY <2>3, JobTypes
    <3> QED
      BY <3>1, <3>3, <3>4
  <2> HIDE DEF i, j
  <2>9. \A d \in Devices : JobRefs(d)' = JobRefs(d)
    <3>1. \A d \in Devices : Weight(i, d) = Weight(Now, d) /\ Weight(j, d) = 0
      BY <2>2, <2>4 DEF Weight, Holding
    <3>2. ASSUME NEW d \in Devices
          PROVE  JobRefs(d)' = JobRefs(d)
      <4>1. /\ JobRefs(d)' = (JobRefs(d) - Weight(Now, d)) + Weight(i, d) + Weight(j, d)
            /\ JobRefs(d) \in Nat /\ Weight(Now, d) \in Nat
        BY <2>2, <2>4, Weighs DEF IInv, Types
      <4> QED
        BY <3>1, <4>1
    <3> QED
      BY <3>2
  <2> QED
    BY <2>1, <2>9, RefFrame DEF IInv
<1>7. CASE Attach
  <2>1. /\ Working /\ Now \in Jobs /\ Now.at = "attach" /\ Now.dev \in Devices
        /\ pc \notin {"devices", "join"} /\ Now.dev \notin usbDevs
    <3>1. Working /\ Now.at = "attach"
      BY <1>7, Doings DEF Attach
    <3>2. Now \in Jobs /\ JobOK(Now)
      BY <3>1, StackIs DEF IInv, Types
    <3>3. pc \notin {"devices", "join"}
      BY <3>1 DEF IInv, PlaceInv, PlaceExit, Leaving, Working
    <3> QED
      BY <3>1, <3>2, <3>3 DEF JobOK, Jobs
  <2> DEFINE j == [Now EXCEPT !.at = "notify"]
  <2>2. j \in Jobs /\ Becomes(j) /\ j.at = "notify" /\ j.dev = Now.dev
    <3>1. Becomes(j)
      BY <1>7 DEF Attach
    <3>2. Now \in Jobs /\ "notify" \in Ats
      BY <2>1 DEF Ats
    <3>3. j \in Jobs /\ j.at = "notify" /\ j.dev = Now.dev
      BY <3>2, Moved
    <3> QED
      BY <3>1, <3>3
  <2> HIDE DEF j
  <2>21. \A d \in Devices : Count(Own(d))' = Count(Own(d)) + (IF d = Now.dev THEN 1 ELSE 0)
    BY <1>7, <2>1 DEF Attach, WorkUnchanged, app, Own, At, Count
  <2>22. \A d \in Devices : MsgRefs(d)' = MsgRefs(d)
    BY <1>7 DEF Attach, WorkUnchanged, memory, app, MsgRefs
  <2>23. \A d \in Devices : JobRefs(d)' = JobRefs(d) - (IF d = Now.dev THEN 1 ELSE 0)
    BY <2>1, <2>2, Weighs DEF IInv, Types, Weight, Holding
  <2>24. \A d \in Devices : AppRefs(d)' = AppRefs(d)
    BY <1>7 DEF Attach, WorkUnchanged, memory, app, AppRefs
  <2>25. \A d \in Devices : Count(d \in lost)' = Count(d \in lost)
    BY <1>7 DEF Attach, WorkUnchanged, memory, app
  <2>26. \A d \in Devices : refs'[d] = refs[d]
    BY <1>7 DEF Attach
  <2>27. OthersTyped /\ refs \in [Devices -> Nat]
    BY OthersNumbers DEF IInv, Types, MemTypes
  <2>28. SameFamily
    BY <1>7 DEF Attach, WorkUnchanged, memory, app, SameFamily, Alive
  <2>29. \A d \in Devices :
           refs'[d] = refs[d] + ((Count(Own(d))' - Count(Own(d))) + (MsgRefs(d)' - MsgRefs(d))
                                 + (JobRefs(d)' - JobRefs(d)) + (AppRefs(d)' - AppRefs(d))
                                 + (Count(d \in lost)' - Count(d \in lost)))
    BY <2>21, <2>22, <2>23, <2>24, <2>25, <2>26, <2>27 DEF OthersTyped
  <2> QED
    BY <2>28, <2>29, OthersMove DEF IInv
<1>8. CASE Arrived
  <2>1. /\ Working /\ Now \in Jobs /\ Now.at = "notify" /\ Now.dev \in Devices
        /\ pc \notin {"devices", "join"}
    <3>1. Working /\ Now.at = "notify"
      BY <1>8, Doings DEF Arrived
    <3>2. Now \in Jobs /\ JobOK(Now)
      BY <3>1, StackIs DEF IInv, Types
    <3>3. pc \notin {"devices", "join"}
      BY <3>1 DEF IInv, PlaceInv, PlaceExit, Leaving, Working
    <3> QED
      BY <3>1, <3>2, <3>3 DEF JobOK, Jobs
  <2>21. \A d \in Devices : Count(Own(d))' = Count(Own(d))
    BY <1>8, <2>1 DEF Arrived, WorkUnchanged, app, Own, At
  <2>22. \A d \in Devices : MsgRefs(d)' = MsgRefs(d)
    <3>1. messages' = messages \/ messages' = Append(messages, Event("arrived", Now.dev))
      BY <1>8 DEF Arrived, Notify, Event
    <3>2. batch' = batch
      BY <1>8 DEF Arrived, WorkUnchanged
    <3> QED
      BY <2>1, <3>1, <3>2, MsgWeighs DEF IInv, Types, MsgRefs
  <2>23. \A d \in Devices : JobRefs(d)' = JobRefs(d)
    BY <1>8, <2>1, Weighs DEF Arrived, IInv, Types, Weight, Holding
  <2>24. \A d \in Devices : AppRefs(d)' = AppRefs(d)
    BY <1>8 DEF Arrived, WorkUnchanged, memory, app, AppRefs
  <2>25. \A d \in Devices : Count(d \in lost)' = Count(d \in lost)
    BY <1>8 DEF Arrived, WorkUnchanged, memory, app
  <2>26. \A d \in Devices : refs'[d] = refs[d]
    BY <1>8 DEF Arrived, WorkUnchanged, memory, app
  <2>27. OthersTyped /\ refs \in [Devices -> Nat]
    BY OthersNumbers DEF IInv, Types, MemTypes
  <2>28. SameFamily
    BY <1>8 DEF Arrived, WorkUnchanged, memory, app, SameFamily, Alive
  <2>29. \A d \in Devices :
           refs'[d] = refs[d] + ((Count(Own(d))' - Count(Own(d))) + (MsgRefs(d)' - MsgRefs(d))
                                 + (JobRefs(d)' - JobRefs(d)) + (AppRefs(d)' - AppRefs(d))
                                 + (Count(d \in lost)' - Count(d \in lost)))
    BY <2>21, <2>22, <2>23, <2>24, <2>25, <2>26, <2>27 DEF OthersTyped
  <2> QED
    BY <2>28, <2>29, OthersMove DEF IInv
<1>9. CASE Gone
  <2>1. Working /\ Now \in Jobs /\ Now.at = "lose" /\ pc \notin {"devices", "join"}
    <3>1. Working /\ Now.at = "lose"
      BY <1>9, Doings DEF Gone
    <3>2. pc \notin {"devices", "join"}
      BY <3>1 DEF IInv, PlaceInv, PlaceExit, Leaving, Working
    <3> QED
      BY <3>1, <3>2, StackIs DEF IInv, Types
  <2>2. UNCHANGED <<usbDevs, parent, messages, batch, held, handle, lost, leftover, pc>>
    BY <1>9 DEF Gone, WorkUnchanged, app
  <2>3. CASE Find(Now.id) = {}
    <3>1. Done /\ refs' = refs
      BY <1>9, <2>3 DEF Gone
    <3>2. \A d \in Devices : JobRefs(d)' = JobRefs(d)
      BY <2>1, <3>1, Weighs DEF IInv, Types, Weight, Holding
    <3> QED
      BY <2>2, <3>1, <3>2, RefFrame DEF IInv
  <2>4. CASE Find(Now.id) # {}
    <3>1. PICK e \in Find(Now.id) : Ref(e) /\ Becomes([Now EXCEPT !.at = "detach", !.dev = e])
      BY <1>9, <2>4 DEF Gone
    <3>2. e \in Alive /\ e \in Devices
      BY <3>1, Named DEF Find, NamedAlive, Alive
    <3> DEFINE j == [Now EXCEPT !.at = "detach", !.dev = e]
    <3>3. j \in Jobs /\ Becomes(j) /\ j.at = "detach" /\ j.dev = e
      <4>1. Becomes(j)
        BY <3>1
      <4>2. "detach" \in Ats /\ e \in Devices \cup {NoDevice}
        BY <3>2 DEF Ats
      <4>3. j \in Jobs /\ j.at = "detach" /\ j.dev = e
        BY <2>1, <4>2 DEF Jobs, Ats
      <4> QED
        BY <4>1, <4>3
    <3> HIDE DEF j
    <3>4. \A d \in Devices : JobRefs(d)' = JobRefs(d) + (IF d = e THEN 1 ELSE 0)
      BY <2>1, <3>3, Weighs DEF IInv, Types, Weight, Holding
    <3>5. OthersTyped /\ refs \in [Devices -> Nat]
      BY OthersNumbers DEF IInv, Types, MemTypes
    <3>6. \A d \in Devices : refs'[d] = refs[d] + (IF d = e THEN 1 ELSE 0)
      BY <3>1, <3>2, <3>5 DEF Ref
    <3>7. SameFamily
      BY <2>2, <3>2, <3>5, <3>6 DEF SameFamily, Alive
    <3>8. \A d \in Devices :
             /\ Count(Own(d))' = Count(Own(d)) /\ MsgRefs(d)' = MsgRefs(d)
             /\ AppRefs(d)' = AppRefs(d) /\ Count(d \in lost)' = Count(d \in lost)
      BY <2>2 DEF Own, At, MsgRefs, AppRefs
    <3>9. \A d \in Devices :
             refs'[d] = refs[d] + ((Count(Own(d))' - Count(Own(d))) + (MsgRefs(d)' - MsgRefs(d))
                                   + (JobRefs(d)' - JobRefs(d)) + (AppRefs(d)' - AppRefs(d))
                                   + (Count(d \in lost)' - Count(d \in lost)))
      BY <3>4, <3>5, <3>6, <3>8 DEF OthersTyped
    <3> QED
      BY <3>7, <3>9, OthersMove DEF IInv
  <2> QED
    BY <2>3, <2>4
<1>10. CASE Detach
  <2>1. /\ Working /\ Now \in Jobs /\ Now.at = "detach" /\ Now.dev \in Devices
        /\ pc \notin {"devices", "join"} /\ Now.dev \in usbDevs
    <3>1. Working /\ Now.at = "detach"
      BY <1>10, Doings DEF Detach
    <3>2. Now \in Jobs /\ JobOK(Now)
      BY <3>1, StackIs DEF IInv, Types
    <3>3. pc \notin {"devices", "join"}
      BY <3>1 DEF IInv, PlaceInv, PlaceExit, Leaving, Working
    <3> QED
      BY <3>1, <3>2, <3>3 DEF JobOK, Jobs
  <2> DEFINE j == [Now EXCEPT !.at = "left"]
  <2>2. j \in Jobs /\ Becomes(j) /\ j.at = "left" /\ j.dev = Now.dev
    <3>1. Becomes(j)
      BY <1>10 DEF Detach
    <3>2. Now \in Jobs /\ "left" \in Ats
      BY <2>1 DEF Ats
    <3>3. j \in Jobs /\ j.at = "left" /\ j.dev = Now.dev
      BY <3>2, Moved
    <3> QED
      BY <3>1, <3>3
  <2> HIDE DEF j
  <2>21. \A d \in Devices : Count(Own(d))' = Count(Own(d)) - (IF d = Now.dev THEN 1 ELSE 0)
    BY <1>10, <2>1 DEF Detach, WorkUnchanged, app, Own, At, Count
  <2>22. \A d \in Devices : MsgRefs(d)' = MsgRefs(d)
    BY <1>10 DEF Detach, WorkUnchanged, memory, app, MsgRefs
  <2>23. \A d \in Devices : JobRefs(d)' = JobRefs(d) + (IF d = Now.dev THEN 1 ELSE 0)
    BY <2>1, <2>2, Weighs DEF IInv, Types, Weight, Holding
  <2>24. \A d \in Devices : AppRefs(d)' = AppRefs(d)
    BY <1>10 DEF Detach, WorkUnchanged, memory, app, AppRefs
  <2>25. \A d \in Devices : Count(d \in lost)' = Count(d \in lost)
    BY <1>10 DEF Detach, WorkUnchanged, memory, app
  <2>26. \A d \in Devices : refs'[d] = refs[d]
    BY <1>10 DEF Detach, WorkUnchanged, memory, app
  <2>27. OthersTyped /\ refs \in [Devices -> Nat]
    BY OthersNumbers DEF IInv, Types, MemTypes
  <2>28. SameFamily
    BY <1>10 DEF Detach, WorkUnchanged, memory, app, SameFamily, Alive
  <2>29. \A d \in Devices :
           refs'[d] = refs[d] + ((Count(Own(d))' - Count(Own(d))) + (MsgRefs(d)' - MsgRefs(d))
                                 + (JobRefs(d)' - JobRefs(d)) + (AppRefs(d)' - AppRefs(d))
                                 + (Count(d \in lost)' - Count(d \in lost)))
    BY <2>21, <2>22, <2>23, <2>24, <2>25, <2>26, <2>27 DEF OthersTyped
  <2> QED
    BY <2>28, <2>29, OthersMove DEF IInv
<1>11. CASE Left
  <2>1. /\ Working /\ Now \in Jobs /\ Now.at = "left" /\ Now.dev \in Devices
        /\ pc \notin {"devices", "join"} /\ Now.dev \notin lost
    <3>1. Working /\ Now.at = "left"
      BY <1>11, Doings DEF Left
    <3>2. Now \in Jobs /\ JobOK(Now)
      BY <3>1, StackIs DEF IInv, Types
    <3>3. pc \notin {"devices", "join"}
      BY <3>1 DEF IInv, PlaceInv, PlaceExit, Leaving, Working
    <3> QED
      BY <3>1, <3>2, <3>3 DEF JobOK, Jobs
  <2> DEFINE j == [Now EXCEPT !.at = "drop"]
  <2>2. j \in Jobs /\ Becomes(j) /\ j.at = "drop" /\ j.dev = Now.dev
    BY <1>11, <2>1, Moved DEF Left, Ats
  <2> HIDE DEF j
  <2>21. \A d \in Devices : Count(Own(d))' = Count(Own(d))
    BY <1>11, <2>1 DEF Left, WorkUnchanged, app, Own, At
  <2>22. \A d \in Devices : MsgRefs(d)' = MsgRefs(d) + (IF ready /\ d = Now.dev THEN 1 ELSE 0)
    <3>1. IF ready THEN messages' = Append(messages, Event("left", Now.dev)) /\ lost' = lost
                   ELSE messages' = messages /\ lost' = lost \cup {Now.dev}
      BY <1>11 DEF Left, Notify, Event
    <3>2. batch' = batch
      BY <1>11 DEF Left, WorkUnchanged
    <3> QED
      BY <2>1, <3>1, <3>2, MsgWeighs DEF IInv, Types, MsgRefs
  <2>23. \A d \in Devices : JobRefs(d)' = JobRefs(d) - (IF d = Now.dev THEN 1 ELSE 0)
    BY <2>1, <2>2, Weighs DEF IInv, Types, Weight, Holding
  <2>24. \A d \in Devices : AppRefs(d)' = AppRefs(d)
    BY <1>11 DEF Left, WorkUnchanged, memory, app, AppRefs
  <2>25. \A d \in Devices : Count(d \in lost)' = Count(d \in lost) + (IF ~ready /\ d = Now.dev THEN 1 ELSE 0)
    BY <1>11, <2>1 DEF Left, Count
  <2>26. \A d \in Devices : refs'[d] = refs[d]
    BY <1>11 DEF Left, WorkUnchanged, memory, app
  <2>27. OthersTyped /\ refs \in [Devices -> Nat]
    BY OthersNumbers DEF IInv, Types, MemTypes
  <2>28. SameFamily
    BY <1>11 DEF Left, WorkUnchanged, memory, app, SameFamily, Alive
  <2>29. \A d \in Devices :
           refs'[d] = refs[d] + ((Count(Own(d))' - Count(Own(d))) + (MsgRefs(d)' - MsgRefs(d))
                                 + (JobRefs(d)' - JobRefs(d)) + (AppRefs(d)' - AppRefs(d))
                                 + (Count(d \in lost)' - Count(d \in lost)))
    BY <2>21, <2>22, <2>23, <2>24, <2>25, <2>26, <2>27 DEF OthersTyped
  <2> QED
    BY <2>28, <2>29, OthersMove DEF IInv
<1>12. CASE DropFound
  <2>1. /\ Working /\ Now \in Jobs /\ Now.at = "drop" /\ Now.dev \in Devices
        /\ pc \notin {"devices", "join"}
    <3>1. Working /\ Now.at = "drop"
      BY <1>12, Doings DEF DropFound
    <3>2. Now \in Jobs /\ JobOK(Now)
      BY <3>1, StackIs DEF IInv, Types
    <3>3. pc \notin {"devices", "join"}
      BY <3>1 DEF IInv, PlaceInv, PlaceExit, Leaving, Working
    <3> QED
      BY <3>1, <3>2, <3>3 DEF JobOK, Jobs
  <2> DEFINE d == Now.dev
  <2>21. \A e \in Devices : Count(Own(e))' = Count(Own(e))
    BY <1>12, <2>1 DEF DropFound, WorkUnchanged, app, Own, At
  <2>22. \A e \in Devices : MsgRefs(e)' = MsgRefs(e)
    BY <1>12 DEF DropFound, WorkUnchanged, memory, app, MsgRefs
  <2>23. \A e \in Devices : JobRefs(e)' = JobRefs(e) - (IF e = d THEN 1 ELSE 0)
    BY <1>12, <2>1, Weighs DEF DropFound, IInv, Types, Weight, Holding
  <2>24. \A e \in Devices : AppRefs(e)' = AppRefs(e)
    BY <1>12 DEF DropFound, WorkUnchanged, memory, app, AppRefs
  <2>25. \A e \in Devices : Count(e \in lost)' = Count(e \in lost)
    BY <1>12 DEF DropFound, WorkUnchanged, memory, app
  <2>26. OthersTyped
    BY OthersNumbers DEF IInv
  <2>27. \A e \in Devices : Others(e)' = IF e = d THEN Others(e) - 1 ELSE Others(e)
    BY <2>21, <2>22, <2>23, <2>24, <2>25, <2>26 DEF Others, OthersTyped
  <2> QED
    BY <1>12, <2>1, <2>27, Drops, Unrefs DEF DropFound, IInv, d
<1>13. CASE MonitorReads
  <2>1. UNCHANGED <<usbDevs, refs, parent, messages, batch, held, handle, lost, leftover>>
    BY <1>13 DEF MonitorReads, MonitorUnchanged, app, memory
  <2>2. pc' = pc \/ {pc, pc'} \cap {"devices", "join"} = {}
    BY <1>13 DEF MonitorReads, At, MonitorUnchanged, app, memory
  <2>3. jobs' = jobs \/ (jobs = <<>> /\ \A d \in Devices : JobRefs(d)' = 0)
    <3>1. CASE jobs' = jobs
      BY <3>1
    <3>2. CASE uevents # <<>> /\ jobs' = Act(Head(uevents))
      <4>1. jobs = <<>>
        BY <1>13 DEF MonitorReads, TakeLock, Working, IInv, Types, LockTypes
      <4>2. Head(uevents) \in Uevents
        BY <3>2 DEF IInv, Types, BusTypes
      <4>3. jobs' = <<>> \/ \E at \in {"find", "lose"}, s \in Sessions : jobs' = <<Job(at, s)>>
        BY <3>2, <4>2 DEF Act, Uevents
      <4> QED
        BY <4>1, <4>3, WeighsNone
    <3> QED
      BY <1>13, <3>1, <3>2 DEF MonitorReads
  <2>4. \A d \in Devices : JobRefs(d)' = JobRefs(d)
    BY <2>3, WeighsNone DEF JobRefs
  <2> QED
    BY <2>1, <2>2, <2>4, RefFrame DEF IInv
<1>14. CASE MonitorWakes \/ MonitorDone \/ MonitorExits
  <2>1. UNCHANGED <<jobs, usbDevs, refs, parent, messages, batch, held, handle, lost, leftover, pc>>
    BY <1>14 DEF
      MonitorWakes, MonitorDone, MonitorExits, MonitorUnchanged, bus, memory, thread,
      context, hotplug, app
  <2> QED
    BY <2>1, RefFrame DEF IInv, JobRefs
<1>15. CASE InitBegins
  <2>1. UNCHANGED <<usbDevs, refs, parent, messages, batch, held, handle, lost, leftover, jobs>>
    BY <1>15 DEF InitBegins, InitUnchanged, app, context, hotplug, memory, thread
  <2>2. pc' = pc \/ {pc, pc'} \cap {"devices", "join"} = {}
    BY <1>15 DEF InitBegins, At, Up
  <2> QED
    BY <2>1, <2>2, RefFrame DEF IInv, JobRefs
<1>16. CASE MonitorStarts
  <2>1. UNCHANGED <<usbDevs, refs, parent, messages, batch, held, handle, lost, leftover, jobs>>
    BY <1>16 DEF MonitorStarts, InitUnchanged, app, context, hotplug, memory, thread
  <2>2. pc' = pc \/ {pc, pc'} \cap {"devices", "join"} = {}
    BY <1>16 DEF MonitorStarts, At, Up
  <2> QED
    BY <2>1, <2>2, RefFrame DEF IInv, JobRefs
<1>17. CASE ScanBegins
  <2>1. UNCHANGED <<usbDevs, refs, parent, messages, batch, held, handle, lost, leftover, jobs>>
    BY <1>17 DEF ScanBegins, InitUnchanged, app, context, hotplug, memory, thread
  <2>2. pc' = pc \/ {pc, pc'} \cap {"devices", "join"} = {}
    BY <1>17 DEF ScanBegins, At, Up
  <2> QED
    BY <2>1, <2>2, RefFrame DEF IInv, JobRefs
<1>18. CASE ScanEntry
  <2>1. UNCHANGED <<usbDevs, refs, parent, messages, batch, held, handle, lost, leftover>>
    BY <1>18 DEF ScanEntry, InitUnchanged, app, memory
  <2>2. pc' = pc \/ {pc, pc'} \cap {"devices", "join"} = {}
    BY <1>18 DEF ScanEntry, At, InitUnchanged, app, memory
  <2>3. jobs' = jobs \/ (jobs = <<>> /\ \A d \in Devices : JobRefs(d)' = 0)
    <3>1. jobs = <<>> /\ \E s \in Sessions : jobs' = <<Job("find", s)>>
      BY <1>18 DEF ScanEntry, Working, IInv, Types, AppTypes
    <3> QED
      BY <3>1, WeighsNone
  <2>4. \A d \in Devices : JobRefs(d)' = JobRefs(d)
    BY <2>3, WeighsNone DEF JobRefs
  <2> QED
    BY <2>1, <2>2, <2>4, RefFrame DEF IInv
<1>19. CASE ScanEnds
  <2>1. UNCHANGED <<usbDevs, refs, parent, messages, batch, held, handle, lost, leftover, jobs>>
    BY <1>19 DEF ScanEnds, InitUnchanged, app, context, hotplug, memory, thread
  <2>2. pc' = pc \/ {pc, pc'} \cap {"devices", "join"} = {}
    BY <1>19 DEF ScanEnds, At, Up
  <2> QED
    BY <2>1, <2>2, RefFrame DEF IInv, JobRefs
<1>20. CASE InitEnds
  <2>1. UNCHANGED <<usbDevs, refs, parent, messages, batch, held, handle, lost, leftover, jobs>>
    BY <1>20 DEF InitEnds, InitUnchanged, app, context, hotplug, memory, thread
  <2>2. pc' = pc \/ {pc, pc'} \cap {"devices", "join"} = {}
    BY <1>20 DEF InitEnds, At, Up
  <2> QED
    BY <2>1, <2>2, RefFrame DEF IInv, JobRefs
<1>21. CASE ScanFails
  <2>1. UNCHANGED <<usbDevs, refs, parent, messages, batch, held, handle, lost, leftover, jobs>>
    BY <1>21 DEF ScanFails, InitUnchanged, app, context, hotplug, memory, thread
  <2>2. pc' = pc \/ {pc, pc'} \cap {"devices", "join"} = {}
    BY <1>21 DEF ScanFails, At, Up
  <2> QED
    BY <2>1, <2>2, RefFrame DEF IInv, JobRefs
<1>22. CASE GivesUp
  <2>1. pc = "give up" /\ pc' = "idle" /\ usbDevs' = {} /\ lost' = lost \cup usbDevs
    BY <1>22 DEF GivesUp, At
  <2>2. usbDevs \cap lost = {}
    BY DEF IInv, ListInv
  <2>3. \A d : (Own(d) <=> d \in usbDevs) /\ ~Own(d)'
    BY <2>1 DEF Own, At
  <2>21. \A d \in Devices : Count(Own(d))' = Count(Own(d)) - (IF d \in usbDevs THEN 1 ELSE 0)
    BY <2>3 DEF Count
  <2>22. \A d \in Devices : MsgRefs(d)' = MsgRefs(d)
    BY <1>22 DEF GivesUp, memory, MsgRefs
  <2>23. \A d \in Devices : JobRefs(d)' = JobRefs(d)
    BY <1>22 DEF GivesUp, memory, JobRefs
  <2>24. \A d \in Devices : AppRefs(d)' = AppRefs(d)
    BY <1>22 DEF GivesUp, memory, AppRefs
  <2>25. \A d \in Devices : Count(d \in lost)' = Count(d \in lost) + (IF d \in usbDevs THEN 1 ELSE 0)
    <3>1. \A d \in Devices : d \in lost' <=> d \in lost \/ d \in usbDevs
      BY <2>1
    <3>2. \A d \in Devices : d \in usbDevs => d \notin lost
      BY <2>2
    <3> QED
      BY <3>1, <3>2 DEF Count
  <2>26. \A d \in Devices : refs'[d] = refs[d]
    BY <1>22 DEF GivesUp, memory
  <2>27. OthersTyped /\ refs \in [Devices -> Nat]
    BY OthersNumbers DEF IInv, Types, MemTypes
  <2>28. SameFamily
    BY <1>22 DEF GivesUp, memory, SameFamily, Alive
  <2>29. \A d \in Devices :
           refs'[d] = refs[d] + ((Count(Own(d))' - Count(Own(d))) + (MsgRefs(d)' - MsgRefs(d))
                                 + (JobRefs(d)' - JobRefs(d)) + (AppRefs(d)' - AppRefs(d))
                                 + (Count(d \in lost)' - Count(d \in lost)))
    BY <2>21, <2>22, <2>23, <2>24, <2>25, <2>26, <2>27 DEF OthersTyped
  <2> QED
    BY <2>28, <2>29, OthersMove DEF IInv
<1>23. CASE InitAgain
  <2>1. UNCHANGED <<jobs, usbDevs, refs, parent, messages, batch, held, handle, lost, leftover, pc>>
    BY <1>23 DEF
      InitAgain, InitUnchanged, bus, memory, thread, context, hotplug, app
  <2> QED
    BY <2>1, RefFrame DEF IInv, JobRefs
<1>24. CASE ListBegins
  <2>1. UNCHANGED <<usbDevs, refs, parent, messages, batch, held, handle, lost, leftover, jobs>>
    BY <1>24 DEF ListBegins, ListUnchanged, app, context, hotplug, memory, thread
  <2>2. pc' = pc \/ {pc, pc'} \cap {"devices", "join"} = {}
    BY <1>24 DEF ListBegins, At, Up
  <2> QED
    BY <2>1, <2>2, RefFrame DEF IInv, JobRefs
<1>25. CASE PollBegins
  <2>1. UNCHANGED <<usbDevs, refs, parent, messages, batch, held, handle, lost, leftover, jobs>>
    BY <1>25 DEF PollBegins, ListUnchanged, app, context, hotplug, memory, thread
  <2>2. pc' = pc \/ {pc, pc'} \cap {"devices", "join"} = {}
    BY <1>25 DEF PollBegins, At, Up
  <2> QED
    BY <2>1, <2>2, RefFrame DEF IInv, JobRefs
<1>26. CASE PollReads
  <2>1. UNCHANGED <<usbDevs, refs, parent, messages, batch, held, handle, lost, leftover>>
    BY <1>26 DEF PollReads, ListUnchanged, app, memory
  <2>2. pc' = pc \/ {pc, pc'} \cap {"devices", "join"} = {}
    BY <1>26 DEF PollReads, At, ListUnchanged, app, memory
  <2>3. jobs' = jobs \/ (jobs = <<>> /\ \A d \in Devices : JobRefs(d)' = 0)
    <3>1. CASE jobs' = jobs
      BY <3>1
    <3>2. CASE uevents # <<>> /\ jobs' = Act(Head(uevents))
      <4>1. jobs = <<>>
        BY <1>26 DEF PollReads, TakeLock, Working, IInv, Types, LockTypes
      <4>2. Head(uevents) \in Uevents
        BY <3>2 DEF IInv, Types, BusTypes
      <4>3. jobs' = <<>> \/ \E at \in {"find", "lose"}, s \in Sessions : jobs' = <<Job(at, s)>>
        BY <3>2, <4>2 DEF Act, Uevents
      <4> QED
        BY <4>1, <4>3, WeighsNone
    <3> QED
      BY <1>26, <3>1, <3>2 DEF PollReads
  <2>4. \A d \in Devices : JobRefs(d)' = JobRefs(d)
    BY <2>3, WeighsNone DEF JobRefs
  <2> QED
    BY <2>1, <2>2, <2>4, RefFrame DEF IInv
<1>27. CASE PollEmpty
  <2>1. UNCHANGED <<usbDevs, refs, parent, messages, batch, held, handle, lost, leftover, jobs>>
    BY <1>27 DEF PollEmpty, ListUnchanged, app, context, hotplug, memory, thread
  <2>2. pc' = pc \/ {pc, pc'} \cap {"devices", "join"} = {}
    BY <1>27 DEF PollEmpty, At, Up
  <2> QED
    BY <2>1, <2>2, RefFrame DEF IInv, JobRefs
<1>28. CASE CopyList
  <2>1. held = {} /\ usbDevs \subseteq Alive /\ refs \in [Devices -> Nat]
    BY <1>28 DEF CopyList, At, IInv, PlaceInv, PlaceApp, Listing, ListInv, Types, MemTypes
  <2>21. \A d \in Devices : Count(Own(d))' = Count(Own(d))
    BY <1>28 DEF CopyList, ListUnchanged, memory, Own, At, Up
  <2>22. \A d \in Devices : MsgRefs(d)' = MsgRefs(d)
    BY <1>28 DEF CopyList, ListUnchanged, memory, MsgRefs
  <2>23. \A d \in Devices : JobRefs(d)' = JobRefs(d)
    BY <1>28 DEF CopyList, ListUnchanged, memory, JobRefs
  <2>24. \A d \in Devices : AppRefs(d)' = AppRefs(d) + (IF d \in usbDevs THEN 1 ELSE 0)
    BY <1>28, <2>1 DEF CopyList, AppRefs, Count
  <2>25. \A d \in Devices : Count(d \in lost)' = Count(d \in lost)
    BY <1>28 DEF CopyList, ListUnchanged, memory
  <2>26. \A d \in Devices : refs'[d] = refs[d] + (IF d \in usbDevs THEN 1 ELSE 0)
    BY <1>28, <2>1 DEF CopyList, Referenced
  <2>27. OthersTyped /\ refs \in [Devices -> Nat]
    BY OthersNumbers DEF IInv, Types, MemTypes
  <2>28. SameFamily
    BY <1>28, <2>1, <2>26 DEF CopyList, SameFamily, Alive
  <2>29. \A d \in Devices :
           refs'[d] = refs[d] + ((Count(Own(d))' - Count(Own(d))) + (MsgRefs(d)' - MsgRefs(d))
                                 + (JobRefs(d)' - JobRefs(d)) + (AppRefs(d)' - AppRefs(d))
                                 + (Count(d \in lost)' - Count(d \in lost)))
    BY <2>21, <2>22, <2>23, <2>24, <2>25, <2>26, <2>27 DEF OthersTyped
  <2> QED
    BY <2>28, <2>29, OthersMove DEF IInv
<1>29. CASE Enumerate
  <2>1. UNCHANGED <<usbDevs, refs, parent, messages, batch, held, handle, lost, leftover, jobs>>
    BY <1>29 DEF Enumerate, ListUnchanged, app, context, hotplug, memory, thread
  <2>2. pc' = pc \/ {pc, pc'} \cap {"devices", "join"} = {}
    BY <1>29 DEF Enumerate, At, Up
  <2> QED
    BY <2>1, <2>2, RefFrame DEF IInv, JobRefs
<1>30. CASE FreeList
  <2>1. PICK d \in held : held' = held \ {d} /\ Unref(d) /\ handle' = handle
    BY <1>30 DEF FreeList
  <2>21. \A e \in Devices : Count(Own(e))' = Count(Own(e))
    BY <1>30 DEF FreeList, ListUnchanged, Own, At, Up
  <2>22. \A e \in Devices : MsgRefs(e)' = MsgRefs(e)
    BY <1>30 DEF FreeList, ListUnchanged, MsgRefs
  <2>23. \A e \in Devices : JobRefs(e)' = JobRefs(e)
    BY <1>30 DEF FreeList, ListUnchanged, JobRefs
  <2>24. \A e \in Devices : AppRefs(e)' = AppRefs(e) - (IF e = d THEN 1 ELSE 0)
    BY <2>1 DEF AppRefs, Count
  <2>25. \A e \in Devices : Count(e \in lost)' = Count(e \in lost)
    BY <1>30 DEF FreeList, ListUnchanged
  <2>26. OthersTyped
    BY OthersNumbers DEF IInv
  <2>27. \A e \in Devices : Others(e)' = IF e = d THEN Others(e) - 1 ELSE Others(e)
    BY <2>21, <2>22, <2>23, <2>24, <2>25, <2>26 DEF Others, OthersTyped
  <2> QED
    BY <2>1, <2>27, Drops, Unrefs DEF IInv
<1>31. CASE Open
  <2>1. /\ handle = NoDevice /\ refs \in [Devices -> Nat] /\ Ref(handle') /\ handle' \in Alive
        /\ handle' \in Devices /\ held' = held
    BY <1>31, Named DEF Open, NamedAlive, Alive, IInv, Types, MemTypes
  <2>21. \A d \in Devices : Count(Own(d))' = Count(Own(d))
    BY <1>31 DEF Open, ListUnchanged, memory, Own, At, Up
  <2>22. \A d \in Devices : MsgRefs(d)' = MsgRefs(d)
    BY <1>31 DEF Open, ListUnchanged, memory, MsgRefs
  <2>23. \A d \in Devices : JobRefs(d)' = JobRefs(d)
    BY <1>31 DEF Open, ListUnchanged, memory, JobRefs
  <2>24. \A d \in Devices : AppRefs(d)' = AppRefs(d) + (IF d = handle' THEN 1 ELSE 0)
    BY <2>1, NotADevice DEF AppRefs, Count
  <2>25. \A d \in Devices : Count(d \in lost)' = Count(d \in lost)
    BY <1>31 DEF Open, ListUnchanged, memory
  <2>26. \A d \in Devices : refs'[d] = refs[d] + (IF d = handle' THEN 1 ELSE 0)
    BY <1>31, <2>1 DEF Ref
  <2>27. OthersTyped /\ refs \in [Devices -> Nat]
    BY OthersNumbers DEF IInv, Types, MemTypes
  <2>28. SameFamily
    BY <1>31, <2>1, <2>26 DEF Open, SameFamily, Alive
  <2>29. \A d \in Devices :
           refs'[d] = refs[d] + ((Count(Own(d))' - Count(Own(d))) + (MsgRefs(d)' - MsgRefs(d))
                                 + (JobRefs(d)' - JobRefs(d)) + (AppRefs(d)' - AppRefs(d))
                                 + (Count(d \in lost)' - Count(d \in lost)))
    BY <2>21, <2>22, <2>23, <2>24, <2>25, <2>26, <2>27 DEF OthersTyped
  <2> QED
    BY <2>28, <2>29, OthersMove DEF IInv
<1>32. CASE OpenNode
  <2>1. UNCHANGED <<usbDevs, refs, parent, messages, batch, held, handle, lost, leftover, jobs>>
    BY <1>32 DEF OpenNode, ListUnchanged, app, context, hotplug, memory, thread
  <2>2. pc' = pc \/ {pc, pc'} \cap {"devices", "join"} = {}
    BY <1>32 DEF OpenNode, At, Up
  <2> QED
    BY <2>1, <2>2, RefFrame DEF IInv, JobRefs
<1>33. CASE OpenMissing
  <2>1. UNCHANGED <<usbDevs, refs, parent, messages, batch, held, handle, lost, leftover>>
    BY <1>33 DEF OpenMissing, ListUnchanged, app, memory
  <2>2. pc' = pc \/ {pc, pc'} \cap {"devices", "join"} = {}
    BY <1>33 DEF OpenMissing, At, ListUnchanged, app, memory
  <2>3. jobs' = jobs \/ (jobs = <<>> /\ \A d \in Devices : JobRefs(d)' = 0)
    <3>1. jobs = <<>>
      BY <1>33 DEF OpenMissing, TakeLock, IInv, Types, LockTypes
    <3>2. jobs' = <<>> \/ \E s : jobs' = <<Job("lose", s)>> /\ jobs' \in Seq(Jobs)
      BY <1>33 DEF OpenMissing, Types, JobsTypes
    <3>3. \A s : <<Job("lose", s)>> \in Seq(Jobs) => s \in Sessions
      <4>1. ASSUME NEW s, <<Job("lose", s)>> \in Seq(Jobs)
            PROVE  s \in Sessions
        <5>1. <<Job("lose", s)>>[1] \in Jobs
          BY <4>1
        <5> QED
          BY <5>1 DEF Job, Jobs
      <4> QED
        BY <4>1
    <3> QED
      BY <3>1, <3>2, <3>3, WeighsNone
  <2>4. \A d \in Devices : JobRefs(d)' = JobRefs(d)
    BY <2>3, WeighsNone DEF JobRefs
  <2> QED
    BY <2>1, <2>2, <2>4, RefFrame DEF IInv
<1>34. CASE OpenFails
  <2> DEFINE d == handle
  <2>21. \A e \in Devices : Count(Own(e))' = Count(Own(e))
    BY <1>34 DEF OpenFails, ListUnchanged, Own, At, Up
  <2>22. \A e \in Devices : MsgRefs(e)' = MsgRefs(e)
    BY <1>34 DEF OpenFails, ListUnchanged, MsgRefs
  <2>23. \A e \in Devices : JobRefs(e)' = JobRefs(e)
    BY <1>34 DEF OpenFails, ListUnchanged, JobRefs
  <2>24. \A e \in Devices : AppRefs(e)' = AppRefs(e) - (IF e = d THEN 1 ELSE 0)
    BY <1>34, NotADevice DEF OpenFails, AppRefs, Count
  <2>25. \A e \in Devices : Count(e \in lost)' = Count(e \in lost)
    BY <1>34 DEF OpenFails, ListUnchanged
  <2>26. OthersTyped
    BY OthersNumbers DEF IInv
  <2>27. \A e \in Devices : Others(e)' = IF e = d THEN Others(e) - 1 ELSE Others(e)
    BY <2>21, <2>22, <2>23, <2>24, <2>25, <2>26 DEF Others, OthersTyped
  <2> QED
    BY <1>34, <2>27, Drops, Unrefs DEF OpenFails, IInv, d
<1>35. CASE Close
  <2> DEFINE d == handle
  <2>21. \A e \in Devices : Count(Own(e))' = Count(Own(e))
    BY <1>35 DEF Close, ListUnchanged, Own, At, Up
  <2>22. \A e \in Devices : MsgRefs(e)' = MsgRefs(e)
    BY <1>35 DEF Close, ListUnchanged, MsgRefs
  <2>23. \A e \in Devices : JobRefs(e)' = JobRefs(e)
    BY <1>35 DEF Close, ListUnchanged, JobRefs
  <2>24. \A e \in Devices : AppRefs(e)' = AppRefs(e) - (IF e = d THEN 1 ELSE 0)
    BY <1>35, NotADevice DEF Close, AppRefs, Count
  <2>25. \A e \in Devices : Count(e \in lost)' = Count(e \in lost)
    BY <1>35 DEF Close, ListUnchanged
  <2>26. OthersTyped
    BY OthersNumbers DEF IInv
  <2>27. \A e \in Devices : Others(e)' = IF e = d THEN Others(e) - 1 ELSE Others(e)
    BY <2>21, <2>22, <2>23, <2>24, <2>25, <2>26 DEF Others, OthersTyped
  <2> QED
    BY <1>35, <2>27, Drops, Unrefs DEF Close, IInv, d
<1>36. CASE Register
  <2>1. UNCHANGED <<usbDevs, refs, parent, messages, batch, held, handle, lost, leftover, jobs>>
    BY <1>36 DEF Register, HotplugUnchanged, app, context, hotplug, memory, thread
  <2>2. pc' = pc \/ {pc, pc'} \cap {"devices", "join"} = {}
    BY <1>36 DEF Register, At, Up
  <2> QED
    BY <2>1, <2>2, RefFrame DEF IInv, JobRefs
<1>37. CASE Process
  <2>1. batch = <<>>
    BY <1>37 DEF Process, Up, At, IInv, PlaceInv, PlaceMessages
  <2>2. \A d \in Devices : Number(messages, LeftOf(d)) \in Nat
    BY MsgWeighs DEF IInv, Types
  <2>21. \A d \in Devices : Count(Own(d))' = Count(Own(d))
    BY <1>37 DEF Process, HotplugUnchanged, app, memory, Own, At, Up
  <2>22. \A d \in Devices : MsgRefs(d)' = MsgRefs(d)
    BY <1>37, <2>1, <2>2, NumberNone DEF Process, MsgRefs
  <2>23. \A d \in Devices : JobRefs(d)' = JobRefs(d)
    BY <1>37 DEF Process, HotplugUnchanged, app, memory, JobRefs
  <2>24. \A d \in Devices : AppRefs(d)' = AppRefs(d)
    BY <1>37 DEF Process, HotplugUnchanged, app, memory, AppRefs
  <2>25. \A d \in Devices : Count(d \in lost)' = Count(d \in lost)
    BY <1>37 DEF Process, HotplugUnchanged, app, memory
  <2>26. \A d \in Devices : refs'[d] = refs[d]
    BY <1>37 DEF Process, HotplugUnchanged, app, memory
  <2>27. OthersTyped /\ refs \in [Devices -> Nat]
    BY OthersNumbers DEF IInv, Types, MemTypes
  <2>28. SameFamily
    BY <1>37 DEF Process, HotplugUnchanged, app, memory, SameFamily, Alive
  <2>29. \A d \in Devices :
           refs'[d] = refs[d] + ((Count(Own(d))' - Count(Own(d))) + (MsgRefs(d)' - MsgRefs(d))
                                 + (JobRefs(d)' - JobRefs(d)) + (AppRefs(d)' - AppRefs(d))
                                 + (Count(d \in lost)' - Count(d \in lost)))
    BY <2>21, <2>22, <2>23, <2>24, <2>25, <2>26, <2>27 DEF OthersTyped
  <2> QED
    BY <2>28, <2>29, OthersMove DEF IInv
<1>38. CASE CallbackCalled
  <2>1. UNCHANGED <<usbDevs, refs, parent, messages, batch, held, handle, lost, leftover, jobs>>
    BY <1>38 DEF CallbackCalled, HotplugUnchanged, app, context, hotplug, memory, thread
  <2>2. pc' = pc \/ {pc, pc'} \cap {"devices", "join"} = {}
    BY <1>38 DEF CallbackCalled, At, Up
  <2> QED
    BY <2>1, <2>2, RefFrame DEF IInv, JobRefs
<1>39. CASE CallbackReturns
  <2>1. UNCHANGED <<usbDevs, refs, parent, messages, batch, held, handle, lost, leftover, jobs>>
    BY <1>39 DEF CallbackReturns, HotplugUnchanged, app, context, hotplug, memory, thread
  <2>2. pc' = pc \/ {pc, pc'} \cap {"devices", "join"} = {}
    BY <1>39 DEF CallbackReturns, At, Up
  <2> QED
    BY <2>1, <2>2, RefFrame DEF IInv, JobRefs
<1>40. CASE MessageDone
  <2>1. CASE HoldsDevice(Head(batch))
    <3> DEFINE d == Head(batch).dev
    <3>21. \A e \in Devices : Count(Own(e))' = Count(Own(e))
      BY <1>40 DEF MessageDone, HotplugUnchanged, app, Own, At, Up
    <3>22. \A e \in Devices : MsgRefs(e)' = MsgRefs(e) - (IF e = d THEN 1 ELSE 0)
      BY <1>40, <2>1, MsgWeighs DEF MessageDone, HotplugUnchanged, app, IInv, Types, MsgRefs
    <3>23. \A e \in Devices : JobRefs(e)' = JobRefs(e)
      BY <1>40 DEF MessageDone, HotplugUnchanged, app, JobRefs
    <3>24. \A e \in Devices : AppRefs(e)' = AppRefs(e)
      BY <1>40 DEF MessageDone, HotplugUnchanged, app, AppRefs
    <3>25. \A e \in Devices : Count(e \in lost)' = Count(e \in lost)
      BY <1>40 DEF MessageDone, HotplugUnchanged, app
    <3>26. OthersTyped
      BY OthersNumbers DEF IInv
    <3>27. \A e \in Devices : Others(e)' = IF e = d THEN Others(e) - 1 ELSE Others(e)
      BY <3>21, <3>22, <3>23, <3>24, <3>25, <3>26 DEF Others, OthersTyped
    <3> QED
      BY <1>40, <2>1, <3>27, Drops, Unrefs DEF MessageDone, IInv, d
  <2>2. CASE ~HoldsDevice(Head(batch))
    <3>21. \A d \in Devices : Count(Own(d))' = Count(Own(d))
      BY <1>40 DEF MessageDone, HotplugUnchanged, app, RefsUnchanged, memory, Own, At, Up
    <3>22. \A d \in Devices : MsgRefs(d)' = MsgRefs(d)
      BY <1>40, <2>2, MsgWeighs DEF MessageDone, HotplugUnchanged, app, IInv, Types, MsgRefs
    <3>23. \A d \in Devices : JobRefs(d)' = JobRefs(d)
      BY <1>40 DEF MessageDone, HotplugUnchanged, app, RefsUnchanged, memory, JobRefs
    <3>24. \A d \in Devices : AppRefs(d)' = AppRefs(d)
      BY <1>40 DEF MessageDone, HotplugUnchanged, app, RefsUnchanged, memory, AppRefs
    <3>25. \A d \in Devices : Count(d \in lost)' = Count(d \in lost)
      BY <1>40 DEF MessageDone, HotplugUnchanged, app, RefsUnchanged, memory
    <3>26. \A d \in Devices : refs'[d] = refs[d]
      BY <1>40, <2>2 DEF MessageDone, RefsUnchanged, memory
    <3>27. OthersTyped /\ refs \in [Devices -> Nat]
      BY OthersNumbers DEF IInv, Types, MemTypes
    <3>28. SameFamily
      BY <1>40, <2>2 DEF MessageDone, RefsUnchanged, memory, SameFamily, Alive
    <3>29. \A d \in Devices :
             refs'[d] = refs[d] + ((Count(Own(d))' - Count(Own(d))) + (MsgRefs(d)' - MsgRefs(d))
                                   + (JobRefs(d)' - JobRefs(d)) + (AppRefs(d)' - AppRefs(d))
                                   + (Count(d \in lost)' - Count(d \in lost)))
      BY <3>21, <3>22, <3>23, <3>24, <3>25, <3>26, <3>27 DEF OthersTyped
    <3> QED
      BY <3>28, <3>29, OthersMove DEF IInv
  <2> QED
    BY <2>1, <2>2
<1>41. CASE Processed
  <2>1. UNCHANGED <<usbDevs, refs, parent, messages, batch, held, handle, lost, leftover, jobs>>
    BY <1>41 DEF Processed, HotplugUnchanged, app, context, hotplug, memory, thread
  <2>2. pc' = pc \/ {pc, pc'} \cap {"devices", "join"} = {}
    BY <1>41 DEF Processed, At, Up
  <2> QED
    BY <2>1, <2>2, RefFrame DEF IInv, JobRefs
<1>42. CASE Deregister \/ CallbackSkipped
  <2>1. UNCHANGED <<jobs, usbDevs, refs, parent, messages, batch, held, handle, lost, leftover, pc>>
    BY <1>42 DEF
      Deregister, CallbackSkipped, HotplugUnchanged, RefsUnchanged, bus, memory,
      thread, context, hotplug, app
  <2> QED
    BY <2>1, RefFrame DEF IInv, JobRefs
<1>43. CASE ExitBegins
  <2>1. UNCHANGED <<usbDevs, refs, parent, messages, batch, held, handle, lost, leftover, jobs>>
    BY <1>43 DEF ExitBegins, ExitUnchanged, app, context, hotplug, memory, thread
  <2>2. pc' = pc \/ {pc, pc'} \cap {"devices", "join"} = {}
    BY <1>43 DEF ExitBegins, At, Up
  <2> QED
    BY <2>1, <2>2, RefFrame DEF IInv, JobRefs
<1>44. CASE FreeCallbacks
  <2>1. UNCHANGED <<usbDevs, refs, parent, messages, batch, held, handle, lost, leftover, jobs>>
    BY <1>44 DEF FreeCallbacks, ExitUnchanged, app, context, hotplug, memory, thread
  <2>2. pc' = pc \/ {pc, pc'} \cap {"devices", "join"} = {}
    BY <1>44 DEF FreeCallbacks, At, Up
  <2> QED
    BY <2>1, <2>2, RefFrame DEF IInv, JobRefs
<1>45. CASE FreeMessage
  <2>1. CASE HoldsDevice(Head(messages))
    <3> DEFINE d == Head(messages).dev
    <3>21. \A e \in Devices : Count(Own(e))' = Count(Own(e))
      BY <1>45 DEF FreeMessage, ExitUnchanged, Own, At, Up
    <3>22. \A e \in Devices : MsgRefs(e)' = MsgRefs(e) - (IF e = d THEN 1 ELSE 0)
      BY <1>45, <2>1, MsgWeighs DEF FreeMessage, ExitUnchanged, IInv, Types, MsgRefs
    <3>23. \A e \in Devices : JobRefs(e)' = JobRefs(e)
      BY <1>45 DEF FreeMessage, ExitUnchanged, JobRefs
    <3>24. \A e \in Devices : AppRefs(e)' = AppRefs(e)
      BY <1>45 DEF FreeMessage, ExitUnchanged, AppRefs
    <3>25. \A e \in Devices : Count(e \in lost)' = Count(e \in lost)
      BY <1>45 DEF FreeMessage, ExitUnchanged
    <3>26. OthersTyped
      BY OthersNumbers DEF IInv
    <3>27. \A e \in Devices : Others(e)' = IF e = d THEN Others(e) - 1 ELSE Others(e)
      BY <3>21, <3>22, <3>23, <3>24, <3>25, <3>26 DEF Others, OthersTyped
    <3> QED
      BY <1>45, <2>1, <3>27, Drops, Unrefs DEF FreeMessage, IInv, d
  <2>2. CASE ~HoldsDevice(Head(messages))
    <3>21. \A d \in Devices : Count(Own(d))' = Count(Own(d))
      BY <1>45 DEF FreeMessage, ExitUnchanged, RefsUnchanged, memory, Own, At, Up
    <3>22. \A d \in Devices : MsgRefs(d)' = MsgRefs(d)
      BY <1>45, <2>2, MsgWeighs DEF FreeMessage, ExitUnchanged, IInv, Types, MsgRefs
    <3>23. \A d \in Devices : JobRefs(d)' = JobRefs(d)
      BY <1>45 DEF FreeMessage, ExitUnchanged, RefsUnchanged, memory, JobRefs
    <3>24. \A d \in Devices : AppRefs(d)' = AppRefs(d)
      BY <1>45 DEF FreeMessage, ExitUnchanged, RefsUnchanged, memory, AppRefs
    <3>25. \A d \in Devices : Count(d \in lost)' = Count(d \in lost)
      BY <1>45 DEF FreeMessage, ExitUnchanged, RefsUnchanged, memory
    <3>26. \A d \in Devices : refs'[d] = refs[d]
      BY <1>45, <2>2 DEF FreeMessage, RefsUnchanged, memory
    <3>27. OthersTyped /\ refs \in [Devices -> Nat]
      BY OthersNumbers DEF IInv, Types, MemTypes
    <3>28. SameFamily
      BY <1>45, <2>2 DEF FreeMessage, RefsUnchanged, memory, SameFamily, Alive
    <3>29. \A d \in Devices :
             refs'[d] = refs[d] + ((Count(Own(d))' - Count(Own(d))) + (MsgRefs(d)' - MsgRefs(d))
                                   + (JobRefs(d)' - JobRefs(d)) + (AppRefs(d)' - AppRefs(d))
                                   + (Count(d \in lost)' - Count(d \in lost)))
      BY <3>21, <3>22, <3>23, <3>24, <3>25, <3>26, <3>27 DEF OthersTyped
    <3> QED
      BY <3>28, <3>29, OthersMove DEF IInv
  <2> QED
    BY <2>1, <2>2
<1>46. CASE FreeDevices
  <2>21. \A d \in Devices : Count(Own(d))' = Count(Own(d))
    BY <1>46 DEF FreeDevices, ExitUnchanged, memory, Own, At, Up
  <2>22. \A d \in Devices : MsgRefs(d)' = MsgRefs(d)
    BY <1>46 DEF FreeDevices, ExitUnchanged, memory, MsgRefs
  <2>23. \A d \in Devices : JobRefs(d)' = JobRefs(d)
    BY <1>46 DEF FreeDevices, ExitUnchanged, memory, JobRefs
  <2>24. \A d \in Devices : AppRefs(d)' = AppRefs(d)
    BY <1>46 DEF FreeDevices, ExitUnchanged, memory, AppRefs
  <2>25. \A d \in Devices : Count(d \in lost)' = Count(d \in lost)
    BY <1>46 DEF FreeDevices, ExitUnchanged, memory
  <2>26. \A d \in Devices : refs'[d] = refs[d]
    BY <1>46 DEF FreeDevices, ExitUnchanged, memory
  <2>27. OthersTyped /\ refs \in [Devices -> Nat]
    BY OthersNumbers DEF IInv, Types, MemTypes
  <2>28. SameFamily
    BY <1>46 DEF FreeDevices, ExitUnchanged, memory, SameFamily, Alive
  <2>29. \A d \in Devices :
           refs'[d] = refs[d] + ((Count(Own(d))' - Count(Own(d))) + (MsgRefs(d)' - MsgRefs(d))
                                 + (JobRefs(d)' - JobRefs(d)) + (AppRefs(d)' - AppRefs(d))
                                 + (Count(d \in lost)' - Count(d \in lost)))
    BY <2>21, <2>22, <2>23, <2>24, <2>25, <2>26, <2>27 DEF OthersTyped
  <2> QED
    BY <2>28, <2>29, OthersMove DEF IInv
<1>47. CASE FreeDevice
  <2>1. PICK d \in leftover : leftover' = leftover \ {d} /\ Unref(d) /\ pc = "devices" /\ pc' = pc
    BY <1>47 DEF FreeDevice, At
  <2>21. \A e \in Devices : Count(Own(e))' = Count(Own(e)) - (IF e = d THEN 1 ELSE 0)
    BY <2>1 DEF Own, At, Count
  <2>22. \A e \in Devices : MsgRefs(e)' = MsgRefs(e)
    BY <1>47 DEF FreeDevice, ExitUnchanged, MsgRefs
  <2>23. \A e \in Devices : JobRefs(e)' = JobRefs(e)
    BY <1>47 DEF FreeDevice, ExitUnchanged, JobRefs
  <2>24. \A e \in Devices : AppRefs(e)' = AppRefs(e)
    BY <1>47 DEF FreeDevice, ExitUnchanged, AppRefs
  <2>25. \A e \in Devices : Count(e \in lost)' = Count(e \in lost)
    BY <1>47 DEF FreeDevice, ExitUnchanged
  <2>26. OthersTyped
    BY OthersNumbers DEF IInv
  <2>27. \A e \in Devices : Others(e)' = IF e = d THEN Others(e) - 1 ELSE Others(e)
    BY <2>21, <2>22, <2>23, <2>24, <2>25, <2>26 DEF Others, OthersTyped
  <2> QED
    BY <2>1, <2>27, Drops, Unrefs DEF IInv, At
<1>48. CASE StopMonitor
  <2>21. \A d \in Devices : Count(Own(d))' = Count(Own(d))
    BY <1>48 DEF StopMonitor, ExitUnchanged, memory, Own, At, Up
  <2>22. \A d \in Devices : MsgRefs(d)' = MsgRefs(d)
    BY <1>48 DEF StopMonitor, ExitUnchanged, memory, MsgRefs
  <2>23. \A d \in Devices : JobRefs(d)' = JobRefs(d)
    BY <1>48 DEF StopMonitor, ExitUnchanged, memory, JobRefs
  <2>24. \A d \in Devices : AppRefs(d)' = AppRefs(d)
    BY <1>48 DEF StopMonitor, ExitUnchanged, memory, AppRefs
  <2>25. \A d \in Devices : Count(d \in lost)' = Count(d \in lost)
    BY <1>48 DEF StopMonitor, ExitUnchanged, memory
  <2>26. \A d \in Devices : refs'[d] = refs[d]
    BY <1>48 DEF StopMonitor, ExitUnchanged, memory
  <2>27. OthersTyped /\ refs \in [Devices -> Nat]
    BY OthersNumbers DEF IInv, Types, MemTypes
  <2>28. SameFamily
    BY <1>48 DEF StopMonitor, ExitUnchanged, memory, SameFamily, Alive
  <2>29. \A d \in Devices :
           refs'[d] = refs[d] + ((Count(Own(d))' - Count(Own(d))) + (MsgRefs(d)' - MsgRefs(d))
                                 + (JobRefs(d)' - JobRefs(d)) + (AppRefs(d)' - AppRefs(d))
                                 + (Count(d \in lost)' - Count(d \in lost)))
    BY <2>21, <2>22, <2>23, <2>24, <2>25, <2>26, <2>27 DEF OthersTyped
  <2> QED
    BY <2>28, <2>29, OthersMove DEF IInv
<1>49. CASE ExitEnds
  <2>21. \A d \in Devices : Count(Own(d))' = Count(Own(d))
    BY <1>49 DEF ExitEnds, ExitUnchanged, memory, Own, At, Up
  <2>22. \A d \in Devices : MsgRefs(d)' = MsgRefs(d)
    BY <1>49 DEF ExitEnds, ExitUnchanged, memory, MsgRefs
  <2>23. \A d \in Devices : JobRefs(d)' = JobRefs(d)
    BY <1>49 DEF ExitEnds, ExitUnchanged, memory, JobRefs
  <2>24. \A d \in Devices : AppRefs(d)' = AppRefs(d)
    BY <1>49 DEF ExitEnds, ExitUnchanged, memory, AppRefs
  <2>25. \A d \in Devices : Count(d \in lost)' = Count(d \in lost)
    BY <1>49 DEF ExitEnds, ExitUnchanged, memory
  <2>26. \A d \in Devices : refs'[d] = refs[d]
    BY <1>49 DEF ExitEnds, ExitUnchanged, memory
  <2>27. OthersTyped /\ refs \in [Devices -> Nat]
    BY OthersNumbers DEF IInv, Types, MemTypes
  <2>28. SameFamily
    BY <1>49 DEF ExitEnds, ExitUnchanged, memory, SameFamily, Alive
  <2>29. \A d \in Devices :
           refs'[d] = refs[d] + ((Count(Own(d))' - Count(Own(d))) + (MsgRefs(d)' - MsgRefs(d))
                                 + (JobRefs(d)' - JobRefs(d)) + (AppRefs(d)' - AppRefs(d))
                                 + (Count(d \in lost)' - Count(d \in lost)))
    BY <2>21, <2>22, <2>23, <2>24, <2>25, <2>26, <2>27 DEF OthersTyped
  <2> QED
    BY <2>28, <2>29, OthersMove DEF IInv
<1>50. CASE ExitNot
  <2>1. UNCHANGED <<jobs, usbDevs, refs, parent, messages, batch, held, handle, lost, leftover, pc>>
    BY <1>50 DEF
      ExitNot, ExitUnchanged, RefsUnchanged, bus, memory, thread, context, hotplug, app
  <2> QED
    BY <2>1, RefFrame DEF IInv, JobRefs
<1>51. CASE UNCHANGED vars
  BY <1>51, RefFrame DEF vars, bus, memory, thread, context, hotplug, app, IInv, JobRefs
<1> QED
  BY <1>1, <1>2, <1>3, <1>4, <1>5, <1>6, <1>7, <1>8, <1>9, <1>10, <1>11, <1>12, <1>13,
     <1>14, <1>15, <1>16, <1>17, <1>18, <1>19, <1>20, <1>21, <1>22, <1>23, <1>24, <1>25,
     <1>26, <1>27, <1>28, <1>29, <1>30, <1>31, <1>32, <1>33, <1>34, <1>35, <1>36, <1>37,
     <1>38, <1>39, <1>40, <1>41, <1>42, <1>43, <1>44, <1>45, <1>46, <1>47, <1>48, <1>49,
     <1>50, <1>51
     DEF Next, Work, Monitor, Initialise, Use, Events, Exit

-----------------------------------------------------------------------------
(* Every step keeps the list. *)

Claims ==
  /\ Wanted \subseteq Alive /\ \A d \in Devices : Own(d) => d \in Wanted
  /\ \A j \in Stack : j.at \in Holding /\ j.dev # NoDevice => j.dev \in Wanted
\* What Referred says, in a form that can be primed.
LEMMA Claimed == Types /\ RefsExact => Claims
BY Referred DEF Claims

\* What is listed is counted, and is not freed.
LEMMA ListUnref ==
  ASSUME IInv, Types', RefsExact', NEW d \in Wanted, Unref(d), UNCHANGED <<usbDevs, lost>>,
         pc' \notin {"devices", "join"}
  PROVE  ListInv'
<1>1. /\ Wanted' \subseteq Alive' /\ usbDevs' \subseteq Devices
      /\ \A e \in Devices : Own(e)' => e \in Wanted'
  <2>1. Claims'
    BY Claimed, PTL
  <2> QED
    BY <2>1 DEF Claims, Types, ListTypes
<1>2. \A e \in usbDevs' : Own(e)'
  BY <1>1 DEF Own, At
<1>3. usbDevs' \subseteq Alive'
  BY <1>1, <1>2
<1>4. \A e \in usbDevs : session'[e] = session[e]
  BY <1>3, Unrefs DEF IInv, Frees, Alive
<1> QED
  BY <1>3, <1>4 DEF IInv, ListInv

\* A device that is listed is there, is not lost, and is the only one of its session.
LEMMA KeptStep ==
  ASSUME IInv, Types', RefsExact', [Next]_vars
  PROVE  ListInv'
<1>1. CASE \E s \in Sessions : Plug(s) \/ Unplug(s)
  <2>1. UNCHANGED <<usbDevs, refs, session, lost>>
    BY <1>1 DEF
      Plug, Unplug, BusUnchanged, bus, memory, thread, context, hotplug, app
  <2> QED
    BY <2>1 DEF IInv, ListInv, Alive
<1>2. CASE Allocate
  <2>1. PICK d \in Devices \ Alive :
          /\ refs' = [refs EXCEPT ![d] = 1] /\ session' = [session EXCEPT ![d] = Now.id]
    BY <1>2 DEF Allocate
  <2>2. /\ refs \in [Devices -> Nat] /\ session \in [Devices -> Sessions \cup {Nothing}]
        /\ usbDevs \subseteq Devices
    BY DEF IInv, Types, MemTypes, ListTypes
  <2>3. UNCHANGED <<usbDevs, lost>>
    BY <1>2 DEF Allocate
  <2> QED
    BY <2>1, <2>2, <2>3 DEF IInv, ListInv, Alive
<1>3. CASE HasParent
  <2>1. refs \in [Devices -> Nat] /\ usbDevs \subseteq Devices
    BY DEF IInv, Types, MemTypes, ListTypes
  <2>2. \A e \in Devices : refs'[e] >= refs[e]
    BY <1>3, <2>1 DEF HasParent, Ref, Referenced
  <2>3. UNCHANGED <<usbDevs, session, lost>>
    BY <1>3 DEF HasParent, WorkUnchanged
  <2> QED
    BY <2>1, <2>2, <2>3 DEF IInv, ListInv, Alive, Types, MemTypes
<1>4. CASE Attach
  <2>1. Working /\ Now.at = "attach"
    BY <1>4, Doings DEF Attach
  <2>2. /\ Now \in Jobs /\ session[Now.dev] = Now.id /\ Find(Now.id) = {} /\ Now.dev \notin lost
        /\ Now.dev # NoDevice /\ Now \in Stack
    BY <2>1, StackIs DEF IInv, Types, JobOK
  <2>3. Now.dev \in Alive
    BY <2>1, <2>2, Referred DEF IInv, Holding
  <2>4. UNCHANGED <<refs, session, lost>> /\ usbDevs' = usbDevs \cup {Now.dev}
    BY <1>4 DEF Attach
  <2>5. \A d \in usbDevs : session[d] # session[Now.dev]
    BY <2>2 DEF Find
  <2> QED
    BY <2>2, <2>3, <2>4, <2>5 DEF IInv, ListInv, Alive
<1>5. CASE Gone
  <2>1. refs \in [Devices -> Nat] /\ usbDevs \subseteq Devices
    BY DEF IInv, Types, MemTypes, ListTypes
  <2>2. \A e \in Devices : refs'[e] >= refs[e]
    <3>1. refs' = refs \/ \E d : Ref(d)
      BY <1>5 DEF Gone
    <3> QED
      BY <2>1, <3>1 DEF Ref
  <2>3. UNCHANGED <<usbDevs, session, lost>>
    BY <1>5 DEF Gone, WorkUnchanged
  <2> QED
    BY <2>1, <2>2, <2>3 DEF IInv, ListInv, Alive, Types, MemTypes
<1>6. CASE Detach
  BY <1>6 DEF Detach, IInv, ListInv, Alive
<1>7. CASE Left
  <2>1. Working /\ Now.at = "left"
    BY <1>7, Doings DEF Left
  <2>2. Now.dev \notin usbDevs
    BY <2>1, StackIs DEF IInv, Types, JobOK
  <2>3. UNCHANGED <<usbDevs, refs, session>> /\ lost' \subseteq lost \cup {Now.dev}
    BY <1>7 DEF Left, memory
  <2> QED
    BY <2>2, <2>3 DEF IInv, ListInv, Alive
<1>8. CASE DropFound
  <2>1. pc' \notin {"devices", "join"}
    BY <1>8 DEF DropFound, Doing, WorkUnchanged, app, IInv, PlaceInv, PlaceExit,
       Leaving, Working
  <2>2. Unref(Now.dev) /\ UNCHANGED <<usbDevs, lost>> /\ Now.dev \in Wanted
    BY <1>8, Drops DEF DropFound
  <2> QED
    BY <2>1, <2>2, ListUnref
<1>9. CASE Known \/ NoParent \/ ParentFirst \/ Arrived
  <2>1. UNCHANGED <<usbDevs, refs, session, lost>>
    BY <1>9 DEF
      Known, NoParent, ParentFirst, Arrived, WorkUnchanged, bus, memory, thread,
      context, hotplug, app
  <2> QED
    BY <2>1 DEF IInv, ListInv, Alive
<1>10. CASE MonitorWakes \/ MonitorReads \/ MonitorDone \/ MonitorExits
  <2>1. UNCHANGED <<usbDevs, refs, session, lost>>
    BY <1>10 DEF
      MonitorWakes, MonitorReads, MonitorDone, MonitorExits, MonitorUnchanged, bus,
      memory, thread, context, hotplug, app
  <2> QED
    BY <2>1 DEF IInv, ListInv, Alive
<1>11. CASE GivesUp
  BY <1>11 DEF GivesUp, ListInv
<1>12. CASE InitAgain \/ InitBegins \/ MonitorStarts \/ ScanBegins \/ ScanEntry
            \/ ScanEnds \/ InitEnds \/ ScanFails
  <2>1. UNCHANGED <<usbDevs, refs, session, lost>>
    BY <1>12 DEF
      InitAgain, InitBegins, MonitorStarts, ScanBegins, ScanEntry, ScanEnds, InitEnds,
      ScanFails, InitUnchanged, bus, memory, thread, context, hotplug, app
  <2> QED
    BY <2>1 DEF IInv, ListInv, Alive
<1>13. CASE CopyList
  <2>1. refs \in [Devices -> Nat] /\ usbDevs \subseteq Devices
    BY DEF IInv, Types, MemTypes, ListTypes
  <2>2. \A e \in Devices : refs'[e] >= refs[e]
    BY <1>13, <2>1 DEF CopyList, Ref, Referenced
  <2>3. UNCHANGED <<usbDevs, session, lost>>
    BY <1>13 DEF CopyList, ListUnchanged
  <2> QED
    BY <2>1, <2>2, <2>3 DEF IInv, ListInv, Alive, Types, MemTypes
<1>14. CASE FreeList
  <2>1. PICK d \in held : Unref(d)
    BY <1>14 DEF FreeList
  <2>2. d \in Wanted /\ UNCHANGED <<usbDevs, lost>> /\ pc' \notin {"devices", "join"}
    BY <1>14, <2>1, Drops DEF FreeList, At, ListUnchanged
  <2> QED
    BY <2>1, <2>2, ListUnref
<1>15. CASE Open
  <2>1. refs \in [Devices -> Nat] /\ usbDevs \subseteq Devices
    BY DEF IInv, Types, MemTypes, ListTypes
  <2>2. \A e \in Devices : refs'[e] >= refs[e]
    BY <1>15, <2>1 DEF Open, Ref, Referenced
  <2>3. UNCHANGED <<usbDevs, session, lost>>
    BY <1>15 DEF Open, ListUnchanged
  <2> QED
    BY <2>1, <2>2, <2>3 DEF IInv, ListInv, Alive, Types, MemTypes
<1>16. CASE OpenFails
  <2>1. Unref(handle) /\ handle \in Wanted
    BY <1>16, Drops DEF OpenFails
  <2>2. UNCHANGED <<usbDevs, lost>> /\ pc' \notin {"devices", "join"}
    BY <1>16 DEF OpenFails, Up, At, ListUnchanged
  <2> QED
    BY <2>1, <2>2, ListUnref
<1>17. CASE Close
  <2>1. Unref(handle) /\ handle \in Wanted
    BY <1>17, Drops DEF Close
  <2>2. UNCHANGED <<usbDevs, lost>> /\ pc' \notin {"devices", "join"}
    BY <1>17 DEF Close, Up, At, ListUnchanged
  <2> QED
    BY <2>1, <2>2, ListUnref
<1>18. CASE ListBegins \/ PollBegins \/ PollReads \/ PollEmpty \/ Enumerate \/ OpenNode
            \/ OpenMissing
  <2>1. UNCHANGED <<usbDevs, refs, session, lost>>
    BY <1>18 DEF
      ListBegins, PollBegins, PollReads, PollEmpty, Enumerate, OpenNode, OpenMissing,
      ListUnchanged, bus, memory, thread, context, hotplug, app
  <2> QED
    BY <2>1 DEF IInv, ListInv, Alive
<1>19. CASE MessageDone
  <2>1. UNCHANGED <<usbDevs, lost>> /\ pc' \notin {"devices", "join"}
    BY <1>19 DEF MessageDone, At, HotplugUnchanged
  <2>2. CASE HoldsDevice(Head(batch))
    <3>1. Unref(Head(batch).dev) /\ Head(batch).dev \in Wanted
      BY <1>19, <2>2, Drops DEF MessageDone
    <3> QED
      BY <2>1, <3>1, ListUnref
  <2>3. CASE ~HoldsDevice(Head(batch))
    BY <1>19, <2>1, <2>3 DEF MessageDone, RefsUnchanged, memory, IInv, ListInv, Alive
  <2> QED
    BY <2>2, <2>3
<1>20. CASE Register \/ Deregister \/ Process \/ CallbackSkipped \/ CallbackCalled
            \/ CallbackReturns \/ Processed
  <2>1. UNCHANGED <<usbDevs, refs, session, lost>>
    BY <1>20 DEF
      Register, Deregister, Process, CallbackSkipped, CallbackCalled, CallbackReturns,
      Processed, HotplugUnchanged, RefsUnchanged, bus, memory, thread, context,
      hotplug, app
  <2> QED
    BY <2>1 DEF IInv, ListInv, Alive
<1>21. CASE FreeMessage
  <2>1. UNCHANGED <<usbDevs, lost>> /\ pc' \notin {"devices", "join"}
    BY <1>21 DEF FreeMessage, At, ExitUnchanged
  <2>2. CASE HoldsDevice(Head(messages))
    <3>1. Unref(Head(messages).dev) /\ Head(messages).dev \in Wanted
      BY <1>21, <2>2, Drops DEF FreeMessage
    <3> QED
      BY <2>1, <3>1, ListUnref
  <2>3. CASE ~HoldsDevice(Head(messages))
    BY <1>21, <2>1, <2>3 DEF FreeMessage, RefsUnchanged, memory, IInv, ListInv, Alive
  <2> QED
    BY <2>2, <2>3
<1>22. CASE FreeDevice
  <2>1. PICK d \in leftover :
          Unref(d) /\ usbDevs' = {e \in usbDevs : ~(e \in Line(d) /\ refs[e] = 1)}
    BY <1>22 DEF FreeDevice
  <2>2. d \in Wanted /\ lost' = lost
    BY <1>22, <2>1, Drops DEF FreeDevice, ExitUnchanged
  <2>3. /\ refs' \in [Devices -> Nat] /\ usbDevs \subseteq Devices
        /\ \A e \in usbDevs : refs[e] > 0
    BY DEF IInv, Types, MemTypes, ListTypes, ListInv, Alive
  <2>4. /\ \A e \in Devices : refs[e] > 0 /\ refs'[e] = 0 => refs[e] = 1 /\ e \in Line(d)
        /\ \A e \in Devices : refs'[e] > 0 => session'[e] = session[e]
    BY <2>1, <2>2, Unrefs DEF IInv, Frees
  <2>5. \A e \in usbDevs' : e \in usbDevs /\ refs'[e] > 0
    <3>1. \A e \in usbDevs' : e \in usbDevs /\ ~(e \in Line(d) /\ refs[e] = 1)
      BY <2>1
    <3> QED
      BY <2>3, <2>4, <3>1
  <2>6. usbDevs' \subseteq Alive'
    BY <2>3, <2>5 DEF Alive
  <2> QED
    BY <2>2, <2>3, <2>4, <2>5, <2>6 DEF IInv, ListInv
<1>23. CASE ExitEnds
  BY <1>23 DEF ExitEnds, ListInv
<1>24. CASE ExitNot \/ ExitBegins \/ FreeCallbacks \/ FreeDevices \/ StopMonitor
  <2>1. UNCHANGED <<usbDevs, refs, session, lost>>
    BY <1>24 DEF
      ExitNot, ExitBegins, FreeCallbacks, FreeDevices, StopMonitor, ExitUnchanged,
      RefsUnchanged, bus, memory, thread, context, hotplug, app
  <2> QED
    BY <2>1 DEF IInv, ListInv, Alive
<1>25. CASE UNCHANGED vars
  BY <1>25 DEF vars, bus, memory, thread, context, hotplug, app, IInv, ListInv, Alive
<1> QED
  BY <1>1, <1>2, <1>3, <1>4, <1>5, <1>6, <1>7, <1>8, <1>9, <1>10, <1>11, <1>12, <1>13,
     <1>14, <1>15, <1>16, <1>17, <1>18, <1>19, <1>20, <1>21, <1>22, <1>23, <1>24, <1>25
     DEF Next, Work, Monitor, Initialise, Use, Events, Exit

-----------------------------------------------------------------------------
(* Every step keeps the order of the messages. *)

\* Only the call in progress announces a departure.
LEMMA AtLeftIs ==
  ASSUME JobsTypes, JobInv
  PROVE  \A d : AtLeft(d) <=> Working /\ Now.at = "left" /\ Now.dev = d
<1>1. CASE ~Working
  <2>1. DOMAIN jobs = {}
    BY <1>1 DEF Working
  <2> QED
    BY <1>1, <2>1 DEF AtLeft, Stack
<1>2. CASE Working
  <2>1. Stack = Below \cup {Now} /\ \A j \in Below : j.at = "again"
    BY <1>2, StackIs
  <2> QED
    BY <1>2, <2>1 DEF AtLeft
<1> QED
  BY <1>1, <1>2

\* Who was told that a device left.
NoneTold == \A d \in Devices : Told(d, "left")' => Told(d, "left")

\* Nothing is added to what is to be handled.
LEMMA MsgStays ==
  ASSUME ListTypes, MsgInv, NoneTold, Pending' = Pending,
         \A d \in Devices : d \in usbDevs \/ AtLeft(d) => d \in usbDevs' \/ AtLeft(d)',
         \A d \in usbDevs' : d \in usbDevs \/ ~Departed(d), usbDevs' \subseteq Devices
  PROVE  MsgInv' /\ \A d \in Devices : Departed(d)' => Departed(d)
<1> DEFINE P == Pending
<1>1. P' = P /\ P \in Seq(Messages) /\ \A k \in DOMAIN P : P[k].dev \in Devices
  BY PendingIs
<1>2. \A d \in Devices : Departed(d)' => Departed(d)
  BY <1>1 DEF Departed, NoneTold, P
<1>3. ASSUME NEW k \in DOMAIN P, P[k].event = "arrived"
      PROVE  \/ P[k].dev \in usbDevs' \/ AtLeft(P[k].dev)'
             \/ \E l \in DOMAIN P : l > k /\ P[l] = Event("left", P[k].dev)
  BY <1>1, <1>3 DEF MsgInv, P
<1>4. \A d \in Devices : Departed(d)' => d \notin usbDevs'
  BY <1>2 DEF MsgInv
<1>5. \A k, l \in DOMAIN P : P[k].event = "left" /\ l > k => P[l].dev # P[k].dev
  BY DEF MsgInv, P
<1>6. \A d \in Devices : Told(d, "left")' => \A k \in DOMAIN P : P[k] # Event("arrived", d)
  BY DEF MsgInv, P, NoneTold
<1> QED
  BY <1>1, <1>2, <1>3, <1>4, <1>5, <1>6 DEF MsgInv, P

\* The oldest has been handled.
LEMMA MsgHandled ==
  ASSUME ListTypes, MsgInv, NoneTold, Pending # <<>>, Pending' = Tail(Pending),
         UNCHANGED <<usbDevs, jobs>>
  PROVE  MsgInv' /\ \A d \in Devices : Departed(d)' => Departed(d)
<1> DEFINE P == Pending
           T == Tail(P)
<1>1. /\ P \in Seq(Messages) /\ P # <<>> /\ Pending' = T
      /\ \A k \in DOMAIN P : P[k].dev \in Devices
  BY PendingIs
<1>2. /\ Len(P) \in Nat /\ DOMAIN P = 1..Len(P) /\ DOMAIN T = 1..(Len(P) - 1)
      /\ \A k \in DOMAIN T : T[k] = P[k + 1] /\ k + 1 \in DOMAIN P
  BY <1>1
<1> HIDE DEF T
<1>3. \A d \in Devices : Departed(d)' => Departed(d)
  BY <1>1, <1>2 DEF Departed, NoneTold, P
<1>4. ASSUME NEW k \in DOMAIN T, T[k].event = "arrived"
      PROVE  \/ T[k].dev \in usbDevs \/ AtLeft(T[k].dev)
             \/ \E l \in DOMAIN T : l > k /\ T[l] = Event("left", T[k].dev)
  <2>1. /\ k + 1 \in DOMAIN P /\ T[k] = P[k + 1] /\ k \in Nat
    BY <1>2
  <2>2. ASSUME NEW l \in DOMAIN P, l > k + 1, P[l] = Event("left", P[k + 1].dev)
        PROVE  \E i \in DOMAIN T : i > k /\ T[i] = Event("left", T[k].dev)
    <3>1. l - 1 \in DOMAIN T /\ l - 1 > k /\ T[l - 1] = P[l]
      BY <1>2, <2>1, <2>2
    <3> QED
      BY <2>1, <2>2, <3>1
  <2> QED
    BY <1>4, <2>1, <2>2 DEF MsgInv, P
<1>5. \A d \in Devices : AtLeft(d)' <=> AtLeft(d)
  BY DEF AtLeft, Stack
<1>6. \A k, l \in DOMAIN T : T[k].event = "left" /\ l > k => T[l].dev # T[k].dev
  <2>1. \A k, l \in DOMAIN P : P[k].event = "left" /\ l > k => P[l].dev # P[k].dev
    BY DEF MsgInv, P
  <2> QED
    BY <1>2, <2>1
<1>7. \A d \in Devices : Told(d, "left")' => \A k \in DOMAIN T : T[k] # Event("arrived", d)
  BY <1>2 DEF MsgInv, P, NoneTold
<1>8. \A d \in Devices : Departed(d)' => d \notin usbDevs'
  BY <1>3 DEF MsgInv
<1>9. \A k \in DOMAIN T : T[k].dev \in Devices
  BY <1>1, <1>2
<1> QED
  BY <1>1, <1>3, <1>4, <1>5, <1>6, <1>7, <1>8, <1>9 DEF MsgInv

\* One more is to be handled: of a device that is listed, or of one that has
\* just left the list and of which none has said so yet.
LEMMA MsgAdded ==
  ASSUME ListTypes, MsgInv, NEW e \in {"arrived", "left"}, NEW f \in Devices,
         Pending' = Append(Pending, Event(e, f)), told' = told, usbDevs' = usbDevs,
         e = "arrived" => f \in usbDevs, e = "left" => f \notin usbDevs, ~Departed(f),
         \A d \in Devices : AtLeft(d) => AtLeft(d)' \/ (e = "left" /\ d = f)
  PROVE  MsgInv' /\ \A d \in Devices : Departed(d)' => Departed(d) \/ (e = "left" /\ d = f)
<1> DEFINE P == Pending
           Q == Append(P, Event(e, f))
           n == Len(P) + 1
<1>1. /\ P \in Seq(Messages) /\ Pending' = Q /\ \A k \in DOMAIN P : P[k].dev \in Devices
      /\ \A k \in DOMAIN P : P[k] \in Messages
  BY PendingIs
<1>2. /\ Len(P) \in Nat /\ DOMAIN P = 1..Len(P) /\ DOMAIN Q = DOMAIN P \cup {n}
      /\ n \in Nat /\ n \notin DOMAIN P
      /\ \A k \in DOMAIN P : Q[k] = P[k] /\ k < n /\ k \in Nat
      /\ Q[n] = Event(e, f)
  BY <1>1
<1>3. \A d, g \in Devices : Event("left", d) # Event("arrived", g)
  BY DEF Event
<1>4. \A d : Event(e, d).event = e /\ Event(e, d).dev = d
  BY DEF Event
<1> HIDE DEF Q, n
<1>5. \A d : Told(d, "left")' <=> Told(d, "left")
  BY DEF Told
<1>6. \A d \in Devices : Departed(d)' => Departed(d) \/ (e = "left" /\ d = f)
  <2>1. ASSUME NEW d \in Devices, NEW k \in DOMAIN Q, Q[k] = Event("left", d)
        PROVE  Departed(d) \/ (e = "left" /\ d = f)
    <3>1. CASE k \in DOMAIN P
      BY <1>2, <2>1, <3>1 DEF Departed, P
    <3>2. CASE k = n
      BY <1>2, <2>1, <3>2 DEF Event
    <3> QED
      BY <1>2, <3>1, <3>2
  <2> QED
    BY <1>1, <1>5, <2>1 DEF Departed
<1>7. ASSUME NEW k \in DOMAIN Q, NEW d \in Devices, Q[k].event = "arrived", Q[k].dev = d
      PROVE  \/ d \in usbDevs' \/ AtLeft(d)'
             \/ \E l \in DOMAIN Q : l > k /\ Q[l] = Event("left", d)
  <2>1. CASE k = n
    BY <1>2, <1>4, <1>7, <2>1
  <2>2. CASE k \in DOMAIN P
    <3>1. Q[k] = P[k] /\ P[k].dev = d /\ k < n
      BY <1>1, <1>2, <1>7, <2>2
    <3>2. CASE d \in usbDevs
      BY <3>1, <3>2
    <3>3. CASE AtLeft(d)
      <4>1. AtLeft(d)' \/ (e = "left" /\ d = f)
        BY <3>3
      <4> QED
        BY <1>2, <3>1, <4>1
    <3>4. CASE \E l \in DOMAIN P : l > k /\ P[l] = Event("left", d)
      BY <1>2, <3>1, <3>4
    <3> QED
      BY <1>7, <2>2, <3>1, <3>2, <3>3, <3>4 DEF MsgInv, P
  <2> QED
    BY <1>2, <2>1, <2>2
<1>8. \A d \in Devices : Departed(d)' => d \notin usbDevs'
  BY <1>6 DEF MsgInv
<1>9. ASSUME NEW k \in DOMAIN Q, NEW l \in DOMAIN Q, Q[k].event = "left", l > k
      PROVE  Q[l].dev # Q[k].dev
  <2>1. k \in DOMAIN P /\ Q[k] = P[k]
    BY <1>2, <1>9
  <2>2. CASE l \in DOMAIN P
    BY <1>2, <1>9, <2>1, <2>2 DEF MsgInv, P
  <2>3. CASE l = n
    <3>1. P[k] \in Messages /\ P[k].event = "left"
      BY <1>1, <1>9, <2>1
    <3>2. P[k] = Event("left", P[k].dev)
      BY <3>1 DEF Messages, Event
    <3>3. P[k].dev # f
      BY <2>1, <3>2 DEF Departed, P
    <3> QED
      BY <1>2, <1>4, <2>1, <2>3, <3>3
  <2> QED
    BY <1>2, <2>2, <2>3
<1>10. ASSUME NEW d \in Devices, Told(d, "left"), NEW k \in DOMAIN Q
       PROVE  Q[k] # Event("arrived", d)
  <2>1. CASE k \in DOMAIN P
    BY <1>2, <1>10, <2>1 DEF MsgInv, P
  <2>2. CASE k = n
    <3>1. d # f
      BY <1>10 DEF Departed
    <3> QED
      BY <1>2, <1>4, <2>2, <3>1 DEF Event
  <2> QED
    BY <1>2, <2>1, <2>2
<1>11. \A k \in DOMAIN Q : Q[k].dev \in Devices
  BY <1>1, <1>2, <1>4
<1>12. ASSUME NEW k \in DOMAIN Pending', Pending'[k].event = "arrived"
       PROVE  \/ Pending'[k].dev \in usbDevs' \/ AtLeft(Pending[k].dev)'
              \/ \E l \in DOMAIN Pending' : l > k /\ Pending'[l] = Event("left", Pending'[k].dev)
  <2>1. PICK d \in Devices : d = Pending'[k].dev
    BY <1>1, <1>11, <1>12
  <2>2. \/ d \in usbDevs' \/ AtLeft(d)'
        \/ \E l \in DOMAIN Q : l > k /\ Q[l] = Event("left", d)
    BY <1>1, <1>7, <1>12, <2>1
  <2> QED
    BY <1>1, <2>1, <2>2 DEF AtLeft
<1> QED
  BY <1>1, <1>5, <1>6, <1>8, <1>9, <1>10, <1>12 DEF MsgInv

\* Nothing is to be handled.
LEMMA MsgNone ==
  ASSUME MsgInv, NoneTold, Pending' = <<>>, usbDevs' \subseteq usbDevs, usbDevs \subseteq Devices
  PROVE  MsgInv' /\ \A d \in Devices : Departed(d)' => Departed(d)
<1>1. DOMAIN Pending' = {}
  OBVIOUS
<1>2. \A d \in Devices : Departed(d)' => Departed(d)
  BY <1>1 DEF Departed, NoneTold
<1> QED
  BY <1>1, <1>2 DEF MsgInv

\* A callback has been told of what is handled.
LEMMA MsgHeard ==
  ASSUME ListTypes, MsgInv, Pending # <<>>, Pending' = Pending, UNCHANGED <<usbDevs, jobs>>,
         \A d \in Devices : Told(d, "left")' => Told(d, "left") \/ Pending[1] = Event("left", d)
  PROVE  MsgInv' /\ \A d \in Devices : Departed(d)' => Departed(d)
<1> DEFINE P == Pending
<1>1. /\ P' = P /\ P \in Seq(Messages) /\ P # <<>> /\ 1 \in DOMAIN P
      /\ DOMAIN P \subseteq Nat \ {0}
  BY PendingIs
<1>2. \A d \in Devices : Departed(d)' => Departed(d)
  BY <1>1 DEF Departed
<1>3. \A d : AtLeft(d)' <=> AtLeft(d)
  BY DEF AtLeft, Stack
<1>4. \A d \in Devices : Departed(d)' => d \notin usbDevs'
  BY <1>2 DEF MsgInv
<1>5. ASSUME NEW d \in Devices, Told(d, "left")', NEW k \in DOMAIN P
      PROVE  P[k] # Event("arrived", d)
  <2>1. CASE Told(d, "left")
    BY <2>1 DEF MsgInv
  <2>2. CASE P[1] = Event("left", d)
    <3>1. P[1].event = "left" /\ P[1].dev = d
      BY <2>2 DEF Event
    <3>2. CASE k = 1
      BY <3>1, <3>2 DEF Event
    <3>3. CASE k # 1
      <4>1. k > 1
        BY <1>1, <3>3
      <4>2. P[k].dev # d
        BY <1>1, <3>1, <4>1 DEF MsgInv
      <4> QED
        BY <4>2 DEF Event
    <3> QED
      BY <3>2, <3>3
  <2> QED
    BY <1>5, <2>1, <2>2
<1>6. \A k \in DOMAIN P : P[k].event = "arrived" =>
       \/ P[k].dev \in usbDevs \/ AtLeft(P[k].dev)
       \/ \E l \in DOMAIN P : l > k /\ P[l] = Event("left", P[k].dev)
  BY DEF MsgInv
<1>7. \A k, l \in DOMAIN P : P[k].event = "left" /\ l > k => P[l].dev # P[k].dev
  BY DEF MsgInv
<1> QED
  BY <1>1, <1>2, <1>3, <1>4, <1>5, <1>6, <1>7 DEF MsgInv

\* Nothing happens to the messages or the list.
LEMMA MsgFrame ==
  ASSUME ListTypes, MsgInv, NoneTold, UNCHANGED <<batch, messages, usbDevs>>,
         \A d \in Devices : AtLeft(d) => AtLeft(d)'
  PROVE  MsgInv' /\ \A d \in Devices : Departed(d)' => Departed(d)
<1>1. Pending' = Pending
  BY DEF Pending
<1> QED
  BY <1>1, MsgStays DEF ListTypes

\* Dropping a reference tells nobody anything.
LEMMA ToldSame == told' = told \/ Frees => NoneTold
BY DEF NoneTold, Told, Frees

\* Arrivals come before departures, and departures are announced once; the only device
\* that departs is the one whose departure is announced.
LEMMA MsgStep ==
  ASSUME IInv, [Next]_vars
  PROVE  /\ MsgInv'
         /\ \A d \in Devices : Departed(d)' => Departed(d) \/ (Left /\ d = Now.dev)
<1>1. CASE \E s \in Sessions : Plug(s) \/ Unplug(s)
  <2>1. UNCHANGED <<batch, messages, usbDevs, jobs, told>>
    BY <1>1 DEF
      Plug, Unplug, BusUnchanged, bus, memory, thread, context, hotplug, app
  <2> QED
    BY <2>1, ToldSame, MsgFrame DEF IInv, Types, AtLeft, Stack
<1>2. CASE Known
  <2>1. UNCHANGED <<batch, messages, usbDevs, told>>
    BY <1>2 DEF Known, WorkUnchanged, memory
  <2>2. \A d \in Devices : ~AtLeft(d)
    BY <1>2, AtLeftIs, Doings DEF Known, IInv, Types
  <2> QED
    BY <2>1, <2>2, ToldSame, MsgFrame DEF IInv, Types
<1>3. CASE Allocate
  <2>1. UNCHANGED <<batch, messages, usbDevs, told>>
    BY <1>3 DEF Allocate, WorkUnchanged, memory
  <2>2. \A d \in Devices : ~AtLeft(d)
    BY <1>3, AtLeftIs, Doings DEF Allocate, IInv, Types
  <2> QED
    BY <2>1, <2>2, ToldSame, MsgFrame DEF IInv, Types
<1>4. CASE HasParent
  <2>1. UNCHANGED <<batch, messages, usbDevs, told>>
    BY <1>4 DEF HasParent, WorkUnchanged, memory
  <2>2. \A d \in Devices : ~AtLeft(d)
    BY <1>4, AtLeftIs, Doings DEF HasParent, IInv, Types
  <2> QED
    BY <2>1, <2>2, ToldSame, MsgFrame DEF IInv, Types
<1>5. CASE NoParent
  <2>1. UNCHANGED <<batch, messages, usbDevs, told>>
    BY <1>5 DEF NoParent, WorkUnchanged, memory
  <2>2. \A d \in Devices : ~AtLeft(d)
    BY <1>5, AtLeftIs, Doings DEF NoParent, IInv, Types
  <2> QED
    BY <2>1, <2>2, ToldSame, MsgFrame DEF IInv, Types
<1>6. CASE ParentFirst
  <2>1. UNCHANGED <<batch, messages, usbDevs, told>>
    BY <1>6 DEF ParentFirst, WorkUnchanged, memory
  <2>2. \A d \in Devices : ~AtLeft(d)
    BY <1>6, AtLeftIs, Doings DEF ParentFirst, IInv, Types
  <2> QED
    BY <2>1, <2>2, ToldSame, MsgFrame DEF IInv, Types
<1>7. CASE Attach
  <2>1. Working /\ Now.at = "attach"
    BY <1>7, Doings DEF Attach
  <2>2. ~Departed(Now.dev) /\ Now.dev \in Devices
    BY <2>1, StackIs DEF IInv, Types, JobOK, Jobs
  <2>3. UNCHANGED <<batch, messages, told>> /\ usbDevs' = usbDevs \cup {Now.dev}
    BY <1>7 DEF Attach, WorkUnchanged
  <2>4. \A d \in Devices : ~AtLeft(d)
    BY <2>1, AtLeftIs DEF IInv, Types
  <2>5. Pending' = Pending
    BY <2>3 DEF Pending
  <2>6. ListTypes /\ MsgInv /\ usbDevs' \subseteq Devices /\ NoneTold
    BY <2>2, <2>3, ToldSame DEF IInv, Types, ListTypes
  <2> QED
    BY <2>2, <2>3, <2>4, <2>5, <2>6, MsgStays
<1>8. CASE Arrived
  <2>1. Working /\ Now.at = "notify"
    BY <1>8, Doings DEF Arrived
  <2>2. Now.dev \in Devices /\ Now.dev \in usbDevs /\ ~Departed(Now.dev)
    BY <2>1, StackIs DEF IInv, Types, JobOK, Jobs, MsgInv
  <2>3. UNCHANGED <<batch, usbDevs, told>> /\ ListTypes /\ MsgInv
    BY <1>8 DEF Arrived, WorkUnchanged, IInv, Types
  <2> DEFINE f == Now.dev
  <2>4. CASE ready
    <3>1. messages' = Append(messages, Event("arrived", f))
      BY <1>8, <2>4 DEF Arrived, Notify, Event
    <3> HIDE DEF f
    <3>2. f \in Devices
      BY <2>2 DEF f
    <3>3. Event("arrived", f) \in Messages
      BY <3>2 DEF Event, Messages
    <3>4. Pending' = Append(Pending, Event("arrived", f))
      BY <2>3, <3>1, <3>3, PendingAppend
    <3>5. \A d \in Devices : AtLeft(d) => FALSE
      BY <2>1, AtLeftIs DEF IInv, Types, f
    <3>6. f \in usbDevs /\ ~Departed(f)
      BY <2>2 DEF f
    <3>7. MsgInv' /\ \A d \in Devices : Departed(d)' => Departed(d)
      BY <2>3, <3>2, <3>4, <3>5, <3>6, MsgAdded
    <3> QED
      BY <1>8, <3>7
  <2>5. CASE ~ready
    <3>1. messages' = messages /\ \A d \in Devices : ~AtLeft(d)
      BY <1>8, <2>1, <2>5, AtLeftIs DEF Arrived, Notify, IInv, Types
    <3> QED
      BY <2>3, <3>1, ToldSame, MsgFrame
  <2> QED
    BY <2>4, <2>5
<1>9. CASE Gone
  <2>1. UNCHANGED <<batch, messages, usbDevs, told>>
    BY <1>9 DEF Gone, WorkUnchanged, memory
  <2>2. \A d \in Devices : ~AtLeft(d)
    <3>1. Working /\ Now.at = "lose"
      BY <1>9, Doings DEF Gone
    <3> QED
      BY <3>1, AtLeftIs DEF IInv, Types
  <2> QED
    BY <2>1, <2>2, ToldSame, MsgFrame DEF IInv, Types
<1>10. CASE Detach
  <2>1. /\ Working /\ Now.at = "detach" /\ Now \in Jobs /\ Now.dev \in Devices
    <3>1. Working /\ Now.at = "detach"
      BY <1>10, Doings DEF Detach
    <3> QED
      BY <3>1, StackIs DEF IInv, Types, JobOK, Jobs
  <2>2. UNCHANGED <<batch, messages, told>> /\ usbDevs' = usbDevs \ {Now.dev}
    BY <1>10 DEF Detach, WorkUnchanged
  <2> DEFINE j == [Now EXCEPT !.at = "left"]
  <2>3. j \in Jobs /\ Becomes(j) /\ j.at = "left" /\ j.dev = Now.dev
    BY <1>10, <2>1, Moved DEF Detach, Ats
  <2> HIDE DEF j
  <2>4. j \in Stack'
    BY <2>1, <2>3, StackBecomes DEF IInv, Types
  <2>5. \A d \in Devices : ~AtLeft(d) /\ (d = Now.dev => AtLeft(d)')
    <3>1. \A d \in Devices : d = j.dev => AtLeft(d)'
      BY <2>3, <2>4 DEF AtLeft
    <3> QED
      BY <2>1, <2>3, <3>1, AtLeftIs DEF IInv, Types
  <2>6. ListTypes /\ MsgInv /\ usbDevs' \subseteq Devices /\ NoneTold /\ Pending' = Pending
    BY <2>2, ToldSame DEF IInv, Types, ListTypes, Pending
  <2> QED
    BY <2>2, <2>5, <2>6, MsgStays
<1>11. CASE Left
  <2>1. Working /\ Now.at = "left"
    BY <1>11, Doings DEF Left
  <2>2. Now.dev \in Devices /\ Now.dev \notin usbDevs /\ ~Departed(Now.dev)
    BY <2>1, StackIs DEF IInv, Types, JobOK, Jobs, MsgInv
  <2>3. UNCHANGED <<batch, usbDevs, told>> /\ ListTypes /\ MsgInv
    BY <1>11 DEF Left, WorkUnchanged, IInv, Types
  <2> DEFINE f == Now.dev
  <2>4. CASE ready
    <3>1. messages' = Append(messages, Event("left", f))
      BY <1>11, <2>4 DEF Left, Notify, Event
    <3> HIDE DEF f
    <3>2. f \in Devices
      BY <2>2 DEF f
    <3>3. Event("left", f) \in Messages
      BY <3>2 DEF Event, Messages
    <3>4. Pending' = Append(Pending, Event("left", f))
      BY <2>3, <3>1, <3>3, PendingAppend
    <3>5. \A d \in Devices : AtLeft(d) => d = f
      BY <2>1, AtLeftIs DEF IInv, Types, f
    <3>6. f \notin usbDevs /\ ~Departed(f)
      BY <2>2 DEF f
    <3>7. MsgInv' /\ \A d \in Devices : Departed(d)' => Departed(d) \/ d = f
      BY <2>3, <3>2, <3>4, <3>5, <3>6, MsgAdded
    <3> QED
      BY <1>11, <3>7 DEF f
  <2>5. CASE ~ready
    <3>1. messages = <<>> /\ batch = <<>> /\ messages' = messages
      BY <1>11, <2>5 DEF Left, Notify, IInv, PlaceInv, PlaceMessages
    <3>2. Pending' = <<>>
      BY <2>3, <3>1 DEF Pending
    <3> QED
      BY <2>3, <3>2, ToldSame, MsgNone DEF ListTypes
  <2> QED
    BY <2>4, <2>5
<1>12. CASE DropFound
  <2>1. Unref(Now.dev) /\ Now.dev \in Wanted
    BY <1>12, Drops DEF DropFound
  <2>2. UNCHANGED <<batch, messages, usbDevs>>
    BY <1>12 DEF DropFound, WorkUnchanged
  <2>3. NoneTold
    BY <2>1, Unrefs, ToldSame DEF IInv
  <2>4. \A d \in Devices : AtLeft(d) => AtLeft(d)'
    BY <1>12, AtLeftIs, Doings DEF DropFound, IInv, Types
  <2> QED
    BY <2>2, <2>3, <2>4, MsgFrame DEF IInv, Types
<1>13. CASE MonitorReads
  <2>1. UNCHANGED <<batch, messages, usbDevs, told>>
    BY <1>13 DEF MonitorReads, MonitorUnchanged, memory, hotplug
  <2>2. \A d \in Devices : AtLeft(d) => AtLeft(d)'
    <3>1. jobs = <<>> \/ jobs' = jobs
      BY <1>13 DEF MonitorReads, TakeLock, Working, IInv, Types, LockTypes
    <3> QED
      BY <3>1, AtLeftIs DEF IInv, Types, Working, AtLeft, Stack
  <2> QED
    BY <2>1, <2>2, ToldSame, MsgFrame DEF IInv, Types
<1>14. CASE MonitorWakes \/ MonitorDone \/ MonitorExits
  <2>1. UNCHANGED <<batch, messages, usbDevs, jobs, told>>
    BY <1>14 DEF
      MonitorWakes, MonitorDone, MonitorExits, MonitorUnchanged, bus, memory, thread,
      context, hotplug, app
  <2> QED
    BY <2>1, ToldSame, MsgFrame DEF IInv, Types, AtLeft, Stack
<1>15. CASE ScanEntry
  <2>1. UNCHANGED <<batch, messages, usbDevs, told>>
    BY <1>15 DEF ScanEntry, InitUnchanged, memory, hotplug
  <2>2. \A d \in Devices : AtLeft(d) => AtLeft(d)'
    <3>1. jobs = <<>> \/ jobs' = jobs
      BY <1>15 DEF ScanEntry, TakeLock, Working, IInv, Types, LockTypes
    <3> QED
      BY <3>1, AtLeftIs DEF IInv, Types, Working, AtLeft, Stack
  <2> QED
    BY <2>1, <2>2, ToldSame, MsgFrame DEF IInv, Types
<1>16. CASE GivesUp
  <2>1. batch = <<>> /\ messages = <<>>
    <3>1. pc = "give up"
      BY <1>16 DEF GivesUp, At
    <3>2. users = 0
      BY <3>1 DEF IInv, PlaceInv, PlaceReady, Starting
    <3>3. ~ready
      BY <3>2 DEF IInv, PlaceInv, PlaceReady
    <3> QED
      BY <3>3 DEF IInv, PlaceInv, PlaceMessages
  <2>2. Pending' = <<>> /\ told' = told /\ usbDevs' = {}
    <3>1. UNCHANGED <<batch, messages, told>> /\ usbDevs' = {}
      BY <1>16 DEF GivesUp, hotplug
    <3> QED
      BY <2>1, <3>1 DEF Pending
  <2> QED
    BY <2>2, ToldSame, MsgNone DEF IInv, Types, ListTypes
<1>17. CASE InitAgain \/ InitBegins \/ MonitorStarts \/ ScanBegins \/ ScanEnds
            \/ InitEnds \/ ScanFails
  <2>1. UNCHANGED <<batch, messages, usbDevs, jobs, told>>
    BY <1>17 DEF
      InitAgain, InitBegins, MonitorStarts, ScanBegins, ScanEnds, InitEnds, ScanFails,
      InitUnchanged, bus, memory, thread, context, hotplug, app
  <2> QED
    BY <2>1, ToldSame, MsgFrame DEF IInv, Types, AtLeft, Stack
<1>18. CASE PollReads
  <2>1. UNCHANGED <<batch, messages, usbDevs, told>>
    BY <1>18 DEF PollReads, ListUnchanged, memory, hotplug
  <2>2. \A d \in Devices : AtLeft(d) => AtLeft(d)'
    <3>1. jobs = <<>> \/ jobs' = jobs
      BY <1>18 DEF PollReads, TakeLock, Working, IInv, Types, LockTypes
    <3> QED
      BY <3>1, AtLeftIs DEF IInv, Types, Working, AtLeft, Stack
  <2> QED
    BY <2>1, <2>2, ToldSame, MsgFrame DEF IInv, Types
<1>19. CASE Enumerate
  <2>1. UNCHANGED <<batch, messages, usbDevs, jobs>>
    BY <1>19 DEF Enumerate, ListUnchanged
  <2>2. NoneTold
    BY <1>19 DEF Enumerate, Tell, NoneTold, Told, IInv, Types, MemTypes, ToldOf
  <2> QED
    BY <2>1, <2>2, MsgFrame DEF IInv, Types, AtLeft, Stack
<1>20. CASE FreeList
  <2>1. PICK d \in Wanted : Unref(d)
    BY <1>20, Drops DEF FreeList
  <2>2. UNCHANGED <<batch, messages, usbDevs>>
    BY <1>20 DEF FreeList, ListUnchanged
  <2>3. NoneTold
    BY <2>1, Unrefs, ToldSame DEF IInv
  <2>4. \A e \in Devices : AtLeft(e) => AtLeft(e)'
    BY <1>20 DEF FreeList, ListUnchanged, AtLeft, Stack
  <2> QED
    BY <2>2, <2>3, <2>4, MsgFrame DEF IInv, Types
<1>21. CASE OpenMissing
  <2>1. UNCHANGED <<batch, messages, usbDevs, told>>
    BY <1>21 DEF OpenMissing, ListUnchanged, memory, hotplug
  <2>2. \A d \in Devices : AtLeft(d) => AtLeft(d)'
    <3>1. jobs = <<>> \/ jobs' = jobs
      BY <1>21 DEF OpenMissing, TakeLock, Working, IInv, Types, LockTypes
    <3> QED
      BY <3>1, AtLeftIs DEF IInv, Types, Working, AtLeft, Stack
  <2> QED
    BY <2>1, <2>2, ToldSame, MsgFrame DEF IInv, Types
<1>22. CASE OpenFails
  <2>1. Unref(handle) /\ handle \in Wanted
    BY <1>22, Drops DEF OpenFails
  <2>2. UNCHANGED <<batch, messages, usbDevs>>
    BY <1>22 DEF OpenFails, ListUnchanged
  <2>3. NoneTold
    BY <2>1, Unrefs, ToldSame DEF IInv
  <2>4. \A d \in Devices : AtLeft(d) => AtLeft(d)'
    BY <1>22 DEF OpenFails, ListUnchanged, AtLeft, Stack
  <2> QED
    BY <2>2, <2>3, <2>4, MsgFrame DEF IInv, Types
<1>23. CASE Close
  <2>1. Unref(handle) /\ handle \in Wanted
    BY <1>23, Drops DEF Close
  <2>2. UNCHANGED <<batch, messages, usbDevs>>
    BY <1>23 DEF Close, ListUnchanged
  <2>3. NoneTold
    BY <2>1, Unrefs, ToldSame DEF IInv
  <2>4. \A d \in Devices : AtLeft(d) => AtLeft(d)'
    BY <1>23 DEF Close, ListUnchanged, AtLeft, Stack
  <2> QED
    BY <2>2, <2>3, <2>4, MsgFrame DEF IInv, Types
<1>24. CASE ListBegins \/ PollBegins \/ PollEmpty \/ CopyList \/ Open \/ OpenNode
  <2>1. UNCHANGED <<batch, messages, usbDevs, jobs, told>>
    BY <1>24 DEF
      ListBegins, PollBegins, PollEmpty, CopyList, Open, OpenNode, ListUnchanged, bus,
      memory, thread, context, hotplug, app
  <2> QED
    BY <2>1, ToldSame, MsgFrame DEF IInv, Types, AtLeft, Stack
<1>25. CASE Register
  <2>1. UNCHANGED <<batch, messages, usbDevs, jobs>>
    BY <1>25 DEF Register, HotplugUnchanged
  <2>2. NoneTold
    BY <1>25 DEF Register, NoneTold, Told, IInv, Types, MemTypes, ToldOf
  <2> QED
    BY <2>1, <2>2, MsgFrame DEF IInv, Types, AtLeft, Stack
<1>26. CASE Process
  <2>1. UNCHANGED <<usbDevs, jobs, told>> /\ batch' = messages /\ messages' = <<>>
    BY <1>26 DEF Process, HotplugUnchanged
  <2>2. batch = <<>>
    BY <1>26 DEF Process, Up, At, IInv, PlaceInv, PlaceMessages
  <2>3. Pending' = Pending
    BY <2>1, <2>2 DEF Pending, IInv, Types, ListTypes
  <2> QED
    BY <2>1, <2>3, ToldSame, MsgStays DEF IInv, Types, ListTypes, AtLeft, Stack, MsgInv
<1>27. CASE CallbackCalled
  <2>1. /\ UNCHANGED <<usbDevs, jobs, batch, messages>> /\ batch # <<>> /\ Pending' = Pending
    BY <1>27 DEF CallbackCalled, HotplugUnchanged, Pending
  <2>2. PICK c : c \in walk /\ Tell(c, Head(batch).event, {Head(batch).dev})
    BY <1>27 DEF CallbackCalled
  <2>3. Pending # <<>> /\ Pending[1] = Head(batch) /\ Head(batch) \in Messages
    BY <2>1, PendingIs DEF IInv, Types
  <2>4. ASSUME NEW d \in Devices, Told(d, "left")', ~Told(d, "left")
        PROVE  Pending[1] = Event("left", d)
    <3>1. PICK x \in Callbacks : told'[x][d] = "left" /\ told[x][d] # "left"
      BY <2>4 DEF Told
    <3>2. Head(batch).event = "left" /\ Head(batch).dev = d
      BY <2>2, <3>1 DEF Tell, IInv, Types, MemTypes, ToldOf
    <3> QED
      BY <2>3, <3>2 DEF Messages, Event
  <2> QED
    BY <2>1, <2>3, <2>4, MsgHeard DEF IInv, Types
<1>28. CASE MessageDone
  <2>2. Pending # <<>> /\ Pending' = Tail(Pending) /\ UNCHANGED <<usbDevs, jobs>>
    BY <1>28, PendingTail DEF MessageDone, HotplugUnchanged, IInv, Types
  <2>3. CASE HoldsDevice(Head(batch))
    <3>1. Unref(Head(batch).dev) /\ Head(batch).dev \in Wanted
      BY <1>28, <2>3, Drops DEF MessageDone
    <3>2. NoneTold
      BY <3>1, Unrefs, ToldSame DEF IInv
    <3> QED
      BY <2>2, <3>2, MsgHandled DEF IInv, Types
  <2>4. CASE ~HoldsDevice(Head(batch))
    <3>1. NoneTold
      BY <1>28, <2>4, ToldSame DEF MessageDone, RefsUnchanged
    <3> QED
      BY <2>2, <3>1, MsgHandled DEF IInv, Types
  <2> QED
    BY <2>3, <2>4
<1>29. CASE Deregister \/ CallbackSkipped \/ CallbackReturns \/ Processed
  <2>1. UNCHANGED <<batch, messages, usbDevs, jobs, told>>
    BY <1>29 DEF
      Deregister, CallbackSkipped, CallbackReturns, Processed, HotplugUnchanged,
      RefsUnchanged, bus, memory, thread, context, hotplug, app
  <2> QED
    BY <2>1, ToldSame, MsgFrame DEF IInv, Types, AtLeft, Stack
<1>30. CASE FreeMessage
  <2>1. batch = <<>> /\ batch' = <<>>
    BY <1>30 DEF FreeMessage, At, ExitUnchanged, IInv, PlaceInv, PlaceMessages
  <2>2. Pending # <<>> /\ Pending' = Tail(Pending) /\ UNCHANGED <<usbDevs, jobs>>
    BY <1>30, <2>1, PendingTail DEF FreeMessage, ExitUnchanged, IInv, Types
  <2>3. CASE HoldsDevice(Head(messages))
    <3>1. Unref(Head(messages).dev) /\ Head(messages).dev \in Wanted
      BY <1>30, <2>3, Drops DEF FreeMessage
    <3>2. NoneTold
      BY <3>1, Unrefs, ToldSame DEF IInv
    <3> QED
      BY <2>2, <3>2, MsgHandled DEF IInv, Types
  <2>4. CASE ~HoldsDevice(Head(messages))
    <3>1. NoneTold
      BY <1>30, <2>4, ToldSame DEF FreeMessage, RefsUnchanged
    <3> QED
      BY <2>2, <3>1, MsgHandled DEF IInv, Types
  <2> QED
    BY <2>3, <2>4
<1>31. CASE FreeDevice
  <2>1. batch = <<>> /\ messages = <<>>
    BY <1>31 DEF FreeDevice, At, IInv, PlaceInv, PlaceMessages, PlaceExit
  <2>2. Pending' = <<>> /\ usbDevs' \subseteq usbDevs
    BY <1>31, <2>1 DEF FreeDevice, Pending, ExitUnchanged
  <2>3. PICK d \in Wanted : Unref(d)
    BY <1>31, Drops DEF FreeDevice
  <2>4. NoneTold
    BY <2>3, Unrefs, ToldSame DEF IInv
  <2> QED
    BY <2>2, <2>4, MsgNone DEF IInv, Types, ListTypes
<1>32. CASE ExitEnds
  <2>1. batch = <<>> /\ messages = <<>>
    BY <1>32 DEF ExitEnds, At, IInv, PlaceInv, PlaceMessages, PlaceExit
  <2>2. Pending' = <<>> /\ told' = told /\ usbDevs' = {}
    BY <1>32, <2>1 DEF ExitEnds, Pending, ExitUnchanged
  <2> QED
    BY <2>2, ToldSame, MsgNone DEF IInv, Types, ListTypes
<1>33. CASE ExitNot \/ ExitBegins \/ FreeCallbacks \/ FreeDevices \/ StopMonitor
  <2>1. UNCHANGED <<batch, messages, usbDevs, jobs, told>>
    BY <1>33 DEF
      ExitNot, ExitBegins, FreeCallbacks, FreeDevices, StopMonitor, ExitUnchanged,
      RefsUnchanged, bus, memory, thread, context, hotplug, app
  <2> QED
    BY <2>1, ToldSame, MsgFrame DEF IInv, Types, AtLeft, Stack
<1>34. CASE UNCHANGED vars
  BY <1>34, ToldSame, MsgFrame DEF vars, bus, memory, thread, context, hotplug, app,
     IInv, Types, AtLeft, Stack
<1> QED
  BY <1>1, <1>2, <1>3, <1>4, <1>5, <1>6, <1>7, <1>8, <1>9, <1>10, <1>11, <1>12, <1>13,
     <1>14, <1>15, <1>16, <1>17, <1>18, <1>19, <1>20, <1>21, <1>22, <1>23, <1>24, <1>25,
     <1>26, <1>27, <1>28, <1>29, <1>30, <1>31, <1>32, <1>33, <1>34
     DEF Next, Work, Monitor, Initialise, Use, Events, Exit

-----------------------------------------------------------------------------
(* Every step keeps the calls in order. *)

\* Calls return in order,
LEMMA OrderDone ==
  ASSUME JobsTypes, JobOrder, Working, Done
  PROVE  JobOrder'
<1>1. jobs \in Seq(Jobs) /\ jobs # <<>>
  BY DEF JobsTypes, Working
<1>2. /\ jobs' \in Seq(Jobs) /\ Len(jobs') = Len(jobs) - 1 /\ Len(jobs) \in Nat
      /\ \A k \in 1..(Len(jobs) - 1) : jobs'[k] = jobs[k]
  BY <1>1, FrontLast DEF Done
<1>3. \A k \in DOMAIN jobs' : k \in DOMAIN jobs /\ k < Len(jobs) /\ jobs'[k] = jobs[k]
  BY <1>1, <1>2
<1> QED
  BY <1>1, <1>2, <1>3 DEF JobOrder

\* ... go on,
LEMMA OrderBecomes ==
  ASSUME JobsTypes, JobOrder, Working, NEW j \in Jobs, Becomes(j), j.id = Now.id
  PROVE  JobOrder'
<1>1. jobs \in Seq(Jobs) /\ jobs # <<>>
  BY DEF JobsTypes, Working
<1>2. /\ Front(jobs) \in Seq(Jobs) /\ Len(Front(jobs)) = Len(jobs) - 1 /\ Len(jobs) \in Nat
      /\ Len(jobs) >= 1 /\ \A k \in 1..(Len(jobs) - 1) : Front(jobs)[k] = jobs[k]
      /\ Now = jobs[Len(jobs)]
  BY <1>1, FrontLast DEF Now
<1>3. jobs' = Append(Front(jobs), j)
  BY <1>1, StackTypes DEF Becomes, Working
<1>4. /\ jobs' \in Seq(Jobs) /\ Len(jobs') = Len(jobs) /\ jobs'[Len(jobs)] = j
      /\ \A k \in 1..(Len(jobs) - 1) : jobs'[k] = jobs[k]
  BY <1>2, <1>3
<1>5. /\ DOMAIN jobs' = DOMAIN jobs /\ DOMAIN jobs = 1..Len(jobs)
      /\ \A k \in DOMAIN jobs : jobs'[k].id = jobs[k].id
      /\ \A k \in DOMAIN jobs : k < Len(jobs) => jobs'[k] = jobs[k]
  <2>1. DOMAIN jobs' = DOMAIN jobs /\ DOMAIN jobs = 1..Len(jobs)
    BY <1>1, <1>2, <1>4
  <2>2. ASSUME NEW k \in DOMAIN jobs
        PROVE  jobs'[k].id = jobs[k].id /\ (k < Len(jobs) => jobs'[k] = jobs[k])
    <3>1. k = Len(jobs) \/ (k \in 1..(Len(jobs) - 1) /\ k < Len(jobs))
      BY <1>2, <2>1
    <3>2. CASE k = Len(jobs)
      BY <1>2, <1>4, <3>2
    <3>3. CASE k \in 1..(Len(jobs) - 1) /\ k < Len(jobs)
      BY <1>4, <3>3
    <3> QED
      BY <3>1, <3>2, <3>3
  <2> QED
    BY <2>1, <2>2
<1> QED
  BY <1>4, <1>5 DEF JobOrder

\* ... and call for a parent only, which is on a lower tier.
LEMMA OrderPushed ==
  ASSUME JobsTypes, JobOrder, Working, NEW i \in Jobs, NEW j \in Jobs,
         jobs' = Front(jobs) \o <<i, j>>, i.at = "again", i.id = Now.id,
         Tier[j.id] < Tier[i.id]
  PROVE  JobOrder'
<1>1. jobs \in Seq(Jobs) /\ jobs # <<>>
  BY DEF JobsTypes, Working
<1>2. /\ Front(jobs) \in Seq(Jobs) /\ Len(Front(jobs)) = Len(jobs) - 1 /\ Len(jobs) \in Nat
      /\ Len(jobs) >= 1 /\ \A k \in 1..(Len(jobs) - 1) : Front(jobs)[k] = jobs[k]
      /\ Now = jobs[Len(jobs)]
  BY <1>1, FrontLast DEF Now
<1>3. jobs' = Append(Append(Front(jobs), i), j)
  BY <1>1, StackTypes DEF Working
<1> DEFINE n == Len(jobs)
<1>4. /\ jobs' \in Seq(Jobs) /\ Len(jobs') = n + 1 /\ jobs'[n] = i /\ jobs'[n + 1] = j
      /\ \A k \in 1..(n - 1) : jobs'[k] = jobs[k]
  <2> DEFINE f == Append(Front(jobs), i)
  <2>1. /\ f \in Seq(Jobs) /\ Len(f) = n /\ f[n] = i /\ \A k \in 1..(n - 1) : f[k] = jobs[k]
    BY <1>2
  <2>2. jobs' = Append(f, j)
    BY <1>3
  <2> HIDE DEF f
  <2>3. /\ Append(f, j) \in Seq(Jobs) /\ Len(Append(f, j)) = Len(f) + 1
        /\ Append(f, j)[Len(f) + 1] = j /\ \A k \in 1..Len(f) : Append(f, j)[k] = f[k]
    BY <2>1
  <2>4. n \in 1..Len(f) /\ \A k \in 1..(n - 1) : k \in 1..Len(f)
    BY <1>2, <2>1
  <2> QED
    BY <2>1, <2>2, <2>3, <2>4
<1>5. /\ n \in Nat /\ DOMAIN jobs = 1..n /\ DOMAIN jobs' = 1..(n + 1) /\ Now = jobs[n]
      /\ \A k \in 1..n : jobs'[k].id = jobs[k].id
      /\ \A k \in 1..n : jobs'[k].at = "again" \/ k = n
  <2>1. n \in Nat /\ n >= 1 /\ DOMAIN jobs = 1..n /\ DOMAIN jobs' = 1..(n + 1) /\ Now = jobs[n]
    BY <1>1, <1>2, <1>4
  <2>0. jobs'[n] = i
    BY <1>4
  <2>4. \A k \in 1..(n - 1) : k \in DOMAIN jobs /\ k < Len(jobs) /\ jobs'[k] = jobs[k]
    <3> SUFFICES ASSUME NEW k \in 1..(n - 1)
                 PROVE  k \in DOMAIN jobs /\ k < Len(jobs) /\ jobs'[k] = jobs[k]
      OBVIOUS
    <3>1. jobs'[k] = jobs[k]
      BY <1>4
    <3>2. n = Len(jobs)
      OBVIOUS
    <3> HIDE DEF n
    <3>3. k \in 1..n /\ k < n
      BY <2>1
    <3> QED
      BY <2>1, <3>1, <3>2, <3>3
  <2> HIDE DEF n
  <2>2. \A k \in 1..n : k = n \/ (k \in 1..(n - 1) /\ k < n)
    <3> SUFFICES ASSUME NEW k \in 1..n, k # n PROVE k \in 1..(n - 1) /\ k < n
      OBVIOUS
    <3>1. n \in Nat
      BY <2>1
    <3> QED
      BY <3>1
  <2>3. \A k \in 1..(n - 1) : jobs'[k].id = jobs[k].id /\ jobs'[k].at = "again"
    BY <2>4 DEF JobOrder
  <2> QED
    BY <2>0, <2>1, <2>2, <2>3
<1>6. \A k \in 1..n : Tier[jobs'[k].id] \in Nat
  <2>1. \A x \in Jobs : x.id \in Sessions
    BY DEF Jobs
  <2>2. \A x \in Sessions : Tier[x] \in Nat
    BY TierIs
  <2>3. \A k \in 1..n : k \in 1..Len(jobs')
    BY <1>2, <1>4
  <2>4. \A k \in 1..Len(jobs') : jobs'[k] \in Jobs
    BY <1>4
  <2> QED
    BY <2>1, <2>2, <2>3, <2>4
<1>7. /\ Tier[j.id] \in Nat /\ Tier[i.id] \in Nat
  <2>1. j.id \in Sessions /\ i.id \in Sessions
    BY DEF Jobs
  <2>2. \A x \in Sessions : Tier[x] \in Nat
    BY TierIs
  <2> QED
    BY <2>1, <2>2
<1> HIDE DEF n
<1>8. \A k, l \in 1..n : k < l => Tier[jobs'[l].id] < Tier[jobs'[k].id]
  BY <1>5 DEF JobOrder
<1>9. \A k \in 1..n : Tier[j.id] < Tier[jobs'[k].id]
  <2>1. ASSUME NEW k \in 1..n
        PROVE  Tier[j.id] < Tier[jobs'[k].id]
    <3>1. CASE k = n
      BY <1>4, <3>1
    <3>2. CASE k < n
      <4>1. n \in 1..n
        BY <1>5, <3>2
      <4>2. Tier[i.id] < Tier[jobs'[k].id]
        BY <1>4, <1>8, <3>2, <4>1
      <4> DEFINE x == Tier[j.id]
                 y == Tier[i.id]
                 z == Tier[jobs'[k].id]
      <4>3. x \in Nat /\ y \in Nat /\ z \in Nat /\ x < y /\ y < z
        BY <1>6, <1>7, <4>2
      <4> HIDE DEF x, y, z
      <4>4. x < z
        BY <4>3
      <4> QED
        BY <4>4 DEF x, z
    <3> QED
      BY <1>5, <3>1, <3>2
  <2> QED
    BY <2>1
<1>10. \A k \in DOMAIN jobs' : k < Len(jobs') => jobs'[k].at = "again"
  <2> SUFFICES ASSUME NEW k \in DOMAIN jobs', k < Len(jobs') PROVE jobs'[k].at = "again"
    OBVIOUS
  <2>1. Len(jobs') = n + 1 /\ k \in 1..(n + 1) /\ n \in Nat
    BY <1>4, <1>5
  <2>2. k \in 1..n
    BY <2>1
  <2>3. CASE k = n
    BY <1>4, <1>5, <2>3
  <2> QED
    BY <1>5, <2>2, <2>3
<1>11. \A k, l \in DOMAIN jobs' : k < l => Tier[jobs'[l].id] < Tier[jobs'[k].id]
  <2>1. ASSUME NEW k \in DOMAIN jobs', NEW l \in DOMAIN jobs', k < l
        PROVE  Tier[jobs'[l].id] < Tier[jobs'[k].id]
    <3>1. k \in 1..n /\ (l \in 1..n \/ l = n + 1)
      BY <1>5, <2>1
    <3> QED
      BY <1>4, <1>8, <1>9, <2>1, <3>1
  <2> QED
    BY <2>1
<1> QED
  BY <1>10, <1>11 DEF JobOrder

\* A first call is for a session and has no device yet.
LEMMA OrderNew ==
  ASSUME jobs' = <<>> \/ \E j \in Jobs : jobs' = <<j>> /\ j.dev = NoDevice /\ j.at \in {"find", "lose"}
  PROVE  JobInv'
<1>1. CASE jobs' = <<>>
  <2>1. DOMAIN jobs' = {}
    BY <1>1
  <2> QED
    BY <2>1 DEF JobInv, JobOrder, Stack
<1>2. CASE \E j \in Jobs : jobs' = <<j>> /\ j.dev = NoDevice /\ j.at \in {"find", "lose"}
  <2>1. PICK j \in Jobs : jobs' = <<j>> /\ j.dev = NoDevice /\ j.at \in {"find", "lose"}
    BY <1>2
  <2>2. DOMAIN jobs' = {1} /\ jobs'[1] = j /\ Len(jobs') = 1
    BY <2>1
  <2>3. Stack' = {j}
    BY <2>2 DEF Stack
  <2>4. JobOrder'
    BY <2>2 DEF JobOrder
  <2> QED
    BY <2>1, <2>3, <2>4 DEF JobInv, JobOK
<1> QED
  BY <1>1, <1>2

\* Whose devices are there.
Cared ==
  \A j \in Stack : j.dev # NoDevice /\ j.at \in Holding \cup {"notify"}
                   /\ (j.at = "notify" => j.dev \in usbDevs) => j.dev \in Alive
\* The device a call is about is there.
LEMMA CaredFor == Types /\ RefsExact /\ ListInv => Cared
BY Claimed DEF Cared, Claims, ListInv

\* A call that nothing has happened to goes on as it was.
LEMMA JobKept ==
  ASSUME NEW j \in Jobs, JobOK(j),
         j.dev # NoDevice =>
           /\ session'[j.dev] = session[j.dev] /\ parent'[j.dev] = parent[j.dev]
           /\ j.dev \in usbDevs => j.dev \in usbDevs'
           /\ j.dev \in usbDevs' \cup lost' => j.dev \in usbDevs \cup lost
           /\ Departed(j.dev)' => Departed(j.dev),
         \A d \in usbDevs' : session'[d] = j.id => d \in usbDevs /\ session[d] = j.id
  PROVE  JobOK(j)'
<1>1. (j.at \in {"find", "lose"} => j.dev = NoDevice) /\ (j.dev = NoDevice => j.at \in {"find", "lose"})
  BY DEF JobOK
<1>2. j.dev # NoDevice => session'[j.dev] = j.id
  BY DEF JobOK
<1>3. ASSUME j.at \in {"parent", "again", "attach"}
      PROVE  Find(j.id)' = {} /\ ~Departed(j.dev)'
  <2>1. j.dev # NoDevice /\ Find(j.id) = {} /\ ~Departed(j.dev)
    BY <1>1, <1>3 DEF JobOK
  <2>2. \A d \in usbDevs' : session'[d] # j.id
    BY <2>1 DEF Find
  <2>3. Find(j.id)' = {}
    BY <2>2 DEF Find
  <2> QED
    BY <2>1, <2>3
<1>4. j.at \in {"parent", "again"} => parent'[j.dev] = NoDevice
  BY <1>1 DEF JobOK
<1>5. j.at \in {"parent", "again", "attach", "left"} => j.dev \notin usbDevs' \cup lost'
  BY <1>1 DEF JobOK
<1>6. j.at \in {"notify", "detach"} => j.dev \in usbDevs'
  BY <1>1 DEF JobOK
<1>7. j.at = "left" => ~Departed(j.dev)'
  BY <1>1 DEF JobOK
<1> QED
  BY <1>1, <1>2, <1>3, <1>4, <1>5, <1>6, <1>7 DEF JobOK

\* Nobody does anything to the calls.
LEMMA JobsStay ==
  ASSUME IInv, Types', RefsExact', ListInv', jobs' = jobs,
         \A d \in Devices : refs[d] > 0 /\ refs'[d] > 0 =>
           session'[d] = session[d] /\ parent'[d] = parent[d],
         \A d \in Devices : Departed(d)' => Departed(d),
         Working => usbDevs' = usbDevs /\ lost' = lost
  PROVE  JobInv'
<1>1. JobOrder' /\ Stack' = Stack
  BY DEF IInv, JobInv, JobOrder, Stack
<1>2. Cared /\ Cared'
  <2>1. Cared'
    BY CaredFor, PTL
  <2> QED
    BY <2>1, CaredFor DEF IInv
<1>3. usbDevs \subseteq Alive /\ usbDevs' \subseteq Alive'
  BY DEF IInv, ListInv
<1>4. ASSUME NEW j \in Stack
      PROVE  JobOK(j)'
  <2>1. Working
    <3>1. DOMAIN jobs # {}
      BY <1>4 DEF Stack
    <3> QED
      BY <3>1 DEF Working
  <2>2. j \in Jobs /\ JobOK(j)
    <3>1. Stack = Below \cup {Now} /\ Now \in Jobs /\ JobOK(Now) /\ \A i \in Below : i \in Jobs /\ JobOK(i)
      BY <2>1, StackIs DEF IInv, Types
    <3> QED
      BY <3>1
  <2>3. usbDevs' = usbDevs /\ lost' = lost
    BY <2>1
  <2>4. ASSUME j.dev # NoDevice
        PROVE  j.dev \in Devices /\ refs[j.dev] > 0 /\ refs'[j.dev] > 0
    <3>1. j.at \in Holding \cup {"notify"} /\ (j.at = "notify" => j.dev \in usbDevs)
      BY <2>2, <2>4 DEF JobOK, Jobs, Holding
    <3>2. j.dev \in Alive /\ j.dev \in Alive'
      BY <1>1, <1>2, <2>3, <2>4, <3>1 DEF Cared
    <3> QED
      BY <3>2 DEF Alive
  <2>5. \A d \in usbDevs' : d \in usbDevs /\ session'[d] = session[d]
    BY <1>3, <2>3 DEF Alive
  <2> QED
    BY <2>2, <2>3, <2>4, <2>5, JobKept
<1> QED
  BY <1>1, <1>4 DEF JobInv

\* The calls that wait for the one in progress.
LEMMA BelowStays ==
  ASSUME IInv, Types', RefsExact', ListInv', Working, Below \subseteq Stack',
         \A d \in Devices : refs[d] > 0 /\ refs'[d] > 0 =>
           session'[d] = session[d] /\ (d # Now.dev => parent'[d] = parent[d]),
         \A d \in usbDevs' : d \in usbDevs \/ (d = Now.dev /\ session[d] = Now.id),
         \A d \in lost' : d \in lost \/ d = Now.dev,
         \A d \in Devices : Departed(d)' => Departed(d) \/ d = Now.dev
  PROVE  \A j \in Below : JobOK(j)'
<1>1. Cared /\ Cared'
  <2>1. Cared'
    BY CaredFor, PTL
  <2> QED
    BY <2>1, CaredFor DEF IInv
<1>2. /\ Stack = Below \cup {Now} /\ Now \in Jobs /\ JobOK(Now)
      /\ \A i \in Below : i \in Jobs /\ JobOK(i) /\ i.at = "again" /\ i.id # Now.id
  BY StackIs DEF IInv, Types
<1>3. usbDevs' \subseteq Alive' /\ usbDevs \subseteq Alive
  BY DEF IInv, ListInv
<1> SUFFICES ASSUME NEW j \in Below
             PROVE  JobOK(j)'
  OBVIOUS
<1>4. j \in Jobs /\ JobOK(j) /\ j.at = "again" /\ j.id # Now.id /\ j.dev # NoDevice /\ session[j.dev] = j.id
  BY <1>2 DEF JobOK
<1>5. j.dev # Now.dev
  BY <1>2, <1>4 DEF JobOK
<1>6. j.dev \in Alive /\ j.dev \in Alive'
  BY <1>1, <1>2, <1>4 DEF Cared, Holding
<1>7. /\ j.dev \in Devices /\ session'[j.dev] = session[j.dev] /\ parent'[j.dev] = parent[j.dev]
      /\ (Departed(j.dev)' => Departed(j.dev))
  <2>1. j.dev \in Devices /\ refs[j.dev] > 0 /\ refs'[j.dev] > 0
    BY <1>6 DEF Alive
  <2> QED
    BY <1>5, <2>1
<1>8. j.dev \in usbDevs' \cup lost' => j.dev \in usbDevs \cup lost
  BY <1>5
<1>9. j.dev \notin usbDevs
  BY <1>4 DEF JobOK
<1>10. ASSUME NEW d \in usbDevs', session'[d] = j.id
       PROVE  d \in usbDevs /\ session[d] = j.id
  <2>1. CASE d \in usbDevs
    <3>1. d \in Devices /\ refs[d] > 0 /\ refs'[d] > 0
      BY <1>3, <2>1 DEF Alive
    <3> QED
      BY <1>10, <2>1, <3>1
  <2>2. CASE d = Now.dev /\ session[d] = Now.id /\ d \notin usbDevs
    <3>1. d \in Alive /\ d \in Alive'
      <4>1. d # NoDevice /\ Now.at \in Ats
        BY <1>3, <1>10, NotADevice, <1>2 DEF Alive, Jobs, Ats
      <4>2. Now.at \in Holding \cup {"notify"} /\ Now.at # "notify"
        BY <1>2, <2>2, <4>1 DEF JobOK, Holding, Ats
      <4>3. d \in Alive
        BY <1>1, <1>2, <2>2, <4>1, <4>2 DEF Cared
      <4> QED
        BY <1>3, <1>10, <4>3
    <3>2. session'[d] = session[d]
      BY <3>1 DEF Alive
    <3> QED
      BY <1>4, <1>10, <2>2, <3>2
  <2> QED
    BY <1>10, <2>1, <2>2
<1> QED
  BY <1>4, <1>7, <1>8, <1>9, <1>10, JobKept

\* The call in progress goes on with the same device,
LEMMA NowMoves ==
  ASSUME NEW at \in Ats, Now \in Jobs, Becomes([Now EXCEPT !.at = at])
  PROVE  \E j \in Jobs : Becomes(j) /\ j.at = at /\ j.id = Now.id /\ j.dev = Now.dev
<1> DEFINE j == [Now EXCEPT !.at = at]
<1>1. j \in Jobs /\ j.at = at /\ j.id = Now.id /\ j.dev = Now.dev
  BY Moved
<1>2. Becomes(j)
  OBVIOUS
<1> HIDE DEF j
<1> QED
  BY <1>1, <1>2

\* ... or with the device it has found or made.
LEMMA NowMovesTo ==
  ASSUME NEW at \in Ats, NEW d \in Devices, Now \in Jobs,
         Becomes([Now EXCEPT !.at = at, !.dev = d])
  PROVE  \E j \in Jobs : Becomes(j) /\ j.at = at /\ j.id = Now.id /\ j.dev = d
<1> DEFINE j == [Now EXCEPT !.at = at, !.dev = d]
<1>1. j \in Jobs /\ j.at = at /\ j.id = Now.id /\ j.dev = d
  <2>1. d \in Devices \cup {NoDevice}
    OBVIOUS
  <2> HIDE DEF j
  <2>2. ASSUME NEW x \in Jobs
        PROVE  /\ [x EXCEPT !.at = at, !.dev = d] \in Jobs
               /\ [x EXCEPT !.at = at, !.dev = d].at = at
               /\ [x EXCEPT !.at = at, !.dev = d].id = x.id
               /\ [x EXCEPT !.at = at, !.dev = d].dev = d
    BY <2>1 DEF Jobs, Ats
  <2> QED
    BY <2>2 DEF j
<1>2. Becomes(j)
  OBVIOUS
<1> HIDE DEF j
<1> QED
  BY <1>1, <1>2

\* Only announcing a departure is announcing it.
LEMMA LeftIs ==
  ASSUME IInv, Left
  PROVE  Working /\ Now.at = "left" /\ jobs' # jobs
<1>1. Working /\ Now.at = "left"
  BY Doings DEF Left
<1>2. Now \in Jobs /\ jobs \in Seq(Jobs) /\ jobs # <<>>
  BY <1>1, StackIs DEF IInv, Types, JobsTypes, Working
<1> DEFINE j == [Now EXCEPT !.at = "drop"]
<1>3. j \in Jobs /\ j.at = "drop" /\ Becomes(j)
  BY <1>2, Moved DEF Left, Ats
<1> HIDE DEF j
<1>4. jobs' = Append(Front(jobs), j)
  BY <1>1, <1>2, <1>3, StackTypes DEF Becomes
<1>5. Front(jobs) \in Seq(Jobs) /\ jobs = Append(Front(jobs), Now)
  BY <1>2, FrontLast DEF Now
<1>6. Last(Append(Front(jobs), j)) = j /\ Last(Append(Front(jobs), Now)) = Now
  BY <1>2, <1>3, <1>5 DEF Last
<1> QED
  BY <1>1, <1>3, <1>4, <1>5, <1>6

\* A uevent begins one call at most.
LEMMA ActIs ==
  ASSUME NEW m \in Uevents
  PROVE  \/ Act(m) = <<>>
         \/ \E j \in Jobs : Act(m) = <<j>> /\ j.dev = NoDevice /\ j.at \in {"find", "lose"}
<1> DEFINE j == Job(IF m.act = "add" THEN "find" ELSE "lose", m.id)
<1>1. m.id \in Sessions /\ (IF m.act = "add" THEN "find" ELSE "lose") \in {"find", "lose"}
  BY DEF Uevents
<1>2. j \in Jobs /\ j.dev = NoDevice /\ j.at \in {"find", "lose"}
  BY <1>1, JobTypes
<1>3. Act(m) = <<>> \/ Act(m) = <<j>>
  BY DEF Act
<1> HIDE DEF j
<1> QED
  BY <1>2, <1>3

\* What a step does beside the call in progress.
Near ==
  /\ \A d \in Devices : refs[d] > 0 /\ refs'[d] > 0 =>
       session'[d] = session[d] /\ (d # Now.dev => parent'[d] = parent[d])
  /\ \A d \in usbDevs' : d \in usbDevs \/ (d = Now.dev /\ session[d] = Now.id)
  /\ \A d \in lost' : d \in lost \/ d = Now.dev
  /\ \A d \in Devices : Departed(d)' => Departed(d) \/ d = Now.dev

\* The calls stay in order when the one in progress returns,
LEMMA NearDone ==
  ASSUME IInv, Types', RefsExact', ListInv', Working, Done, Near
  PROVE  JobInv'
<1>1. Stack' = Below /\ JobOrder'
  BY StackDone, OrderDone DEF IInv, Types, JobInv
<1>2. \A j \in Below : JobOK(j)'
  BY <1>1, BelowStays DEF Near
<1>3. \A j \in Stack' : JobOK(j)'
  BY <1>1, <1>2
<1> QED
  BY <1>1, <1>3 DEF JobInv

\* ... goes on,
LEMMA NearBecomes ==
  ASSUME IInv, Types', RefsExact', ListInv', Working, Near,
         NEW j \in Jobs, Becomes(j), j.id = Now.id, JobOK(j)'
  PROVE  JobInv'
<1>1. Stack' = Below \cup {j} /\ JobOrder'
  BY StackBecomes, OrderBecomes DEF IInv, Types, JobInv
<1>2. \A i \in Below : JobOK(i)'
  BY <1>1, BelowStays DEF Near
<1>3. \A i \in Stack' : JobOK(i)'
  BY <1>1, <1>2
<1> QED
  BY <1>1, <1>3 DEF JobInv

\* ... or calls for a parent.
LEMMA NearPushed ==
  ASSUME IInv, Types', RefsExact', ListInv', Working, Near, NEW i \in Jobs, NEW j \in Jobs,
         jobs' = Front(jobs) \o <<i, j>>, i.at = "again", i.id = Now.id,
         Tier[j.id] < Tier[i.id], JobOK(i)', JobOK(j)'
  PROVE  JobInv'
<1>1. Stack' = Below \cup {i, j} /\ JobOrder'
  BY StackPushed, OrderPushed DEF IInv, Types, JobInv
<1>2. \A k \in Below : JobOK(k)'
  BY <1>1, BelowStays DEF Near
<1>3. \A k \in Stack' : JobOK(k)'
  BY <1>1, <1>2
<1> QED
  BY <1>1, <1>3 DEF JobInv

\* Every step keeps the calls as they should be.
LEMMA JobStep ==
  ASSUME IInv, Types', RefsExact', ListInv', [Next]_vars,
         \A d \in Devices : Departed(d)' => Departed(d) \/ (Left /\ d = Now.dev)
  PROVE  JobInv'
<1>1. CASE \E s \in Sessions : Plug(s) \/ Unplug(s)
  <2>1. UNCHANGED <<jobs, session, parent, usbDevs, lost>>
    BY <1>1 DEF
      Plug, Unplug, BusUnchanged, bus, memory, thread, context, hotplug, app
  <2> QED
    BY <2>1, LeftIs, JobsStay
<1>2. CASE Known
  <2>1. Working /\ Now.at = "find"
    BY <1>2, Doings DEF Known
  <2>2. Now \in Jobs /\ JobOK(Now) /\ Now \in Stack
    BY <2>1, StackIs DEF IInv, Types
  <2>3. \A d \in Devices : Departed(d)' => Departed(d)
    BY <2>1, LeftIs
  <2>4. UNCHANGED <<usbDevs, session, parent, lost>>
    BY <1>2 DEF Known, memory
  <2>5. Near
    BY <2>3, <2>4 DEF Near
  <2> QED
    BY <1>2, <2>1, <2>5, NearDone DEF Known
<1>3. CASE Allocate
  <2>1. Working /\ Now.at = "find"
    BY <1>3, Doings DEF Allocate
  <2>2. Now \in Jobs /\ JobOK(Now) /\ Now \in Stack
    BY <2>1, StackIs DEF IInv, Types
  <2>3. \A d \in Devices : Departed(d)' => Departed(d)
    BY <2>1, LeftIs
  <2>4. PICK d \in Devices \ Alive :
          /\ refs' = [refs EXCEPT ![d] = 1] /\ session' = [session EXCEPT ![d] = Now.id]
          /\ Becomes([Now EXCEPT !.at = "parent", !.dev = d])
    BY <1>3 DEF Allocate
  <2>5. UNCHANGED <<parent, usbDevs, lost>> /\ Find(Now.id) = {}
    BY <1>3 DEF Allocate, Listed
  <2>6. PICK j \in Jobs : Becomes(j) /\ j.at = "parent" /\ j.id = Now.id /\ j.dev = d
    <3>1. "parent" \in Ats
      BY DEF Ats
    <3> QED
      BY <2>2, <2>4, <3>1, NowMovesTo
  <2>7. /\ refs \in [Devices -> Nat] /\ session \in [Devices -> Sessions \cup {Nothing}]
        /\ usbDevs \subseteq Alive /\ lost \subseteq Alive /\ refs[d] = 0 /\ d # NoDevice
    <3>1. lost \subseteq Alive
      BY Referred DEF IInv, Types, ListTypes
    <3> QED
      BY <2>4, <3>1, NotADevice DEF IInv, Types, MemTypes, ListInv, Alive
  <2>8. ~Departed(d)
    <3>1. ~Told(d, "left")
      BY <2>4, <2>7 DEF Told, IInv, MemInv
    <3>2. \A k \in DOMAIN Pending : Pending[k].dev \in Alive
      BY Named, PendingIs DEF NamedAlive, IInv, Types
    <3>3. \A k \in DOMAIN Pending : Pending[k] # Event("left", d)
      BY <2>4, <3>2 DEF Event
    <3> QED
      BY <3>1, <3>3 DEF Departed
  <2>9. \A e \in Devices : e # d => session'[e] = session[e]
    BY <2>4, <2>7
  <2>10. session'[d] = Now.id /\ parent'[d] = NoDevice
    BY <2>4, <2>5, <2>7 DEF IInv, MemInv
  <2>11. Near
    BY <2>3, <2>5, <2>7, <2>9 DEF Near
  <2>12. Find(j.id)' = {} /\ ~Departed(j.dev)'
    <3>1. \A e \in usbDevs' : session'[e] # Now.id
      BY <2>4, <2>5, <2>7, <2>9 DEF Find, Alive
    <3>2. Find(j.id)' = {}
      BY <2>6, <3>1 DEF Find
    <3>3. ~Departed(d)'
      BY <2>3, <2>4, <2>8
    <3> QED
      BY <2>6, <3>2, <3>3
  <2>13. d \notin usbDevs' \cup lost'
    BY <2>4, <2>5, <2>7
  <2>14. JobOK(j)'
    BY <2>6, <2>7, <2>10, <2>12, <2>13 DEF JobOK
  <2> QED
    BY <2>1, <2>6, <2>11, <2>14, NearBecomes
<1>4. CASE HasParent
  <2>1. Working /\ (Now.at = "parent" \/ Now.at = "again")
    BY <1>4, Doings DEF HasParent
  <2>2. Now \in Jobs /\ JobOK(Now) /\ Now \in Stack
    BY <2>1, StackIs DEF IInv, Types
  <2>3. \A d \in Devices : Departed(d)' => Departed(d)
    BY <2>1, LeftIs
  <2>4. PICK j \in Jobs : Becomes(j) /\ j.at = "attach" /\ j.id = Now.id /\ j.dev = Now.dev
    <3>1. Becomes([Now EXCEPT !.at = "attach"])
      BY <1>4 DEF HasParent
    <3>2. "attach" \in Ats
      BY DEF Ats
    <3> QED
      BY <2>2, <3>1, <3>2, NowMoves
  <2>5. /\ UNCHANGED <<session, usbDevs, lost>>
        /\ parent' = parent \/ \E p : parent' = [parent EXCEPT ![Now.dev] = p]
    BY <1>4 DEF HasParent, memory
  <2>6. /\ j.dev # NoDevice /\ j.dev \in Devices /\ session[j.dev] = j.id /\ Find(j.id) = {}
        /\ ~Departed(j.dev) /\ j.dev \notin usbDevs \cup lost
    BY <2>1, <2>2, <2>4 DEF JobOK, Jobs
  <2>7. Near
    BY <2>3, <2>5 DEF Near, IInv, Types, MemTypes
  <2>8. Find(j.id)' = {} /\ ~Departed(j.dev)'
    <3>1. Find(j.id)' = {}
      BY <2>5, <2>6 DEF Find
    <3> QED
      BY <2>3, <2>6, <3>1
  <2>9. JobOK(j)'
    BY <2>4, <2>5, <2>6, <2>8 DEF JobOK
  <2> QED
    BY <2>1, <2>4, <2>7, <2>9, NearBecomes
<1>5. CASE NoParent
  <2>1. Working /\ (Now.at = "parent" \/ Now.at = "again")
    BY <1>5, Doings DEF NoParent
  <2>2. Now \in Jobs /\ JobOK(Now) /\ Now \in Stack
    BY <2>1, StackIs DEF IInv, Types
  <2>3. \A d \in Devices : Departed(d)' => Departed(d)
    BY <2>1, LeftIs
  <2>4. PICK j \in Jobs : Becomes(j) /\ j.at = "attach" /\ j.id = Now.id /\ j.dev = Now.dev
    <3>1. Becomes([Now EXCEPT !.at = "attach"])
      BY <1>5 DEF NoParent
    <3>2. "attach" \in Ats
      BY DEF Ats
    <3> QED
      BY <2>2, <3>1, <3>2, NowMoves
  <2>5. /\ UNCHANGED <<session, usbDevs, lost>>
        /\ parent' = parent \/ \E p : parent' = [parent EXCEPT ![Now.dev] = p]
    BY <1>5 DEF NoParent, memory
  <2>6. /\ j.dev # NoDevice /\ j.dev \in Devices /\ session[j.dev] = j.id /\ Find(j.id) = {}
        /\ ~Departed(j.dev) /\ j.dev \notin usbDevs \cup lost
    BY <2>1, <2>2, <2>4 DEF JobOK, Jobs
  <2>7. Near
    BY <2>3, <2>5 DEF Near, IInv, Types, MemTypes
  <2>8. Find(j.id)' = {} /\ ~Departed(j.dev)'
    <3>1. Find(j.id)' = {}
      BY <2>5, <2>6 DEF Find
    <3> QED
      BY <2>3, <2>6, <3>1
  <2>9. JobOK(j)'
    BY <2>4, <2>5, <2>6, <2>8 DEF JobOK
  <2> QED
    BY <2>1, <2>4, <2>7, <2>9, NearBecomes
<1>6. CASE ParentFirst
  <2>1. Working /\ Now.at = "parent"
    BY <1>6, Doings DEF ParentFirst
  <2>2. Now \in Jobs /\ JobOK(Now) /\ Now \in Stack
    BY <2>1, StackIs DEF IInv, Types
  <2>3. \A d \in Devices : Departed(d)' => Departed(d)
    BY <2>1, LeftIs
  <2>5. /\ Now.id \in Sessions /\ Parent[Now.id] \in Sessions
        /\ Tier[Parent[Now.id]] < Tier[Now.id]
    <3>1. Now.id \in Sessions /\ Parent[Now.id] # Nothing
      BY <1>6, <2>2 DEF ParentFirst, Jobs
    <3>2. Parent[Now.id] \in Sessions
      BY <3>1, UsbDevicesAssumption
    <3>3. Tier[Now.id] = Tier[Parent[Now.id]] + 1 /\ Tier[Parent[Now.id]] \in 1..7
      BY <3>1, <3>2, TierIs
    <3> QED
      BY <3>1, <3>2, <3>3
  <2>4. PICK i \in Jobs, j \in Jobs :
          /\ jobs' = Front(jobs) \o <<i, j>>
          /\ i.at = "again" /\ i.id = Now.id /\ i.dev = Now.dev
          /\ j.at = "find" /\ j.id = Parent[Now.id] /\ j.dev = NoDevice
    <3>1. jobs' = Front(jobs) \o <<[Now EXCEPT !.at = "again"], Job("find", Parent[Now.id])>>
      BY <1>6 DEF ParentFirst
    <3>2. PICK i \in Jobs : i = [Now EXCEPT !.at = "again"]
                          /\ i.at = "again" /\ i.id = Now.id /\ i.dev = Now.dev
      <4> DEFINE k == [Now EXCEPT !.at = "again"]
      <4>1. k \in Jobs /\ k.at = "again" /\ k.id = Now.id /\ k.dev = Now.dev
        <5>1. "again" \in Ats
          BY DEF Ats
        <5> QED
          BY <2>2, <5>1, Moved
      <4> HIDE DEF k
      <4>2. \E i \in Jobs : i = k /\ i.at = "again" /\ i.id = Now.id /\ i.dev = Now.dev
        BY <4>1
      <4> QED
        BY <4>2 DEF k
    <3>3. /\ Job("find", Parent[Now.id]) \in Jobs /\ Job("find", Parent[Now.id]).at = "find"
          /\ Job("find", Parent[Now.id]).id = Parent[Now.id]
          /\ Job("find", Parent[Now.id]).dev = NoDevice
      BY <2>5, JobTypes
    <3> QED
      BY <3>1, <3>2, <3>3
  <2>7. UNCHANGED <<session, usbDevs, parent, lost>>
    BY <1>6 DEF ParentFirst, memory
  <2>8. /\ i.dev # NoDevice /\ i.dev \in Devices /\ session[i.dev] = i.id /\ Find(i.id) = {}
        /\ ~Departed(i.dev) /\ i.dev \notin usbDevs \cup lost /\ parent[i.dev] = NoDevice
    BY <2>1, <2>2, <2>4 DEF JobOK, Jobs
  <2>9. Near
    BY <2>3, <2>7 DEF Near
  <2>10. Find(i.id)' = {} /\ ~Departed(i.dev)'
    <3>1. Find(i.id)' = {}
      BY <2>7, <2>8 DEF Find
    <3> QED
      BY <2>3, <2>8, <3>1
  <2>11. JobOK(i)'
    BY <2>4, <2>7, <2>8, <2>10 DEF JobOK
  <2>12. JobOK(j)'
    BY <2>4 DEF JobOK
  <2> QED
    BY <2>1, <2>4, <2>5, <2>9, <2>11, <2>12, NearPushed
<1>7. CASE Attach
  <2>1. Working /\ Now.at = "attach"
    BY <1>7, Doings DEF Attach
  <2>2. Now \in Jobs /\ JobOK(Now) /\ Now \in Stack
    BY <2>1, StackIs DEF IInv, Types
  <2>3. \A d \in Devices : Departed(d)' => Departed(d)
    BY <2>1, LeftIs
  <2>4. PICK j \in Jobs : Becomes(j) /\ j.at = "notify" /\ j.id = Now.id /\ j.dev = Now.dev
    <3>1. Becomes([Now EXCEPT !.at = "notify"])
      BY <1>7 DEF Attach
    <3>2. "notify" \in Ats
      BY DEF Ats
    <3> QED
      BY <2>2, <3>1, <3>2, NowMoves
  <2>5. UNCHANGED <<session, parent, lost>> /\ usbDevs' = usbDevs \cup {Now.dev}
    BY <1>7 DEF Attach
  <2>6. j.dev # NoDevice /\ session[j.dev] = j.id
    BY <2>1, <2>2, <2>4 DEF JobOK
  <2>7. Near
    BY <2>3, <2>4, <2>5, <2>6 DEF Near
  <2>8. JobOK(j)'
    BY <2>4, <2>5, <2>6 DEF JobOK
  <2> QED
    BY <2>1, <2>4, <2>7, <2>8, NearBecomes
<1>8. CASE Arrived
  <2>1. Working /\ Now.at = "notify"
    BY <1>8, Doings DEF Arrived
  <2>2. Now \in Jobs /\ JobOK(Now) /\ Now \in Stack
    BY <2>1, StackIs DEF IInv, Types
  <2>3. \A d \in Devices : Departed(d)' => Departed(d)
    BY <2>1, LeftIs
  <2>4. UNCHANGED <<usbDevs, session, parent, lost>>
    BY <1>8 DEF Arrived, memory
  <2>5. Near
    BY <2>3, <2>4 DEF Near
  <2> QED
    BY <1>8, <2>1, <2>5, NearDone DEF Arrived
<1>9. CASE Gone
  <2>1. Working /\ Now.at = "lose"
    BY <1>9, Doings DEF Gone
  <2>2. Now \in Jobs /\ JobOK(Now) /\ Now \in Stack
    BY <2>1, StackIs DEF IInv, Types
  <2>3. \A d \in Devices : Departed(d)' => Departed(d)
    BY <2>1, LeftIs
  <2>4. UNCHANGED <<usbDevs, session, parent, lost>>
    BY <1>9 DEF Gone
  <2>5. Near
    BY <2>3, <2>4 DEF Near
  <2>6. CASE Find(Now.id) = {}
    BY <1>9, <2>1, <2>5, <2>6, NearDone DEF Gone
  <2>7. CASE Find(Now.id) # {}
    <3>1. PICK d \in Find(Now.id) : Becomes([Now EXCEPT !.at = "detach", !.dev = d])
      BY <1>9, <2>7 DEF Gone
    <3>2. d \in usbDevs /\ session[d] = Now.id /\ d \in Devices /\ d # NoDevice
      BY <3>1, NotADevice DEF Find, IInv, Types, ListTypes
    <3>3. PICK j \in Jobs : Becomes(j) /\ j.at = "detach" /\ j.id = Now.id /\ j.dev = d
      <4>1. "detach" \in Ats
        BY DEF Ats
      <4> QED
        BY <2>2, <3>1, <3>2, <4>1, NowMovesTo
    <3>4. JobOK(j)'
      BY <2>4, <3>2, <3>3 DEF JobOK
    <3> QED
      BY <2>1, <2>5, <3>3, <3>4, NearBecomes
  <2> QED
    BY <2>6, <2>7
<1>10. CASE Detach
  <2>1. Working /\ Now.at = "detach"
    BY <1>10, Doings DEF Detach
  <2>2. Now \in Jobs /\ JobOK(Now) /\ Now \in Stack
    BY <2>1, StackIs DEF IInv, Types
  <2>3. \A d \in Devices : Departed(d)' => Departed(d)
    BY <2>1, LeftIs
  <2>4. PICK j \in Jobs : Becomes(j) /\ j.at = "left" /\ j.id = Now.id /\ j.dev = Now.dev
    <3>1. Becomes([Now EXCEPT !.at = "left"])
      BY <1>10 DEF Detach
    <3>2. "left" \in Ats
      BY DEF Ats
    <3> QED
      BY <2>2, <3>1, <3>2, NowMoves
  <2>5. UNCHANGED <<session, parent, lost>> /\ usbDevs' = usbDevs \ {Now.dev}
    BY <1>10 DEF Detach
  <2>6. /\ j.dev # NoDevice /\ j.dev \in Devices /\ session[j.dev] = j.id /\ ~Departed(j.dev)
        /\ j.dev \notin lost
    <3>1. j.dev \in usbDevs /\ j.dev # NoDevice /\ j.dev \in Devices /\ session[j.dev] = j.id
      BY <2>1, <2>2, <2>4 DEF JobOK, Jobs
    <3> QED
      BY <3>1 DEF IInv, ListInv, MsgInv
  <2>7. Near
    BY <2>3, <2>5 DEF Near
  <2>8. ~Departed(j.dev)'
    BY <2>3, <2>6
  <2>9. JobOK(j)'
    BY <2>4, <2>5, <2>6, <2>8 DEF JobOK
  <2> QED
    BY <2>1, <2>4, <2>7, <2>9, NearBecomes
<1>11. CASE Left
  <2>1. Working /\ Now.at = "left"
    BY <1>11, Doings DEF Left
  <2>2. Now \in Jobs /\ JobOK(Now)
    BY <2>1, StackIs DEF IInv, Types
  <2>4. PICK j \in Jobs : Becomes(j) /\ j.at = "drop" /\ j.id = Now.id /\ j.dev = Now.dev
    <3>1. Becomes([Now EXCEPT !.at = "drop"])
      BY <1>11 DEF Left
    <3>2. "drop" \in Ats
      BY DEF Ats
    <3> QED
      BY <2>2, <3>1, <3>2, NowMoves
  <2>5. UNCHANGED <<session, parent, usbDevs>> /\ lost' \subseteq lost \cup {Now.dev}
    BY <1>11 DEF Left, memory
  <2>6. j.dev # NoDevice /\ session[j.dev] = j.id
    BY <2>1, <2>2, <2>4 DEF JobOK
  <2>7. Near
    BY <2>5 DEF Near
  <2>8. JobOK(j)'
    BY <2>4, <2>5, <2>6 DEF JobOK
  <2> QED
    BY <2>1, <2>4, <2>7, <2>8, NearBecomes
<1>12. CASE DropFound
  <2>1. Working /\ Now.at = "drop"
    BY <1>12, Doings DEF DropFound
  <2>2. Now \in Jobs /\ JobOK(Now) /\ Now \in Stack
    BY <2>1, StackIs DEF IInv, Types
  <2>3. \A d \in Devices : Departed(d)' => Departed(d)
    BY <2>1, LeftIs
  <2>4. Unref(Now.dev) /\ UNCHANGED <<usbDevs, lost>> /\ Now.dev \in Wanted
    BY <1>12, Drops DEF DropFound
  <2>5. Frees
    BY <2>4, Unrefs DEF IInv
  <2>6. Near
    BY <2>3, <2>4, <2>5 DEF Near, Frees
  <2> QED
    BY <1>12, <2>1, <2>6, NearDone DEF DropFound
<1>13. CASE MonitorReads
  <2>1. ~Working
    BY <1>13 DEF MonitorReads, TakeLock, Working, IInv, Types, LockTypes
  <2>2. \/ UNCHANGED <<jobs, session, parent, usbDevs, lost>>
        \/ jobs' = <<>>
        \/ \E j \in Jobs : jobs' = <<j>> /\ j.dev = NoDevice /\ j.at \in {"find", "lose"}
    <3>1. CASE uevents = <<>>
      BY <1>13, <3>1 DEF MonitorReads, MonitorUnchanged, memory
    <3>2. CASE uevents # <<>>
      <4>1. Head(uevents) \in Uevents
        BY <3>2 DEF IInv, Types, BusTypes
      <4>2. jobs' = Act(Head(uevents))
        BY <1>13, <3>2 DEF MonitorReads, MonitorUnchanged, memory
      <4> QED
        BY <4>1, <4>2, ActIs
    <3> QED
      BY <3>1, <3>2
  <2> QED
    BY <2>1, <2>2, LeftIs, OrderNew, JobsStay
<1>14. CASE MonitorWakes \/ MonitorDone \/ MonitorExits
  <2>1. UNCHANGED <<jobs, session, parent, usbDevs, lost>>
    BY <1>14 DEF
      MonitorWakes, MonitorDone, MonitorExits, MonitorUnchanged, bus, memory, thread,
      context, hotplug, app
  <2> QED
    BY <2>1, LeftIs, JobsStay
<1>15. CASE ScanEntry
  <2>1. ~Working
    BY <1>15 DEF ScanEntry, TakeLock, Working, IInv, Types, LockTypes
  <2>2. \/ UNCHANGED <<jobs, session, parent, usbDevs, lost>>
        \/ jobs' = <<>>
        \/ \E j \in Jobs : jobs' = <<j>> /\ j.dev = NoDevice /\ j.at \in {"find", "lose"}
    <3>1. PICK s \in todo : jobs' = <<Job("find", s)>>
      BY <1>15 DEF ScanEntry
    <3>2. s \in Sessions
      BY <3>1 DEF IInv, Types, AppTypes
    <3> QED
      BY <3>1, <3>2, JobTypes
  <2> QED
    BY <2>1, <2>2, LeftIs, OrderNew, JobsStay
<1>16. CASE GivesUp
  <2>1. ~Working
    BY <1>16 DEF GivesUp, At, Working, IInv, PlaceInv, PlaceLock, Types, LockTypes
  <2>2. UNCHANGED <<jobs, session, parent>>
    BY <1>16 DEF GivesUp, memory
  <2> QED
    BY <2>1, <2>2, LeftIs, JobsStay
<1>17. CASE InitAgain \/ InitBegins \/ MonitorStarts \/ ScanBegins \/ ScanEnds
            \/ InitEnds \/ ScanFails
  <2>1. UNCHANGED <<jobs, session, parent, usbDevs, lost>>
    BY <1>17 DEF
      InitAgain, InitBegins, MonitorStarts, ScanBegins, ScanEnds, InitEnds, ScanFails,
      InitUnchanged, bus, memory, thread, context, hotplug, app
  <2> QED
    BY <2>1, LeftIs, JobsStay
<1>18. CASE PollReads
  <2>1. ~Working
    BY <1>18 DEF PollReads, TakeLock, Working, IInv, Types, LockTypes
  <2>2. \/ UNCHANGED <<jobs, session, parent, usbDevs, lost>>
        \/ jobs' = <<>>
        \/ \E j \in Jobs : jobs' = <<j>> /\ j.dev = NoDevice /\ j.at \in {"find", "lose"}
    <3>1. CASE uevents = <<>>
      BY <1>18, <3>1 DEF PollReads, ListUnchanged, memory
    <3>2. CASE uevents # <<>>
      <4>1. Head(uevents) \in Uevents
        BY <3>2 DEF IInv, Types, BusTypes
      <4>2. jobs' = Act(Head(uevents)) \/ UNCHANGED <<jobs, session, parent, usbDevs, lost>>
        BY <1>18, <3>2 DEF PollReads, ListUnchanged, memory
      <4> QED
        BY <4>1, <4>2, ActIs
    <3> QED
      BY <3>1, <3>2
  <2> QED
    BY <2>1, <2>2, LeftIs, OrderNew, JobsStay
<1>19. CASE FreeList
  <2>1. PICK d \in Wanted : Unref(d)
    BY <1>19, Drops DEF FreeList
  <2>2. Frees
    BY <2>1, Unrefs DEF IInv
  <2>3. UNCHANGED <<jobs, usbDevs, lost>>
    BY <1>19 DEF FreeList, ListUnchanged
  <2> QED
    BY <2>2, <2>3, LeftIs, JobsStay DEF Frees
<1>20. CASE OpenMissing
  <2>1. ~Working
    BY <1>20 DEF OpenMissing, TakeLock, Working, IInv, Types, LockTypes
  <2>2. \/ UNCHANGED <<jobs, session, parent, usbDevs, lost>>
        \/ jobs' = <<>>
        \/ \E j \in Jobs : jobs' = <<j>> /\ j.dev = NoDevice /\ j.at \in {"find", "lose"}
    <3>1. handle \in Devices
      BY <1>20 DEF OpenMissing, At, IInv, PlaceInv, PlaceApp, Opening
    <3>2. CASE handle \in attached
      <4>1. session[handle] \in Sessions
        <5>1. handle \in Alive
          BY <3>1, Referred DEF IInv
        <5> QED
          BY <5>1 DEF IInv, MemInv, Alive
      <4>2. jobs' = <<Job("lose", session[handle])>>
        BY <1>20, <3>2 DEF OpenMissing
      <4> QED
        BY <4>1, <4>2, JobTypes
    <3>3. CASE handle \notin attached
      BY <1>20, <3>3 DEF OpenMissing
    <3> QED
      BY <3>2, <3>3
  <2> QED
    BY <2>1, <2>2, LeftIs, OrderNew, JobsStay
<1>21. CASE OpenFails
  <2>1. Unref(handle) /\ handle \in Wanted
    BY <1>21, Drops DEF OpenFails
  <2>2. Frees
    BY <2>1, Unrefs DEF IInv
  <2>3. UNCHANGED <<jobs, usbDevs, lost>>
    BY <1>21 DEF OpenFails, ListUnchanged
  <2> QED
    BY <2>2, <2>3, LeftIs, JobsStay DEF Frees
<1>22. CASE Close
  <2>1. Unref(handle) /\ handle \in Wanted
    BY <1>22, Drops DEF Close
  <2>2. Frees
    BY <2>1, Unrefs DEF IInv
  <2>3. UNCHANGED <<jobs, usbDevs, lost>>
    BY <1>22 DEF Close, ListUnchanged
  <2> QED
    BY <2>2, <2>3, LeftIs, JobsStay DEF Frees
<1>23. CASE ListBegins \/ PollBegins \/ PollEmpty \/ CopyList \/ Enumerate \/ Open
            \/ OpenNode
  <2>1. UNCHANGED <<jobs, session, parent, usbDevs, lost>>
    BY <1>23 DEF
      ListBegins, PollBegins, PollEmpty, CopyList, Enumerate, Open, OpenNode,
      ListUnchanged, bus, memory, thread, context, hotplug, app
  <2> QED
    BY <2>1, LeftIs, JobsStay
<1>24. CASE MessageDone
  <2>1. UNCHANGED <<jobs, usbDevs, lost>>
    BY <1>24 DEF MessageDone, HotplugUnchanged
  <2>2. CASE HoldsDevice(Head(batch))
    <3>1. Unref(Head(batch).dev) /\ Head(batch).dev \in Wanted
      BY <1>24, <2>2, Drops DEF MessageDone
    <3>2. Frees
      BY <3>1, Unrefs DEF IInv
    <3> QED
      BY <2>1, <3>2, LeftIs, JobsStay DEF Frees
  <2>3. CASE ~HoldsDevice(Head(batch))
    <3>1. UNCHANGED <<session, parent>>
      BY <1>24, <2>3 DEF MessageDone, RefsUnchanged, memory
    <3> QED
      BY <2>1, <3>1, LeftIs, JobsStay
  <2> QED
    BY <2>2, <2>3
<1>25. CASE Register \/ Deregister \/ Process \/ CallbackSkipped \/ CallbackCalled
            \/ CallbackReturns \/ Processed
  <2>1. UNCHANGED <<jobs, session, parent, usbDevs, lost>>
    BY <1>25 DEF
      Register, Deregister, Process, CallbackSkipped, CallbackCalled, CallbackReturns,
      Processed, HotplugUnchanged, RefsUnchanged, bus, memory, thread, context,
      hotplug, app
  <2> QED
    BY <2>1, LeftIs, JobsStay
<1>26. CASE FreeMessage
  <2>1. UNCHANGED <<jobs, usbDevs, lost>>
    BY <1>26 DEF FreeMessage, ExitUnchanged
  <2>2. CASE HoldsDevice(Head(messages))
    <3>1. Unref(Head(messages).dev) /\ Head(messages).dev \in Wanted
      BY <1>26, <2>2, Drops DEF FreeMessage
    <3>2. Frees
      BY <3>1, Unrefs DEF IInv
    <3> QED
      BY <2>1, <3>2, LeftIs, JobsStay DEF Frees
  <2>3. CASE ~HoldsDevice(Head(messages))
    <3>1. UNCHANGED <<session, parent>>
      BY <1>26, <2>3 DEF FreeMessage, RefsUnchanged, memory
    <3> QED
      BY <2>1, <3>1, LeftIs, JobsStay
  <2> QED
    BY <2>2, <2>3
<1>27. CASE FreeDevice
  <2>1. ~Working
    BY <1>27 DEF FreeDevice, At, Working, IInv, PlaceInv, PlaceExit, Leaving
  <2>2. PICK d \in Wanted : Unref(d)
    BY <1>27, Drops DEF FreeDevice
  <2>3. Frees /\ jobs' = jobs
    BY <1>27, <2>2, Unrefs DEF IInv, FreeDevice, ExitUnchanged
  <2> QED
    BY <2>1, <2>3, LeftIs, JobsStay DEF Frees
<1>28. CASE ExitEnds
  <2>1. ~Working
    BY <1>28 DEF ExitEnds, At, Working, IInv, PlaceInv, PlaceExit, Leaving
  <2>2. UNCHANGED <<jobs, session, parent>>
    BY <1>28 DEF ExitEnds, ExitUnchanged, memory
  <2> QED
    BY <2>1, <2>2, LeftIs, JobsStay
<1>29. CASE ExitNot \/ ExitBegins \/ FreeCallbacks \/ FreeDevices \/ StopMonitor
  <2>1. UNCHANGED <<jobs, session, parent, usbDevs, lost>>
    BY <1>29 DEF
      ExitNot, ExitBegins, FreeCallbacks, FreeDevices, StopMonitor, ExitUnchanged,
      RefsUnchanged, bus, memory, thread, context, hotplug, app
  <2> QED
    BY <2>1, LeftIs, JobsStay
<1>30. CASE UNCHANGED vars
  BY <1>30, LeftIs, JobsStay DEF vars, bus, memory, thread, context, hotplug, app
<1> QED
  BY <1>1, <1>2, <1>3, <1>4, <1>5, <1>6, <1>7, <1>8, <1>9, <1>10, <1>11, <1>12, <1>13,
     <1>14, <1>15, <1>16, <1>17, <1>18, <1>19, <1>20, <1>21, <1>22, <1>23, <1>24, <1>25,
     <1>26, <1>27, <1>28, <1>29, <1>30
     DEF Next, Work, Monitor, Initialise, Use, Events, Exit

-----------------------------------------------------------------------------
(* The invariant, and what it says. *)

\* The invariant holds at first,
LEMMA InitInv == Init => IInv
<1> SUFFICES ASSUME Init
             PROVE  IInv
  OBVIOUS
<1>1. Types
  <2>1. MemTypes
    BY UsbDevicesAssumption DEF Init, MemTypes, ToldOf
  <2>2. BusTypes
    BY DEF Init, BusTypes
  <2>3. LockTypes /\ JobsTypes
    BY DEF Init, LockTypes, JobsTypes
  <2>4. ListTypes
    BY DEF Init, ListTypes
  <2>7. FlagTypes
    BY DEF Init, FlagTypes
  <2>5. AppTypes
    BY UsbDevicesAssumption DEF Init, AppTypes, Places
  <2>6. HotTypes
    BY DEF Init, HotTypes
  <2> QED
    BY <2>1, <2>2, <2>3, <2>4, <2>5, <2>6, <2>7 DEF Types
<1>2. PlaceInv
  BY DEF Init, PlaceInv, PlaceLock, PlaceReady, PlaceMonitor, PlaceMessages, PlaceExit,
     PlaceApp,
     Starting, Leaving, Listing, Opening
<1>3. MemInv
  BY DEF Init, MemInv
<1>4. RefsExact
  <2> SUFFICES ASSUME NEW d \in Devices
               PROVE  refs[d] = References(d)
    BY DEF RefsExact
  <2>1. Alive = {}
    BY DEF Init, Alive
  <2>2. Children(d) = {}
    BY <2>1 DEF Children
  <2>3. Cardinality(Children(d)) = 0
    BY <2>2, FS_EmptySet
  <2>4. ~Own(d) /\ d \notin held /\ d # handle /\ d \notin lost
    BY NotADevice DEF Init, Own, At
  <2>5. messages = <<>> /\ batch = <<>> /\ jobs = <<>> /\ refs[d] = 0
    BY DEF Init
  <2>6. \A X : Number(messages, X) = 0 /\ Number(batch, X) = 0 /\ Number(jobs, X) = 0
    BY <2>5, NumberNone
  <2> QED
    BY <2>3, <2>4, <2>5, <2>6 DEF References, Count
<1>5. ListInv
  BY DEF Init, ListInv
<1>6. MsgInv
  <2>1. DOMAIN Pending = {} /\ usbDevs = {}
    BY DEF Init, Pending
  <2>2. \A d \in Devices, e \in {"left"} : ~Told(d, e)
    BY DEF Init, Told
  <2> QED
    BY <2>1, <2>2 DEF MsgInv
<1>7. JobInv
  <2>1. DOMAIN jobs = {}
    BY DEF Init
  <2> QED
    BY <2>1 DEF JobInv, JobOrder, Stack
<1> QED
  BY <1>1, <1>2, <1>3, <1>4, <1>5, <1>6, <1>7 DEF IInv

\* ... every step keeps it,
LEMMA NextInv == IInv /\ [Next]_vars => IInv'
<1> SUFFICES ASSUME IInv, [Next]_vars
             PROVE  IInv'
  OBVIOUS
<1>1. Types' /\ PlaceInv' /\ MemInv'
  BY TypesStep, PlaceStep, MemStep
<1>2. RefsExact'
  BY <1>1, RefStep
<1>3. ListInv'
  BY <1>1, <1>2, KeptStep
<1>4. MsgInv' /\ \A d \in Devices : Departed(d)' => Departed(d) \/ (Left /\ d = Now.dev)
  BY MsgStep
<1>5. JobInv'
  BY <1>1, <1>2, <1>3, <1>4, JobStep
<1> QED
  BY <1>1, <1>2, <1>3, <1>4, <1>5 DEF IInv

\* ... and so it always holds.
LEMMA Inv == Spec => []IInv
BY InitInv, NextInv, PTL DEF Spec

\* libusb_exit: what is in memory is reached from below from what somebody
\* outside the library, or nobody any more, refers to.
LEMMA LeftInMemory == IInv => ExitFrees
<1> SUFFICES ASSUME IInv, At("idle"), users = 0
             PROVE  monitor = "off" /\ \A d \in Alive : \E e \in held \cup lost : d \in Line(e)
  BY DEF ExitFrees
<1> DEFINE Good(d) == \E e \in held \cup lost : d \in Line(e)
           P(n) == \A d \in Alive : Level(d) = n => Good(d)
<1>1. monitor = "off" /\ usbDevs = {}
  BY DEF At, IInv, PlaceInv, PlaceMonitor
<1>2. messages = <<>> /\ batch = <<>> /\ handle = NoDevice
  BY DEF IInv, PlaceInv, PlaceReady, PlaceMessages, Types, FlagTypes
<1>3. jobs = <<>>
  <2>1. lock # "monitor" /\ lock # "app"
    BY <1>1 DEF At, IInv, PlaceInv, PlaceLock, Types, LockTypes
  <2> QED
    BY <2>1 DEF IInv, Types, LockTypes
<1>4. ASSUME NEW d \in Alive, d \notin held \cup lost
      PROVE  Children(d) # {}
  <2>1. d \in Devices /\ refs[d] > 0 /\ refs[d] = References(d)
    BY DEF IInv, RefsExact, Alive
  <2>2. \A X : Number(messages, X) = 0 /\ Number(batch, X) = 0 /\ Number(jobs, X) = 0
    BY <1>2, <1>3, NumberNone
  <2>3. ~Own(d) /\ d # handle
    BY <1>1, <1>2, <2>1, NotADevice DEF Own, At
  <2>4. References(d) = Cardinality(Children(d)) + 0
    <3>1. Cardinality(Children(d)) \in Nat
      <4>1. Children(d) \in SUBSET Devices
        BY DEF Children, Alive
      <4> QED
        BY <4>1, DevicesFinite
    <3> QED
      BY <1>4, <2>2, <2>3, <3>1 DEF References, Count
  <2> QED
    BY <2>1, <2>4, FS_EmptySet
<1>5. Rooted /\ MemInv /\ held \cup lost \subseteq Devices
      /\ parent \in [Devices -> Devices \cup {NoDevice}]
  BY Named DEF Rooted, NamedAlive, IInv, Types, MemTypes, AppTypes, ListTypes
<1>6. \A e \in Devices :
        /\ e \in Line(e)
        /\ \A c \in Line(e) \cap Devices : parent[c] \in Line(e) \cup {NoDevice}
  <2> SUFFICES ASSUME NEW e \in Devices
               PROVE  /\ e \in Line(e)
                      /\ \A c \in Line(e) \cap Devices : parent[c] \in Line(e) \cup {NoDevice}
    OBVIOUS
  <2>1. e \in Reach(e, Devices) /\ Closed(Reach(e, Devices), Devices)
    BY <1>5, ReachIs
  <2>2. Line(e) = Reach(e, Devices)
    BY DEF Line, Reach
  <2> QED
    BY <2>1, <2>2 DEF Closed
<1>7. ASSUME NEW n \in 1..7, n = 7 \/ P(n + 1)
      PROVE  P(n)
  <2> SUFFICES ASSUME NEW d \in Alive, Level(d) = n
               PROVE  Good(d)
    OBVIOUS
  <2>1. CASE d \in held \cup lost
    BY <1>5, <1>6, <2>1
  <2>2. CASE d \notin held \cup lost
    <3>1. PICK c \in Alive : parent[c] = d
      BY <1>4, <2>2 DEF Children
    <3>2. d # NoDevice /\ d \in Devices /\ c \in Devices
      BY NotADevice DEF Alive
    <3>3. Level(c) \in 1..7 /\ Level(d) = Level(c) - 1
      BY <1>5, <3>1, <3>2, LevelIs
    <3>4. Level(c) = n + 1 /\ n # 7
      BY <3>3
    <3>5. Good(c)
      BY <1>7, <3>4
    <3>6. PICK e \in held \cup lost : c \in Line(e)
      BY <3>5
    <3>7. d \in Line(e)
      BY <1>5, <1>6, <3>1, <3>2, <3>6
    <3> QED
      BY <3>6, <3>7
  <2> QED
    BY <2>1, <2>2
<1> HIDE DEF P
<1>8. \A n \in 1..7 : P(n)
  <2>1. P(7)
    BY <1>7
  <2>2. P(6)
    BY <1>7, <2>1
  <2>3. P(5)
    BY <1>7, <2>2
  <2>4. P(4)
    BY <1>7, <2>3
  <2>5. P(3)
    BY <1>7, <2>4
  <2>6. P(2)
    BY <1>7, <2>5
  <2>7. P(1)
    BY <1>7, <2>6
  <2> QED
    BY <2>1, <2>2, <2>3, <2>4, <2>5, <2>6, <2>7
<1>9. \A d \in Alive : Level(d) \in 1..7
  BY <1>5, LevelIs
<1> QED
  BY <1>1, <1>8, <1>9 DEF P

\* What a step does to what the callbacks were told.
NoGhost ==
  \A c \in Callbacks, d \in Devices :
    told[c][d] = "left" /\ told'[c][d] # "left" => refs'[d] = 0 \/ c \notin cbs
\* Dropping a reference does not make a callback forget a device that is still there.
LEMMA GhostFrees == Types' /\ Frees => NoGhost
BY DEF Frees, NoGhost, Types, MemTypes

\* No step makes a callback hear of a device that left.
LEMMA GhostStep ==
  ASSUME IInv, [Next]_vars
  PROVE  NoGhost
<1>1. CASE \E s \in Sessions : Plug(s) \/ Unplug(s)
  <2>1. UNCHANGED <<told>>
    BY <1>1 DEF
      Plug, Unplug, BusUnchanged, bus, memory, thread, context, hotplug, app
  <2> QED
    BY <2>1 DEF NoGhost
<1>2. CASE DropFound
  <2>1. Unref(Now.dev) /\ Now.dev \in Wanted
    BY <1>2, Drops DEF DropFound
  <2> QED
    BY <2>1, Unrefs, TypesStep, GhostFrees DEF IInv
<1>3. CASE Known \/ Allocate \/ HasParent \/ NoParent \/ ParentFirst \/ Attach
           \/ Arrived \/ Gone \/ Detach \/ Left
  <2>1. UNCHANGED <<told>>
    BY <1>3 DEF
      Known, Allocate, HasParent, NoParent, ParentFirst, Attach, Arrived, Gone, Detach,
      Left, WorkUnchanged, bus, memory, thread, context, hotplug, app
  <2> QED
    BY <2>1 DEF NoGhost
<1>4. CASE MonitorWakes \/ MonitorReads \/ MonitorDone \/ MonitorExits
  <2>1. UNCHANGED <<told>>
    BY <1>4 DEF
      MonitorWakes, MonitorReads, MonitorDone, MonitorExits, MonitorUnchanged, bus,
      memory, thread, context, hotplug, app
  <2> QED
    BY <2>1 DEF NoGhost
<1>5. CASE InitAgain \/ InitBegins \/ MonitorStarts \/ ScanBegins \/ ScanEntry
           \/ ScanEnds \/ InitEnds \/ ScanFails \/ GivesUp
  <2>1. UNCHANGED <<told>>
    BY <1>5 DEF
      InitAgain, InitBegins, MonitorStarts, ScanBegins, ScanEntry, ScanEnds, InitEnds,
      ScanFails, GivesUp, InitUnchanged, bus, memory, thread, context, hotplug, app
  <2> QED
    BY <2>1 DEF NoGhost
<1>6. CASE Enumerate
  <2>1. Tell(enumerating, "arrived", usbDevs)
    BY <1>6 DEF Enumerate
  <2>2. \A d \in Devices : Told(d, "left") => d \notin usbDevs
    BY DEF IInv, MsgInv, Departed
  <2>3. ASSUME NEW c \in Callbacks, NEW d \in Devices, told[c][d] = "left"
        PROVE  told'[c][d] = "left"
    <3>1. d \notin usbDevs
      BY <2>2, <2>3 DEF Told
    <3> QED
      BY <2>1, <2>3, <3>1 DEF Tell, IInv, Types, MemTypes, ToldOf
  <2> QED
    BY <2>3 DEF NoGhost
<1>7. CASE FreeList
  <2>1. PICK d \in Wanted : Unref(d)
    BY <1>7, Drops DEF FreeList
  <2> QED
    BY <2>1, Unrefs, TypesStep, GhostFrees DEF IInv
<1>8. CASE OpenFails
  <2>1. Unref(handle) /\ handle \in Wanted
    BY <1>8, Drops DEF OpenFails
  <2> QED
    BY <2>1, Unrefs, TypesStep, GhostFrees DEF IInv
<1>9. CASE Close
  <2>1. Unref(handle) /\ handle \in Wanted
    BY <1>9, Drops DEF Close
  <2> QED
    BY <2>1, Unrefs, TypesStep, GhostFrees DEF IInv
<1>10. CASE ListBegins \/ PollBegins \/ PollReads \/ PollEmpty \/ CopyList \/ Open
            \/ OpenNode \/ OpenMissing
  <2>1. UNCHANGED <<told>>
    BY <1>10 DEF
      ListBegins, PollBegins, PollReads, PollEmpty, CopyList, Open, OpenNode,
      OpenMissing, ListUnchanged, bus, memory, thread, context, hotplug, app
  <2> QED
    BY <2>1 DEF NoGhost
<1>11. CASE Register
  <2>1. PICK x \in Callbacks \ cbs : told' = [told EXCEPT ![x] = [d \in Devices |-> "nothing"]]
    BY <1>11 DEF Register
  <2> QED
    BY <2>1 DEF NoGhost, IInv, Types, MemTypes, ToldOf
<1>12. CASE CallbackCalled
  <2>1. PICK x : x \in walk /\ Tell(x, Head(batch).event, {Head(batch).dev})
    BY <1>12 DEF CallbackCalled
  <2>2. Pending # <<>> /\ 1 \in DOMAIN Pending /\ Pending[1] = Head(batch) /\ Head(batch) \in Messages
    BY <1>12, PendingIs DEF CallbackCalled, IInv, Types
  <2>3. ASSUME NEW c \in Callbacks, NEW d \in Devices, told[c][d] = "left", told'[c][d] # "left"
        PROVE  FALSE
    <3>1. Head(batch).dev = d /\ Head(batch).event # "left"
      BY <2>1, <2>3 DEF Tell, IInv, Types, MemTypes, ToldOf
    <3>2. Head(batch) = Event("arrived", d)
      BY <2>2, <3>1 DEF Messages, Event
    <3>3. Told(d, "left")
      BY <2>3 DEF Told
    <3> QED
      BY <2>2, <3>2, <3>3 DEF IInv, MsgInv
  <2> QED
    BY <2>3 DEF NoGhost
<1>13. CASE MessageDone
  <2>1. CASE HoldsDevice(Head(batch))
    <3>1. Unref(Head(batch).dev) /\ Head(batch).dev \in Wanted
      BY <1>13, <2>1, Drops DEF MessageDone
    <3> QED
      BY <3>1, Unrefs, TypesStep, GhostFrees DEF IInv
  <2>2. CASE ~HoldsDevice(Head(batch))
    BY <1>13, <2>2 DEF MessageDone, RefsUnchanged, NoGhost
  <2> QED
    BY <2>1, <2>2
<1>14. CASE Deregister \/ Process \/ CallbackSkipped \/ CallbackReturns \/ Processed
  <2>1. UNCHANGED <<told>>
    BY <1>14 DEF
      Deregister, Process, CallbackSkipped, CallbackReturns, Processed,
      HotplugUnchanged, RefsUnchanged, bus, memory, thread, context, hotplug, app
  <2> QED
    BY <2>1 DEF NoGhost
<1>15. CASE FreeMessage
  <2>1. CASE HoldsDevice(Head(messages))
    <3>1. Unref(Head(messages).dev) /\ Head(messages).dev \in Wanted
      BY <1>15, <2>1, Drops DEF FreeMessage
    <3> QED
      BY <3>1, Unrefs, TypesStep, GhostFrees DEF IInv
  <2>2. CASE ~HoldsDevice(Head(messages))
    BY <1>15, <2>2 DEF FreeMessage, RefsUnchanged, NoGhost
  <2> QED
    BY <2>1, <2>2
<1>16. CASE FreeDevice
  <2>1. PICK d \in Wanted : Unref(d)
    BY <1>16, Drops DEF FreeDevice
  <2> QED
    BY <2>1, Unrefs, TypesStep, GhostFrees DEF IInv
<1>17. CASE ExitNot \/ ExitBegins \/ FreeCallbacks \/ FreeDevices \/ StopMonitor
            \/ ExitEnds
  <2>1. UNCHANGED <<told>>
    BY <1>17 DEF
      ExitNot, ExitBegins, FreeCallbacks, FreeDevices, StopMonitor, ExitEnds,
      ExitUnchanged, RefsUnchanged, bus, memory, thread, context, hotplug, app
  <2> QED
    BY <2>1 DEF NoGhost
<1>18. CASE UNCHANGED vars
  BY <1>18 DEF vars, bus, memory, thread, context, hotplug, app, NoGhost
<1> QED
  BY <1>1, <1>2, <1>3, <1>4, <1>5, <1>6, <1>7, <1>8, <1>9, <1>10, <1>11, <1>12, <1>13,
     <1>14, <1>15, <1>16, <1>17, <1>18
     DEF Next, Work, Monitor, Initialise, Use, Events, Exit

-----------------------------------------------------------------------------
(* The theorems. *)

\* usb_devs has one device of a session at most, whoever sees it arrive: the
\* scan, the monitor and the poll of libusb_get_device_list work under
\* linux_hotplug_lock, and a device stays the only one of its session while
\* its parents are being enumerated (linux_enumerate_device).  With it the
\* types of the variables.
THEOREM ListedOnceHolds == Spec => []ListedOnce
<1>1. IInv => ListedOnce
  BY TypeParts DEF IInv, ListInv, ListedOnce
<1> QED
  BY <1>1, Inv, PTL

\* A reference count is the number of those who refer to the device: nobody
\* releases what another still uses, and nobody forgets to, in any
\* interleaving of the monitor's thread with the application's calls.
THEOREM RefsExactHolds == Spec => []RefsExact
<1>1. IInv => RefsExact
  BY DEF IInv
<1> QED
  BY <1>1, Inv, PTL

\* What the list, a message or the application's list names has not been
\* freed, though the arrival of a device holds no reference.
THEOREM NamedAliveHolds == Spec => []NamedAlive
BY Named, Inv, PTL

\* libusb_exit leaves the monitor stopped, and no device that nobody outside
\* the library refers to, but for those that left before the context was
\* ready: whoever is still there is one of them or above one.
THEOREM ExitFreesHolds == Spec => []ExitFrees
BY LeftInMemory, Inv, PTL

\* A callback that was told that a device left hears no more of it, unless
\* it is registered anew or the memory is used again.
THEOREM NoGhostsHolds == Spec => NoGhosts
<1>1. IInv /\ [Next]_vars => [NoGhost]_vars
  BY GhostStep
<1>2. [NoGhost]_vars =>
        [\A c \in Callbacks, d \in Devices :
           told[c][d] = "left" /\ told'[c][d] # "left" => refs'[d] = 0 \/ c \notin cbs]_vars
  BY DEF NoGhost
<1> QED
  BY <1>1, <1>2, Inv, PTL DEF NoGhosts, Spec
=============================================================================
