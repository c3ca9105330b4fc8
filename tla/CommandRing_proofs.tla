-------------------------- MODULE CommandRing_proofs --------------------------
(***************************************************************************)
(* Proofs about CommandRing, for every size of the rings, number of        *)
(* threads, codecs, lost answers, unsolicited responses and power-downs.   *)
(*                                                                         *)
(* What is still to come from a codec are the numbers of its verbs in the  *)
(* CORB, fetched, and answered but unread (Coming).  RingInv is inductive: *)
(* those numbers form one increasing chain through the three queues, there *)
(* are never more of them than rirb.cmds, and a waiter's own verb is among *)
(* them, or its answer is the one stored, or the count can no longer reach *)
(* zero.                                                                   *)
(***************************************************************************)
EXTENDS CommandRing, FiniteSetTheorems, NaturalsInduction, SequenceTheorems, TLAPS

-----------------------------------------------------------------------------
(* Rings: the distance from a read to a write pointer, and the places.     *)

Dist(w, r)  == (w + Entries - r) % Entries
Place(r, i) == (r + i) % Entries

\* A remainder is a slot.
LEMMA ModSlot == ASSUME NEW x \in Int PROVE x % Entries \in Slots
  BY RingAssumption DEF Slots

\* The remainder of what is less than two turns.
LEMMA ModTurn ==
  ASSUME NEW x \in Int, 0 <= x, x < 2 * Entries
  PROVE  x % Entries = IF x < Entries THEN x ELSE x - Entries
<1> DEFINE r == x % Entries
           q == x \div Entries
<1>1. x = Entries * q + r /\ r \in 0..(Entries - 1) /\ q \in Int
  BY RingAssumption
<1>2. q \in 0..1
  BY <1>1, RingAssumption
<1>3. QED
  BY <1>1, <1>2, RingAssumption

\* The distance between two slots.
LEMMA DistValue ==
  ASSUME NEW w \in Slots, NEW r \in Slots
  PROVE  /\ Dist(w, r) = IF w < r THEN w + Entries - r ELSE w - r
         /\ Dist(w, r) \in 0..(Entries - 1)
         /\ Dist(w, r) = 0 <=> w = r
<1>1. w \in 0..(Entries - 1) /\ r \in 0..(Entries - 1) /\ Entries \in Nat
  BY RingAssumption DEF Slots
<1> DEFINE x == w + Entries - r
<1>2. x \in Int /\ 0 <= x /\ x < 2 * Entries
  BY <1>1
<1>3. Dist(w, r) = IF x < Entries THEN x ELSE x - Entries
  BY <1>2, ModTurn DEF Dist
<1>4. QED
  BY <1>1, <1>3

\* The slot a few places after a pointer.
LEMMA PlaceValue ==
  ASSUME NEW r \in Slots, NEW i \in 0..Entries
  PROVE  /\ Place(r, i) = IF r + i < Entries THEN r + i ELSE r + i - Entries
         /\ Place(r, i) \in Slots
<1>1. r \in 0..(Entries - 1) /\ Entries \in Nat /\ r + i \in Int /\ 0 <= r + i /\ r + i < 2 * Entries
  BY RingAssumption DEF Slots
<1>2. Place(r, i) = IF r + i < Entries THEN r + i ELSE r + i - Entries
  BY <1>1, ModTurn DEF Place
<1>3. QED
  BY <1>1, <1>2 DEF Slots

\* The write pointer advances: one more entry, or a full ring that looks empty.
LEMMA Push ==
  ASSUME NEW w \in Slots, NEW r \in Slots
  PROVE  /\ Next1(w) \in Slots
         /\ Next1(w) = r => Dist(Next1(w), r) = 0
         /\ Next1(w) # r => /\ Dist(Next1(w), r) = Dist(w, r) + 1
                            /\ Place(r, Dist(w, r) + 1) = Next1(w)
                            /\ \A i \in 1..Dist(w, r) : Place(r, i) # Next1(w)
<1>1. w \in 0..(Entries - 1) /\ r \in 0..(Entries - 1) /\ Entries \in Nat
  BY RingAssumption DEF Slots
<1>2. Next1(w) = IF w + 1 < Entries THEN w + 1 ELSE 0
  <2>1. Next1(w) = Place(w, 1)
    BY DEF Next1, Place
  <2>2. QED
    BY <1>1, <2>1, PlaceValue, RingAssumption
<1>3. Next1(w) \in Slots
  BY <1>1, <1>2 DEF Slots
<1>4. ASSUME Next1(w) # r PROVE Dist(Next1(w), r) = Dist(w, r) + 1
  <2>1. Dist(Next1(w), r) = IF Next1(w) < r THEN Next1(w) + Entries - r ELSE Next1(w) - r
    BY <1>3, DistValue
  <2>2. Dist(w, r) = IF w < r THEN w + Entries - r ELSE w - r
    BY DistValue
  <2>3. QED
    BY <1>1, <1>2, <1>4, <2>1, <2>2
<1>5. ASSUME Next1(w) # r PROVE Place(r, Dist(w, r) + 1) = Next1(w)
  <2>1. Dist(w, r) = (IF w < r THEN w + Entries - r ELSE w - r) /\ Dist(w, r) \in 0..(Entries - 1)
    BY DistValue
  <2>2. Place(r, Dist(w, r) + 1) =
          IF r + (Dist(w, r) + 1) < Entries THEN r + (Dist(w, r) + 1) ELSE r + (Dist(w, r) + 1) - Entries
    BY <1>1, <2>1, PlaceValue
  <2>3. QED
    BY <1>1, <1>2, <2>1, <2>2
<1>6. ASSUME Next1(w) # r, NEW i \in 1..Dist(w, r) PROVE Place(r, i) # Next1(w)
  <2>1. Dist(w, r) = (IF w < r THEN w + Entries - r ELSE w - r) /\ Dist(w, r) \in 0..(Entries - 1)
    BY DistValue
  <2>2. Place(r, i) = IF r + i < Entries THEN r + i ELSE r + i - Entries
    BY <1>1, <2>1, PlaceValue
  <2>3. QED
    BY <1>1, <1>2, <1>6, <2>1, <2>2
<1>7. Next1(w) = r => Dist(Next1(w), r) = 0
  BY <1>3, DistValue
<1>8. QED
  BY <1>3, <1>4, <1>5, <1>6, <1>7

\* The read pointer advances: one entry less, the others one place nearer.
LEMMA Pop ==
  ASSUME NEW w \in Slots, NEW r \in Slots, w # r
  PROVE  /\ Next1(r) \in Slots /\ Next1(r) = Place(r, 1)
         /\ Dist(w, Next1(r)) = Dist(w, r) - 1 /\ Dist(w, r) >= 1
         /\ \A i \in 1..(Dist(w, r) - 1) : Place(Next1(r), i) = Place(r, i + 1)
<1>1. w \in 0..(Entries - 1) /\ r \in 0..(Entries - 1) /\ Entries \in Nat
  BY RingAssumption DEF Slots
<1>2. Next1(r) = (IF r + 1 < Entries THEN r + 1 ELSE 0) /\ Next1(r) = Place(r, 1)
  <2>1. Next1(r) = Place(r, 1)
    BY DEF Next1, Place
  <2>2. QED
    BY <1>1, <2>1, PlaceValue, RingAssumption
<1>3. Next1(r) \in Slots
  BY <1>1, <1>2 DEF Slots
<1>4. Dist(w, r) = (IF w < r THEN w + Entries - r ELSE w - r) /\ Dist(w, r) \in 0..(Entries - 1)
  BY DistValue
<1>5. Dist(w, Next1(r)) = IF w < Next1(r) THEN w + Entries - Next1(r) ELSE w - Next1(r)
  BY <1>3, DistValue
<1>6. Dist(w, Next1(r)) = Dist(w, r) - 1 /\ Dist(w, r) >= 1
  BY <1>1, <1>2, <1>4, <1>5
<1>7. ASSUME NEW i \in 1..(Dist(w, r) - 1) PROVE Place(Next1(r), i) = Place(r, i + 1)
  <2>0. i \in 0..Entries /\ i + 1 \in 0..Entries
    BY <1>1, <1>4
  <2>1. Place(Next1(r), i) = IF Next1(r) + i < Entries THEN Next1(r) + i ELSE Next1(r) + i - Entries
    BY <2>0, <1>3, PlaceValue
  <2>2. Place(r, i + 1) = IF r + (i + 1) < Entries THEN r + (i + 1) ELSE r + (i + 1) - Entries
    BY <2>0, <1>1, PlaceValue
  <2>3. QED
    BY <1>1, <1>2, <1>4, <2>1, <2>2
<1>8. QED
  BY <1>2, <1>3, <1>6, <1>7

-----------------------------------------------------------------------------
(* Sets of numbers: their largest, and their k-th smallest.                *)

\* A set of positive numbers with a bound is finite.
LEMMA BoundedFinite ==
  ASSUME NEW n \in Nat, NEW S \in SUBSET (1..n)
  PROVE  IsFiniteSet(S) /\ Cardinality(S) \in Nat
<1>1. IsFiniteSet(1..n)
  BY FS_Interval
<1>2. QED
  BY <1>1, FS_Subset, FS_CardinalityType

\* It has a largest element, unless it is empty.
LEMMA LastIs ==
  ASSUME NEW n \in Nat, NEW S \in SUBSET (1..n), S # {}
  PROVE  Last(S) \in S /\ \A j \in S : j <= Last(S)
<1> DEFINE T == {k \in Nat : n - k \in S}
<1>1. T \subseteq Nat /\ T # {}
  <2>1. PICK i \in S : TRUE
    OBVIOUS
  <2>2. n - i \in Nat /\ n - (n - i) = i
    BY <2>1
  <2>3. QED
    BY <2>1, <2>2
<1>2. PICK k \in T : \A y \in T : ~(<<y, k>> \in OpToRel(<, Nat))
  BY <1>1, NatLessThanWellFounded, WFMin
<1>3. k \in Nat /\ n - k \in S
  BY <1>2
<1>4. ASSUME NEW j \in S PROVE j <= n - k
  <2>1. j \in 1..n
    OBVIOUS
  <2>2. n - j \in Nat /\ n - (n - j) = j
    BY <2>1
  <2>3. n - j \in T
    BY <2>2
  <2>4. ~(n - j < k)
    BY <1>2, <1>3, <2>2, <2>3 DEF OpToRel
  <2>5. QED
    BY <1>3, <2>1, <2>2, <2>4
<1>5. \E i \in S : \A j \in S : j <= i
  BY <1>3, <1>4
<1>6. QED
  BY <1>5 DEF Last

\* Every rank up to the size of a set is that of one of its elements.
LEMMA NthIs ==
  ASSUME NEW n \in Nat, NEW S \in SUBSET (1..n), NEW k \in 1..Cardinality(S)
  PROVE  Nth(S, k) \in S /\ Cardinality({j \in S : j <= Nth(S, k)}) = k
<1> DEFINE c == Cardinality(S)
           Below(i) == {j \in S : j <= i}
           f == [i \in S |-> Cardinality(Below(i))]
<1>1. IsFiniteSet(S) /\ c \in Nat
  BY BoundedFinite
<1>2. ASSUME NEW i \in S PROVE Cardinality(Below(i)) \in 1..c /\ IsFiniteSet(Below(i))
  <2>1. Below(i) \in SUBSET S
    OBVIOUS
  <2>2. IsFiniteSet(Below(i)) /\ Cardinality(Below(i)) <= c /\ Cardinality(Below(i)) \in Nat
    BY <1>1, <2>1, FS_Subset, FS_CardinalityType
  <2>3. i \in Below(i)
    OBVIOUS
  <2>4. Cardinality(Below(i)) # 0
    BY <2>2, <2>3, FS_EmptySet
  <2> HIDE DEF Below, c
  <2>5. QED
    BY <1>1, <2>2, <2>4
<1>3. ASSUME NEW i \in S, NEW j \in S, i < j PROVE Cardinality(Below(i)) # Cardinality(Below(j))
  <2>0. S \subseteq Int
    OBVIOUS
  <2>1. i \in Int /\ j \in Int /\ i < j
    BY <1>3, <2>0
  <2>2. Below(i) \in SUBSET Below(j)
    <3>1. ASSUME NEW q \in Below(i) PROVE q \in Below(j)
      <4>1. q \in S /\ q <= i /\ q \in Int
        BY <2>0
      <4>2. QED
        BY <2>1, <4>1
    <3>2. QED
      BY <3>1
  <2>3. j \in Below(j) /\ j \notin Below(i)
    BY <2>1
  <2> HIDE DEF Below
  <2>4. QED
    BY <1>2, <2>2, <2>3, FS_Subset
<1>4. f \in Injection(S, 1..c)
  <2>1. f \in [S -> 1..c]
    BY <1>2
  <2>2. ASSUME NEW i \in S, NEW j \in S, f[i] = f[j] PROVE i = j
    <3>1. Cardinality(Below(i)) = Cardinality(Below(j))
      BY <2>2
    <3>2. i \in Int /\ j \in Int
      OBVIOUS
    <3> HIDE DEF Below, f
    <3>3. QED
      BY <1>3, <3>1, <3>2
  <2>3. QED
    BY <2>1, <2>2 DEF Injection, IsInjective
<1>5. f \in Surjection(S, 1..c)
  <2>1. IsFiniteSet(1..c) /\ Cardinality(1..c) = c
    BY <1>1, FS_Interval
  <2> HIDE DEF f
  <2>2. QED
    BY <1>4, <2>1, FS_Injection
<1>6. \E i \in S : f[i] = k
  BY <1>5 DEF Surjection
<1>7. \E i \in S : Cardinality({j \in S : j <= i}) = k
  BY <1>6
<1>8. QED
  BY <1>7 DEF Nth

\* A higher rank is that of a larger element.
LEMMA NthOrder ==
  ASSUME NEW n \in Nat, NEW S \in SUBSET (1..n),
         NEW k \in 1..Cardinality(S), NEW m \in 1..Cardinality(S), k < m
  PROVE  Nth(S, k) < Nth(S, m)
<1> DEFINE x == Nth(S, k)
           y == Nth(S, m)
           Below(i) == {j \in S : j <= i}
<1>1. /\ x \in S /\ y \in S
      /\ Cardinality(Below(x)) = k /\ Cardinality(Below(y)) = m
  BY NthIs
<1> HIDE DEF x, y
<1>2. x \in Int /\ y \in Int /\ S \subseteq Int
  BY <1>1
<1>3. ASSUME y <= x PROVE FALSE
  <2>1. Below(y) \in SUBSET Below(x)
    <3>1. ASSUME NEW q \in Below(y) PROVE q \in Below(x)
      <4>1. q \in S /\ q <= y /\ q \in Int
        BY <1>2
      <4>2. QED
        BY <1>2, <1>3, <4>1
    <3>2. QED
      BY <3>1
  <2>2. IsFiniteSet(Below(x))
    BY BoundedFinite
  <2>3. Cardinality(Below(y)) <= Cardinality(Below(x))
    BY <2>1, <2>2, FS_Subset
  <2>4. k \in Int /\ m \in Int
    BY BoundedFinite
  <2> HIDE DEF Below
  <2>5. QED
    BY <1>1, <2>3, <2>4
<1>4. QED
  BY <1>2, <1>3 DEF x, y

-----------------------------------------------------------------------------
(* The inductive invariant.                                                *)

\* One call at a time, of the verb issued last; only a read waits
Calling ==
  /\ \A t, u \in Threads : pc[t] # "idle" /\ pc[u] # "idle" => t = u
  /\ \A t \in Threads : pc[t] # "idle" => verb[t].id = issued
  /\ \A t \in Threads : pc[t] = "wait" => verb[t].read
  /\ issued <= link.verbs

\* The verbs that have been in the CORB: all issued, but for one not sent yet
Posted == IF \E t \in Threads : pc[t] \in {"send", "drain"} THEN issued - 1 ELSE issued

\* The numbers to come from codec a, by where they are
IdsPosted(a)  == {n \in Ids : \E i \in PostedTo(a) : PostedAt(i).id = n}
IdsFetched(a) == {n \in Ids : \E i \in FetchedFor(a) : flight[i].id = n}
IdsUnread(a)  == {n \in Ids : \E i \in RepliesOf(a) : UnreadAt(i).val = n}
Coming(a)     == IdsPosted(a) \cup IdsFetched(a) \cup IdsUnread(a)

Reply(i) == ~UnreadAt(i).unsol

\* Each queue holds increasing numbers, and an earlier queue larger ones
Increasing ==
  /\ \A i, j \in 1..PostedLen : i < j => PostedAt(i).id < PostedAt(j).id
  /\ \A i, j \in 1..Len(flight) : i < j => flight[i].id < flight[j].id
  /\ \A i, j \in 1..UnreadLen : Reply(i) /\ Reply(j) /\ i < j => UnreadAt(i).val < UnreadAt(j).val
Staged ==
  /\ \A i \in 1..Len(flight), j \in 1..PostedLen : flight[i].id < PostedAt(j).id
  /\ \A i \in 1..UnreadLen, j \in 1..PostedLen : Reply(i) => UnreadAt(i).val < PostedAt(j).id
  /\ \A i \in 1..UnreadLen, j \in 1..Len(flight) : Reply(i) => UnreadAt(i).val < flight[j].id
Bounded ==
  /\ \A i \in 1..PostedLen : PostedAt(i).id <= Posted
  /\ \A i \in 1..Len(flight) : flight[i].id <= Posted
  /\ \A i \in 1..UnreadLen : Reply(i) => UnreadAt(i).val <= Posted

\* What is stored is older than what is to come
ResBehind ==
  \A a \in Addrs :
    /\ \A i \in 1..PostedLen : res[a] < PostedAt(i).id
    /\ \A i \in 1..Len(flight) : res[a] < flight[i].id
    /\ \A i \in 1..UnreadLen : Reply(i) => res[a] < UnreadAt(i).val

\* rirb.cmds covers what is to come, and never counts a verb not sent
Counted ==
  \A a \in Addrs : Cardinality(Coming(a)) <= cmds[a] /\ cmds[a] <= Posted

\* A count of zero means that the answer stored is that of the waiter's verb
WaitOK ==
  \A t \in Threads : pc[t] = "wait" =>
    \/ issued \in Coming(verb[t].addr)
    \/ Cardinality(Coming(verb[t].addr)) < cmds[verb[t].addr]
    \/ res[verb[t].addr] = issued

\* Events handed over are older than those unread, and those are in order
EventOrder ==
  /\ EventsInOrder
  /\ \A k \in DOMAIN events : events[k] <= unsols
  /\ \A i \in Unsolicited : UnreadAt(i).val \in 1..unsols
  /\ \A i, j \in Unsolicited : i < j => UnreadAt(i).val < UnreadAt(j).val
  /\ \A k \in DOMAIN events, i \in Unsolicited : events[k] < UnreadAt(i).val

\* What is stored has been posted
Stored == \A a \in Addrs : res[a] <= Posted

Chain   == Increasing /\ Staged /\ Bounded /\ ResBehind
RingInv ==
  TypeOK /\ Calling /\ Chain /\ Stored /\ Counted /\ WaitOK /\ ReplyMatches /\ EventOrder

-----------------------------------------------------------------------------
(* What each step does to the three queues.                                *)

\* The lengths are distances, the entries are at places.
LEMMA Views ==
  /\ PostedLen = Dist(CORBWP, CORBRP) /\ UnreadLen = Dist(RIRBWP, rp)
  /\ \A i : PostedAt(i) = corb[Place(CORBRP, i)] /\ UnreadAt(i) = rirb[Place(rp, i)]
  BY DEF PostedLen, UnreadLen, PostedAt, UnreadAt, Dist, Place

\* Lengths are numbers, and entries have their types.
LEMMA ViewTypes ==
  ASSUME TypeOK
  PROVE  /\ PostedLen \in 0..(Entries - 1) /\ UnreadLen \in 0..(Entries - 1)
         /\ \A i \in 1..PostedLen : PostedAt(i) \in Verbs
         /\ \A i \in 1..UnreadLen : UnreadAt(i) \in Replies
         /\ \A i \in 1..Len(flight) : flight[i] \in Verbs
         /\ Len(flight) \in Nat /\ issued \in Nat /\ MaxVerbs \in Nat /\ Entries \in Nat
<1>1. /\ corb \in [Slots -> Verbs] /\ CORBWP \in Slots /\ CORBRP \in Slots
      /\ rirb \in [Slots -> Replies] /\ RIRBWP \in Slots /\ rp \in Slots
      /\ flight \in Seq(Verbs) /\ issued \in Ids
  BY DEF TypeOK
<1>2. PostedLen \in 0..(Entries - 1) /\ UnreadLen \in 0..(Entries - 1)
  BY <1>1, Views, DistValue
<1>3. ASSUME NEW i \in 1..(Entries - 1) PROVE i \in 0..Entries
  BY RingAssumption
<1>4. ASSUME NEW i \in 1..PostedLen PROVE PostedAt(i) \in Verbs
  <2>1. i \in 0..Entries
    BY <1>2, <1>3, RingAssumption
  <2>2. QED
    BY <1>1, <2>1, Views, PlaceValue
<1>5. ASSUME NEW i \in 1..UnreadLen PROVE UnreadAt(i) \in Replies
  <2>1. i \in 0..Entries
    BY <1>2, <1>3, RingAssumption
  <2>2. QED
    BY <1>1, <2>1, Views, PlaceValue
<1>6. QED
  BY <1>1, <1>2, <1>4, <1>5, RingAssumption DEF Ids

\* The numbers in the queues are numbers.
LEMMA ViewIds ==
  ASSUME TypeOK
  PROVE  /\ \A i \in 1..PostedLen : PostedAt(i).id \in Ids
         /\ \A i \in 1..Len(flight) : flight[i].id \in Ids
         /\ \A i \in 1..UnreadLen : UnreadAt(i).val \in Nat
         /\ Ids \subseteq Int /\ PostedLen \in Nat /\ UnreadLen \in Nat /\ Len(flight) \in Nat
  BY ViewTypes, RingAssumption DEF Verbs, Replies, Ids

\* The oldest posted verb goes to the end of the flight.
LEMMA FetchMoves ==
  ASSUME TypeOK, Fetch
  PROVE  /\ PostedLen >= 1 /\ PostedLen' = PostedLen - 1
         /\ \A i \in 1..PostedLen' : PostedAt(i)' = PostedAt(i + 1)
         /\ Len(flight') = Len(flight) + 1
         /\ \A i \in 1..Len(flight) : flight'[i] = flight[i]
         /\ flight'[Len(flight) + 1] = PostedAt(1)
         /\ UnreadLen' = UnreadLen
         /\ \A i : UnreadAt(i)' = UnreadAt(i)
<1>1. /\ CORBWP \in Slots /\ CORBRP \in Slots /\ flight \in Seq(Verbs)
      /\ CORBRP # CORBWP /\ CORBRP' = Next1(CORBRP) /\ CORBWP' = CORBWP /\ corb' = corb
      /\ flight' = Append(flight, corb[Next1(CORBRP)])
      /\ rirb' = rirb /\ RIRBWP' = RIRBWP /\ rp' = rp
  BY DEF TypeOK, Fetch, soft
<1>2. /\ PostedLen' = Dist(CORBWP, Next1(CORBRP)) /\ PostedLen = Dist(CORBWP, CORBRP)
      /\ UnreadLen' = UnreadLen
  BY <1>1 DEF PostedLen, UnreadLen, Dist
<1>3. PostedLen >= 1 /\ PostedLen' = PostedLen - 1 /\ Next1(CORBRP) = Place(CORBRP, 1)
  BY <1>1, <1>2, Pop
<1>4. ASSUME NEW i \in 1..PostedLen' PROVE PostedAt(i)' = PostedAt(i + 1)
  <2>1. Place(Next1(CORBRP), i) = Place(CORBRP, i + 1)
    BY <1>1, <1>2, <1>3, Pop
  <2>2. QED
    BY <1>1, <2>1 DEF PostedAt, Place
<1>5. PostedAt(1) = corb[Next1(CORBRP)]
  BY <1>3 DEF PostedAt, Place
<1>6. /\ Len(flight') = Len(flight) + 1
      /\ \A i \in 1..Len(flight) : flight'[i] = flight[i]
      /\ flight'[Len(flight) + 1] = PostedAt(1)
  <2>1. corb[Next1(CORBRP)] \in Verbs
    BY <1>1, Pop DEF TypeOK
  <2>2. QED
    BY <1>1, <1>5, <2>1, AppendProperties
<1>7. \A i : UnreadAt(i)' = UnreadAt(i)
  BY <1>1 DEF UnreadAt
<1>8. QED
  BY <1>2, <1>3, <1>4, <1>6, <1>7

\* The numbers stay in their order.
LEMMA FetchChain ==
  ASSUME TypeOK, Chain, Fetch, Posted' = Posted
  PROVE  Chain'
<1>1. Increasing'
  <2>1. ASSUME NEW i \in 1..PostedLen', NEW j \in 1..PostedLen', i < j
        PROVE  PostedAt(i)'.id < PostedAt(j)'.id
    <3>1. i + 1 \in 1..PostedLen /\ j + 1 \in 1..PostedLen /\ i + 1 < j + 1
      BY <2>1, ViewIds, FetchMoves
    <3>2. QED
      BY <3>1, FetchMoves DEF Chain, Increasing
  <2>2. ASSUME NEW i \in 1..Len(flight'), NEW j \in 1..Len(flight'), i < j
        PROVE  flight'[i].id < flight'[j].id
    <3>1. i \in 1..Len(flight)
      BY <2>2, ViewIds, FetchMoves
    <3>2. CASE j \in 1..Len(flight)
      BY <2>2, <3>1, <3>2, FetchMoves DEF Chain, Increasing
    <3>3. CASE j = Len(flight) + 1
      <4>1. 1 \in 1..PostedLen
        BY ViewIds, FetchMoves
      <4>2. QED
        BY <3>1, <3>3, <4>1, FetchMoves DEF Chain, Staged
    <3>4. QED
      BY <3>2, <3>3, ViewIds, FetchMoves
  <2>3. QED
    BY <2>1, <2>2, FetchMoves DEF Chain, Increasing, Reply
<1>2. Staged'
  <2>1. ASSUME NEW j \in 1..PostedLen' PROVE j + 1 \in 1..PostedLen /\ 1 \in 1..PostedLen /\ 1 < j + 1
    BY ViewIds, FetchMoves
  <2>2. ASSUME NEW i \in 1..Len(flight'), NEW j \in 1..PostedLen'
        PROVE  flight'[i].id < PostedAt(j)'.id
    <3>1. CASE i \in 1..Len(flight)
      BY <2>1, <3>1, FetchMoves DEF Chain, Staged
    <3>2. CASE i = Len(flight) + 1
      BY <2>1, <3>2, FetchMoves DEF Chain, Increasing
    <3>3. QED
      BY <3>1, <3>2, ViewIds, FetchMoves
  <2>3. ASSUME NEW i \in 1..UnreadLen, Reply(i), NEW j \in 1..PostedLen'
        PROVE  UnreadAt(i).val < PostedAt(j)'.id
    BY <2>1, <2>3, FetchMoves DEF Chain, Staged
  <2>4. ASSUME NEW i \in 1..UnreadLen, Reply(i), NEW j \in 1..Len(flight')
        PROVE  UnreadAt(i).val < flight'[j].id
    <3>1. CASE j \in 1..Len(flight)
      BY <2>4, <3>1, FetchMoves DEF Chain, Staged
    <3>2. CASE j = Len(flight) + 1
      <4>1. 1 \in 1..PostedLen
        BY ViewIds, FetchMoves
      <4>2. QED
        BY <2>4, <3>2, <4>1, FetchMoves DEF Chain, Staged
    <3>3. QED
      BY <3>1, <3>2, ViewIds, FetchMoves
  <2>5. QED
    BY <2>2, <2>3, <2>4, FetchMoves DEF Staged, Reply
<1>3. Bounded'
  <2>1. ASSUME NEW i \in 1..PostedLen' PROVE PostedAt(i)'.id <= Posted'
    <3>1. i + 1 \in 1..PostedLen
      BY <2>1, ViewIds, FetchMoves
    <3>2. PostedAt(i)' = PostedAt(i + 1)
      BY <2>1, FetchMoves, Zenon
    <3>3. PostedAt(i + 1).id <= Posted
      BY <3>1, Zenon DEF Chain, Bounded
    <3>4. QED
      BY <3>2, <3>3
  <2>2. ASSUME NEW i \in 1..Len(flight') PROVE flight'[i].id <= Posted'
    <3>1. CASE i \in 1..Len(flight)
      BY <3>1, FetchMoves DEF Chain, Bounded
    <3>2. CASE i = Len(flight) + 1
      <4>1. 1 \in 1..PostedLen
        BY ViewIds, FetchMoves
      <4>2. flight'[i] = PostedAt(1)
        BY <3>2, FetchMoves, Zenon
      <4>3. PostedAt(1).id <= Posted
        BY <4>1, Zenon DEF Chain, Bounded
      <4>4. QED
        BY <4>2, <4>3
    <3>3. QED
      BY <2>2, <3>1, <3>2, ViewIds, FetchMoves
  <2>3. ASSUME NEW i \in 1..UnreadLen', Reply(i)' PROVE UnreadAt(i)'.val <= Posted'
    BY <2>3, FetchMoves DEF Chain, Bounded, Reply
  <2>4. QED
    BY <2>1, <2>2, <2>3 DEF Bounded
<1>4. ResBehind'
  <2>1. res' = res /\ PostedLen \in 0..(Entries - 1) /\ Entries \in Nat /\ Len(flight) \in Nat
    BY ViewTypes DEF Fetch, soft
  <2>2. ASSUME NEW a \in Addrs, NEW i \in 1..PostedLen' PROVE res'[a] < PostedAt(i)'.id
    <3>1. i + 1 \in 1..PostedLen
      BY <2>1, <2>2, FetchMoves
    <3>2. PostedAt(i)' = PostedAt(i + 1)
      BY <2>2, FetchMoves, Zenon
    <3>3. res[a] < PostedAt(i + 1).id
      BY <3>1, Zenon DEF Chain, ResBehind
    <3>4. QED
      BY <2>1, <3>2, <3>3
  <2>3. ASSUME NEW a \in Addrs, NEW i \in 1..Len(flight') PROVE res'[a] < flight'[i].id
    <3>1. CASE i \in 1..Len(flight)
      BY <2>1, <3>1, FetchMoves DEF Chain, ResBehind
    <3>2. CASE i = Len(flight) + 1
      <4>1. 1 \in 1..PostedLen
        BY <2>1, FetchMoves
      <4>2. flight'[i] = PostedAt(1)
        BY <3>2, FetchMoves, Zenon
      <4>3. res[a] < PostedAt(1).id
        BY <4>1, Zenon DEF Chain, ResBehind
      <4>4. QED
        BY <2>1, <4>2, <4>3
    <3>3. QED
      BY <2>1, <2>3, <3>1, <3>2, FetchMoves
  <2>4. ASSUME NEW a \in Addrs, NEW i \in 1..UnreadLen', Reply(i)' PROVE res'[a] < UnreadAt(i)'.val
    BY <2>1, <2>4, FetchMoves DEF Chain, ResBehind, Reply
  <2>5. QED
    BY <2>2, <2>3, <2>4 DEF ResBehind
<1>5. QED
  BY <1>1, <1>2, <1>3, <1>4 DEF Chain

\* The hardware writes one entry: one more unread, or a full ring that looks empty.
LEMMA WriteMoves ==
  ASSUME TypeOK, NEW e, WriteRirb(e), rp' = rp
  PROVE  \/ UnreadLen' = 0
         \/ /\ UnreadLen' = UnreadLen + 1
            /\ \A i \in 1..UnreadLen : UnreadAt(i)' = UnreadAt(i)
            /\ UnreadAt(UnreadLen)' = e
<1>1. /\ rirb \in [Slots -> Replies] /\ RIRBWP \in Slots /\ rp \in Slots
      /\ rirb' = [rirb EXCEPT ![Next1(RIRBWP)] = e] /\ RIRBWP' = Next1(RIRBWP)
  BY DEF TypeOK, WriteRirb
<1>2. UnreadLen' = Dist(Next1(RIRBWP), rp) /\ UnreadLen = Dist(RIRBWP, rp)
  BY <1>1 DEF UnreadLen, Dist
<1>3. CASE Next1(RIRBWP) = rp
  BY <1>1, <1>2, <1>3, Push
<1>4. CASE Next1(RIRBWP) # rp
  <2>1. /\ UnreadLen' = UnreadLen + 1
        /\ Place(rp, UnreadLen + 1) = Next1(RIRBWP) /\ Next1(RIRBWP) \in Slots
        /\ \A i \in 1..UnreadLen : Place(rp, i) # Next1(RIRBWP)
    BY <1>1, <1>2, <1>4, Push
  <2>2. ASSUME NEW i \in 1..UnreadLen PROVE UnreadAt(i)' = UnreadAt(i)
    <3>1. i \in 0..Entries
      BY ViewTypes
    <3>2. Place(rp, i) \in Slots
      BY <1>1, <3>1, PlaceValue
    <3>3. rirb'[Place(rp, i)] = rirb[Place(rp, i)]
      BY <1>1, <2>1, <3>2
    <3>4. QED
      BY <3>3 DEF UnreadAt, Place
  <2>3. UnreadAt(UnreadLen)' = e
    BY <1>1, <2>1 DEF UnreadAt, Place
  <2>4. QED
    BY <2>1, <2>2, <2>3
<1>5. QED
  BY <1>3, <1>4

\* A queue that loses its first.
LEMMA TailMoves ==
  ASSUME TypeOK, flight # <<>>, flight' = Tail(flight)
  PROVE  /\ 1 \in 1..Len(flight) /\ Head(flight) = flight[1]
         /\ Len(flight') = Len(flight) - 1
         /\ \A i \in 1..Len(flight') : i + 1 \in 1..Len(flight) /\ flight'[i] = flight[i + 1]
  BY HeadTailProperties, EmptySeq DEF TypeOK

\* The queues Answer leaves alone, and what it writes.
LEMMA AnswerMoves ==
  ASSUME TypeOK, Answer
  PROVE  /\ flight # <<>> /\ flight' = Tail(flight)
         /\ WriteRirb([addr |-> Head(flight).addr, val |-> Head(flight).id, unsol |-> FALSE])
         /\ PostedLen' = PostedLen /\ \A i : PostedAt(i)' = PostedAt(i)
         /\ UNCHANGED <<rp, cmds, res, pc, verb, issued, link, corb, CORBWP, CORBRP, events, unsols, gone, result>>
  BY DEF Answer, PostedLen, PostedAt, ring, soft, calls, budget

\* The numbers stay in their order when a verb is answered.
LEMMA AnswerChain ==
  ASSUME TypeOK, Chain, Answer, Posted' = Posted
  PROVE  Chain'
<1> DEFINE e == [addr |-> Head(flight).addr, val |-> Head(flight).id, unsol |-> FALSE]
<1>1. /\ 1 \in 1..Len(flight) /\ Len(flight') = Len(flight) - 1
      /\ \A i \in 1..Len(flight') : i + 1 \in 1..Len(flight) /\ flight'[i] = flight[i + 1]
      /\ e.val = flight[1].id /\ ~e.unsol
  BY AnswerMoves, TailMoves
<1>2. \/ UnreadLen' = 0
      \/ /\ UnreadLen' = UnreadLen + 1
         /\ \A i \in 1..UnreadLen : UnreadAt(i)' = UnreadAt(i)
         /\ UnreadAt(UnreadLen)' = e
  BY AnswerMoves, WriteMoves
<1> HIDE DEF e
<1>3. \A i \in 1..Len(flight') : 1 < i + 1
  BY ViewIds, <1>1
<1>4. ASSUME NEW j \in 1..UnreadLen', Reply(j)'
      PROVE  \/ j \in 1..UnreadLen /\ UnreadAt(j)' = UnreadAt(j) /\ Reply(j)
             \/ j = UnreadLen + 1 /\ UnreadAt(j)' = e
  BY <1>2, <1>4, ViewIds DEF Reply
<1>5. Increasing'
  <2>1. ASSUME NEW i \in 1..Len(flight'), NEW j \in 1..Len(flight'), i < j
        PROVE  flight'[i].id < flight'[j].id
    <3>1. i + 1 < j + 1
      BY <2>1, <1>1, ViewIds
    <3>2. QED
      BY <3>1, <1>1 DEF Chain, Increasing
  <2>2. ASSUME NEW i \in 1..UnreadLen', NEW j \in 1..UnreadLen', Reply(i)', Reply(j)', i < j
        PROVE  UnreadAt(i)'.val < UnreadAt(j)'.val
    <3>1. i \in 1..UnreadLen /\ UnreadAt(i)' = UnreadAt(i) /\ Reply(i)
      BY <2>2, <1>2, <1>4, ViewIds
    <3>2. CASE j \in 1..UnreadLen /\ UnreadAt(j)' = UnreadAt(j) /\ Reply(j)
      BY <2>2, <3>1, <3>2 DEF Chain, Increasing
    <3>3. CASE j = UnreadLen + 1 /\ UnreadAt(j)' = e
      BY <3>1, <3>3, <1>1 DEF Chain, Staged
    <3>4. QED
      BY <2>2, <1>4, <3>2, <3>3
  <2>3. QED
    BY <2>1, <2>2, AnswerMoves DEF Chain, Increasing
<1>6. Staged'
  <2>1. ASSUME NEW i \in 1..Len(flight'), NEW j \in 1..PostedLen PROVE flight'[i].id < PostedAt(j).id
    BY <1>1 DEF Chain, Staged
  <2>2. ASSUME NEW i \in 1..UnreadLen', Reply(i)', NEW j \in 1..PostedLen
        PROVE  UnreadAt(i)'.val < PostedAt(j).id
    BY <2>2, <1>1, <1>4 DEF Chain, Staged
  <2>3. ASSUME NEW i \in 1..UnreadLen', Reply(i)', NEW j \in 1..Len(flight')
        PROVE  UnreadAt(i)'.val < flight'[j].id
    BY <2>3, <1>1, <1>3, <1>4 DEF Chain, Staged, Increasing
  <2>4. QED
    BY <2>1, <2>2, <2>3, AnswerMoves DEF Staged
<1>7. Bounded'
  BY <1>1, <1>4, AnswerMoves DEF Chain, Bounded
<1>8. ResBehind'
  BY <1>1, <1>4, AnswerMoves DEF Chain, ResBehind
<1>9. QED
  BY <1>5, <1>6, <1>7, <1>8 DEF Chain

\* ... when it never will be, ...
LEMMA LoseChain ==
  ASSUME TypeOK, Chain, Lose, Posted' = Posted
  PROVE  Chain'
<1>1. /\ \A i \in 1..Len(flight') : i + 1 \in 1..Len(flight) /\ flight'[i] = flight[i + 1]
      /\ Len(flight') = Len(flight) - 1
      /\ PostedLen' = PostedLen /\ \A i : PostedAt(i)' = PostedAt(i)
      /\ UnreadLen' = UnreadLen /\ \A i : UnreadAt(i)' = UnreadAt(i)
      /\ res' = res
  BY TailMoves DEF Lose, PostedLen, PostedAt, UnreadLen, UnreadAt, ring, soft
<1>2. \A i, j \in 1..Len(flight') : i < j => i + 1 < j + 1
  BY ViewIds, <1>1
<1>3. Increasing'
  BY <1>1, <1>2 DEF Chain, Increasing, Reply
<1>4. Staged'
  BY <1>1 DEF Chain, Staged, Reply
<1>5. Bounded'
  BY <1>1 DEF Chain, Bounded, Reply
<1>6. ResBehind'
  BY <1>1 DEF Chain, ResBehind, Reply
<1>7. QED
  BY <1>3, <1>4, <1>5, <1>6 DEF Chain

\* ... and when an unsolicited response is written.
LEMMA UnsolicitChain ==
  ASSUME TypeOK, Chain, Unsolicit, Posted' = Posted
  PROVE  Chain'
<1>1. PICK a \in link.codecs : WriteRirb([addr |-> a, val |-> unsols + 1, unsol |-> TRUE])
  BY DEF Unsolicit
<1>2. /\ PostedLen' = PostedLen /\ \A i : PostedAt(i)' = PostedAt(i)
      /\ flight' = flight /\ res' = res /\ rp' = rp
  BY DEF Unsolicit, PostedLen, PostedAt, ring, soft
<1> DEFINE e == [addr |-> a, val |-> unsols + 1, unsol |-> TRUE]
<1>3. e.unsol
  OBVIOUS
<1>4. \/ UnreadLen' = 0
      \/ /\ UnreadLen' = UnreadLen + 1
         /\ \A i \in 1..UnreadLen : UnreadAt(i)' = UnreadAt(i)
         /\ UnreadAt(UnreadLen)' = e
  BY <1>1, <1>2, WriteMoves
<1> HIDE DEF e
<1>5. ASSUME NEW j \in 1..UnreadLen', Reply(j)'
      PROVE  j \in 1..UnreadLen /\ UnreadAt(j)' = UnreadAt(j) /\ Reply(j)
  BY <1>3, <1>4, <1>5, ViewIds DEF Reply
<1>6. Increasing'
  BY <1>2, <1>5 DEF Chain, Increasing
<1>7. Staged'
  BY <1>2, <1>5 DEF Chain, Staged
<1>8. Bounded'
  BY <1>2, <1>5 DEF Chain, Bounded
<1>9. ResBehind'
  BY <1>2, <1>5 DEF Chain, ResBehind
<1>10. QED
  BY <1>6, <1>7, <1>8, <1>9 DEF Chain

\* What is posted grows with the verbs sent or given up.
LEMMA PostedGrows ==
  ASSUME TypeOK, Calling, NEW t \in Threads, Begin(t) \/ Exec(t)
  PROVE  /\ Posted \in Int /\ Posted' \in Int
         /\ Posted <= Posted'
         /\ pc[t] = "send" => Posted = issued - 1
         /\ Send(t) => Posted' = issued
<1>1. issued \in Int /\ pc \in [Threads -> {"idle", "send", "wait", "drain"}]
  BY RingAssumption DEF TypeOK, Ids
<1>2. ASSUME NEW u \in Threads, u # t, pc[t] # "idle" PROVE pc[u] = "idle"
  BY <1>2 DEF Calling
<1>3. CASE Begin(t)
  <2>1. /\ \A u \in Threads : pc[u] = "idle"
        /\ issued' = issued + 1 /\ pc'[t] = "send"
    BY <1>1, <1>3 DEF Begin
  <2>2. Posted = issued /\ Posted' = issued' - 1
    BY <2>1 DEF Posted
  <2>3. ~Send(t)
    BY <2>1 DEF Send
  <2>4. pc[t] # "send"
    BY <2>1
  <2>5. QED
    BY <1>1, <2>1, <2>2, <2>3, <2>4
<1>4. CASE Exec(t)
  <2>1. pc[t] # "idle" /\ issued' = issued
    BY <1>4 DEF Exec, SendDead, SendFull, Send, Answered, TimeOut, Return, calls
  <2>2. \E v \in {"idle", "send", "wait", "drain"} : pc' = [pc EXCEPT ![t] = v]
    BY <1>4 DEF Exec, SendDead, SendFull, Send, Answered, TimeOut, Return
  <2>3. ASSUME NEW u \in Threads, u # t PROVE pc[u] = "idle" /\ pc'[u] = "idle"
    BY <1>1, <1>2, <2>1, <2>2, <2>3
  <2>4. /\ Posted = IF pc[t] \in {"send", "drain"} THEN issued - 1 ELSE issued
        /\ Posted' = IF pc'[t] \in {"send", "drain"} THEN issued - 1 ELSE issued
    BY <2>1, <2>3 DEF Posted
  <2>5. pc[t] = "wait" => pc'[t] = "idle"
    BY <1>1, <1>4 DEF Exec, SendDead, SendFull, Send, Answered, TimeOut, Return
  <2>6. Send(t) => pc'[t] \in {"wait", "idle"}
    BY <1>1 DEF Send, Return
  <2>7. QED
    BY <1>1, <2>1, <2>4, <2>5, <2>6
<1>5. QED
  BY <1>3, <1>4

\* A step that leaves the queues alone leaves the numbers in their order.
LEMMA QuietChain ==
  ASSUME TypeOK, Chain, Posted \in Int, Posted' \in Int, Posted <= Posted',
         UNCHANGED <<corb, CORBWP, CORBRP, flight, rirb, RIRBWP, rp, res>>
  PROVE  Chain' /\ \A a : Coming(a)' = Coming(a)
<1>1. /\ PostedLen' = PostedLen /\ \A i : PostedAt(i)' = PostedAt(i)
      /\ UnreadLen' = UnreadLen /\ \A i : UnreadAt(i)' = UnreadAt(i)
      /\ flight' = flight /\ res' = res
  BY DEF PostedLen, PostedAt, UnreadLen, UnreadAt
<1>2. Increasing' /\ Staged' /\ ResBehind'
  BY <1>1 DEF Chain, Increasing, Staged, ResBehind, Reply
<1>3. Bounded'
  <2>1. ASSUME NEW i \in 1..PostedLen PROVE PostedAt(i).id <= Posted'
    BY ViewIds DEF Chain, Bounded
  <2>2. ASSUME NEW i \in 1..Len(flight) PROVE flight[i].id <= Posted'
    BY ViewIds DEF Chain, Bounded
  <2>3. ASSUME NEW i \in 1..UnreadLen, Reply(i) PROVE UnreadAt(i).val <= Posted'
    BY <2>3, ViewIds DEF Chain, Bounded
  <2>4. QED
    BY <1>1, <2>1, <2>2, <2>3 DEF Bounded, Reply
<1>4. ASSUME NEW a PROVE Coming(a)' = Coming(a)
  BY <1>1 DEF Coming, IdsPosted, IdsFetched, IdsUnread, PostedTo, FetchedFor, RepliesOf
<1>5. QED
  BY <1>2, <1>3, <1>4 DEF Chain

\* The verb sent is the last in the CORB.
LEMMA SendMoves ==
  ASSUME TypeOK, NEW t \in Threads, Send(t)
  PROVE  /\ PostedLen' = PostedLen + 1
         /\ \A i \in 1..PostedLen : PostedAt(i)' = PostedAt(i)
         /\ PostedAt(PostedLen)' = verb[t]
         /\ flight' = flight /\ res' = res
         /\ UnreadLen' = UnreadLen /\ \A i : UnreadAt(i)' = UnreadAt(i)
<1>1. /\ corb \in [Slots -> Verbs] /\ CORBWP \in Slots /\ CORBRP \in Slots
      /\ corb' = [corb EXCEPT ![Next1(CORBWP)] = verb[t]] /\ CORBWP' = Next1(CORBWP)
      /\ CORBRP' = CORBRP /\ Next1(CORBWP) # CORBRP
      /\ flight' = flight /\ rirb' = rirb /\ RIRBWP' = RIRBWP /\ rp' = rp /\ res' = res
  BY DEF TypeOK, Send, answer
<1>2. PostedLen' = Dist(Next1(CORBWP), CORBRP) /\ PostedLen = Dist(CORBWP, CORBRP)
  BY <1>1 DEF PostedLen, Dist
<1>3. /\ PostedLen' = PostedLen + 1
      /\ Place(CORBRP, PostedLen + 1) = Next1(CORBWP) /\ Next1(CORBWP) \in Slots
      /\ \A i \in 1..PostedLen : Place(CORBRP, i) # Next1(CORBWP)
  BY <1>1, <1>2, Push
<1>4. ASSUME NEW i \in 1..PostedLen PROVE PostedAt(i)' = PostedAt(i)
  <2>1. i \in 0..Entries
    BY ViewTypes
  <2>2. Place(CORBRP, i) \in Slots
    BY <1>1, <2>1, PlaceValue
  <2>3. corb'[Place(CORBRP, i)] = corb[Place(CORBRP, i)]
    BY <1>1, <1>3, <2>2
  <2>4. QED
    BY <1>1, <2>3 DEF PostedAt, Place
<1>5. PostedAt(PostedLen)' = verb[t]
  BY <1>1, <1>3 DEF PostedAt, Place
<1>6. UnreadLen' = UnreadLen /\ \A i : UnreadAt(i)' = UnreadAt(i)
  BY <1>1 DEF UnreadLen, UnreadAt
<1>7. QED
  BY <1>1, <1>3, <1>4, <1>5, <1>6

\* It is the newest of all.
LEMMA SendChain ==
  ASSUME TypeOK, Calling, Chain, \A a \in Addrs : res[a] <= Posted, NEW t \in Threads, Send(t)
  PROVE  Chain'
<1>1. /\ verb[t].id = issued /\ Posted = issued - 1 /\ Posted' = issued
      /\ issued \in Int /\ Posted \in Int
  BY PostedGrows, RingAssumption DEF Send, Calling, Exec, TypeOK, Ids
<1>2. ASSUME NEW j \in 1..PostedLen'
      PROVE  \/ j \in 1..PostedLen /\ PostedAt(j)' = PostedAt(j)
             \/ j = PostedLen + 1 /\ PostedAt(j)' = verb[t]
  BY SendMoves, ViewIds
<1>3. /\ \A i \in 1..PostedLen : PostedAt(i).id < issued
      /\ \A i \in 1..Len(flight) : flight[i].id < issued
      /\ \A i \in 1..UnreadLen : Reply(i) => UnreadAt(i).val < issued
      /\ \A a \in Addrs : res[a] < issued
  <2>1. \A a \in Addrs : res[a] \in Int
    BY RingAssumption DEF TypeOK, Ids
  <2>2. QED
    BY <1>1, <2>1, ViewIds DEF Chain, Bounded
<1>4. Increasing'
  <2>1. ASSUME NEW i \in 1..PostedLen', NEW j \in 1..PostedLen', i < j
        PROVE  PostedAt(i)'.id < PostedAt(j)'.id
    <3>1. i \in 1..PostedLen /\ PostedAt(i)' = PostedAt(i)
      BY <2>1, SendMoves, ViewIds
    <3>2. QED
      BY <1>1, <1>2, <1>3, <2>1, <3>1 DEF Chain, Increasing
  <2>2. QED
    BY <2>1, SendMoves DEF Chain, Increasing, Reply
<1>5. Staged'
  <2>1. \A i \in 1..Len(flight), j \in 1..PostedLen' : flight[i].id < PostedAt(j)'.id
    BY <1>1, <1>2, <1>3 DEF Chain, Staged
  <2>2. \A i \in 1..UnreadLen, j \in 1..PostedLen' : Reply(i) => UnreadAt(i).val < PostedAt(j)'.id
    BY <1>1, <1>2, <1>3 DEF Chain, Staged
  <2>3. QED
    BY <2>1, <2>2, SendMoves DEF Chain, Staged, Reply
<1>6. Bounded'
  <2>1. \A i \in 1..PostedLen' : PostedAt(i)'.id <= issued
    BY <1>1, <1>2, <1>3, ViewIds
  <2>2. /\ \A i \in 1..Len(flight) : flight[i].id <= issued
        /\ \A i \in 1..UnreadLen : Reply(i) => UnreadAt(i).val <= issued
    BY <1>1, <1>3, ViewIds
  <2>3. QED
    BY <1>1, <2>1, <2>2, SendMoves DEF Bounded, Reply
<1>7. ResBehind'
  <2>1. \A a \in Addrs, j \in 1..PostedLen' : res[a] < PostedAt(j)'.id
    BY <1>1, <1>2, <1>3 DEF Chain, ResBehind
  <2>2. QED
    BY <2>1, SendMoves DEF Chain, ResBehind, Reply
<1>8. QED
  BY <1>4, <1>5, <1>6, <1>7 DEF Chain

-----------------------------------------------------------------------------
(* What is still to come, and rirb.cmds.                                   *)

\* There are finitely many numbers.
LEMMA ComingFinite ==
  ASSUME NEW a
  PROVE  /\ IsFiniteSet(Coming(a)) /\ Cardinality(Coming(a)) \in Nat
         /\ IsFiniteSet(IdsPosted(a)) /\ Cardinality(IdsPosted(a)) \in Nat
         /\ IsFiniteSet(IdsFetched(a)) /\ Cardinality(IdsFetched(a)) \in Nat
         /\ IsFiniteSet(IdsUnread(a)) /\ Cardinality(IdsUnread(a)) \in Nat
<1>1. IsFiniteSet(Ids)
  BY RingAssumption, FS_Interval DEF Ids
<1>2. /\ Coming(a) \in SUBSET Ids /\ IdsPosted(a) \in SUBSET Ids
      /\ IdsFetched(a) \in SUBSET Ids /\ IdsUnread(a) \in SUBSET Ids
  BY DEF Coming, IdsPosted, IdsFetched, IdsUnread
<1>3. QED
  BY <1>1, <1>2, FS_Subset, FS_CardinalityType

\* A step that may only take verbs away keeps the count an upper bound, and a
\* verb that disappears leaves the count above what is to come.
LEMMA ComingShrinks ==
  ASSUME TypeOK, Counted, WaitOK, UNCHANGED <<cmds, res, pc, verb, issued>>,
         \A a \in Addrs : Coming(a)' \subseteq Coming(a)
  PROVE  Counted' /\ WaitOK'
<1>1. ASSUME NEW a \in Addrs
      PROVE  /\ Cardinality(Coming(a)') <= Cardinality(Coming(a))
             /\ Cardinality(Coming(a)') \in Nat /\ Cardinality(Coming(a)) \in Nat
             /\ \A n \in Coming(a) : n \notin Coming(a)' => Cardinality(Coming(a)') < Cardinality(Coming(a))
  <2>1. IsFiniteSet(Coming(a)) /\ Coming(a)' \in SUBSET Coming(a) /\ Cardinality(Coming(a)) \in Nat
    BY ComingFinite
  <2>2. /\ Cardinality(Coming(a)') <= Cardinality(Coming(a))
        /\ Cardinality(Coming(a)) = Cardinality(Coming(a)') => Coming(a) = Coming(a)'
        /\ Cardinality(Coming(a)') \in Nat
    BY <2>1, FS_Subset, FS_CardinalityType
  <2>3. QED
    BY <2>1, <2>2
<1>2. cmds \in [Addrs -> 0..MaxVerbs] /\ verb \in [Threads -> Verbs]
  BY DEF TypeOK
<1>3. Counted'
  <2>1. Posted' = Posted
    BY DEF Posted
  <2>2. ASSUME NEW a \in Addrs PROVE Cardinality(Coming(a)') <= cmds[a] /\ cmds[a] <= Posted
    BY <1>1, <1>2 DEF Counted
  <2>3. QED
    BY <2>1, <2>2 DEF Counted
<1>4. WaitOK'
  <2>1. ASSUME NEW t \in Threads, pc[t] = "wait"
        PROVE  \/ issued \in Coming(verb[t].addr)'
               \/ Cardinality(Coming(verb[t].addr)') < cmds[verb[t].addr]
               \/ res[verb[t].addr] = issued
    <3>1. PICK a \in Addrs : a = verb[t].addr
      BY <1>2 DEF Verbs
    <3>2. cmds[a] \in Int /\ Cardinality(Coming(a)) <= cmds[a]
      BY <1>2, <3>1 DEF Counted
    <3>3. \/ issued \in Coming(a) \/ Cardinality(Coming(a)) < cmds[a] \/ res[a] = issued
      BY <2>1, <3>1 DEF WaitOK
    <3>4. \/ issued \in Coming(a)' \/ Cardinality(Coming(a)') < cmds[a] \/ res[a] = issued
      BY <1>1, <3>1, <3>2, <3>3
    <3>5. QED
      BY <3>1, <3>4
  <2>2. QED
    BY <2>1 DEF WaitOK
<1>5. QED
  BY <1>3, <1>4

\* A verb fetched is no longer posted.
LEMMA FetchComing ==
  ASSUME TypeOK, Fetch, NEW a
  PROVE  Coming(a)' \subseteq Coming(a)
<1>1. ASSUME NEW n \in IdsPosted(a)' PROVE n \in IdsPosted(a)
  <2>1. PICK i \in 1..PostedLen' : PostedAt(i)'.addr = a /\ PostedAt(i)'.id = n
    BY DEF IdsPosted, PostedTo
  <2>2. i + 1 \in 1..PostedLen /\ PostedAt(i)' = PostedAt(i + 1)
    BY FetchMoves, ViewIds
  <2>3. QED
    BY <2>1, <2>2 DEF IdsPosted, PostedTo
<1>2. ASSUME NEW n \in IdsFetched(a)' PROVE n \in IdsPosted(a) \cup IdsFetched(a)
  <2>1. PICK i \in 1..Len(flight') : flight'[i].addr = a /\ flight'[i].id = n /\ n \in Ids
    <3>1. DOMAIN flight' = 1..Len(flight')
      <4>1. corb[Next1(CORBRP)] \in Verbs /\ flight \in Seq(Verbs)
        BY Pop DEF TypeOK, Fetch
      <4>2. flight' = Append(flight, corb[Next1(CORBRP)])
        BY DEF Fetch
      <4>3. flight' \in Seq(Verbs)
        BY <4>1, <4>2, AppendProperties
      <4>4. QED
        BY <4>3
    <3>2. QED
      BY <3>1 DEF IdsFetched, FetchedFor
  <2>2. CASE i \in 1..Len(flight)
    <3>1. DOMAIN flight = 1..Len(flight)
      BY DEF TypeOK
    <3>2. QED
      BY <2>1, <2>2, <3>1, FetchMoves DEF IdsFetched, FetchedFor
  <2>3. CASE i = Len(flight) + 1
    <3>1. 1 \in 1..PostedLen
      BY FetchMoves, ViewIds
    <3>2. QED
      BY <2>1, <2>3, <3>1, FetchMoves DEF IdsPosted, PostedTo
  <2>4. QED
    BY <2>2, <2>3, FetchMoves, ViewIds
<1>3. IdsUnread(a)' = IdsUnread(a)
  BY FetchMoves DEF IdsUnread, RepliesOf
<1>4. QED
  BY <1>1, <1>2, <1>3 DEF Coming

\* A verb answered is no longer in flight.
LEMMA AnswerComing ==
  ASSUME TypeOK, Answer, NEW a
  PROVE  Coming(a)' \subseteq Coming(a)
<1> DEFINE e == [addr |-> Head(flight).addr, val |-> Head(flight).id, unsol |-> FALSE]
<1>1. /\ 1 \in 1..Len(flight) /\ Len(flight') = Len(flight) - 1
      /\ \A i \in 1..Len(flight') : i + 1 \in 1..Len(flight) /\ flight'[i] = flight[i + 1]
      /\ e.val = flight[1].id /\ e.addr = flight[1].addr
  BY AnswerMoves, TailMoves
<1>2. \/ UnreadLen' = 0
      \/ /\ UnreadLen' = UnreadLen + 1
         /\ \A i \in 1..UnreadLen : UnreadAt(i)' = UnreadAt(i)
         /\ UnreadAt(UnreadLen)' = e
  BY AnswerMoves, WriteMoves
<1> HIDE DEF e
<1>3. DOMAIN flight = 1..Len(flight) /\ DOMAIN flight' = 1..Len(flight')
  <2>0. flight # <<>> /\ flight' = Tail(flight)
    BY AnswerMoves
  <2>1. flight' \in Seq(Verbs)
    BY <2>0, HeadTailProperties, EmptySeq DEF TypeOK
  <2>2. QED
    BY <2>1 DEF TypeOK
<1>4. IdsPosted(a)' = IdsPosted(a)
  BY AnswerMoves DEF IdsPosted, PostedTo
<1>5. ASSUME NEW n \in IdsFetched(a)' PROVE n \in IdsFetched(a)
  BY <1>1, <1>3 DEF IdsFetched, FetchedFor
<1>6. ASSUME NEW n \in IdsUnread(a)' PROVE n \in IdsUnread(a) \cup IdsFetched(a)
  <2>1. PICK j \in 1..UnreadLen' : ~UnreadAt(j)'.unsol /\ UnreadAt(j)'.addr = a /\ UnreadAt(j)'.val = n
    BY DEF IdsUnread, RepliesOf
  <2>2. \/ j \in 1..UnreadLen /\ UnreadAt(j)' = UnreadAt(j)
        \/ UnreadAt(j)' = e
    BY <1>2, ViewIds
  <2>3. n \in Ids
    BY DEF IdsUnread
  <2>4. QED
    BY <1>1, <1>3, <2>1, <2>2, <2>3 DEF IdsUnread, RepliesOf, IdsFetched, FetchedFor
<1>7. QED
  BY <1>4, <1>5, <1>6 DEF Coming

\* One lost is gone from the flight.
LEMMA LoseComing ==
  ASSUME TypeOK, Lose, NEW a
  PROVE  Coming(a)' \subseteq Coming(a)
<1>1. /\ flight # <<>> /\ flight' = Tail(flight)
      /\ PostedLen' = PostedLen /\ \A i : PostedAt(i)' = PostedAt(i)
      /\ UnreadLen' = UnreadLen /\ \A i : UnreadAt(i)' = UnreadAt(i)
  BY DEF Lose, PostedLen, PostedAt, UnreadLen, UnreadAt, ring, soft
<1>2. DOMAIN flight = 1..Len(flight) /\ DOMAIN flight' = 1..Len(flight')
  <2>1. flight' \in Seq(Verbs)
    BY <1>1, HeadTailProperties, EmptySeq DEF TypeOK
  <2>2. QED
    BY <2>1 DEF TypeOK
<1>3. \A i \in 1..Len(flight') : i + 1 \in 1..Len(flight) /\ flight'[i] = flight[i + 1]
  BY <1>1, TailMoves
<1>4. IdsPosted(a)' = IdsPosted(a) /\ IdsUnread(a)' = IdsUnread(a)
  BY <1>1 DEF IdsPosted, PostedTo, IdsUnread, RepliesOf
<1>5. ASSUME NEW n \in IdsFetched(a)' PROVE n \in IdsFetched(a)
  BY <1>2, <1>3 DEF IdsFetched, FetchedFor
<1>6. QED
  BY <1>4, <1>5 DEF Coming

\* An unsolicited response adds no answer.
LEMMA UnsolicitComing ==
  ASSUME TypeOK, Unsolicit, NEW a
  PROVE  Coming(a)' \subseteq Coming(a)
<1>1. PICK c \in link.codecs : WriteRirb([addr |-> c, val |-> unsols + 1, unsol |-> TRUE])
  BY DEF Unsolicit
<1>2. /\ PostedLen' = PostedLen /\ \A i : PostedAt(i)' = PostedAt(i)
      /\ flight' = flight /\ rp' = rp
  BY DEF Unsolicit, PostedLen, PostedAt, ring, soft
<1> DEFINE e == [addr |-> c, val |-> unsols + 1, unsol |-> TRUE]
<1>3. e.unsol
  OBVIOUS
<1>4. \/ UnreadLen' = 0
      \/ /\ UnreadLen' = UnreadLen + 1
         /\ \A i \in 1..UnreadLen : UnreadAt(i)' = UnreadAt(i)
         /\ UnreadAt(UnreadLen)' = e
  BY <1>1, <1>2, WriteMoves
<1> HIDE DEF e
<1>5. IdsPosted(a)' = IdsPosted(a) /\ IdsFetched(a)' = IdsFetched(a)
  BY <1>2 DEF IdsPosted, PostedTo, IdsFetched, FetchedFor
<1>6. ASSUME NEW n \in IdsUnread(a)' PROVE n \in IdsUnread(a)
  <2>1. PICK j \in 1..UnreadLen' : ~UnreadAt(j)'.unsol /\ UnreadAt(j)'.addr = a /\ UnreadAt(j)'.val = n
    BY DEF IdsUnread, RepliesOf
  <2>2. j \in 1..UnreadLen /\ UnreadAt(j)' = UnreadAt(j)
    BY <1>3, <1>4, <2>1, ViewIds
  <2>3. n \in Ids
    BY DEF IdsUnread
  <2>4. QED
    BY <2>1, <2>2, <2>3 DEF IdsUnread, RepliesOf
<1>7. QED
  BY <1>5, <1>6 DEF Coming

\* A verb sent adds its number and one to the count of its codec.
LEMMA SendCounts ==
  ASSUME TypeOK, Calling, Counted, NEW t \in Threads, Send(t)
  PROVE  Counted' /\ WaitOK'
<1>1. /\ verb[t].id = issued /\ Posted = issued - 1 /\ Posted' = issued
      /\ issued \in Ids /\ issued \in Int /\ Posted \in Int
  BY PostedGrows, RingAssumption DEF Send, Calling, Exec, TypeOK, Ids
<1>2. PICK a \in Addrs : a = verb[t].addr
  BY DEF TypeOK, Verbs
<1>3. /\ cmds \in [Addrs -> 0..MaxVerbs] /\ cmds' = [cmds EXCEPT ![a] = @ + 1]
      /\ verb' = verb /\ issued' = issued /\ pc \in [Threads -> {"idle", "send", "wait", "drain"}]
      /\ pc[t] = "send" /\ \E v \in {"idle", "wait"} : pc' = [pc EXCEPT ![t] = v]
  BY <1>2 DEF Send, TypeOK, Return
<1>4. ASSUME NEW b \in Addrs
      PROVE  /\ Coming(b)' \subseteq Coming(b) \cup {issued}
             /\ b # a => Coming(b)' \subseteq Coming(b)
  <2>1. IdsFetched(b)' = IdsFetched(b) /\ IdsUnread(b)' = IdsUnread(b)
    BY SendMoves DEF IdsFetched, FetchedFor, IdsUnread, RepliesOf
  <2>2. ASSUME NEW n \in IdsPosted(b)' PROVE n \in IdsPosted(b) \/ (n = issued /\ b = a)
    <3>1. PICK i \in 1..PostedLen' : PostedAt(i)'.addr = b /\ PostedAt(i)'.id = n /\ n \in Ids
      BY DEF IdsPosted, PostedTo
    <3>2. \/ i \in 1..PostedLen /\ PostedAt(i)' = PostedAt(i)
          \/ PostedAt(i)' = verb[t]
      BY SendMoves, ViewIds
    <3>3. QED
      BY <1>1, <1>2, <3>1, <3>2 DEF IdsPosted, PostedTo
  <2>3. QED
    BY <2>1, <2>2 DEF Coming
<1>5. issued \in Coming(a)'
  <2>1. PostedLen' \in 1..PostedLen' /\ PostedAt(PostedLen)'.addr = a /\ PostedAt(PostedLen)'.id = issued
    BY <1>1, <1>2, SendMoves, ViewIds
  <2>2. QED
    BY <1>1, <2>1 DEF Coming, IdsPosted, PostedTo
<1>6. Counted'
  <2>1. ASSUME NEW b \in Addrs PROVE Cardinality(Coming(b)') <= cmds'[b] /\ cmds'[b] <= Posted'
    <3>1. /\ IsFiniteSet(Coming(b)) /\ Cardinality(Coming(b)) \in Nat /\ cmds[b] \in Int
          /\ Cardinality(Coming(b)) <= cmds[b] /\ cmds[b] <= Posted
      BY <1>3, ComingFinite DEF Counted
    <3>2. CASE b = a
      <4>1. /\ IsFiniteSet(Coming(b) \cup {issued})
            /\ Cardinality(Coming(b) \cup {issued}) <= Cardinality(Coming(b)) + 1
            /\ Cardinality(Coming(b) \cup {issued}) \in Nat
        <5>1. /\ IsFiniteSet(Coming(b) \cup {issued})
              /\ \/ Cardinality(Coming(b) \cup {issued}) = Cardinality(Coming(b))
                 \/ Cardinality(Coming(b) \cup {issued}) = Cardinality(Coming(b)) + 1
          BY <3>1, FS_AddElement
        <5>2. QED
          BY <3>1, <5>1
      <4>2. Cardinality(Coming(b)') <= Cardinality(Coming(b) \cup {issued}) /\ Cardinality(Coming(b)') \in Nat
        <5>1. Coming(b)' \in SUBSET (Coming(b) \cup {issued})
          BY <1>4
        <5>2. QED
          BY <4>1, <5>1, FS_Subset, FS_CardinalityType
      <4>3. cmds'[b] = cmds[b] + 1
        BY <1>3, <3>2
      <4>4. QED
        BY <1>1, <3>1, <4>1, <4>2, <4>3
    <3>3. CASE b # a
      <4>1. Cardinality(Coming(b)') <= Cardinality(Coming(b)) /\ Cardinality(Coming(b)') \in Nat
        BY <1>4, <3>1, <3>3, FS_Subset, FS_CardinalityType
      <4>2. cmds'[b] = cmds[b]
        BY <1>3, <3>3
      <4>3. QED
        BY <1>1, <3>1, <4>1, <4>2
    <3>4. QED
      BY <3>2, <3>3
  <2>2. QED
    BY <2>1 DEF Counted
<1>7. WaitOK'
  <2>1. ASSUME NEW u \in Threads, pc'[u] = "wait" PROVE u = t
    BY <1>3, <2>1 DEF Calling
  <2>2. QED
    BY <1>2, <1>3, <1>5, <2>1 DEF WaitOK
<1>8. QED
  BY <1>6, <1>7

\* The answers unread are as many as their numbers.
LEMMA UnreadCount ==
  ASSUME TypeOK, Chain, Posted \in Int, Posted <= issued, NEW a
  PROVE  /\ IsFiniteSet(RepliesOf(a)) /\ Cardinality(RepliesOf(a)) \in Nat
         /\ Cardinality(RepliesOf(a)) <= Cardinality(IdsUnread(a))
         /\ \A i \in RepliesOf(a) : UnreadAt(i).val \in IdsUnread(a)
<1> DEFINE f == [i \in RepliesOf(a) |-> UnreadAt(i).val]
<1>1. RepliesOf(a) \subseteq 1..UnreadLen /\ RepliesOf(a) \subseteq Int
  BY ViewIds DEF RepliesOf
<1>2. ASSUME NEW i \in RepliesOf(a) PROVE UnreadAt(i).val \in IdsUnread(a)
  <2>1. UnreadAt(i).val \in Nat /\ UnreadAt(i).val <= Posted
    BY <1>1, ViewIds DEF Chain, Bounded, RepliesOf, Reply
  <2>2. issued \in 0..MaxVerbs /\ MaxVerbs \in Nat
    BY RingAssumption DEF TypeOK, Ids
  <2>3. UnreadAt(i).val \in Ids
    BY <2>1, <2>2 DEF Ids
  <2>4. QED
    BY <2>3 DEF IdsUnread
<1>3. ASSUME NEW i \in RepliesOf(a), NEW j \in RepliesOf(a), f[i] = f[j] PROVE i = j
  <2>1. i \in Int /\ j \in Int /\ i \in 1..UnreadLen /\ j \in 1..UnreadLen /\ Reply(i) /\ Reply(j)
    BY <1>1 DEF RepliesOf, Reply
  <2>2. UnreadAt(i).val = UnreadAt(j).val /\ UnreadAt(i).val \in Int
    BY <1>3, <2>1, ViewIds
  <2>3. ~(i < j) /\ ~(j < i)
    BY <2>1, <2>2 DEF Chain, Increasing
  <2>4. QED
    BY <2>1, <2>3
<1>4. f \in Injection(RepliesOf(a), IdsUnread(a))
  BY <1>2, <1>3 DEF Injection, IsInjective
<1> HIDE DEF f
<1>5. IsFiniteSet(IdsUnread(a))
  BY ComingFinite
<1>6. QED
  BY <1>2, <1>4, <1>5, FS_Injection, FS_CardinalityType

\* No number is in two queues.
LEMMA IdsApart ==
  ASSUME TypeOK, Chain, NEW a
  PROVE  Cardinality(Coming(a)) =
           Cardinality(IdsPosted(a)) + Cardinality(IdsFetched(a)) + Cardinality(IdsUnread(a))
<1>1. DOMAIN flight = 1..Len(flight)
  BY DEF TypeOK
<1>2. IdsPosted(a) \cap IdsFetched(a) = {}
  <2>1. ASSUME NEW n \in IdsPosted(a), n \in IdsFetched(a) PROVE FALSE
    <3>1. PICK i \in 1..PostedLen : PostedAt(i).id = n
      BY DEF IdsPosted, PostedTo
    <3>2. PICK j \in 1..Len(flight) : flight[j].id = n
      BY <1>1, <2>1 DEF IdsFetched, FetchedFor
    <3>3. flight[j].id < PostedAt(i).id
      BY DEF Chain, Staged
    <3>4. QED
      BY <3>1, <3>2, <3>3, ViewIds
  <2>2. QED
    BY <2>1
<1>3. (IdsPosted(a) \cup IdsFetched(a)) \cap IdsUnread(a) = {}
  <2>1. ASSUME NEW n \in IdsUnread(a) PROVE n \notin IdsPosted(a) /\ n \notin IdsFetched(a)
    <3>1. PICK j \in 1..UnreadLen : Reply(j) /\ UnreadAt(j).val = n
      BY DEF IdsUnread, RepliesOf, Reply
    <3>2. n \in Int
      BY <3>1, ViewIds
    <3>3. ASSUME NEW i \in 1..PostedLen PROVE PostedAt(i).id # n
      BY <3>1, <3>2, ViewIds DEF Chain, Staged
    <3>4. ASSUME NEW i \in 1..Len(flight) PROVE flight[i].id # n
      BY <3>1, <3>2, ViewIds DEF Chain, Staged
    <3>5. QED
      BY <1>1, <3>3, <3>4 DEF IdsPosted, IdsFetched, PostedTo, FetchedFor
  <2>2. QED
    BY <2>1
<1>4. /\ IsFiniteSet(IdsPosted(a) \cup IdsFetched(a))
      /\ Cardinality(IdsPosted(a) \cup IdsFetched(a)) = Cardinality(IdsPosted(a)) + Cardinality(IdsFetched(a))
  <2>1. Cardinality(IdsPosted(a) \cap IdsFetched(a)) = 0
    BY <1>2, FS_EmptySet
  <2>2. /\ IsFiniteSet(IdsPosted(a)) /\ Cardinality(IdsPosted(a)) \in Nat
        /\ IsFiniteSet(IdsFetched(a)) /\ Cardinality(IdsFetched(a)) \in Nat
    BY ComingFinite
  <2>3. /\ IsFiniteSet(IdsPosted(a) \cup IdsFetched(a))
        /\ Cardinality(IdsPosted(a) \cup IdsFetched(a)) =
             Cardinality(IdsPosted(a)) + Cardinality(IdsFetched(a)) - Cardinality(IdsPosted(a) \cap IdsFetched(a))
    BY <2>2, FS_Union
  <2>4. QED
    BY <2>1, <2>2, <2>3
<1>5. Cardinality(Coming(a)) = Cardinality(IdsPosted(a) \cup IdsFetched(a)) + Cardinality(IdsUnread(a))
  <2> DEFINE S == IdsPosted(a) \cup IdsFetched(a)
  <2>1. Cardinality(S \cap IdsUnread(a)) = 0
    BY <1>3, FS_EmptySet
  <2>2. /\ IsFiniteSet(S) /\ Cardinality(S) \in Nat
        /\ IsFiniteSet(IdsUnread(a)) /\ Cardinality(IdsUnread(a)) \in Nat
    BY <1>4, ComingFinite, FS_CardinalityType
  <2>3. Coming(a) = S \cup IdsUnread(a)
    BY DEF Coming
  <2> HIDE DEF S
  <2>4. Cardinality(Coming(a)) = Cardinality(S) + Cardinality(IdsUnread(a)) - Cardinality(S \cap IdsUnread(a))
    BY <2>2, <2>3, FS_Union
  <2>5. Cardinality(Coming(a)) = Cardinality(S) + Cardinality(IdsUnread(a))
    BY <2>1, <2>2, <2>4
  <2>6. QED
    BY <2>5 DEF S
<1>6. QED
  BY <1>4, <1>5, ComingFinite

\* Every unread answer is expected, so the loop accepts them all.
LEMMA AllAccepted ==
  ASSUME TypeOK, Chain, Counted, Posted \in Int, Posted <= issued, NEW a \in Addrs
  PROVE  Accepted(a) = RepliesOf(a) /\ Cardinality(RepliesOf(a)) <= cmds[a] /\ cmds[a] \in Nat
<1>1. /\ IsFiniteSet(RepliesOf(a)) /\ Cardinality(RepliesOf(a)) \in Nat
      /\ Cardinality(RepliesOf(a)) <= Cardinality(IdsUnread(a))
  BY UnreadCount
<1>2. Cardinality(Coming(a)) <= cmds[a] /\ cmds[a] \in Nat
  BY RingAssumption DEF Counted, TypeOK
<1>3. Cardinality(RepliesOf(a)) <= cmds[a]
  BY <1>1, <1>2, IdsApart, ComingFinite
<1>4. ASSUME NEW i \in RepliesOf(a)
      PROVE  Cardinality({j \in RepliesOf(a) : j < i}) < cmds[a]
  <2> DEFINE S == {j \in RepliesOf(a) : j < i}
  <2>1. i \in Int
    BY ViewIds DEF RepliesOf
  <2>2. S \in SUBSET RepliesOf(a) /\ i \notin S
    BY <2>1
  <2> HIDE DEF S
  <2>3. Cardinality(S) < Cardinality(RepliesOf(a)) /\ Cardinality(S) \in Nat
    BY <1>1, <2>2, FS_Subset, FS_CardinalityType
  <2>4. Cardinality(S) < cmds[a]
    BY <1>1, <1>2, <1>3, <2>3
  <2>5. QED
    BY <2>4 DEF S
<1>5. QED
  BY <1>2, <1>3, <1>4 DEF Accepted

\* What the handler leaves: nothing unread, and the newest answer of each codec.
LEMMA UpdateMoves ==
  ASSUME TypeOK, Chain, Counted, Posted \in Int, Posted <= issued, UpdateRirb
  PROVE  /\ UnreadLen' = 0
         /\ PostedLen' = PostedLen /\ (\A i : PostedAt(i)' = PostedAt(i)) /\ flight' = flight
         /\ \A a \in Addrs :
              /\ cmds'[a] = cmds[a] - Cardinality(RepliesOf(a))
              /\ RepliesOf(a) = {} => res'[a] = res[a]
              /\ RepliesOf(a) # {} =>
                   \E i \in RepliesOf(a) :
                     /\ res'[a] = UnreadAt(i).val
                     /\ \A j \in RepliesOf(a) : UnreadAt(j).val <= UnreadAt(i).val
<1>1. /\ rp' = RIRBWP /\ RIRBWP' = RIRBWP /\ corb' = corb /\ CORBWP' = CORBWP /\ CORBRP' = CORBRP
      /\ flight' = flight /\ rirb' = rirb
      /\ RIRBWP \in Slots
  BY DEF UpdateRirb, ring, answer, TypeOK
<1>2. UnreadLen' = 0
  <2>1. UnreadLen' = Dist(RIRBWP, RIRBWP)
    BY <1>1 DEF UnreadLen, Dist
  <2>2. QED
    BY <1>1, <2>1, DistValue
<1>3. PostedLen' = PostedLen /\ (\A i : PostedAt(i)' = PostedAt(i))
  BY <1>1 DEF PostedLen, PostedAt
<1>4. ASSUME NEW a \in Addrs
      PROVE  /\ cmds'[a] = cmds[a] - Cardinality(RepliesOf(a))
             /\ RepliesOf(a) = {} => res'[a] = res[a]
             /\ RepliesOf(a) # {} => res'[a] = UnreadAt(Last(RepliesOf(a))).val
  BY AllAccepted DEF UpdateRirb
<1>5. ASSUME NEW a \in Addrs, RepliesOf(a) # {}
      PROVE  /\ Last(RepliesOf(a)) \in RepliesOf(a)
             /\ \A j \in RepliesOf(a) : UnreadAt(j).val <= UnreadAt(Last(RepliesOf(a))).val
  <2>1. RepliesOf(a) \in SUBSET (1..UnreadLen) /\ UnreadLen \in Nat
    BY ViewIds DEF RepliesOf
  <2>2. PICK i \in RepliesOf(a) : i = Last(RepliesOf(a)) /\ \A j \in RepliesOf(a) : j <= i
    BY <1>5, <2>1, LastIs
  <2>3. ASSUME NEW j \in RepliesOf(a) PROVE UnreadAt(j).val <= UnreadAt(i).val
    <3>1. i \in 1..UnreadLen /\ j \in 1..UnreadLen /\ Reply(i) /\ Reply(j)
      BY DEF RepliesOf, Reply
    <3>2. j < i \/ j = i
      BY <2>2, <3>1
    <3>3. j < i => UnreadAt(j).val < UnreadAt(i).val
      BY <3>1 DEF Chain, Increasing
    <3>4. UnreadAt(j).val \in Int /\ UnreadAt(i).val \in Int
      BY <3>1, ViewIds
    <3>5. QED
      BY <3>2, <3>3, <3>4
  <2>4. QED
    BY <2>2, <2>3
<1>6. QED
  BY <1>1, <1>2, <1>3, <1>4, <1>5

\* What is stored is an old value or one that was unread.
LEMMA UpdateStores ==
  ASSUME TypeOK, Chain, Counted, Posted \in Int, Posted <= issued, UpdateRirb, NEW a \in Addrs
  PROVE  res'[a] = res[a] \/ \E i \in 1..UnreadLen : Reply(i) /\ res'[a] = UnreadAt(i).val
  BY UpdateMoves DEF RepliesOf, Reply

\* The numbers stay in their order when the handler runs.
LEMMA UpdateChain ==
  ASSUME TypeOK, Chain, Counted, Posted \in Int, Posted <= issued, UpdateRirb
  PROVE  Chain'
<1>1. Posted' = Posted
  BY DEF UpdateRirb, calls, Posted
<1>2. /\ UnreadLen' = 0
      /\ PostedLen' = PostedLen /\ (\A i : PostedAt(i)' = PostedAt(i)) /\ flight' = flight
  BY UpdateMoves
<1>3. 1..UnreadLen' = {}
  BY <1>2
<1>4. Increasing'
  BY <1>2, <1>3 DEF Chain, Increasing
<1>5. Staged'
  BY <1>2, <1>3 DEF Chain, Staged
<1>6. Bounded'
  BY <1>1, <1>2, <1>3 DEF Chain, Bounded
<1>7. ResBehind'
  <2>1. ASSUME NEW a \in Addrs, NEW i \in 1..PostedLen PROVE res'[a] < PostedAt(i).id
    BY UpdateStores DEF Chain, ResBehind, Staged
  <2>2. ASSUME NEW a \in Addrs, NEW i \in 1..Len(flight) PROVE res'[a] < flight[i].id
    BY UpdateStores DEF Chain, ResBehind, Staged
  <2>3. QED
    BY <1>2, <1>3, <2>1, <2>2 DEF ResBehind
<1>8. QED
  BY <1>4, <1>5, <1>6, <1>7 DEF Chain

\* The count goes down by what is no longer to come, and the waiter's answer is
\* the newest of its codec.
LEMMA UpdateCounts ==
  ASSUME TypeOK, Chain, Counted, WaitOK, Posted \in Int, Posted <= issued, UpdateRirb
  PROVE  Counted' /\ WaitOK'
<1>1. Posted' = Posted /\ issued' = issued /\ pc' = pc /\ verb' = verb /\ issued \in Int
  BY RingAssumption DEF UpdateRirb, calls, Posted, TypeOK, Ids
<1>2. ASSUME NEW a \in Addrs
      PROVE  /\ Coming(a)' = IdsPosted(a) \cup IdsFetched(a)
             /\ Cardinality(Coming(a)') = Cardinality(Coming(a)) - Cardinality(IdsUnread(a))
             /\ Cardinality(Coming(a)') \in Nat
  <2>1. IdsPosted(a)' = IdsPosted(a)
    BY UpdateMoves DEF IdsPosted, PostedTo
  <2>2. IdsFetched(a)' = IdsFetched(a)
    BY UpdateMoves DEF IdsFetched, FetchedFor
  <2>3. IdsUnread(a)' = {}
    <3>1. 1..UnreadLen' = {}
      BY UpdateMoves
    <3>2. QED
      BY <3>1 DEF IdsUnread, RepliesOf
  <2>4. Coming(a)' = IdsPosted(a) \cup IdsFetched(a)
    BY <2>1, <2>2, <2>3 DEF Coming
  <2>5. Coming(a)' = Coming(a) \ IdsUnread(a)
    <3>1. ASSUME NEW n \in IdsUnread(a) PROVE n \notin IdsPosted(a) \cup IdsFetched(a)
      <4>1. PICK j \in 1..UnreadLen : Reply(j) /\ UnreadAt(j).val = n
        BY DEF IdsUnread, RepliesOf, Reply
      <4>2. n \in Int /\ DOMAIN flight = 1..Len(flight)
        BY <4>1, ViewIds DEF TypeOK
      <4>3. ASSUME NEW i \in 1..PostedLen PROVE PostedAt(i).id # n
        BY <4>1, <4>2, ViewIds DEF Chain, Staged
      <4>4. ASSUME NEW i \in 1..Len(flight) PROVE flight[i].id # n
        BY <4>1, <4>2, ViewIds DEF Chain, Staged
      <4>5. QED
        BY <4>2, <4>3, <4>4 DEF IdsPosted, IdsFetched, PostedTo, FetchedFor
    <3>2. QED
      BY <2>4, <3>1 DEF Coming
  <2>6. Coming(a) \cap IdsUnread(a) = IdsUnread(a)
    BY DEF Coming
  <2>7. QED
    BY <2>4, <2>5, <2>6, ComingFinite, FS_Difference, FS_CardinalityType
<1>3. ASSUME NEW a \in Addrs
      PROVE  /\ cmds[a] \in Int /\ Cardinality(Coming(a)) \in Int /\ Cardinality(Coming(a)) <= cmds[a]
             /\ cmds[a] <= Posted
             /\ cmds'[a] = cmds[a] - Cardinality(RepliesOf(a))
             /\ Cardinality(RepliesOf(a)) \in Nat /\ Cardinality(IdsUnread(a)) \in Int
             /\ Cardinality(RepliesOf(a)) <= Cardinality(IdsUnread(a))
  <2>1. cmds[a] \in Int
    BY <1>3 DEF TypeOK
  <2>2. Cardinality(Coming(a)) \in Nat /\ Cardinality(IdsUnread(a)) \in Nat
    BY ComingFinite, Zenon
  <2>3. Cardinality(Coming(a)) <= cmds[a] /\ cmds[a] <= Posted
    BY Zenon DEF Counted
  <2>4. cmds'[a] = cmds[a] - Cardinality(RepliesOf(a))
    BY UpdateMoves, Zenon
  <2>5. Cardinality(RepliesOf(a)) \in Nat /\ Cardinality(RepliesOf(a)) <= Cardinality(IdsUnread(a))
    BY UnreadCount, Zenon
  <2>6. QED
    BY <2>1, <2>2, <2>3, <2>4, <2>5
<1>4. Counted'
  <2>1. ASSUME NEW a \in Addrs PROVE Cardinality(Coming(a)') <= cmds'[a] /\ cmds'[a] <= Posted
    BY <1>2, <1>3
  <2>2. QED
    BY <1>1, <2>1 DEF Counted
<1>5. WaitOK'
  <2>1. ASSUME NEW t \in Threads, pc[t] = "wait", NEW a \in Addrs, a = verb[t].addr
        PROVE  issued \in Coming(a)' \/ Cardinality(Coming(a)') < cmds'[a] \/ res'[a] = issued
    <3>1. issued \in Coming(a) \/ Cardinality(Coming(a)) < cmds[a] \/ res[a] = issued
      BY <2>1 DEF WaitOK
    <3>2. CASE Cardinality(Coming(a)) < cmds[a]
      BY <1>2, <1>3, <3>2
    <3>3. CASE issued \in Coming(a) /\ issued \notin IdsUnread(a)
      BY <1>2, <3>3 DEF Coming
    <3>4. CASE issued \in IdsUnread(a)
      <4>1. PICK j \in RepliesOf(a) : UnreadAt(j).val = issued
        BY <3>4 DEF IdsUnread
      <4>2. PICK i \in RepliesOf(a) : res'[a] = UnreadAt(i).val /\ UnreadAt(j).val <= UnreadAt(i).val
        BY <4>1, UpdateMoves
      <4>3. UnreadAt(i).val \in Int /\ UnreadAt(i).val <= Posted
        BY ViewIds DEF RepliesOf, Reply, Chain, Bounded
      <4>4. QED
        BY <1>1, <4>1, <4>2, <4>3
    <3>5. CASE res[a] = issued
      <4>1. ASSUME NEW j \in RepliesOf(a) PROVE FALSE
        <5>1. res[a] < UnreadAt(j).val /\ UnreadAt(j).val \in Int /\ UnreadAt(j).val <= Posted
          BY ViewIds DEF RepliesOf, Reply, Chain, Bounded, ResBehind
        <5>2. QED
          BY <1>1, <3>5, <5>1
      <4>2. res'[a] = res[a]
        BY <4>1, UpdateMoves
      <4>3. QED
        BY <3>5, <4>2
    <3>6. QED
      BY <3>1, <3>2, <3>3, <3>4, <3>5
  <2>2. ASSUME NEW t \in Threads, pc[t] = "wait"
        PROVE  \/ issued \in Coming(verb[t].addr)'
               \/ Cardinality(Coming(verb[t].addr)') < cmds'[verb[t].addr]
               \/ res'[verb[t].addr] = issued
    <3>1. PICK a \in Addrs : a = verb[t].addr
      BY DEF TypeOK, Verbs
    <3>2. issued \in Coming(a)' \/ Cardinality(Coming(a)') < cmds'[a] \/ res'[a] = issued
      BY <2>1, <2>2, <3>1
    <3>3. QED
      BY <1>1, <3>1, <3>2
  <2>3. QED
    BY <1>1, <2>2 DEF WaitOK
<1>6. QED
  BY <1>4, <1>5

-----------------------------------------------------------------------------
(* Unsolicited responses.                                                  *)

\* A step that writes and hands over none of them keeps their order.
LEMMA EventsKeep ==
  ASSUME EventOrder, events' = events, unsols' = unsols,
         \A i \in Unsolicited' : i \in Unsolicited /\ UnreadAt(i)' = UnreadAt(i)
  PROVE  EventOrder'
  BY DEF EventOrder, EventsInOrder

\* One written is newer than all before it.
LEMMA UnsolicitEvents ==
  ASSUME TypeOK, EventOrder, Unsolicit
  PROVE  EventOrder'
<1>1. PICK c \in link.codecs : WriteRirb([addr |-> c, val |-> unsols + 1, unsol |-> TRUE])
  BY DEF Unsolicit
<1>2. rp' = rp /\ unsols' = unsols + 1 /\ events' = events /\ unsols \in Nat
  BY DEF Unsolicit, soft, TypeOK
<1> DEFINE e == [addr |-> c, val |-> unsols + 1, unsol |-> TRUE]
<1>3. e.val = unsols + 1
  OBVIOUS
<1>4. \/ UnreadLen' = 0
      \/ /\ UnreadLen' = UnreadLen + 1
         /\ \A i \in 1..UnreadLen : UnreadAt(i)' = UnreadAt(i)
         /\ UnreadAt(UnreadLen)' = e
  BY <1>1, <1>2, WriteMoves
<1> HIDE DEF e
<1>5. ASSUME NEW i \in Unsolicited'
      PROVE  \/ i \in Unsolicited /\ i \in 1..UnreadLen /\ UnreadAt(i)' = UnreadAt(i)
             \/ i = UnreadLen + 1 /\ UnreadAt(i)'.val = unsols + 1
  <2>1. i \in 1..UnreadLen' /\ UnreadAt(i)'.unsol
    BY DEF Unsolicited
  <2>2. QED
    BY <1>3, <1>4, <2>1, ViewIds DEF Unsolicited
<1>6. \A k \in DOMAIN events : events[k] <= unsols /\ events[k] \in Int
  <2>1. events \in Seq(1..MaxUnsol)
    BY DEF TypeOK
  <2>2. \A k \in DOMAIN events : events[k] \in 1..MaxUnsol
    <3>1. DOMAIN events = 1..Len(events)
      BY <2>1
    <3>2. QED
      BY <2>1, <3>1, ElementOfSeq
  <2>3. QED
    BY <2>2 DEF EventOrder
<1>7. \A i \in Unsolicited : UnreadAt(i).val \in 1..unsols
  BY DEF EventOrder
<1>8. \A k \in DOMAIN events : events[k] <= unsols + 1
  BY <1>2, <1>6
<1>9. \A i \in Unsolicited' : UnreadAt(i)'.val \in 1..(unsols + 1)
  BY <1>2, <1>5, <1>7
<1>10. ASSUME NEW i \in Unsolicited', NEW j \in Unsolicited', i < j
       PROVE  UnreadAt(i)'.val < UnreadAt(j)'.val
  <2>1. CASE j \in Unsolicited /\ j \in 1..UnreadLen /\ UnreadAt(j)' = UnreadAt(j)
    <3>1. i \in Unsolicited /\ UnreadAt(i)' = UnreadAt(i)
      BY <1>5, <1>10, <2>1, ViewIds
    <3>2. QED
      BY <1>10, <2>1, <3>1 DEF EventOrder
  <2>2. CASE j = UnreadLen + 1 /\ UnreadAt(j)'.val = unsols + 1
    <3>1. i \in Unsolicited /\ UnreadAt(i)' = UnreadAt(i)
      BY <1>5, <1>10, <2>2, ViewIds
    <3>2. QED
      BY <1>2, <1>7, <2>2, <3>1
  <2>3. QED
    BY <1>5, <2>1, <2>2
<1>11. ASSUME NEW k \in DOMAIN events, NEW i \in Unsolicited' PROVE events[k] < UnreadAt(i)'.val
  <2>1. CASE i \in Unsolicited /\ UnreadAt(i)' = UnreadAt(i)
    BY <2>1 DEF EventOrder
  <2>2. CASE UnreadAt(i)'.val = unsols + 1
    <3>1. events[k] \in Int /\ events[k] <= unsols
      BY <1>6
    <3>2. QED
      BY <1>2, <2>2, <3>1
  <2>3. QED
    BY <1>5, <2>1, <2>2
<1>12. QED
  BY <1>2, <1>8, <1>9, <1>10, <1>11 DEF EventOrder, EventsInOrder

\* Those handed over are the unread ones, in their order.
LEMMA UpdateEvents ==
  ASSUME TypeOK, EventOrder, UpdateRirb
  PROVE  EventOrder' /\ events' \in Seq(1..MaxUnsol)
<1> DEFINE U == Unsolicited
           c == Cardinality(U)
           new == [k \in 1..c |-> UnreadAt(Nth(U, k)).val]
           n == Len(events)
<1>1. U \in SUBSET (1..UnreadLen) /\ UnreadLen \in Nat
  BY ViewIds DEF Unsolicited
<1>2. c \in Nat
  BY <1>1, BoundedFinite
<1>3. events' = events \o new /\ unsols' = unsols
  BY DEF UpdateRirb, budget
<1>4. \A i \in U : UnreadAt(i).val \in 1..unsols
  BY DEF EventOrder
<1>5. unsols \in 0..MaxUnsol /\ MaxUnsol \in Nat /\ events \in Seq(1..MaxUnsol) /\ n \in Nat
  BY RingAssumption DEF TypeOK
<1>6. \A i, j \in U : i < j => UnreadAt(i).val < UnreadAt(j).val
  BY DEF EventOrder
<1>7. \A k \in DOMAIN events, i \in U : events[k] < UnreadAt(i).val
  BY DEF EventOrder
<1> HIDE DEF U, c
<1>8. ASSUME NEW k \in 1..c PROVE Nth(U, k) \in U /\ new[k] = UnreadAt(Nth(U, k)).val
  BY <1>1, NthIs DEF c
<1>9. ASSUME NEW k \in 1..c, NEW m \in 1..c, k < m PROVE new[k] < new[m]
  <2>1. Nth(U, k) < Nth(U, m)
    BY <1>1, <1>9, NthOrder DEF c
  <2>2. QED
    BY <1>6, <1>8, <2>1
<1>10. new \in Seq(1..MaxUnsol) /\ Len(new) = c
  <2>1. \A k \in 1..c : new[k] \in 1..MaxUnsol
    BY <1>4, <1>5, <1>8
  <2>2. new \in [1..c -> 1..MaxUnsol]
    BY <2>1
  <2>3. QED
    BY <1>2, <2>2
<1>11. \A k \in 1..c : new[k] \in 1..unsols
  BY <1>4, <1>8
<1>12. \A k \in DOMAIN events, m \in 1..c : events[k] < new[m]
  BY <1>7, <1>8
<1> HIDE DEF new
<1>13. /\ events' \in Seq(1..MaxUnsol) /\ Len(events') = n + c
       /\ \A k \in 1..(n + c) : events'[k] = IF k <= n THEN events[k] ELSE new[k - n]
  BY <1>3, <1>5, <1>10, ConcatProperties
<1>14. DOMAIN events = 1..n /\ DOMAIN events' = 1..(n + c)
  BY <1>5, <1>13
<1> HIDE DEF n
<1>15. Unsolicited' = {}
  <2>1. UnreadLen' = Dist(RIRBWP, RIRBWP) /\ RIRBWP \in Slots
    BY DEF UnreadLen, Dist, UpdateRirb, answer, TypeOK
  <2>2. UnreadLen' = 0
    BY <2>1, DistValue
  <2>3. 1..UnreadLen' = {}
    BY <2>2
  <2>4. QED
    BY <2>3 DEF Unsolicited
<1>16. ASSUME NEW k \in 1..(n + c), NEW m \in 1..(n + c), k < m PROVE events'[k] < events'[m]
  <2>1. CASE m <= n
    <3>1. k \in 1..n /\ m \in 1..n /\ k <= n
      BY <1>5, <1>2, <1>16, <2>1
    <3>2. events[k] < events[m]
      BY <1>14, <1>16, <3>1 DEF EventOrder, EventsInOrder
    <3>3. events'[k] = events[k] /\ events'[m] = events[m]
      BY <1>13, <2>1, <3>1
    <3>4. QED
      BY <3>2, <3>3
  <2>2. CASE k <= n /\ n < m
    <3>1. k \in 1..n /\ m - n \in 1..c /\ ~(m <= n)
      BY <1>2, <1>5, <2>2
    <3>2. QED
      BY <1>12, <1>13, <1>14, <2>2, <3>1
  <2>3. CASE n < k
    <3>1. k - n \in 1..c /\ m - n \in 1..c /\ ~(k <= n) /\ ~(m <= n) /\ k - n < m - n
      BY <1>2, <1>5, <1>16, <2>3
    <3>2. QED
      BY <1>9, <1>13, <3>1
  <2>4. QED
    BY <1>2, <1>5, <1>16, <2>1, <2>2, <2>3
<1>17. ASSUME NEW k \in 1..(n + c) PROVE events'[k] <= unsols
  <2>1. CASE k <= n
    <3>1. k \in 1..n
      BY <1>2, <1>5, <2>1
    <3>2. QED
      BY <1>13, <1>14, <2>1, <3>1 DEF EventOrder
  <2>2. CASE n < k
    <3>1. k - n \in 1..c /\ ~(k <= n)
      BY <1>2, <1>5, <2>2
    <3>2. events'[k] = new[k - n]
      BY <1>13, <3>1
    <3>3. new[k - n] \in 1..unsols
      BY <1>11, <3>1
    <3>4. QED
      BY <1>5, <3>2, <3>3
  <2>3. QED
    BY <1>2, <1>5, <2>1, <2>2
<1>18. QED
  BY <1>3, <1>13, <1>14, <1>15, <1>16, <1>17 DEF EventOrder, EventsInOrder

\* No other step of the hardware touches them.
LEMMA AnswerEvents ==
  ASSUME TypeOK, EventOrder, Answer
  PROVE  EventOrder'
<1> DEFINE e == [addr |-> Head(flight).addr, val |-> Head(flight).id, unsol |-> FALSE]
<1>1. /\ WriteRirb(e) /\ rp' = rp /\ events' = events /\ unsols' = unsols /\ ~e.unsol
  BY AnswerMoves
<1>2. \/ UnreadLen' = 0
      \/ /\ UnreadLen' = UnreadLen + 1
         /\ \A i \in 1..UnreadLen : UnreadAt(i)' = UnreadAt(i)
         /\ UnreadAt(UnreadLen)' = e
  BY <1>1, WriteMoves
<1> HIDE DEF e
<1>3. ASSUME NEW i \in Unsolicited' PROVE i \in Unsolicited /\ UnreadAt(i)' = UnreadAt(i)
  <2>1. i \in 1..UnreadLen' /\ UnreadAt(i)'.unsol
    BY DEF Unsolicited
  <2>2. QED
    BY <1>1, <1>2, <2>1, ViewIds DEF Unsolicited
<1>4. QED
  BY <1>1, <1>3, EventsKeep

-----------------------------------------------------------------------------
(* Types, and the calls.                                                   *)

\* What is posted has been issued, and the link allows what is issued.
LEMMA PostedType ==
  ASSUME TypeOK
  PROVE  /\ Posted \in Int /\ Posted <= issued /\ issued \in Ids /\ issued \in Int
         /\ link.verbs \in 0..MaxVerbs /\ link.codecs \subseteq Addrs /\ MaxVerbs \in Nat
         /\ link.unsols \in 0..MaxUnsol /\ Addrs # {}
<1>1. issued \in Ids /\ issued \in Int /\ MaxVerbs \in Nat
  BY RingAssumption DEF TypeOK, Ids
<1>2. link \in [codecs : (SUBSET Addrs) \ {{}}, polling : BOOLEAN, verbs : 0..MaxVerbs,
               unsols : 0..MaxUnsol]
  BY RingAssumption DEF TypeOK
<1>3. /\ link.verbs \in 0..MaxVerbs /\ link.codecs \in (SUBSET Addrs) \ {{}}
      /\ link.unsols \in 0..MaxUnsol
  BY <1>2
<1>4. QED
  BY <1>1, <1>3 DEF Posted

\* The types hold initially.
LEMMA InitTypes == Init => TypeOK
<1> SUFFICES ASSUME Init PROVE TypeOK
  OBVIOUS
<1>1. link \in [codecs : (SUBSET Addrs) \ {{}}, polling : BOOLEAN, verbs : 0..MaxVerbs,
               unsols : 0..MaxUnsol]
  BY RingAssumption DEF Init
<1>2. PICK c \in Addrs : TRUE
  BY <1>1
<1>3. /\ 0 \in Slots /\ 0 \in Ids /\ 0 \in 0..MaxUnsol /\ 0 \in 0..MaxVerbs
  BY RingAssumption DEF Slots, Ids
<1>4. FALSE \in BOOLEAN
  OBVIOUS
<1>5. NoVerb.addr \in Addrs
  BY <1>2 DEF NoVerb
<1>6. NoVerb \in Verbs /\ NoReply \in Replies
  BY <1>3, <1>4, <1>5 DEF NoVerb, NoReply, Verbs, Replies
<1>7. None \in [id : Ids, err : BOOLEAN, read : BOOLEAN, val : Ids]
  BY <1>3, <1>4 DEF None
<1>8. corb \in [Slots -> Verbs] /\ rirb \in [Slots -> Replies] /\ verb \in [Threads -> Verbs]
  BY <1>6 DEF Init
<1>9. result \in [Threads -> [id : Ids, err : BOOLEAN, read : BOOLEAN, val : Ids]]
  BY <1>7 DEF Init
<1>10. cmds \in [Addrs -> 0..MaxVerbs] /\ res \in [Addrs -> Ids] /\ issued \in Ids
  BY <1>3 DEF Init
<1>11. /\ CORBWP \in Slots /\ CORBRP \in Slots /\ RIRBWP \in Slots /\ rp \in Slots /\ link \in Links
       /\ unsols \in 0..MaxUnsol
  BY <1>3 DEF Init
<1>12. pc \in [Threads -> {"idle", "send", "wait", "drain"}]
  BY DEF Init
<1>13. gone \in BOOLEAN
  BY <1>4 DEF Init
<1>14. flight \in Seq(Verbs) /\ events \in Seq(1..MaxUnsol)
  BY EmptySeq DEF Init
<1>15. QED
  BY <1>8, <1>9, <1>10, <1>11, <1>12, <1>13, <1>14 DEF TypeOK

\* A call begins with types.
LEMMA BeginTypes ==
  ASSUME TypeOK, Calling, NEW t \in Threads, Begin(t)
  PROVE  TypeOK' /\ Calling'
<1>1. /\ \A u \in Threads : pc[u] = "idle"
      /\ issued < link.verbs /\ issued' = issued + 1 /\ pc' = [pc EXCEPT ![t] = "send"]
      /\ link' = link
  BY DEF Begin, ring
<1>2. issued' \in Ids /\ issued' <= link.verbs
  BY <1>1, PostedType DEF Ids
<1>3. PICK a \in link.codecs, r \in BOOLEAN :
        verb' = [verb EXCEPT ![t] = [addr |-> a, id |-> issued + 1, read |-> r]]
  BY DEF Begin
<1>4. [addr |-> a, id |-> issued + 1, read |-> r] \in Verbs
  BY <1>1, <1>2, PostedType DEF Verbs
<1>5. verb' \in [Threads -> Verbs] /\ verb'[t].id = issued'
  <2>1. verb \in [Threads -> Verbs]
    BY DEF TypeOK
  <2>2. verb'[t] = [addr |-> a, id |-> issued + 1, read |-> r] /\ verb' \in [Threads -> Verbs]
    BY <1>3, <1>4, <2>1
  <2>3. QED
    BY <1>1, <2>2
<1>6. pc' \in [Threads -> {"idle", "send", "wait", "drain"}] /\ pc'[t] = "send"
      /\ \A u \in Threads : u # t => pc'[u] = "idle"
  BY <1>1 DEF TypeOK
<1>7. TypeOK'
  BY <1>2, <1>5, <1>6 DEF TypeOK, Begin, ring, answer, soft, budget
<1>8. Calling'
  BY <1>1, <1>2, <1>5, <1>6 DEF Calling
<1>9. QED
  BY <1>7, <1>8

\* What a return leaves in the result of its thread.
LEMMA ReturnLeaves ==
  ASSUME TypeOK, Calling, NEW t \in Threads, pc[t] # "idle", NEW failed \in BOOLEAN, Return(t, failed)
  PROVE  /\ result' \in [Threads -> [id : Ids, err : BOOLEAN, read : BOOLEAN, val : Ids]]
         /\ result' = [result EXCEPT ![t] =
              [id |-> issued, err |-> failed, read |-> verb[t].read,
               val |-> IF verb[t].read /\ ~failed THEN res[verb[t].addr] ELSE 0]]
         /\ verb[t].read \in BOOLEAN /\ verb[t].addr \in Addrs
<1> DEFINE v == IF verb[t].read /\ ~failed THEN res[verb[t].addr] ELSE 0
           r == [id |-> issued, err |-> failed, read |-> verb[t].read, val |-> v]
<1>1. verb[t] \in Verbs /\ verb[t].id = issued /\ res \in [Addrs -> Ids]
  BY DEF TypeOK, Calling
<1>2. verb[t].addr \in Addrs /\ verb[t].read \in BOOLEAN
  BY <1>1 DEF Verbs
<1>3. v \in Ids
  <2>1. res[verb[t].addr] \in Ids /\ 0 \in Ids
    BY <1>1, <1>2, PostedType DEF Ids
  <2>2. QED
    BY <2>1
<1>4. result' = [result EXCEPT ![t] = r]
  BY <1>1 DEF Return
<1> HIDE DEF v
<1>5. r \in [id : Ids, err : BOOLEAN, read : BOOLEAN, val : Ids]
  BY <1>2, <1>3, PostedType
<1> HIDE DEF r
<1>6. result' \in [Threads -> [id : Ids, err : BOOLEAN, read : BOOLEAN, val : Ids]]
  BY <1>4, <1>5 DEF TypeOK
<1>7. QED
  BY <1>2, <1>4, <1>6 DEF v, r

\* What a step of a call does to its thread.
LEMMA ExecMoves ==
  ASSUME TypeOK, Calling, NEW t \in Threads, Exec(t)
  PROVE  /\ pc[t] # "idle" /\ verb' = verb /\ issued' = issued /\ link' = link
         /\ \E v \in {"idle", "send", "wait", "drain"} :
              pc' = [pc EXCEPT ![t] = v] /\ (v = "wait" => verb[t].read)
         /\ UNCHANGED <<flight, rirb, RIRBWP, rp, res, gone, events, unsols>>
         /\ \/ result' = result
            \/ \E failed \in BOOLEAN : Return(t, failed)
<1>1. pc[t] # "idle" /\ UNCHANGED <<flight, rirb, RIRBWP, rp, res, gone, events, unsols, link>>
  BY DEF Exec, SendDead, SendFull, Send, Answered, TimeOut, ring, answer, soft, budget
<1>2. verb' = verb /\ issued' = issued
  BY DEF Exec, SendDead, SendFull, Send, Answered, TimeOut, Return
<1>3. \E v \in {"idle", "send", "wait", "drain"} :
        pc' = [pc EXCEPT ![t] = v] /\ (v = "wait" => verb[t].read)
  BY DEF Exec, SendDead, SendFull, Send, Answered, TimeOut, Return
<1>4. \/ result' = result
      \/ \E failed \in BOOLEAN : Return(t, failed)
  BY DEF Exec, SendDead, SendFull, Send, Answered, TimeOut
<1>5. QED
  BY <1>1, <1>2, <1>3, <1>4

\* A step of a call keeps the types, and one call at a time.
LEMMA ExecTypes ==
  ASSUME TypeOK, Calling, Counted', NEW t \in Threads, Exec(t)
  PROVE  TypeOK' /\ Calling'
<1>1. /\ pc[t] # "idle" /\ verb' = verb /\ issued' = issued /\ link' = link
      /\ UNCHANGED <<flight, rirb, RIRBWP, rp, res, gone, events, unsols>>
  BY ExecMoves
<1>2. PICK v \in {"idle", "send", "wait", "drain"} :
        pc' = [pc EXCEPT ![t] = v] /\ (v = "wait" => verb[t].read)
  BY ExecMoves
<1>3. pc' \in [Threads -> {"idle", "send", "wait", "drain"}]
  BY <1>2 DEF TypeOK
<1>4. \A u \in Threads : u # t => pc[u] = "idle" /\ pc'[u] = "idle"
  BY <1>1, <1>2 DEF Calling, TypeOK
<1>5. result' \in [Threads -> [id : Ids, err : BOOLEAN, read : BOOLEAN, val : Ids]]
  <2>1. CASE result' = result
    BY <2>1 DEF TypeOK
  <2>2. ASSUME NEW failed \in BOOLEAN, Return(t, failed)
        PROVE  result' \in [Threads -> [id : Ids, err : BOOLEAN, read : BOOLEAN, val : Ids]]
    BY <1>1, <2>2, ReturnLeaves
  <2>3. QED
    BY <2>1, <2>2, ExecMoves
<1>6. corb' \in [Slots -> Verbs] /\ CORBWP' \in Slots /\ CORBRP' \in Slots
  <2>1. CASE Send(t)
    <3>1. verb[t] \in Verbs /\ corb \in [Slots -> Verbs] /\ CORBWP \in Slots /\ CORBRP \in Slots
      BY DEF TypeOK
    <3>2. Next1(CORBWP) \in Slots
      BY <3>1, Push
    <3>3. QED
      BY <2>1, <3>1, <3>2 DEF Send
  <2>2. CASE UNCHANGED ring
    BY <2>2 DEF ring, TypeOK
  <2>3. QED
    BY <2>1, <2>2 DEF Exec, SendDead, SendFull, Answered, TimeOut
<1>7. cmds' \in [Addrs -> 0..MaxVerbs]
  <2>1. CASE Send(t)
    <3>1. PICK a \in Addrs : cmds' = [cmds EXCEPT ![a] = @ + 1] /\ cmds \in [Addrs -> 0..MaxVerbs]
      BY <2>1 DEF Send, TypeOK, Verbs
    <3>2. Posted' = issued
      BY <2>1, PostedGrows
    <3>3. ASSUME NEW b \in Addrs PROVE cmds'[b] \in 0..MaxVerbs
      <4>1. cmds'[b] <= issued
        BY <3>2 DEF Counted
      <4>2. cmds'[b] \in Nat
        BY <3>1, PostedType
      <4>3. QED
        BY <4>1, <4>2, PostedType DEF Ids
    <3>4. DOMAIN cmds' = Addrs /\ cmds' = [b \in Addrs |-> cmds'[b]]
      BY <3>1
    <3>5. QED
      BY <3>3, <3>4
  <2>2. CASE UNCHANGED soft
    BY <2>2 DEF soft, TypeOK
  <2>3. QED
    BY <2>1, <2>2 DEF Exec, SendDead, SendFull, Answered, TimeOut
<1>8. TypeOK'
  BY <1>1, <1>3, <1>5, <1>6, <1>7 DEF TypeOK
<1>9. Calling'
  <2>1. \A u \in Threads : pc'[u] # "idle" => u = t
    BY <1>4
  <2>2. pc'[t] = "wait" => verb[t].read
    BY <1>2 DEF TypeOK
  <2>3. verb[t].id = issued /\ issued <= link.verbs
    BY <1>1 DEF Calling
  <2>4. QED
    BY <1>1, <2>1, <2>2, <2>3 DEF Calling
<1>10. QED
  BY <1>8, <1>9

\* The hardware keeps the types.
LEMMA HardwareTypes ==
  ASSUME TypeOK, Chain, Hardware
  PROVE  TypeOK'
<1>1. CASE Fetch
  <2>1. corb[Next1(CORBRP)] \in Verbs /\ Next1(CORBRP) \in Slots /\ flight \in Seq(Verbs)
    BY <1>1, Pop DEF TypeOK, Fetch
  <2>2. flight' \in Seq(Verbs) /\ CORBRP' \in Slots
    BY <1>1, <2>1, AppendProperties DEF Fetch
  <2>3. QED
    BY <1>1, <2>2 DEF TypeOK, Fetch, soft, calls, budget
<1>2. CASE Answer
  <2>1. flight # <<>> /\ flight' = Tail(flight) /\ flight \in Seq(Verbs)
    BY <1>2, AnswerMoves DEF TypeOK
  <2>2. flight' \in Seq(Verbs) /\ Head(flight) \in Verbs
    BY <2>1, HeadTailProperties
  <2>3. Head(flight).addr \in Addrs /\ Head(flight).id \in Ids
    BY <2>2 DEF Verbs
  <2>4. FALSE \in BOOLEAN
    OBVIOUS
  <2>5. [addr |-> Head(flight).addr, val |-> Head(flight).id, unsol |-> FALSE] \in Replies
    BY <2>3, <2>4 DEF Replies
  <2>6. Next1(RIRBWP) \in Slots
    BY Push DEF TypeOK
  <2>7. rirb' \in [Slots -> Replies] /\ RIRBWP' \in Slots
    BY <1>2, <2>5, <2>6 DEF TypeOK, Answer, WriteRirb
  <2>8. QED
    BY <1>2, <2>2, <2>7 DEF TypeOK, Answer, ring, soft, calls, budget
<1>3. CASE Lose
  <2>1. flight # <<>> /\ flight' = Tail(flight) /\ flight \in Seq(Verbs)
    BY <1>3 DEF TypeOK, Lose
  <2>2. flight' \in Seq(Verbs)
    BY <2>1, HeadTailProperties
  <2>3. QED
    BY <1>3, <2>2 DEF TypeOK, Lose, ring, soft, calls
<1>4. CASE Unsolicit
  <2>1. PICK c \in link.codecs : WriteRirb([addr |-> c, val |-> unsols + 1, unsol |-> TRUE])
    BY <1>4 DEF Unsolicit
  <2>2. c \in Addrs
    BY PostedType
  <2>3. unsols + 1 \in 1..MaxUnsol /\ unsols' = unsols + 1 /\ unsols' \in 0..MaxUnsol
    BY <1>4, PostedType, RingAssumption DEF Unsolicit, TypeOK
  <2>4. TRUE \in BOOLEAN
    OBVIOUS
  <2>5. [addr |-> c, val |-> unsols + 1, unsol |-> TRUE] \in Replies
    BY <2>2, <2>3, <2>4 DEF Replies
  <2>6. Next1(RIRBWP) \in Slots
    BY Push DEF TypeOK
  <2>7. rirb' \in [Slots -> Replies] /\ RIRBWP' \in Slots
    BY <2>1, <2>5, <2>6 DEF TypeOK, WriteRirb
  <2>8. QED
    BY <1>4, <2>3, <2>7 DEF TypeOK, Unsolicit, ring, soft, calls
<1>5. CASE PowerDown
  <2>1. TRUE \in BOOLEAN
    OBVIOUS
  <2>2. gone' \in BOOLEAN
    BY <1>5, <2>1 DEF PowerDown
  <2>3. QED
    BY <1>5, <2>2 DEF TypeOK, PowerDown, ring, answer, soft, calls
<1>6. QED
  BY <1>1, <1>2, <1>3, <1>4, <1>5 DEF Hardware

\* So does the handler, ...
LEMMA UpdateTypes ==
  ASSUME TypeOK, Chain, Counted, EventOrder, UpdateRirb
  PROVE  TypeOK'
<1>1. ASSUME NEW a \in Addrs PROVE cmds'[a] \in 0..MaxVerbs /\ res'[a] \in Ids
  <2>1. /\ Cardinality(RepliesOf(a)) <= cmds[a] /\ cmds[a] \in 0..MaxVerbs /\ res[a] \in Ids
        /\ Cardinality(RepliesOf(a)) \in Nat /\ MaxVerbs \in Nat
    BY AllAccepted, UnreadCount, PostedType DEF TypeOK
  <2>2. cmds'[a] = cmds[a] - Cardinality(RepliesOf(a))
    BY UpdateMoves, PostedType
  <2>3. cmds'[a] \in 0..MaxVerbs
    BY <2>1, <2>2
  <2>4. ASSUME NEW i \in RepliesOf(a) PROVE UnreadAt(i).val \in Ids
    BY UnreadCount, PostedType DEF IdsUnread
  <2>5. res'[a] \in Ids
    BY <2>1, <2>4, UpdateMoves, PostedType
  <2>6. QED
    BY <2>3, <2>5
<1>2. cmds' = [a \in Addrs |-> cmds'[a]] /\ res' = [a \in Addrs |-> res'[a]]
  BY DEF UpdateRirb
<1>3. cmds' \in [Addrs -> 0..MaxVerbs] /\ res' \in [Addrs -> Ids]
  BY <1>1, <1>2
<1>4. events' \in Seq(1..MaxUnsol) /\ rp' \in Slots
  BY UpdateEvents DEF UpdateRirb, TypeOK
<1>5. QED
  BY <1>3, <1>4 DEF TypeOK, UpdateRirb, ring, answer, calls, budget

\* ... and a reset of the controller.
LEMMA InitCmdIoTypes ==
  ASSUME TypeOK, InitCmdIo
  PROVE  TypeOK'
<1>1. 0 \in Slots /\ 0 \in 0..MaxVerbs
  BY RingAssumption DEF Slots
<1>2. cmds' \in [Addrs -> 0..MaxVerbs] /\ CORBWP' \in Slots /\ CORBRP' \in Slots /\ RIRBWP' \in Slots /\ rp' \in Slots
  BY <1>1 DEF InitCmdIo
<1>3. flight' \in Seq(Verbs)
  BY EmptySeq DEF InitCmdIo
<1>4. FALSE \in BOOLEAN
  OBVIOUS
<1>5. gone' \in BOOLEAN
  BY <1>4 DEF InitCmdIo
<1>6. QED
  BY <1>2, <1>3, <1>5 DEF TypeOK, InitCmdIo, calls, budget

\* After it nothing is under way.
LEMMA InitCmdIoEmpties ==
  ASSUME RingInv, InitCmdIo
  PROVE  Chain' /\ Counted' /\ WaitOK' /\ EventOrder'
<1>1. /\ CORBWP' = 0 /\ CORBRP' = 0 /\ RIRBWP' = 0 /\ rp' = 0 /\ flight' = <<>> /\ 0 \in Slots
  BY RingAssumption DEF InitCmdIo, Slots
<1>2. PostedLen' = 0 /\ UnreadLen' = 0
  <2>1. PostedLen' = Dist(0, 0) /\ UnreadLen' = Dist(0, 0)
    BY <1>1 DEF PostedLen, UnreadLen, Dist
  <2>2. QED
    BY <1>1, <2>1, DistValue
<1>3. 1..PostedLen' = {} /\ 1..UnreadLen' = {} /\ 1..Len(flight') = {} /\ DOMAIN flight' = {}
  BY <1>1, <1>2, EmptySeq
<1>4. Chain'
  BY <1>3 DEF Chain, Increasing, Staged, Bounded, ResBehind
<1>5. \A a : Coming(a)' = {}
  BY <1>3 DEF Coming, IdsPosted, IdsFetched, IdsUnread, PostedTo, FetchedFor, RepliesOf
<1>6. /\ \A t \in Threads : pc'[t] = "idle" /\ pc[t] = "idle"
      /\ issued' = issued /\ \A a \in Addrs : cmds'[a] = 0
      /\ events' = events /\ unsols' = unsols
  BY DEF InitCmdIo, calls, budget
<1>7. Posted' = issued /\ issued \in Nat
  BY <1>6, RingAssumption DEF Posted, RingInv, TypeOK, Ids
<1>8. Cardinality({}) = 0
  BY FS_EmptySet
<1>9. Counted'
  <2>1. ASSUME NEW a \in Addrs PROVE Cardinality(Coming(a)') <= cmds'[a] /\ cmds'[a] <= Posted'
    <3>1. Cardinality(Coming(a)') = 0
      BY <1>5, <1>8
    <3>2. QED
      BY <1>6, <1>7, <3>1
  <2>2. QED
    BY <2>1 DEF Counted
<1>10. WaitOK'
  BY <1>6 DEF WaitOK
<1>11. EventOrder'
  <2>1. Unsolicited' = {}
    BY <1>3 DEF Unsolicited
  <2>2. QED
    BY <1>6, <2>1, EventsKeep DEF RingInv
<1>12. QED
  BY <1>4, <1>9, <1>10, <1>11

\* A waiter that finds the count at zero finds its own answer.
LEMMA AnswerIsOwn ==
  ASSUME TypeOK, Counted, WaitOK, NEW t \in Threads, pc[t] = "wait", cmds[verb[t].addr] = 0
  PROVE  res[verb[t].addr] = issued
<1>1. PICK a \in Addrs : a = verb[t].addr
  BY DEF TypeOK, Verbs
<1>2. Cardinality(Coming(a)) <= 0 /\ Cardinality(Coming(a)) \in Nat /\ IsFiniteSet(Coming(a))
  BY <1>1, ComingFinite DEF Counted
<1>3. Coming(a) = {} /\ ~(Cardinality(Coming(a)) < 0)
  BY <1>2, FS_EmptySet
<1>4. issued \in Coming(a) \/ Cardinality(Coming(a)) < cmds[a] \/ res[a] = issued
  BY <1>1 DEF WaitOK
<1>5. QED
  BY <1>1, <1>3, <1>4

\* A call that returns has failed, wanted no answer, or has its own.
LEMMA ReturnMatches ==
  ASSUME TypeOK, Calling, Counted, WaitOK, NEW t \in Threads, Exec(t)
  PROVE  \/ result' = result /\ pc'[t] # "idle"
         \/ /\ pc'[t] = "idle"
            /\ \E failed \in BOOLEAN :
                 /\ Return(t, failed)
                 /\ verb[t].read /\ ~failed => res[verb[t].addr] = issued
<1>1. pc \in [Threads -> {"idle", "send", "wait", "drain"}] /\ TRUE \in BOOLEAN /\ FALSE \in BOOLEAN
  BY DEF TypeOK
<1>2. CASE SendDead(t)
  BY <1>1, <1>2 DEF SendDead, Return
<1>3. CASE SendFull(t)
  BY <1>1, <1>3 DEF SendFull
<1>4. CASE Send(t)
  <2>1. CASE verb[t].read
    BY <1>1, <1>4, <2>1 DEF Send
  <2>2. CASE ~verb[t].read
    BY <1>1, <1>4, <2>2 DEF Send, Return
  <2>3. QED
    BY <2>1, <2>2
<1>5. CASE Answered(t)
  <2>1. CASE pc[t] = "wait"
    <3>1. res[verb[t].addr] = issued /\ Return(t, FALSE)
      BY <1>5, <2>1, AnswerIsOwn DEF Answered
    <3>2. QED
      BY <1>1, <3>1 DEF Return
  <2>2. CASE pc[t] # "wait"
    BY <1>1, <1>5, <2>2 DEF Answered
  <2>3. QED
    BY <2>1, <2>2
<1>6. CASE TimeOut(t)
  BY <1>1, <1>6 DEF TimeOut, Return
<1>7. QED
  BY <1>2, <1>3, <1>4, <1>5, <1>6 DEF Exec

\* So what its caller gets is the verb's own response.
LEMMA MatchesStep ==
  ASSUME TypeOK, Calling, Counted, WaitOK, ReplyMatches, NEW t \in Threads, Exec(t)
  PROVE  ReplyMatches'
<1>1. CASE result' = result
  BY <1>1 DEF ReplyMatches
<1>2. ASSUME NEW failed \in BOOLEAN, Return(t, failed),
             verb[t].read /\ ~failed => res[verb[t].addr] = issued
      PROVE  ReplyMatches'
  <2> DEFINE r == [id |-> issued, err |-> failed, read |-> verb[t].read,
                   val |-> IF verb[t].read /\ ~failed THEN res[verb[t].addr] ELSE 0]
  <2>1. result' = [result EXCEPT ![t] = r]
    BY <1>2, ReturnLeaves, ExecMoves
  <2>2. r.read /\ ~r.err => r.val = r.id
    BY <1>2
  <2> HIDE DEF r
  <2>3. ASSUME NEW u \in Threads PROVE result'[u] = IF u = t THEN r ELSE result[u]
    BY <2>1 DEF TypeOK
  <2>4. QED
    BY <2>2, <2>3 DEF ReplyMatches
<1>3. QED
  BY <1>1, <1>2, ReturnMatches

-----------------------------------------------------------------------------
(* The invariant is inductive.                                             *)

\* Initially nothing is under way.
LEMMA RingInvInit == Init => RingInv
<1> SUFFICES ASSUME Init PROVE RingInv
  OBVIOUS
<1>1. TypeOK
  BY InitTypes
<1>2. /\ CORBWP = 0 /\ CORBRP = 0 /\ RIRBWP = 0 /\ rp = 0 /\ flight = <<>> /\ events = <<>> /\ 0 \in Slots
  BY RingAssumption DEF Init, Slots
<1>3. PostedLen = 0 /\ UnreadLen = 0
  <2>1. PostedLen = Dist(0, 0) /\ UnreadLen = Dist(0, 0)
    BY <1>2 DEF PostedLen, UnreadLen, Dist
  <2>2. QED
    BY <1>2, <2>1, DistValue
<1>4. 1..PostedLen = {} /\ 1..UnreadLen = {} /\ 1..Len(flight) = {} /\ DOMAIN flight = {} /\ DOMAIN events = {}
  BY <1>2, <1>3, EmptySeq
<1>5. Chain
  BY <1>4 DEF Chain, Increasing, Staged, Bounded, ResBehind
<1>6. \A a : Coming(a) = {}
  BY <1>4 DEF Coming, IdsPosted, IdsFetched, IdsUnread, PostedTo, FetchedFor, RepliesOf
<1>7. /\ \A t \in Threads : pc[t] = "idle"
      /\ issued = 0 /\ \A a \in Addrs : cmds[a] = 0 /\ res[a] = 0
  BY DEF Init
<1>8. Posted = 0 /\ Cardinality({}) = 0
  BY <1>7, FS_EmptySet DEF Posted
<1>9. Counted /\ Stored /\ WaitOK
  <2>1. ASSUME NEW a \in Addrs PROVE Cardinality(Coming(a)) <= cmds[a] /\ cmds[a] <= Posted /\ res[a] <= Posted
    <3>1. Cardinality(Coming(a)) = 0
      BY <1>6, <1>8
    <3>2. QED
      BY <1>7, <1>8, <3>1
  <2>2. QED
    BY <1>7, <2>1 DEF Counted, Stored, WaitOK
<1>10. Calling
  BY <1>7, PostedType, <1>1 DEF Calling
<1>11. ReplyMatches
  <2>1. ASSUME NEW t \in Threads PROVE result[t].val = result[t].id
    BY DEF Init, None
  <2>2. QED
    BY <2>1 DEF ReplyMatches
<1>12. EventOrder
  <2>1. Unsolicited = {}
    BY <1>4 DEF Unsolicited
  <2>2. QED
    BY <1>4, <2>1 DEF EventOrder, EventsInOrder
<1>13. QED
  BY <1>1, <1>5, <1>9, <1>10, <1>11, <1>12 DEF RingInv

\* A call begins: nothing moves.
LEMMA BeginStep ==
  ASSUME RingInv, NEW t \in Threads, Begin(t)
  PROVE  RingInv'
<1>1. TypeOK' /\ Calling'
  BY BeginTypes DEF RingInv
<1>2. /\ UNCHANGED <<corb, CORBWP, CORBRP, flight, rirb, RIRBWP, rp, res, cmds, events, unsols, result>>
      /\ \A u \in Threads : pc[u] = "idle" /\ pc' = [pc EXCEPT ![t] = "send"]
  BY DEF Begin, ring, answer, soft, budget
<1>3. Posted \in Int /\ Posted' \in Int /\ Posted <= Posted'
  BY PostedGrows DEF RingInv
<1>4. Chain' /\ \A a : Coming(a)' = Coming(a)
  BY <1>2, <1>3, QuietChain DEF RingInv
<1>5. Stored' /\ Counted'
  <2>1. ASSUME NEW a \in Addrs PROVE res[a] <= Posted' /\ cmds[a] <= Posted' /\ Cardinality(Coming(a)) <= cmds[a]
    <3>1. res[a] \in Int /\ cmds[a] \in Int
      BY RingAssumption DEF RingInv, TypeOK, Ids
    <3>2. QED
      BY <1>3, <3>1 DEF RingInv, Stored, Counted
  <2>2. QED
    BY <1>2, <1>4, <2>1 DEF Stored, Counted
<1>6. WaitOK'
  BY <1>2 DEF WaitOK, RingInv, TypeOK
<1>7. ReplyMatches'
  BY <1>2 DEF ReplyMatches, RingInv
<1>8. EventOrder'
  BY <1>2, EventsKeep DEF RingInv, Unsolicited, UnreadLen, UnreadAt
<1>9. QED
  BY <1>1, <1>4, <1>5, <1>6, <1>7, <1>8 DEF RingInv

\* A call goes on: it posts its verb, or the queues stay as they are.
LEMMA ExecStep ==
  ASSUME RingInv, NEW t \in Threads, Exec(t)
  PROVE  RingInv'
<1>1. /\ pc[t] # "idle" /\ verb' = verb /\ issued' = issued
      /\ UNCHANGED <<flight, rirb, RIRBWP, rp, res, events, unsols>>
  BY ExecMoves DEF RingInv
<1>2. Posted \in Int /\ Posted' \in Int /\ Posted <= Posted'
  BY PostedGrows DEF RingInv
<1>3. Stored'
  <2>1. ASSUME NEW a \in Addrs PROVE res[a] <= Posted'
    <3>1. res[a] \in Int /\ res[a] <= Posted
      BY RingAssumption DEF RingInv, TypeOK, Ids, Stored
    <3>2. QED
      BY <1>2, <3>1
  <2>2. QED
    BY <1>1, <2>1 DEF Stored
<1>4. Chain' /\ Counted' /\ WaitOK'
  <2>1. CASE Send(t)
    BY <2>1, SendChain, SendCounts DEF RingInv, Stored
  <2>2. CASE ~Send(t)
    <3>1. UNCHANGED <<corb, CORBWP, CORBRP, cmds>>
      BY <2>2 DEF Exec, SendDead, SendFull, Answered, TimeOut, ring, soft
    <3>2. Chain' /\ \A a : Coming(a)' = Coming(a)
      BY <1>1, <1>2, <3>1, QuietChain DEF RingInv
    <3>3. Counted'
      <4>1. ASSUME NEW a \in Addrs PROVE cmds[a] <= Posted' /\ Cardinality(Coming(a)) <= cmds[a]
        <5>1. cmds[a] \in Int
          BY RingAssumption DEF RingInv, TypeOK
        <5>2. QED
          BY <1>2, <5>1 DEF RingInv, Counted
      <4>2. QED
        BY <3>1, <3>2, <4>1 DEF Counted
    <3>4. \A u \in Threads : pc'[u] # "wait"
      <4>1. pc'[t] # "wait"
        BY <2>2 DEF Exec, SendDead, SendFull, Answered, TimeOut, Return, RingInv, TypeOK
      <4>2. \A u \in Threads : u # t => pc'[u] = pc[u] /\ pc[u] = "idle"
        BY <1>1, ExecMoves DEF RingInv, Calling, TypeOK
      <4>3. QED
        BY <4>1, <4>2
    <3>5. QED
      BY <3>2, <3>3, <3>4 DEF WaitOK
  <2>3. QED
    BY <2>1, <2>2
<1>5. TypeOK' /\ Calling'
  BY <1>4, ExecTypes DEF RingInv
<1>6. ReplyMatches'
  BY MatchesStep DEF RingInv
<1>7. EventOrder'
  BY <1>1, EventsKeep DEF RingInv, Unsolicited, UnreadLen, UnreadAt
<1>8. QED
  BY <1>3, <1>4, <1>5, <1>6, <1>7 DEF RingInv

\* The hardware takes a step: verbs move on or are lost.
LEMMA HardwareStep ==
  ASSUME RingInv, Hardware
  PROVE  RingInv'
<1>1. UNCHANGED <<rp, cmds, res, pc, verb, issued, result, link>>
  BY DEF Hardware, Fetch, Answer, Lose, Unsolicit, PowerDown, ring, answer, soft, calls, budget
<1>2. TypeOK'
  BY HardwareTypes DEF RingInv
<1>3. Calling' /\ ReplyMatches' /\ Posted' = Posted /\ Stored'
  BY <1>1 DEF Calling, ReplyMatches, Posted, Stored, RingInv
<1>4. Chain' /\ (\A a \in Addrs : Coming(a)' \subseteq Coming(a)) /\ EventOrder'
  <2>1. CASE Fetch
    <3>1. Chain' /\ (\A a \in Addrs : Coming(a)' \subseteq Coming(a))
      BY <1>3, <2>1, FetchChain, FetchComing DEF RingInv
    <3>2. EventOrder'
      BY <2>1, EventsKeep DEF RingInv, Fetch, soft, budget, Unsolicited, UnreadLen, UnreadAt
    <3>3. QED
      BY <3>1, <3>2
  <2>2. CASE Answer
    BY <1>3, <2>2, AnswerChain, AnswerComing, AnswerEvents DEF RingInv
  <2>3. CASE Lose
    <3>1. Chain' /\ (\A a \in Addrs : Coming(a)' \subseteq Coming(a))
      BY <1>3, <2>3, LoseChain, LoseComing DEF RingInv
    <3>2. EventOrder'
      BY <2>3, EventsKeep DEF RingInv, Lose, soft, Unsolicited, UnreadLen, UnreadAt
    <3>3. QED
      BY <3>1, <3>2
  <2>4. CASE Unsolicit
    BY <1>3, <2>4, UnsolicitChain, UnsolicitComing, UnsolicitEvents DEF RingInv
  <2>5. CASE PowerDown
    <3>1. UNCHANGED <<corb, CORBWP, CORBRP, flight, rirb, RIRBWP, rp, res, events, unsols>>
      BY <2>5 DEF PowerDown, ring, answer, soft
    <3>2. Posted \in Int /\ Posted <= Posted
      BY PostedType DEF RingInv
    <3>3. Chain' /\ \A a : Coming(a)' = Coming(a)
      BY <1>3, <3>1, <3>2, QuietChain DEF RingInv
    <3>4. EventOrder'
      BY <3>1, EventsKeep DEF RingInv, Unsolicited, UnreadLen, UnreadAt
    <3>5. QED
      BY <3>3, <3>4
  <2>6. QED
    BY <2>1, <2>2, <2>3, <2>4, <2>5 DEF Hardware
<1>5. Counted' /\ WaitOK'
  BY <1>1, <1>4, ComingShrinks DEF RingInv
<1>6. QED
  BY <1>2, <1>3, <1>4, <1>5 DEF RingInv

\* The handler runs.
LEMMA UpdateStep ==
  ASSUME RingInv, UpdateRirb
  PROVE  RingInv'
<1>1. UNCHANGED <<pc, verb, issued, result, link>> /\ Posted' = Posted
  BY DEF UpdateRirb, calls, ring, Posted
<1>2. Posted \in Int /\ Posted <= issued
  BY PostedType DEF RingInv
<1>3. TypeOK' /\ Chain' /\ Counted' /\ WaitOK' /\ EventOrder'
  BY <1>2, UpdateTypes, UpdateChain, UpdateCounts, UpdateEvents DEF RingInv
<1>4. Calling' /\ ReplyMatches'
  BY <1>1 DEF Calling, ReplyMatches, RingInv
<1>5. Stored'
  <2>1. ASSUME NEW a \in Addrs PROVE res'[a] <= Posted
    BY <1>2, UpdateStores DEF RingInv, Stored, Chain, Bounded
  <2>2. QED
    BY <1>1, <2>1 DEF Stored
<1>6. QED
  BY <1>3, <1>4, <1>5 DEF RingInv

\* The controller is reset.
LEMMA InitCmdIoStep ==
  ASSUME RingInv, InitCmdIo
  PROVE  RingInv'
<1>1. UNCHANGED <<pc, verb, issued, result, link, res>> /\ Posted' = Posted
  BY DEF InitCmdIo, calls, Posted
<1>2. TypeOK' /\ Chain' /\ Counted' /\ WaitOK' /\ EventOrder'
  BY InitCmdIoTypes, InitCmdIoEmpties DEF RingInv
<1>3. Calling' /\ ReplyMatches' /\ Stored'
  BY <1>1 DEF Calling, ReplyMatches, Stored, RingInv
<1>4. QED
  BY <1>2, <1>3 DEF RingInv

\* Nothing happens.
LEMMA StutterStep ==
  ASSUME RingInv, UNCHANGED vars
  PROVE  RingInv'
<1>1. UNCHANGED <<corb, CORBWP, CORBRP, flight, rirb, RIRBWP, rp, res, cmds, gone, link, pc, verb, issued, result, events, unsols>>
  BY DEF vars, ring, answer, soft, calls, budget
<1>2. TypeOK' /\ Calling' /\ ReplyMatches' /\ Stored' /\ Posted' = Posted
  BY <1>1 DEF TypeOK, Calling, ReplyMatches, Stored, Posted, RingInv
<1>3. Posted \in Int /\ Posted <= Posted
  BY PostedType DEF RingInv
<1>4. Chain' /\ \A a : Coming(a)' = Coming(a)
  BY <1>1, <1>2, <1>3, QuietChain DEF RingInv
<1>5. Counted' /\ WaitOK'
  BY <1>1, <1>2, <1>4 DEF Counted, WaitOK, RingInv
<1>6. EventOrder'
  BY <1>1, EventsKeep DEF RingInv, Unsolicited, UnreadLen, UnreadAt
<1>7. QED
  BY <1>2, <1>4, <1>5, <1>6 DEF RingInv

\* Every state of the channel satisfies the invariant: the numbers of the verbs
\* still to be answered move through the CORB, the codec and the RIRB in their
\* order, and snd_hdac_bus_update_rirb's count covers them.
THEOREM RingInvariant == Spec => []RingInv
<1>1. Init => RingInv
  BY RingInvInit
<1>2. RingInv /\ [Next]_vars => RingInv'
  BY BeginStep, ExecStep, UpdateStep, HardwareStep, InitCmdIoStep, StutterStep DEF Next
<1>3. QED
  BY <1>1, <1>2, PTL DEF Spec

\* The variables of the verb channel have their types: pointers stay in the
\* rings, and rirb.cmds neither wraps below zero nor counts more than was issued.
THEOREM RingTypes == Spec => []TypeOK
<1>1. RingInv => TypeOK
  BY DEF RingInv
<1>2. QED
  BY <1>1, RingInvariant, PTL

\* A read that succeeds returns the response to that very verb, whatever was
\* late, lost, unsolicited or reset meanwhile (snd_hdac_bus_get_response_rirb).
THEOREM RepliesMatch == Spec => []ReplyMatches
<1>1. RingInv => ReplyMatches
  BY DEF RingInv
<1>2. QED
  BY <1>1, RingInvariant, PTL

\* Unsolicited responses are queued at most once and in their order, through
\* wraps, overruns and resets of the RIRB.
THEOREM EventsAreInOrder == Spec => []EventsInOrder
<1>1. RingInv => EventsInOrder
  BY DEF RingInv, EventOrder
<1>2. QED
  BY <1>1, RingInvariant, PTL

\* As many verbs are posted and fetched as they have numbers.
LEMMA PostedCount ==
  ASSUME TypeOK, Chain, NEW a
  PROVE  /\ Cardinality(PostedTo(a)) \in Nat /\ Cardinality(PostedTo(a)) <= Cardinality(IdsPosted(a))
         /\ Cardinality(FetchedFor(a)) \in Nat /\ Cardinality(FetchedFor(a)) <= Cardinality(IdsFetched(a))
<1> DEFINE f == [i \in PostedTo(a) |-> PostedAt(i).id]
           g == [i \in FetchedFor(a) |-> flight[i].id]
<1>1. PostedTo(a) \subseteq 1..PostedLen /\ FetchedFor(a) \subseteq 1..Len(flight)
  BY DEF PostedTo, FetchedFor, TypeOK
<1>2. ASSUME NEW i \in PostedTo(a), NEW j \in PostedTo(a), f[i] = f[j] PROVE i = j
  <2>1. i \in 1..PostedLen /\ j \in 1..PostedLen /\ PostedAt(i).id = PostedAt(j).id
    BY <1>1, <1>2
  <2>2. ~(i < j) /\ ~(j < i)
    BY <2>1, ViewIds DEF Chain, Increasing
  <2>3. QED
    BY <2>1, <2>2
<1>3. ASSUME NEW i \in FetchedFor(a), NEW j \in FetchedFor(a), g[i] = g[j] PROVE i = j
  <2>1. i \in 1..Len(flight) /\ j \in 1..Len(flight) /\ flight[i].id = flight[j].id
    BY <1>1, <1>3
  <2>2. ~(i < j) /\ ~(j < i)
    BY <2>1, ViewIds DEF Chain, Increasing
  <2>3. QED
    BY <2>1, <2>2
<1>4. f \in Injection(PostedTo(a), IdsPosted(a))
  <2>1. \A i \in PostedTo(a) : f[i] \in IdsPosted(a)
    BY <1>1, ViewIds DEF IdsPosted
  <2>2. QED
    BY <1>2, <2>1 DEF Injection, IsInjective
<1>5. g \in Injection(FetchedFor(a), IdsFetched(a))
  <2>1. \A i \in FetchedFor(a) : g[i] \in IdsFetched(a)
    BY <1>1, ViewIds DEF IdsFetched
  <2>2. QED
    BY <1>3, <2>1 DEF Injection, IsInjective
<1> HIDE DEF f, g
<1>6. IsFiniteSet(IdsPosted(a)) /\ IsFiniteSet(IdsFetched(a))
  BY ComingFinite
<1>7. QED
  BY <1>4, <1>5, <1>6, FS_Injection, FS_CardinalityType

\* rirb.cmds never promises less than what is still to come, so no response is
\* "spurious" and the count does not reach zero early.
THEOREM NoneIsSpurious == Spec => []NoneSpurious
<1>1. RingInv => NoneSpurious
  <2> SUFFICES ASSUME RingInv, NEW a \in Addrs PROVE StillToCome(a) <= cmds[a]
    BY DEF NoneSpurious
  <2>1. /\ TypeOK /\ Chain /\ Posted \in Int /\ Posted <= issued
        /\ Cardinality(Coming(a)) <= cmds[a] /\ cmds[a] \in Int
    BY PostedType, RingAssumption DEF RingInv, Counted, TypeOK
  <2>2. /\ Cardinality(PostedTo(a)) \in Nat /\ Cardinality(PostedTo(a)) <= Cardinality(IdsPosted(a))
        /\ Cardinality(FetchedFor(a)) \in Nat /\ Cardinality(FetchedFor(a)) <= Cardinality(IdsFetched(a))
        /\ Cardinality(RepliesOf(a)) \in Nat /\ Cardinality(RepliesOf(a)) <= Cardinality(IdsUnread(a))
    BY <2>1, PostedCount, UnreadCount
  <2>3. Cardinality(Coming(a)) =
          Cardinality(IdsPosted(a)) + Cardinality(IdsFetched(a)) + Cardinality(IdsUnread(a))
    BY <2>1, IdsApart
  <2>4. QED
    BY <2>1, <2>2, <2>3, ComingFinite DEF StillToCome
<1>2. QED
  BY <1>1, RingInvariant, PTL

-----------------------------------------------------------------------------
(* The channel implements VerbService.                                     *)

\* Who is in a call.
Busy == {t \in Threads : pc[t] # "idle"}

\* A step of a call is a return of the service, or no step of it.
LEMMA ExecImplements ==
  ASSUME RingInv, NEW t \in Threads, Exec(t)
  PROVE  Abstract!Return(t) \/ UNCHANGED Abstract!vars
<1>1. /\ pc[t] # "idle" /\ issued' = issued
      /\ \E v \in {"idle", "send", "wait", "drain"} : pc' = [pc EXCEPT ![t] = v]
  BY ExecMoves DEF RingInv
<1>2. pc \in [Threads -> {"idle", "send", "wait", "drain"}]
  BY DEF RingInv, TypeOK
<1>3. CASE result' = result /\ pc'[t] # "idle"
  <2>1. Busy' = Busy
    BY <1>1, <1>2, <1>3 DEF Busy
  <2>2. QED
    BY <1>1, <1>3, <2>1 DEF Abstract!vars, Busy
<1>4. ASSUME pc'[t] = "idle", NEW failed \in BOOLEAN, Return(t, failed),
             verb[t].read /\ ~failed => res[verb[t].addr] = issued
      PROVE  Abstract!Return(t)
  <2>1. t \in Busy /\ Busy' = Busy \ {t}
    BY <1>1, <1>2, <1>4 DEF Busy
  <2>2. /\ result' = [result EXCEPT ![t] =
              [id |-> issued, err |-> failed, read |-> verb[t].read,
               val |-> IF verb[t].read /\ ~failed THEN res[verb[t].addr] ELSE 0]]
        /\ verb[t].read \in BOOLEAN
    BY <1>1, <1>4, ReturnLeaves DEF RingInv
  <2>3. (IF verb[t].read /\ ~failed THEN res[verb[t].addr] ELSE 0) =
        (IF verb[t].read /\ ~failed THEN issued ELSE 0)
    BY <1>4
  <2>4. \E read \in BOOLEAN, err \in BOOLEAN :
          result' = [result EXCEPT ![t] =
                       [id |-> issued, err |-> err, read |-> read,
                        val |-> IF read /\ ~err THEN issued ELSE 0]]
    <3> DEFINE P(read, err) ==
                 result' = [result EXCEPT ![t] =
                              [id |-> issued, err |-> err, read |-> read,
                               val |-> IF read /\ ~err THEN issued ELSE 0]]
    <3>1. P(verb[t].read, failed)
      BY <2>2, <2>3
    <3> HIDE DEF P
    <3>2. \E read \in BOOLEAN, err \in BOOLEAN : P(read, err)
      BY <2>2, <3>1, Zenon
    <3>3. QED
      BY <3>2 DEF P
  <2>5. QED
    BY <1>1, <2>1, <2>4 DEF Abstract!Return, Busy
<1>5. QED
  BY <1>3, <1>4, ReturnMatches DEF RingInv

\* The steps between calls are none of the service.
LEMMA OthersImplement ==
  ASSUME RingInv, UpdateRirb \/ Hardware \/ InitCmdIo \/ UNCHANGED vars
  PROVE  UNCHANGED Abstract!vars
<1>1. UNCHANGED <<pc, issued, result>>
  BY DEF UpdateRirb, Hardware, Fetch, Answer, Lose, Unsolicit, PowerDown, InitCmdIo, vars, calls
<1>2. QED
  BY <1>1 DEF Abstract!vars

\* Every behaviour of the channel is one of VerbService, its fairness apart: one
\* verb runs at a time and every call that ends does so as the service promises.
THEOREM ImplementsService == Spec => Abstract!Safety
<1>1. Init => Abstract!Init
  BY DEF Init, Abstract!Init, None, Abstract!None
<1>2. RingInv /\ [Next]_vars => [Abstract!Next]_(Abstract!vars)
  <2> SUFFICES ASSUME RingInv, [Next]_vars PROVE [Abstract!Next]_(Abstract!vars)
    OBVIOUS
  <2>1. ASSUME NEW t \in Threads, Begin(t) PROVE Abstract!Call(t)
    <3>1. /\ \A u \in Threads : pc[u] = "idle"
          /\ pc' = [pc EXCEPT ![t] = "send"] /\ pc \in [Threads -> {"idle", "send", "wait", "drain"}]
          /\ issued < link.verbs /\ issued' = issued + 1 /\ result' = result
      BY <2>1 DEF Begin, RingInv, TypeOK
    <3>2. Busy = {} /\ Busy' = {t}
      BY <3>1 DEF Busy
    <3>3. issued < MaxVerbs
      BY <3>1, PostedType DEF RingInv
    <3>4. QED
      BY <3>1, <3>2, <3>3 DEF Abstract!Call, Busy
  <2>2. QED
    BY <2>1, ExecImplements, OthersImplement DEF Next, Abstract!Next
<1>3. QED
  BY <1>1, <1>2, RingInvariant, PTL DEF Spec, Abstract!Safety

=============================================================================
