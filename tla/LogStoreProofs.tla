--------------------------- MODULE LogStoreProofs ---------------------------
(***************************************************************************)
(* Theorems about the buffer of a log tab (LogBuffer), for every set of    *)
(* kinds and every capacity, and about what the tab shows of its own       *)
(* (LogView).  Both give up entries as LogEviction says.                   *)
(***************************************************************************)
EXTENDS LogBuffer, LogView, FiniteSetTheorems, FunctionTheorems,
        WellFoundedInduction, TLAPS

-----------------------------------------------------------------------------
(* Numbers, recursions and ranks.                                          *)

\* Some number of any set of them is the smallest.
LEMMA Smallest ==
    ASSUME NEW T \in SUBSET Nat, T # {}
    PROVE  \E x \in T : \A y \in T : x <= y
<1>. DEFINE R == OpToRel(<, Nat)
<1>1. \A x, y \in Nat : x < y => <<x, y>> \in R
  BY DEF OpToRel
<1>2. IsWellFoundedOn(R, Nat)
  BY NatLessThanWellFounded
<1>. HIDE DEF R
<1>3. PICK x \in T : \A y \in T : ~(<<y, x>> \in R)
  BY <1>2, WFMin
<1>4. \A y \in T : ~(y < x)
  BY <1>1, <1>3
<1>. QED  BY <1>4

\* What is built in n steps out of a first value exists.
LEMMA Steps ==
    ASSUME NEW S, NEW base \in S, NEW n \in Nat, NEW step \in [1 .. n -> [S -> S]]
    PROVE  \E f \in [0 .. n -> S] :
              f[0] = base /\ \A i \in 1 .. n : f[i] = step[i][f[i - 1]]
<1>. DEFINE Solves(f, k) == f[0] = base /\ \A i \in 1 .. k : f[i] = step[i][f[i - 1]]
            T == {k \in 0 .. n : ~\E f \in [0 .. k -> S] : Solves(f, k)}
<1>1. SUFFICES ASSUME T # {} PROVE FALSE
  <2>1. T = {} => \E f \in [0 .. n -> S] : Solves(f, n)
    OBVIOUS
  <2>. QED  BY <2>1
<1>2. PICK x \in T : \A y \in T : x <= y
  <2>1. T \in SUBSET Nat
    OBVIOUS
  <2>. HIDE DEF T
  <2>. QED  BY <1>1, <2>1, Smallest
<1>3. x # 0
  <2>. DEFINE f == [i \in 0 .. 0 |-> base]
  <2>1. f \in [0 .. 0 -> S] /\ Solves(f, 0)
    OBVIOUS
  <2>. QED  BY <2>1
<1>4. PICK f \in [0 .. x - 1 -> S] : Solves(f, x - 1)
  <2>1. x - 1 \in 0 .. n /\ ~(x <= x - 1)
    BY <1>3
  <2>. QED  BY <1>2, <2>1
<1>. DEFINE g == [i \in 0 .. x |-> IF i = x THEN step[x][f[x - 1]] ELSE f[i]]
<1>5. x \in 1 .. n /\ x - 1 \in 0 .. x - 1
  BY <1>3
<1>6. step[x][f[x - 1]] \in S
  <2>1. step[x] \in [S -> S] /\ f[x - 1] \in S
    BY <1>4, <1>5
  <2>. QED  BY <2>1
<1>7. g \in [0 .. x -> S]
  BY <1>4, <1>5, <1>6
<1>8. g[0] = base
  BY <1>3, <1>4, <1>5
<1>9. ASSUME NEW i \in 1 .. x PROVE g[i] = step[i][g[i - 1]]
  <2>1. g[i - 1] = f[i - 1]
    BY <1>5
  <2>2. CASE i = x
    BY <1>5, <2>1, <2>2
  <2>3. CASE i # x
    <3>1. i \in 1 .. x - 1 /\ g[i] = f[i]
      BY <1>5, <2>3
    <3>. QED  BY <1>4, <2>1, <3>1
  <2>. QED  BY <2>2, <2>3
<1>10. Solves(g, x)
  BY <1>8, <1>9
<1>. HIDE DEF g, Solves
<1>11. x \notin T
  BY <1>7, <1>10
<1>. QED  BY <1>11

-----------------------------------------------------------------------------
(* Eviction.                                                               *)

\* The target and the allowance above it are positive numbers.
LEMMA CapacityType ==
    ASSUME NEW f
    PROVE  /\ Target(f) \in Nat \ {0}
           /\ MaxBufferedSize(f) \in Nat
           /\ Target(f) < MaxBufferedSize(f)
<1>1. Target(f) \in Nat \ {0}
  BY EvictionAssumption DEF Target
<1>2. (Target(f) * 20) \div 100 \in Int
  BY <1>1
<1>3. OverflowAllowance(f) \in Nat \ {0}
  BY <1>2 DEF OverflowAllowance
<1>. QED  BY <1>1, <1>3 DEF MaxBufferedSize

\* Evicting from a finite set leaves it within the bound.
LEMMA OverflowBounds ==
    ASSUME NEW es, IsFiniteSet(es), NEW f, NEW vs \in SUBSET es,
           AreOverflow(vs, es, f)
    PROVE  /\ IsFiniteSet(es \ vs)
           /\ Cardinality(es \ vs) <= MaxBufferedSize(f)
           /\ Cardinality(es \ vs) <= Cardinality(es)
<1>1. /\ IsFiniteSet(vs) /\ Cardinality(vs) \in Nat
      /\ IsFiniteSet(es \ vs) /\ Cardinality(es \ vs) \in Nat
      /\ Cardinality(es) \in Nat
  BY FS_Subset, FS_CardinalityType
<1>2. Cardinality(vs \cup (es \ vs)) =
        Cardinality(vs) + Cardinality(es \ vs) - Cardinality(vs \cap (es \ vs))
  BY <1>1, FS_Union
<1>3. vs \cup (es \ vs) = es /\ vs \cap (es \ vs) = {}
  OBVIOUS
<1>4. Cardinality(es \ vs) = Cardinality(es) - Cardinality(vs)
  <2>1. Cardinality(es) = Cardinality(vs) + Cardinality(es \ vs) - Cardinality({})
    BY <1>2, <1>3, Zenon
  <2>2. Cardinality({}) = 0
    BY FS_EmptySet
  <2>. QED  BY <1>1, <2>1, <2>2
<1>5. CASE Cardinality(es) <= MaxBufferedSize(f)
  <2>1. vs = {}
    BY <1>5 DEF AreOverflow
  <2>. QED  BY <1>5, <1>1, <1>4, <2>1, FS_EmptySet
<1>6. CASE ~(Cardinality(es) <= MaxBufferedSize(f))
  <2>1. Cardinality(vs) = IF Cardinality(es) > Target(f)
                          THEN Cardinality(es) - Target(f) ELSE 0
    BY <1>6 DEF AreOverflow, AreVictims
  <2>2. Cardinality(es \ vs) = Target(f)
    BY <1>1, <1>4, <1>6, <2>1, CapacityType
  <2>. QED  BY <1>1, <1>6, <2>2, CapacityType
<1>. QED  BY <1>5, <1>6

\* Entries as a buffer holds them.
Queue(es) ==
    /\ IsFiniteSet(es)
    /\ \A e \in es : e.id \in Nat /\ e.matches \in BOOLEAN
    /\ \A d, e \in es : d.id = e.id => d = e

\* _evictOne takes the entry that goes before all the others.
LEMMA EvictsFirst ==
    ASSUME NEW es, Queue(es), es # {}, NEW f
    PROVE  /\ EvictOne(es, f) \in es
           /\ \A e \in es : e # EvictOne(es, f) => GoesFirst(EvictOne(es, f), e, f)
<1>. DEFINE rejected == {e \in es : ~e.matches}
            pool == IF f # NoFilter /\ rejected # {} THEN rejected ELSE es
            ids == {e.id : e \in pool}
            one == EvictOne(es, f)
<1>1. pool # {} /\ pool \subseteq es
  OBVIOUS
<1>2. ids \in SUBSET Nat /\ ids # {}
  BY <1>1 DEF Queue
<1>3. PICK m \in ids : \A i \in ids : m <= i
  <2>. HIDE DEF ids
  <2>. QED  BY <1>2, Smallest
<1>4. \E d \in pool : \A e \in pool : d.id <= e.id
  BY <1>3
<1>5. one \in pool /\ \A e \in pool : one.id <= e.id
  <2>1. one = CHOOSE d \in pool : \A e \in pool : d.id <= e.id
    BY DEF EvictOne
  <2>. HIDE DEF one, pool
  <2>. QED  BY <1>4, <2>1
<1>6. one \in es
  BY <1>1, <1>5
<1>7. ASSUME NEW e \in es, e # one
      PROVE  GoesFirst(one, e, f)
  <2>. HIDE DEF one
  <2>1. one.id # e.id /\ one.id \in Nat /\ e.id \in Nat
    BY <1>6, <1>7 DEF Queue
  <2>2. e \in pool => one.id < e.id
    BY <1>5, <2>1
  <2>3. CASE f # NoFilter /\ rejected # {}
    <3>1. one \in rejected
      BY <1>5, <2>3
    <3>2. CASE e \in rejected
      <4>1. one.matches = FALSE /\ e.matches = FALSE /\ e \in pool
        BY <1>6, <2>3, <3>1, <3>2 DEF Queue
      <4>. QED  BY <2>2, <4>1 DEF GoesFirst
    <3>3. CASE e \notin rejected
      <4>1. one.matches = FALSE /\ e.matches = TRUE
        BY <1>6, <3>1, <3>3 DEF Queue
      <4>. QED  BY <2>3, <4>1 DEF GoesFirst
    <3>. QED  BY <3>2, <3>3
  <2>4. CASE f = NoFilter
    BY <2>2, <2>4 DEF GoesFirst
  <2>5. CASE rejected = {}
    <3>1. one.matches = e.matches
      BY <1>6, <2>5 DEF Queue
    <3>. QED  BY <2>2, <2>5, <3>1 DEF GoesFirst
  <2>. QED  BY <2>3, <2>4, <2>5
<1>. QED  BY <1>6, <1>7

\* Each turn of the loop takes one entry more, and those taken go before those
\* that are left.
LEMMA LoopTakes ==
    ASSUME NEW es, Queue(es), NEW f, NEW k \in 0 .. Cardinality(es)
    PROVE  /\ EvictLoop(es, f)[k] \in SUBSET es
           /\ Cardinality(EvictLoop(es, f)[k]) = Cardinality(es) - k
           /\ \A d \in es \ EvictLoop(es, f)[k], e \in EvictLoop(es, f)[k] :
                 GoesFirst(d, e, f)
<1>. DEFINE N == Cardinality(es)
            turn(g) == [i \in 0 .. N |-> IF i = 0 THEN es
                            ELSE g[i - 1] \ {EvictOne(g[i - 1], f)}]
            g == CHOOSE g : g = turn(g)
<1>1. N \in Nat /\ IsFiniteSet(es)
  BY FS_CardinalityType DEF Queue
<1>2. \E h : h = turn(h)
  <2>. DEFINE step == [i \in 1 .. N |-> [s \in SUBSET es |-> s \ {EvictOne(s, f)}]]
  <2>1. step \in [1 .. N -> [SUBSET es -> SUBSET es]]
    OBVIOUS
  <2>2. PICK S : S = SUBSET es
    OBVIOUS
  <2>3. es \in S /\ step \in [1 .. N -> [S -> S]]
    BY <2>1, <2>2
  <2>. HIDE DEF step, N
  <2>4. PICK h \in [0 .. N -> S] :
          h[0] = es /\ \A i \in 1 .. N : h[i] = step[i][h[i - 1]]
    BY <1>1, <2>3, Steps
  <2>5. ASSUME NEW i \in 0 .. N
        PROVE  h[i] = turn(h)[i]
    <3>1. CASE i = 0
      BY <2>4, <3>1
    <3>2. CASE i # 0
      <4>1. i \in 1 .. N /\ i - 1 \in 0 .. N
        BY <1>1, <3>2
      <4>2. h[i - 1] \in SUBSET es
        BY <2>2, <2>4, <4>1
      <4>3. step[i][h[i - 1]] = h[i - 1] \ {EvictOne(h[i - 1], f)}
        BY <4>1, <4>2 DEF step
      <4>. QED  BY <2>4, <3>2, <4>1, <4>3
    <3>. QED  BY <3>1, <3>2
  <2>6. h = turn(h)
    BY <2>4, <2>5
  <2>. QED  BY <2>6
<1>3. g = turn(g)
  BY <1>2
<1>4. EvictLoop(es, f) = g
  BY DEF EvictLoop
<1>. HIDE DEF g, N
<1>5. g[0] = es /\ \A i \in 1 .. N : g[i] = g[i - 1] \ {EvictOne(g[i - 1], f)}
  <2>1. \A i \in 0 .. N : turn(g)[i] = IF i = 0 THEN es
                                ELSE g[i - 1] \ {EvictOne(g[i - 1], f)}
    OBVIOUS
  <2>2. \A i \in 1 .. N : i # 0 /\ i \in 0 .. N
    BY <1>1
  <2>3. 0 \in 0 .. N
    BY <1>1
  <2>. HIDE DEF turn
  <2>. QED  BY <1>3, <2>1, <2>2, <2>3
<1>. DEFINE Good(i) == /\ g[i] \in SUBSET es
                       /\ Cardinality(g[i]) = N - i
                       /\ \A d \in es \ g[i], e \in g[i] : GoesFirst(d, e, f)
            D == {i \in 0 .. N : ~Good(i)}
<1>6. Good(0)
  BY <1>1, <1>5 DEF N
<1>7. ASSUME NEW i \in 1 .. N, Good(i - 1)
      PROVE  Good(i)
  <2>. DEFINE es1 == g[i - 1]
              one == EvictOne(es1, f)
  <2>1. es1 \in SUBSET es /\ Queue(es1) /\ IsFiniteSet(es1)
    <3>1. es1 \in SUBSET es
      BY <1>7
    <3>2. IsFiniteSet(es1)
      BY <1>1, <3>1, FS_Subset
    <3>. QED  BY <3>1, <3>2 DEF Queue
  <2>2. Cardinality(es1) = N - (i - 1) /\ i \in Nat /\ N - (i - 1) # 0
    BY <1>1, <1>7
  <2>3. es1 # {}
    BY <2>2, FS_EmptySet
  <2>4. one \in es1 /\ \A e \in es1 : e # one => GoesFirst(one, e, f)
    <3>. HIDE DEF es1
    <3>. QED  BY <2>1, <2>3, EvictsFirst
  <2>5. g[i] = es1 \ {one}
    BY <1>5
  <2>6. Cardinality(es1 \ {one}) = N - (i - 1) - 1
    <3>. HIDE DEF es1, one
    <3>. QED  BY <2>1, <2>2, <2>4, FS_RemoveElement
  <2>7. Cardinality(g[i]) = N - i
    BY <1>1, <2>2, <2>5, <2>6
  <2>8. \A d \in es \ g[i], e \in g[i] : GoesFirst(d, e, f)
    BY <1>7, <2>4, <2>5
  <2>. QED  BY <2>1, <2>5, <2>7, <2>8
<1>8. D = {}
  <2>. SUFFICES ASSUME D # {} PROVE FALSE
    OBVIOUS
  <2>1. D \in SUBSET Nat
    BY <1>1
  <2>. HIDE DEF Good
  <2>2. PICK x \in D : \A y \in D : x <= y
    <3>. HIDE DEF D
    <3>. QED  BY <2>1, Smallest
  <2>3. x # 0 /\ x \in 0 .. N /\ ~Good(x)
    BY <1>6, <2>2
  <2>4. x \in 1 .. N /\ x - 1 \in 0 .. N /\ ~(x <= x - 1)
    BY <1>1, <2>3
  <2>5. Good(x - 1)
    BY <2>2, <2>4
  <2>. QED  BY <1>7, <2>3, <2>4, <2>5
<1>9. Good(k)
  <2>. HIDE DEF Good
  <2>. QED  BY <1>8 DEF N
<1>. QED  BY <1>4, <1>9 DEF N

\* Two entries do not go before each other, so there is one choice of victims.
LEMMA OneChoice ==
    ASSUME NEW es, Queue(es), NEW f, NEW n,
           NEW vs \in SUBSET es, AreVictims(vs, es, n, f),
           NEW ws \in SUBSET es, AreVictims(ws, es, n, f)
    PROVE  vs = ws
<1>1. ASSUME NEW d \in es, NEW e \in es, GoesFirst(d, e, f), GoesFirst(e, d, f)
      PROVE  FALSE
  <2>1. d.id \in Nat /\ e.id \in Nat /\ d.matches \in BOOLEAN /\ e.matches \in BOOLEAN
    BY DEF Queue
  <2>2. CASE f # NoFilter /\ d.matches # e.matches
    BY <1>1, <2>1, <2>2, Zenon DEF GoesFirst
  <2>3. CASE ~(f # NoFilter /\ d.matches # e.matches)
    <3>1. d.id < e.id
      BY <1>1, <2>3, Zenon DEF GoesFirst
    <3>2. e.id < d.id
      BY <1>1, <2>3, Zenon DEF GoesFirst
    <3>. QED  BY <2>1, <3>1, <3>2
  <2>. QED  BY <2>2, <2>3
<1>2. Cardinality(vs) = Cardinality(ws) /\ IsFiniteSet(vs) /\ IsFiniteSet(ws)
  BY FS_Subset DEF AreVictims, Queue
<1>3. CASE vs \subseteq ws \/ ws \subseteq vs
  BY <1>2, <1>3, FS_Subset
<1>4. CASE ~(vs \subseteq ws) /\ ~(ws \subseteq vs)
  <2>1. PICK d \in vs : d \notin ws
    BY <1>4
  <2>2. PICK e \in ws : e \notin vs
    BY <1>4
  <2>3. GoesFirst(d, e, f) /\ GoesFirst(e, d, f)
    BY <2>1, <2>2 DEF AreVictims
  <2>. QED  BY <1>1, <2>3
<1>. QED  BY <1>3, <1>4

\* The victims down to n are what the loop takes.
LEMMA LoopVictims ==
    ASSUME NEW es, Queue(es), NEW f, NEW n \in 0 .. Cardinality(es)
    PROVE  LET left == EvictLoop(es, f)[Cardinality(es) - n]
           IN  /\ es \ left \in SUBSET es
               /\ AreVictims(es \ left, es, n, f)
               /\ \A vs \in SUBSET es : AreVictims(vs, es, n, f) => vs = es \ left
<1>. DEFINE N == Cardinality(es)
            left == EvictLoop(es, f)[N - n]
<1>1. N \in Nat /\ IsFiniteSet(es) /\ n \in Nat /\ n <= N /\ N - n \in 0 .. N
  BY FS_CardinalityType DEF Queue
<1>2. /\ left \in SUBSET es /\ Cardinality(left) = N - (N - n)
      /\ \A d \in es \ left, e \in left : GoesFirst(d, e, f)
  BY <1>1, LoopTakes
<1>. HIDE DEF left
<1>3. Cardinality(es \ left) = N - n
  <2>1. es \cap left = left
    BY <1>2
  <2>2. Cardinality(es \ left) = N - Cardinality(es \cap left)
    BY <1>1, FS_Difference
  <2>3. Cardinality(es \cap left) = Cardinality(left)
    BY <2>1, Zenon
  <2>. HIDE DEF N
  <2>. QED  BY <1>1, <1>2, <2>2, <2>3
<1>4. es \ (es \ left) = left
  BY <1>2
<1>5. AreVictims(es \ left, es, n, f)
  <2>1. N - n = IF N > n THEN N - n ELSE 0
    BY <1>1
  <2>. QED  BY <1>2, <1>3, <1>4, <2>1 DEF AreVictims
<1>6. ASSUME NEW vs \in SUBSET es, AreVictims(vs, es, n, f)
      PROVE  vs = es \ left
  BY <1>5, <1>6, OneChoice
<1>. QED  BY <1>5, <1>6 DEF left

LEMMA VictimsExist ==
    ASSUME NEW es, Queue(es), NEW f, NEW n \in 0 .. Cardinality(es)
    PROVE  \E vs \in SUBSET es : AreVictims(vs, es, n, f)
<1>. DEFINE vs == es \ EvictLoop(es, f)[Cardinality(es) - n]
<1>1. vs \in SUBSET es /\ AreVictims(vs, es, n, f)
  BY LoopVictims, Zenon
<1>. QED  BY <1>1, Zenon

-----------------------------------------------------------------------------
(* LogBuffer.                                                              *)

\* Re-flagging keeps the ids and adds no entry.
LEMMA ReflaggedType ==
    ASSUME BufferInv, NEW f
    PROVE  /\ Reflagged(entries, f) \subseteq BufferEntry
           /\ IsFiniteSet(Reflagged(entries, f))
           /\ Cardinality(Reflagged(entries, f)) <= Cardinality(entries)
           /\ \A e \in Reflagged(entries, f) :
                 e.matches = Matches(f, e.kind) /\ e.id <= appended
           /\ \A d, e \in Reflagged(entries, f) : d.id = e.id => d = e
<1>. DEFINE Flag(e) == [e EXCEPT !.matches = Matches(f, e.kind)]
            T == Reflagged(entries, f)
            g == [e \in entries |-> Flag(e)]
<1>1. /\ entries \subseteq BufferEntry /\ IsFiniteSet(entries)
      /\ \A e \in entries : e.id <= appended
      /\ \A d, e \in entries : d.id = e.id => d = e
  BY DEF BufferInv, BufferTypeOK, IdsAreAppends
<1>2. T = {Flag(e) : e \in entries}
  BY DEF Reflagged
<1>3. g \in Surjection(entries, T)
  BY <1>2, Zenon DEF Surjection
<1>4. IsFiniteSet(T) /\ Cardinality(T) <= Cardinality(entries)
  BY <1>1, <1>3, FS_Surjection
<1>5. ASSUME NEW e \in entries
      PROVE  /\ Flag(e) \in BufferEntry /\ Flag(e).id = e.id /\ Flag(e).kind = e.kind
             /\ Flag(e).matches = Matches(f, e.kind)
  <2>1. Matches(f, e.kind) \in BOOLEAN
    BY DEF Matches
  <2>. QED  BY <1>1, <2>1 DEF BufferEntry
<1>6. \A x \in T : /\ x \in BufferEntry /\ x.matches = Matches(f, x.kind)
                   /\ x.id <= appended
  <2>. SUFFICES ASSUME NEW x \in T
                PROVE  /\ x \in BufferEntry /\ x.matches = Matches(f, x.kind)
                       /\ x.id <= appended
    OBVIOUS
  <2>1. PICK e \in entries : x = Flag(e)
    BY <1>2
  <2>2. Flag(e).id <= appended
    BY <1>1, <1>5
  <2>. QED  BY <1>5, <2>1, <2>2
<1>7. \A x, y \in T : x.id = y.id => x = y
  <2>. SUFFICES ASSUME NEW x \in T, NEW y \in T, x.id = y.id
                PROVE  x = y
    OBVIOUS
  <2>1. PICK d \in entries : x = Flag(d)
    BY <1>2
  <2>2. PICK e \in entries : y = Flag(e)
    BY <1>2
  <2>3. d.id = e.id
    BY <1>5, <2>1, <2>2
  <2>4. d = e
    BY <1>1, <2>3
  <2>. QED  BY <2>1, <2>2, <2>4
<1>. QED  BY <1>4, <1>6, <1>7

LEMMA InitInv == BufferInit => BufferInv /\ SizeIsBounded
<1>. SUFFICES ASSUME BufferInit PROVE BufferInv /\ SizeIsBounded
  OBVIOUS
<1>1. IsFiniteSet(entries) /\ Cardinality(entries) = 0
  BY FS_EmptySet DEF BufferInit
<1>2. BufferInv
  BY <1>1, LogBufferAssumption DEF BufferInit, BufferInv, BufferTypeOK, FlagsAreCurrent, IdsAreAppends
<1>3. SizeIsBounded
  BY <1>1, CapacityType DEF SizeIsBounded
<1>. QED  BY <1>2, <1>3

LEMMA SetFilterInv ==
    ASSUME BufferInv, NEW f \in {NoFilter} \cup SUBSET Kinds, SetFilter(f)
    PROVE  (BufferInv /\ SizeIsBounded)'
<1>. DEFINE es == Reflagged(entries, f)
<1>1. PICK vs \in SUBSET es :
        AreOverflow(vs, es, f) /\ entries' = es \ vs /\ evicted' = vs
  BY DEF SetFilter
<1>2. activeFilter' = f /\ appended' = appended
  BY DEF SetFilter
<1>3. /\ es \subseteq BufferEntry /\ IsFiniteSet(es)
      /\ \A e \in es : e.matches = Matches(f, e.kind) /\ e.id <= appended
      /\ \A d, e \in es : d.id = e.id => d = e
  BY ReflaggedType
<1>. HIDE DEF es
<1>4. IsFiniteSet(es \ vs) /\ Cardinality(es \ vs) <= MaxBufferedSize(f)
  BY <1>1, <1>3, OverflowBounds
<1>5. BufferTypeOK'
  BY <1>1, <1>2, <1>3, <1>4 DEF BufferInv, BufferTypeOK
<1>6. FlagsAreCurrent' /\ IdsAreAppends'
  BY <1>1, <1>2, <1>3 DEF FlagsAreCurrent, IdsAreAppends
<1>7. SizeIsBounded'
  BY <1>1, <1>2, <1>4 DEF SizeIsBounded, MaxBufferedSize, Target, OverflowAllowance
<1>. QED  BY <1>5, <1>6, <1>7 DEF BufferInv

LEMMA AppendInv ==
    ASSUME BufferInv, NEW kind \in Kinds, AppendLog(kind)
    PROVE  (BufferInv /\ SizeIsBounded)'
<1>. DEFINE new == [id |-> appended + 1, kind |-> kind,
                    matches |-> Matches(activeFilter, kind)]
            es == entries \cup {new}
<1>1. PICK vs \in SUBSET es :
        AreOverflow(vs, es, activeFilter) /\ entries' = es \ vs /\ evicted' = vs
  BY DEF AppendLog
<1>2. /\ activeFilter' = activeFilter /\ appended' = appended + 1
      /\ appended \in 0 .. MaxAppends /\ appended < MaxAppends
  BY DEF AppendLog, BufferInv, BufferTypeOK
<1>3. new \in BufferEntry /\ new.matches = Matches(activeFilter, new.kind)
      /\ new.id = appended + 1
  <2>1. Matches(activeFilter, kind) \in BOOLEAN
    BY DEF Matches
  <2>. QED  BY <1>2, <2>1, LogBufferAssumption DEF BufferEntry
<1>4. es \subseteq BufferEntry /\ IsFiniteSet(es)
  BY <1>3, FS_AddElement DEF BufferInv, BufferTypeOK
<1>5. \A e \in es : e.matches = Matches(activeFilter, e.kind) /\ e.id <= appended + 1
  <2>1. \A e \in entries : e.id \in Int
    BY DEF BufferInv, BufferTypeOK, BufferEntry
  <2>. QED  BY <1>2, <1>3, <2>1 DEF BufferInv, FlagsAreCurrent, IdsAreAppends
<1>6. \A d, e \in es : d.id = e.id => d = e
  <2>1. \A e \in entries : e.id \in Int /\ e.id <= appended
    BY DEF BufferInv, BufferTypeOK, BufferEntry, IdsAreAppends
  <2>2. \A e \in entries : e.id # new.id
    BY <1>2, <1>3, <2>1
  <2>. QED  BY <2>2 DEF BufferInv, IdsAreAppends
<1>. HIDE DEF es
<1>7. IsFiniteSet(es \ vs) /\ Cardinality(es \ vs) <= MaxBufferedSize(activeFilter)
  BY <1>1, <1>4, OverflowBounds
<1>8. BufferTypeOK'
  BY <1>1, <1>2, <1>4, <1>7, LogBufferAssumption DEF BufferInv, BufferTypeOK
<1>9. FlagsAreCurrent' /\ IdsAreAppends'
  BY <1>1, <1>2, <1>5, <1>6 DEF FlagsAreCurrent, IdsAreAppends
<1>10. SizeIsBounded'
  BY <1>1, <1>2, <1>7 DEF SizeIsBounded, MaxBufferedSize, Target, OverflowAllowance
<1>. QED  BY <1>8, <1>9, <1>10 DEF BufferInv

\* Trimming and clearing only remove entries.
LEMMA RemoveInv ==
    ASSUME BufferInv, SizeIsBounded, TrimToCapacity \/ Clear
    PROVE  (BufferInv /\ SizeIsBounded)'
<1>1. /\ entries' \in SUBSET entries /\ evicted' \subseteq BufferEntry
      /\ activeFilter' = activeFilter /\ appended' = appended
  BY DEF TrimToCapacity, Clear, BufferInv, BufferTypeOK
<1>2. IsFiniteSet(entries') /\ Cardinality(entries') <= Cardinality(entries)
  BY <1>1, FS_Subset DEF BufferInv, BufferTypeOK
<1>3. BufferInv'
  BY <1>1, <1>2 DEF BufferInv, BufferTypeOK, FlagsAreCurrent, IdsAreAppends
<1>4. Cardinality(entries') \in Nat /\ Cardinality(entries) \in Nat
  BY <1>2, FS_CardinalityType DEF BufferInv, BufferTypeOK
<1>5. Cardinality(entries') <= MaxBufferedSize(activeFilter)
  BY <1>2, <1>4, CapacityType DEF SizeIsBounded
<1>6. SizeIsBounded'
  BY <1>1, <1>5 DEF SizeIsBounded, MaxBufferedSize, Target, OverflowAllowance
<1>. QED  BY <1>3, <1>6

LEMMA StepInv ==
    BufferInv /\ SizeIsBounded /\ [BufferNext]_bufferVars => (BufferInv /\ SizeIsBounded)'
<1>. SUFFICES ASSUME BufferInv, SizeIsBounded, [BufferNext]_bufferVars
              PROVE  (BufferInv /\ SizeIsBounded)'
  OBVIOUS
<1>1. CASE \E f \in {NoFilter} \cup SUBSET Kinds : SetFilter(f)
  BY <1>1, SetFilterInv
<1>2. CASE \E kind \in Kinds : AppendLog(kind)
  BY <1>2, AppendInv
<1>3. CASE TrimToCapacity \/ Clear
  BY <1>3, RemoveInv
<1>4. CASE UNCHANGED bufferVars
  BY <1>4 DEF bufferVars, BufferInv, BufferTypeOK, FlagsAreCurrent, IdsAreAppends,
              SizeIsBounded, MaxBufferedSize, Target, OverflowAllowance
<1>. QED  BY <1>1, <1>2, <1>3, <1>4 DEF BufferNext

\* Every reachable buffer is well formed and its flags are current.
THEOREM BufferCorrect == BufferSpec => []BufferInv
<1>. QED  BY InitInv, StepInv, PTL DEF BufferSpec

\* No sequence of appends and filter changes takes the buffer above
\* maxBufferedSize.
THEOREM SizeTheorem == BufferSpec => []SizeIsBounded
<1>. QED  BY InitInv, StepInv, PTL DEF BufferSpec

\* Replacing a filter by another one never evicts.
THEOREM ReflaggingTheorem == BufferSpec => ReflaggingKeepsAll
<1>1. ASSUME BufferInv, SizeIsBounded, NEW f \in SUBSET Kinds,
             activeFilter # NoFilter, SetFilter(f)
      PROVE  evicted' = {}
  <2>. DEFINE es == Reflagged(entries, f)
  <2>1. PICK vs \in SUBSET es : AreOverflow(vs, es, f) /\ evicted' = vs
    BY <1>1 DEF SetFilter
  <2>2. /\ IsFiniteSet(es) /\ Cardinality(es) <= Cardinality(entries)
        /\ IsFiniteSet(entries)
    BY <1>1, ReflaggedType DEF BufferInv, BufferTypeOK
  <2>3. MaxBufferedSize(f) = MaxBufferedSize(activeFilter)
    BY <1>1, LogBufferAssumption DEF MaxBufferedSize, OverflowAllowance, Target
  <2>4. Cardinality(es) <= MaxBufferedSize(f)
    BY <1>1, <2>2, <2>3, FS_CardinalityType, CapacityType DEF SizeIsBounded
  <2>. QED  BY <2>1, <2>4 DEF AreOverflow
<1>2. BufferInv /\ SizeIsBounded /\ [BufferNext]_bufferVars
        => [\A f \in SUBSET Kinds :
              activeFilter # NoFilter /\ SetFilter(f) => evicted' = {}]_bufferVars
  BY <1>1
<1>. QED  BY <1>2, InitInv, StepInv, PTL DEF BufferSpec, ReflaggingKeepsAll

-----------------------------------------------------------------------------
\* Of any reachable buffer, down to any size, the loop of _evictUntilSize
\* removes the entries that AreVictims characterises, and these alone.
THEOREM LoopTakesTheVictims == BufferSpec => []VictimsAreTheLoops
<1>1. BufferInv => VictimsAreTheLoops
  <2>. SUFFICES ASSUME BufferInv, NEW n \in 0 .. Cardinality(entries)
                PROVE  {vs \in SUBSET entries : AreVictims(vs, entries, n, activeFilter)}
                         = {entries \ EvictLoop(entries, activeFilter)[Cardinality(entries) - n]}
    BY DEF VictimsAreTheLoops
  <2>1. Queue(entries)
    <3>1. \A e \in entries : e.id \in Nat /\ e.matches \in BOOLEAN
      BY DEF BufferInv, BufferTypeOK, BufferEntry
    <3>. QED  BY <3>1 DEF Queue, BufferInv, BufferTypeOK, IdsAreAppends
  <2>2. PICK es : es = entries
    OBVIOUS
  <2>3. LET left == EvictLoop(es, activeFilter)[Cardinality(es) - n]
        IN  /\ es \ left \in SUBSET es
            /\ AreVictims(es \ left, es, n, activeFilter)
            /\ \A vs \in SUBSET es : AreVictims(vs, es, n, activeFilter) => vs = es \ left
    BY <2>1, <2>2, LoopVictims
  <2>. QED  BY <2>2, <2>3
<1>. QED  BY <1>1, InitInv, StepInv, PTL DEF BufferSpec

\* If victims are taken by GoesFirst and one of them matches, what stays matches.
LEMMA OverflowGoesFirst ==
    ASSUME NEW es \in SUBSET BufferEntry, NEW f, f # NoFilter, NEW n,
           NEW vs \in SUBSET es, AreVictims(vs, es, n, f),
           NEW e \in vs, e.matches, NEW d \in es \ vs
    PROVE  d.matches
<1>1. GoesFirst(e, d, f)
  BY DEF AreVictims
<1>2. e.matches \in BOOLEAN /\ d.matches \in BOOLEAN
  BY DEF BufferEntry
<1>. QED  BY <1>1, <1>2, Zenon DEF GoesFirst

\* While a filter is active, an append, a change of the filter or of the limit
\* gives up an entry it accepts only if no entry it rejects is left.
THEOREM MatchingEntriesGoLast == BufferSpec => MatchingGoLast
<1>. DEFINE Last == activeFilter' # NoFilter /\ (\E e \in evicted' : e.matches)
                      => \A e \in entries' : e.matches
<1>1. ASSUME NEW es \in SUBSET BufferEntry, NEW f, f # NoFilter,
             NEW vs \in SUBSET es, AreOverflow(vs, es, f)
      PROVE  (\E e \in vs : e.matches) => \A e \in es \ vs : e.matches
  <2>1. CASE vs = {}
    BY <2>1
  <2>2. CASE AreVictims(vs, es, Target(f), f)
    BY <1>1, <2>2, OverflowGoesFirst
  <2>. QED  BY <1>1, <2>1, <2>2 DEF AreOverflow
<1>2. ASSUME BufferInv, NEW f \in {NoFilter} \cup SUBSET Kinds, SetFilter(f)
      PROVE  Last
  <2>1. PICK es : es = Reflagged(entries, f)
    OBVIOUS
  <2>2. es \in SUBSET BufferEntry
    BY <1>2, <2>1, ReflaggedType
  <2>3. PICK vs \in SUBSET es :
          AreOverflow(vs, es, f) /\ entries' = es \ vs /\ evicted' = vs
    BY <1>2, <2>1 DEF SetFilter
  <2>4. activeFilter' = f
    BY <1>2 DEF SetFilter
  <2>. QED  BY <1>1, <2>2, <2>3, <2>4
<1>3. ASSUME BufferInv, NEW kind \in Kinds, AppendLog(kind)
      PROVE  Last
  <2>1. PICK es : es = entries \cup {[id |-> appended + 1, kind |-> kind,
                                      matches |-> Matches(activeFilter, kind)]}
    OBVIOUS
  <2>2. /\ appended \in 0 .. MaxAppends /\ appended < MaxAppends
        /\ entries \subseteq BufferEntry
    BY <1>3 DEF AppendLog, BufferInv, BufferTypeOK
  <2>3. Matches(activeFilter, kind) \in BOOLEAN
    BY DEF Matches
  <2>4. es \in SUBSET BufferEntry
    BY <1>3, <2>1, <2>2, <2>3, LogBufferAssumption DEF BufferEntry
  <2>5. PICK vs \in SUBSET es :
          AreOverflow(vs, es, activeFilter) /\ entries' = es \ vs /\ evicted' = vs
    BY <1>3, <2>1 DEF AppendLog
  <2>6. activeFilter' = activeFilter
    BY <1>3 DEF AppendLog
  <2>. QED  BY <1>1, <2>4, <2>5, <2>6
<1>4. ASSUME BufferInv, TrimToCapacity
      PROVE  Last
  <2>1. PICK vs \in SUBSET entries :
          /\ AreVictims(vs, entries, Target(activeFilter), activeFilter)
          /\ entries' = entries \ vs /\ evicted' = vs
    BY <1>4 DEF TrimToCapacity
  <2>2. activeFilter' = activeFilter /\ entries \in SUBSET BufferEntry
    BY <1>4 DEF TrimToCapacity, BufferInv, BufferTypeOK
  <2>. QED  BY <2>1, <2>2, OverflowGoesFirst
<1>5. ASSUME Clear
      PROVE  Last
  BY <1>5 DEF Clear
<1>6. BufferInv /\ [BufferNext]_bufferVars => [Last]_bufferVars
  BY <1>2, <1>3, <1>4, <1>5 DEF BufferNext
<1>. QED  BY <1>6, InitInv, StepInv, PTL DEF BufferSpec, MatchingGoLast
-----------------------------------------------------------------------------
(* LogView: what stays of a buffer, and its rows.                          *)

\* What append and setFilter leave of a queue.
LEMMA SettledIs ==
    ASSUME NEW es, Queue(es), NEW f
    PROVE  /\ Settled(es, f) \in SUBSET es
           /\ Cardinality(Settled(es, f)) <= MaxBufferedSize(f)
           /\ Cardinality(es) <= MaxBufferedSize(f) => Settled(es, f) = es
           /\ es # {} => Settled(es, f) # {}
           /\ \A d \in es \ Settled(es, f), e \in Settled(es, f) : GoesFirst(d, e, f)
<1>. DEFINE vs == CHOOSE ws \in SUBSET es : AreOverflow(ws, es, f)
<1>1. /\ IsFiniteSet(es) /\ Cardinality(es) \in Nat
      /\ Target(f) \in Nat \ {0} /\ MaxBufferedSize(f) \in Nat /\ Target(f) < MaxBufferedSize(f)
  BY FS_CardinalityType, CapacityType DEF Queue
<1>2. Settled(es, f) = es \ vs
  BY DEF Settled
<1>3. CASE Cardinality(es) <= MaxBufferedSize(f)
  <2>1. \E ws \in SUBSET es : AreOverflow(ws, es, f)
    BY <1>3 DEF AreOverflow
  <2>2. vs \in SUBSET es /\ AreOverflow(vs, es, f)
    BY <2>1
  <2>3. vs = {}
    BY <1>3, <2>2 DEF AreOverflow
  <2>. HIDE DEF vs
  <2>4. Settled(es, f) = es
    BY <1>2, <2>3
  <2>. QED  BY <1>3, <2>4
<1>4. CASE ~(Cardinality(es) <= MaxBufferedSize(f))
  <2>1. Target(f) \in 0 .. Cardinality(es)
    BY <1>1, <1>4
  <2>2. \E ws \in SUBSET es : AreVictims(ws, es, Target(f), f)
    BY <2>1, VictimsExist
  <2>3. vs \in SUBSET es /\ AreVictims(vs, es, Target(f), f)
    <3>1. \E ws \in SUBSET es : AreOverflow(ws, es, f)
      BY <1>4, <2>2 DEF AreOverflow
    <3>2. vs \in SUBSET es /\ AreOverflow(vs, es, f)
      BY <3>1
    <3>. QED  BY <1>4, <3>2 DEF AreOverflow
  <2>4. AreOverflow(vs, es, f)
    BY <1>4, <2>3 DEF AreOverflow
  <2>. HIDE DEF vs
  <2>5. Cardinality(es \ vs) <= MaxBufferedSize(f)
    BY <1>1, <2>3, <2>4, OverflowBounds
  <2>6. es \ vs # {}
    <3>1. Cardinality(vs) = Cardinality(es) - Target(f)
      BY <1>1, <1>4, <2>3 DEF AreVictims
    <3>2. vs # es
      BY <1>1, <3>1
    <3>. QED  BY <2>3, <3>2
  <2>7. \A d \in es \ (es \ vs), e \in es \ vs : GoesFirst(d, e, f)
    BY <2>3 DEF AreVictims
  <2>. QED  BY <1>2, <1>4, <2>3, <2>5, <2>6, <2>7
<1>. QED  BY <1>3, <1>4

\* What a change of the limit leaves.
LEMMA TrimmedIs ==
    ASSUME NEW es, Queue(es), NEW f
    PROVE  /\ Trimmed(es, f) \in SUBSET es
           /\ Cardinality(Trimmed(es, f)) <= MaxBufferedSize(f)
           /\ \A d \in es \ Trimmed(es, f), e \in Trimmed(es, f) : GoesFirst(d, e, f)
<1>. DEFINE vs == CHOOSE ws \in SUBSET es : AreVictims(ws, es, Target(f), f)
<1>1. /\ IsFiniteSet(es) /\ Cardinality(es) \in Nat
      /\ Target(f) \in Nat \ {0} /\ MaxBufferedSize(f) \in Nat /\ Target(f) < MaxBufferedSize(f)
  BY FS_CardinalityType, CapacityType DEF Queue
<1>2. Trimmed(es, f) = es \ vs
  BY DEF Trimmed
<1>3. \E ws \in SUBSET es : AreVictims(ws, es, Target(f), f)
  <2>1. CASE Cardinality(es) <= Target(f)
    <3>1. AreVictims({}, es, Target(f), f)
      BY <1>1, <2>1, FS_EmptySet DEF AreVictims
    <3>. QED  BY <3>1
  <2>2. CASE ~(Cardinality(es) <= Target(f))
    <3>1. Target(f) \in 0 .. Cardinality(es)
      BY <1>1, <2>2
    <3>. QED  BY <3>1, VictimsExist
  <2>. QED  BY <2>1, <2>2
<1>4. vs \in SUBSET es /\ AreVictims(vs, es, Target(f), f)
  BY <1>3
<1>. HIDE DEF vs
<1>5. Cardinality(es \ vs) <= MaxBufferedSize(f)
  <2>1. CASE Cardinality(es) <= Target(f)
    <3>1. Cardinality(es \ vs) <= Cardinality(es) /\ Cardinality(es \ vs) \in Nat
      BY <1>1, FS_Subset, FS_CardinalityType
    <3>. QED  BY <1>1, <2>1, <3>1
  <2>2. CASE ~(Cardinality(es) <= Target(f))
    <3>1. CASE Cardinality(es) <= MaxBufferedSize(f)
      <4>1. Cardinality(es \ vs) <= Cardinality(es) /\ Cardinality(es \ vs) \in Nat
        BY <1>1, FS_Subset, FS_CardinalityType
      <4>. QED  BY <1>1, <3>1, <4>1
    <3>2. CASE ~(Cardinality(es) <= MaxBufferedSize(f))
      <4>1. AreOverflow(vs, es, f)
        BY <1>4, <3>2 DEF AreOverflow
      <4>. QED  BY <1>1, <1>4, <4>1, OverflowBounds
    <3>. QED  BY <3>1, <3>2
  <2>. QED  BY <2>1, <2>2
<1>6. \A d \in es \ (es \ vs), e \in es \ vs : GoesFirst(d, e, f)
  BY <1>4 DEF AreVictims
<1>. QED  BY <1>2, <1>4, <1>5, <1>6

\* The same line, whatever its flag.
Same(d, e) == d.id = e.id /\ d.pid = e.pid /\ d.own = e.own

\* The ids of the entries of es that f accepts.
Hits(f, es, known) == {e.id : e \in {d \in es : Accepts(f, d, known)}}

FlaggedAll(es, f, known) == {Flagged(e, f, known) : e \in es}

LEMMA SameAccepted ==
    ASSUME NEW f, NEW d, NEW e, Same(d, e), NEW known
    PROVE  Accepts(f, d, known) <=> Accepts(f, e, known)
<1>1. Candidates(d, known) = Candidates(e, known)
  BY DEF Same, Candidates
<1>. QED  BY <1>1, Zenon DEF Accepts

LEMMA FlaggedIs ==
    ASSUME NEW e, NEW f, NEW known
    PROVE  /\ Same(e, Flagged(e, f, known))
           /\ Flagged(e, f, known).matches \in BOOLEAN
           /\ Flagged(e, f, known).matches <=> f # NoFilter /\ Accepts(f, e, known)
           /\ e \in Entry \cup StoredEntry => Flagged(e, f, known) \in StoredEntry
<1>1. (f # NoFilter /\ Accepts(f, e, known)) \in BOOLEAN
  OBVIOUS
<1>2. PICK m \in BOOLEAN : m <=> f # NoFilter /\ Accepts(f, e, known)
  BY <1>1
<1>3. Flagged(e, f, known) = [id |-> e.id, pid |-> e.pid, own |-> e.own, matches |-> m]
  BY <1>2, Zenon DEF Flagged
<1>. QED  BY <1>2, <1>3 DEF Same, Entry, StoredEntry

\* Re-flagging a queue changes nothing else.
LEMMA FlaggedQueue ==
    ASSUME NEW es \in SUBSET StoredEntry, Queue(es), NEW f, NEW known
    PROVE  /\ FlaggedAll(es, f, known) \in SUBSET StoredEntry
           /\ Queue(FlaggedAll(es, f, known))
           /\ Cardinality(FlaggedAll(es, f, known)) = Cardinality(es)
           /\ \A x \in FlaggedAll(es, f, known) :
                 /\ \E e \in es : Same(e, x)
                 /\ x.matches <=> f # NoFilter /\ Accepts(f, x, known)
           /\ \A e \in es : \E x \in FlaggedAll(es, f, known) : Same(e, x)
<1>. DEFINE T == FlaggedAll(es, f, known)
            g == [e \in es |-> Flagged(e, f, known)]
<1>1. \A x \in T : \E e \in es : x = Flagged(e, f, known)
  BY DEF FlaggedAll
<1>2. \A e \in es : /\ Flagged(e, f, known) \in T
                    /\ Same(e, Flagged(e, f, known))
                    /\ Flagged(e, f, known) \in StoredEntry
                    /\ Flagged(e, f, known).matches <=> f # NoFilter /\ Accepts(f, e, known)
  BY FlaggedIs DEF FlaggedAll
<1>3. g \in Injection(es, T) /\ g \in Surjection(es, T)
  <2>1. g \in [es -> T]
    BY <1>2
  <2>2. ASSUME NEW d \in es, NEW e \in es, g[d] = g[e] PROVE d = e
    <3>1. d.id = e.id
      BY <1>2, <2>2 DEF Same
    <3>. QED  BY <3>1 DEF Queue
  <2>3. \A x \in T : \E e \in es : g[e] = x
    BY <1>1
  <2>. HIDE DEF g, T
  <2>. QED  BY <2>1, <2>2, <2>3, Zenon DEF Injection, Surjection, IsInjective
<1>4. IsFiniteSet(T) /\ Cardinality(T) = Cardinality(es)
  <2>. HIDE DEF g, T
  <2>. QED  BY <1>3, FS_Surjection DEF Queue
<1>5. ASSUME NEW x \in T
      PROVE  /\ x \in StoredEntry /\ \E e \in es : Same(e, x)
             /\ x.matches <=> f # NoFilter /\ Accepts(f, x, known)
  <2>1. PICK e \in es : x = Flagged(e, f, known)
    BY <1>1
  <2>2. Accepts(f, x, known) <=> Accepts(f, e, known)
    BY <1>2, <2>1, SameAccepted
  <2>. QED  BY <1>2, <2>1, <2>2
<1>6. Queue(T)
  <2>1. \A x \in T : x.id \in Nat /\ x.matches \in BOOLEAN
    BY <1>5 DEF StoredEntry
  <2>2. ASSUME NEW x \in T, NEW y \in T, x.id = y.id PROVE x = y
    <3>1. PICK d \in es : x = Flagged(d, f, known)
      BY <1>1
    <3>2. PICK e \in es : y = Flagged(e, f, known)
      BY <1>1
    <3>3. d = e
      BY <1>2, <2>2, <3>1, <3>2 DEF Same, Queue
    <3>. QED  BY <3>1, <3>2, <3>3
  <2>. QED  BY <1>4, <2>1, <2>2 DEF Queue
<1>. QED  BY <1>2, <1>4, <1>5, <1>6

\* Queues of the same lines show the same rows.
LEMMA SameHits ==
    ASSUME NEW f, NEW es, NEW T, NEW known,
           \A x \in T : \E e \in es : Same(e, x),
           \A e \in es : \E x \in T : Same(e, x)
    PROVE  Hits(f, T, known) = Hits(f, es, known)
<1>1. ASSUME NEW i \in Hits(f, T, known) PROVE i \in Hits(f, es, known)
  <2>1. PICK x \in T : x.id = i /\ Accepts(f, x, known)
    BY <1>1 DEF Hits
  <2>2. PICK e \in es : Same(e, x)
    OBVIOUS
  <2>3. Accepts(f, e, known) /\ e.id = i
    BY <2>1, <2>2, SameAccepted DEF Same
  <2>. QED  BY <2>3 DEF Hits
<1>2. ASSUME NEW i \in Hits(f, es, known) PROVE i \in Hits(f, T, known)
  <2>1. PICK e \in es : e.id = i /\ Accepts(f, e, known)
    BY <1>2 DEF Hits
  <2>2. PICK x \in T : Same(e, x)
    OBVIOUS
  <2>3. Accepts(f, x, known) /\ x.id = i
    BY <2>1, <2>2, SameAccepted DEF Same
  <2>. QED  BY <2>3 DEF Hits
<1>. QED  BY <1>1, <1>2

\* The k-th row is the one with k rows down to it, and there is one for each k.
LEMMA SortedIs ==
    ASSUME NEW rows \in SUBSET (1 .. MaxArrivals)
    PROVE  /\ Cardinality(rows) \in 0 .. MaxArrivals
           /\ Len(Sorted(rows)) = Cardinality(rows)
           /\ \A k \in 1 .. Cardinality(rows) :
                 Sorted(rows)[k] \in rows /\ Rank(Sorted(rows)[k], rows) = k
           /\ \A i \in rows : /\ Rank(i, rows) \in 1 .. Cardinality(rows)
                              /\ Sorted(rows)[Rank(i, rows)] = i
<1>. DEFINE N == Cardinality(rows)
            upto(i) == {j \in rows : j <= i}
            rank == [i \in rows |-> Rank(i, rows)]
<1>1. MaxArrivals \in Nat
  BY LogViewAssumption
<1>2. IsFiniteSet(rows) /\ N \in Nat /\ N <= MaxArrivals
  <2>1. IsFiniteSet(1 .. MaxArrivals) /\ Cardinality(1 .. MaxArrivals) = MaxArrivals
    BY <1>1, FS_Interval
  <2>. QED  BY <1>1, <2>1, FS_Subset, FS_CardinalityType
<1>3. ASSUME NEW i \in rows
      PROVE  /\ IsFiniteSet(upto(i)) /\ Rank(i, rows) = Cardinality(upto(i))
             /\ Rank(i, rows) \in 1 .. N
  <2>1. IsFiniteSet(upto(i)) /\ Cardinality(upto(i)) <= N /\ Cardinality(upto(i)) \in Nat
    BY <1>2, FS_Subset, FS_CardinalityType
  <2>2. i \in upto(i)
    OBVIOUS
  <2>3. Cardinality(upto(i)) # 0
    <3>. HIDE DEF upto
    <3>. QED  BY <2>1, <2>2, FS_EmptySet
  <2>. QED  BY <1>2, <2>1, <2>3 DEF Rank
<1>4. ASSUME NEW i \in rows, NEW j \in rows, i < j
      PROVE  Rank(i, rows) < Rank(j, rows)
  <2>1. upto(i) \in SUBSET upto(j) /\ j \in upto(j) /\ j \notin upto(i)
    <3>1. i \in 1 .. MaxArrivals /\ j \in 1 .. MaxArrivals
      OBVIOUS
    <3>2. \A k \in rows : k \in 1 .. MaxArrivals
      OBVIOUS
    <3>3. \A k \in rows : k <= i => k <= j
      BY <1>1, <1>4, <3>1, <3>2
    <3>4. j <= j /\ ~(j <= i)
      BY <1>1, <1>4, <3>1
    <3>. QED  BY <3>3, <3>4
  <2>2. Cardinality(upto(i)) <= Cardinality(upto(j)) /\ Cardinality(upto(i)) # Cardinality(upto(j))
    <3>1. IsFiniteSet(upto(j))
      BY <1>3
    <3>. HIDE DEF upto
    <3>. QED  BY <2>1, <3>1, FS_Subset
  <2>. QED  BY <1>2, <1>3, <2>2
<1>5. ASSUME NEW i \in rows, NEW j \in rows, Rank(i, rows) = Rank(j, rows)
      PROVE  i = j
  <2>1. Rank(i, rows) \in Int /\ i \in Int /\ j \in Int
    <3>1. Rank(i, rows) \in 1 .. N
      BY <1>3
    <3>2. i \in 1 .. MaxArrivals /\ j \in 1 .. MaxArrivals
      OBVIOUS
    <3>. HIDE DEF N
    <3>. QED  BY <1>1, <1>2, <3>1, <3>2
  <2>2. ~(Rank(i, rows) < Rank(j, rows)) /\ ~(Rank(j, rows) < Rank(i, rows))
    BY <1>5, <2>1
  <2>3. ~(i < j) /\ ~(j < i)
    BY <1>4, <2>2
  <2>. QED  BY <2>1, <2>3
<1>6. rank \in Injection(rows, 1 .. N)
  <2>1. rank \in [rows -> 1 .. N]
    BY <1>3
  <2>2. \A i, j \in rows : rank[i] = rank[j] => i = j
    BY <1>5
  <2>. HIDE DEF rank, N
  <2>. QED  BY <2>1, <2>2, Zenon DEF Injection, IsInjective
<1>7. rank \in Surjection(rows, 1 .. N)
  <2>1. IsFiniteSet(1 .. N) /\ Cardinality(1 .. N) = N
    BY <1>2, FS_Interval
  <2>. HIDE DEF rank
  <2>. QED  BY <1>6, <2>1, FS_Injection
<1>8. ASSUME NEW k \in 1 .. N
      PROVE  \E i \in rows : Rank(i, rows) = k
  <2>1. \E i \in rows : rank[i] = k
    <3>. HIDE DEF rank, N
    <3>. QED  BY <1>7 DEF Surjection
  <2>. QED  BY <2>1
<1>9. ASSUME NEW k \in 1 .. N
      PROVE  Sorted(rows)[k] \in rows /\ Rank(Sorted(rows)[k], rows) = k
  <2>1. Sorted(rows)[k] = CHOOSE i \in rows : Rank(i, rows) = k
    BY DEF Sorted
  <2>. QED  BY <1>8, <2>1
<1>10. Len(Sorted(rows)) = N
  BY <1>2 DEF Sorted
<1>11. ASSUME NEW i \in rows
       PROVE  Sorted(rows)[Rank(i, rows)] = i
  <2>1. PICK k \in 1 .. N : k = Rank(i, rows)
    BY <1>3
  <2>2. Sorted(rows)[k] \in rows /\ Rank(Sorted(rows)[k], rows) = Rank(i, rows)
    BY <1>9, <2>1
  <2>3. Sorted(rows)[k] = i
    BY <1>5, <2>2
  <2>. QED  BY <2>1, <2>3
<1>. HIDE DEF upto, rank
<1>12. \A i \in rows : Rank(i, rows) \in 1 .. N
  BY <1>3
<1>13. N \in 0 .. MaxArrivals
  BY <1>1, <1>2
<1>. QED  BY <1>9, <1>10, <1>11, <1>12, <1>13

-----------------------------------------------------------------------------
(* LogView: one append after the other.                                    *)

\* The tab while it appends.
Appending ==
    [stored : SUBSET StoredEntry, rows : SUBSET (1 .. MaxArrivals), evicted : BOOLEAN]

\* The newest line, if the filter accepts it, is not given up for another one.
LEMMA NewestStays ==
    ASSUME NEW es, Queue(es), NEW f, NEW e \in es, f = NoFilter \/ e.matches,
           \A d \in es : d # e => d.id < e.id
    PROVE  e \in Settled(es, f)
<1>. SUFFICES ASSUME e \notin Settled(es, f) PROVE FALSE
  OBVIOUS
<1>1. PICK x \in es : x \in Settled(es, f) /\ GoesFirst(e, x, f)
  BY SettledIs
<1>2. x # e /\ x.id < e.id /\ x.id \in Nat /\ e.id \in Nat
  BY <1>1 DEF Queue
<1>3. ~(e.id < x.id)
  BY <1>2
<1>4. e.matches \in BOOLEAN /\ x.matches \in BOOLEAN
  BY DEF Queue
<1>5. f # NoFilter /\ e.matches # x.matches /\ x.matches
  BY <1>1, <1>3, Zenon DEF GoesFirst
<1>. QED  BY <1>4, <1>5

LEMMA HitsType ==
    ASSUME NEW f, NEW known, NEW es \in SUBSET StoredEntry
    PROVE  Hits(f, es, known) \in SUBSET (1 .. MaxArrivals)
BY DEF Hits, StoredEntry

\* One append evicts what goes first, and keeps up the rows.
LEMMA AppendOneIs ==
    ASSUME NEW b \in Appending, Queue(b.stored), NEW e \in Entry, NEW known,
           \A d \in b.stored : d.id < e.id
    PROVE  LET next == AppendOne(b, e, known)
               es == b.stored \cup {Flagged(e, filter, known)}
           IN  /\ next \in Appending /\ Queue(next.stored)
               /\ next.stored \in SUBSET es
               /\ Cardinality(next.stored) <= MaxBufferedSize(filter)
               /\ b.rows = Hits(filter, b.stored, known)
                    => next.rows = Hits(filter, next.stored, known)
               /\ ~next.evicted => ~b.evicted /\ next.stored = es
               /\ \A d \in es \ next.stored, x \in next.stored : GoesFirst(d, x, filter)
<1>. DEFINE new == Flagged(e, filter, known)
            es == b.stored \cup {new}
            left == Settled(es, filter)
            gone == {d.id : d \in es \ left}
            added == {i \in {e.id} : Accepts(filter, e, known)}
            next == AppendOne(b, e, known)
<1>1. /\ b.stored \in SUBSET StoredEntry /\ b.rows \in SUBSET (1 .. MaxArrivals)
      /\ b.evicted \in BOOLEAN
  BY DEF Appending
<1>2. /\ new \in StoredEntry /\ Same(e, new) /\ new.id = e.id
      /\ new.matches <=> filter # NoFilter /\ Accepts(filter, e, known)
  BY FlaggedIs DEF Same
<1>3. e.id \in 1 .. MaxArrivals /\ \A d \in b.stored : d.id \in 1 .. MaxArrivals
  BY <1>1 DEF Entry, StoredEntry
<1>4. next = [stored |-> left, rows |-> (b.rows \ gone) \cup added,
              evicted |-> b.evicted \/ gone # {}]
  BY Zenon DEF AppendOne
<1>. HIDE DEF new, next
<1>5. es \in SUBSET StoredEntry
  BY <1>1, <1>2
<1>6. \A d \in es : d # new => d.id < new.id
  BY <1>2
<1>7. Queue(es)
  <2>1. \A d \in es : d.id \in 1 .. MaxArrivals /\ d.matches \in BOOLEAN
    BY <1>5 DEF StoredEntry
  <2>2. \A d \in es : d.id \in Nat
    BY <2>1, LogViewAssumption
  <2>3. \A d \in es : d # new => d.id # new.id
    BY <1>6, <2>2
  <2>4. IsFiniteSet(es)
    BY FS_AddElement DEF Queue
  <2>5. \A d, x \in es : d.id = x.id => d = x
    BY <2>3 DEF Queue
  <2>. QED  BY <2>1, <2>2, <2>4, <2>5 DEF Queue
<1>8. /\ left \in SUBSET es /\ Cardinality(left) <= MaxBufferedSize(filter)
      /\ \A d \in es \ left, x \in left : GoesFirst(d, x, filter)
  <2>. HIDE DEF es
  <2>. QED  BY <1>7, SettledIs
<1>9. Accepts(filter, new, known) <=> Accepts(filter, e, known)
  BY <1>2, SameAccepted
<1>10. Accepts(filter, new, known) => new \in left
  <2>. SUFFICES ASSUME Accepts(filter, new, known) PROVE new \in left
    OBVIOUS
  <2>1. filter = NoFilter \/ new.matches
    BY <1>2, <1>9
  <2>2. new \in es
    OBVIOUS
  <2>. HIDE DEF es
  <2>. QED  BY <1>6, <1>7, <2>1, <2>2, NewestStays
<1>. HIDE DEF left
<1>11. added = {i \in {new.id} : Accepts(filter, new, known)}
  BY <1>2, <1>9
<1>12. gone \in SUBSET (1 .. MaxArrivals) /\ added \in SUBSET (1 .. MaxArrivals)
  <2>1. \A d \in es : d.id \in 1 .. MaxArrivals
    BY <1>5 DEF StoredEntry
  <2>. QED  BY <1>3, <2>1
<1>13. next \in Appending
  BY <1>1, <1>4, <1>5, <1>8, <1>12 DEF Appending
<1>14. Queue(left)
  <2>1. IsFiniteSet(left)
    BY <1>7, <1>8, FS_Subset DEF Queue
  <2>. QED  BY <1>7, <1>8, <2>1 DEF Queue
<1>15. ASSUME b.rows = Hits(filter, b.stored, known)
       PROVE  (b.rows \ gone) \cup added = Hits(filter, left, known)
  <2>1. ASSUME NEW i \in Hits(filter, left, known)
        PROVE  i \in (b.rows \ gone) \cup added
    <3>1. PICK d \in left : d.id = i /\ Accepts(filter, d, known)
      BY <2>1 DEF Hits
    <3>2. CASE d = new
      BY <1>11, <3>1, <3>2
    <3>3. CASE d # new
      <4>1. d \in b.stored
        BY <1>8, <3>3
      <4>2. i \in b.rows
        BY <1>15, <3>1, <4>1 DEF Hits
      <4>3. i \notin gone
        BY <1>7, <1>8, <3>1 DEF Queue
      <4>. QED  BY <4>2, <4>3
    <3>. QED  BY <3>2, <3>3
  <2>2. ASSUME NEW i \in (b.rows \ gone) \cup added
        PROVE  i \in Hits(filter, left, known)
    <3>1. CASE i \in added
      BY <1>10, <1>11, <3>1 DEF Hits
    <3>2. CASE i \in b.rows \ gone
      <4>1. PICK d \in b.stored : d.id = i /\ Accepts(filter, d, known)
        BY <1>15, <3>2 DEF Hits
      <4>2. d \in left
        BY <3>2, <4>1
      <4>. QED  BY <4>1, <4>2 DEF Hits
    <3>. QED  BY <2>2, <3>1, <3>2
  <2>. QED  BY <2>1, <2>2
<1>16. ASSUME ~(b.evicted \/ gone # {})
       PROVE  ~b.evicted /\ left = es
  BY <1>8, <1>16
<1>17. /\ next.stored = left /\ next.rows = (b.rows \ gone) \cup added
       /\ next.evicted = (b.evicted \/ gone # {})
  BY <1>4
<1>. HIDE DEF gone, added
<1>. QED  BY <1>8, <1>13, <1>14, <1>15, <1>16, <1>17 DEF new, next

\* Lines in the order of their ids, behind those of a queue.
Follow(queue, es) ==
    /\ \A i, j \in 1 .. Len(queue) : i < j => queue[i].id < queue[j].id
    /\ \A i \in 1 .. Len(queue) : \A d \in es : d.id < queue[i].id

\* The lines of a queue as they are stored.
Taken(queue, n, known) == {Flagged(queue[i], filter, known) : i \in 1 .. n}

\* An append, where it makes sense.
Turned(b, e, known, start) ==
    IF AppendOne(b, e, known) \in Appending THEN AppendOne(b, e, known) ELSE start

AreTurns(h, N, queue, known, start) ==
    /\ h \in [0 .. N -> Appending] /\ h[0] = start
    /\ \A i \in 1 .. N : h[i] = Turned(h[i - 1], queue[i], known, start)

LEMMA TurnsExist ==
    ASSUME NEW N \in Nat, NEW queue, NEW known, NEW start, start \in Appending
    PROVE  \E h : AreTurns(h, N, queue, known, start)
<1>1. PICK S : S = Appending
  OBVIOUS
<1>2. start \in S
  BY <1>1
<1>. DEFINE step == [i \in 1 .. N |-> [b \in S |-> Turned(b, queue[i], known, start)]]
<1>3. step \in [1 .. N -> [S -> S]]
  <2>1. \A b, e : Turned(b, e, known, start) \in S
    BY <1>1, Zenon DEF Turned
  <2>. QED  BY <2>1
<1>. HIDE DEF step
<1>4. PICK h \in [0 .. N -> S] :
        h[0] = start /\ \A i \in 1 .. N : h[i] = step[i][h[i - 1]]
  BY <1>2, <1>3, Steps
<1>5. ASSUME NEW i \in 1 .. N
      PROVE  h[i] = Turned(h[i - 1], queue[i], known, start)
  <2>1. h[i - 1] \in S
    BY <1>2, <1>4
  <2>2. step[i][h[i - 1]] = Turned(h[i - 1], queue[i], known, start)
    BY <2>1 DEF step
  <2>. QED  BY <1>4, <2>2
<1>. QED  BY <1>1, <1>4, <1>5 DEF AreTurns

\* After n of them are appended.
LEMMA AfterEachIs ==
    ASSUME NEW queue, queue \in Seq(Entry), NEW known,
           NEW start, start \in Appending, Queue(start.stored), ~start.evicted,
           Cardinality(start.stored) <= MaxBufferedSize(filter),
           Follow(queue, start.stored), NEW n, n \in 0 .. Len(queue)
    PROVE  LET b == AfterEach(queue, start, known)[n]
               es == start.stored \cup Taken(queue, n, known)
           IN  /\ b \in Appending /\ Queue(b.stored)
               /\ b.stored \in SUBSET es
               /\ Cardinality(b.stored) <= MaxBufferedSize(filter)
               /\ start.rows = Hits(filter, start.stored, known)
                    => b.rows = Hits(filter, b.stored, known)
               /\ ~b.evicted => b.stored = es
               /\ \A d \in start.stored \ b.stored, x \in b.stored :
                     x \in start.stored => GoesFirst(d, x, filter)
<1>. DEFINE N == Len(queue)
            turn(g) == [i \in 0 .. N |-> IF i = 0 THEN start
                            ELSE AppendOne(g[i - 1], queue[i], known)]
            g == CHOOSE g : g = turn(g)
            Take(i) == Taken(queue, i, known)
            Good(b, i) ==
               /\ b \in Appending /\ Queue(b.stored)
               /\ b.stored \in SUBSET (start.stored \cup Take(i))
               /\ Cardinality(b.stored) <= MaxBufferedSize(filter)
               /\ start.rows = Hits(filter, start.stored, known)
                    => b.rows = Hits(filter, b.stored, known)
               /\ ~b.evicted => b.stored = start.stored \cup Take(i)
               /\ \A d \in start.stored \ b.stored, x \in b.stored :
                     x \in start.stored => GoesFirst(d, x, filter)
<1>1. N \in Nat
  OBVIOUS
<1>2. Take(0) = {}
  BY DEF Taken
<1>3. ASSUME NEW i \in 1 .. N
      PROVE  Take(i) = Take(i - 1) \cup {Flagged(queue[i], filter, known)}
  <2>1. 1 .. i = (1 .. i - 1) \cup {i}
    BY <1>1
  <2>. QED  BY <2>1 DEF Taken
<1>4. ASSUME NEW i \in 1 .. N, NEW b, Good(b, i - 1)
      PROVE  Good(AppendOne(b, queue[i], known), i)
  <2>. DEFINE next == AppendOne(b, queue[i], known)
              es == b.stored \cup {Flagged(queue[i], filter, known)}
  <2>1. queue[i] \in Entry
    OBVIOUS
  <2>2. b \in Appending /\ Queue(b.stored)
    BY <1>4
  <2>3. ASSUME NEW d \in b.stored PROVE d.id < queue[i].id
    <3>1. CASE d \in start.stored
      BY <3>1 DEF Follow
    <3>2. CASE d \in Take(i - 1)
      <4>1. PICK j \in 1 .. i - 1 : d = Flagged(queue[j], filter, known)
        BY <3>2 DEF Taken
      <4>2. d.id = queue[j].id
        BY <4>1, FlaggedIs DEF Same
      <4>3. j \in 1 .. N /\ j < i
        BY <1>1, <4>1
      <4>. QED  BY <4>2, <4>3 DEF Follow
    <3>. QED  BY <1>4, <3>1, <3>2
  <2>4. /\ next \in Appending /\ Queue(next.stored)
        /\ next.stored \in SUBSET es
        /\ Cardinality(next.stored) <= MaxBufferedSize(filter)
        /\ b.rows = Hits(filter, b.stored, known)
             => next.rows = Hits(filter, next.stored, known)
        /\ ~next.evicted => ~b.evicted /\ next.stored = es
        /\ \A d \in es \ next.stored, x \in next.stored : GoesFirst(d, x, filter)
    BY <2>1, <2>2, <2>3, AppendOneIs
  <2>. HIDE DEF next, Take
  <2>5. next.stored \in SUBSET (start.stored \cup Take(i))
    BY <1>3, <1>4, <2>4
  <2>6. ~next.evicted => next.stored = start.stored \cup Take(i)
    BY <1>3, <1>4, <2>4
  <2>7. ASSUME NEW d \in start.stored \ next.stored, NEW x \in next.stored, x \in start.stored
        PROVE  GoesFirst(d, x, filter)
    <3>1. x \in b.stored
      <4>1. x.id < queue[i].id /\ x.id \in Nat
        BY <2>4, <2>7 DEF Follow, Queue
      <4>2. Flagged(queue[i], filter, known).id = queue[i].id
        BY FlaggedIs DEF Same
      <4>3. x # Flagged(queue[i], filter, known)
        BY <4>1, <4>2
      <4>. QED  BY <2>4, <4>3
    <3>2. CASE d \in b.stored
      BY <2>4, <2>7, <3>2
    <3>3. CASE d \notin b.stored
      BY <1>4, <2>7, <3>1, <3>3
    <3>. QED  BY <3>2, <3>3
  <2>. QED  BY <1>4, <2>4, <2>5, <2>6, <2>7 DEF next
<1>5. Good(start, 0)
  BY <1>2
<1>6. \E h : h = turn(h)
  <2>1. PICK h : AreTurns(h, N, queue, known, start)
    BY <1>1, TurnsExist
  <2>. HIDE DEF N, Good
  <2>. DEFINE D == {i \in 0 .. N : ~(Good(h[i], i) /\ h[i] = turn(h)[i])}
  <2>3. D = {}
    <3>. SUFFICES ASSUME D # {} PROVE FALSE
      OBVIOUS
    <3>1. D \in SUBSET Nat
      BY <1>1
    <3>. HIDE DEF turn
    <3>2. PICK x \in D : \A y \in D : x <= y
      <4>. HIDE DEF D
      <4>. QED  BY <3>1, Smallest
    <3>3. turn(h)[0] = start
      BY <1>1 DEF turn
    <3>4. x # 0
      BY <1>5, <2>1, <3>2, <3>3 DEF AreTurns
    <3>5. x \in 1 .. N /\ x - 1 \in 0 .. N /\ ~(x <= x - 1)
      BY <1>1, <3>2, <3>4
    <3>6. Good(h[x - 1], x - 1)
      BY <3>2, <3>5
    <3>7. Good(AppendOne(h[x - 1], queue[x], known), x)
      BY <1>4, <3>5, <3>6
    <3>8. h[x] = AppendOne(h[x - 1], queue[x], known)
      <4>1. h[x - 1] \in Appending
        BY <2>1, <3>5 DEF AreTurns
      <4>2. AppendOne(h[x - 1], queue[x], known) \in Appending
        BY <3>7 DEF Good
      <4>. QED  BY <2>1, <3>5, <4>2 DEF Turned, AreTurns
    <3>9. turn(h)[x] = AppendOne(h[x - 1], queue[x], known)
      BY <1>1, <3>2, <3>4 DEF turn
    <3>. QED  BY <3>2, <3>7, <3>8, <3>9
  <2>4. \A i \in 0 .. N : h[i] = turn(h)[i]
    BY <2>3
  <2>5. turn(h) = [i \in 0 .. N |-> turn(h)[i]]
    BY DEF turn
  <2>6. h = turn(h)
    <3>. HIDE DEF turn
    <3>. QED  BY <2>1, <2>4, <2>5 DEF AreTurns
  <2>. QED  BY <2>6
<1>7. g = turn(g)
  BY <1>6
<1>8. AfterEach(queue, start, known) = g
  BY DEF AfterEach
<1>. HIDE DEF g, N, Good
<1>9. g[0] = start /\ \A i \in 1 .. N : g[i] = AppendOne(g[i - 1], queue[i], known)
  <2>1. \A i \in 0 .. N : turn(g)[i] = IF i = 0 THEN start
                                ELSE AppendOne(g[i - 1], queue[i], known)
    OBVIOUS
  <2>2. \A i \in 1 .. N : i # 0 /\ i \in 0 .. N
    BY <1>1
  <2>3. 0 \in 0 .. N
    BY <1>1
  <2>. HIDE DEF turn
  <2>. QED  BY <1>7, <2>1, <2>2, <2>3
<1>. DEFINE D == {i \in 0 .. N : ~Good(g[i], i)}
<1>10. D = {}
  <2>. SUFFICES ASSUME D # {} PROVE FALSE
    OBVIOUS
  <2>1. D \in SUBSET Nat
    BY <1>1
  <2>2. PICK x \in D : \A y \in D : x <= y
    <3>. HIDE DEF D
    <3>. QED  BY <2>1, Smallest
  <2>3. x # 0
    BY <1>5, <1>9, <2>2
  <2>4. x \in 1 .. N /\ x - 1 \in 0 .. N /\ ~(x <= x - 1)
    BY <1>1, <2>2, <2>3
  <2>5. Good(g[x - 1], x - 1)
    BY <2>2, <2>4
  <2>6. Good(g[x], x)
    BY <1>4, <1>9, <2>4, <2>5
  <2>. QED  BY <2>2, <2>6
<1>11. Good(g[n], n)
  BY <1>10 DEF N
<1>. QED  BY <1>8, <1>11 DEF Good

-----------------------------------------------------------------------------
(* LogView: the invariant.                                                 *)

\* What the tab has heard of each pid.
Heard == Known(learned, deviceMap)

\* A refresh the tab has yet to hear of bears on its filter.
Bears == \E p \in Pids : IsNew(learned, p, updates[p]) /\ BearsOn(filter, updates[p])

\* Every map says of a pid what it runs, or nothing.
Maps ==
    /\ \A p \in Pids :
          /\ learned[p] \in {NoPackage, process[p]}
          /\ deviceMap[p] \in {NoPackage, process[p]}
          /\ updates[p] \in {NoPackage, deviceMap[p]}
    /\ updates # Nothing => relevance < MaxRelevance

\* The tab has learned what a line of its own, or the device's map, says of
\* the line's pid, or will as soon as it hears of the refresh.
IsHeard(e) ==
    /\ e.id <= arrived
    /\ e.own # NoPackage =>
          e.pid \in Pids /\ e.own = process[e.pid] /\ learned[e.pid] # NoPackage
    /\ e.pid \in Pids /\ deviceMap[e.pid] # NoPackage =>
          learned[e.pid] # NoPackage \/ updates[e.pid] # NoPackage

Lines ==
    /\ Queue(stored) /\ Cardinality(stored) <= MaxBufferedSize(filter)
    /\ \A e \in stored : IsHeard(e)
    /\ \A i \in 1 .. Len(pending) : IsHeard(pending[i])
    /\ Follow(pending, stored)

CacheIsOfFilter ==
    cache # NoCache =>
        cache.signature.terms = filter /\ cache.signature.relevance <= relevance

RowsAreFresh ==
    IsCurrent(cache, relevance) /\ ~Bears => cache.rows = Hits(filter, stored, Heard)

FlagsAreFresh ==
    ~dirty /\ ~Bears =>
        \A e \in stored : e.matches <=> filter # NoFilter /\ Accepts(filter, e, Heard)

\* A row selected is the one picked, as many rows down as then.
PicksAreRight ==
    \A s \in selection :
        /\ s.since <= relevance
        /\ ~Bears /\ s.since = relevance =>
              /\ s.entry \in Hits(filter, stored, Heard)
              /\ Rank(s.entry, Hits(filter, stored, Heard)) = s.row

VInv ==
    /\ TypeOK /\ Maps /\ Lines /\ CacheIsOfFilter
    /\ RowsAreFresh /\ FlagsAreFresh /\ PicksAreRight

-----------------------------------------------------------------------------
(* LogView: what a tab knows.                                              *)

\* Whether an entry is accepted depends on what is known of its own pid.
LEMMA SameKnown ==
    ASSUME NEW f, NEW e, NEW k1, NEW k2, \A p \in Pids : p = e.pid => k1[p] = k2[p]
    PROVE  Accepts(f, e, k1) <=> Accepts(f, e, k2)
<1>1. {k1[p] : p \in Pids \cap {e.pid}} = {k2[p] : p \in Pids \cap {e.pid}}
  OBVIOUS
<1>2. Candidates(e, k1) = Candidates(e, k2)
  BY <1>1, Zenon DEF Candidates
<1>. QED  BY <1>2, Zenon DEF Accepts

\* Learning a package that does not bear on the filter changes nothing it accepts.
LEMMA Indifferent ==
    ASSUME NEW f, NEW e, NEW k1, NEW k2, NEW package, package # NoPackage,
           e.pid \in Pids, k1[e.pid] = NoPackage, k2[e.pid] = package,
           e.own \in {NoPackage, package}, ~BearsOn(f, package)
    PROVE  Accepts(f, e, k1) <=> Accepts(f, e, k2)
<1>1. Candidates(e, k1) = {e.own} \ {NoPackage}
  BY DEF Candidates
<1>2. Candidates(e, k2) = {package}
  BY DEF Candidates
<1>3. CASE e.own = package
  <2>1. Candidates(e, k1) = Candidates(e, k2)
    BY <1>1, <1>2, <1>3
  <2>. QED  BY <2>1, Zenon DEF Accepts
<1>4. CASE e.own = NoPackage
  <2>1. Candidates(e, k1) = {}
    BY <1>1, <1>4
  <2>. QED  BY <1>2, <2>1 DEF Accepts, BearsOn, TermMatches
<1>. QED  BY <1>3, <1>4

LEMMA SameHitsKnown ==
    ASSUME NEW f, NEW es, NEW k1, NEW k2,
           \A e \in es : Accepts(f, e, k1) <=> Accepts(f, e, k2)
    PROVE  Hits(f, es, k1) = Hits(f, es, k2)
BY DEF Hits

\* An entry with a package of its own takes no other from its pid.
LEMMA KnownIs ==
    ASSUME NEW index, NEW device, NEW p \in Pids
    PROVE  Known(index, device)[p] = IF index[p] # NoPackage THEN index[p] ELSE device[p]
BY DEF Known

\* A line teaches the tab what the device's map says of its pid already.
LEMMA LearnKeeps ==
    ASSUME TypeOK, Maps, NEW pid \in Pids
    PROVE  LET index == Learn(learned, pid, deviceMap[pid])
           IN  /\ index \in Mapping
               /\ Known(index, deviceMap) = Heard
               /\ \A p \in Pids :
                    index[p] = IF p = pid /\ deviceMap[pid] # NoPackage
                               THEN process[p] ELSE learned[p]
<1>. DEFINE index == Learn(learned, pid, deviceMap[pid])
<1>1. /\ learned \in Mapping /\ deviceMap \in Mapping
      /\ learned[pid] \in {NoPackage, process[pid]}
      /\ deviceMap[pid] \in {NoPackage, process[pid]} /\ pid # NoPid
  BY LogViewAssumption DEF TypeOK, Maps
<1>2. CASE IsNew(learned, pid, deviceMap[pid])
  <2>1. deviceMap[pid] # NoPackage /\ deviceMap[pid] = process[pid] /\ learned[pid] = NoPackage
    BY <1>1, <1>2 DEF IsNew
  <2>2. index = [learned EXCEPT ![pid] = deviceMap[pid]]
    BY <1>2, Zenon DEF Learn
  <2>3. index \in Mapping /\ \A p \in Pids : index[p] = IF p = pid THEN process[p] ELSE learned[p]
    BY <1>1, <2>1, <2>2 DEF Mapping
  <2>. HIDE DEF index
  <2>4. Known(index, deviceMap) = Heard
    BY <2>1, <2>3 DEF Known, Heard
  <2>. QED  BY <2>1, <2>3, <2>4 DEF index
<1>3. CASE ~IsNew(learned, pid, deviceMap[pid])
  <2>1. index = learned
    BY <1>3, Zenon DEF Learn
  <2>2. deviceMap[pid] # NoPackage => learned[pid] = process[pid]
    BY <1>1, <1>3 DEF IsNew
  <2>. QED  BY <1>1, <2>1, <2>2 DEF Heard
<1>. QED  BY <1>2, <1>3

-----------------------------------------------------------------------------
(* LogView: appending what waits.                                          *)

\* Flags say what f accepts.
Current(es, f, known) ==
    \A e \in es : e.matches <=> f # NoFilter /\ Accepts(f, e, known)

CacheType ==
    [signature : [terms : {NoFilter} \cup Terms, relevance : 0 .. MaxRelevance],
     rows : SUBSET (1 .. MaxArrivals)]

\* Re-flagged under the filter it has, a buffer keeps its entries.
LEMMA SyncedIs ==
    ASSUME TypeOK, Lines, NEW isDirty \in BOOLEAN, NEW known
    PROVE  LET es == SyncedIfDirty(isDirty, known)
           IN  /\ es \in SUBSET StoredEntry /\ Queue(es)
               /\ Cardinality(es) <= MaxBufferedSize(filter)
               /\ \A x \in es : \E e \in stored : Same(e, x)
               /\ \A e \in stored : \E x \in es : Same(e, x)
               /\ isDirty \/ Current(stored, filter, known) => Current(es, filter, known)
<1>1. /\ stored \in SUBSET StoredEntry /\ Queue(stored)
      /\ Cardinality(stored) <= MaxBufferedSize(filter)
  BY DEF TypeOK, Lines
<1>2. CASE ~isDirty
  <2>1. SyncedIfDirty(isDirty, known) = stored
    BY <1>2 DEF SyncedIfDirty
  <2>2. \A e \in stored : Same(e, e)
    BY DEF Same
  <2>. QED  BY <1>1, <1>2, <2>1, <2>2
<1>3. CASE isDirty
  <2>. DEFINE T == FlaggedAll(stored, filter, known)
  <2>1. /\ T \in SUBSET StoredEntry /\ Queue(T) /\ Cardinality(T) = Cardinality(stored)
        /\ \A x \in T : /\ \E e \in stored : Same(e, x)
                        /\ x.matches <=> filter # NoFilter /\ Accepts(filter, x, known)
        /\ \A e \in stored : \E x \in T : Same(e, x)
    BY <1>1, FlaggedQueue
  <2>2. SyncedIfDirty(isDirty, known) = Settled(T, filter)
    BY <1>3, Zenon DEF SyncedIfDirty, Synced, FlaggedAll
  <2>. HIDE DEF T
  <2>3. Settled(T, filter) = T
    BY <1>1, <2>1, SettledIs
  <2>. QED  BY <1>1, <2>1, <2>2, <2>3 DEF Current
<1>. QED  BY <1>2, <1>3

LEMMA AppendAllIs ==
    ASSUME TypeOK, Lines, NEW queue \in Seq(Entry), Follow(queue, stored),
           NEW isDirty \in BOOLEAN, NEW r, NEW known, AppendAll(queue, isDirty, r, known)
    PROVE  /\ stored' \in SUBSET StoredEntry /\ Queue(stored')
           /\ Cardinality(stored') <= MaxBufferedSize(filter)
           /\ \A x \in stored' : \/ \E e \in stored : Same(e, x)
                                 \/ \E i \in 1 .. Len(queue) : Same(queue[i], x)
           /\ isDirty \/ Current(stored, filter, known) => Current(stored', filter, known)
           /\ ~IsCurrent(cache, r) => cache' = cache
           /\ IsCurrent(cache, r) =>
                 /\ cache' \in CacheType /\ cache'.signature = cache.signature
                 /\ cache.rows = Hits(filter, stored, known)
                      => cache'.rows = Hits(filter, stored', known)
           /\ dirty' = FALSE
           /\ \/ selection' = {}
              \/ /\ selection' = selection
                 /\ \A e \in stored : \E x \in stored' : Same(e, x)
           /\ isDirty \/ Current(stored, filter, known) =>
                 \A d, e \in stored :
                    /\ filter # NoFilter /\ Accepts(filter, d, known)
                    /\ d.id \notin {x.id : x \in stored'} /\ e.id \in {x.id : x \in stored'}
                    => Accepts(filter, e, known)
<1>. DEFINE base == SyncedIfDirty(isDirty, known)
            isKept == IsCurrent(cache, r)
            start == [stored |-> base, rows |-> IF isKept THEN cache.rows ELSE {},
                      evicted |-> FALSE]
            end == AfterEach(queue, start, known)[Len(queue)]
            news == Taken(queue, Len(queue), known)
<1>1. /\ stored' = end.stored
      /\ cache' = IF isKept THEN [cache EXCEPT !.rows = end.rows] ELSE cache
      /\ selection' = SelectionAfter(end.evicted)
      /\ dirty' = FALSE
  BY Zenon DEF AppendAll
<1>2. /\ base \in SUBSET StoredEntry /\ Queue(base)
      /\ Cardinality(base) <= MaxBufferedSize(filter)
      /\ \A x \in base : \E e \in stored : Same(e, x)
      /\ \A e \in stored : \E x \in base : Same(e, x)
      /\ isDirty \/ Current(stored, filter, known) => Current(base, filter, known)
  BY SyncedIs
<1>. HIDE DEF base
<1>3. isKept => cache \in CacheType
  BY DEF TypeOK, CacheType, IsCurrent
<1>4. start \in Appending
  BY <1>2, <1>3 DEF Appending, CacheType
<1>5. Follow(queue, base)
  <2>1. ASSUME NEW i \in 1 .. Len(queue), NEW x \in base PROVE x.id < queue[i].id
    <3>1. PICK e \in stored : Same(e, x)
      BY <1>2
    <3>. QED  BY <3>1 DEF Follow, Same
  <2>. QED  BY <2>1 DEF Follow
<1>6. Len(queue) \in 0 .. Len(queue) /\ start.stored = base /\ start.evicted = FALSE
      /\ start.rows = IF isKept THEN cache.rows ELSE {}
  OBVIOUS
<1>. HIDE DEF start
<1>7. /\ end \in Appending /\ Queue(end.stored)
      /\ end.stored \in SUBSET (base \cup news)
      /\ Cardinality(end.stored) <= MaxBufferedSize(filter)
      /\ start.rows = Hits(filter, base, known) => end.rows = Hits(filter, end.stored, known)
      /\ ~end.evicted => end.stored = base \cup news
      /\ \A d \in base \ end.stored, x \in end.stored :
            x \in base => GoesFirst(d, x, filter)
  <2>1. /\ Queue(start.stored) /\ ~start.evicted /\ Follow(queue, start.stored)
        /\ Cardinality(start.stored) <= MaxBufferedSize(filter)
    BY <1>2, <1>5, <1>6
  <2>2. LET b == AfterEach(queue, start, known)[Len(queue)]
            es == start.stored \cup Taken(queue, Len(queue), known)
        IN  /\ b \in Appending /\ Queue(b.stored)
            /\ b.stored \in SUBSET es
            /\ Cardinality(b.stored) <= MaxBufferedSize(filter)
            /\ start.rows = Hits(filter, start.stored, known)
                 => b.rows = Hits(filter, b.stored, known)
            /\ ~b.evicted => b.stored = es
            /\ \A d \in start.stored \ b.stored, x \in b.stored :
                  x \in start.stored => GoesFirst(d, x, filter)
    BY <1>4, <1>6, <2>1, AfterEachIs
  <2>. HIDE DEF end
  <2>. QED  BY <1>6, <2>2 DEF end
<1>. HIDE DEF end
<1>8. ASSUME NEW x \in news
      PROVE  /\ \E i \in 1 .. Len(queue) : Same(queue[i], x)
             /\ x.matches <=> filter # NoFilter /\ Accepts(filter, x, known)
  <2>1. PICK i \in 1 .. Len(queue) : x = Flagged(queue[i], filter, known)
    BY DEF Taken
  <2>2. /\ Same(queue[i], x)
        /\ x.matches <=> filter # NoFilter /\ Accepts(filter, queue[i], known)
    BY <2>1, FlaggedIs
  <2>3. Accepts(filter, x, known) <=> Accepts(filter, queue[i], known)
    BY <2>2, SameAccepted
  <2>. QED  BY <2>2, <2>3
<1>. HIDE DEF news
<1>9. /\ stored' \in SUBSET StoredEntry /\ Queue(stored')
      /\ Cardinality(stored') <= MaxBufferedSize(filter)
  BY <1>1, <1>7 DEF Appending
<1>10. \A x \in stored' : \/ \E e \in stored : Same(e, x)
                          \/ \E i \in 1 .. Len(queue) : Same(queue[i], x)
  BY <1>1, <1>2, <1>7, <1>8
<1>11. isDirty \/ Current(stored, filter, known) => Current(stored', filter, known)
  BY <1>1, <1>2, <1>7, <1>8 DEF Current
<1>12. ~isKept => cache' = cache
  BY <1>1
<1>13. ASSUME isKept
       PROVE  /\ cache' \in CacheType /\ cache'.signature = cache.signature
              /\ cache.rows = Hits(filter, stored, known)
                   => cache'.rows = Hits(filter, stored', known)
  <2>1. cache \in CacheType /\ end.rows \in SUBSET (1 .. MaxArrivals)
    BY <1>3, <1>7, <1>13 DEF Appending
  <2>2. cache' = [cache EXCEPT !.rows = end.rows]
    BY <1>1, <1>13
  <2>3. cache' \in CacheType /\ cache'.signature = cache.signature /\ cache'.rows = end.rows
    BY <2>1, <2>2 DEF CacheType
  <2>4. Hits(filter, base, known) = Hits(filter, stored, known)
    BY <1>2, SameHits
  <2>5. start.rows = cache.rows
    BY <1>6, <1>13
  <2>6. cache.rows = Hits(filter, stored, known) => end.rows = Hits(filter, end.stored, known)
    BY <1>7, <2>4, <2>5
  <2>. QED  BY <1>1, <2>3, <2>6
<1>14. \/ selection' = {}
       \/ /\ selection' = selection
          /\ \A e \in stored : \E x \in stored' : Same(e, x)
  <2>1. CASE end.evicted
    BY <1>1, <2>1 DEF SelectionAfter
  <2>2. CASE ~end.evicted
    BY <1>1, <1>2, <1>7, <2>2 DEF SelectionAfter
  <2>. QED  BY <2>1, <2>2
<1>15. ASSUME isDirty \/ Current(stored, filter, known),
              NEW d \in stored, NEW e \in stored,
              filter # NoFilter, Accepts(filter, d, known),
              d.id \notin {x.id : x \in stored'}, e.id \in {x.id : x \in stored'}
       PROVE  Accepts(filter, e, known)
  <2>1. PICK d1 \in base : Same(d, d1)
    BY <1>2
  <2>2. PICK e1 \in base : Same(e, e1)
    BY <1>2
  <2>3. d1 \notin end.stored
    BY <1>1, <1>15, <2>1 DEF Same
  <2>4. e1 \in end.stored
    <3>1. PICK x \in end.stored : x.id = e.id
      BY <1>1, <1>15
    <3>2. x \notin news
      <4>. SUFFICES ASSUME x \in news PROVE FALSE
        OBVIOUS
      <4>1. PICK i \in 1 .. Len(queue) : Same(queue[i], x)
        BY <1>8
      <4>2. e.id < queue[i].id /\ queue[i].id = e.id
        BY <3>1, <4>1 DEF Follow, Same
      <4>3. e.id \in Nat
        BY DEF Lines, Queue
      <4>. QED  BY <4>2, <4>3
    <3>3. x \in base /\ x.id = e1.id
      BY <1>7, <2>2, <3>1, <3>2 DEF Same
    <3>4. x = e1
      BY <1>2, <3>3 DEF Queue
    <3>. QED  BY <3>1, <3>4
  <2>5. GoesFirst(d1, e1, filter)
    BY <1>7, <2>3, <2>4
  <2>6. Accepts(filter, d1, known) /\ (Accepts(filter, e1, known) => Accepts(filter, e, known))
    BY <1>15, <2>1, <2>2, SameAccepted
  <2>7. d1.matches /\ (e1.matches => Accepts(filter, e1, known))
    BY <1>2, <1>15, <2>6 DEF Current
  <2>8. d1.matches \in BOOLEAN /\ e1.matches \in BOOLEAN
    BY <1>2 DEF Queue
  <2>9. e1.matches
    BY <1>15, <2>5, <2>7, <2>8, Zenon DEF GoesFirst
  <2>. QED  BY <2>6, <2>7, <2>9
<1>. QED  BY <1>1, <1>9, <1>10, <1>11, <1>12, <1>13, <1>14, <1>15


-----------------------------------------------------------------------------
(* LogView: the steps keep the invariant.                                  *)

\* What a step may leave of the tab when it knows no less of its lines: what
\* was current stays so, or is known not to be.
Agrees ==
    /\ filter' = filter /\ relevance' = relevance
    /\ ~Bears' => /\ ~Bears
                  /\ \A e \in stored : Accepts(filter, e, Heard') <=> Accepts(filter, e, Heard)

\* A package that bears on a filter was learned.
Moves == filter' = filter /\ filter # NoFilter /\ relevance' = relevance + 1

\* The cached list, the flags and the rows.
Fresh == CacheIsOfFilter /\ RowsAreFresh /\ FlagsAreFresh /\ PicksAreRight

LEMMA CacheHas ==
    ASSUME TypeOK, cache # NoCache
    PROVE  cache \in CacheType
BY DEF TypeOK, CacheType

\* After what bears on the filter no cached list is current.
LEMMA MovedOn ==
    ASSUME VInv, Moves
    PROVE  ~IsCurrent(cache, relevance')
<1>. SUFFICES ASSUME IsCurrent(cache, relevance') PROVE FALSE
  OBVIOUS
<1>1. cache # NoCache /\ cache.signature = Signature(filter, relevance')
  BY DEF IsCurrent
<1>2. Signature(filter, relevance') = [terms |-> filter, relevance |-> relevance']
  BY DEF Signature, Moves
<1>3. cache.signature.relevance = relevance + 1
  BY <1>1, <1>2 DEF Moves
<1>4. cache.signature.relevance <= relevance /\ relevance \in Nat
  BY <1>1, LogViewAssumption DEF VInv, TypeOK, CacheIsOfFilter
<1>. QED  BY <1>3, <1>4

\* A step that leaves the lines, the cached list and the selection alone.
LEMMA AloneFresh ==
    ASSUME VInv, Agrees \/ (Moves /\ dirty'),
           stored' = stored, cache' = cache, selection' = selection, dirty' \in BOOLEAN, dirty => dirty'
    PROVE  Fresh'
<1>1. relevance \in Int /\ Hits(filter, stored, Heard) = Hits(filter, stored, Heard)
  BY LogViewAssumption DEF VInv, TypeOK
<1>2. CASE Agrees
  <2>1. ~Bears' => ~Bears /\ Hits(filter', stored', Heard') = Hits(filter, stored, Heard)
    <3>1. ASSUME ~Bears' PROVE Hits(filter, stored, Heard') = Hits(filter, stored, Heard)
      <4>1. \A e \in stored : Accepts(filter, e, Heard') <=> Accepts(filter, e, Heard)
        BY <1>2, <3>1 DEF Agrees
      <4>2. PICK k1 : k1 = Heard'
        OBVIOUS
      <4>. QED  BY <4>1, <4>2, SameHitsKnown
    <3>. QED  BY <1>2, <3>1 DEF Agrees
  <2>2. CacheIsOfFilter'
    BY <1>2 DEF Agrees, VInv, CacheIsOfFilter
  <2>3. RowsAreFresh'
    <3>1. IsCurrent(cache, relevance)' <=> IsCurrent(cache, relevance)
      BY <1>2 DEF Agrees, IsCurrent
    <3>. QED  BY <1>2, <2>1 DEF Agrees, VInv, RowsAreFresh, IsCurrent
  <2>4. FlagsAreFresh'
    BY <1>2 DEF Agrees, VInv, FlagsAreFresh
  <2>5. PicksAreRight'
    BY <1>2, <2>1 DEF Agrees, VInv, PicksAreRight
  <2>. QED  BY <2>2, <2>3, <2>4, <2>5 DEF Fresh
<1>3. CASE Moves /\ dirty'
  <2>1. ~IsCurrent(cache, relevance')
    BY <1>3, MovedOn
  <2>2. CacheIsOfFilter'
    <3>1. cache # NoCache => cache.signature.relevance \in Int
      BY CacheHas, LogViewAssumption DEF VInv, CacheType
    <3>. QED  BY <1>1, <1>3, <3>1 DEF Moves, VInv, CacheIsOfFilter
  <2>3. RowsAreFresh'
    BY <1>3, <2>1 DEF Moves, RowsAreFresh, IsCurrent
  <2>4. FlagsAreFresh'
    BY <1>3 DEF FlagsAreFresh
  <2>5. PicksAreRight'
    <3>1. ASSUME NEW s \in selection PROVE s.since <= relevance /\ s.since \in Int
      BY LogViewAssumption DEF VInv, PicksAreRight, TypeOK
    <3>. QED  BY <1>1, <1>3, <3>1 DEF Moves, PicksAreRight
  <2>. QED  BY <2>2, <2>3, <2>4, <2>5 DEF Fresh
<1>. QED  BY <1>2, <1>3

\* New rows come below the old ones.
LEMMA RowsBelow ==
    ASSUME NEW f, NEW known, NEW es, Queue(es), NEW T, Queue(T),
           \A e \in es : \E x \in T : Same(e, x),
           \A x \in T : (\E e \in es : Same(e, x)) \/ (\A e \in es : e.id < x.id),
           NEW i \in Hits(f, es, known)
    PROVE  /\ i \in Hits(f, T, known)
           /\ Rank(i, Hits(f, T, known)) = Rank(i, Hits(f, es, known))
<1>1. PICK d \in es : d.id = i /\ Accepts(f, d, known)
  BY DEF Hits
<1>2. ASSUME NEW e \in es, Accepts(f, e, known) PROVE e.id \in Hits(f, T, known)
  <2>1. PICK x \in T : Same(e, x)
    OBVIOUS
  <2>2. x.id = e.id /\ Accepts(f, x, known)
    BY <1>2, <2>1, SameAccepted DEF Same
  <2>. QED  BY <2>2 DEF Hits
<1>3. ASSUME NEW j \in Hits(f, T, known), j <= i PROVE j \in Hits(f, es, known)
  <2>1. PICK x \in T : x.id = j /\ Accepts(f, x, known)
    BY DEF Hits
  <2>2. j \in Nat /\ i \in Nat
    BY <1>1, <2>1 DEF Queue
  <2>3. PICK e \in es : Same(e, x)
    BY <1>1, <1>3, <2>1, <2>2
  <2>4. e.id = j /\ Accepts(f, e, known)
    BY <2>1, <2>3, SameAccepted DEF Same
  <2>. QED  BY <2>4 DEF Hits
<1>4. \A j \in Hits(f, es, known) : j \in Hits(f, T, known)
  BY <1>2 DEF Hits
<1>. DEFINE H == Hits(f, es, known)
            G == Hits(f, T, known)
<1>5. {j \in G : j <= i} = {j \in H : j <= i}
  BY <1>3, <1>4
<1>6. i \in G
  BY <1>1, <1>2
<1>. HIDE DEF H, G
<1>7. Rank(i, G) = Rank(i, H)
  BY <1>5, Zenon DEF Rank
<1>. QED  BY <1>6, <1>7 DEF G, H

LEMMA SameHeard ==
    ASSUME NEW e, NEW x, Same(e, x)
    PROVE  (IsHeard(e) => IsHeard(x)) /\ (IsHeard(e)' => IsHeard(x)')
BY DEF Same, IsHeard

\* Appending a queue of lines the tab has heard of.
LEMMA AppendFresh ==
    ASSUME VInv, NEW queue \in Seq(Entry), Follow(queue, stored),
           \A i \in 1 .. Len(queue) : IsHeard(queue[i])', \A e \in stored : IsHeard(e)',
           NEW isDirty \in BOOLEAN, dirty => isDirty,
           NEW r, r = relevance', AppendAll(queue, isDirty, r, Heard),
           Heard' = Heard, Agrees \/ (Moves /\ isDirty)
    PROVE  /\ stored' \in SUBSET StoredEntry /\ Queue(stored')
           /\ Cardinality(stored') <= MaxBufferedSize(filter')
           /\ \A x \in stored' : IsHeard(x)'
           /\ \A x \in stored' : \/ \E e \in stored : Same(e, x)
                                 \/ \E i \in 1 .. Len(queue) : Same(queue[i], x)
           /\ cache' \in {NoCache} \cup CacheType
           /\ selection' \in SUBSET selection /\ dirty' = FALSE
           /\ Fresh'
<1>1. TypeOK /\ Lines /\ relevance \in Int
  BY LogViewAssumption DEF VInv, TypeOK
<1>2. PICK K : K = Heard
  OBVIOUS
<1>3. AppendAll(queue, isDirty, r, K)
  BY <1>2
<1>4. /\ stored' \in SUBSET StoredEntry /\ Queue(stored')
      /\ Cardinality(stored') <= MaxBufferedSize(filter)
      /\ \A x \in stored' : \/ \E e \in stored : Same(e, x)
                            \/ \E i \in 1 .. Len(queue) : Same(queue[i], x)
      /\ isDirty \/ Current(stored, filter, K) => Current(stored', filter, K)
      /\ ~IsCurrent(cache, r) => cache' = cache
      /\ IsCurrent(cache, r) =>
            /\ cache' \in CacheType /\ cache'.signature = cache.signature
            /\ cache.rows = Hits(filter, stored, K)
                 => cache'.rows = Hits(filter, stored', K)
      /\ dirty' = FALSE
      /\ \/ selection' = {}
         \/ /\ selection' = selection
            /\ \A e \in stored : \E x \in stored' : Same(e, x)
  BY <1>1, <1>3, AppendAllIs
<1>5. filter' = filter
  BY DEF Agrees, Moves
<1>6. \A x \in stored' : IsHeard(x)'
  BY <1>4, SameHeard
<1>7. cache' \in {NoCache} \cup CacheType
  BY <1>1, <1>4, CacheHas
<1>8. selection' \in SUBSET selection
  BY <1>4
<1>9. isDirty \/ (~Bears' => ~Bears /\ Current(stored, filter, K))
  BY <1>2 DEF Agrees, VInv, FlagsAreFresh, Current
<1>10. CacheIsOfFilter'
  <2>1. cache' # NoCache => cache # NoCache /\ cache'.signature = cache.signature
    BY <1>4 DEF IsCurrent
  <2>2. cache # NoCache => cache.signature.relevance \in Int
    BY <1>1, CacheHas, LogViewAssumption DEF CacheType
  <2>3. relevance' \in Int /\ relevance <= relevance'
    BY <1>1 DEF Agrees, Moves
  <2>4. cache # NoCache => cache.signature.terms = filter /\ cache.signature.relevance <= relevance
    BY DEF VInv, CacheIsOfFilter
  <2>5. cache' # NoCache => cache'.signature.terms = filter' /\ cache'.signature.relevance <= relevance'
    BY <1>1, <1>5, <2>1, <2>2, <2>3, <2>4
  <2>. QED  BY <2>5 DEF CacheIsOfFilter
<1>11. FlagsAreFresh'
  <2>1. ASSUME ~Bears' PROVE Current(stored', filter, K)
    BY <1>4, <1>9, <2>1
  <2>2. ASSUME ~Bears', NEW x \in stored'
        PROVE  x.matches <=> filter' # NoFilter /\ Accepts(filter', x, Heard')
    BY <1>2, <1>5, <2>1, <2>2 DEF Current
  <2>. QED  BY <2>2 DEF FlagsAreFresh
<1>12. RowsAreFresh'
  <2>1. ASSUME IsCurrent(cache, relevance)', ~Bears'
        PROVE  cache'.rows = Hits(filter', stored', Heard')
    <3>1. cache' # NoCache /\ cache'.signature = Signature(filter, r)
      BY <1>5, <2>1 DEF IsCurrent
    <3>2. IsCurrent(cache, r)
      BY <1>4, <3>1 DEF IsCurrent
    <3>3. Agrees
      BY <3>2, MovedOn
    <3>4. cache.rows = Hits(filter, stored, K)
      BY <1>2, <2>1, <3>2, <3>3 DEF Agrees, VInv, RowsAreFresh
    <3>. QED  BY <1>2, <1>4, <1>5, <3>2, <3>4
  <2>. QED  BY <2>1 DEF RowsAreFresh
<1>13. PicksAreRight'
  <2>1. ASSUME NEW s \in selection'
        PROVE  /\ s.since <= relevance'
               /\ ~Bears' /\ s.since = relevance' =>
                     /\ s.entry \in Hits(filter', stored', Heard')
                     /\ Rank(s.entry, Hits(filter', stored', Heard')) = s.row
    <3>1. s \in selection /\ s.since \in Int /\ s.since <= relevance
      BY <1>1, <1>8, LogViewAssumption DEF VInv, TypeOK, PicksAreRight
    <3>2. s.since <= relevance'
      BY <1>1, <3>1 DEF Agrees, Moves
    <3>3. ASSUME ~Bears', s.since = relevance'
          PROVE  /\ s.entry \in Hits(filter', stored', Heard')
                 /\ Rank(s.entry, Hits(filter', stored', Heard')) = s.row
      <4>1. Agrees
        BY <1>1, <3>1, <3>3 DEF Moves
      <4>2. /\ s.entry \in Hits(filter, stored, K)
            /\ Rank(s.entry, Hits(filter, stored, K)) = s.row
        BY <1>2, <3>1, <3>3, <4>1 DEF Agrees, VInv, PicksAreRight
      <4>3. \A e \in stored : \E x \in stored' : Same(e, x)
        BY <1>4, <2>1
      <4>4. ASSUME NEW x \in stored', NEW i \in 1 .. Len(queue), Same(queue[i], x)
            PROVE  \A e \in stored : e.id < x.id
        BY <4>4 DEF Follow, Same
      <4>5. \A x \in stored' : \/ \E e \in stored : Same(e, x)
                               \/ \A e \in stored : e.id < x.id
        BY <1>4, <4>4
      <4>6. Queue(stored)
        BY <1>1 DEF Lines
      <4>7. PICK T : T = stored'
        OBVIOUS
      <4>8. PICK i : i = s.entry
        OBVIOUS
      <4>9. Queue(T) /\ (\A e \in stored : \E x \in T : Same(e, x))
            /\ \A x \in T : (\E e \in stored : Same(e, x)) \/ (\A e \in stored : e.id < x.id)
        BY <1>4, <4>3, <4>5, <4>7
      <4>10. /\ i \in Hits(filter, T, K)
             /\ Rank(i, Hits(filter, T, K)) = Rank(i, Hits(filter, stored, K))
        BY <4>2, <4>6, <4>8, <4>9, RowsBelow
      <4>. QED  BY <1>2, <1>5, <4>2, <4>7, <4>8, <4>10
    <3>. QED  BY <3>2, <3>3
  <2>. QED  BY <2>1 DEF PicksAreRight
<1>. QED  BY <1>4, <1>5, <1>6, <1>7, <1>8, <1>10, <1>11, <1>12, <1>13 DEF Fresh

\* A step that leaves the lines, the cached list and the selection alone.
LeavesAlone ==
    /\ stored' = stored /\ pending' = pending /\ cache' = cache /\ selection' = selection
    /\ dirty' \in BOOLEAN /\ (dirty => dirty')
    /\ Agrees \/ (Moves /\ dirty')

LEMMA AloneKeeps ==
    ASSUME VInv, TypeOK', Maps', LeavesAlone,
           \A e \in stored : IsHeard(e)', \A i \in 1 .. Len(pending) : IsHeard(pending[i])'
    PROVE  VInv'
<1>1. Fresh'
  BY AloneFresh DEF LeavesAlone
<1>2. Lines'
  <2>1. filter' = filter
    BY DEF LeavesAlone, Agrees, Moves
  <2>2. Queue(stored') /\ Cardinality(stored') <= MaxBufferedSize(filter') /\ Follow(pending', stored')
    BY <2>1 DEF VInv, Lines, LeavesAlone
  <2>. QED  BY <2>2 DEF Lines, LeavesAlone
<1>. QED  BY <1>1, <1>2 DEF VInv, Fresh

LEMMA LaunchKeeps ==
    ASSUME VInv, ~PidsAreReused, NEW pid \in Pids, NEW package \in Packages, Launch(pid, package)
    PROVE  VInv'
<1>1. /\ process[pid] = NoPackage /\ process' = [process EXCEPT ![pid] = package]
      /\ UNCHANGED <<deviceMap, updates, tab>>
  BY DEF Launch
<1>2. TypeOK'
  BY <1>1 DEF VInv, TypeOK, tab, Mapping
<1>3. ASSUME NEW p \in Pids
      PROVE  process'[p] = process[p] \/ (p = pid /\ process[p] = NoPackage)
  BY <1>1 DEF VInv, TypeOK, Mapping
<1>4. Maps'
  BY <1>1, <1>3 DEF VInv, Maps, tab
<1>5. ASSUME NEW e, IsHeard(e) PROVE IsHeard(e)'
  <2>1. e.own # NoPackage =>
          /\ e.pid \in Pids /\ e.own = process[e.pid] /\ learned[e.pid] # NoPackage
          /\ process'[e.pid] = process[e.pid]
    BY <1>3, <1>5 DEF IsHeard
  <2>. QED  BY <1>1, <1>5, <2>1 DEF IsHeard, tab
<1>6. \A e \in stored : IsHeard(e)'
  BY <1>5 DEF VInv, Lines
<1>7. \A i \in 1 .. Len(pending) : IsHeard(pending[i])'
  <2>1. ASSUME NEW i \in 1 .. Len(pending) PROVE IsHeard(pending[i])'
    <3>1. PICK e : e = pending[i]
      OBVIOUS
    <3>2. IsHeard(e)
      BY <3>1 DEF VInv, Lines
    <3>3. e = pending'[i] /\ IsHeard(e)'
      BY <1>1, <1>5, <3>1, <3>2 DEF tab
    <3>. QED  BY <3>3
  <2>. QED  BY <2>1
<1>8. Agrees
  <2>1. UNCHANGED <<learned, deviceMap, updates, filter, relevance>>
    BY <1>1 DEF tab
  <2>2. Heard' = Heard
    BY <2>1 DEF Heard, Known
  <2>3. Bears' => Bears
    BY <2>1 DEF Bears, IsNew
  <2>4. Bears => Bears'
    BY <2>1 DEF Bears, IsNew
  <2>. QED  BY <2>1, <2>2, <2>4 DEF Agrees
<1>9. LeavesAlone
  BY <1>1, <1>8 DEF tab, VInv, TypeOK, LeavesAlone
<1>. QED  BY <1>2, <1>4, <1>6, <1>7, <1>9, AloneKeeps

\* A line the stream delivers.
LineOf(pid) == [id |-> arrived + 1, pid |-> pid, own |-> deviceMap[pid]]

LineBears(pid) == IsNew(learned, pid, deviceMap[pid]) /\ BearsOn(filter, deviceMap[pid])

\* What a line does besides taking its place.
LEMMA LineIs ==
    ASSUME VInv, NEW pid \in Pids, NEW paused \in BOOLEAN, Line(pid, paused)
    PROVE  /\ learned' \in Mapping /\ Heard' = Heard /\ Maps'
           /\ relevance' \in 0 .. MaxRelevance /\ arrived' = arrived + 1
           /\ arrived' \in 0 .. MaxArrivals
           /\ LineOf(pid) \in Entry /\ \A e : e = LineOf(pid) => IsHeard(e)'
           /\ \A e \in Entry \cup StoredEntry : IsHeard(e) => IsHeard(e)'
           /\ ~LineBears(pid) => Agrees
           /\ LineBears(pid) => Moves
<1>1. /\ TypeOK /\ Maps /\ MaxArrivals \in Nat /\ MaxRelevance \in Nat
      /\ relevance \in Nat /\ arrived \in Nat
  BY LogViewAssumption DEF VInv, TypeOK
<1>2. /\ arrived < MaxArrivals /\ relevance + 1 < MaxRelevance /\ arrived' = arrived + 1
      /\ learned' = Learn(learned, pid, deviceMap[pid])
      /\ relevance' = IF LineBears(pid) THEN relevance + 1 ELSE relevance
      /\ UNCHANGED <<process, deviceMap, updates, filter>>
  BY DEF Line, LineBears
<1>3. /\ learned' \in Mapping /\ Known(learned', deviceMap) = Heard
      /\ \A p \in Pids : learned'[p] = IF p = pid /\ deviceMap[pid] # NoPackage
                                       THEN process[p] ELSE learned[p]
  BY <1>1, <1>2, LearnKeeps
<1>4. Heard' = Heard
  BY <1>2, <1>3 DEF Heard
<1>5. /\ deviceMap \in Mapping /\ deviceMap[pid] \in {NoPackage, process[pid]}
      /\ updates[pid] \in {NoPackage, deviceMap[pid]}
      /\ learned[pid] \in {NoPackage, process[pid]}
  BY <1>1 DEF TypeOK, Maps
<1>6. relevance' \in Nat /\ relevance' < MaxRelevance
  BY <1>1, <1>2
<1>7. Maps'
  BY <1>1, <1>2, <1>3, <1>6 DEF Maps
<1>8. LineOf(pid) \in Entry
  <2>1. arrived + 1 \in 1 .. MaxArrivals /\ deviceMap[pid] \in Packages \cup {NoPackage}
    BY <1>1, <1>2, <1>5 DEF Mapping
  <2>. QED  BY <2>1 DEF LineOf, Entry
<1>9. ASSUME NEW e, e = LineOf(pid) PROVE IsHeard(e)'
  <2>1. learned'[pid] # NoPackage \/ deviceMap[pid] = NoPackage
    BY <1>3, <1>5
  <2>2. e.id = arrived' /\ e.pid = pid /\ e.own = deviceMap[pid]
    BY <1>2, <1>9 DEF LineOf
  <2>3. arrived' <= arrived'
    BY <1>1, <1>2
  <2>. QED  BY <1>2, <1>5, <2>1, <2>2, <2>3 DEF IsHeard
<1>10. ASSUME NEW e \in Entry \cup StoredEntry, IsHeard(e) PROVE IsHeard(e)'
  <2>1. e.pid \in Pids => (learned[e.pid] # NoPackage => learned'[e.pid] # NoPackage)
    BY <1>3, <1>5
  <2>2. e.id <= arrived'
    <3>1. e.id \in Int /\ e.id <= arrived
      BY <1>1, <1>10 DEF IsHeard, Entry, StoredEntry
    <3>. QED  BY <1>1, <1>2, <3>1
  <2>. QED  BY <1>2, <1>10, <2>1, <2>2 DEF IsHeard
<1>11. ASSUME ~LineBears(pid) PROVE Agrees
  <2>1. ASSUME Bears PROVE Bears'
    <3>1. PICK p \in Pids : IsNew(learned, p, updates[p]) /\ BearsOn(filter, updates[p])
      BY <2>1 DEF Bears
    <3>2. updates[p] # NoPackage /\ updates[p] = deviceMap[p] /\ learned[p] # updates[p]
      BY <1>1, <3>1 DEF IsNew, Maps
    <3>3. p # pid
      BY <1>11, <3>1, <3>2 DEF LineBears
    <3>4. learned'[p] = learned[p]
      BY <1>3, <3>3
    <3>5. IsNew(learned', p, updates'[p]) /\ BearsOn(filter', updates'[p])
      BY <1>2, <3>1, <3>4 DEF IsNew
    <3>. QED  BY <3>5 DEF Bears
  <2>. QED  BY <1>2, <1>4, <1>11, <2>1 DEF Agrees
<1>12. ASSUME LineBears(pid) PROVE Moves
  BY <1>2, <1>12 DEF LineBears, BearsOn, Moves
<1>13. /\ relevance' \in 0 .. MaxRelevance /\ arrived' = arrived + 1
       /\ arrived' \in 0 .. MaxArrivals
  BY <1>1, <1>2, <1>6
<1>. QED  BY <1>3, <1>4, <1>7, <1>8, <1>9, <1>10, <1>11, <1>12, <1>13

LEMMA LineKeeps ==
    ASSUME VInv, NEW pid \in Pids, NEW paused \in BOOLEAN, Line(pid, paused)
    PROVE  VInv'
<1>. DEFINE bears == LineBears(pid)
            entry == LineOf(pid)
<1>1. /\ TypeOK /\ Lines /\ arrived \in Nat /\ MaxArrivals \in Nat
      /\ MaxPending \in Nat \ {0}
  BY LogViewAssumption DEF VInv, TypeOK
<1>2. /\ learned' \in Mapping /\ Heard' = Heard /\ Maps'
      /\ relevance' \in 0 .. MaxRelevance /\ arrived' = arrived + 1
      /\ arrived' \in 0 .. MaxArrivals
      /\ entry \in Entry /\ (\A e : e = entry => IsHeard(e)')
      /\ \A e \in Entry \cup StoredEntry : IsHeard(e) => IsHeard(e)'
      /\ ~bears => Agrees
      /\ bears => Moves
  BY LineIs
<1>3. /\ UNCHANGED <<process, deviceMap, updates, filter>>
      /\ IF paused
         THEN /\ dirty' = (dirty \/ bears)
              /\ UNCHANGED <<pending, stored, cache, selection>>
         ELSE IF QueueIsFull
         THEN /\ AppendAll(pending, dirty \/ bears, relevance', Heard)
              /\ pending' = <<entry>>
         ELSE /\ pending' = Append(pending, entry)
              /\ dirty' = (dirty \/ bears)
              /\ UNCHANGED <<stored, cache, selection>>
  <2>1. relevance' = IF bears THEN relevance + 1 ELSE relevance
    BY DEF Line, LineBears
  <2>2. learned' = Learn(learned, pid, deviceMap[pid])
    BY DEF Line
  <2>3. Known(learned', deviceMap) = Heard
    BY <1>2, <2>2, LearnKeeps DEF VInv
  <2>. QED  BY <2>1, <2>3 DEF Line, LineBears, LineOf
<1>4. entry.id = arrived + 1
  BY DEF LineOf
<1>. HIDE DEF bears, entry
<1>5. \A e \in stored : IsHeard(e)' /\ e.id <= arrived /\ e.id \in Nat
  BY <1>1, <1>2 DEF Lines, TypeOK, IsHeard, Queue
<1>6. \A i \in 1 .. Len(pending) :
         /\ pending[i] \in Entry /\ pending[i].id <= arrived /\ pending[i].id \in Nat
         /\ \A e : e = pending[i] => IsHeard(e)'
  <2>1. ASSUME NEW i \in 1 .. Len(pending)
        PROVE  pending[i] \in Entry /\ IsHeard(pending[i])
    BY <1>1 DEF TypeOK, Lines
  <2>2. ASSUME NEW e \in Entry, IsHeard(e) PROVE e.id <= arrived /\ e.id \in Nat /\ IsHeard(e)'
    BY <1>1, <1>2, <2>2 DEF IsHeard, Entry
  <2>. QED  BY <2>1, <2>2
<1>7. (dirty \/ bears) \in BOOLEAN /\ (dirty => dirty \/ bears)
  OBVIOUS
<1>8. Agrees \/ (Moves /\ bears)
  BY <1>2
<1>9. CASE paused \/ ~QueueIsFull
  <2>1. /\ dirty' = (dirty \/ bears) /\ UNCHANGED <<stored, cache, selection>>
        /\ pending' \in {pending, Append(pending, entry)}
    BY <1>3, <1>9
  <2>2. Agrees \/ (Moves /\ dirty')
    BY <1>2, <2>1
  <2>3. dirty' \in BOOLEAN /\ (dirty => dirty')
    BY <2>1
  <2>4. Fresh'
    BY <2>1, <2>2, <2>3, AloneFresh
  <2>5. /\ pending' \in Seq(Entry) /\ Len(pending') <= MaxPending
        /\ \A i \in 1 .. Len(pending') : \A e : e = pending'[i] => IsHeard(e)'
        /\ Follow(pending', stored)
    <3>1. CASE pending' = pending
      BY <1>1, <1>6, <3>1 DEF TypeOK, Lines
    <3>2. CASE pending' # pending
      <4>1. /\ pending' = Append(pending, entry) /\ pending \in Seq(Entry) /\ Len(pending) < MaxPending
        <5>1. pending \in Seq(Entry) /\ Len(pending) \in Nat
          BY <1>1 DEF TypeOK
        <5>2. ~QueueIsFull
          BY <1>3, <1>9, <3>2
        <5>. QED  BY <1>1, <2>1, <3>2, <5>1, <5>2 DEF QueueIsFull
      <4>2. /\ pending' \in Seq(Entry) /\ Len(pending') = Len(pending) + 1 /\ Len(pending) \in Nat
            /\ \A i \in 1 .. Len(pending) : pending'[i] = pending[i]
            /\ pending'[Len(pending) + 1] = entry
        BY <1>2, <4>1
      <4>3. \A i \in 1 .. Len(pending') : i \in 1 .. Len(pending) \/ i = Len(pending) + 1
        BY <4>2
      <4>4. Follow(pending, stored)
        BY <1>1 DEF Lines
      <4>5. \A i \in 1 .. Len(pending') : \A d \in stored : d.id < pending'[i].id
        BY <1>1, <1>4, <1>5, <4>2, <4>3, <4>4 DEF Follow
      <4>6. ASSUME NEW i \in 1 .. Len(pending'), NEW j \in 1 .. Len(pending'), i < j
            PROVE  pending'[i].id < pending'[j].id
        <5>1. i \in 1 .. Len(pending)
          BY <4>2, <4>3, <4>6
        <5>2. CASE j \in 1 .. Len(pending)
          BY <4>2, <4>4, <4>6, <5>1, <5>2 DEF Follow
        <5>3. CASE j = Len(pending) + 1
          BY <1>1, <1>4, <1>6, <4>2, <5>1, <5>3
        <5>. QED  BY <4>3, <5>2, <5>3
      <4>7. Follow(pending', stored)
        BY <4>5, <4>6 DEF Follow
      <4>8. \A i \in 1 .. Len(pending') : \A e : e = pending'[i] => IsHeard(e)'
        BY <1>2, <1>6, <4>2, <4>3
      <4>. QED  BY <1>1, <4>1, <4>2, <4>7, <4>8
    <3>. QED  BY <3>1, <3>2
  <2>6. Lines'
    <3>1. \A i \in 1 .. Len(pending') : IsHeard(pending[i])'
      BY <2>5
    <3>2. \A e \in stored' : IsHeard(e)'
      BY <1>5, <2>1
    <3>3. Queue(stored') /\ Cardinality(stored') <= MaxBufferedSize(filter') /\ Follow(pending', stored')
      BY <1>1, <1>3, <2>1, <2>5 DEF Lines
    <3>. QED  BY <3>1, <3>2, <3>3 DEF Lines
  <2>7. TypeOK'
    BY <1>1, <1>2, <1>3, <2>1, <2>3, <2>5 DEF TypeOK
  <2>. QED  BY <1>2, <2>4, <2>6, <2>7 DEF VInv, Fresh
<1>10. CASE ~paused /\ QueueIsFull
  <2>1. AppendAll(pending, dirty \/ bears, relevance', Heard) /\ pending' = <<entry>>
    BY <1>3, <1>10
  <2>2. PICK q : q = pending
    OBVIOUS
  <2>3. PICK isDirty : isDirty = (dirty \/ bears)
    OBVIOUS
  <2>4. PICK r : r = relevance'
    OBVIOUS
  <2>5. /\ q \in Seq(Entry) /\ Follow(q, stored) /\ isDirty \in BOOLEAN /\ (dirty => isDirty)
        /\ AppendAll(q, isDirty, r, Heard)
    BY <1>1, <2>1, <2>2, <2>3, <2>4 DEF TypeOK, Lines
  <2>6. \A i \in 1 .. Len(q) : IsHeard(q[i])'
    BY <1>6, <2>2
  <2>7. Agrees \/ (Moves /\ isDirty)
    BY <1>8, <2>3
  <2>8. /\ stored' \in SUBSET StoredEntry /\ Queue(stored')
        /\ Cardinality(stored') <= MaxBufferedSize(filter')
        /\ \A x \in stored' : IsHeard(x)'
        /\ \A x \in stored' : \/ \E e \in stored : Same(e, x)
                              \/ \E i \in 1 .. Len(q) : Same(q[i], x)
        /\ cache' \in {NoCache} \cup CacheType
        /\ selection' \in SUBSET selection /\ dirty' = FALSE
        /\ Fresh'
    BY <1>2, <1>5, <2>4, <2>5, <2>6, <2>7, AppendFresh
  <2>9. \A x \in stored' : x.id <= arrived
    BY <1>5, <1>6, <2>2, <2>8 DEF Same
  <2>10. Lines'
    <3>1. Len(pending') = 1 /\ pending'[1] = entry /\ pending' \in Seq(Entry)
      BY <1>2, <2>1
    <3>2. \A i \in 1 .. Len(pending') : i = 1
      BY <3>1
    <3>3. \A i \in 1 .. Len(pending') : IsHeard(pending[i])'
      BY <1>2, <3>1, <3>2
    <3>4. \A x \in stored' : x.id < entry.id
      <4>1. \A x \in stored' : x.id \in Nat
        BY <2>8 DEF Queue
      <4>. QED  BY <1>1, <1>4, <2>9, <4>1
    <3>5. Follow(pending', stored')
      BY <3>1, <3>2, <3>4 DEF Follow
    <3>. QED  BY <2>8, <3>3, <3>5 DEF Lines
  <2>11. TypeOK'
    <3>1. pending' \in Seq(Entry) /\ Len(pending') <= MaxPending
      BY <1>1, <1>2, <2>1
    <3>2. selection' \subseteq [row : 1 .. MaxArrivals, entry : 1 .. MaxArrivals,
                                since : 0 .. MaxRelevance]
      BY <1>1, <2>8 DEF TypeOK
    <3>3. cache' \in {NoCache} \cup
          [signature : [terms : {NoFilter} \cup Terms, relevance : 0 .. MaxRelevance],
           rows : SUBSET (1 .. MaxArrivals)]
      BY <2>8 DEF CacheType
    <3>. QED  BY <1>1, <1>2, <1>3, <2>8, <3>1, <3>2, <3>3 DEF TypeOK
  <2>. QED  BY <1>2, <2>8, <2>10, <2>11 DEF VInv, Fresh
<1>. QED  BY <1>9, <1>10

\* The queue goes in and what the tab knows stays.
LEMMA DrainKeeps ==
    ASSUME VInv, NEW queue \in Seq(Entry), Follow(queue, stored),
           \A i \in 1 .. Len(queue) : IsHeard(queue[i])',
           AppendAll(queue, dirty, relevance, Heard), pending' = <<>>,
           arrived' \in 0 .. MaxArrivals, arrived <= arrived',
           UNCHANGED <<process, deviceMap, updates, learned, filter, relevance>>
    PROVE  VInv'
<1>1. TypeOK /\ Lines /\ Maps /\ arrived \in Nat /\ MaxArrivals \in Nat /\ MaxPending \in Nat
  BY LogViewAssumption DEF VInv, TypeOK
<1>2. Heard' = Heard
  BY DEF Heard, Known
<1>3. Bears => Bears'
  BY DEF Bears, IsNew
<1>4. Agrees
  BY <1>2, <1>3 DEF Agrees
<1>5. ASSUME NEW e \in stored PROVE IsHeard(e)'
  <2>1. IsHeard(e) /\ e.id \in Nat
    BY <1>1 DEF Lines, Queue
  <2>2. e.id <= arrived'
    BY <1>1, <2>1 DEF IsHeard
  <2>. QED  BY <2>1, <2>2 DEF IsHeard
<1>6. PICK isDirty \in BOOLEAN : isDirty <=> dirty
  BY <1>1 DEF TypeOK
<1>7. isDirty = dirty
  BY <1>1, <1>6 DEF TypeOK
<1>8. PICK r : r = relevance'
  OBVIOUS
<1>9. AppendAll(queue, isDirty, r, Heard) /\ (dirty => isDirty)
  BY <1>7, <1>8
<1>10. /\ stored' \in SUBSET StoredEntry /\ Queue(stored')
       /\ Cardinality(stored') <= MaxBufferedSize(filter')
       /\ \A x \in stored' : IsHeard(x)'
       /\ cache' \in {NoCache} \cup CacheType
       /\ selection' \in SUBSET selection /\ dirty' = FALSE
       /\ Fresh'
  BY <1>2, <1>4, <1>5, <1>8, <1>9, AppendFresh
<1>11. Maps'
  BY <1>1 DEF Maps
<1>12. pending' \in Seq(Entry) /\ Len(pending') = 0
  OBVIOUS
<1>13. Lines'
  <2>1. \A i \in 1 .. Len(pending') : FALSE
    BY <1>12
  <2>2. Follow(pending', stored')
    BY <2>1 DEF Follow
  <2>. QED  BY <1>10, <2>1, <2>2 DEF Lines
<1>14. TypeOK'
  <2>1. selection' \subseteq [row : 1 .. MaxArrivals, entry : 1 .. MaxArrivals,
                              since : 0 .. MaxRelevance]
    BY <1>1, <1>10 DEF TypeOK
  <2>2. cache' \in {NoCache} \cup
        [signature : [terms : {NoFilter} \cup Terms, relevance : 0 .. MaxRelevance],
         rows : SUBSET (1 .. MaxArrivals)]
    BY <1>10 DEF CacheType
  <2>3. pending' \in Seq(Entry) /\ Len(pending') <= MaxPending
    BY <1>1, <1>12
  <2>4. /\ {process', deviceMap', updates', learned'} \subseteq Mapping
        /\ filter' \in {NoFilter} \cup Terms
        /\ relevance' \in 0 .. MaxRelevance /\ dirty' \in BOOLEAN
    BY <1>1, <1>10 DEF TypeOK
  <2>5. Mapping' = Mapping
    BY DEF Mapping
  <2>. QED  BY <1>10, <2>1, <2>2, <2>3, <2>4, <2>5 DEF TypeOK
<1>. QED  BY <1>10, <1>11, <1>13, <1>14 DEF VInv, Fresh

LEMMA FlushKeeps ==
    ASSUME VInv, FlushPending
    PROVE  VInv'
<1>1. PICK q : q = pending
  OBVIOUS
<1>2. /\ AppendAll(q, dirty, relevance, Heard) /\ pending' = <<>>
      /\ UNCHANGED <<process, deviceMap, updates, learned, filter, relevance, arrived>>
  BY <1>1 DEF FlushPending, Heard
<1>3. /\ q \in Seq(Entry) /\ Follow(q, stored) /\ \A i \in 1 .. Len(q) : IsHeard(q[i])
      /\ arrived \in 0 .. MaxArrivals /\ arrived <= arrived
  BY <1>1, LogViewAssumption DEF VInv, TypeOK, Lines
<1>4. \A i \in 1 .. Len(q) : IsHeard(q[i])'
  BY <1>2, <1>3 DEF IsHeard
<1>5. arrived' \in 0 .. MaxArrivals /\ arrived <= arrived'
  BY <1>2, <1>3
<1>. QED  BY <1>2, <1>3, <1>4, <1>5, DrainKeeps

\* What goes in at once: it takes its place behind the queue.
Marker == [id |-> arrived + 1, pid |-> NoPid, own |-> NoPackage]

LEMMA MarkerFollows ==
    ASSUME VInv, arrived < MaxArrivals, NEW queue, queue = Append(pending, Marker)
    PROVE  /\ queue \in Seq(Entry) /\ Follow(queue, stored)
           /\ \A i \in 1 .. Len(queue) :
                 \/ IsHeard(queue[i]) /\ queue[i] \in Entry
                 \/ queue[i] = Marker
<1>1. /\ TypeOK /\ Lines /\ arrived \in Nat /\ MaxArrivals \in Nat
      /\ pending \in Seq(Entry) /\ Follow(pending, stored)
  BY LogViewAssumption DEF VInv, TypeOK, Lines
<1>2. Marker \in Entry /\ Marker.id = arrived + 1
  <2>1. arrived + 1 \in 1 .. MaxArrivals
    BY <1>1
  <2>. QED  BY <2>1 DEF Marker, Entry
<1>3. \A e \in stored : e.id <= arrived /\ e.id \in Nat
  BY <1>1 DEF Lines, IsHeard, Queue
<1>4. \A i \in 1 .. Len(pending) :
         pending[i] \in Entry /\ IsHeard(pending[i]) /\ pending[i].id <= arrived /\ pending[i].id \in Nat
  <2>1. \A i \in 1 .. Len(pending) : pending[i] \in Entry /\ IsHeard(pending[i])
    BY <1>1 DEF Lines
  <2>2. \A e \in Entry : IsHeard(e) => e.id <= arrived /\ e.id \in Nat
    BY DEF IsHeard, Entry
  <2>. QED  BY <2>1, <2>2
<1>. HIDE DEF Marker
<1>5. /\ queue \in Seq(Entry) /\ Len(queue) = Len(pending) + 1 /\ Len(pending) \in Nat
      /\ \A i \in 1 .. Len(pending) : queue[i] = pending[i]
      /\ queue[Len(pending) + 1] = Marker
  BY <1>1, <1>2
<1>6. \A i \in 1 .. Len(queue) : i \in 1 .. Len(pending) \/ i = Len(pending) + 1
  BY <1>5
<1>7. \A i \in 1 .. Len(queue) : \A d \in stored : d.id < queue[i].id
  BY <1>1, <1>2, <1>3, <1>5, <1>6 DEF Follow
<1>8. ASSUME NEW i \in 1 .. Len(queue), NEW j \in 1 .. Len(queue), i < j
      PROVE  queue[i].id < queue[j].id
  <2>1. i \in 1 .. Len(pending)
    BY <1>5, <1>6, <1>8
  <2>2. CASE j \in 1 .. Len(pending)
    BY <1>1, <1>5, <1>8, <2>1, <2>2 DEF Follow
  <2>3. CASE j = Len(pending) + 1
    BY <1>1, <1>2, <1>4, <1>5, <2>1, <2>3
  <2>. QED  BY <1>6, <2>2, <2>3
<1>9. Follow(queue, stored)
  BY <1>7, <1>8 DEF Follow
<1>10. ASSUME NEW i \in 1 .. Len(queue)
       PROVE  \/ IsHeard(queue[i]) /\ queue[i] \in Entry
              \/ queue[i] = Marker
  BY <1>4, <1>5, <1>6
<1>. QED  BY <1>5, <1>9, <1>10

LEMMA ImmediateKeeps ==
    ASSUME VInv, AppendImmediate
    PROVE  VInv'
<1>1. PICK q : q = Append(pending, Marker)
  OBVIOUS
<1>2. /\ AppendAll(q, dirty, relevance, Heard) /\ pending' = <<>>
      /\ arrived < MaxArrivals /\ arrived' = arrived + 1
      /\ UNCHANGED <<process, deviceMap, updates, learned, filter, relevance>>
  BY <1>1 DEF AppendImmediate, Heard, Marker
<1>3. arrived \in Nat /\ MaxArrivals \in Nat
  BY LogViewAssumption DEF VInv, TypeOK
<1>4. /\ q \in Seq(Entry) /\ Follow(q, stored)
      /\ \A i \in 1 .. Len(q) :
            \/ IsHeard(q[i]) /\ q[i] \in Entry
            \/ q[i] = Marker
  BY <1>1, <1>2, MarkerFollows
<1>5. ASSUME NEW e \in Entry, IsHeard(e) PROVE IsHeard(e)'
  <2>1. e.id \in Nat /\ e.id <= arrived'
    BY <1>2, <1>3, <1>5 DEF IsHeard, Entry
  <2>. QED  BY <1>2, <1>5, <2>1 DEF IsHeard
<1>6. ASSUME NEW e, e = Marker PROVE IsHeard(e)'
  BY <1>2, <1>3, <1>6, LogViewAssumption DEF IsHeard, Marker
<1>7. \A i \in 1 .. Len(q) : IsHeard(q[i])'
  BY <1>4, <1>5, <1>6
<1>8. arrived' \in 0 .. MaxArrivals /\ arrived <= arrived'
  BY <1>2, <1>3
<1>. QED  BY <1>2, <1>4, <1>7, <1>8, DrainKeeps

LEMMA RefreshKeeps ==
    ASSUME VInv, NEW alive \in SUBSET Pids, Refresh(Listed(alive))
    PROVE  VInv'
<1>1. TypeOK /\ Maps /\ Lines /\ relevance \in Nat /\ MaxRelevance \in Nat
  BY LogViewAssumption DEF VInv, TypeOK
<1>2. /\ updates = Nothing /\ relevance + 1 < MaxRelevance
      /\ deviceMap' = Listed(alive)
      /\ updates' = [p \in Pids |-> IF Listed(alive)[p] # deviceMap[p] THEN Listed(alive)[p]
                                    ELSE NoPackage]
      /\ UNCHANGED <<process, tab>>
  BY Zenon DEF Refresh, IsNextEvent
<1>3. ASSUME NEW p \in Pids
      PROVE  /\ updates[p] = NoPackage
             /\ deviceMap'[p] \in {NoPackage, process[p]}
             /\ updates'[p] = IF deviceMap'[p] # deviceMap[p] THEN deviceMap'[p] ELSE NoPackage
  BY <1>2 DEF Listed, Nothing
<1>4. /\ UNCHANGED <<process, learned, filter, relevance, dirty, stored, pending, arrived,
                     cache, selection>>
  BY <1>2 DEF tab
<1>5. Maps'
  BY <1>1, <1>2, <1>3, <1>4 DEF Maps
<1>6. TypeOK'
  <2>1. process \in Mapping /\ deviceMap' \in Mapping /\ updates' \in Mapping
    BY <1>1, <1>2 DEF TypeOK, Mapping, Listed
  <2>. QED  BY <1>1, <1>4, <2>1 DEF TypeOK
<1>7. ASSUME NEW e, IsHeard(e)
      PROVE  /\ IsHeard(e)'
             /\ e.pid \in Pids /\ learned[e.pid] = NoPackage =>
                   deviceMap[e.pid] = NoPackage /\ e.own = NoPackage
  BY <1>3, <1>4, <1>7 DEF IsHeard
<1>8. \A e \in stored : IsHeard(e) /\ IsHeard(e)'
  BY <1>1, <1>7 DEF Lines
<1>9. \A i \in 1 .. Len(pending) : IsHeard(pending[i])'
  <2>1. ASSUME NEW i \in 1 .. Len(pending), NEW e, e = pending[i] PROVE IsHeard(e)'
    BY <1>1, <1>7, <2>1 DEF Lines
  <2>2. pending' = pending
    BY <1>4
  <2>. QED  BY <2>1, <2>2
<1>10. ~Bears
  BY <1>3 DEF Bears, IsNew
<1>11. ASSUME ~Bears', NEW e \in stored
       PROVE  Accepts(filter, e, Heard') <=> Accepts(filter, e, Heard)
  <2>1. PICK k1 : k1 = Heard
    OBVIOUS
  <2>2. PICK k2 : k2 = Heard'
    OBVIOUS
  <2>3. \A p \in Pids :
           /\ k1[p] = IF learned[p] # NoPackage THEN learned[p] ELSE deviceMap[p]
           /\ k2[p] = IF learned[p] # NoPackage THEN learned[p] ELSE deviceMap'[p]
    BY <1>4, <2>1, <2>2 DEF Heard, Known
  <2>4. CASE \A p \in Pids : p = e.pid => k1[p] = k2[p]
    <3>1. Accepts(filter, e, k1) <=> Accepts(filter, e, k2)
      BY <2>4, SameKnown
    <3>. QED  BY <2>1, <2>2, <3>1
  <2>5. CASE ~(\A p \in Pids : p = e.pid => k1[p] = k2[p])
    <3>1. e.pid \in Pids /\ k1[e.pid] # k2[e.pid]
      BY <2>5
    <3>2. learned[e.pid] = NoPackage
      BY <2>3, <3>1
    <3>3. deviceMap[e.pid] = NoPackage /\ e.own = NoPackage
      BY <1>7, <1>8, <3>1, <3>2
    <3>4. PICK package : package = deviceMap'[e.pid]
      OBVIOUS
    <3>5. k1[e.pid] = NoPackage /\ k2[e.pid] = package /\ package # NoPackage
      BY <2>3, <3>1, <3>2, <3>3, <3>4
    <3>6. updates'[e.pid] = package
      BY <1>3, <3>1, <3>3, <3>4, <3>5
    <3>7. ~BearsOn(filter, package)
      <4>1. IsNew(learned', e.pid, updates'[e.pid])
        BY <1>4, <3>1, <3>2, <3>5, <3>6, LogViewAssumption DEF IsNew
      <4>2. ~BearsOn(filter', updates'[e.pid])
        BY <1>11, <3>1, <4>1 DEF Bears
      <4>3. filter' = filter
        BY <1>4
      <4>. QED  BY <3>6, <4>2, <4>3
    <3>8. Accepts(filter, e, k1) <=> Accepts(filter, e, k2)
      BY <3>1, <3>3, <3>5, <3>7, Indifferent
    <3>. QED  BY <2>1, <2>2, <3>8
  <2>. QED  BY <2>4, <2>5
<1>12. Agrees
  BY <1>4, <1>10, <1>11 DEF Agrees
<1>13. LeavesAlone
  BY <1>1, <1>4, <1>12 DEF LeavesAlone, TypeOK
<1>. QED  BY <1>5, <1>6, <1>8, <1>9, <1>13, AloneKeeps

LEMMA LearnRefreshedKeeps ==
    ASSUME VInv, LearnRefreshed
    PROVE  VInv'
<1>1. TypeOK /\ Maps /\ Lines /\ relevance \in Nat /\ MaxRelevance \in Nat
  BY LogViewAssumption DEF VInv, TypeOK
<1>2. /\ updates # Nothing /\ updates' = Nothing
      /\ learned' = [p \in Pids |-> IF updates[p] # NoPackage THEN updates[p] ELSE learned[p]]
      /\ UNCHANGED <<process, deviceMap, filter, pending, arrived, cache, selection>>
  BY DEF LearnRefreshed
<1>3. ASSUME NEW p \in Pids
      PROVE  /\ learned'[p] = IF updates[p] # NoPackage THEN updates[p] ELSE learned[p]
             /\ updates'[p] = NoPackage
             /\ updates[p] # NoPackage => updates[p] = process[p] /\ deviceMap[p] = process[p]
             /\ learned[p] \in {NoPackage, process[p]}
             /\ deviceMap[p] \in {NoPackage, process[p]}
  BY <1>1, <1>2 DEF Maps, Nothing
<1>4. Maps'
  BY <1>2, <1>3 DEF Maps
<1>5. Heard' = Heard
  <2>1. Heard' = Known(learned', deviceMap)
    BY <1>2 DEF Heard
  <2>2. \A p \in Pids : (IF learned'[p] # NoPackage THEN learned'[p] ELSE deviceMap[p])
                        = IF learned[p] # NoPackage THEN learned[p] ELSE deviceMap[p]
    BY <1>3
  <2>. QED  BY <2>1, <2>2 DEF Heard, Known
<1>6. ~Bears'
  BY <1>3 DEF Bears, IsNew
<1>7. ASSUME NEW e, IsHeard(e) PROVE IsHeard(e)'
  BY <1>2, <1>3, <1>7 DEF IsHeard
<1>8. \A e \in stored : IsHeard(e)'
  BY <1>1, <1>7 DEF Lines
<1>9. \A i \in 1 .. Len(pending) : IsHeard(pending[i])'
  <2>1. ASSUME NEW i \in 1 .. Len(pending), NEW e, e = pending[i] PROVE IsHeard(e)'
    BY <1>1, <1>7, <2>1 DEF Lines
  <2>2. pending' = pending
    BY <1>2
  <2>. QED  BY <2>1, <2>2
<1>10. learned' \in Mapping /\ updates' \in Mapping
  BY <1>1, <1>2 DEF TypeOK, Mapping, Nothing
<1>11. CASE ~Bears
  <2>1. UNCHANGED <<relevance, stored, dirty>>
    BY <1>11 DEF LearnRefreshed, Bears
  <2>2. TypeOK'
    BY <1>1, <1>2, <1>10, <2>1 DEF TypeOK
  <2>3. Agrees
    BY <1>2, <1>5, <1>11, <2>1 DEF Agrees
  <2>4. LeavesAlone
    BY <1>1, <1>2, <2>1, <2>3 DEF LeavesAlone, TypeOK
  <2>. QED  BY <1>4, <1>8, <1>9, <2>2, <2>4, AloneKeeps
<1>12. CASE Bears
  <2>1. /\ relevance' = relevance + 1 /\ dirty' = FALSE
        /\ stored' = Synced(filter, Known(learned', deviceMap))
    BY <1>12 DEF LearnRefreshed, Bears
  <2>2. stored' = SyncedIfDirty(TRUE, Heard)
    BY <1>2, <1>5, <2>1 DEF SyncedIfDirty, Heard
  <2>3. PICK k : k = Heard
    OBVIOUS
  <2>4. LET es == SyncedIfDirty(TRUE, k)
        IN  /\ es \in SUBSET StoredEntry /\ Queue(es)
            /\ Cardinality(es) <= MaxBufferedSize(filter)
            /\ \A x \in es : \E e \in stored : Same(e, x)
            /\ Current(es, filter, k)
    BY <1>1, SyncedIs
  <2>5. /\ stored' \in SUBSET StoredEntry /\ Queue(stored')
        /\ Cardinality(stored') <= MaxBufferedSize(filter)
        /\ \A x \in stored' : \E e \in stored : Same(e, x)
        /\ Current(stored', filter, Heard)
    BY <2>2, <2>3, <2>4
  <2>6. filter # NoFilter
    BY <1>12 DEF Bears, BearsOn
  <2>7. Moves
    BY <1>2, <2>1, <2>6 DEF Moves
  <2>8. relevance' \in 0 .. MaxRelevance
    BY <1>1, <1>2, <2>1 DEF Maps
  <2>9. TypeOK'
    BY <1>1, <1>2, <1>10, <2>1, <2>5, <2>8 DEF TypeOK
  <2>10. \A x \in stored' : IsHeard(x)'
    BY <1>8, <2>5, SameHeard
  <2>11. Lines'
    <3>1. ASSUME NEW x \in stored', NEW i \in 1 .. Len(pending) PROVE x.id < pending[i].id
      <4>1. PICK e \in stored : Same(e, x)
        BY <2>5
      <4>. QED  BY <1>1, <4>1 DEF Lines, Follow, Same
    <3>2. Follow(pending', stored')
      BY <1>1, <1>2, <3>1 DEF Lines, Follow
    <3>. QED  BY <1>2, <1>9, <2>5, <2>10, <3>2 DEF Lines
  <2>12. CacheIsOfFilter' /\ RowsAreFresh'
    <3>1. ~IsCurrent(cache, relevance')
      BY <2>7, MovedOn
    <3>2. cache # NoCache => cache.signature.relevance \in Int
      BY <1>1, CacheHas, LogViewAssumption DEF CacheType
    <3>3. CacheIsOfFilter'
      BY <1>1, <1>2, <2>1, <3>2 DEF VInv, CacheIsOfFilter
    <3>. QED  BY <1>2, <3>1, <3>3 DEF RowsAreFresh, IsCurrent
  <2>13. FlagsAreFresh'
    BY <1>2, <1>5, <2>5 DEF FlagsAreFresh, Current
  <2>14. PicksAreRight'
    <3>1. ASSUME NEW s \in selection PROVE s.since <= relevance /\ s.since \in Int
      BY LogViewAssumption DEF VInv, PicksAreRight, TypeOK
    <3>. QED  BY <1>1, <1>2, <2>1, <3>1 DEF PicksAreRight
  <2>. QED  BY <1>4, <2>9, <2>11, <2>12, <2>13, <2>14 DEF VInv
<1>. QED  BY <1>11, <1>12

\* Nothing waits to be heard.
LEMMA NothingBears ==
    ASSUME updates = Nothing
    PROVE  ~Bears
<1>1. \A p \in Pids : updates[p] = NoPackage
  BY DEF Nothing
<1>. QED  BY <1>1 DEF Bears, IsNew

\* Lines that stay lines.
LEMMA StoredLines ==
    ASSUME VInv, stored' \in SUBSET StoredEntry, Queue(stored'),
           Cardinality(stored') <= MaxBufferedSize(filter'),
           \A x \in stored' : \E e \in stored : Same(e, x),
           UNCHANGED <<process, deviceMap, updates, learned, pending, arrived>>
    PROVE  Lines'
<1>1. Lines
  BY DEF VInv
<1>2. \A e \in stored : IsHeard(e)'
  BY <1>1 DEF Lines, IsHeard
<1>3. \A x \in stored' : IsHeard(x)'
  BY <1>2, SameHeard
<1>4. \A i \in 1 .. Len(pending) : IsHeard(pending[i])'
  <2>1. ASSUME NEW i \in 1 .. Len(pending), NEW e, e = pending[i] PROVE IsHeard(e)'
    BY <1>1, <2>1 DEF Lines, IsHeard
  <2>2. pending' = pending
    OBVIOUS
  <2>. QED  BY <2>1, <2>2
<1>5. ASSUME NEW x \in stored', NEW i \in 1 .. Len(pending) PROVE x.id < pending[i].id
  <2>1. PICK e \in stored : Same(e, x)
    OBVIOUS
  <2>. QED  BY <1>1, <2>1 DEF Lines, Follow, Same
<1>6. Follow(pending', stored')
  BY <1>1, <1>5 DEF Lines, Follow
<1>. QED  BY <1>3, <1>4, <1>6 DEF Lines

\* A buffer flagged under a filter of the user's.
LEMMA ReflaggedIs ==
    ASSUME VInv, NEW f, NEW T, NEW known,
           T \in {Settled(FlaggedAll(stored, f, known), f),
                  Trimmed(FlaggedAll(stored, f, known), f)}
    PROVE  /\ T \in SUBSET StoredEntry /\ Queue(T)
           /\ Cardinality(T) <= MaxBufferedSize(f)
           /\ Cardinality(T) <= Cardinality(stored)
           /\ \A x \in T : \E e \in stored : Same(e, x)
           /\ Current(T, f, known)
           /\ ~(Cardinality(T) < Cardinality(stored)) =>
                 \A e \in stored : \E x \in T : Same(e, x)
           /\ \A d, e \in stored :
                 /\ f # NoFilter /\ Accepts(f, d, known)
                 /\ d.id \notin {x.id : x \in T} /\ e.id \in {x.id : x \in T}
                 => Accepts(f, e, known)
<1>. DEFINE F == FlaggedAll(stored, f, known)
<1>1. stored \in SUBSET StoredEntry /\ Queue(stored)
  BY DEF VInv, TypeOK, Lines
<1>2. /\ F \in SUBSET StoredEntry /\ Queue(F)
      /\ Cardinality(F) = Cardinality(stored)
      /\ \A x \in F : /\ \E e \in stored : Same(e, x)
                      /\ x.matches <=> f # NoFilter /\ Accepts(f, x, known)
      /\ \A e \in stored : \E x \in F : Same(e, x)
  BY <1>1, FlaggedQueue
<1>. HIDE DEF F
<1>3. /\ T \in SUBSET F /\ Cardinality(T) <= MaxBufferedSize(f)
      /\ \A d \in F \ T, e \in T : GoesFirst(d, e, f)
  <2>1. CASE T = Settled(F, f)
    BY <1>2, <2>1, SettledIs
  <2>2. CASE T = Trimmed(F, f)
    BY <1>2, <2>2, TrimmedIs
  <2>. QED  BY <2>1, <2>2 DEF F
<1>4. /\ IsFiniteSet(T) /\ Cardinality(T) \in Nat /\ Cardinality(F) \in Nat
      /\ Cardinality(T) <= Cardinality(F) /\ (Cardinality(T) = Cardinality(F) => T = F)
  BY <1>2, <1>3, FS_Subset, FS_CardinalityType DEF Queue
<1>5. Queue(T)
  BY <1>2, <1>3, <1>4 DEF Queue
<1>6. Current(T, f, known)
  BY <1>2, <1>3 DEF Current
<1>7. ASSUME ~(Cardinality(T) < Cardinality(stored)), NEW e \in stored
      PROVE  \E x \in T : Same(e, x)
  <2>1. T = F
    BY <1>2, <1>4, <1>7
  <2>. QED  BY <1>2, <2>1
<1>8. ASSUME NEW d \in stored, NEW e \in stored, f # NoFilter, Accepts(f, d, known),
             d.id \notin {x.id : x \in T}, e.id \in {x.id : x \in T}
      PROVE  Accepts(f, e, known)
  <2>1. PICK d1 \in F : Same(d, d1)
    BY <1>2
  <2>2. PICK e1 \in T : e1.id = e.id
    BY <1>8
  <2>3. PICK e2 \in F : Same(e, e2)
    BY <1>2
  <2>4. e1 = e2
    BY <1>2, <1>3, <2>2, <2>3 DEF Queue, Same
  <2>5. d1 \notin T
    BY <1>8, <2>1 DEF Same
  <2>6. GoesFirst(d1, e1, f)
    BY <1>3, <2>1, <2>5
  <2>7. Accepts(f, d1, known) /\ (Accepts(f, e1, known) => Accepts(f, e, known))
    BY <1>8, <2>1, <2>3, <2>4, SameAccepted
  <2>8. d1.matches /\ (e1.matches => Accepts(f, e1, known))
    BY <1>2, <1>3, <1>8, <2>1, <2>7
  <2>9. d1.matches \in BOOLEAN /\ e1.matches \in BOOLEAN
    BY <1>2, <1>3 DEF Queue
  <2>10. e1.matches
    BY <1>8, <2>6, <2>8, <2>9, Zenon DEF GoesFirst
  <2>. QED  BY <2>7, <2>8, <2>10
<1>. QED  BY <1>2, <1>3, <1>4, <1>5, <1>6, <1>7, <1>8

LEMMA ApplyFilterKeeps ==
    ASSUME VInv, NEW f \in {NoFilter} \cup Terms, ApplyFilter(f)
    PROVE  VInv'
<1>1. TypeOK /\ Maps /\ Lines
  BY DEF VInv
<1>2. /\ updates = Nothing /\ filter' = f /\ selection' = {} /\ dirty' = FALSE
      /\ cache' = NoCache
      /\ stored' = Settled(FlaggedAll(stored, f, Heard), f)
      /\ UNCHANGED <<process, deviceMap, updates, learned, relevance, pending, arrived>>
  BY Zenon DEF ApplyFilter, IsNextEvent, Synced, FlaggedAll, Heard
<1>3. PICK k : k = Heard
  OBVIOUS
<1>4. PICK T : T = Settled(FlaggedAll(stored, f, k), f)
  OBVIOUS
<1>5. /\ T \in SUBSET StoredEntry /\ Queue(T) /\ Cardinality(T) <= MaxBufferedSize(f)
      /\ \A x \in T : \E e \in stored : Same(e, x)
      /\ Current(T, f, k)
  BY <1>4, ReflaggedIs
<1>6. T = stored'
  BY <1>2, <1>3, <1>4
<1>7. Lines'
  BY <1>2, <1>5, <1>6, StoredLines
<1>8. TypeOK'
  BY <1>1, <1>2, <1>5, <1>6 DEF TypeOK
<1>9. Maps'
  BY <1>1, <1>2 DEF Maps
<1>10. Heard' = Heard
  BY <1>2 DEF Heard, Known
<1>11. FlagsAreFresh'
  BY <1>2, <1>3, <1>5, <1>6, <1>10 DEF FlagsAreFresh, Current
<1>12. CacheIsOfFilter' /\ RowsAreFresh' /\ PicksAreRight'
  BY <1>2 DEF CacheIsOfFilter, RowsAreFresh, IsCurrent, PicksAreRight
<1>. QED  BY <1>7, <1>8, <1>9, <1>11, <1>12 DEF VInv

LEMMA ClearKeeps ==
    ASSUME VInv, ClearLogs
    PROVE  VInv'
<1>1. TypeOK /\ Maps /\ Lines
  BY DEF VInv
<1>2. /\ updates = Nothing /\ selection' = {} /\ stored' = {} /\ pending' = <<>>
      /\ learned' = Nothing /\ cache' = NoCache
      /\ UNCHANGED <<process, deviceMap, updates, filter, relevance, dirty, arrived>>
  BY DEF ClearLogs, IsNextEvent
<1>3. /\ learned' \in Mapping /\ pending' \in Seq(Entry) /\ Len(pending') = 0
      /\ \A p \in Pids : learned'[p] = NoPackage
  BY <1>2 DEF Mapping, Nothing
<1>4. Len(pending') <= MaxPending
  BY <1>3, LogViewAssumption
<1>5. TypeOK'
  BY <1>1, <1>2, <1>3, <1>4 DEF TypeOK
<1>6. Maps'
  BY <1>1, <1>2, <1>3 DEF Maps
<1>7. Lines'
  <2>1. Queue({}) /\ Cardinality({}) = 0 /\ MaxBufferedSize(filter') \in Nat
    BY FS_EmptySet, CapacityType DEF Queue
  <2>2. \A i \in 1 .. Len(pending') : FALSE
    BY <1>3
  <2>3. Follow(pending', stored')
    BY <2>2 DEF Follow
  <2>. QED  BY <1>2, <2>1, <2>2, <2>3 DEF Lines
<1>8. CacheIsOfFilter' /\ RowsAreFresh' /\ PicksAreRight' /\ FlagsAreFresh'
  BY <1>2 DEF CacheIsOfFilter, RowsAreFresh, IsCurrent, PicksAreRight, FlagsAreFresh
<1>. QED  BY <1>5, <1>6, <1>7, <1>8 DEF VInv

\* The list the user sees is what a scan would find.
LEMMA FilteredIs ==
    ASSUME VInv, updates = Nothing
    PROVE  /\ Filtered \in CacheType /\ Filtered.signature = Signature(filter, relevance)
           /\ Filtered.rows = Hits(filter, stored, Heard)
           /\ Hits(filter, stored, Heard) \in SUBSET (1 .. MaxArrivals)
<1>1. ~Bears /\ TypeOK /\ 0 \in 0 .. MaxRelevance
  BY NothingBears, LogViewAssumption DEF VInv
<1>2. PICK k : k = Heard
  OBVIOUS
<1>3. Hits(filter, stored, k) \in SUBSET (1 .. MaxArrivals)
  BY <1>1, HitsType DEF TypeOK
<1>4. CASE IsCurrent(cache, relevance)
  <2>1. Filtered = cache
    BY <1>4 DEF Filtered
  <2>2. cache.rows = Hits(filter, stored, k)
    BY <1>1, <1>2, <1>4 DEF VInv, RowsAreFresh
  <2>. QED  BY <1>1, <1>2, <1>3, <1>4, <2>1, <2>2, CacheHas DEF IsCurrent
<1>5. CASE ~IsCurrent(cache, relevance)
  <2>1. Filtered = [signature |-> Signature(filter, relevance), rows |-> Hits(filter, stored, k)]
    BY <1>2, <1>5, Zenon DEF Filtered, Hits, Heard
  <2>2. Signature(filter, relevance) \in [terms : {NoFilter} \cup Terms, relevance : 0 .. MaxRelevance]
    BY <1>1 DEF Signature, TypeOK
  <2>. QED  BY <1>2, <1>3, <2>1, <2>2 DEF CacheType
<1>. QED  BY <1>4, <1>5

\* The user looks, and may pick rows.
LEMMA LookingKeeps ==
    ASSUME VInv, updates = Nothing, cache' = Filtered,
           UNCHANGED <<process, deviceMap, updates, learned, filter, relevance, dirty,
                       stored, pending, arrived>>,
           \A s \in selection' :
              \/ s \in selection
              \/ /\ s \in [row : 1 .. MaxArrivals, entry : 1 .. MaxArrivals,
                           since : 0 .. MaxRelevance]
                 /\ s.since = relevance /\ s.entry \in Hits(filter, stored, Heard)
                 /\ Rank(s.entry, Hits(filter, stored, Heard)) = s.row
    PROVE  VInv'
<1>1. TypeOK /\ Maps /\ Lines /\ relevance \in Nat
  BY LogViewAssumption DEF VInv, TypeOK
<1>2. Heard' = Heard
  BY DEF Heard, Known
<1>3. ~Bears /\ ~Bears'
  <2>1. ~Bears
    BY NothingBears
  <2>2. Bears' => Bears
    BY DEF Bears, IsNew
  <2>. QED  BY <2>1, <2>2
<1>4. /\ Filtered \in CacheType /\ Filtered.signature = Signature(filter, relevance)
      /\ Filtered.rows = Hits(filter, stored, Heard)
  BY FilteredIs
<1>5. TypeOK'
  <2>1. selection' \subseteq [row : 1 .. MaxArrivals, entry : 1 .. MaxArrivals,
                              since : 0 .. MaxRelevance]
    BY <1>1 DEF TypeOK
  <2>2. cache' \in {NoCache} \cup
        [signature : [terms : {NoFilter} \cup Terms, relevance : 0 .. MaxRelevance],
         rows : SUBSET (1 .. MaxArrivals)]
    BY <1>4 DEF CacheType
  <2>3. /\ {process', deviceMap', updates', learned'} \subseteq Mapping
        /\ filter' \in {NoFilter} \cup Terms
        /\ relevance' \in 0 .. MaxRelevance /\ dirty' \in BOOLEAN
        /\ stored' \subseteq StoredEntry
        /\ pending' \in Seq(Entry) /\ Len(pending') <= MaxPending
        /\ arrived' \in 0 .. MaxArrivals
    BY <1>1 DEF TypeOK
  <2>. QED  BY <2>1, <2>2, <2>3 DEF TypeOK
<1>6. Maps'
  BY <1>1 DEF Maps
<1>7. Lines'
  BY <1>1 DEF Lines, IsHeard
<1>8. CacheIsOfFilter'
  BY <1>1, <1>4 DEF CacheIsOfFilter, Signature
<1>9. RowsAreFresh'
  BY <1>2, <1>4 DEF RowsAreFresh
<1>10. FlagsAreFresh'
  BY <1>2, <1>3 DEF VInv, FlagsAreFresh
<1>11. PicksAreRight'
  <2>1. ASSUME NEW s \in selection'
        PROVE  /\ s.since <= relevance
               /\ s.since = relevance =>
                     /\ s.entry \in Hits(filter, stored, Heard)
                     /\ Rank(s.entry, Hits(filter, stored, Heard)) = s.row
    <3>1. CASE s \in selection
      BY <1>3, <3>1 DEF VInv, PicksAreRight
    <3>2. CASE s \notin selection
      BY <1>1, <3>2
    <3>. QED  BY <3>1, <3>2
  <2>2. Hits(filter', stored', Heard') = Hits(filter, stored, Heard) /\ relevance' = relevance
    BY <1>2
  <2>. QED  BY <2>1, <2>2 DEF PicksAreRight
<1>. QED  BY <1>5, <1>6, <1>7, <1>8, <1>9, <1>10, <1>11 DEF VInv

\* The row the user picks.
LEMMA SelectedIs ==
    ASSUME VInv, updates = Nothing, NEW rows \in SUBSET (1 .. Len(Rows)), NEW s \in Selected(rows)
    PROVE  /\ s \in [row : 1 .. MaxArrivals, entry : 1 .. MaxArrivals,
                     since : 0 .. MaxRelevance]
           /\ s.since = relevance /\ s.entry \in Hits(filter, stored, Heard)
           /\ Rank(s.entry, Hits(filter, stored, Heard)) = s.row
<1>1. PICK H : H = Hits(filter, stored, Heard)
  OBVIOUS
<1>2. H \in SUBSET (1 .. MaxArrivals) /\ Rows = Sorted(H)
  BY <1>1, FilteredIs DEF Rows
<1>3. PICK i \in rows : s = [row |-> i, entry |-> Rows[i], since |-> relevance]
  BY DEF Selected
<1>4. /\ Cardinality(H) \in 0 .. MaxArrivals /\ Len(Sorted(H)) = Cardinality(H)
      /\ \A n \in 1 .. Cardinality(H) : Sorted(H)[n] \in H /\ Rank(Sorted(H)[n], H) = n
  BY <1>2, SortedIs
<1>5. i \in 1 .. Cardinality(H) /\ i \in 1 .. MaxArrivals
  BY <1>2, <1>3, <1>4, LogViewAssumption
<1>6. Rows[i] \in H /\ Rank(Rows[i], H) = i /\ Rows[i] \in 1 .. MaxArrivals
  BY <1>2, <1>4, <1>5
<1>7. relevance \in 0 .. MaxRelevance
  BY DEF VInv, TypeOK
<1>. QED  BY <1>1, <1>3, <1>5, <1>6, <1>7

LEMMA RebuildKeeps ==
    ASSUME VInv, Rebuild
    PROVE  VInv'
<1>1. /\ updates = Nothing /\ cache' = Filtered
      /\ UNCHANGED <<process, deviceMap, updates, learned, filter, relevance, dirty,
                     stored, pending, arrived>>
      /\ \A s \in selection' : s \in selection
  BY DEF Rebuild, IsNextEvent
<1>. QED  BY <1>1, LookingKeeps

LEMMA SelectRowsKeeps ==
    ASSUME VInv, NEW rows \in SUBSET (1 .. Len(Rows)), SelectRows(rows)
    PROVE  VInv'
<1>1. PICK picked \in SUBSET (1 .. Len(Rows)) : picked = {i \in rows : IsSelectable(i)}
  OBVIOUS
<1>2. /\ updates = Nothing /\ cache' = Filtered /\ selection' = Selected(picked)
      /\ UNCHANGED <<process, deviceMap, updates, learned, filter, relevance, dirty,
                     stored, pending, arrived>>
  BY <1>1 DEF SelectRows, IsNextEvent
<1>3. \A s \in selection' :
         /\ s \in [row : 1 .. MaxArrivals, entry : 1 .. MaxArrivals, since : 0 .. MaxRelevance]
         /\ s.since = relevance /\ s.entry \in Hits(filter, stored, Heard)
         /\ Rank(s.entry, Hits(filter, stored, Heard)) = s.row
  BY <1>2, SelectedIs
<1>. QED  BY <1>2, <1>3, LookingKeeps

LEMMA SetRowKeeps ==
    ASSUME VInv, NEW row \in 1 .. Len(Rows), NEW isSelected \in BOOLEAN,
           SetRowSelected(row, isSelected)
    PROVE  VInv'
<1>1. PICK picked \in SUBSET (1 .. Len(Rows)) : picked = {i \in {row} : isSelected}
  OBVIOUS
<1>2. /\ updates = Nothing /\ cache' = Filtered
      /\ selection' = {s \in selection : s.row # row} \cup Selected(picked)
      /\ UNCHANGED <<process, deviceMap, updates, learned, filter, relevance, dirty,
                     stored, pending, arrived>>
  BY <1>1 DEF SetRowSelected, IsNextEvent
<1>3. \A s \in Selected(picked) :
         /\ s \in [row : 1 .. MaxArrivals, entry : 1 .. MaxArrivals, since : 0 .. MaxRelevance]
         /\ s.since = relevance /\ s.entry \in Hits(filter, stored, Heard)
         /\ Rank(s.entry, Hits(filter, stored, Heard)) = s.row
  BY <1>2, SelectedIs
<1>4. \A s \in selection' : s \in selection \/ s \in Selected(picked)
  BY <1>2
<1>. QED  BY <1>2, <1>3, <1>4, LookingKeeps

\* The latest of any entries is there to be chosen.
LEMMA LatestIs ==
    ASSUME NEW es \in SUBSET StoredEntry, es # {}
    PROVE  (CHOOSE e \in es : \A d \in es : d.id <= e.id) \in es
<1>1. MaxArrivals \in Nat /\ \A e \in es : e.id \in 1 .. MaxArrivals
  BY LogViewAssumption DEF StoredEntry
<1>. DEFINE ages == {MaxArrivals - e.id : e \in es}
<1>2. ages \in SUBSET Nat /\ ages # {}
  BY <1>1
<1>3. PICK m \in ages : \A n \in ages : m <= n
  <2>. HIDE DEF ages
  <2>. QED  BY <1>2, Smallest
<1>4. PICK e \in es : m = MaxArrivals - e.id
  BY <1>3
<1>5. ASSUME NEW d \in es PROVE d.id <= e.id
  <2>1. MaxArrivals - e.id <= MaxArrivals - d.id
    BY <1>3, <1>4
  <2>2. e.id \in Int /\ d.id \in Int
    BY <1>1
  <2>. QED  BY <1>1, <2>1, <2>2
<1>6. \E x \in es : \A d \in es : d.id <= x.id
  BY <1>5
<1>. QED  BY <1>6

\* Recording every stored entry again teaches the tab nothing.
LEMMA SubmitLearnsNothing ==
    ASSUME VInv, SubmitLogLinesLimit
    PROVE  learned' = learned
<1>1. TypeOK /\ Maps /\ Lines /\ learned \in Mapping
  BY DEF VInv, TypeOK
<1>. DEFINE own(p) == {e \in stored : e.pid = p /\ e.own # NoPackage}
            latest(p) == CHOOSE e \in own(p) : \A d \in own(p) : d.id <= e.id
<1>2. learned' = [p \in Pids |-> IF own(p) = {} THEN learned[p] ELSE latest(p).own]
  BY DEF SubmitLogLinesLimit
<1>3. ASSUME NEW p \in Pids, own(p) # {} PROVE latest(p).own = learned[p]
  <2>1. own(p) \in SUBSET StoredEntry
    BY <1>1 DEF TypeOK
  <2>2. latest(p) \in own(p)
    <3>1. PICK es : es = own(p)
      OBVIOUS
    <3>2. (CHOOSE e \in es : \A d \in es : d.id <= e.id) \in es
      BY <1>3, <2>1, <3>1, LatestIs
    <3>. QED  BY <3>1, <3>2
  <2>3. PICK e \in stored : e = latest(p) /\ e.pid = p /\ e.own # NoPackage
    BY <2>2
  <2>4. IsHeard(e)
    BY <1>1 DEF Lines
  <2>5. e.own = process[p] /\ learned[p] # NoPackage
    BY <2>3, <2>4 DEF IsHeard
  <2>6. learned[p] \in {NoPackage, process[p]}
    BY <1>1 DEF Maps
  <2>. QED  BY <2>3, <2>5, <2>6
<1>. HIDE DEF own, latest
<1>4. \A p \in Pids : learned[p] = IF own(p) = {} THEN learned[p] ELSE latest(p).own
  BY <1>3
<1>. QED  BY <1>1, <1>2, <1>4 DEF Mapping

LEMMA SubmitKeeps ==
    ASSUME VInv, SubmitLogLinesLimit
    PROVE  VInv'
<1>1. TypeOK /\ Maps /\ Lines
  BY DEF VInv
<1>2. learned' = learned
  BY SubmitLearnsNothing
<1>3. /\ updates = Nothing /\ cache' = NoCache
      /\ stored' = Trimmed({Flagged(e, filter, Known(learned', deviceMap)) : e \in stored}, filter)
      /\ selection' = IF Cardinality(stored') < Cardinality(stored) THEN {} ELSE selection
      /\ UNCHANGED <<process, deviceMap, updates, filter, relevance, dirty, pending, arrived>>
  BY Zenon DEF SubmitLogLinesLimit, IsNextEvent
<1>4. stored' = Trimmed(FlaggedAll(stored, filter, Heard), filter)
  BY <1>2, <1>3 DEF FlaggedAll, Heard
<1>5. PICK k : k = Heard
  OBVIOUS
<1>6. PICK T : T = Trimmed(FlaggedAll(stored, filter, k), filter)
  OBVIOUS
<1>7. /\ T \in SUBSET StoredEntry /\ Queue(T) /\ Cardinality(T) <= MaxBufferedSize(filter)
      /\ \A x \in T : \E e \in stored : Same(e, x)
      /\ Current(T, filter, k)
      /\ ~(Cardinality(T) < Cardinality(stored)) =>
            \A e \in stored : \E x \in T : Same(e, x)
  BY <1>6, ReflaggedIs
<1>8. T = stored'
  BY <1>4, <1>5, <1>6
<1>9. Lines'
  BY <1>2, <1>3, <1>7, <1>8, StoredLines
<1>10. TypeOK'
  BY <1>1, <1>2, <1>3, <1>7, <1>8 DEF TypeOK
<1>11. Maps'
  BY <1>1, <1>2, <1>3 DEF Maps
<1>12. Heard' = Heard
  BY <1>2, <1>3 DEF Heard, Known
<1>13. ~Bears
  BY <1>3, NothingBears
<1>14. FlagsAreFresh'
  BY <1>3, <1>5, <1>7, <1>8, <1>12 DEF FlagsAreFresh, Current
<1>15. CacheIsOfFilter' /\ RowsAreFresh'
  BY <1>3 DEF CacheIsOfFilter, RowsAreFresh, IsCurrent
<1>16. PicksAreRight'
  <2>1. CASE Cardinality(T) < Cardinality(stored)
    BY <1>3, <1>8, <2>1 DEF PicksAreRight
  <2>2. CASE ~(Cardinality(T) < Cardinality(stored))
    <3>1. selection' = selection
      BY <1>3, <1>8, <2>2
    <3>2. Hits(filter, T, k) = Hits(filter, stored, k)
      BY <1>7, <2>2, SameHits
    <3>3. Hits(filter', stored', Heard') = Hits(filter, stored, Heard)
      BY <1>3, <1>5, <1>8, <1>12, <3>2
    <3>4. relevance' = relevance
      BY <1>3
    <3>. QED  BY <1>13, <3>1, <3>3, <3>4 DEF VInv, PicksAreRight
  <2>. QED  BY <2>1, <2>2
<1>. QED  BY <1>9, <1>10, <1>11, <1>14, <1>15, <1>16 DEF VInv

LEMMA StayKeeps ==
    ASSUME VInv, UNCHANGED vars
    PROVE  VInv'
<1>1. UNCHANGED <<process, deviceMap, updates, learned, filter, relevance, dirty,
                  stored, pending, arrived, cache, selection>>
  BY DEF vars
<1>2. Heard' = Heard /\ (Bears' <=> Bears)
  BY <1>1 DEF Heard, Known, Bears, IsNew
<1>3. TypeOK' /\ Maps' /\ CacheIsOfFilter'
  BY <1>1 DEF VInv, TypeOK, Maps, CacheIsOfFilter
<1>4. Lines'
  BY <1>1 DEF VInv, Lines, IsHeard
<1>5. RowsAreFresh' /\ FlagsAreFresh' /\ PicksAreRight'
  BY <1>1, <1>2 DEF VInv, RowsAreFresh, IsCurrent, FlagsAreFresh, PicksAreRight
<1>. QED  BY <1>3, <1>4, <1>5 DEF VInv

LEMMA InitV == Init => VInv
<1>. SUFFICES ASSUME Init PROVE VInv
  OBVIOUS
<1>1. /\ Nothing \in Mapping /\ \A p \in Pids : Nothing[p] = NoPackage
  BY DEF Nothing, Mapping
<1>2. TypeOK
  <2>1. <<>> \in Seq(Entry) /\ Len(<<>>) = 0
    OBVIOUS
  <2>2. pending \in Seq(Entry) /\ Len(pending) <= MaxPending
    BY <2>1, LogViewAssumption DEF Init
  <2>3. /\ relevance \in 0 .. MaxRelevance /\ dirty \in BOOLEAN
        /\ arrived \in 0 .. MaxArrivals
    <3>1. MaxRelevance \in Nat /\ MaxArrivals \in Nat
      BY LogViewAssumption
    <3>2. relevance = 0 /\ dirty = FALSE /\ arrived = 0
      BY DEF Init
    <3>3. dirty \in BOOLEAN
      BY <3>2
    <3>4. 0 \in 0 .. MaxRelevance /\ 0 \in 0 .. MaxArrivals
      BY <3>1
    <3>. QED  BY <3>2, <3>3, <3>4
  <2>. QED  BY <1>1, <2>2, <2>3 DEF Init, TypeOK
<1>3. Maps
  BY <1>1 DEF Init, Maps
<1>4. Lines
  <2>1. Queue({}) /\ Cardinality({}) = 0 /\ MaxBufferedSize(filter) \in Nat
    BY FS_EmptySet, CapacityType DEF Queue
  <2>2. \A i \in 1 .. Len(pending) : FALSE
    BY DEF Init
  <2>3. Follow(pending, stored)
    BY <2>2 DEF Follow
  <2>. QED  BY <2>1, <2>2, <2>3 DEF Init, Lines
<1>5. CacheIsOfFilter /\ RowsAreFresh /\ PicksAreRight /\ FlagsAreFresh
  BY DEF Init, CacheIsOfFilter, RowsAreFresh, IsCurrent, PicksAreRight, FlagsAreFresh
<1>. QED  BY <1>2, <1>3, <1>4, <1>5 DEF VInv

LEMMA NextKeeps == ~PidsAreReused /\ VInv /\ [Next]_vars => VInv'
<1>. SUFFICES ASSUME ~PidsAreReused, VInv, [Next]_vars PROVE VInv'
  OBVIOUS
<1>1. CASE UNCHANGED vars
  BY <1>1, StayKeeps
<1>2. ASSUME NEW pid \in Pids, NEW package \in Packages, Launch(pid, package) PROVE VInv'
  BY <1>2, LaunchKeeps
<1>3. ASSUME NEW pid \in Pids, NEW paused \in BOOLEAN, Line(pid, paused) PROVE VInv'
  BY <1>3, LineKeeps
<1>4. CASE AppendImmediate
  BY <1>4, ImmediateKeeps
<1>5. CASE FlushPending
  BY <1>5, FlushKeeps
<1>6. ASSUME NEW alive \in SUBSET Pids, Refresh(Listed(alive)) PROVE VInv'
  BY <1>6, RefreshKeeps
<1>7. CASE LearnRefreshed
  BY <1>7, LearnRefreshedKeeps
<1>8. ASSUME NEW f \in {NoFilter} \cup Terms, ApplyFilter(f) PROVE VInv'
  BY <1>8, ApplyFilterKeeps
<1>9. CASE Rebuild
  BY <1>9, RebuildKeeps
<1>10. ASSUME NEW rows \in SUBSET (1 .. Len(Rows)), SelectRows(rows) PROVE VInv'
  BY <1>10, SelectRowsKeeps
<1>11. ASSUME NEW row \in 1 .. Len(Rows), NEW isSelected \in BOOLEAN,
              SetRowSelected(row, isSelected)
       PROVE VInv'
  BY <1>11, SetRowKeeps
<1>12. CASE ClearLogs
  BY <1>12, ClearKeeps
<1>13. CASE SubmitLogLinesLimit
  BY <1>13, SubmitKeeps
<1>. QED  BY <1>1, <1>2, <1>3, <1>4, <1>5, <1>6, <1>7, <1>8, <1>9, <1>10, <1>11, <1>12, <1>13
          DEF Next

LEMMA VInvHolds == ~PidsAreReused => (Spec => []VInv)
<1>. SUFFICES ASSUME ~PidsAreReused PROVE Spec => []VInv
  OBVIOUS
<1>1. VInv /\ [Next]_vars => VInv'
  BY NextKeeps
<1>. QED  BY <1>1, InitV, PTL DEF Spec

\* The invariant says what the tab promises.
LEMMA VInvSays == VInv => ViewInv
<1>. SUFFICES ASSUME VInv PROVE ViewInv
  OBVIOUS
<1>1. TypeOK /\ relevance \in Nat
  BY LogViewAssumption DEF VInv, TypeOK
<1>2. CacheIsFresh
  <2>1. ASSUME updates = Nothing, IsCurrent(cache, relevance)
        PROVE  cache.rows = Hits(filter, stored, Heard)
    BY <2>1, NothingBears DEF VInv, RowsAreFresh
  <2>. QED  BY <2>1 DEF CacheIsFresh, Hits, Heard
<1>3. FlagsAwaitSync
  <2>1. ASSUME updates = Nothing, ~dirty, NEW e \in stored
        PROVE  e.matches = (filter # NoFilter /\ Accepts(filter, e, Heard))
    <3>1. e.matches <=> filter # NoFilter /\ Accepts(filter, e, Heard)
      BY <2>1, NothingBears DEF VInv, FlagsAreFresh
    <3>2. e.matches \in BOOLEAN /\ (filter # NoFilter /\ Accepts(filter, e, Heard)) \in BOOLEAN
      BY <1>1 DEF TypeOK, StoredEntry
    <3>. QED  BY <3>1, <3>2
  <2>. QED  BY <2>1 DEF FlagsAwaitSync, Heard
<1>4. SelectionIsStable
  <2>1. ASSUME NEW s \in selection, updates = Nothing, s.since = relevance
        PROVE  s.row <= Len(Rows) /\ Rows[s.row] = s.entry
    <3>1. PICK H : H = Hits(filter, stored, Heard)
      OBVIOUS
    <3>2. H \in SUBSET (1 .. MaxArrivals) /\ Rows = Sorted(H)
      BY <2>1, <3>1, FilteredIs DEF Rows
    <3>3. s.entry \in H /\ Rank(s.entry, H) = s.row
      BY <2>1, <3>1, NothingBears DEF VInv, PicksAreRight
    <3>4. /\ Cardinality(H) \in 0 .. MaxArrivals /\ Len(Sorted(H)) = Cardinality(H)
          /\ \A i \in H : /\ Rank(i, H) \in 1 .. Cardinality(H)
                          /\ Sorted(H)[Rank(i, H)] = i
      BY <3>2, SortedIs
    <3>5. s.row \in 1 .. Cardinality(H) /\ Sorted(H)[s.row] = s.entry
      BY <3>3, <3>4
    <3>6. s.row <= Len(Sorted(H))
      BY <3>4, <3>5
    <3>. QED  BY <3>2, <3>5, <3>6
  <2>. QED  BY <2>1 DEF SelectionIsStable
<1>. QED  BY <1>1, <1>2, <1>3, <1>4 DEF ViewInv

\* As long as the device gives no pid again, what a tab keeps up entry by
\* entry is what a scan of its buffer would find, its flags are current or
\* marked dirty, and a selected row holds the entry the user picked.
THEOREM ViewIsCorrect == ~PidsAreReused => (Spec => []ViewInv)
BY VInvHolds, VInvSays, PTL

-----------------------------------------------------------------------------
(* LogView: what an eviction takes.                                        *)

\* A queue goes in on top of a buffer whose flags are current or marked dirty.
LEMMA AppendTakes ==
    ASSUME VInv, updates = Nothing, filter # NoFilter,
           NEW queue \in Seq(Entry), Follow(queue, stored),
           NEW isDirty \in BOOLEAN, dirty => isDirty, NEW r, NEW known, known = Heard,
           AppendAll(queue, isDirty, r, known)
    PROVE  \A d, e \in stored :
              /\ Accepts(filter, d, known)
              /\ d.id \notin {x.id : x \in stored'} /\ e.id \in {x.id : x \in stored'}
              => Accepts(filter, e, known)
<1>1. TypeOK /\ Lines
  BY DEF VInv
<1>2. isDirty \/ Current(stored, filter, known)
  BY NothingBears DEF VInv, FlagsAreFresh, Current
<1>3. isDirty \/ Current(stored, filter, known) =>
         \A d, e \in stored :
            /\ filter # NoFilter /\ Accepts(filter, d, known)
            /\ d.id \notin {x.id : x \in stored'} /\ e.id \in {x.id : x \in stored'}
            => Accepts(filter, e, known)
  BY <1>1, AppendAllIs
<1>. QED  BY <1>2, <1>3

\* What a step takes of the lines f is to show, knowing what it knows.
TakesNothingShown(known) ==
    \A d, e \in stored :
       /\ d.id \notin {x.id : x \in stored'} /\ e.id \in {x.id : x \in stored'}
       /\ Accepts(filter, d, known)
       => Accepts(filter, e, known)

LEMMA NothingTaken ==
    ASSUME stored' = stored, NEW known
    PROVE  TakesNothingShown(known)
BY DEF TakesNothingShown

LEMMA NextTakes ==
    ASSUME VInv, Next, updates = Nothing, filter' = filter, filter # NoFilter
    PROVE  TakesNothingShown(Heard')
<1>1. TypeOK /\ Lines /\ pending \in Seq(Entry) /\ Follow(pending, stored)
  BY DEF VInv, TypeOK, Lines
<1>2. PICK h : h = Heard'
  OBVIOUS
<1>. SUFFICES TakesNothingShown(h)
  BY <1>2
<1>3. CASE stored' = stored
  BY <1>3, NothingTaken
<1>4. ASSUME NEW pid \in Pids, NEW paused \in BOOLEAN, Line(pid, paused), stored' # stored
      PROVE  TakesNothingShown(h)
  <2>1. Heard' = Heard
    BY <1>4, LineIs
  <2>2. learned' = Learn(learned, pid, deviceMap[pid])
    BY <1>4 DEF Line
  <2>3. Known(learned', deviceMap) = Heard
    BY <2>2, LearnKeeps, <1>4 DEF VInv
  <2>4. AppendAll(pending, dirty \/ LineBears(pid), relevance', h)
    <3>1. relevance' = IF LineBears(pid) THEN relevance + 1 ELSE relevance
      BY <1>4 DEF Line, LineBears
    <3>. QED  BY <1>2, <1>4, <2>1, <2>3, <3>1 DEF Line, LineBears
  <2>5. PICK q : q = pending
    OBVIOUS
  <2>6. PICK isDirty \in BOOLEAN : isDirty = (dirty \/ LineBears(pid))
    OBVIOUS
  <2>7. PICK r : r = relevance'
    OBVIOUS
  <2>8. AppendAll(q, isDirty, r, h) /\ (dirty => isDirty) /\ q \in Seq(Entry) /\ Follow(q, stored)
    BY <1>1, <2>4, <2>5, <2>6, <2>7
  <2>. QED  BY <1>2, <2>1, <2>8, AppendTakes DEF TakesNothingShown
<1>5. ASSUME NEW queue, queue \in Seq(Entry), Follow(queue, stored),
             AppendAll(queue, dirty, relevance, Heard), Heard' = Heard
      PROVE  TakesNothingShown(h)
  <2>1. PICK isDirty \in BOOLEAN : isDirty = dirty
    BY <1>1 DEF TypeOK
  <2>2. PICK r : r = relevance
    OBVIOUS
  <2>3. AppendAll(queue, isDirty, r, h) /\ (dirty => isDirty)
    BY <1>2, <1>5, <2>1, <2>2
  <2>. QED  BY <1>2, <1>5, <2>3, AppendTakes DEF TakesNothingShown
<1>6. CASE AppendImmediate
  <2>1. PICK q : q = Append(pending, Marker)
    OBVIOUS
  <2>2. /\ AppendAll(q, dirty, relevance, Heard) /\ arrived < MaxArrivals
        /\ UNCHANGED <<learned, deviceMap>>
    BY <1>6, <2>1 DEF AppendImmediate, Heard, Marker
  <2>3. q \in Seq(Entry) /\ Follow(q, stored)
    BY <2>1, <2>2, MarkerFollows
  <2>4. Heard' = Heard
    BY <2>2 DEF Heard, Known
  <2>. QED  BY <1>5, <2>2, <2>3, <2>4
<1>7. CASE FlushPending
  <2>1. PICK q : q = pending
    OBVIOUS
  <2>2. AppendAll(q, dirty, relevance, Heard) /\ UNCHANGED <<learned, deviceMap>>
    BY <1>7, <2>1 DEF FlushPending, Heard
  <2>3. q \in Seq(Entry) /\ Follow(q, stored)
    BY <1>1, <2>1
  <2>4. Heard' = Heard
    BY <2>2 DEF Heard, Known
  <2>. QED  BY <1>5, <2>2, <2>3, <2>4
<1>8. ASSUME stored' \in {Settled(FlaggedAll(stored, filter, h), filter),
                          Trimmed(FlaggedAll(stored, filter, h), filter)}
      PROVE  TakesNothingShown(h)
  <2>1. PICK T : T = stored'
    OBVIOUS
  <2>2. PICK f : f = filter
    OBVIOUS
  <2>3. \A d, e \in stored :
           /\ f # NoFilter /\ Accepts(f, d, h)
           /\ d.id \notin {x.id : x \in T} /\ e.id \in {x.id : x \in T}
           => Accepts(f, e, h)
    BY <1>8, <2>1, <2>2, ReflaggedIs
  <2>. QED  BY <2>1, <2>2, <2>3 DEF TakesNothingShown
<1>9. ASSUME NEW f \in {NoFilter} \cup Terms, ApplyFilter(f) PROVE TakesNothingShown(h)
  <2>1. f = filter /\ UNCHANGED <<learned, deviceMap>>
    BY <1>9 DEF ApplyFilter
  <2>2. Heard' = Heard
    BY <2>1 DEF Heard, Known
  <2>3. stored' = Settled(FlaggedAll(stored, f, Heard), f)
    BY <1>9, Zenon DEF ApplyFilter, Synced, FlaggedAll, Heard
  <2>. QED  BY <1>2, <1>8, <2>1, <2>2, <2>3
<1>10. CASE ClearLogs
  <2>1. stored' = {}
    BY <1>10 DEF ClearLogs
  <2>. QED  BY <2>1 DEF TakesNothingShown
<1>11. CASE SubmitLogLinesLimit
  <2>1. stored' = Trimmed(FlaggedAll(stored, filter, Known(learned', deviceMap)), filter)
    BY <1>11, Zenon DEF SubmitLogLinesLimit, FlaggedAll
  <2>2. deviceMap' = deviceMap
    BY <1>11 DEF SubmitLogLinesLimit
  <2>3. stored' = Trimmed(FlaggedAll(stored, filter, h), filter)
    BY <1>2, <2>1, <2>2 DEF Heard
  <2>. QED  BY <1>8, <2>3
<1>12. CASE LearnRefreshed
  BY <1>12 DEF LearnRefreshed
<1>13. ASSUME NEW pid \in Pids, NEW package \in Packages, Launch(pid, package)
       PROVE  stored' = stored
  BY <1>13 DEF Launch, tab
<1>14. ASSUME NEW alive \in SUBSET Pids, Refresh(Listed(alive)) PROVE stored' = stored
  BY <1>14 DEF Refresh, tab
<1>15. ASSUME NEW rows \in SUBSET (1 .. Len(Rows)), SelectRows(rows) PROVE stored' = stored
  BY <1>15 DEF SelectRows
<1>16. ASSUME NEW row \in 1 .. Len(Rows), NEW isSelected \in BOOLEAN,
              SetRowSelected(row, isSelected)
       PROVE  stored' = stored
  BY <1>16 DEF SetRowSelected
<1>17. Rebuild => stored' = stored
  BY DEF Rebuild
<1>. QED  BY <1>3, <1>4, <1>6, <1>7, <1>9, <1>10, <1>11, <1>12, <1>13, <1>14, <1>15, <1>16, <1>17
          DEF Next

\* As long as the device gives no pid again, a tab under a filter gives up no
\* entry it shows while it keeps one stored with it that the filter rejects.
THEOREM ShownEntriesGoLast == ~PidsAreReused => (Spec => NothingShownGoesFirst)
<1>. SUFFICES ASSUME ~PidsAreReused PROVE Spec => NothingShownGoesFirst
  OBVIOUS
<1>. DEFINE Takes ==
               updates = Nothing /\ filter' = filter /\ filter # NoFilter =>
                   LET known == Known(learned', deviceMap')
                       left == {e.id : e \in stored'}
                   IN  \A d, e \in stored :
                          d.id \notin left /\ e.id \in left /\ Accepts(filter, d, known)
                              => Accepts(filter, e, known)
<1>1. VInv /\ [Next]_vars => [Takes]_<<stored, arrived, filter>>
  <2>. SUFFICES ASSUME VInv, [Next]_vars, ~UNCHANGED <<stored, arrived, filter>>
                PROVE  Takes
    OBVIOUS
  <2>1. Next
    BY DEF vars
  <2>2. ASSUME updates = Nothing, filter' = filter, filter # NoFilter
        PROVE  TakesNothingShown(Heard')
    BY <2>1, <2>2, NextTakes
  <2>. QED  BY <2>2 DEF TakesNothingShown, Heard
<1>. HIDE DEF Takes
<1>2. Spec => []VInv
  BY VInvHolds
<1>3. Spec => [][Takes]_<<stored, arrived, filter>>
  BY <1>1, <1>2, PTL DEF Spec
<1>. QED  BY <1>3 DEF NothingShownGoesFirst, Takes
=============================================================================
