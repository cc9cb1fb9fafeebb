------------------------- MODULE FTLBankRoundProofs -------------------------
(***************************************************************************)
(* What a round of the incremental collector does to the flash of its      *)
(* bank: it reads a page of each plane, and when its buffer holds a        *)
(* program's worth of pages it writes them and the victims pay for them.   *)
(***************************************************************************)
EXTENDS FTLBankFlashProofs
LOCAL INSTANCE SequencesExt
LOCAL INSTANCE FiniteSetsExt

(***************************************************************************)
(* The victims pay for the pages that leave the collector's buffer.        *)
(***************************************************************************)
\* The elements of the first k of several sets.
FirstSets(V, k) == UNION {V[j] : j \in 1 .. k}

\* Sets that have nothing in common are counted one after the other.
LEMMA SetsCounted ==
    ASSUME NEW N \in Nat, NEW V, \A i \in 1 .. N : IsFiniteSet(V[i]),
           \A i, j \in 1 .. N : i # j => V[i] \cap V[j] = {}
    PROVE  /\ FirstSets(V, 0) = {}
           /\ \A i \in 0 .. N : IsFiniteSet(FirstSets(V, i)) /\ Cardinality(FirstSets(V, i)) \in Nat
           /\ \A i \in 1 .. N :
                /\ FirstSets(V, i) = FirstSets(V, i - 1) \cup V[i]
                /\ FirstSets(V, i - 1) \cap V[i] = {}
                /\ Cardinality(FirstSets(V, i)) = Cardinality(FirstSets(V, i - 1)) + Cardinality(V[i])
<1>1. FirstSets(V, 0) = {}
  BY DEF FirstSets
<1>2. \A i \in 1 .. N : FirstSets(V, i) = FirstSets(V, i - 1) \cup V[i]
  <2> SUFFICES ASSUME NEW i \in 1 .. N PROVE FirstSets(V, i) = FirstSets(V, i - 1) \cup V[i]
    OBVIOUS
  <2>1. 1 .. i = (1 .. i - 1) \cup {i}
    OBVIOUS
  <2> QED
    BY <2>1 DEF FirstSets
<1>3. \A i \in 1 .. N : FirstSets(V, i - 1) \cap V[i] = {}
  <2> SUFFICES ASSUME NEW i \in 1 .. N, NEW j \in 1 .. i - 1 PROVE V[j] \cap V[i] = {}
    BY DEF FirstSets
  <2> QED
    OBVIOUS
<1>4. \A i \in 0 .. N : IsFiniteSet(FirstSets(V, i))
  <2> DEFINE T == {i \in Nat : i <= N => IsFiniteSet(FirstSets(V, i))}
  <2>1. 0 \in T
    BY <1>1, FS_EmptySet
  <2>2. ASSUME NEW i \in Nat, i \in T
        PROVE  i + 1 \in T
    <3>1. CASE i + 1 <= N
      <4>1. FirstSets(V, i + 1) = FirstSets(V, i) \cup V[i + 1]
        <5>1. i + 1 \in 1 .. N /\ (i + 1) - 1 = i
          BY <3>1
        <5> QED
          BY <1>2, <5>1
      <4> DEFINE A == FirstSets(V, i)
                 B == V[i + 1]
      <4>2. IsFiniteSet(A) /\ IsFiniteSet(B)
        BY <2>2, <3>1
      <4> HIDE DEF A, B
      <4>3. IsFiniteSet(A \cup B)
        BY <4>2, FS_Union
      <4> QED
        BY <4>1, <4>3 DEF A, B
    <3>2. CASE ~(i + 1 <= N)
      BY <3>2
    <3> QED
      BY <3>1, <3>2
  <2> HIDE DEF T
  <2>3. Nat \subseteq T
    BY <2>1, <2>2, NatSetInduction
  <2> QED
    BY <2>3 DEF T
<1>5. \A i \in 0 .. N : Cardinality(FirstSets(V, i)) \in Nat
  BY <1>4, FS_CardinalityType
<1>6. ASSUME NEW i \in 1 .. N
      PROVE  Cardinality(FirstSets(V, i)) = Cardinality(FirstSets(V, i - 1)) + Cardinality(V[i])
  <2> DEFINE A == FirstSets(V, i - 1)
             B == V[i]
  <2>1. IsFiniteSet(A) /\ IsFiniteSet(B) /\ A \cap B = {} /\ FirstSets(V, i) = A \cup B
    <3>1. i - 1 \in 0 .. N
      OBVIOUS
    <3> QED
      BY <1>2, <1>3, <1>4, <3>1
  <2> HIDE DEF A, B
  <2>2. Cardinality(A \cup B) = Cardinality(A) + Cardinality(B) - Cardinality(A \cap B)
    BY <2>1, FS_Union
  <2>3. Cardinality(A) \in Nat /\ Cardinality(B) \in Nat /\ Cardinality(A \cap B) = 0
    BY <2>1, FS_CardinalityType, FS_EmptySet
  <2> QED
    BY <2>1, <2>2, <2>3 DEF A, B
<1> QED
  BY <1>1, <1>2, <1>3, <1>4, <1>5, <1>6

\* Of the N victims of a bank each counts the pages it holds, V, and the pages that
\* leave the buffer, F, are those of all victims but the youngest and some of that one.
Charged(k, N, V, F) ==
    /\ N \in Nat \ {0} /\ DOMAIN k.victim_list = 1 .. N /\ Len(k.victim_list) = N
    /\ \A i, x \in 1 .. N : k.victim_list[i] = k.victim_list[x] => i = x
    /\ \A i \in 1 .. N : IsFiniteSet(V[i])
    /\ \A i, x \in 1 .. N : i # x => V[i] \cap V[x] = {}
    /\ \A i \in 1 .. N : k.block_list[k.victim_list[i]].vcount = Cardinality(V[i])
    /\ \A i \in 1 .. N - 1 : V[i] \subseteq F
    /\ F \subseteq FirstSets(V, N)

\* Every victim pays for its own pages, although it is charged by its age: the
\* pages of all victims but the youngest are in the buffer.
LEMMA PaymentIs ==
    ASSUME NEW k, NEW N, NEW V, NEW F, Charged(k, N, V, F), NEW j \in 1 .. N
    PROVE  Payment(k, k.victim_list[j], Cardinality(F)) = Cardinality(F \cap V[j])
<1>0. /\ N \in Nat \ {0} /\ DOMAIN k.victim_list = 1 .. N /\ Len(k.victim_list) = N
      /\ \A i, x \in 1 .. N : k.victim_list[i] = k.victim_list[x] => i = x
      /\ \A i \in 1 .. N : IsFiniteSet(V[i])
      /\ \A i, x \in 1 .. N : i # x => V[i] \cap V[x] = {}
      /\ \A i \in 1 .. N : k.block_list[k.victim_list[i]].vcount = Cardinality(V[i])
      /\ \A i \in 1 .. N - 1 : V[i] \subseteq F
      /\ F \subseteq FirstSets(V, N)
  BY DEF Charged
<1> USE <1>0
<1> DEFINE S(i) == FirstSets(V, i)
           g == [i \in 0 .. N |-> Cardinality(S(i))]
           step(f) == [i \in 0 .. N |-> IF i = 0 THEN 0
                                        ELSE f[i - 1] + k.block_list[k.victim_list[i]].vcount]
           before == CHOOSE f : f = step(f)
           count == Cardinality(F)
           blk == k.victim_list[j]
           i0 == CHOOSE i \in 1 .. N : k.victim_list[i] = blk
<1>1. /\ S(0) = {} /\ \A i \in 0 .. N : IsFiniteSet(S(i)) /\ Cardinality(S(i)) \in Nat
      /\ \A i \in 1 .. N :
           /\ S(i) = S(i - 1) \cup V[i]
           /\ S(i - 1) \cap V[i] = {}
           /\ Cardinality(S(i)) = Cardinality(S(i - 1)) + Cardinality(V[i])
  BY SetsCounted
<1>2. Payment(k, blk, count) = Max({0, Min({k.block_list[blk].vcount, count - before[i0 - 1]})})
  BY DEF Payment
<1>3. i0 = j
  OBVIOUS
<1> HIDE DEF i0
<1>4. \E f : f = step(f)
  <2>1. \A i \in 0 .. N : step(g)[i] = g[i]
    BY <1>1, FS_EmptySet
  <2>2. step(g) = g
    BY <2>1
  <2> QED
    BY <2>2
<1>5. before = step(before)
  BY <1>4
<1> HIDE DEF before
<1>6. before[0] = 0 /\ \A i \in 1 .. N : before[i] = before[i - 1] + Cardinality(V[i])
  BY <1>5
<1>7. \A i \in 0 .. N : before[i] = Cardinality(S(i))
  <2> DEFINE T == {i \in Nat : i <= N => before[i] = Cardinality(S(i))}
  <2>1. 0 \in T
    BY <1>1, <1>6, FS_EmptySet
  <2>2. ASSUME NEW i \in Nat, i \in T
        PROVE  i + 1 \in T
    <3>1. CASE i + 1 <= N
      <4>1. i + 1 \in 1 .. N /\ (i + 1) - 1 = i /\ i <= N
        BY <3>1
      <4>2. before[i] = Cardinality(S(i))
        BY <2>2, <4>1
      <4>3. before[i + 1] = before[i] + Cardinality(V[i + 1])
        BY <1>6, <4>1
      <4>4. Cardinality(S(i + 1)) = Cardinality(S(i)) + Cardinality(V[i + 1])
        BY <1>1, <4>1
      <4> QED
        BY <4>2, <4>3, <4>4
    <3>2. CASE ~(i + 1 <= N)
      BY <3>2
    <3> QED
      BY <3>1, <3>2
  <2> HIDE DEF T
  <2>3. Nat \subseteq T
    BY <2>1, <2>2, NatSetInduction
  <2> QED
    BY <2>3 DEF T
<1>8. IsFiniteSet(F) /\ IsFiniteSet(V[j]) /\ IsFiniteSet(F \cap V[j])
  <2>1. IsFiniteSet(S(N))
    BY <1>1
  <2>2. IsFiniteSet(F)
    BY <2>1, FS_Subset
  <2> QED
    BY <2>2, FS_Intersection
<1> HIDE DEF S
<1>9. S(j - 1) \subseteq F
  <2> SUFFICES ASSUME NEW i \in 1 .. j - 1 PROVE V[i] \subseteq F
    BY DEF S, FirstSets
  <2>1. i \in 1 .. N - 1
    OBVIOUS
  <2> QED
    BY <2>1
<1> DEFINE v == Cardinality(V[j])
           rest == count - Cardinality(S(j - 1))
           paid == Cardinality(F \cap V[j])
<1>10. rest = Cardinality(F \ S(j - 1)) /\ rest \in Nat
  <2>1. F \cap S(j - 1) = S(j - 1)
    BY <1>9
  <2>2. Cardinality(F \ S(j - 1)) = Cardinality(F) - Cardinality(F \cap S(j - 1)) /\ IsFiniteSet(F \ S(j - 1))
    BY <1>8, FS_Difference
  <2>3. rest = Cardinality(F \ S(j - 1))
    BY <2>1, <2>2
  <2>4. Cardinality(F \ S(j - 1)) \in Nat
    BY <2>2, FS_CardinalityType
  <2> QED
    BY <2>3, <2>4
<1>11. v \in Nat /\ paid \in Nat /\ paid <= v /\ paid <= rest
  <2>1. F \cap V[j] \subseteq F \ S(j - 1)
    BY <1>1
  <2>2. IsFiniteSet(F \ S(j - 1))
    BY <1>8, FS_Difference
  <2>3. paid <= Cardinality(F \ S(j - 1)) /\ paid <= v
    BY <1>8, <2>1, <2>2, FS_Subset
  <2> QED
    BY <1>8, <1>10, <2>3, FS_CardinalityType
<1>12. paid = v \/ paid = rest
  <2>1. CASE j \in 1 .. N - 1
    <3>1. F \cap V[j] = V[j]
      BY <2>1
    <3> QED
      BY <3>1
  <2>2. CASE j = N
    <3>1. F \subseteq S(j - 1) \cup V[j]
      BY <1>1, <2>2 DEF S
    <3>2. F \cap V[j] = F \ S(j - 1)
      BY <1>1, <3>1
    <3> QED
      BY <1>10, <3>2
  <2> QED
    BY <2>1, <2>2
<1>13. before[i0 - 1] = Cardinality(S(j - 1)) /\ k.block_list[blk].vcount = v
  BY <1>3, <1>7
<1> HIDE DEF v, rest, paid, count
<1>14. Payment(k, blk, count) = Max({0, Min({v, rest})})
  BY <1>2, <1>13 DEF rest
<1>15. Min({v, rest}) = paid
  <2>1. paid \in {v, rest} /\ \A y \in {v, rest} : paid <= y
    BY <1>11, <1>12
  <2>2. \A x \in {v, rest} : (\A y \in {v, rest} : x <= y) => x = paid
    BY <1>10, <1>11, <2>1
  <2> QED
    BY <2>1, <2>2 DEF Min
<1>16. Max({0, paid}) = paid
  <2>1. paid \in {0, paid} /\ \A y \in {0, paid} : paid >= y
    BY <1>11
  <2>2. \A x \in {0, paid} : (\A y \in {0, paid} : x >= y) => x = paid
    BY <1>11
  <2> QED
    BY <2>1, <2>2 DEF Max
<1> QED
  BY <1>14, <1>15, <1>16 DEF paid, count

-----------------------------------------------------------------------------
(***************************************************************************)
(* The pages that are written leave the collector's buffer.                *)
(***************************************************************************)
\* What the first entries of a buffer name, and those of them that name nothing.
FrontOf(q, N) == {l \in LPN : \E i \in 1 .. N : q[i] = l}
BlanksOf(q, N) == {i \in 1 .. N : q[i] = RSP_INVALID_LPN}
NamedOf(q, N) == {i \in 1 .. N : q[i] # RSP_INVALID_LPN}

\* As many as entries, when no address is named twice.
LEMMA FrontCounted ==
    ASSUME NEW N \in Nat, NEW q, \A i \in 1 .. N : q[i] \in Home,
           \A i, j \in 1 .. N : q[i] = q[j] => i = j \/ q[i] = RSP_INVALID_LPN
    PROVE  /\ IsFiniteSet(FrontOf(q, N)) /\ Cardinality(FrontOf(q, N)) \in Nat
           /\ IsFiniteSet(BlanksOf(q, N)) /\ Cardinality(BlanksOf(q, N)) \in Nat
           /\ IsFiniteSet(NamedOf(q, N)) /\ Cardinality(NamedOf(q, N)) = Cardinality(FrontOf(q, N))
           /\ Cardinality(FrontOf(q, N)) + Cardinality(BlanksOf(q, N)) = N
<1> DEFINE A == NamedOf(q, N)
           B == BlanksOf(q, N)
           F == FrontOf(q, N)
           f == [i \in A |-> q[i]]
<1>1. IsFiniteSet(1 .. N) /\ Cardinality(1 .. N) = N
  <2>1. IsFiniteSet(1 .. N) /\ Cardinality(1 .. N) = IF 1 > N THEN 0 ELSE N - 1 + 1
    BY FS_Interval
  <2> QED
    BY <2>1
<1>2. A \cup B = 1 .. N /\ A \cap B = {} /\ A \subseteq 1 .. N /\ B \subseteq 1 .. N
  BY DEF NamedOf, BlanksOf
<1>3. IsFiniteSet(A) /\ IsFiniteSet(B) /\ Cardinality(A) \in Nat /\ Cardinality(B) \in Nat
  BY <1>1, <1>2, FS_Subset, FS_CardinalityType
<1>4. f \in [A -> F]
  <2>1. \A i \in A : q[i] \in LPN /\ i \in 1 .. N
    BY DEF NamedOf, Home, LPN
  <2> QED
    BY <2>1 DEF FrontOf
<1>5. \A x, y \in A : f[x] = f[y] => x = y
  BY DEF NamedOf
<1>6. \A l \in F : \E i \in A : f[i] = l
  <2> SUFFICES ASSUME NEW l \in F
               PROVE  \E i \in A : q[i] = l
    OBVIOUS
  <2>1. PICK i \in 1 .. N : q[i] = l /\ l \in LPN
    BY DEF FrontOf
  <2>2. i \in A
    BY <2>1, FlashFacts DEF NamedOf
  <2> QED
    BY <2>1, <2>2
<1> HIDE DEF A, B, F, f
<1>7. IsFiniteSet(F) /\ Cardinality(F) = Cardinality(A)
  BY ONLY <1>3, <1>4, <1>5, <1>6, BijectionCounted
<1>8. Cardinality(A \cup B) = Cardinality(A) + Cardinality(B) - Cardinality(A \cap B)
  BY <1>3, FS_Union
<1>9. Cardinality(A \cap B) = 0
  BY <1>2, FS_EmptySet
<1>10. Cardinality(A) + Cardinality(B) = N
  <2>1. Cardinality(A \cup B) = N
    BY <1>1, <1>2
  <2> QED
    BY <1>3, <1>8, <1>9, <2>1
<1> QED
  BY <1>3, <1>7, <1>10 DEF A, B, F

\* A bank whose collector's buffer is long enough to be written: what stays behind
\* is of the current victim.
BufferLong(b, n, map) ==
    /\ n.cur_vt_vpn # VC_MAX
    /\ Len(n.GCbuf_lpn) >= SuperPage
    /\ \A i \in DOMAIN n.GCbuf_lpn : i > SuperPage => n.GCbuf_lpn[i] \in Into(map, b, n.cur_vt_vpn.block)
GCFront(n) == FrontOf(n.GCbuf_lpn, SuperPage)

\* The front is held, so it is of the victims.
LEMMA FrontIsHeld ==
    ASSUME NEW b \in Bank, NEW n, BankInv(n), NEW map, BankFlash(b, n, map), BufferLong(b, n, map)
    PROVE  /\ Len(n.GCbuf_lpn) \in Nat /\ DOMAIN n.GCbuf_lpn = 1 .. Len(n.GCbuf_lpn)
           /\ \A i \in DOMAIN n.GCbuf_lpn : n.GCbuf_lpn[i] \in Home
           /\ 1 .. SuperPage \subseteq DOMAIN n.GCbuf_lpn
           /\ GCFront(n) \subseteq GCHeld(n)
           /\ \A l \in GCHeld(n) : \E k \in Held(n, "victim"), off \in Offset :
                map[l] = Flash(b, k, off) /\ ~Unread(n, k, off) /\ l \in Into(map, b, k)
           /\ Held(n, "victim") \subseteq Block
<1> DEFINE q == n.GCbuf_lpn
<1>1. q \in Seq(Home)
  BY DEF BankInv, HomeOnly
<1>2. /\ Len(q) \in Nat /\ DOMAIN q = 1 .. Len(q)
      /\ \A i \in DOMAIN q : q[i] \in Home
  BY <1>1, LenProperties, ElementOfSeq
<1>3. 1 .. SuperPage \subseteq DOMAIN q
  BY <1>2, FlashFacts DEF BufferLong
<1>4. GCFront(n) \subseteq GCHeld(n)
  BY <1>3 DEF GCFront, FrontOf, GCHeld
<1>5. Held(n, "victim") \subseteq Block
  BY HeldBlocks, ListsAre DEF BankInv
<1>6. ASSUME NEW l \in GCHeld(n)
      PROVE  \E k \in Held(n, "victim"), off \in Offset :
                map[l] = Flash(b, k, off) /\ ~Unread(n, k, off) /\ l \in Into(map, b, k)
  <2>1. l \in LPN
    BY DEF GCHeld
  <2>2. PICK k \in Held(n, "victim"), off \in Offset : map[l] = Flash(b, k, off) /\ ~Unread(n, k, off)
    BY <1>6, <2>1 DEF BankFlash, Collecting, HeldIsRead
  <2>3. k \in Block
    BY <1>5
  <2>4. InBlock(map[l], b, k)
    BY <2>2, <2>3, FlashIsIn
  <2> QED
    BY <2>1, <2>2, <2>4 DEF Into
<1> QED
  BY <1>2, <1>3, <1>4, <1>5, <1>6

\* All of a victim that was read before the current one is in the front.
LEMMA OlderInFront ==
    ASSUME NEW b \in Bank, NEW n, BankInv(n), NEW map, MapApart(map), BankFlash(b, n, map),
           BufferLong(b, n, map), NEW h \in Held(n, "victim"), h # n.cur_vt_vpn.block
    PROVE  Into(map, b, h) \subseteq GCFront(n)
<1> SUFFICES ASSUME NEW l \in Into(map, b, h)
             PROVE  l \in GCFront(n)
  OBVIOUS
<1>1. h \in Block
  BY FrontIsHeld
<1>2. l \in LPN /\ InBlock(map[l], b, h)
  BY DEF Into
<1>3. map[l] = Flash(b, h, map[l].off) /\ map[l].off \in Offset
  BY <1>2, PlaceIs
<1>4. ~Unread(n, h, map[l].off)
  BY DEF Unread, Reading
<1>5. l \in GCHeld(n)
  BY <1>1, <1>2, <1>3, <1>4 DEF BankFlash, Collecting, HeldIsRead
<1>6. PICK x \in DOMAIN n.GCbuf_lpn : n.GCbuf_lpn[x] = l
  BY <1>5 DEF GCHeld
<1>7. ~(x > SuperPage)
  <2>1. ASSUME x > SuperPage PROVE FALSE
    <3>1. InBlock(map[l], b, n.cur_vt_vpn.block)
      BY <1>6, <2>1 DEF BufferLong, Into
    <3> QED
      BY <1>2, <3>1 DEF InBlock
  <2> QED
    BY <2>1
<1>8. x \in 1 .. SuperPage
  BY <1>7, FrontIsHeld, FlashFacts
<1> QED
  BY <1>2, <1>6, <1>8 DEF GCFront, FrontOf

\* Each victim pays for what it has in the front.
LEMMA VictimsPay ==
    ASSUME NEW b \in Bank, NEW n, BankInv(n), NEW map, MapApart(map), BankFlash(b, n, map),
           BufferLong(b, n, map), NEW F, F = GCFront(n), NEW k \in Held(n, "victim")
    PROVE  Payment(n, k, Cardinality(F)) = Cardinality(F \cap Into(map, b, k))
<1> DEFINE N == Len(n.victim_list)
           V == [i \in 1 .. N |-> Into(map, b, n.victim_list[i])]
           cur == n.cur_vt_vpn.block
<1>1. n.victim_list # <<>> /\ cur = n.victim_list[N]
  BY DEF BankFlash, Collecting, CurrentIsLast, BufferLong
<1>2. /\ N \in Nat \ {0} /\ DOMAIN n.victim_list = 1 .. N
      /\ \A i \in 1 .. N : n.victim_list[i] \in Block /\ n.victim_list[i] \in Held(n, "victim")
      /\ \A i, j \in 1 .. N : n.victim_list[i] = n.victim_list[j] => i = j
  BY <1>1, OldestIsBlock
<1>3. PICK j \in 1 .. N : n.victim_list[j] = k
  BY <1>2, ListsAre DEF Held, ToSet
<1>4. \A i \in 1 .. N : V[i] = Into(map, b, n.victim_list[i])
  OBVIOUS
<1> HIDE DEF V
<1>5. \A i \in 1 .. N : IsFiniteSet(V[i])
  BY <1>4, IntoFinite
<1>6. \A i, x \in 1 .. N : i # x => V[i] \cap V[x] = {}
  BY <1>2, <1>4 DEF Into, InBlock
<1>7. \A i \in 1 .. N : n.block_list[n.victim_list[i]].vcount = Cardinality(V[i])
  <2> SUFFICES ASSUME NEW i \in 1 .. N
               PROVE  n.block_list[n.victim_list[i]].vcount = Cardinality(V[i])
    OBVIOUS
  <2>1. n.victim_list[i] \notin Held(n, "free") /\ n.victim_list[i] \notin Held(n, "GC")
    BY <1>2, HeldBlocks, ListsAre DEF BankInv
  <2> QED
    BY <1>2, <1>4, <2>1 DEF BankFlash, VcountsRight
<1>8. \A l \in F : \E i \in 1 .. N : l \in V[i]
  <2> SUFFICES ASSUME NEW l \in F
               PROVE  \E i \in 1 .. N : l \in V[i]
    OBVIOUS
  <2>1. PICK h \in Held(n, "victim") : l \in Into(map, b, h)
    BY FrontIsHeld
  <2>2. PICK i \in 1 .. N : n.victim_list[i] = h
    BY <1>2, ListsAre DEF Held, ToSet
  <2> QED
    BY <1>4, <2>1, <2>2
<1>9. F \subseteq FirstSets(V, N)
  BY <1>8 DEF FirstSets
<1>10. \A i \in 1 .. N - 1 : V[i] \subseteq F
  <2> SUFFICES ASSUME NEW i \in 1 .. N - 1
               PROVE  V[i] \subseteq F
    OBVIOUS
  <2> DEFINE h == n.victim_list[i]
  <2>1. i \in 1 .. N /\ i # N /\ h \in Held(n, "victim") /\ N \in 1 .. N
    BY <1>2
  <2>2. h # cur
    BY <1>1, <1>2, <2>1
  <2> QED
    BY <1>4, <2>1, <2>2, OlderInFront
<1>11. /\ DOMAIN n.victim_list = 1 .. N /\ Len(n.victim_list) = N
       /\ \A i, x \in 1 .. N : n.victim_list[i] = n.victim_list[x] => i = x
       /\ F \subseteq FirstSets(V, N) /\ j \in 1 .. N
  BY <1>2, <1>3, <1>9
<1> HIDE DEF N
<1>12. Charged(n, N, V, F)
  BY <1>2, <1>5, <1>6, <1>7, <1>10, <1>11 DEF Charged
<1>13. Payment(n, n.victim_list[j], Cardinality(F)) = Cardinality(F \cap V[j])
  BY <1>11, <1>12, PaymentIs
<1> QED
  BY <1>3, <1>4, <1>13

\* The front leaves the buffer and, for the moment, the map; the victims pay for it.
PaidField == {"GC_BLK", "cur_write_vpn", "write_start", "data_list", "free_list", "victim_list", "cur_gc_vpn",
              "cur_vt_vpn"}
Behind(q) == SubSeq(q, SuperPage + 1, Len(q))

LEMMA BehindIs ==
    ASSUME NEW q \in Seq(Home), Len(q) >= SuperPage, NEW rest, rest = Behind(q)
    PROVE  /\ rest \in Seq(Home) /\ Len(rest) \in Nat /\ DOMAIN rest = 1 .. Len(rest)
           /\ \A i \in DOMAIN rest : i + SuperPage \in DOMAIN q /\ i + SuperPage > SuperPage
                    /\ rest[i] = q[i + SuperPage]
           /\ \A i \in DOMAIN q : i > SuperPage => i - SuperPage \in DOMAIN rest /\ rest[i - SuperPage] = q[i]
<1>1. Len(q) \in Nat /\ DOMAIN q = 1 .. Len(q) /\ SuperPage \in Nat
  BY LenProperties, FlashFacts
<1>2. \A i \in 1 .. Len(q) : q[i] \in Home
  BY <1>1, ElementOfSeq
<1>3. \A i \in SuperPage + 1 .. Len(q) : q[i] \in Home
  BY <1>1, <1>2
<1>4. rest \in Seq(Home) /\ Len(rest) = IF SuperPage + 1 <= Len(q) THEN Len(q) - (SuperPage + 1) + 1 ELSE 0
  BY <1>1, <1>3, SubSeqProperties DEF Behind
<1>5. \A i \in 1 .. (Len(q) - (SuperPage + 1) + 1) : rest[i] = q[(SuperPage + 1) + i - 1]
  BY <1>1, <1>3, SubSeqProperties DEF Behind
<1>6. Len(rest) = Len(q) - SuperPage /\ Len(rest) \in Nat /\ DOMAIN rest = 1 .. Len(rest)
  <2> DEFINE L == Len(q)
             N == SuperPage
             R == Len(rest)
  <2>1. L \in Nat /\ N \in Nat /\ L >= N /\ R = IF N + 1 <= L THEN L - (N + 1) + 1 ELSE 0
    BY <1>1, <1>4
  <2> HIDE DEF L, N, R
  <2>2. R = L - N /\ R \in Nat
    BY <2>1
  <2>3. DOMAIN rest = 1 .. Len(rest)
    BY <1>4, LenProperties
  <2> QED
    BY <2>2, <2>3 DEF L, N, R
<1>7. \A i \in DOMAIN rest : i + SuperPage \in DOMAIN q /\ i + SuperPage > SuperPage /\ rest[i] = q[i + SuperPage]
  <2> SUFFICES ASSUME NEW i \in DOMAIN rest
               PROVE  i + SuperPage \in DOMAIN q /\ i + SuperPage > SuperPage /\ rest[i] = q[i + SuperPage]
    OBVIOUS
  <2>1. i \in 1 .. (Len(q) - (SuperPage + 1) + 1) /\ i \in Nat /\ i > 0
    BY <1>1, <1>6
  <2>2. (SuperPage + 1) + i - 1 = i + SuperPage
    BY <1>1, <2>1
  <2>3. rest[i] = q[(SuperPage + 1) + i - 1]
    BY <1>5, <2>1
  <2>4. rest[i] = q[i + SuperPage]
    BY <2>2, <2>3
  <2>5. i + SuperPage \in DOMAIN q /\ i + SuperPage > SuperPage
    BY <1>1, <1>6, <2>1
  <2> QED
    BY <2>4, <2>5
<1>8. ASSUME NEW i \in DOMAIN q, i > SuperPage
      PROVE  i - SuperPage \in DOMAIN rest /\ rest[i - SuperPage] = q[i]
  <2>1. i - SuperPage \in DOMAIN rest /\ (i - SuperPage) + SuperPage = i
    BY <1>1, <1>6, <1>8
  <2> QED
    BY <1>7, <2>1
<1> QED
  BY <1>4, <1>6, <1>7, <1>8

LEMMA PaidFlash ==
    ASSUME NEW b \in Bank, NEW n, BankInv(n), NEW map, MapApart(map), BankFlash(b, n, map),
           BufferLong(b, n, map), NEW F, F = GCFront(n),
           NEW mid, \A l \in LPN : mid[l] = IF l \in F THEN VC_MAX ELSE map[l],
           NEW m, SameFields(n, m, PaidField),
           m.GCbuf_lpn = Behind(n.GCbuf_lpn), m.num_gcbuffed = Len(m.GCbuf_lpn),
           \A k \in Block : /\ SameFields(n.block_list[k], m.block_list[k], {"vbitmap", "spare"})
                            /\ m.block_list[k].vcount = n.block_list[k].vcount -
                                    (IF k \in Held(n, "victim") THEN Payment(n, k, Cardinality(F)) ELSE 0)
    PROVE  /\ MapApart(mid) /\ BankFlash(b, m, mid)
           /\ \A k : Into(mid, b, k) = Into(map, b, k) \ F
           /\ Holes(m) = {}
<1>1. /\ m.GC_BLK = n.GC_BLK /\ m.cur_write_vpn = n.cur_write_vpn /\ m.write_start = n.write_start
      /\ m.data_list = n.data_list /\ m.free_list = n.free_list /\ m.victim_list = n.victim_list
      /\ m.cur_gc_vpn = n.cur_gc_vpn /\ m.cur_vt_vpn = n.cur_vt_vpn
  BY DEF SameFields, PaidField
<1>2. /\ Held(m, "free") = Held(n, "free") /\ Held(m, "victim") = Held(n, "victim")
      /\ Held(m, "GC") = Held(n, "GC") /\ Held(m, "data") = Held(n, "data")
  BY <1>1, ListsAre DEF Held
<1>3. \A k \in Block : m.block_list[k].vbitmap = n.block_list[k].vbitmap /\ m.block_list[k].spare = n.block_list[k].spare
  BY DEF SameFields
<1>4. ~InFlash(VC_MAX)
  BY DEF InFlash
<1>5. /\ \A l \in LPN : InFlash(mid[l]) => l \notin F /\ mid[l] = map[l]
      /\ \A l \in LPN : l \notin F => mid[l] = map[l]
  BY <1>4
<1>6. MapApart(mid)
  <2>1. \A l \in LPN : InFlash(mid[l]) => mid[l] \in VPN
    BY <1>5 DEF MapApart
  <2>2. ASSUME NEW l \in LPN, NEW x \in LPN, InFlash(mid[l]), mid[x] = mid[l]
        PROVE  x = l
    <3>1. mid[l] = map[l] /\ mid[x] = map[x]
      BY <1>5, <2>2
    <3> QED
      BY <2>2, <3>1 DEF MapApart
  <2> QED
    BY <2>1, <2>2 DEF MapApart
<1>7. \A l \in LPN : \A k : InBlock(mid[l], b, k) <=> InBlock(map[l], b, k) /\ l \notin F
  BY <1>4, <1>5 DEF InBlock, InBank
<1>8. \A k : Into(mid, b, k) = Into(map, b, k) \ F
  BY <1>7 DEF Into
<1>9. \A l \in LPN : \A k \in Block, off \in Offset :
            mid[l] = Flash(b, k, off) <=> map[l] = Flash(b, k, off) /\ l \notin F
  <2> SUFFICES ASSUME NEW l \in LPN, NEW k \in Block, NEW off \in Offset
               PROVE  mid[l] = Flash(b, k, off) <=> map[l] = Flash(b, k, off) /\ l \notin F
    OBVIOUS
  <2>1. InFlash(Flash(b, k, off))
    BY FlashIsIn
  <2> QED
    BY <1>5, <2>1
<1>10. /\ F \subseteq GCHeld(n)
       /\ \A l \in GCHeld(n) : \E k \in Held(n, "victim"), off \in Offset :
                map[l] = Flash(b, k, off) /\ ~Unread(n, k, off) /\ l \in Into(map, b, k)
       /\ Held(n, "victim") \subseteq Block
  BY FrontIsHeld
<1>11. F \subseteq LPN
  BY <1>10 DEF GCHeld
<1>33. \A k \in Held(n, "victim") : Payment(n, k, Cardinality(F)) = Cardinality(F \cap Into(map, b, k))
  <2> SUFFICES ASSUME NEW k \in Held(n, "victim")
               PROVE  Payment(n, k, Cardinality(F)) = Cardinality(F \cap Into(map, b, k))
    OBVIOUS
  <2>1. /\ b \in Bank /\ BankInv(n) /\ MapApart(map) /\ BankFlash(b, n, map)
        /\ BufferLong(b, n, map) /\ F = GCFront(n) /\ k \in Held(n, "victim")
    OBVIOUS
  <2> QED
    BY ONLY <2>1, VictimsPay
<1>12. VcountsRight(b, m, mid)
  <2> SUFFICES ASSUME NEW k \in Block
               PROVE  /\ m.block_list[k].vcount \in Nat
                      /\ Cardinality(Into(mid, b, k)) = IF m.block_list[k].vcount = VC_ERASED THEN 0 ELSE m.block_list[k].vcount
                      /\ m.block_list[k].vcount = VC_ERASED => k \in Held(m, "free") \cup Held(m, "GC")
    BY DEF VcountsRight
  <2>1. /\ n.block_list[k].vcount \in Nat
        /\ Cardinality(Into(map, b, k)) = IF n.block_list[k].vcount = VC_ERASED THEN 0 ELSE n.block_list[k].vcount
        /\ n.block_list[k].vcount = VC_ERASED => k \in Held(n, "free") \cup Held(n, "GC")
    BY DEF BankFlash, VcountsRight
  <2>2. CASE k \in Held(n, "victim")
    <3> DEFINE I == Into(map, b, k)
    <3>1. k \notin Held(n, "free") /\ k \notin Held(n, "GC")
      BY <2>2, HeldBlocks, ListsAre DEF BankInv
    <3>2. n.block_list[k].vcount = Cardinality(I)
      BY <2>1, <3>1
    <3>3. m.block_list[k].vcount = n.block_list[k].vcount - Cardinality(F \cap I)
      BY <1>33, <2>2
    <3>4. IsFiniteSet(I) /\ Cardinality(I) \in Nat /\ Cardinality(I) <= 2 * PhysPages
      BY IntoFinite
    <3> HIDE DEF I
    <3>5. Cardinality(I \ F) = Cardinality(I) - Cardinality(I \cap F) /\ IsFiniteSet(I \ F)
      BY <3>4, FS_Difference
    <3>6. I \cap F = F \cap I
      OBVIOUS
    <3>7. Cardinality(F \cap I) = Cardinality(I \cap F)
      BY <3>6
    <3>8. Cardinality(I \ F) \in Nat /\ Cardinality(I \cap F) \in Nat
      <4>1. IsFiniteSet(I \cap F)
        BY <3>4, FS_Subset
      <4> QED
        BY <3>5, <4>1, FS_CardinalityType
    <3>9. m.block_list[k].vcount = Cardinality(I \ F)
      BY <3>2, <3>3, <3>5, <3>7
    <3>10. m.block_list[k].vcount # VC_ERASED
      BY <3>4, <3>5, <3>8, <3>9, NoSuchPlace, FlashFacts
    <3> QED
      BY <1>8, <3>8, <3>9, <3>10 DEF I
  <2>3. CASE k \notin Held(n, "victim")
    <3>1. m.block_list[k].vcount = n.block_list[k].vcount
      BY <2>1, <2>3
    <3>2. Into(map, b, k) \cap F = {}
      BY <1>10, <2>3 DEF Into, InBlock
    <3>3. Into(mid, b, k) = Into(map, b, k)
      BY <1>8, <3>2
    <3> QED
      BY <1>2, <2>1, <3>1, <3>3
  <2> QED
    BY <2>2, <2>3
<1>13. FreeIsEmpty(b, m, mid)
  BY <1>2, <1>8 DEF BankFlash, FreeIsEmpty
<1>14. \A k, off : Unread(m, k, off) <=> Unread(n, k, off)
  BY <1>1, <1>2 DEF Unread, Reading
<1>15. MarksTrue(b, m, mid)
  <2> SUFFICES ASSUME NEW k \in Block
               PROVE  /\ n.block_list[k].vbitmap \subseteq Offset
                      /\ \A off \in Offset : Unread(n, k, off) =>
                        /\ \A l \in LPN : mid[l] = Flash(b, k, off) =>
                                off \in n.block_list[k].vbitmap /\ (l \in HomeLPN => n.block_list[k].spare[off] = l)
                        /\ off \in n.block_list[k].vbitmap /\ n.block_list[k].spare[off] # RSP_INVALID_LPN =>
                                \E l \in LPN : mid[l] = Flash(b, k, off)
    BY <1>3, <1>14 DEF MarksTrue
  <2>1. /\ n.block_list[k].vbitmap \subseteq Offset
        /\ \A off \in Offset : Unread(n, k, off) =>
            /\ \A l \in LPN : map[l] = Flash(b, k, off) =>
                    off \in n.block_list[k].vbitmap /\ (l \in HomeLPN => n.block_list[k].spare[off] = l)
            /\ off \in n.block_list[k].vbitmap /\ n.block_list[k].spare[off] # RSP_INVALID_LPN =>
                    \E l \in LPN : map[l] = Flash(b, k, off)
    BY DEF BankFlash, MarksTrue
  <2>2. ASSUME NEW off \in Offset, Unread(n, k, off), NEW l \in LPN, map[l] = Flash(b, k, off)
        PROVE  l \notin F
    <3> SUFFICES ASSUME l \in F
                 PROVE  FALSE
      OBVIOUS
    <3>1. PICK h \in Held(n, "victim"), o \in Offset : map[l] = Flash(b, h, o) /\ ~Unread(n, h, o)
      BY <1>10
    <3>2. h = k /\ o = off
      BY <2>2, <3>1 DEF Flash
    <3> QED
      BY <2>2, <3>1, <3>2
  <2> QED
    BY <1>9, <2>1, <2>2
<1> DEFINE q == n.GCbuf_lpn
           rest == m.GCbuf_lpn
<1>16. /\ rest \in Seq(Home) /\ Len(rest) \in Nat /\ DOMAIN rest = 1 .. Len(rest)
       /\ \A i \in DOMAIN rest : i + SuperPage \in DOMAIN q /\ i + SuperPage > SuperPage
                /\ rest[i] = q[i + SuperPage]
       /\ \A i \in DOMAIN q : i > SuperPage => i - SuperPage \in DOMAIN rest /\ rest[i - SuperPage] = q[i]
  <2>1. q \in Seq(Home) /\ Len(q) >= SuperPage /\ rest = Behind(q)
    BY DEF BankInv, HomeOnly, BufferLong
  <2> HIDE DEF q, rest
  <2> QED
    BY <2>1, BehindIs
<1>17. \A i, j \in DOMAIN q : q[i] = q[j] => i = j \/ q[i] = RSP_INVALID_LPN
  BY DEF BankFlash, Collecting, HeldOnce
<1>18. SuperPage \in Nat /\ DOMAIN q = 1 .. Len(q) /\ Len(q) \in Nat /\ 1 .. SuperPage \subseteq DOMAIN q
  BY FrontIsHeld, FlashFacts
<1>19. F = {l \in LPN : \E i \in 1 .. SuperPage : q[i] = l}
  BY DEF GCFront, FrontOf
<1>20. /\ \A l \in LPN : l \in GCHeld(n) <=> \E i \in DOMAIN q : q[i] = l
       /\ \A l \in LPN : l \in GCHeld(m) <=> \E i \in DOMAIN rest : rest[i] = l
       /\ GCHeld(m) \subseteq LPN
  BY DEF GCHeld
<1>21. \A i \in DOMAIN q : i > SuperPage => q[i] \in Into(map, b, n.cur_vt_vpn.block)
  BY DEF BufferLong
<1>22. HeldOnce(m)
  <2> SUFFICES ASSUME NEW i \in DOMAIN rest, NEW j \in DOMAIN rest, rest[i] = rest[j]
               PROVE  i = j \/ rest[i] = RSP_INVALID_LPN
    BY DEF HeldOnce
  <2> HIDE DEF q, rest
  <2>1. i + SuperPage = j + SuperPage \/ rest[i] = RSP_INVALID_LPN
    BY <1>16, <1>17
  <2> QED
    BY <1>16, <1>18, <2>1
<1> HIDE DEF q, rest
<1>23. \A i \in DOMAIN rest : rest[i] \in Into(map, b, n.cur_vt_vpn.block) /\ rest[i] \in LPN /\ rest[i] # RSP_INVALID_LPN
  BY <1>16, <1>21, FlashFacts DEF Into
<1>24. \A l \in LPN : l \in GCHeld(m) <=> l \in GCHeld(n) /\ l \notin F
  <2> SUFFICES ASSUME NEW l \in LPN
               PROVE  l \in GCHeld(m) <=> l \in GCHeld(n) /\ l \notin F
    OBVIOUS
  <2>1. l # RSP_INVALID_LPN
    BY FlashFacts
  <2>2. ASSUME l \in GCHeld(m) PROVE l \in GCHeld(n) /\ l \notin F
    <3>1. PICK i \in DOMAIN rest : rest[i] = l
      BY <1>20, <2>2
    <3>2. i + SuperPage \in DOMAIN q /\ i + SuperPage > SuperPage /\ q[i + SuperPage] = l
      BY <1>16, <3>1
    <3>3. l \in GCHeld(n)
      BY <1>20, <3>2
    <3>4. ASSUME NEW j \in 1 .. SuperPage, q[j] = l PROVE FALSE
      <4>1. j \in DOMAIN q /\ j <= SuperPage
        BY <1>18, <3>4
      <4>2. j = i + SuperPage
        BY <1>17, <2>1, <3>2, <3>4, <4>1
      <4> QED
        BY <1>16, <1>18, <3>1, <3>2, <4>1, <4>2
    <3> QED
      BY <1>19, <3>3, <3>4
  <2>3. ASSUME l \in GCHeld(n), l \notin F PROVE l \in GCHeld(m)
    <3>1. PICK i \in DOMAIN q : q[i] = l
      BY <1>20, <2>3
    <3>2. i > SuperPage
      BY <1>18, <1>19, <2>3, <3>1
    <3>3. i - SuperPage \in DOMAIN rest /\ rest[i - SuperPage] = l
      BY <1>16, <3>1, <3>2
    <3> QED
      BY <1>20, <3>3
  <2> QED
    BY <2>2, <2>3
<1>25. HeldIsRead(b, m, mid)
  <2> SUFFICES ASSUME NEW l \in LPN
               PROVE  l \in GCHeld(m) <=>
                        \E k \in Held(n, "victim"), off \in Offset : mid[l] = Flash(b, k, off) /\ ~Unread(n, k, off)
    BY <1>2, <1>14 DEF HeldIsRead
  <2>1. l \in GCHeld(n) <=>
            \E k \in Held(n, "victim"), off \in Offset : map[l] = Flash(b, k, off) /\ ~Unread(n, k, off)
    BY DEF BankFlash, Collecting, HeldIsRead
  <2>2. \A k \in Held(n, "victim"), off \in Offset : mid[l] = Flash(b, k, off) <=> map[l] = Flash(b, k, off) /\ l \notin F
    BY <1>9, <1>10
  <2> QED
    BY <1>24, <2>1, <2>2
<1>26. \A k \in Held(m, "victim") : m.block_list[k].vcount <= MaxVcount
  <2> SUFFICES ASSUME NEW k \in Held(n, "victim")
               PROVE  m.block_list[k].vcount <= MaxVcount
    BY <1>2
  <2>1. k \in Block
    BY <1>10
  <2>2. n.block_list[k].vcount <= MaxVcount /\ n.block_list[k].vcount \in Nat
    BY <2>1 DEF BankFlash, Collecting, VcountsRight
  <2>3. m.block_list[k].vcount = n.block_list[k].vcount - Cardinality(F \cap Into(map, b, k))
    <3>1. Payment(n, k, Cardinality(F)) = Cardinality(F \cap Into(map, b, k))
      BY <1>33
    <3>2. m.block_list[k].vcount = n.block_list[k].vcount - Payment(n, k, Cardinality(F))
      BY <2>1
    <3> QED
      BY <3>1, <3>2
  <2>4. Cardinality(F \cap Into(map, b, k)) \in Nat
    <3>1. IsFiniteSet(Into(map, b, k)) /\ F \cap Into(map, b, k) \subseteq Into(map, b, k)
      BY IntoFinite
    <3> QED
      BY <3>1, FS_Subset, FS_CardinalityType
  <2> QED
    BY <2>2, <2>3, <2>4, MaxVcountIs
<1>27. CurrentIsLast(b, m, mid)
  <2> DEFINE cur == n.cur_vt_vpn.block
             f == [i \in DOMAIN rest |-> rest[i]]
             A == GCHeld(m) \cap Into(mid, b, cur)
             D == DOMAIN rest
  <2>1. A = GCHeld(m)
    <3>1. \A l \in GCHeld(m) : l \in Into(map, b, cur) /\ l \notin F
      <4> SUFFICES ASSUME NEW l \in GCHeld(m) PROVE l \in Into(map, b, cur) /\ l \notin F
        OBVIOUS
      <4>1. PICK i \in DOMAIN rest : rest[i] = l
        BY <1>20
      <4> QED
        BY <1>20, <1>23, <1>24, <4>1
    <3> QED
      BY <1>8, <3>1
  <2>2. \A l \in A : \E i \in D : f[i] = l
    BY <1>20, <2>1
  <2>3. f \in [D -> A]
    BY <1>20, <1>23, <2>1
  <2>4. \A x, y \in D : f[x] = f[y] => x = y
    BY <1>22, <1>23 DEF HeldOnce, rest
  <2>5. IsFiniteSet(D) /\ Cardinality(D) = Len(rest)
    <3> DEFINE N == Len(rest)
    <3>1. N \in Nat /\ D = 1 .. N
      BY <1>16
    <3> HIDE DEF N, D
    <3>2. IsFiniteSet(1 .. N) /\ Cardinality(1 .. N) = IF 1 > N THEN 0 ELSE N - 1 + 1
      BY <3>1, FS_Interval
    <3> QED
      BY <3>1, <3>2 DEF N
  <2> HIDE DEF f, A, D
  <2>6. IsFiniteSet(D)
    BY <2>5
  <2>7. Cardinality(A) = Cardinality(D)
    BY ONLY <2>2, <2>3, <2>4, <2>6, BijectionCounted
  <2>8. m.num_gcbuffed = Cardinality(A)
    BY <2>5, <2>7 DEF rest
  <2> QED
    BY <1>1, <2>8 DEF CurrentIsLast, BankFlash, Collecting, A
<1>28. Collecting(b, m, mid)
  <2>1. m.num_gcbuffed \in Nat
    BY <1>16 DEF rest
  <2> QED
    BY <1>22, <1>25, <1>26, <1>27, <2>1 DEF Collecting
<1>29. \A k, page : MappedBelow(b, k, page, map) => MappedBelow(b, k, page, mid)
  BY <1>5, <1>7 DEF MappedBelow
<1>30. WritesFresh(b, m, mid)
  BY <1>1, <1>2, <1>29 DEF BankFlash, WritesFresh, Filling, NextPage
<1>31. CollectorFresh(b, m, mid)
  BY <1>1, <1>2, <1>29 DEF BankFlash, CollectorFresh, Filling
<1>32. Holes(m) = {}
  BY <1>23 DEF Holes, rest
<1> QED
  BY <1>6, <1>8, <1>12, <1>13, <1>15, <1>28, <1>30, <1>31, <1>32 DEF BankFlash

\* The bank between these steps.
ReadBank(c, q, num, vt) == [c EXCEPT !.GCbuf_lpn = q, !.num_gcbuffed = num, !.cur_vt_vpn = vt]
PaidInfo(c, k, count) ==
    IF k \in Held(c, "victim") THEN Paid(c.block_list[k], Payment(c, k, count)) ELSE c.block_list[k]
PaidList(c, count) == [k \in Block |-> PaidInfo(c, k, count)]
PaidBank(c, q, num, list) == [c EXCEPT !.GCbuf_lpn = q, !.num_gcbuffed = num, !.block_list = list]

LEMMA CollectorStep ==
    ASSUME NEW n, BankInv(n), NEW m, DOMAIN m = BankField,
           \A f \in BankField \ {"GCbuf_lpn", "num_gcbuffed", "cur_vt_vpn", "block_list"} : m[f] = n[f],
           m.GCbuf_lpn \in Seq(Home),
           m.cur_vt_vpn # VC_MAX => m.cur_vt_vpn \in [block : Block, page : Nat],
           DOMAIN m.block_list = Block,
           \A k \in Block :
                /\ DOMAIN m.block_list[k] = InfoField
                /\ SameFields(n.block_list[k], m.block_list[k], {"spare", "remained_remap_cnt"})
                /\ k \notin Held(n, "victim") => m.block_list[k].vcount = n.block_list[k].vcount
    PROVE  BankInv(m)
<1>1. /\ m.data_list = n.data_list /\ m.victim_list = n.victim_list
      /\ m.RW_log_list = n.RW_log_list /\ m.free_list = n.free_list /\ m.GC_BLK = n.GC_BLK
      /\ m.cur_write_vpn = n.cur_write_vpn /\ m.writebuf = n.writebuf
      /\ m.writebuf_index = n.writebuf_index /\ m.remap_inbuff_cnt = n.remap_inbuff_cnt
  BY DEF BankField
<1>2. Conserved(m)
  BY <1>1, ListsStay DEF BankInv
<1>3. \A k \in Block : /\ m.block_list[k].spare = n.block_list[k].spare
                       /\ m.block_list[k].remained_remap_cnt = n.block_list[k].remained_remap_cnt
  BY DEF SameFields
<1>4. HomeOnly(m)
  BY <1>3 DEF BankInv, HomeOnly
<1>5. Counted(m)
  BY <1>1, ListsAre DEF BankInv, Counted, Held
<1>6. Quiet(n, m)
  BY <1>1, <1>2, <1>3, <1>4, <1>5, QuietStep
<1> QED
  BY <1>6 DEF Quiet

LEMMA ReadBankIs ==
    ASSUME NEW c, BankInv(c), NEW q \in Seq(Home), NEW num, NEW vt \in [block : Block, page : Nat],
           NEW r, r = ReadBank(c, q, num, vt)
    PROVE  /\ BankInv(r)
           /\ DOMAIN r = BankField
           /\ \A f \in BankField \ {"GCbuf_lpn", "num_gcbuffed", "cur_vt_vpn"} : r[f] = c[f]
           /\ r.GCbuf_lpn = q /\ r.num_gcbuffed = num /\ r.cur_vt_vpn = vt
<1>1. /\ DOMAIN r = BankField
      /\ \A f \in BankField \ {"GCbuf_lpn", "num_gcbuffed", "cur_vt_vpn"} : r[f] = c[f]
      /\ r.GCbuf_lpn = q /\ r.num_gcbuffed = num /\ r.cur_vt_vpn = vt
  BY DEF BankInv, BankShape, BankField, ReadBank
<1>2. r.block_list = c.block_list
  BY <1>1 DEF BankField
<1>3. DOMAIN r.block_list = Block /\ \A k \in Block : DOMAIN r.block_list[k] = InfoField
  BY <1>2 DEF BankInv, BankShape
<1>4. \A k \in Block : SameFields(c.block_list[k], r.block_list[k], {"spare", "remained_remap_cnt"})
  BY <1>2 DEF SameFields
<1>5. BankInv(r)
  BY <1>1, <1>2, <1>3, <1>4, CollectorStep
<1> QED
  BY <1>1, <1>5

LEMMA PaidInfoIs ==
    ASSUME NEW c, BankInv(c), NEW count, NEW k \in Block, NEW info, info = PaidInfo(c, k, count)
    PROVE  /\ DOMAIN info = InfoField
           /\ SameFields(c.block_list[k], info, {"spare", "remained_remap_cnt", "vbitmap"})
           /\ info.vcount = IF k \in Held(c, "victim") THEN c.block_list[k].vcount - Payment(c, k, count)
                            ELSE c.block_list[k].vcount
<1> DEFINE old == c.block_list[k]
           pay == Payment(c, k, count)
<1>1. DOMAIN old = InfoField
  BY DEF BankInv, BankShape
<1>2. info = IF k \in Held(c, "victim") THEN Paid(old, pay) ELSE old
  BY DEF PaidInfo
<1> HIDE DEF old, pay
<1>3. /\ DOMAIN info = InfoField
      /\ info.spare = old.spare /\ info.remained_remap_cnt = old.remained_remap_cnt /\ info.vbitmap = old.vbitmap
      /\ info.vcount = IF k \in Held(c, "victim") THEN old.vcount - pay ELSE old.vcount
  BY <1>1, <1>2 DEF InfoField, Paid
<1> QED
  BY <1>3 DEF old, pay, SameFields

LEMMA PaidBankIs ==
    ASSUME NEW c, BankInv(c), NEW q \in Seq(Home), NEW num, NEW count,
           NEW p, p = PaidBank(c, q, num, PaidList(c, count))
    PROVE  /\ BankInv(p)
           /\ \A f \in BankField \ {"GCbuf_lpn", "num_gcbuffed", "block_list"} : p[f] = c[f]
           /\ p.GCbuf_lpn = q /\ p.num_gcbuffed = num
           /\ DOMAIN p.block_list = Block
           /\ \A k \in Block : p.block_list[k] = PaidInfo(c, k, count)
<1> DEFINE list == PaidList(c, count)
<1>1. DOMAIN list = Block /\ \A k \in Block : list[k] = PaidInfo(c, k, count)
  BY DEF PaidList
<1> HIDE DEF list
<1>2. p = PaidBank(c, q, num, list)
  BY DEF list
<1>3. /\ DOMAIN p = BankField
      /\ \A f \in BankField \ {"GCbuf_lpn", "num_gcbuffed", "block_list"} : p[f] = c[f]
      /\ p.GCbuf_lpn = q /\ p.num_gcbuffed = num /\ p.block_list = list
  BY <1>2 DEF BankInv, BankShape, BankField, PaidBank
<1>4. p.cur_vt_vpn = c.cur_vt_vpn
  BY <1>3 DEF BankField
<1>5. p.cur_vt_vpn # VC_MAX => p.cur_vt_vpn \in [block : Block, page : Nat]
  BY <1>4 DEF BankInv, BankShape
<1>6. \A k \in Block :
        /\ DOMAIN p.block_list[k] = InfoField
        /\ SameFields(c.block_list[k], p.block_list[k], {"spare", "remained_remap_cnt"})
        /\ k \notin Held(c, "victim") => p.block_list[k].vcount = c.block_list[k].vcount
  <2> SUFFICES ASSUME NEW k \in Block
               PROVE  /\ DOMAIN p.block_list[k] = InfoField
                      /\ SameFields(c.block_list[k], p.block_list[k], {"spare", "remained_remap_cnt"})
                      /\ k \notin Held(c, "victim") => p.block_list[k].vcount = c.block_list[k].vcount
    OBVIOUS
  <2>1. p.block_list[k] = PaidInfo(c, k, count)
    BY <1>1, <1>3
  <2>2. /\ DOMAIN p.block_list[k] = InfoField
        /\ SameFields(c.block_list[k], p.block_list[k], {"spare", "remained_remap_cnt", "vbitmap"})
        /\ p.block_list[k].vcount = IF k \in Held(c, "victim") THEN c.block_list[k].vcount - Payment(c, k, count)
                                    ELSE c.block_list[k].vcount
    BY <2>1, PaidInfoIs
  <2> QED
    BY <2>2 DEF SameFields
<1>7. BankInv(p)
  BY <1>1, <1>3, <1>5, <1>6, CollectorStep
<1> QED
  BY <1>1, <1>3, <1>7

\* Who pays what depends on the victims only.
LEMMA PaidInfoSame ==
    ASSUME NEW c, NEW r, r.victim_list = c.victim_list, r.block_list = c.block_list, NEW k, NEW count
    PROVE  PaidInfo(r, k, count) = PaidInfo(c, k, count)
<1>1. Held(r, "victim") = Held(c, "victim")
  BY ListsAre DEF Held
<1>2. Payment(r, k, count) = Payment(c, k, count)
  BY DEF Payment
<1> QED
  BY <1>1, <1>2 DEF PaidInfo

-----------------------------------------------------------------------------
(***************************************************************************)
(* A round that writes the collector's buffer.                             *)
(***************************************************************************)
\* The target is a page without data of a data block.
Target(b, c, map) ==
    /\ c.cur_gc_vpn # VC_MAX /\ c.cur_gc_vpn.page \in 0 .. LAST
    /\ c.cur_gc_vpn.block \in Held(c, "data")
    /\ PageIsFresh(b, c, map, c.cur_gc_vpn.block, c.cur_gc_vpn.page)

\* The map after it: front is the buffer's first super page.
Collected(map, map2, b, vpn2, buffer) ==
    \A l \in LPN :
        IF l \in FrontOf(buffer, SuperPage)
        THEN \E i \in 1 .. SuperPage :
                buffer[i] = l /\ map2[l] = Flash(b, vpn2.block, OffsetOf(vpn2.page, i - 1))
        ELSE map2[l] = map[l]

\* The pages in the order of the buffer, as a program takes them.
PageBuffer(buffer) == [pos \in Position |-> [req |-> buffer[pos + 1], remap |-> RSP_INVALID_LPN]]

LEMMA PageBufferIs ==
    ASSUME NEW q, \A i \in 1 .. SuperPage : q[i] \in Home,
           \A i, j \in 1 .. SuperPage : q[i] = q[j] => i = j \/ q[i] = RSP_INVALID_LPN,
           NEW buf, buf = PageBuffer(q)
    PROVE  /\ DOMAIN buf = Position
           /\ \A p \in Position : p + 1 \in 1 .. SuperPage /\ buf[p].req = q[p + 1] /\ SpareOf(buf, p) = q[p + 1]
           /\ \A i \in 1 .. SuperPage : i - 1 \in Position /\ (i - 1) + 1 = i
           /\ Mapped(buf) = {p \in Position : q[p + 1] # RSP_INVALID_LPN}
           /\ AddressesOf(buf) = FrontOf(q, SuperPage)
           /\ Cardinality(Mapped(buf)) = Cardinality(FrontOf(q, SuperPage))
           /\ \A p \in Mapped(buf) : buf[p].req \in LPN
           /\ \A p, x \in Mapped(buf) : buf[p].req = buf[x].req => p = x
<1>1. SuperPage \in Nat /\ Position = 0 .. SuperPage - 1
  BY FlashFacts DEF Position
<1>2. \A p \in Position : p + 1 \in 1 .. SuperPage
  BY <1>1
<1>3. \A i \in 1 .. SuperPage : i - 1 \in Position /\ (i - 1) + 1 = i
  BY <1>1
<1>4. DOMAIN buf = Position /\ \A p \in Position : buf[p] = [req |-> q[p + 1], remap |-> RSP_INVALID_LPN]
  BY DEF PageBuffer
<1>5. \A p \in Position : buf[p].req = q[p + 1] /\ SpareOf(buf, p) = q[p + 1]
  BY <1>4 DEF SpareOf
<1>6. Mapped(buf) = {p \in Position : q[p + 1] # RSP_INVALID_LPN}
  BY <1>4, <1>5 DEF Mapped
<1>7. \A p \in Mapped(buf) : p \in Position /\ buf[p].req \in LPN /\ buf[p].req = q[p + 1]
  BY <1>2, <1>5, <1>6 DEF Home, LPN
<1>8. \A p, x \in Mapped(buf) : buf[p].req = buf[x].req => p = x
  <2> SUFFICES ASSUME NEW p \in Mapped(buf), NEW x \in Mapped(buf), buf[p].req = buf[x].req
               PROVE  p = x
    OBVIOUS
  <2>1. q[p + 1] = q[x + 1] /\ q[p + 1] # RSP_INVALID_LPN /\ p + 1 \in 1 .. SuperPage /\ x + 1 \in 1 .. SuperPage
    BY <1>2, <1>6, <1>7
  <2>2. p + 1 = x + 1
    BY <2>1
  <2> QED
    BY <1>1, <1>7, <2>2
<1>9. ASSUME NEW l \in FrontOf(q, SuperPage)
      PROVE  \E p \in Mapped(buf) : buf[p].req = l
  <2>1. PICK i \in 1 .. SuperPage : q[i] = l /\ l \in LPN
    BY DEF FrontOf
  <2>2. i - 1 \in Mapped(buf) /\ buf[i - 1].req = l
    BY <1>3, <1>5, <1>6, <2>1, FlashFacts
  <2> QED
    BY <2>2
<1>10. ASSUME NEW p \in Mapped(buf)
       PROVE  buf[p].req \in FrontOf(q, SuperPage)
  BY <1>2, <1>7 DEF FrontOf
<1>11. AddressesOf(buf) = FrontOf(q, SuperPage)
  BY <1>9, <1>10 DEF AddressesOf
<1>12. Cardinality(Mapped(buf)) = Cardinality(FrontOf(q, SuperPage))
  <2> DEFINE S == Mapped(buf)
             T == FrontOf(q, SuperPage)
             f == [p \in S |-> buf[p].req]
  <2>1. f \in [S -> T] /\ \A x, y \in S : f[x] = f[y] => x = y
    BY <1>8, <1>10
  <2>2. \A t \in T : \E x \in S : f[x] = t
    BY <1>9
  <2>3. IsFiniteSet(S)
    BY <1>6, FlashFacts, FS_Subset
  <2> HIDE DEF S, T, f
  <2>4. Cardinality(T) = Cardinality(S)
    BY ONLY <2>1, <2>2, <2>3, BijectionCounted
  <2> QED
    BY <2>4 DEF S, T
<1> QED
  BY <1>2, <1>3, <1>4, <1>5, <1>6, <1>7, <1>8, <1>11, <1>12

\* The bank after it.
Wrote(c, m, blk, page, buffer, count) ==
    /\ SameFields(c, m, ReadField \ {"block_list"})
    /\ m.GCbuf_lpn = Behind(buffer) /\ m.num_gcbuffed = Len(m.GCbuf_lpn)
    /\ m.cur_vt_vpn = [block |-> blk, page |-> page]
    /\ \A k \in Block : SameFields(IF k = c.cur_gc_vpn.block
                                   THEN Programmed(PaidInfo(c, k, count), c.cur_gc_vpn.page, PageBuffer(buffer))
                                   ELSE PaidInfo(c, k, count),
                                   m.block_list[k], {"vcount", "vbitmap", "spare"})

\* A round that reads.
ReadAt(b, n, map, blk, page, offs) ==
    /\ \A s \in SlotLPN : InBank(map[s], b) => map[s].block \notin Held(n, "victim")
    /\ n.cur_vt_vpn # VC_MAX /\ blk = n.cur_vt_vpn.block
    /\ IsRead(b, n.block_list[blk], blk, map, n.cur_vt_vpn.page, page, offs)

\* What the write leaves behind: F are the addresses written.
WriteDone(b, c, m, map, map2, blk, F) ==
    /\ MapApart(map2) /\ BankFlash(b, m, map2) /\ m.cur_vt_vpn # VC_MAX
    /\ \A d \in Bank : d # b => SameMap(map, map2, d)
    /\ Holes(m) = {}
    /\ Cardinality(F) \in Nat /\ Cardinality(F) + Cardinality(Holes(c)) = SuperPage
    /\ \A k \in Held(c, "victim") : m.block_list[k].vcount = c.block_list[k].vcount - Cardinality(F \cap Into(map, b, k))
    /\ \A k \in Held(c, "victim") : k # blk => Into(map, b, k) \subseteq F
    /\ \A l \in F : \E k \in Held(c, "victim") : l \in Into(map, b, k)

LEMMA ReadRange ==
    ASSUME NEW b \in Bank, NEW n, BankInv(n), NEW map, MapApart(map), BankFlash(b, n, map),
           NEW blk, NEW page, NEW offs, ReadAt(b, n, map, blk, page, offs)
    PROVE  /\ blk \in Block /\ blk \in Held(n, "victim") /\ page \in 0 .. PhysPages /\ page \in Nat
           /\ n.cur_vt_vpn.page \in 0 .. PhysPages
<1>1. blk \in Block /\ blk \in Held(n, "victim") /\ n.cur_vt_vpn.page \in 0 .. PhysPages
  BY UnreadIsMarked DEF ReadAt
<1>2. PhysPages \in Nat /\ page \in n.cur_vt_vpn.page .. PhysPages
  BY FlashFacts DEF ReadAt, IsRead
<1> QED
  BY <1>1, <1>2

LEMMA WriteFlash ==
    ASSUME NEW b \in Bank, NEW c, BankInv(c), NEW map, MapApart(map), BankFlash(b, c, map),
           Target(b, c, map), Len(c.GCbuf_lpn) < SuperPage,
           NEW blk, NEW page, NEW offs, ReadAt(b, c, map, blk, page, offs),
           NEW buffer, buffer = BufferedRead(c.GCbuf_lpn, c.block_list[blk].spare, offs),
           Len(buffer) >= SuperPage,
           NEW F, F = FrontOf(buffer, SuperPage),
           NEW m, Wrote(c, m, blk, page, buffer, Cardinality(F)),
           NEW map2, Collected(map, map2, b, c.cur_gc_vpn, buffer)
    PROVE  WriteDone(b, c, m, map, map2, blk, F)
<1> DEFINE q == c.GCbuf_lpn
           vt == [block |-> blk, page |-> page]
           num == c.num_gcbuffed + Len(offs)
           r == ReadBank(c, buffer, num, vt)
           count == Cardinality(F)
           rest == Behind(buffer)
           p == PaidBank(r, rest, Len(rest), PaidList(r, count))
           mid == [l \in LPN |-> IF l \in F THEN VC_MAX ELSE map[l]]
           tb == c.cur_gc_vpn.block
           tp == c.cur_gc_vpn.page
           buf == PageBuffer(buffer)
<1> HIDE DEF q, vt, num, r, count, rest, p, mid, tb, tp, buf
<1>0. /\ \A s \in SlotLPN : InBank(map[s], b) => map[s].block \notin Held(c, "victim")
      /\ c.cur_vt_vpn # VC_MAX /\ blk = c.cur_vt_vpn.block
      /\ IsRead(b, c.block_list[blk], blk, map, c.cur_vt_vpn.page, page, offs)
  BY DEF ReadAt
<1>1. blk \in Block /\ blk \in Held(c, "victim") /\ c.cur_vt_vpn.page \in 0 .. PhysPages
  BY ReadRange
<1>2. page \in 0 .. PhysPages /\ page \in Nat /\ vt \in [block : Block, page : Nat]
  <2>1. PhysPages \in Nat /\ page \in c.cur_vt_vpn.page .. PhysPages
    BY <1>0, FlashFacts DEF IsRead
  <2>2. page \in 0 .. PhysPages /\ page \in Nat
    BY <1>1, <2>1
  <2> QED
    BY <1>1, <2>2 DEF vt
<1>3. /\ buffer \in Seq(Home) /\ DOMAIN buffer = 1 .. Len(buffer)
      /\ Len(q) \in Nat /\ DOMAIN q = 1 .. Len(q) /\ Len(buffer) \in Nat
      /\ \A i \in DOMAIN q : i \in DOMAIN buffer /\ buffer[i] = q[i]
      /\ \A i \in DOMAIN buffer : buffer[i] \in Home
  <2> DEFINE spare == c.block_list[blk].spare
  <2>1. /\ q \in Seq(Home) /\ \A off \in Offset : spare[off] \in Home
        /\ buffer = BufferedRead(q, spare, offs) /\ offs \in Seq(Offset)
    BY <1>0, <1>1 DEF BankInv, HomeOnly, IsRead, q
  <2> HIDE DEF spare
  <2>2. /\ buffer \in Seq(Home) /\ DOMAIN buffer = 1 .. Len(buffer)
        /\ Len(q) \in Nat /\ DOMAIN q = 1 .. Len(q)
        /\ \A i \in DOMAIN q : i \in DOMAIN buffer /\ buffer[i] = q[i]
    BY <2>1, BufferRead
  <2>3. Len(buffer) \in Nat /\ \A i \in DOMAIN buffer : buffer[i] \in Home
    BY <2>2, LenProperties, ElementOfSeq
  <2> QED
    BY <2>2, <2>3
<1>4. /\ BankInv(r)
      /\ DOMAIN r = BankField
      /\ \A f \in BankField \ {"GCbuf_lpn", "num_gcbuffed", "cur_vt_vpn"} : r[f] = c[f]
      /\ r.GCbuf_lpn = buffer /\ r.num_gcbuffed = num /\ r.cur_vt_vpn = vt
  <2>1. BankInv(c) /\ buffer \in Seq(Home) /\ vt \in [block : Block, page : Nat] /\ r = ReadBank(c, buffer, num, vt)
    BY <1>2, <1>3 DEF r
  <2> QED
    BY ONLY <2>1, ReadBankIs
<1>5. /\ BankFlash(b, r, map) /\ Holes(r) = Holes(c) /\ r.cur_vt_vpn # VC_MAX
      /\ \A i \in DOMAIN r.GCbuf_lpn : i \notin DOMAIN q => r.GCbuf_lpn[i] \in Into(map, b, blk)
  <2>1. SameFields(c, r, ReadField)
    BY <1>4 DEF SameFields, ReadField, BankField
  <2>2. /\ r.GCbuf_lpn = BufferedRead(c.GCbuf_lpn, c.block_list[blk].spare, offs)
        /\ r.num_gcbuffed = c.num_gcbuffed + Len(offs)
        /\ r.cur_vt_vpn = [block |-> blk, page |-> page]
    BY <1>4 DEF num, vt
  <2>3. /\ b \in Bank /\ BankInv(c) /\ MapApart(map) /\ BankFlash(b, c, map)
        /\ \A s \in SlotLPN : InBank(map[s], b) => map[s].block \notin Held(c, "victim")
        /\ c.cur_vt_vpn # VC_MAX /\ blk = c.cur_vt_vpn.block
        /\ IsRead(b, c.block_list[blk], blk, map, c.cur_vt_vpn.page, page, offs)
    BY <1>0
  <2>4. /\ BankFlash(b, r, map) /\ Holes(r) = Holes(c) /\ r.cur_vt_vpn # VC_MAX
        /\ \A i \in DOMAIN r.GCbuf_lpn : i \notin DOMAIN c.GCbuf_lpn => r.GCbuf_lpn[i] \in Into(map, b, blk)
    BY ONLY <2>1, <2>2, <2>3, ReadFlash
  <2> QED
    BY <2>4 DEF q
<1>6. /\ r.victim_list = c.victim_list /\ r.block_list = c.block_list /\ r.data_list = c.data_list
      /\ r.cur_gc_vpn = c.cur_gc_vpn /\ r.cur_write_vpn = c.cur_write_vpn /\ r.write_start = c.write_start
      /\ r.GC_BLK = c.GC_BLK /\ r.free_list = c.free_list
  BY <1>4 DEF BankField
<1>7. /\ Held(r, "victim") = Held(c, "victim") /\ Held(r, "data") = Held(c, "data")
  BY <1>6, ListsAre DEF Held
<1>8. BufferLong(b, r, map) /\ F = GCFront(r)
  <2>1. r.cur_vt_vpn.block = blk
    BY <1>4 DEF vt
  <2>2. \A i \in DOMAIN r.GCbuf_lpn : i > SuperPage => i \notin DOMAIN q
    <3>1. Len(q) < SuperPage
      BY DEF q
    <3> DEFINE L == Len(q)
    <3>2. SuperPage \in Nat /\ L \in Nat /\ L < SuperPage /\ DOMAIN q = 1 .. L
      BY <1>3, <3>1, FlashFacts
    <3> HIDE DEF L
    <3>3. \A i \in DOMAIN q : ~(i > SuperPage)
      BY <3>2
    <3> QED
      BY <3>3
  <2>3. Len(r.GCbuf_lpn) >= SuperPage
    BY <1>4
  <2> QED
    BY <1>4, <1>5, <2>1, <2>2, <2>3 DEF BufferLong, GCFront
<1>9. rest \in Seq(Home) /\ Len(rest) \in Nat
  <2>1. rest = Behind(buffer)
    BY DEF rest
  <2> QED
    BY <1>3, <2>1, BehindIs
<1>10. /\ BankInv(p)
       /\ \A f \in BankField \ {"GCbuf_lpn", "num_gcbuffed", "block_list"} : p[f] = r[f]
       /\ p.GCbuf_lpn = rest /\ p.num_gcbuffed = Len(rest)
       /\ \A k \in Block : p.block_list[k] = PaidInfo(r, k, count)
  <2>1. BankInv(r) /\ rest \in Seq(Home) /\ p = PaidBank(r, rest, Len(rest), PaidList(r, count))
    BY <1>4, <1>9 DEF p
  <2> QED
    BY ONLY <2>1, PaidBankIs
<1>11. \A k \in Block : p.block_list[k] = PaidInfo(c, k, count)
  <2> SUFFICES ASSUME NEW k \in Block
               PROVE  p.block_list[k] = PaidInfo(c, k, count)
    OBVIOUS
  <2>1. r.victim_list = c.victim_list /\ r.block_list = c.block_list
    BY <1>6
  <2>2. PaidInfo(r, k, count) = PaidInfo(c, k, count)
    BY ONLY <2>1, PaidInfoSame
  <2> QED
    BY <1>10, <2>2
<1>12. \A l \in LPN : mid[l] = IF l \in F THEN VC_MAX ELSE map[l]
  BY DEF mid
<1>13. /\ MapApart(mid) /\ BankFlash(b, p, mid)
       /\ \A k : Into(mid, b, k) = Into(map, b, k) \ F
       /\ Holes(p) = {}
  <2>1. SameFields(r, p, PaidField)
    BY <1>10 DEF SameFields, PaidField, BankField
  <2>2. p.GCbuf_lpn = Behind(r.GCbuf_lpn) /\ p.num_gcbuffed = Len(p.GCbuf_lpn)
    BY <1>4, <1>10 DEF rest
  <2>3. \A k \in Block : /\ SameFields(r.block_list[k], p.block_list[k], {"vbitmap", "spare"})
                         /\ p.block_list[k].vcount = r.block_list[k].vcount -
                                    (IF k \in Held(r, "victim") THEN Payment(r, k, Cardinality(F)) ELSE 0)
    <3> SUFFICES ASSUME NEW k \in Block
                 PROVE  /\ SameFields(r.block_list[k], p.block_list[k], {"vbitmap", "spare"})
                        /\ p.block_list[k].vcount = r.block_list[k].vcount -
                                    (IF k \in Held(r, "victim") THEN Payment(r, k, Cardinality(F)) ELSE 0)
      OBVIOUS
    <3>1. /\ SameFields(r.block_list[k], p.block_list[k], {"spare", "remained_remap_cnt", "vbitmap"})
          /\ p.block_list[k].vcount = IF k \in Held(r, "victim") THEN r.block_list[k].vcount - Payment(r, k, count)
                                      ELSE r.block_list[k].vcount
      <4>1. BankInv(r) /\ k \in Block /\ p.block_list[k] = PaidInfo(r, k, count)
        BY <1>4, <1>10
      <4> QED
        BY ONLY <4>1, PaidInfoIs
    <3>2. r.block_list[k].vcount \in Nat
      BY <1>5 DEF BankFlash, VcountsRight
    <3> QED
      BY <3>1, <3>2 DEF SameFields, count
  <2>4. /\ b \in Bank /\ BankInv(r) /\ MapApart(map) /\ BankFlash(b, r, map) /\ BufferLong(b, r, map) /\ F = GCFront(r)
    BY <1>4, <1>5, <1>8
  <2> QED
    BY ONLY <1>12, <2>1, <2>2, <2>3, <2>4, PaidFlash
<1>34. 1 .. SuperPage \subseteq DOMAIN buffer
  <2> DEFINE L == Len(buffer)
  <2>1. SuperPage \in Nat /\ L \in Nat /\ L >= SuperPage /\ DOMAIN buffer = 1 .. L
    BY <1>3, FlashFacts
  <2> HIDE DEF L
  <2>2. 1 .. SuperPage \subseteq 1 .. L
    BY <2>1
  <2> QED
    BY <2>1, <2>2
<1>14. \A i, j \in 1 .. SuperPage : buffer[i] = buffer[j] => i = j \/ buffer[i] = RSP_INVALID_LPN
  <2>1. HeldOnce(r)
    BY <1>5 DEF BankFlash, Collecting
  <2> QED
    BY <1>4, <1>34, <2>1 DEF HeldOnce
<1>15. \A i \in 1 .. SuperPage : buffer[i] \in Home
  BY <1>3, <1>34
<1>16. /\ DOMAIN buf = Position
       /\ \A x \in Position : x + 1 \in 1 .. SuperPage /\ buf[x].req = buffer[x + 1] /\ SpareOf(buf, x) = buffer[x + 1]
       /\ Mapped(buf) = {x \in Position : buffer[x + 1] # RSP_INVALID_LPN}
       /\ AddressesOf(buf) = F
       /\ \A i \in 1 .. SuperPage : i - 1 \in Position /\ (i - 1) + 1 = i
       /\ \A x \in Mapped(buf) : buf[x].req \in LPN
       /\ \A x, y \in Mapped(buf) : buf[x].req = buf[y].req => x = y
  <2>1. buf = PageBuffer(buffer)
    BY DEF buf
  <2>2. F = FrontOf(buffer, SuperPage)
    OBVIOUS
  <2> QED
    BY ONLY <1>14, <1>15, <2>1, <2>2, PageBufferIs
<1>17. BufferReady(buf, mid)
  <2>1. \A x \in Mapped(buf) : x \in Position /\ buf[x].req \in F /\ buf[x].req \in LPN
    BY <1>16 DEF AddressesOf
  <2>2. \A x \in Mapped(buf) : ~InFlash(mid[buf[x].req])
    BY <1>12, <2>1 DEF InFlash
  <2>3. \A x \in Mapped(buf) : SpareOf(buf, x) = buf[x].req
    BY <1>16, <2>1
  <2>4. \A x \in Position \ Mapped(buf) : SpareOf(buf, x) = RSP_INVALID_LPN
    BY <1>16
  <2> QED
    BY <1>16, <2>1, <2>2, <2>3, <2>4 DEF BufferReady
<1>18. WrittenTo(buf, b, tb, tp, mid, map2)
  <2>1. ASSUME NEW x \in Mapped(buf)
        PROVE  map2[buf[x].req] = Flash(b, tb, OffsetOf(tp, x))
    <3> DEFINE l == buf[x].req
    <3>1. l \in F /\ l \in LPN /\ x \in Position /\ l # RSP_INVALID_LPN /\ buffer[x + 1] = l /\ x + 1 \in 1 .. SuperPage
      BY <1>16 DEF AddressesOf
    <3>2. PICK i \in 1 .. SuperPage : buffer[i] = l /\ map2[l] = Flash(b, tb, OffsetOf(tp, i - 1))
      BY <3>1 DEF Collected, tb, tp
    <3> HIDE DEF l
    <3>3. i = x + 1
      BY <1>14, <3>1, <3>2
    <3>4. i - 1 = x
      <4>1. x \in Int
        BY <3>1, FlashFacts DEF Position
      <4> QED
        BY <3>3, <4>1
    <3>5. map2[l] = Flash(b, tb, OffsetOf(tp, x))
      BY <3>2, <3>4
    <3> QED
      BY <3>5 DEF l
  <2>2. ASSUME NEW l \in LPN \ AddressesOf(buf)
        PROVE  map2[l] = mid[l]
    BY <1>12, <1>16 DEF Collected
  <2> QED
    BY <2>1, <2>2 DEF WrittenTo
<1>19. /\ p.cur_gc_vpn = c.cur_gc_vpn /\ p.cur_write_vpn = c.cur_write_vpn /\ p.write_start = c.write_start
       /\ p.data_list = c.data_list /\ p.victim_list = c.victim_list /\ p.GC_BLK = c.GC_BLK /\ p.free_list = c.free_list
       /\ p.cur_vt_vpn = r.cur_vt_vpn
  BY <1>6, <1>10 DEF BankField
<1>20. PageIsFresh(b, p, mid, tb, tp)
  <2>1. \A l \in LPN : InBlock(mid[l], b, tb) => InBlock(map[l], b, tb) /\ mid[l] = map[l]
    BY <1>12 DEF InBlock, InBank, InFlash
  <2> QED
    BY <1>19, <2>1 DEF Target, PageIsFresh, Filling, NextPage, tb, tp
<1>21. tb \in Held(p, "data") \cup Held(p, "RW_log") /\ tp \in 0 .. LAST
  BY <1>19, ListsAre DEF Target, Held, tb, tp
<1>22. tb \in Block
  <2>1. tb \in Held(c, "data")
    BY DEF Target, tb
  <2> QED
    BY <2>1, HeldBlocks, ListsAre DEF BankInv
<1>23. BankFlash(b, m, map2)
  <2>1. m.GC_BLK = c.GC_BLK /\ m.cur_write_vpn = c.cur_write_vpn /\ m.write_start = c.write_start
        /\ m.data_list = c.data_list /\ m.free_list = c.free_list /\ m.victim_list = c.victim_list
        /\ m.cur_gc_vpn = c.cur_gc_vpn
    BY DEF Wrote, SameFields, ReadField
  <2>2. m.GCbuf_lpn = p.GCbuf_lpn /\ m.num_gcbuffed = p.num_gcbuffed /\ m.cur_vt_vpn = p.cur_vt_vpn
    BY <1>4, <1>10, <1>19 DEF Wrote, rest, vt
  <2>3. SameFields(p, m, FlashField)
    <3>1. /\ m.GC_BLK = p.GC_BLK /\ m.cur_write_vpn = p.cur_write_vpn /\ m.write_start = p.write_start
          /\ m.free_list = p.free_list /\ m.victim_list = p.victim_list /\ m.cur_gc_vpn = p.cur_gc_vpn
      BY <1>19, <2>1
    <3> QED
      BY <2>2, <3>1 DEF SameFields, FlashField
  <2>4. Held(p, "data") \subseteq Held(m, "data")
    BY <1>19, <2>1, ListsAre DEF Held
  <2>5. \A k \in Block : k # tb => SameFields(p.block_list[k], m.block_list[k], {"vcount", "vbitmap", "spare"})
    BY <1>11 DEF Wrote, count, tb
  <2>6. SameFields(Programmed(p.block_list[tb], tp, buf), m.block_list[tb], {"vcount", "vbitmap", "spare"})
    BY <1>11, <1>22 DEF Wrote, count, buf, tb, tp
  <2>7. /\ b \in Bank /\ BankInv(p) /\ MapApart(mid) /\ BankFlash(b, p, mid)
        /\ tb \in Held(p, "data") \cup Held(p, "RW_log") /\ tp \in 0 .. LAST
        /\ PageIsFresh(b, p, mid, tb, tp) /\ BufferReady(buf, mid) /\ WrittenTo(buf, b, tb, tp, mid, map2)
    BY <1>10, <1>13, <1>17, <1>18, <1>20, <1>21
  <2> QED
    BY ONLY <2>3, <2>4, <2>5, <2>6, <2>7, ProgramFlash
<1>24. MapApart(map2)
  <2>1. \A l \in LPN : InBlock(mid[l], b, tb) => PageOf(mid[l].off) # tp
    BY <1>20 DEF PageIsFresh
  <2>2. /\ b \in Bank /\ MapApart(mid) /\ tb \in Block /\ tp \in 0 .. LAST /\ BufferReady(buf, mid)
        /\ WrittenTo(buf, b, tb, tp, mid, map2)
    BY <1>13, <1>17, <1>18, <1>21, <1>22
  <2> QED
    BY ONLY <2>1, <2>2, ProgrammedApart
<1>25. \A l \in F : \E k \in Held(c, "victim") : l \in Into(map, b, k)
  BY <1>4, <1>5, <1>7, <1>8, FrontIsHeld
<1>26. \A d \in Bank : d # b => SameMap(map, map2, d)
  <2> SUFFICES ASSUME NEW d \in Bank, d # b, NEW l \in LPN, InBank(map[l], d) \/ InBank(map2[l], d)
               PROVE  map2[l] = map[l]
    BY DEF SameMap
  <2>1. CASE l \in F
    <3>1. map[l].bank = b
      BY <1>25, <2>1 DEF Into, InBlock, InBank
    <3>2. PICK i \in 1 .. SuperPage : map2[l] = Flash(b, tb, OffsetOf(tp, i - 1))
      BY <2>1 DEF Collected, tb, tp
    <3>3. map2[l].bank = b
      BY <3>2 DEF Flash
    <3> QED
      BY <3>1, <3>3 DEF InBank
  <2>2. CASE l \notin F
    BY <2>2 DEF Collected
  <2> QED
    BY <2>1, <2>2
<1>27. Holes(m) = {}
  BY <1>10, <1>13 DEF Wrote, Holes, rest
<1>28. Cardinality(F) \in Nat /\ Cardinality(F) + Cardinality(Holes(c)) = SuperPage
  <2>1. Cardinality(F) \in Nat /\ Cardinality(F) + Cardinality(BlanksOf(buffer, SuperPage)) = SuperPage
    BY <1>14, <1>15, FrontCounted, FlashFacts
  <2>2. BlanksOf(buffer, SuperPage) = Holes(r)
    <3>1. \A i \in DOMAIN buffer : buffer[i] = RSP_INVALID_LPN => i \in 1 .. SuperPage
      <4> SUFFICES ASSUME NEW i \in DOMAIN buffer, buffer[i] = RSP_INVALID_LPN, ~(i \in 1 .. SuperPage)
                   PROVE  FALSE
        OBVIOUS
      <4>1. i > SuperPage
        <5> DEFINE L == Len(buffer)
        <5>1. SuperPage \in Nat /\ L \in Nat /\ DOMAIN buffer = 1 .. L
          BY <1>3, FlashFacts
        <5> HIDE DEF L
        <5> QED
          BY <5>1
      <4>2. buffer[i] \in LPN
        BY <1>4, <1>8, <4>1 DEF BufferLong, Into
      <4> QED
        BY <4>2, FlashFacts
    <3> QED
      BY <1>4, <1>34, <3>1 DEF BlanksOf, Holes
  <2> QED
    BY <1>5, <2>1, <2>2
<1>29. \A k \in Held(c, "victim") : k # blk => Into(map, b, k) \subseteq F
  <2>1. r.cur_vt_vpn.block = blk
    BY <1>4 DEF vt
  <2> QED
    BY <1>4, <1>5, <1>7, <1>8, <2>1, OlderInFront
<1>30. ASSUME NEW k \in Held(c, "victim")
       PROVE  m.block_list[k].vcount = c.block_list[k].vcount - Cardinality(F \cap Into(map, b, k))
  <2>1. k \in Block /\ k # tb
    <3>1. Held(c, "victim") \subseteq Block /\ \A h \in Held(c, "victim") : h \notin Held(c, "data")
      BY HeldBlocks, ListsAre DEF BankInv
    <3> QED
      BY <3>1 DEF Target, tb
  <2>2. m.block_list[k].vcount = PaidInfo(c, k, count).vcount
    BY <2>1 DEF Wrote, SameFields, count, tb
  <2>3. PaidInfo(c, k, count).vcount = c.block_list[k].vcount - Payment(c, k, count)
    BY <2>1, PaidInfoIs
  <2>4. Payment(c, k, count) = Payment(r, k, count)
    BY <1>6 DEF Payment
  <2>5. Payment(r, k, count) = Cardinality(F \cap Into(map, b, k))
    <3>1. /\ b \in Bank /\ BankInv(r) /\ MapApart(map) /\ BankFlash(b, r, map)
          /\ BufferLong(b, r, map) /\ F = GCFront(r) /\ k \in Held(r, "victim")
      BY <1>4, <1>5, <1>7, <1>8
    <3>2. Payment(r, k, Cardinality(F)) = Cardinality(F \cap Into(map, b, k))
      BY ONLY <3>1, VictimsPay
    <3> QED
      BY <3>2 DEF count
  <2> QED
    BY <2>2, <2>3, <2>4, <2>5
<1>31. m.cur_vt_vpn # VC_MAX
  BY <1>1, <1>2, RecordIsPlace DEF Wrote
<1> QED
  BY <1>23, <1>24, <1>25, <1>26, <1>27, <1>28, <1>29, <1>30, <1>31 DEF WriteDone

\* What write_gc_buffer does to the bank, after its target was chosen.
LEMMA WrittenBank ==
    ASSUME NEW n, NEW c, c = GCTarget(n), BankInv(c), c.cur_gc_vpn.block \in Block,
           NEW lpns, NEW buf, buf = PageBuffer(lpns), NEW count, count = Cardinality(Mapped(buf)),
           NEW w, w = write_gc_buffer(n, lpns)
    PROVE  /\ DOMAIN w = BankField
           /\ \A f \in BankField \ {"block_list"} : w[f] = c[f]
           /\ \A k \in Block : w.block_list[k] =
                    IF k = c.cur_gc_vpn.block
                    THEN Programmed(PaidInfo(c, k, count), c.cur_gc_vpn.page, buf)
                    ELSE PaidInfo(c, k, count)
<1> DEFINE paid == decrease_vcount_of_vt_block(c, count)
           tb == c.cur_gc_vpn.block
<1>1. w = [paid EXCEPT !.block_list[tb] = Programmed(@, c.cur_gc_vpn.page, buf)]
  BY DEF write_gc_buffer, PageBuffer
<1>2. ToSet(c.victim_list) = Held(c, "victim")
  BY ListsAre DEF Held
<1>3. /\ DOMAIN paid = BankField
      /\ \A f \in BankField \ {"block_list"} : paid[f] = c[f]
      /\ paid.block_list = [blk \in Block |-> IF blk \in ToSet(c.victim_list)
                                              THEN Paid(c.block_list[blk], Payment(c, blk, count))
                                              ELSE c.block_list[blk]]
  BY DEF decrease_vcount_of_vt_block, BankInv, BankShape, BankField
<1>4. DOMAIN paid.block_list = Block /\ \A k \in Block : paid.block_list[k] = PaidInfo(c, k, count)
  BY <1>2, <1>3 DEF PaidInfo
<1> HIDE DEF paid
<1>5. /\ DOMAIN w = BankField
      /\ \A f \in BankField \ {"block_list"} : w[f] = paid[f]
      /\ w.block_list = [paid.block_list EXCEPT ![tb] = Programmed(@, c.cur_gc_vpn.page, buf)]
  BY <1>1, <1>3 DEF BankField
<1>6. \A k \in Block : w.block_list[k] = IF k = tb THEN Programmed(paid.block_list[tb], c.cur_gc_vpn.page, buf)
                                         ELSE paid.block_list[k]
  BY <1>4, <1>5
<1> QED
  BY <1>3, <1>4, <1>5, <1>6

\* The front of the buffer as a sequence of its own.
LEMMA FrontSeq ==
    ASSUME NEW q \in Seq(Home), Len(q) >= SuperPage, NEW lpns, lpns = SubSeq(q, 1, SuperPage)
    PROVE  PageBuffer(lpns) = PageBuffer(q)
<1>1. SuperPage \in Nat /\ Position = 0 .. SuperPage - 1 /\ Len(q) \in Nat
  BY FlashFacts, LenProperties DEF Position
<1>2. \A i \in 1 .. SuperPage : i \in 1 .. Len(q)
  BY <1>1
<1>3. \A i \in 1 .. SuperPage : q[i] \in Home
  BY <1>2, ElementOfSeq
<1>4. \A i \in 1 .. (SuperPage - 1 + 1) : lpns[i] = q[1 + i - 1]
  BY <1>1, <1>3, SubSeqProperties
<1>5. \A p \in Position : lpns[p + 1] = q[p + 1]
  <2> SUFFICES ASSUME NEW p \in Position
               PROVE  lpns[p + 1] = q[p + 1]
    OBVIOUS
  <2>1. p + 1 \in 1 .. (SuperPage - 1 + 1) /\ 1 + (p + 1) - 1 = p + 1
    BY <1>1
  <2>2. lpns[p + 1] = q[1 + (p + 1) - 1]
    BY <1>4, <2>1
  <2> QED
    BY <2>1, <2>2
<1> QED
  BY <1>5 DEF PageBuffer

\* What the victims have left after a write.
LEMMA ReserveAfterWrite ==
    ASSUME NEW b \in Bank, NEW n, BankInv(n), NEW map, MapApart(map), BankFlash(b, n, map),
           ReserveIsBack(n), n.cur_vt_vpn # VC_MAX,
           NEW c, c.victim_list = n.victim_list, Holes(c) = Holes(n),
           \A k \in Held(n, "victim") : c.block_list[k].vcount = n.block_list[k].vcount,
           NeedsBlock(n) => c.cur_gc_vpn.page = 0,
           ~NeedsBlock(n) => c.cur_gc_vpn.page = n.cur_gc_vpn.page + 1 /\ c.GC_BLK = n.GC_BLK,
           c.cur_gc_vpn # VC_MAX,
           NEW F, Cardinality(F) \in Nat, Cardinality(F) + Cardinality(Holes(c)) = SuperPage,
           \A k \in Held(n, "victim") : k # n.cur_vt_vpn.block => Into(map, b, k) \subseteq F,
           \A l \in F : \E k \in Held(n, "victim") : l \in Into(map, b, k),
           NEW m, m.victim_list = n.victim_list, m.GC_BLK = c.GC_BLK, m.cur_gc_vpn = c.cur_gc_vpn,
           Holes(m) = {}, m.cur_vt_vpn # VC_MAX, m.cur_vt_vpn.block = n.cur_vt_vpn.block,
           \A k \in Held(n, "victim") :
                m.block_list[k].vcount = c.block_list[k].vcount - Cardinality(F \cap Into(map, b, k))
    PROVE  ReserveIsBack(m)
<1> DEFINE oldest == n.victim_list[1]
           cur == n.cur_vt_vpn.block
           v == n.block_list[oldest].vcount
           I == Into(map, b, oldest)
           page == n.cur_gc_vpn.page
           h == Cardinality(Holes(n))
           x == Cardinality(F)
           u == m.block_list[oldest].vcount
<1>1. n.victim_list # <<>> /\ cur = n.victim_list[Len(n.victim_list)]
  BY DEF BankFlash, Collecting, CurrentIsLast
<1>2. /\ Len(n.victim_list) \in Nat \ {0} /\ DOMAIN n.victim_list = 1 .. Len(n.victim_list)
      /\ oldest \in Block /\ oldest \in Held(n, "victim")
      /\ \A i, j \in 1 .. Len(n.victim_list) : n.victim_list[i] = n.victim_list[j] => i = j
  BY <1>1, OldestIsBlock
<1>3. v = Cardinality(I) /\ v \in Nat /\ v <= MaxVcount
  <2>1. oldest \notin Held(n, "free") /\ oldest \notin Held(n, "GC")
    BY <1>2, HeldBlocks, ListsAre DEF BankInv
  <2>2. v <= MaxVcount
    BY <1>2 DEF BankFlash, Collecting
  <2> QED
    BY <1>2, <2>1, <2>2 DEF BankFlash, VcountsRight
<1>4. u = v - Cardinality(F \cap I)
  BY <1>2
<1>5. IsFiniteSet(I)
  BY <1>2, IntoFinite
<1>6. m.cur_gc_vpn # VC_MAX /\ m.victim_list # <<>> /\ m.victim_list[1] = oldest
  BY <1>1
<1>7. h \in Nat /\ x \in Nat /\ x + h = SuperPage
  BY HolesFinite
<1>8. CASE oldest # cur
  <2>1. I \subseteq F
    BY <1>2, <1>8
  <2>2. F \cap I = I
    BY <2>1
  <2>3. Cardinality(F \cap I) = v
    BY <1>3, <2>2
  <2>4. u = 0
    <3> HIDE DEF u, v
    <3> QED
      BY <1>3, <1>4, <2>3
  <2> QED
    BY <1>6, <2>4 DEF ReserveIsBack
<1>9. CASE oldest = cur
  <2>1. Len(n.victim_list) = 1
    <3>1. 1 \in 1 .. Len(n.victim_list) /\ Len(n.victim_list) \in 1 .. Len(n.victim_list)
      BY <1>2
    <3> QED
      BY <1>1, <1>2, <1>9, <3>1
  <2>2. Held(n, "victim") = {oldest}
    <3>1. Held(n, "victim") = {n.victim_list[i] : i \in DOMAIN n.victim_list}
      BY ListsAre DEF Held, ToSet
    <3>2. DOMAIN n.victim_list = 1 .. 1
      BY <1>2, <2>1
    <3>3. DOMAIN n.victim_list = {1}
      BY <3>2
    <3> QED
      BY <3>1, <3>3
  <2>3. F \subseteq I
    BY <2>2
  <2>4. F \cap I = F
    BY <2>3
  <2>5. u = v - x
    BY <1>4, <2>4
  <2>6. Reading(m, oldest) /\ Reading(n, oldest)
    BY <1>9 DEF Reading
  <2>7. Cardinality(Holes(m)) = 0
    BY FS_EmptySet
  <2>8. ASSUME m.GC_BLK = VC_MAX, u # 0
        PROVE  u + 0 + c.cur_gc_vpn.page * SuperPage <= MaxVcount
    <3>1. CASE NeedsBlock(n)
      <4>1. c.cur_gc_vpn.page = 0
        BY <3>1
      <4>2. SuperPage \in Nat /\ 0 * SuperPage = 0 /\ MaxVcount \in Nat
        BY FlashFacts, MaxVcountIs
      <4>3. u <= MaxVcount /\ u \in Int
        <5> HIDE DEF u, v, x
        <5> QED
          BY <1>3, <1>7, <2>5, <4>2
      <4>4. c.cur_gc_vpn.page * SuperPage = 0
        BY <4>1, <4>2
      <4> HIDE DEF u
      <4> QED
        BY <4>3, <4>4
    <3>2. CASE ~NeedsBlock(n)
      <4>1. n.GC_BLK = VC_MAX
        BY <2>8, <3>2
      <4>2. v # 0
        <5>1. v = 0 => Cardinality(F) = 0 /\ u = 0
          <6>1. ASSUME v = 0 PROVE u = 0
            <7>1. I = {}
              BY <1>3, <1>5, <6>1, FS_EmptySet
            <7>2. F \cap I = {}
              BY <7>1
            <7>3. Cardinality(F \cap I) = 0
              BY <7>2, FS_EmptySet
            <7> HIDE DEF u, v
            <7> QED
              BY <1>4, <6>1, <7>3
          <6>2. ASSUME v = 0 PROVE Cardinality(F) = 0
            <7>1. I = {}
              BY <1>3, <1>5, <6>2, FS_EmptySet
            <7>2. F = {}
              BY <2>3, <7>1
            <7> QED
              BY <7>2, FS_EmptySet
          <6> QED
            BY <6>1, <6>2
        <5> QED
          BY <2>8, <5>1
      <4>3. v + h + page * SuperPage <= MaxVcount
        BY <2>6, <4>1, <4>2 DEF ReserveIsBack
      <4>4. page \in Nat
        BY <3>2, FlashFacts DEF NeedsBlock, BankFlash, CollectorFresh
      <4>5. page * SuperPage \in Nat /\ (page + 1) * SuperPage = page * SuperPage + SuperPage /\ MaxVcount \in Nat
        BY <4>4, MaxVcountIs
      <4>6. c.cur_gc_vpn.page * SuperPage = page * SuperPage + SuperPage
        BY <3>2, <4>5
      <4> DEFINE y == page * SuperPage
                 z == c.cur_gc_vpn.page * SuperPage
      <4>7. /\ y \in Nat /\ z = y + SuperPage /\ SuperPage \in Nat /\ v + h + y <= MaxVcount /\ MaxVcount \in Nat
            /\ x + h = SuperPage /\ u = v - x /\ v \in Nat /\ x \in Nat /\ h \in Nat
        BY <1>3, <1>7, <2>5, <4>3, <4>5, <4>6, FlashFacts
      <4> HIDE DEF y, z, u, v, x, h
      <4>8. u + 0 + z <= MaxVcount
        BY <4>7
      <4> QED
        BY <4>8 DEF z
    <3> QED
      BY <3>1, <3>2
  <2> QED
    BY <1>6, <2>6, <2>7, <2>8 DEF ReserveIsBack
<1> QED
  BY <1>8, <1>9

\* What stays of the victim to be read.
LEMMA EndReadIs ==
    ASSUME NEW a, DOMAIN a = BankField, NEW blk, NEW page, NEW e, e = EndRead(a, blk, page)
    PROVE  /\ DOMAIN e = BankField
           /\ \A f \in BankField \ {"cur_vt_vpn"} : e[f] = a[f]
           /\ e.cur_vt_vpn = IF a.num_gcbuffed # a.block_list[blk].vcount /\ page # PhysPages
                             THEN [block |-> blk, page |-> page] ELSE VC_MAX
BY DEF EndRead, BankField

\* A bank is one whatever its current victim is.
AtVictim(e, vt) == [e EXCEPT !.cur_vt_vpn = vt]
LEMMA AtVictimIs ==
    ASSUME NEW e, BankInv(e), NEW vt \in [block : Block, page : Nat], NEW g, g = AtVictim(e, vt)
    PROVE  /\ BankInv(g) /\ DOMAIN g = BankField
           /\ \A f \in BankField \ {"cur_vt_vpn"} : g[f] = e[f]
           /\ g.cur_vt_vpn = vt
<1>1. /\ DOMAIN g = BankField
      /\ \A f \in BankField \ {"cur_vt_vpn"} : g[f] = e[f]
      /\ g.cur_vt_vpn = vt
  BY DEF BankInv, BankShape, BankField, AtVictim
<1>2. g.block_list = e.block_list /\ g.GCbuf_lpn = e.GCbuf_lpn
  BY <1>1 DEF BankField
<1>3. DOMAIN g.block_list = Block /\ \A k \in Block : DOMAIN g.block_list[k] = InfoField
  BY <1>2 DEF BankInv, BankShape
<1>4. \A k \in Block : SameFields(e.block_list[k], g.block_list[k], {"spare", "remained_remap_cnt"})
  BY <1>2 DEF SameFields
<1>5. g.GCbuf_lpn \in Seq(Home)
  BY <1>2 DEF BankInv, HomeOnly
<1>6. BankInv(g)
  BY <1>1, <1>2, <1>3, <1>4, <1>5, CollectorStep
<1> QED
  BY <1>1, <1>6

\* The victim's pages are all in the buffer when it is left behind, and the end of a
\* round changes nothing else.
RoundEnds(a, blk, page, m) ==
    /\ \A f \in BankField \ {"cur_vt_vpn"} : m[f] = a[f]
    /\ m.cur_vt_vpn = IF a.num_gcbuffed # a.block_list[blk].vcount /\ page # PhysPages
                      THEN [block |-> blk, page |-> page] ELSE VC_MAX

LEMMA EndRound ==
    ASSUME NEW b \in Bank, NEW e, BankInv(e), NEW a, NEW blk \in Block, NEW page \in 0 .. PhysPages,
           RoundEnds(a, blk, page, e),
           NEW g, g = AtVictim(e, [block |-> blk, page |-> page]),
           NEW map, MapApart(map), BankFlash(b, g, map), ReserveIsBack(g)
    PROVE  /\ BankFlash(b, e, map) /\ ReserveIsBack(e)
           /\ e.cur_vt_vpn # VC_MAX => e.cur_vt_vpn.page < PhysPages
           /\ page = PhysPages => a.num_gcbuffed = a.block_list[blk].vcount
<1> DEFINE vt == [block |-> blk, page |-> page]
<1>1. vt \in [block : Block, page : Nat] /\ vt # VC_MAX /\ vt.block = blk /\ vt.page = page
  <2>1. page \in Nat
    BY FlashFacts
  <2> QED
    BY <2>1, RecordIsPlace
<1> HIDE DEF vt
<1>2. g = AtVictim(e, vt)
  BY DEF vt
<1>3. /\ BankInv(g)
      /\ \A f \in BankField \ {"cur_vt_vpn"} : g[f] = e[f]
      /\ g.cur_vt_vpn = vt
  BY <1>1, <1>2, AtVictimIs
<1>4. \A f \in BankField \ {"cur_vt_vpn"} : e[f] = a[f]
  BY DEF RoundEnds
<1>5. e.num_gcbuffed = a.num_gcbuffed /\ e.block_list = a.block_list
      /\ g.num_gcbuffed = a.num_gcbuffed /\ g.block_list = a.block_list
  BY <1>3, <1>4 DEF BankField
<1>6. e.cur_vt_vpn = IF g.num_gcbuffed # g.block_list[g.cur_vt_vpn.block].vcount /\ g.cur_vt_vpn.page # PhysPages
                     THEN g.cur_vt_vpn ELSE VC_MAX
  <2>1. e.cur_vt_vpn = IF a.num_gcbuffed # a.block_list[blk].vcount /\ page # PhysPages THEN vt ELSE VC_MAX
    BY DEF RoundEnds, vt
  <2> QED
    BY <1>1, <1>3, <1>5, <2>1
<1>7. SameFields(g, e, EndField)
  BY <1>3 DEF SameFields, EndField, BankField
<1> DEFINE vcount == g.block_list[g.cur_vt_vpn.block].vcount
<1> HIDE DEF vcount
<1>8. /\ b \in Bank /\ BankInv(g) /\ MapApart(map) /\ BankFlash(b, g, map) /\ g.cur_vt_vpn # VC_MAX
      /\ vcount = g.block_list[g.cur_vt_vpn.block].vcount /\ SameFields(g, e, EndField)
      /\ e.cur_vt_vpn = IF g.num_gcbuffed # vcount /\ g.cur_vt_vpn.page # PhysPages THEN g.cur_vt_vpn ELSE VC_MAX
  BY <1>1, <1>3, <1>6, <1>7 DEF vcount
<1>9. /\ BankFlash(b, e, map)
      /\ ReserveIsBack(g) => ReserveIsBack(e)
      /\ e.cur_vt_vpn # VC_MAX => e.cur_vt_vpn.page < PhysPages
      /\ g.cur_vt_vpn.page = PhysPages => g.num_gcbuffed = vcount
  BY ONLY <1>8, EndFlash
<1> QED
  BY <1>1, <1>3, <1>5, <1>9 DEF vcount

\* The bank after a round that only reads.
AfterRead(n, q, count) == [n EXCEPT !.GCbuf_lpn = q, !.num_gcbuffed = @ + count]

LEMMA ReadRound ==
    ASSUME NEW b \in Bank, NEW n, BankInv(n), NEW map, MapApart(map), BankFlash(b, n, map), ReserveIsBack(n),
           NEW blk, NEW page, NEW offs, ReadAt(b, n, map, blk, page, offs),
           NEW q, q = BufferedRead(n.GCbuf_lpn, n.block_list[blk].spare, offs),
           NEW a, a = AfterRead(n, q, Len(offs)), NEW e, BankInv(e), RoundEnds(a, blk, page, e)
    PROVE  /\ BankFlash(b, e, map) /\ ReserveIsBack(e)
           /\ e.cur_vt_vpn # VC_MAX => e.cur_vt_vpn.page < PhysPages
           /\ page = PhysPages => a.num_gcbuffed = a.block_list[blk].vcount
<1> DEFINE vt == [block |-> blk, page |-> page]
           g == AtVictim(e, vt)
<1>1. blk \in Block /\ blk \in Held(n, "victim") /\ page \in 0 .. PhysPages /\ page \in Nat
  BY ReadRange
<1>2. vt \in [block : Block, page : Nat] /\ vt.block = blk
  BY <1>1
<1> HIDE DEF vt, g
<1>3. /\ BankInv(g)
      /\ \A f \in BankField \ {"cur_vt_vpn"} : g[f] = e[f]
      /\ g.cur_vt_vpn = vt
  BY <1>2, AtVictimIs DEF g
<1>4. /\ \A f \in BankField \ {"GCbuf_lpn", "num_gcbuffed"} : a[f] = n[f]
      /\ a.GCbuf_lpn = q /\ a.num_gcbuffed = n.num_gcbuffed + Len(offs)
  BY DEF AfterRead, BankInv, BankShape, BankField
<1>5. \A f \in BankField \ {"cur_vt_vpn"} : g[f] = a[f]
  BY <1>3 DEF RoundEnds
<1>6. SameFields(n, g, ReadField)
  BY <1>4, <1>5 DEF SameFields, ReadField, BankField
<1>7. g.GCbuf_lpn = q /\ g.num_gcbuffed = n.num_gcbuffed + Len(offs)
  BY <1>4, <1>5 DEF BankField
<1>8. /\ b \in Bank /\ BankInv(n) /\ MapApart(map) /\ BankFlash(b, n, map)
      /\ \A s \in SlotLPN : InBank(map[s], b) => map[s].block \notin Held(n, "victim")
      /\ n.cur_vt_vpn # VC_MAX /\ blk = n.cur_vt_vpn.block
      /\ IsRead(b, n.block_list[blk], blk, map, n.cur_vt_vpn.page, page, offs)
      /\ SameFields(n, g, ReadField)
      /\ g.GCbuf_lpn = BufferedRead(n.GCbuf_lpn, n.block_list[blk].spare, offs)
      /\ g.num_gcbuffed = n.num_gcbuffed + Len(offs)
      /\ g.cur_vt_vpn = [block |-> blk, page |-> page]
  BY <1>3, <1>6, <1>7 DEF ReadAt, vt
<1>9. BankFlash(b, g, map) /\ Holes(g) = Holes(n) /\ g.cur_vt_vpn # VC_MAX
  BY ONLY <1>8, ReadFlash
<1>10. ReserveIsBack(g)
  <2>1. /\ g.GC_BLK = n.GC_BLK /\ g.victim_list = n.victim_list /\ g.cur_gc_vpn = n.cur_gc_vpn
        /\ g.block_list = n.block_list
    BY <1>6 DEF SameFields, ReadField
  <2>2. \A k : Reading(g, k) <=> Reading(n, k)
    BY <1>2, <1>3, <1>8, <1>9 DEF Reading
  <2> QED
    BY <1>9, <2>1, <2>2 DEF ReserveIsBack
<1>11. /\ b \in Bank /\ BankInv(e) /\ blk \in Block /\ page \in 0 .. PhysPages /\ RoundEnds(a, blk, page, e)
       /\ g = AtVictim(e, [block |-> blk, page |-> page]) /\ MapApart(map) /\ BankFlash(b, g, map) /\ ReserveIsBack(g)
  BY <1>1, <1>9, <1>10 DEF g, vt
<1> QED
  BY ONLY <1>11, EndRound

\* The collector's next page, whichever it is.
LEMMA TargetIs ==
    ASSUME NEW b \in Bank, NEW n, BankInv(n), NEW map, MapApart(map), BankFlash(b, n, map),
           NeedsBlock(n) => n.GC_BLK # VC_MAX, NEW c, c = GCTarget(n)
    PROVE  /\ BankInv(c) /\ BankFlash(b, c, map) /\ Target(b, c, map)
           /\ \A f \in BankField \ {"cur_gc_vpn", "GC_BLK", "data_list", "block_list"} : c[f] = n[f]
           /\ \A k \in Held(n, "victim") : c.block_list[k] = n.block_list[k]
           /\ NeedsBlock(n) => c.cur_gc_vpn.page = 0
           /\ ~NeedsBlock(n) => c.cur_gc_vpn.page = n.cur_gc_vpn.page + 1 /\ c.GC_BLK = n.GC_BLK
<1>1. BankInv(c)
  BY GCTargetIsQuiet DEF Quiet
<1>2. CASE NeedsBlock(n)
  <2>1. /\ b \in Bank /\ BankInv(n) /\ MapApart(map) /\ BankFlash(b, n, map)
        /\ NeedsBlock(n) /\ n.GC_BLK # VC_MAX /\ c = GCTarget(n)
    BY <1>2
  <2>2. /\ BankFlash(b, c, map)
        /\ c.cur_gc_vpn.block \in Held(c, "data")
        /\ c.cur_gc_vpn.page = 0 /\ c.cur_gc_vpn.page \in 0 .. LAST
        /\ PageIsFresh(b, c, map, c.cur_gc_vpn.block, c.cur_gc_vpn.page)
        /\ c.cur_gc_vpn # VC_MAX
        /\ \A f \in BankField \ {"cur_gc_vpn", "GC_BLK", "data_list", "block_list"} : c[f] = n[f]
        /\ \A k \in Held(n, "victim") : c.block_list[k] = n.block_list[k]
    BY ONLY <2>1, TargetFirst
  <2> QED
    BY <1>1, <1>2, <2>2 DEF Target
<1>3. CASE ~NeedsBlock(n)
  <2>1. /\ b \in Bank /\ BankInv(n) /\ MapApart(map) /\ BankFlash(b, n, map) /\ ~NeedsBlock(n) /\ c = GCTarget(n)
    BY <1>3
  <2>2. /\ BankFlash(b, c, map)
        /\ c.cur_gc_vpn.block \in Held(c, "data")
        /\ c.cur_gc_vpn.page = n.cur_gc_vpn.page + 1 /\ c.cur_gc_vpn.page \in 0 .. LAST
        /\ PageIsFresh(b, c, map, c.cur_gc_vpn.block, c.cur_gc_vpn.page)
        /\ c.cur_gc_vpn # VC_MAX
        /\ \A f \in BankField \ {"cur_gc_vpn"} : c[f] = n[f]
    BY ONLY <2>1, TargetNext
  <2>3. c.block_list = n.block_list /\ c.GC_BLK = n.GC_BLK
    BY <2>2 DEF BankField
  <2> QED
    BY <1>1, <1>3, <2>2, <2>3 DEF Target
<1> QED
  BY <1>2, <1>3

\* The bank after the write, before the end of the round.
AfterWrite(n, q) ==
    [write_gc_buffer(n, SubSeq(q, 1, SuperPage)) EXCEPT
        !.GCbuf_lpn = Behind(q), !.num_gcbuffed = Len(Behind(q))]

\* A page is buffered once when it is buffered: the read pages were not held before.
LEMMA FrontOnce ==
    ASSUME NEW b \in Bank, NEW n, BankInv(n), NEW map, MapApart(map), BankFlash(b, n, map),
           NEW blk, NEW page, NEW offs, ReadAt(b, n, map, blk, page, offs),
           NEW q, q = BufferedRead(n.GCbuf_lpn, n.block_list[blk].spare, offs), Len(q) >= SuperPage
    PROVE  /\ q \in Seq(Home)
           /\ \A i \in 1 .. SuperPage : q[i] \in Home
           /\ \A i, j \in 1 .. SuperPage : q[i] = q[j] => i = j \/ q[i] = RSP_INVALID_LPN
<1> DEFINE vt == [block |-> blk, page |-> page]
           num == n.num_gcbuffed + Len(offs)
           r == ReadBank(n, q, num, vt)
<1> HIDE DEF vt, num, r
<1>1. blk \in Block /\ page \in Nat
  BY ReadRange
<1>2. q \in Seq(Home)
  <2> DEFINE spare == n.block_list[blk].spare
             held == n.GCbuf_lpn
  <2>1. /\ held \in Seq(Home) /\ \A off \in Offset : spare[off] \in Home
        /\ q = BufferedRead(held, spare, offs) /\ offs \in Seq(Offset)
    BY <1>1 DEF BankInv, HomeOnly, ReadAt, IsRead
  <2> HIDE DEF spare, held
  <2> QED
    BY <2>1, BufferRead
<1>3. /\ \A f \in BankField \ {"GCbuf_lpn", "num_gcbuffed", "cur_vt_vpn"} : r[f] = n[f]
      /\ r.GCbuf_lpn = q /\ r.num_gcbuffed = num /\ r.cur_vt_vpn = vt
  <2>1. BankInv(n) /\ q \in Seq(Home) /\ vt \in [block : Block, page : Nat] /\ r = ReadBank(n, q, num, vt)
    BY <1>1, <1>2 DEF r, vt
  <2> QED
    BY ONLY <2>1, ReadBankIs
<1>4. BankFlash(b, r, map)
  <2>1. SameFields(n, r, ReadField)
    BY <1>3 DEF SameFields, ReadField, BankField
  <2>2. /\ r.GCbuf_lpn = BufferedRead(n.GCbuf_lpn, n.block_list[blk].spare, offs)
        /\ r.num_gcbuffed = n.num_gcbuffed + Len(offs)
        /\ r.cur_vt_vpn = [block |-> blk, page |-> page]
    BY <1>3 DEF num, vt
  <2>3. /\ b \in Bank /\ BankInv(n) /\ MapApart(map) /\ BankFlash(b, n, map)
        /\ \A s \in SlotLPN : InBank(map[s], b) => map[s].block \notin Held(n, "victim")
        /\ n.cur_vt_vpn # VC_MAX /\ blk = n.cur_vt_vpn.block
        /\ IsRead(b, n.block_list[blk], blk, map, n.cur_vt_vpn.page, page, offs)
    BY DEF ReadAt
  <2> QED
    BY ONLY <2>1, <2>2, <2>3, ReadFlash
<1>5. \A i, j \in DOMAIN q : q[i] = q[j] => i = j \/ q[i] = RSP_INVALID_LPN
  BY <1>3, <1>4 DEF BankFlash, Collecting, HeldOnce
<1>6. SuperPage \in Nat /\ Len(q) \in Nat /\ DOMAIN q = 1 .. Len(q)
  BY <1>2, LenProperties, FlashFacts
<1>7. \A i \in 1 .. SuperPage : i \in DOMAIN q
  BY <1>6
<1> QED
  BY <1>2, <1>5, <1>6, <1>7, ElementOfSeq

LEMMA WriteRound ==
    ASSUME NEW b \in Bank, NEW n, BankInv(n), NEW map, MapApart(map), BankFlash(b, n, map), ReserveIsBack(n),
           NEW blk, NEW page, NEW offs, ReadAt(b, n, map, blk, page, offs), Len(n.GCbuf_lpn) < SuperPage,
           NeedsBlock(n) => n.GC_BLK # VC_MAX,
           NEW q, q = BufferedRead(n.GCbuf_lpn, n.block_list[blk].spare, offs), Len(q) >= SuperPage,
           NEW c, c = GCTarget(n),
           NEW a, a = AfterWrite(n, q), NEW e, BankInv(e), RoundEnds(a, blk, page, e),
           NEW map2, Collected(map, map2, b, c.cur_gc_vpn, q)
    PROVE  /\ MapApart(map2) /\ \A d \in Bank : d # b => SameMap(map, map2, d)
           /\ BankFlash(b, e, map2) /\ ReserveIsBack(e)
           /\ e.cur_vt_vpn # VC_MAX => e.cur_vt_vpn.page < PhysPages
           /\ page = PhysPages => a.num_gcbuffed = a.block_list[blk].vcount
<1> DEFINE vt == [block |-> blk, page |-> page]
           g == AtVictim(e, vt)
           F == FrontOf(q, SuperPage)
           lpns == SubSeq(q, 1, SuperPage)
           buf == PageBuffer(q)
           count == Cardinality(F)
           w == write_gc_buffer(n, lpns)
<1> HIDE DEF vt, g, F, lpns, buf, count, w
<1>1. blk \in Block /\ blk \in Held(n, "victim") /\ page \in 0 .. PhysPages /\ page \in Nat
  BY ReadRange
<1>2. vt \in [block : Block, page : Nat] /\ vt.block = blk
  BY <1>1 DEF vt
<1>3. /\ BankInv(g)
      /\ \A f \in BankField \ {"cur_vt_vpn"} : g[f] = e[f]
      /\ g.cur_vt_vpn = vt
  BY <1>2, AtVictimIs DEF g
<1>4. /\ BankInv(c) /\ BankFlash(b, c, map) /\ Target(b, c, map)
      /\ \A f \in BankField \ {"cur_gc_vpn", "GC_BLK", "data_list", "block_list"} : c[f] = n[f]
      /\ \A k \in Held(n, "victim") : c.block_list[k] = n.block_list[k]
      /\ NeedsBlock(n) => c.cur_gc_vpn.page = 0
      /\ ~NeedsBlock(n) => c.cur_gc_vpn.page = n.cur_gc_vpn.page + 1 /\ c.GC_BLK = n.GC_BLK
  <2>1. /\ b \in Bank /\ BankInv(n) /\ MapApart(map) /\ BankFlash(b, n, map)
        /\ NeedsBlock(n) => n.GC_BLK # VC_MAX
        /\ c = GCTarget(n)
    OBVIOUS
  <2> QED
    BY ONLY <2>1, TargetIs
<1>5. /\ q \in Seq(Home)
      /\ \A i \in 1 .. SuperPage : q[i] \in Home
      /\ \A i, j \in 1 .. SuperPage : q[i] = q[j] => i = j \/ q[i] = RSP_INVALID_LPN
  BY FrontOnce
<1>6. Cardinality(Mapped(buf)) = count
  <2>1. buf = PageBuffer(q)
    BY DEF buf
  <2> QED
    BY <1>5, <2>1, PageBufferIs DEF count, F
<1>7. buf = PageBuffer(lpns)
  BY <1>5, FrontSeq DEF buf, lpns
<1>8. c.cur_gc_vpn.block \in Block /\ c.cur_gc_vpn # VC_MAX
  <2>1. Held(c, "data") \subseteq Block
    <3>1. BankInv(c)
      BY <1>4
    <3> QED
      BY ONLY <3>1, HeldBlocks, ListsAre DEF BankInv
  <2> QED
    BY <1>4, <2>1 DEF Target
<1>9. /\ DOMAIN w = BankField
      /\ \A f \in BankField \ {"block_list"} : w[f] = c[f]
      /\ \A k \in Block : w.block_list[k] =
                    IF k = c.cur_gc_vpn.block
                    THEN Programmed(PaidInfo(c, k, count), c.cur_gc_vpn.page, buf)
                    ELSE PaidInfo(c, k, count)
  <2>1. /\ c = GCTarget(n) /\ BankInv(c) /\ c.cur_gc_vpn.block \in Block
        /\ buf = PageBuffer(lpns) /\ count = Cardinality(Mapped(buf)) /\ w = write_gc_buffer(n, lpns)
    BY <1>4, <1>6, <1>7, <1>8 DEF w
  <2> QED
    BY ONLY <2>1, WrittenBank
<1>10. /\ \A f \in BankField \ {"GCbuf_lpn", "num_gcbuffed"} : a[f] = w[f]
       /\ a.GCbuf_lpn = Behind(q) /\ a.num_gcbuffed = Len(Behind(q))
  <2>1. a = [w EXCEPT !.GCbuf_lpn = Behind(q), !.num_gcbuffed = Len(Behind(q))]
    BY DEF AfterWrite, w, lpns
  <2> QED
    BY <1>9, <2>1 DEF BankField
<1>11. \A f \in BankField \ {"cur_vt_vpn"} : g[f] = a[f]
  BY <1>3 DEF RoundEnds
<1>12. /\ \A f \in BankField \ {"cur_vt_vpn", "GCbuf_lpn", "num_gcbuffed", "block_list"} : g[f] = c[f]
       /\ g.block_list = w.block_list
       /\ g.GCbuf_lpn = Behind(q) /\ g.num_gcbuffed = Len(Behind(q))
  BY <1>9, <1>10, <1>11 DEF BankField
<1>13. Wrote(c, g, blk, page, q, count)
  <2>1. SameFields(c, g, ReadField \ {"block_list"})
    BY <1>12 DEF SameFields, ReadField, BankField
  <2>2. \A k \in Block : g.block_list[k] = IF k = c.cur_gc_vpn.block
                    THEN Programmed(PaidInfo(c, k, count), c.cur_gc_vpn.page, PageBuffer(q))
                    ELSE PaidInfo(c, k, count)
    BY <1>9, <1>12 DEF buf
  <2>3. g.GCbuf_lpn = Behind(q) /\ g.num_gcbuffed = Len(g.GCbuf_lpn)
        /\ g.cur_vt_vpn = [block |-> blk, page |-> page]
    BY <1>3, <1>12 DEF vt
  <2>4. \A k \in Block : SameFields(IF k = c.cur_gc_vpn.block
                    THEN Programmed(PaidInfo(c, k, count), c.cur_gc_vpn.page, PageBuffer(q))
                    ELSE PaidInfo(c, k, count), g.block_list[k], {"vcount", "vbitmap", "spare"})
    BY <2>2 DEF SameFields
  <2> QED
    BY <2>1, <2>3, <2>4 DEF Wrote
<1>14. c.cur_vt_vpn = n.cur_vt_vpn /\ c.GCbuf_lpn = n.GCbuf_lpn /\ c.victim_list = n.victim_list
  BY <1>4 DEF BankField
<1>15. Held(c, "victim") = Held(n, "victim")
  BY <1>14, ListsAre DEF Held
<1>16. c.block_list[blk] = n.block_list[blk]
  BY <1>1, <1>4
<1>30. WriteDone(b, c, g, map, map2, blk, F)
  <2>1. /\ b \in Bank /\ BankInv(c) /\ MapApart(map) /\ BankFlash(b, c, map)
        /\ Target(b, c, map) /\ Len(c.GCbuf_lpn) < SuperPage
        /\ ReadAt(b, c, map, blk, page, offs)
        /\ q = BufferedRead(c.GCbuf_lpn, c.block_list[blk].spare, offs)
        /\ Len(q) >= SuperPage
        /\ F = FrontOf(q, SuperPage)
        /\ Wrote(c, g, blk, page, q, Cardinality(F))
        /\ Collected(map, map2, b, c.cur_gc_vpn, q)
    BY <1>4, <1>13, <1>14, <1>15, <1>16 DEF ReadAt, F, count
  <2> QED
    BY ONLY <2>1, WriteFlash
<1>17. /\ MapApart(map2) /\ BankFlash(b, g, map2) /\ g.cur_vt_vpn # VC_MAX
       /\ \A d \in Bank : d # b => SameMap(map, map2, d)
       /\ Holes(g) = {}
       /\ Cardinality(F) \in Nat /\ Cardinality(F) + Cardinality(Holes(c)) = SuperPage
       /\ \A k \in Held(c, "victim") : g.block_list[k].vcount = c.block_list[k].vcount - Cardinality(F \cap Into(map, b, k))
       /\ \A k \in Held(c, "victim") : k # blk => Into(map, b, k) \subseteq F
       /\ \A l \in F : \E k \in Held(c, "victim") : l \in Into(map, b, k)
  BY <1>30 DEF WriteDone
<1>18. ReserveIsBack(g)
  <2>1. /\ g.victim_list = n.victim_list /\ g.GC_BLK = c.GC_BLK /\ g.cur_gc_vpn = c.cur_gc_vpn
    BY <1>12, <1>14 DEF BankField
  <2>2. Holes(c) = Holes(n)
    BY <1>14 DEF Holes
  <2>3. g.cur_vt_vpn.block = n.cur_vt_vpn.block /\ n.cur_vt_vpn # VC_MAX /\ blk = n.cur_vt_vpn.block
    BY <1>2, <1>3 DEF ReadAt
  <2>4. /\ b \in Bank /\ BankInv(n) /\ MapApart(map) /\ BankFlash(b, n, map)
        /\ ReserveIsBack(n) /\ n.cur_vt_vpn # VC_MAX
        /\ c.victim_list = n.victim_list /\ Holes(c) = Holes(n)
        /\ \A k \in Held(n, "victim") : c.block_list[k].vcount = n.block_list[k].vcount
        /\ NeedsBlock(n) => c.cur_gc_vpn.page = 0
        /\ ~NeedsBlock(n) => c.cur_gc_vpn.page = n.cur_gc_vpn.page + 1 /\ c.GC_BLK = n.GC_BLK
        /\ c.cur_gc_vpn # VC_MAX
        /\ Cardinality(F) \in Nat /\ Cardinality(F) + Cardinality(Holes(c)) = SuperPage
        /\ \A k \in Held(n, "victim") : k # n.cur_vt_vpn.block => Into(map, b, k) \subseteq F
        /\ \A l \in F : \E k \in Held(n, "victim") : l \in Into(map, b, k)
        /\ g.victim_list = n.victim_list /\ g.GC_BLK = c.GC_BLK /\ g.cur_gc_vpn = c.cur_gc_vpn
        /\ Holes(g) = {} /\ g.cur_vt_vpn # VC_MAX /\ g.cur_vt_vpn.block = n.cur_vt_vpn.block
        /\ \A k \in Held(n, "victim") :
                g.block_list[k].vcount = c.block_list[k].vcount - Cardinality(F \cap Into(map, b, k))
    BY <1>4, <1>8, <1>14, <1>15, <1>17, <2>1, <2>2, <2>3
  <2> QED
    BY ONLY <2>4, ReserveAfterWrite, SMTT(60)
<1>19. /\ b \in Bank /\ BankInv(e) /\ blk \in Block /\ page \in 0 .. PhysPages /\ RoundEnds(a, blk, page, e)
       /\ g = AtVictim(e, [block |-> blk, page |-> page]) /\ MapApart(map2) /\ BankFlash(b, g, map2) /\ ReserveIsBack(g)
  BY <1>1, <1>17, <1>18 DEF g, vt
<1>20. /\ BankFlash(b, e, map2) /\ ReserveIsBack(e)
       /\ e.cur_vt_vpn # VC_MAX => e.cur_vt_vpn.page < PhysPages
       /\ page = PhysPages => a.num_gcbuffed = a.block_list[blk].vcount
  BY ONLY <1>19, EndRound
<1> QED
  BY <1>17, <1>20

LEMMA RoundIs ==
    ASSUME NEW a, NEW blk, NEW page, NEW e, e = EndRead(a, blk, page), BankInv(e)
    PROVE  RoundEnds(a, blk, page, e)
<1>1. DOMAIN a = BankField
  <2>1. DOMAIN e = BankField
    BY DEF BankInv, BankShape
  <2>2. DOMAIN e = DOMAIN a
    BY DEF EndRead
  <2> QED
    BY <2>1, <2>2
<1> QED
  BY <1>1, EndReadIs DEF RoundEnds

\* A log page is in no victim.
LEMMA SlotsNotVictims ==
    ASSUME NEW banks, NEW map, SlotInv(banks, map), NEW b \in Bank
    PROVE  \A s \in SlotLPN : InBank(map[s], b) => map[s].block \in Held(banks[b], "RW_log")
                                                   /\ map[s].block \notin Held(banks[b], "victim")
                                                   /\ map[s].block \notin Held(banks[b], "data")
<1> SUFFICES ASSUME NEW s \in SlotLPN, InBank(map[s], b)
             PROVE  map[s].block \in Held(banks[b], "RW_log")
    <2>1. \A blk \in Held(banks[b], "RW_log") : blk \notin Held(banks[b], "victim") /\ blk \notin Held(banks[b], "data")
      BY HeldBlocks, ListsAre DEF SlotInv, BankInv
    <2> QED
      BY <2>1
<1>1. InFlash(map[s]) /\ map[s].bank = b
  BY DEF InBank
<1>2. InLogBlock(banks, map[s])
  <2>1. ~InLogBuffer(banks, map[s], s)
    <3>1. SUFFICES ASSUME NEW c \in Bank, NEW pos, map[s] = Buffered(c, "RW", pos)
                   PROVE  FALSE
      BY DEF InLogBuffer
    <3>2. DOMAIN map[s] = {"bank", "type", "pos"}
      BY <3>1 DEF Buffered
    <3> QED
      BY <1>1, <3>2 DEF InFlash
  <2>2. map[s] # VC_MAX
    BY <1>1 DEF InFlash
  <2> QED
    BY <2>1, <2>2 DEF SlotInv
<1>3. PICK c \in Bank : \E blk \in ToSet(banks[c].RW_log_list), off \in Offset : map[s] = Flash(c, blk, off)
  BY <1>2 DEF InLogBlock
<1>4. PICK blk \in ToSet(banks[c].RW_log_list), off \in Offset : map[s] = Flash(c, blk, off)
  BY <1>3
<1>5. map[s].bank = c /\ map[s].block = blk
  BY <1>4 DEF Flash
<1> QED
  BY <1>1, <1>4, <1>5, ListsAre DEF Held

\* While a victim is read and a block is needed, there is one: the collector has
\* not written more pages than the oldest victim had invalid ones.
LEMMA ReserveAtHand ==
    ASSUME NEW b \in Bank, NEW n, BankInv(n), NEW map, BankFlash(b, n, map), ReserveIsBack(n),
           n.cur_vt_vpn # VC_MAX, n.block_list[n.victim_list[1]].vcount # 0, NeedsBlock(n)
    PROVE  n.GC_BLK # VC_MAX
<1> SUFFICES ASSUME n.GC_BLK = VC_MAX
             PROVE  FALSE
  OBVIOUS
<1> DEFINE oldest == n.victim_list[1]
           v == n.block_list[oldest].vcount
           h == Cardinality(Holes(n))
           page == n.cur_gc_vpn.page
<1>1. /\ n.cur_gc_vpn # VC_MAX /\ n.victim_list # <<>>
      /\ IF Reading(n, oldest) THEN v + h + page * SuperPage <= MaxVcount ELSE page < LAST
  BY DEF ReserveIsBack
<1>2. page = LAST
  BY <1>1 DEF NeedsBlock, LAST
<1>3. v \in Nat /\ v # 0 /\ h \in Nat
  <2>1. oldest \in Block
    BY <1>1, OldestIsBlock
  <2> QED
    BY <2>1, HolesFinite DEF BankFlash, VcountsRight
<1>4. LAST \in Nat /\ MaxVcount = LAST * SuperPage /\ MaxVcount \in Nat
  BY FlashFacts, MaxVcountIs
<1> HIDE DEF v, h, page
<1>5. page * SuperPage = MaxVcount
  BY <1>2, <1>4
<1> QED
  BY <1>1, <1>2, <1>3, <1>4, <1>5

\* The place of a page of the buffer once it is written.
LEMMA CollectedIs ==
    ASSUME NEW map, NEW map2, NEW b, NEW vpn2, NEW q,
           \A l \in LPN : map2[l] =
                IF \E i \in 1 .. SuperPage : q[i] = l
                THEN Flash(b, vpn2.block, OffsetOf(vpn2.page, (CHOOSE i \in 1 .. SuperPage : q[i] = l) - 1))
                ELSE map[l]
    PROVE  Collected(map, map2, b, vpn2, q)
<1> SUFFICES ASSUME NEW l \in LPN
             PROVE  IF l \in FrontOf(q, SuperPage)
                    THEN \E i \in 1 .. SuperPage : q[i] = l /\ map2[l] = Flash(b, vpn2.block, OffsetOf(vpn2.page, i - 1))
                    ELSE map2[l] = map[l]
  BY DEF Collected
<1>1. l \in FrontOf(q, SuperPage) <=> \E i \in 1 .. SuperPage : q[i] = l
  BY DEF FrontOf
<1>2. CASE \E i \in 1 .. SuperPage : q[i] = l
  <2> DEFINE i == CHOOSE i \in 1 .. SuperPage : q[i] = l
  <2>1. i \in 1 .. SuperPage /\ q[i] = l
    BY <1>2
  <2>2. map2[l] = Flash(b, vpn2.block, OffsetOf(vpn2.page, i - 1))
    BY <1>2
  <2> HIDE DEF i
  <2> QED
    BY <1>1, <1>2, <2>1, <2>2
<1>3. CASE ~\E i \in 1 .. SuperPage : q[i] = l
  BY <1>1, <1>3
<1> QED
  BY <1>2, <1>3

\* A round of the collector, in the terms above: the pages at offs are read from
\* blk up to page, q is the buffer with them, and the bank is a before the round
\* ends and e afterwards.
GCRound(blk, page, offs, q, a, e) ==
    LET b == GCBank
        n == nand[b]
        writes == Len(q) >= SuperPage
        held == Len(n.GCbuf_lpn)
        target == GCTarget(n).cur_gc_vpn
        Place(i) == IF ~writes THEN GCBuffered(b, i)
                    ELSE IF i > SuperPage THEN GCBuffered(b, i - SuperPage)
                    ELSE Flash(b, target.block, OffsetOf(target.page, i - 1))
        Holds(l, i) == \/ i <= held /\ GCBuffered(b, i) \in copies[l]
                       \/ i > held /\ Flash(b, blk, offs[i - held]) \in copies[l]
    IN  /\ b \in Bank /\ BankInv(n) /\ BankFlash(b, n, vpn) /\ ReserveIsBack(n)
        /\ ReadAt(b, n, vpn, blk, page, offs)
        /\ q = BufferedRead(n.GCbuf_lpn, n.block_list[blk].spare, offs)
        /\ NeedsBlock(n) => n.GC_BLK # VC_MAX
        /\ a = IF writes THEN AfterWrite(n, q) ELSE AfterRead(n, q, Len(offs))
        /\ BankInv(e) /\ RoundEnds(a, blk, page, e) /\ DOMAIN a = BankField
        /\ nand'[b] = e /\ \A c \in Bank : c # b => nand'[c] = nand[c]
        /\ held < SuperPage /\ held \in Nat /\ Len(offs) \in Nat /\ Len(offs) <= 2
        /\ Len(q) = held + Len(offs) /\ q \in Seq(Home)
        /\ IF writes THEN Collected(vpn, vpn', b, target, q) ELSE \A l \in LPN : vpn'[l] = vpn[l]
        /\ \A l \in LPN : copies'[l] =
                {c \in copies[l] : \A i \in 1 .. held : c # GCBuffered(b, i)}
                \cup {Place(i) : i \in {j \in DOMAIN q : Holds(l, j)}}
        /\ IF page = PhysPages /\ a.block_list[blk].vcount > a.num_gcbuffed
           THEN pc' = "stopped"
           ELSE IF writes THEN NextHalf ELSE pc' = "gc_erase" /\ UNCHANGED <<loop, write_type, kept, reads>>

LEMMA GCRoundIs ==
    ASSUME FTLInv, FTLInv', FlashInv(nand, vpn), Rested(nand[GCBank]),
           nand[GCBank].block_list[nand[GCBank].victim_list[1]].vcount # 0, GCRead
    PROVE  \E blk, page, offs, q, a, e : GCRound(blk, page, offs, q, a, e)
<1> DEFINE b == GCBank
           n == nand[b]
           blk == n.cur_vt_vpn.block
           info == n.block_list[blk]
           marked == {p \in n.cur_vt_vpn.page .. PhysPages - 1 : Halves(info, p) # {}}
           more == n.num_gcbuffed < info.vcount
           offs == IF more /\ marked # {} THEN Readable(info, Min(marked)) ELSE <<>>
           page == IF ~more THEN n.cur_vt_vpn.page
                   ELSE IF marked = {} THEN PhysPages ELSE Min(marked) + 1
           q == n.GCbuf_lpn \o [i \in DOMAIN offs |-> info.spare[offs[i]]]
           writes == Len(q) >= SuperPage
           rest == SubSeq(q, SuperPage + 1, Len(q))
           front == SubSeq(q, 1, SuperPage)
           a == IF writes
                THEN [write_gc_buffer(n, front) EXCEPT !.GCbuf_lpn = rest, !.num_gcbuffed = Len(rest)]
                ELSE [n EXCEPT !.GCbuf_lpn = q, !.num_gcbuffed = @ + Len(offs)]
           short == writes /\ NeedsBlock(n) /\ n.GC_BLK = VC_MAX
           e == EndRead(a, blk, page)
           target == a.cur_gc_vpn
           late == page = PhysPages /\ a.block_list[blk].vcount > a.num_gcbuffed
           held == Len(n.GCbuf_lpn)
           Place(i) == IF ~writes THEN GCBuffered(b, i)
                       ELSE IF i > SuperPage THEN GCBuffered(b, i - SuperPage)
                       ELSE Flash(b, target.block, OffsetOf(target.page, i - 1))
           Holds(l, i) == \/ i <= held /\ GCBuffered(b, i) \in copies[l]
                          \/ i > held /\ Flash(b, blk, offs[i - held]) \in copies[l]
           CopiesMove == \A l \in LPN : copies'[l] =
                {c \in copies[l] : \A i \in 1 .. held : c # GCBuffered(b, i)}
                \cup {Place(i) : i \in {j \in DOMAIN q : Holds(l, j)}}
<1>1. pc = "gc_read"
  BY DEF GCRead
<1>2. ~short => /\ nand' = [nand EXCEPT ![b] = e]
                /\ IF late THEN pc' = "stopped"
                   ELSE IF writes THEN NextHalf
                   ELSE pc' = "gc_erase" /\ UNCHANGED <<loop, write_type, kept, reads>>
  BY DEF GCRead
<1>3. ~short /\ writes => \A l \in LPN : vpn'[l] =
                IF \E i \in 1 .. SuperPage : q[i] = l
                THEN LET i == CHOOSE i \in 1 .. SuperPage : q[i] = l
                     IN  IF i > SuperPage THEN GCBuffered(b, i - SuperPage)
                         ELSE Flash(b, target.block, OffsetOf(target.page, i - 1))
                ELSE vpn[l]
  BY DEF GCRead
<1>0. ~short => CopiesMove
  BY DEF GCRead
<1>4. ~short /\ ~writes => \A l \in LPN : vpn'[l] = vpn[l]
  BY DEF GCRead
<1>5. writes => a = AfterWrite(n, q)
  BY DEF AfterWrite, Behind
<1>6. ~writes => a = AfterRead(n, q, Len(offs))
  BY DEF AfterRead
<1>7. q = BufferedRead(n.GCbuf_lpn, n.block_list[blk].spare, offs)
  BY DEF BufferedRead
<1>8. more \in BOOLEAN
  OBVIOUS
<1>9. /\ blk = n.cur_vt_vpn.block /\ info = n.block_list[blk]
      /\ marked = {p \in n.cur_vt_vpn.page .. PhysPages - 1 : Halves(info, p) # {}}
      /\ offs = IF more /\ marked # {} THEN Readable(info, Min(marked)) ELSE <<>>
      /\ page = IF ~more THEN n.cur_vt_vpn.page
                ELSE IF marked = {} THEN PhysPages ELSE Min(marked) + 1
  OBVIOUS
<1>10. nand[GCBank] = n /\ b = GCBank /\ (e = EndRead(a, blk, page)) /\ (short <=> writes /\ NeedsBlock(n) /\ n.GC_BLK = VC_MAX)
       /\ (writes <=> Len(q) >= SuperPage) /\ target = a.cur_gc_vpn
       /\ (late <=> page = PhysPages /\ a.block_list[blk].vcount > a.num_gcbuffed)
  OBVIOUS
<1> HIDE DEF b, n, blk, info, marked, more, offs, page, q, writes, rest, front, a, short, e, target, late, held, Place, Holds, CopiesMove
<1>11. b \in Bank /\ BankInv(n) /\ n.cur_vt_vpn # VC_MAX
  BY <1>1, <1>10, GCBankIsBank DEF FTLInv, SlotInv, VictimAtHand
<1>12. MapApart(vpn) /\ BankFlash(b, n, vpn) /\ ReserveIsBack(n)
  BY <1>10, <1>11 DEF FlashInv
<1>13. \A s \in SlotLPN : InBank(vpn[s], b) => vpn[s].block \notin Held(n, "victim")
  BY <1>10, <1>11, SlotsNotVictims DEF FTLInv
<1>14. ReadAt(b, n, vpn, blk, page, offs)
  <2>1. /\ b \in Bank /\ BankInv(n) /\ MapApart(vpn) /\ BankFlash(b, n, vpn)
        /\ \A s \in SlotLPN : InBank(vpn[s], b) => vpn[s].block \notin Held(n, "victim")
        /\ n.cur_vt_vpn # VC_MAX
    BY <1>11, <1>12, <1>13
  <2>2. IsRead(b, info, blk, vpn, n.cur_vt_vpn.page, page, offs)
    BY ONLY <1>8, <1>9, <2>1, ReadIs
  <2> QED
    BY <1>9, <2>1, <2>2 DEF ReadAt
<1>15. NeedsBlock(n) => n.GC_BLK # VC_MAX
  <2>1. n.block_list[n.victim_list[1]].vcount # 0
    BY <1>10
  <2> QED
    BY <1>11, <1>12, <2>1, ReserveAtHand
<1>16. ~short
  BY <1>10, <1>15
<1>17. nand' = [nand EXCEPT ![b] = e] /\ nand'[b] = e /\ \A c \in Bank : c # b => nand'[c] = nand[c]
  <2>1. DOMAIN nand = Bank
    BY DEF FTLInv, Ranges
  <2> QED
    BY <1>2, <1>11, <1>16, <2>1
<1>18. BankInv(e)
  <2>1. BankInv(nand'[b])
    BY <1>11 DEF FTLInv, SlotInv
  <2> QED
    BY <1>17, <2>1
<1>19. RoundEnds(a, blk, page, e)
  BY <1>10, <1>18, RoundIs
<1>20. Len(n.GCbuf_lpn) < SuperPage /\ Len(n.GCbuf_lpn) \in Nat /\ Len(offs) \in Nat /\ Len(offs) <= 2
       /\ Len(q) = Len(n.GCbuf_lpn) + Len(offs) /\ q \in Seq(Home)
  <2> DEFINE spare == n.block_list[blk].spare
             was == n.GCbuf_lpn
  <2>1. blk \in Block
    BY <1>11, <1>12, <1>14, ReadRange
  <2>2. /\ was \in Seq(Home) /\ \A off \in Offset : spare[off] \in Home
        /\ q = BufferedRead(was, spare, offs) /\ offs \in Seq(Offset) /\ Len(offs) <= 2
    BY <1>7, <1>11, <1>14, <2>1 DEF BankInv, HomeOnly, ReadAt, IsRead
  <2>3. Len(was) < SuperPage
    BY <1>10 DEF Rested
  <2> HIDE DEF spare, was
  <2>4. /\ q \in Seq(Home) /\ Len(was) \in Nat /\ Len(offs) \in Nat /\ Len(q) = Len(was) + Len(offs)
    BY <2>2, BufferRead
  <2> QED
    BY <2>2, <2>3, <2>4 DEF was
<1>21. writes => /\ a.cur_gc_vpn = GCTarget(n).cur_gc_vpn
                 /\ Collected(vpn, vpn', b, GCTarget(n).cur_gc_vpn, q)
  <2> SUFFICES ASSUME writes
               PROVE  /\ a.cur_gc_vpn = GCTarget(n).cur_gc_vpn
                      /\ Collected(vpn, vpn', b, GCTarget(n).cur_gc_vpn, q)
    OBVIOUS
  <2> DEFINE c == GCTarget(n)
  <2> HIDE DEF c
  <2>0. writes
    OBVIOUS
  <2>1. a.cur_gc_vpn = c.cur_gc_vpn
    <3> DEFINE w == write_gc_buffer(n, SubSeq(q, 1, SuperPage))
    <3>1. a = [w EXCEPT !.GCbuf_lpn = Behind(q), !.num_gcbuffed = Len(Behind(q))]
      BY <1>5, <2>0 DEF AfterWrite
    <3>2. w.cur_gc_vpn = c.cur_gc_vpn
      BY DEF write_gc_buffer, decrease_vcount_of_vt_block, c
    <3> HIDE DEF w
    <3> QED
      BY <3>1, <3>2
  <2>2. Collected(vpn, vpn', b, c.cur_gc_vpn, q)
    <3> DEFINE First(l) == CHOOSE i \in 1 .. SuperPage : q[i] = l
    <3>1. \A l \in LPN : (\E i \in 1 .. SuperPage : q[i] = l) => First(l) \in 1 .. SuperPage /\ q[First(l)] = l
      OBVIOUS
    <3>2. \A l \in LPN : vpn'[l] =
                IF \E i \in 1 .. SuperPage : q[i] = l
                THEN IF First(l) > SuperPage THEN GCBuffered(b, First(l) - SuperPage)
                     ELSE Flash(b, target.block, OffsetOf(target.page, First(l) - 1))
                ELSE vpn[l]
      BY <1>3, <1>16, <2>0
    <3>3. \A i \in 1 .. SuperPage : ~(i > SuperPage)
      BY FlashFacts
    <3> HIDE DEF First
    <3>4. \A l \in LPN : vpn'[l] =
                IF \E i \in 1 .. SuperPage : q[i] = l
                THEN Flash(b, target.block, OffsetOf(target.page, First(l) - 1))
                ELSE vpn[l]
      BY <3>1, <3>2, <3>3
    <3>5. target = c.cur_gc_vpn
      BY <1>10, <2>1
    <3>6. \A l \in LPN : vpn'[l] =
                IF \E i \in 1 .. SuperPage : q[i] = l
                THEN Flash(b, c.cur_gc_vpn.block, OffsetOf(c.cur_gc_vpn.page, (CHOOSE i \in 1 .. SuperPage : q[i] = l) - 1))
                ELSE vpn[l]
      BY <3>4, <3>5 DEF First
    <3> QED
      BY ONLY <3>6, CollectedIs
  <2> QED
    BY <2>1, <2>2 DEF c
<1>22. DOMAIN a = BankField
  BY <1>10, <1>18 DEF EndRead, BankInv, BankShape
<1> DEFINE vp == GCTarget(n).cur_gc_vpn
           Place2(i) == IF ~(Len(q) >= SuperPage) THEN GCBuffered(b, i)
                        ELSE IF i > SuperPage THEN GCBuffered(b, i - SuperPage)
                        ELSE Flash(b, vp.block, OffsetOf(vp.page, i - 1))
           Holds2(l, i) == \/ i <= Len(n.GCbuf_lpn) /\ GCBuffered(b, i) \in copies[l]
                           \/ i > Len(n.GCbuf_lpn) /\ Flash(b, blk, offs[i - Len(n.GCbuf_lpn)]) \in copies[l]
<1>24. \A l \in LPN : copies'[l] =
            {c \in copies[l] : \A i \in 1 .. Len(n.GCbuf_lpn) : c # GCBuffered(b, i)}
            \cup {Place2(i) : i \in {j \in DOMAIN q : Holds2(l, j)}}
  <2>1. CopiesMove
    BY <1>0, <1>16
  <2>2. \A i : Place(i) = Place2(i)
    <3>1. writes => target = vp
      BY <1>10, <1>21
    <3>2. writes <=> Len(q) >= SuperPage
      BY <1>10
    <3> HIDE DEF vp
    <3> QED
      BY <3>1, <3>2 DEF Place
  <2>3. \A l, i : Holds(l, i) <=> Holds2(l, i)
    BY DEF Holds, held
  <2> HIDE DEF Place2, Holds2
  <2> QED
    BY <2>1, <2>2, <2>3 DEF CopiesMove, held
<1>25. IF page = PhysPages /\ a.block_list[blk].vcount > a.num_gcbuffed
       THEN pc' = "stopped"
       ELSE IF Len(q) >= SuperPage THEN NextHalf ELSE pc' = "gc_erase" /\ UNCHANGED <<loop, write_type, kept, reads>>
  BY <1>2, <1>10, <1>16
<1>26. a = IF Len(q) >= SuperPage THEN AfterWrite(n, q) ELSE AfterRead(n, q, Len(offs))
  BY <1>5, <1>6, <1>10
<1>27. IF Len(q) >= SuperPage THEN Collected(vpn, vpn', b, GCTarget(n).cur_gc_vpn, q)
       ELSE \A l \in LPN : vpn'[l] = vpn[l]
  BY <1>4, <1>10, <1>16, <1>21
<1>28. GCRound(blk, page, offs, q, a, e)
  BY <1>7, <1>10, <1>11, <1>12, <1>14, <1>15, <1>17, <1>18, <1>19, <1>20, <1>22, <1>24, <1>25, <1>26, <1>27
     DEF GCRound, b, n
<1> QED
  BY <1>28

\* A round of the collector, as far as the flash and the map go.
LEMMA GCReadFlash ==
    ASSUME FTLInv, FTLInv', FlashInv(nand, vpn), Rested(nand[GCBank]),
           nand[GCBank].block_list[nand[GCBank].victim_list[1]].vcount # 0, GCRead
    PROVE  /\ FlashInv(nand', vpn') /\ Rested(nand'[GCBank]) /\ pc' # "stopped"
           /\ \A c \in Bank : c # GCBank => nand'[c] = nand[c]
<1> DEFINE b == GCBank
           n == nand[b]
<1>1. PICK blk, page, offs, q, a, e : GCRound(blk, page, offs, q, a, e)
  BY GCRoundIs
<1> DEFINE writes == Len(q) >= SuperPage
           late == page = PhysPages /\ a.block_list[blk].vcount > a.num_gcbuffed
<1>10. b = GCBank /\ n = nand[GCBank] /\ (writes <=> Len(q) >= SuperPage)
       /\ (late <=> page = PhysPages /\ a.block_list[blk].vcount > a.num_gcbuffed)
  OBVIOUS
<1> HIDE DEF b, n, writes, late
<1>11. /\ b \in Bank /\ BankInv(n) /\ BankFlash(b, n, vpn) /\ ReserveIsBack(n)
       /\ ReadAt(b, n, vpn, blk, page, offs)
       /\ q = BufferedRead(n.GCbuf_lpn, n.block_list[blk].spare, offs)
       /\ NeedsBlock(n) => n.GC_BLK # VC_MAX
       /\ a = IF writes THEN AfterWrite(n, q) ELSE AfterRead(n, q, Len(offs))
       /\ BankInv(e) /\ RoundEnds(a, blk, page, e) /\ DOMAIN a = BankField
       /\ nand'[b] = e /\ \A c \in Bank : c # b => nand'[c] = nand[c]
       /\ Len(n.GCbuf_lpn) < SuperPage /\ Len(n.GCbuf_lpn) \in Nat /\ Len(offs) \in Nat /\ Len(offs) <= 2
       /\ Len(q) = Len(n.GCbuf_lpn) + Len(offs) /\ q \in Seq(Home)
       /\ IF writes THEN Collected(vpn, vpn', b, GCTarget(n).cur_gc_vpn, q) ELSE \A l \in LPN : vpn'[l] = vpn[l]
       /\ IF late THEN pc' = "stopped" ELSE NextHalf \/ pc' = "gc_erase"
  BY <1>1, <1>10 DEF GCRound
<1>12. MapApart(vpn) /\ FlashInv(nand, vpn) /\ \A d \in Bank : BankInv(nand[d])
  BY DEF FlashInv, FTLInv, SlotInv
<1>21. CASE writes
  <2> DEFINE c == GCTarget(n)
  <2> HIDE DEF c
  <2>3. /\ b \in Bank /\ BankInv(n) /\ MapApart(vpn) /\ BankFlash(b, n, vpn) /\ ReserveIsBack(n)
        /\ ReadAt(b, n, vpn, blk, page, offs) /\ Len(n.GCbuf_lpn) < SuperPage
        /\ NeedsBlock(n) => n.GC_BLK # VC_MAX
        /\ q = BufferedRead(n.GCbuf_lpn, n.block_list[blk].spare, offs) /\ Len(q) >= SuperPage
        /\ c = GCTarget(n) /\ a = AfterWrite(n, q) /\ BankInv(e) /\ RoundEnds(a, blk, page, e)
        /\ Collected(vpn, vpn', b, c.cur_gc_vpn, q)
    BY <1>10, <1>11, <1>12, <1>21 DEF c
  <2>4. /\ MapApart(vpn') /\ \A d \in Bank : d # b => SameMap(vpn, vpn', d)
        /\ BankFlash(b, e, vpn') /\ ReserveIsBack(e)
        /\ e.cur_vt_vpn # VC_MAX => e.cur_vt_vpn.page < PhysPages
        /\ page = PhysPages => a.num_gcbuffed = a.block_list[blk].vcount
    BY ONLY <2>3, WriteRound
  <2>5. FlashInv(nand', vpn')
    <3>1. /\ FlashInv(nand, vpn) /\ \A d \in Bank : BankInv(nand[d])
      BY DEF FTLInv, SlotInv
    <3>2. BankFlash(b, nand'[b], vpn') /\ ReserveIsBack(nand'[b])
      BY <1>11, <2>4
    <3> QED
      BY <1>11, <2>4, <3>1, <3>2, FlashStep
  <2>6. Len(e.GCbuf_lpn) < SuperPage
    <3>1. e.GCbuf_lpn = Behind(q)
      <4>1. e.GCbuf_lpn = a.GCbuf_lpn
        BY <1>11 DEF RoundEnds, BankField
      <4> DEFINE w == write_gc_buffer(n, SubSeq(q, 1, SuperPage))
      <4>2. a = [w EXCEPT !.GCbuf_lpn = Behind(q), !.num_gcbuffed = Len(Behind(q))]
        BY <1>11, <1>21 DEF AfterWrite
      <4>3. DOMAIN a = DOMAIN w
        BY <4>2
      <4>5. "GCbuf_lpn" \in DOMAIN w
        BY <1>11, <4>3 DEF BankField
      <4> HIDE DEF w
      <4> QED
        BY <4>1, <4>2, <4>5
    <3> DEFINE L == Len(q)
    <3>2. L \in Nat /\ L >= SuperPage /\ L < SuperPage + 2 /\ SuperPage \in Nat /\ SuperPage >= 2
      <4>1. SuperPage \in Nat /\ SuperPage >= 2
        BY FlashFacts DEF SuperPage
      <4>2. L < SuperPage + 2
        <5> DEFINE h == Len(n.GCbuf_lpn)
                   o == Len(offs)
        <5>1. h < SuperPage /\ h \in Nat /\ o \in Nat /\ o <= 2 /\ L = h + o
          BY <1>11
        <5> HIDE DEF h, o, L
        <5> QED
          BY <4>1, <5>1
      <4> QED
        BY <1>10, <1>11, <1>21, <4>1, <4>2
    <3>3. \A i \in 1 .. L : q[i] \in Home
      BY <1>11, ElementOfSeq
    <3>4. Len(Behind(q)) = IF SuperPage + 1 <= L THEN L - (SuperPage + 1) + 1 ELSE 0
      <4>1. \A i \in SuperPage + 1 .. L : q[i] \in Home
        BY <3>2, <3>3
      <4>2. SuperPage + 1 \in Int /\ L \in Int
        BY <3>2
      <4> HIDE DEF L
      <4>3. Len(SubSeq(q, SuperPage + 1, L)) = IF SuperPage + 1 <= L THEN L - (SuperPage + 1) + 1 ELSE 0
        BY <4>1, <4>2, SubSeqProperties
      <4> QED
        BY <4>3 DEF Behind, L
    <3> DEFINE r == Len(Behind(q))
    <3> HIDE DEF L, r
    <3>5. r < SuperPage
      <4>1. r = IF SuperPage + 1 <= L THEN L - (SuperPage + 1) + 1 ELSE 0
        BY <3>4 DEF r
      <4> QED
        BY <3>2, <4>1
    <3> QED
      BY <3>1, <3>5 DEF r
  <2>7. Rested(e)
    BY <2>4, <2>6 DEF Rested
  <2>8. ~late
    <3>1. a.block_list[blk].vcount = a.num_gcbuffed => ~(a.block_list[blk].vcount > a.num_gcbuffed)
      <4>1. e.num_gcbuffed \in Nat
        BY <2>4 DEF BankFlash, Collecting
      <4>2. e.num_gcbuffed = a.num_gcbuffed
        BY <1>11 DEF RoundEnds, BankField
      <4> QED
        BY <4>1, <4>2
    <3> QED
      BY <1>10, <2>4, <3>1
  <2>9. pc' # "stopped"
    BY <1>11, <2>8 DEF NextHalf
  <2> QED
    BY <1>10, <1>11, <2>5, <2>7, <2>9
<1>22. CASE ~writes
  <2>1. /\ b \in Bank /\ BankInv(n) /\ MapApart(vpn) /\ BankFlash(b, n, vpn) /\ ReserveIsBack(n)
        /\ ReadAt(b, n, vpn, blk, page, offs)
        /\ q = BufferedRead(n.GCbuf_lpn, n.block_list[blk].spare, offs)
        /\ a = AfterRead(n, q, Len(offs)) /\ BankInv(e) /\ RoundEnds(a, blk, page, e)
    BY <1>10, <1>11, <1>12, <1>22
  <2>2. /\ BankFlash(b, e, vpn) /\ ReserveIsBack(e)
        /\ e.cur_vt_vpn # VC_MAX => e.cur_vt_vpn.page < PhysPages
        /\ page = PhysPages => a.num_gcbuffed = a.block_list[blk].vcount
    BY ONLY <2>1, ReadRound
  <2>3. FlashInv(nand', vpn)
    <3>1. /\ FlashInv(nand, vpn) /\ \A d \in Bank : BankInv(nand[d])
      BY DEF FTLInv, SlotInv
    <3>2. BankFlash(b, nand'[b], vpn) /\ ReserveIsBack(nand'[b])
      BY <1>11, <2>2
    <3>3. \A d \in Bank : d # b => SameMap(vpn, vpn, d)
      BY DEF SameMap
    <3> QED
      BY <1>11, <1>12, <3>1, <3>2, <3>3, FlashStep
  <2>4. FlashInv(nand', vpn')
    <3>1. SameFlash(vpn, vpn') /\ \A d \in Bank : SameBank(nand'[d], nand'[d])
      BY <1>11, <1>22, BankStays DEF SameFlash
    <3>2. \A d \in Bank : BankInv(nand'[d])
      BY DEF FTLInv, SlotInv
    <3> QED
      BY <2>3, <3>1, <3>2, FlashNeutral
  <2>5. Len(e.GCbuf_lpn) < SuperPage
    <3>1. e.GCbuf_lpn = q
      <4>1. e.GCbuf_lpn = a.GCbuf_lpn
        BY <1>11 DEF RoundEnds, BankField
      <4>2. a.GCbuf_lpn = q
        BY <1>11, <2>1 DEF AfterRead, BankInv, BankShape, BankField
      <4> QED
        BY <4>1, <4>2
    <3> QED
      BY <1>10, <1>11, <1>22, <3>1, FlashFacts
  <2>6. Rested(e)
    BY <2>2, <2>5 DEF Rested
  <2>7. ~late
    <3>1. a.block_list[blk].vcount = a.num_gcbuffed => ~(a.block_list[blk].vcount > a.num_gcbuffed)
      <4>1. e.num_gcbuffed \in Nat
        BY <2>2 DEF BankFlash, Collecting
      <4>2. e.num_gcbuffed = a.num_gcbuffed
        BY <1>11 DEF RoundEnds, BankField
      <4> QED
        BY <4>1, <4>2
    <3> QED
      BY <1>10, <2>2, <3>1
  <2>8. pc' # "stopped"
    BY <1>11, <2>7 DEF NextHalf
  <2> QED
    BY <1>10, <1>11, <2>4, <2>6, <2>8
<1> QED
  BY <1>21, <1>22
=============================================================================
