----------------------------- MODULE FTLBankProofs -----------------------------
(***************************************************************************)
(* Theorems of FTLBank for every number of banks, blocks, planes and pages *)
(* and all addresses: no block of a bank is lost, a page at a log address  *)
(* stays where the collector does not look, and the count of the pages     *)
(* that wait for a remap is exact.  The three need each other: a block     *)
(* leaves the log blocks when its count is 0, and the lists are right only *)
(* if it was among them.                                                   *)
(***************************************************************************)
EXTENDS FTLBank, Lemmas
LOCAL INSTANCE SequencesExt
LOCAL INSTANCE FiniteSetsExt

(***************************************************************************)
(* Lists of blocks without repetition.                                     *)
(***************************************************************************)
List(s) ==
    /\ s \in Seq(Block)
    /\ \A i, j \in DOMAIN s : s[i] = s[j] => i = j

\* A block that is not in a list is appended.
LEMMA ListAppend ==
    ASSUME NEW s, List(s), NEW blk \in Block, blk \notin ToSet(s)
    PROVE  List(Append(s, blk)) /\ ToSet(Append(s, blk)) = ToSet(s) \cup {blk}
<1> DEFINE t == Append(s, blk)
<1>1. PICK n \in Nat : n = Len(s) /\ DOMAIN s = 1 .. n
  BY LenProperties DEF List
<1>2. /\ t \in Seq(Block) /\ Len(t) = n + 1 /\ t[n + 1] = blk
      /\ \A i \in 1 .. n : t[i] = s[i]
  BY <1>1, AppendProperties DEF List
<1>3. DOMAIN t = 1 .. n + 1
  BY <1>2, LenProperties
<1>4. 1 .. n + 1 = (1 .. n) \cup {n + 1} /\ n + 1 \notin 1 .. n
  BY <1>1
<1>5. \A i \in 1 .. n : s[i] # blk
  BY <1>1 DEF ToSet
<1> HIDE DEF t
<1>6. \A i, j \in DOMAIN t : t[i] = t[j] => i = j
  BY <1>1, <1>2, <1>3, <1>4, <1>5 DEF List
<1>7. ToSet(t) = ToSet(s) \cup {blk}
  BY <1>1, <1>2, <1>3, <1>4 DEF ToSet
<1> QED
  BY <1>2, <1>6, <1>7 DEF List, t

\* The i-th block is taken out.
LEMMA ListCut ==
    ASSUME NEW s, List(s), NEW k \in DOMAIN s,
           NEW t \in Seq(Block), Len(t) = Len(s) - 1,
           \A i \in 1 .. Len(t) : t[i] = IF i < k THEN s[i] ELSE s[i + 1]
    PROVE  List(t) /\ ToSet(t) = ToSet(s) \ {s[k]}
<1>1. PICK n \in Nat : n = Len(s) /\ DOMAIN s = 1 .. n
  BY LenProperties DEF List
<1>2. n - 1 \in Nat /\ DOMAIN t = 1 .. n - 1 /\ k \in 1 .. n
  BY <1>1, LenProperties
<1>3. \A i, j \in 1 .. n : s[i] = s[j] => i = j
  BY <1>1 DEF List
<1>4. \A i \in 1 .. n - 1 : t[i] = s[IF i < k THEN i ELSE i + 1]
  BY <1>1, <1>2
<1> DEFINE at(i) == IF i < k THEN i ELSE i + 1
<1>5. \A i \in 1 .. n - 1 : at(i) \in 1 .. n /\ at(i) # k
  BY <1>1, <1>2
<1>6. \A i, j \in 1 .. n - 1 : at(i) = at(j) => i = j
  BY <1>1, <1>2
<1>7. \A j \in 1 .. n : j # k => \E i \in 1 .. n - 1 : at(i) = j
  <2> SUFFICES ASSUME NEW j \in 1 .. n, j # k
               PROVE  \E i \in 1 .. n - 1 : at(i) = j
    OBVIOUS
  <2>1. CASE j < k
    BY <1>2, <2>1
  <2>2. CASE j > k
    <3>1. j - 1 \in 1 .. n - 1 /\ at(j - 1) = j
      BY <1>2, <2>2
    <3> QED
      BY <3>1
  <2> QED
    BY <1>2, <2>1, <2>2
<1>8. \A i \in 1 .. n - 1 : t[i] = s[at(i)]
  BY <1>4
<1> HIDE DEF at
<1>9. \A i, j \in DOMAIN t : t[i] = t[j] => i = j
  BY <1>2, <1>3, <1>5, <1>6, <1>8
<1>10. ToSet(t) = ToSet(s) \ {s[k]}
  <2>1. \A x : x \in ToSet(t) <=> \E i \in 1 .. n - 1 : x = s[at(i)]
    BY <1>2, <1>8 DEF ToSet
  <2>2. \A x : x \in ToSet(s) <=> \E j \in 1 .. n : x = s[j]
    BY <1>1 DEF ToSet
  <2>3. ASSUME NEW x \in ToSet(t)
        PROVE  x \in ToSet(s) \ {s[k]}
    <3>1. PICK i \in 1 .. n - 1 : x = s[at(i)]
      BY <2>1
    <3>2. at(i) \in 1 .. n /\ at(i) # k
      BY <1>5
    <3> QED
      BY <1>2, <1>3, <2>2, <3>1, <3>2
  <2>4. ASSUME NEW x \in ToSet(s), x # s[k]
        PROVE  x \in ToSet(t)
    <3>1. PICK j \in 1 .. n : x = s[j]
      BY <2>2
    <3>2. PICK i \in 1 .. n - 1 : at(i) = j
      BY <1>7, <2>4, <3>1
    <3> QED
      BY <2>1, <3>1, <3>2
  <2> QED
    BY <2>3, <2>4
<1> QED
  BY <1>9, <1>10 DEF List

\* The head is taken out.
LEMMA ListTail ==
    ASSUME NEW s, List(s), s # <<>>
    PROVE  /\ Head(s) \in ToSet(s) /\ List(Tail(s))
           /\ ToSet(Tail(s)) = ToSet(s) \ {Head(s)}
<1>1. PICK n \in Nat : n = Len(s) /\ DOMAIN s = 1 .. n
  BY LenProperties DEF List
<1>2. n > 0
  BY <1>1, EmptySeq DEF List
<1>3. Tail(s) \in Seq(Block) /\ Len(Tail(s)) = n - 1 /\ \A i \in 1 .. n - 1 : Tail(s)[i] = s[i + 1]
  BY <1>1, HeadTailProperties DEF List
<1>4. Head(s) = s[1] /\ 1 \in DOMAIN s
  BY <1>1, <1>2 DEF List
<1>5. \A i \in 1 .. Len(Tail(s)) : Tail(s)[i] = IF i < 1 THEN s[i] ELSE s[i + 1]
  BY <1>1, <1>3
<1>6. Tail(s) \in Seq(Block) /\ Len(Tail(s)) = Len(s) - 1
  BY <1>1, <1>3
<1>7. List(Tail(s)) /\ ToSet(Tail(s)) = ToSet(s) \ {s[1]}
  BY <1>4, <1>5, <1>6, ListCut, Zenon
<1> QED
  BY <1>4, <1>7 DEF ToSet

\* A block of the list is removed; if it is not the last one, that stays the last.
LEMMA ListRemove ==
    ASSUME NEW s, List(s), NEW blk \in ToSet(s)
    PROVE  /\ List(RemoveFirst(s, blk)) /\ ToSet(RemoveFirst(s, blk)) = ToSet(s) \ {blk}
           /\ s[Len(s)] # blk => LET t == RemoveFirst(s, blk)
                                 IN  Len(t) \in Nat \ {0} /\ t[Len(t)] = s[Len(s)]
<1>1. PICK n \in Nat : n = Len(s) /\ DOMAIN s = 1 .. n
  BY LenProperties DEF List
<1>2. PICK k \in 1 .. n : s[k] = blk
  BY <1>1 DEF ToSet
<1>3. {i \in 1 .. Len(s) : s[i] = blk} = {k}
  BY <1>1, <1>2 DEF List
<1>4. Min({k}) = k
  BY DEF Min
<1>5. SelectInSeq(s, LAMBDA v : v = blk) = k
  BY <1>3, <1>4 DEF SelectInSeq
<1>6. RemoveFirst(s, blk) = SubSeq(s, 1, k - 1) \o SubSeq(s, k + 1, n)
  BY <1>1, <1>2, <1>5 DEF RemoveFirst, RemoveAt
<1> DEFINE a == SubSeq(s, 1, k - 1)
           b == SubSeq(s, k + 1, n)
           t == a \o b
<1>7. /\ a \in Seq(Block) /\ Len(a) = k - 1
      /\ \A i \in 1 .. k - 1 : a[i] = s[i]
  <2>1. \A i \in 1 .. k - 1 : s[i] \in Block
    BY <1>1, ElementOfSeq DEF List
  <2>2. k - 1 \in Int /\ 1 \in Int /\ k - 1 - 1 + 1 = k - 1
    BY <1>1
  <2>3. /\ a \in Seq(Block) /\ Len(a) = IF 1 <= k - 1 THEN k - 1 - 1 + 1 ELSE 0
        /\ \A i \in 1 .. k - 1 - 1 + 1 : a[i] = s[1 + i - 1]
    BY <2>1, <2>2, SubSeqProperties
  <2> HIDE DEF a
  <2>4. \A i \in 1 .. k - 1 : 1 + i - 1 = i
    OBVIOUS
  <2> QED
    BY <2>2, <2>3, <2>4
<1>8. /\ b \in Seq(Block) /\ Len(b) = n - k
      /\ \A i \in 1 .. n - k : b[i] = s[k + i]
  <2>1. \A i \in k + 1 .. n : s[i] \in Block
    BY <1>1, ElementOfSeq DEF List
  <2>2. k + 1 \in Int /\ n \in Int /\ n - (k + 1) + 1 = n - k
    BY <1>1
  <2>3. /\ b \in Seq(Block) /\ Len(b) = IF k + 1 <= n THEN n - (k + 1) + 1 ELSE 0
        /\ \A i \in 1 .. n - (k + 1) + 1 : b[i] = s[k + 1 + i - 1]
    BY <2>1, <2>2, SubSeqProperties
  <2> HIDE DEF b
  <2>4. \A i \in 1 .. n - k : k + 1 + i - 1 = k + i
    OBVIOUS
  <2> QED
    BY <2>2, <2>3, <2>4
<1> HIDE DEF a, b
<1>9. /\ t \in Seq(Block) /\ Len(t) = (k - 1) + (n - k)
      /\ \A i \in 1 .. (k - 1) + (n - k) : t[i] = IF i <= k - 1 THEN a[i] ELSE b[i - (k - 1)]
  <2>1. /\ a \o b \in Seq(Block) /\ Len(a \o b) = Len(a) + Len(b)
        /\ \A i \in 1 .. Len(a) + Len(b) : (a \o b)[i] = IF i <= Len(a) THEN a[i] ELSE b[i - Len(a)]
    BY <1>7, <1>8, ConcatProperties
  <2> QED
    BY <1>7, <1>8, <2>1
<1> HIDE DEF t
<1>10. \A i \in 1 .. n - 1 : t[i] = IF i < k THEN s[i] ELSE s[i + 1]
  <2> SUFFICES ASSUME NEW i \in 1 .. n - 1
               PROVE  t[i] = IF i < k THEN s[i] ELSE s[i + 1]
    OBVIOUS
  <2>1. i \in 1 .. (k - 1) + (n - k)
    BY <1>1
  <2>2. CASE i < k
    BY <1>7, <1>9, <2>1, <2>2
  <2>3. CASE i >= k
    <3>1. i - (k - 1) \in 1 .. n - k /\ k + (i - (k - 1)) = i + 1
      BY <1>1, <2>3
    <3>2. ~(i <= k - 1) /\ ~(i < k)
      BY <2>3
    <3>3. b[i - (k - 1)] = s[i + 1]
      BY <1>8, <3>1
    <3> QED
      BY <1>9, <2>1, <3>2, <3>3
  <2> QED
    BY <2>2, <2>3
<1>11. Len(t) = Len(s) - 1 /\ k \in DOMAIN s /\ t \in Seq(Block)
  BY <1>1, <1>9
<1>12. \A i \in 1 .. Len(t) : t[i] = IF i < k THEN s[i] ELSE s[i + 1]
  BY <1>1, <1>10, <1>11
<1>13. List(t) /\ ToSet(t) = ToSet(s) \ {s[k]}
  BY <1>11, <1>12, ListCut, Zenon
<1>14. ASSUME s[Len(s)] # blk
       PROVE  Len(t) \in Nat \ {0} /\ t[Len(t)] = s[Len(s)]
  <2>1. k # n
    BY <1>1, <1>2, <1>14
  <2>2. Len(t) = n - 1 /\ n - 1 \in Nat \ {0} /\ n - 1 \in 1 .. n - 1 /\ ~(n - 1 < k) /\ n - 1 + 1 = n
    BY <1>1, <1>2, <1>11, <2>1
  <2> QED
    BY <1>1, <1>10, <2>2
<1>15. RemoveFirst(s, blk) = t
  BY <1>6 DEF t, a, b
<1> QED
  BY <1>2, <1>13, <1>14, <1>15
-----------------------------------------------------------------------------
(***************************************************************************)
(* The inductive invariant of one bank.                                    *)
(***************************************************************************)
Home == HomeLPN \cup {RSP_INVALID_LPN}
LAST == PAGES_PER_BLK - 1

BankField ==
    {"GC_BLK", "cur_write_vpn", "write_start", "data_list", "RW_log_list", "free_list",
     "victim_list", "cur_gc_vpn", "cur_vt_vpn", "num_gcbuffed", "GCbuf_lpn", "writebuf",
     "writebuf_index", "remap_inbuff_cnt", "block_list"}
InfoField == {"vcount", "remained_remap_cnt", "vbitmap", "spare"}

\* The tables of a bank, and the ranges of what the proofs read in them.
BankShape(n) ==
    /\ DOMAIN n = BankField
    /\ DOMAIN n.block_list = Block
    /\ \A blk \in Block : DOMAIN n.block_list[blk] = InfoField
    /\ n.cur_write_vpn \in [Type -> [block : Block, page : 0 .. LAST]]
    /\ n.writebuf_index \in [Type -> 0 .. PLANES_PER_BANK]
    /\ DOMAIN n.writebuf = Type
    /\ n.cur_vt_vpn # VC_MAX => n.cur_vt_vpn \in [block : Block, page : Nat]

\* Each block is in one list, once.
Held(n, name) == ToSet(Lists(n)[name])
Conserved(n) ==
    /\ \A name \in ListName : List(Lists(n)[name])
    /\ \A x, y \in ListName : x # y => Held(n, x) \cap Held(n, y) = {}
    /\ UNION {Held(n, name) : name \in ListName} = Block

\* The block that log pages go to stays in its list until its last page.
ActiveStays(n) ==
    LET cur == n.cur_write_vpn["RW"]
    IN  cur.page # LAST => cur.block \in ToSet(n.RW_log_list)

\* The collector sees home addresses only, in its buffer and in the spare areas.
HomeOnly(n) ==
    /\ n.GCbuf_lpn \in Seq(Home)
    /\ \A blk \in Block : \A off \in Offset : n.block_list[blk].spare[off] \in Home

\* What a victim's valid count became by the payments for others is left open.
Counted(n) ==
    \A blk \in Block : blk \notin ToSet(n.victim_list) => n.block_list[blk].vcount \in Int

\* What the write buffers of home and log pages hold, and how far they are filled.
Entry(t) ==
    IF t = "RW" THEN [req : LPN, remap : HomeLPN] ELSE [req : Home, remap : {RSP_INVALID_LPN}]
Unslotted(buf) == {pos \in DOMAIN buf : buf[pos].req \notin SlotLPN}
BuffersOK(n) ==
    /\ \A t \in Type :
        /\ DOMAIN n.writebuf[t] \subseteq 0 .. 2 * n.writebuf_index[t] - 1
        /\ \A pos \in DOMAIN n.writebuf[t] : n.writebuf[t][pos] \in Entry(t)
    /\ n.remap_inbuff_cnt = Cardinality(Unslotted(n.writebuf["RW"]))

BankInv(n) ==
    /\ BankShape(n)
    /\ Conserved(n)
    /\ ActiveStays(n)
    /\ HomeOnly(n)
    /\ Counted(n)
    /\ BuffersOK(n)

\* The bank goes from n to m without a change to what the slots depend on.
Quiet(n, m) ==
    /\ BankInv(m)
    /\ \A f \in {"RW_log_list", "cur_write_vpn", "writebuf_index"} : m[f] = n[f]
    /\ m.writebuf["RW"] = n.writebuf["RW"]
    /\ DOMAIN m.writebuf["SW"] = DOMAIN n.writebuf["SW"]
    /\ \A blk \in Block :
            m.block_list[blk].remained_remap_cnt = n.block_list[blk].remained_remap_cnt

\* What the assumptions on the constants say, as the proofs need it.
LEMMA FlashFacts ==
    /\ NumBank \in Nat /\ NumBank > 0
    /\ PLANES_PER_BANK \in Nat /\ PLANES_PER_BANK > 0
    /\ PAGES_PER_BLK \in Nat /\ PAGES_PER_BLK > 0 /\ LAST \in Nat
    /\ PhysPages \in Nat /\ SuperPage \in Nat /\ SuperPage > 0
    /\ VC_MAX \notin Block /\ VC_ERASED \in Nat
    /\ RSP_INVALID_LPN \notin LPN /\ HomeLPN \cap SlotLPN = {} /\ IsFiniteSet(SlotLPN)
    /\ IsFiniteSet(Position) /\ Position # {}
<1>1. \A n \in {NumBank, PLANES_PER_BANK, PAGES_PER_BLK, NUM_READ_PER_INCGC} : n \in Nat /\ n > 0
  BY FlashConstants DEF FlashConstants
<1>2. SuperPage \in Nat /\ SuperPage > 0
  BY <1>1 DEF SuperPage
<1>3. PhysPages \in Nat
  BY <1>1 DEF PhysPages
<1>4. IsFiniteSet(Position) /\ 0 \in Position
  <2>1. SuperPage - 1 \in Int
    BY <1>2
  <2>2. IsFiniteSet(0 .. SuperPage - 1)
    BY <2>1, FS_Interval
  <2> QED
    BY <1>2, <2>2 DEF Position
<1>5. VC_MAX \notin Block /\ VC_ERASED \in Nat
  BY NoSuchPlace DEF NoSuchPlace
<1>6. RSP_INVALID_LPN \notin LPN /\ HomeLPN \cap SlotLPN = {} /\ IsFiniteSet(SlotLPN)
  BY FlashConstants DEF FlashConstants, LPN
<1> QED
  BY <1>1, <1>2, <1>3, <1>4, <1>5, <1>6 DEF LAST

\* The lists of a bank, by their names.
LEMMA ListsAre ==
    ASSUME NEW n
    PROVE  /\ Lists(n)["data"] = n.data_list /\ Lists(n)["RW_log"] = n.RW_log_list
           /\ Lists(n)["free"] = n.free_list /\ Lists(n)["victim"] = n.victim_list
           /\ Lists(n)["GC"] = IF n.GC_BLK = VC_MAX THEN <<>> ELSE <<n.GC_BLK>>
           /\ ListName = {"data", "RW_log", "free", "victim", "GC"}
BY DEF Lists, ListName

\* Same lists, same blocks.
LEMMA ListsStay ==
    ASSUME NEW n, NEW m, Conserved(n),
           m.data_list = n.data_list, m.RW_log_list = n.RW_log_list,
           m.free_list = n.free_list, m.victim_list = n.victim_list, m.GC_BLK = n.GC_BLK
    PROVE  Conserved(m)
<1>1. Lists(m) = Lists(n)
  BY DEF Lists
<1> QED
  BY <1>1 DEF Conserved, Held

\* A block that goes from one list to another stays in one list.
LEMMA BlockMoves ==
    ASSUME NEW n, NEW m, Conserved(n), NEW x \in ListName, NEW y \in ListName, x # y,
           NEW blk \in Held(n, x),
           List(Lists(m)[x]), Held(m, x) = Held(n, x) \ {blk},
           List(Lists(m)[y]), Held(m, y) = Held(n, y) \cup {blk},
           \A z \in ListName : z \notin {x, y} => Lists(m)[z] = Lists(n)[z]
    PROVE  Conserved(m)
<1>1. \A z \in ListName : z \notin {x, y} => Held(m, z) = Held(n, z)
  BY DEF Held
<1>2. \A z \in ListName : List(Lists(m)[z])
  BY DEF Conserved
<1>3. \A z, w \in ListName : z # w => Held(m, z) \cap Held(m, w) = {}
  BY <1>1 DEF Conserved
<1>4. UNION {Held(m, z) : z \in ListName} = Block
  <2>1. \A e : (\E z \in ListName : e \in Held(m, z)) <=> (\E z \in ListName : e \in Held(n, z))
    BY <1>1
  <2> QED
    BY <2>1 DEF Conserved
<1> QED
  BY <1>2, <1>3, <1>4 DEF Conserved

\* What a list holds are blocks, and no other list holds them.
LEMMA HeldBlocks ==
    ASSUME NEW n, Conserved(n), NEW x \in ListName, NEW y \in ListName, x # y
    PROVE  /\ Held(n, x) \subseteq Block
           /\ \A blk \in Held(n, x) : blk \notin Held(n, y)
BY DEF Conserved

\* A step of the collector, or one on a home address.
LEMMA QuietStep ==
    ASSUME NEW n, NEW m, BankInv(n), Conserved(m), HomeOnly(m), Counted(m),
           DOMAIN m = BankField,
           m.cur_write_vpn = n.cur_write_vpn, m.RW_log_list = n.RW_log_list,
           m.writebuf = n.writebuf, m.writebuf_index = n.writebuf_index,
           m.remap_inbuff_cnt = n.remap_inbuff_cnt,
           m.cur_vt_vpn # VC_MAX => m.cur_vt_vpn \in [block : Block, page : Nat],
           DOMAIN m.block_list = Block,
           \A blk \in Block :
               /\ DOMAIN m.block_list[blk] = InfoField
               /\ m.block_list[blk].remained_remap_cnt = n.block_list[blk].remained_remap_cnt
    PROVE  Quiet(n, m)
<1>1. BankShape(m)
  BY DEF BankInv, BankShape
<1>2. ActiveStays(m) /\ BuffersOK(m)
  BY DEF BankInv, ActiveStays, BuffersOK
<1> QED
  BY <1>1, <1>2 DEF BankInv, Quiet

\* An entry of a queue that is replaced.
LEMMA EntryReplaced ==
    ASSUME NEW S, NEW q \in Seq(S), NEW i, NEW x \in S
    PROVE  [q EXCEPT ![i] = x] \in Seq(S)
<1>1. CASE i \in 1 .. Len(q)
  BY <1>1, ExceptSeq
<1>2. CASE i \notin 1 .. Len(q)
  <2>1. q \in [1 .. Len(q) -> S]
    BY LenProperties
  <2>2. [q EXCEPT ![i] = x] = q
    BY <1>2, <2>1
  <2> QED
    BY <2>2
<1> QED
  BY <1>1, <1>2

\* The page that is no longer the newest of its address, which may be anything.
LEMMA InvalidateIsQuiet ==
    ASSUME NEW n, BankInv(n), NEW l, NEW v
    PROVE  Quiet(n, Invalidate(n, l, v))
<1> DEFINE c == check_n_invalid_GCbuff(n, l, v.block)
           m == Invalidate(n, l, v)
<1>1. /\ DOMAIN c = BankField
      /\ \A f \in BankField \ {"GCbuf_lpn", "num_gcbuffed"} : c[f] = n[f]
      /\ c.GCbuf_lpn \in Seq(Home)
  <2> DEFINE i == SelectInSeq(n.GCbuf_lpn, LAMBDA x : x = l)
  <2>1. n.GCbuf_lpn \in Seq(Home) /\ DOMAIN n = BankField
    BY DEF BankInv, HomeOnly, BankShape
  <2> HIDE DEF i
  <2>2. [n.GCbuf_lpn EXCEPT ![i] = RSP_INVALID_LPN] \in Seq(Home)
    BY <2>1, EntryReplaced DEF Home
  <2>3. CASE i = 0
    BY <2>1, <2>3 DEF i, check_n_invalid_GCbuff
  <2>4. CASE i # 0
    <3>1. PICK k : c = [n EXCEPT !.GCbuf_lpn[i] = RSP_INVALID_LPN, !.num_gcbuffed = k]
      BY <2>4 DEF i, check_n_invalid_GCbuff
    <3> QED
      BY <2>1, <2>2, <3>1 DEF BankField
  <2> QED
    BY <2>3, <2>4
<1> HIDE DEF c
<1>2. m = [c EXCEPT !.block_list[v.block] = Unmarked(@, v.off)]
  BY DEF m, c, Invalidate
<1> HIDE DEF m
<1>3. /\ DOMAIN m = BankField
      /\ \A f \in BankField \ {"GCbuf_lpn", "num_gcbuffed", "block_list"} : m[f] = n[f]
      /\ m.GCbuf_lpn \in Seq(Home)
  BY <1>1, <1>2 DEF BankField
<1>4. c.block_list = n.block_list
  BY <1>1 DEF BankField
<1> DEFINE info == c.block_list[v.block]
           new == Unmarked(info, v.off)
<1>5. m.block_list = [c.block_list EXCEPT ![v.block] = new]
  BY <1>1, <1>2 DEF BankField
<1>6. ASSUME NEW blk \in Block
      PROVE  /\ DOMAIN m.block_list[blk] = InfoField
             /\ m.block_list[blk].remained_remap_cnt = n.block_list[blk].remained_remap_cnt
             /\ m.block_list[blk].spare = n.block_list[blk].spare
             /\ n.block_list[blk].vcount \in Int => m.block_list[blk].vcount \in Int
  <2>1. DOMAIN n.block_list[blk] = InfoField /\ DOMAIN n.block_list = Block
    BY DEF BankInv, BankShape
  <2>2. CASE blk = v.block
    <3>1. info = n.block_list[blk]
      BY <1>4, <2>2
    <3> HIDE DEF info
    <3>2. /\ DOMAIN new = InfoField /\ new.remained_remap_cnt = info.remained_remap_cnt
          /\ new.spare = info.spare /\ new.vcount = info.vcount - 1
      BY <2>1, <3>1 DEF InfoField, Unmarked
    <3> HIDE DEF new
    <3>3. m.block_list[blk] = new
      BY <1>4, <1>5, <2>1, <2>2
    <3> QED
      BY <3>1, <3>2, <3>3
  <2>3. CASE blk # v.block
    <3> HIDE DEF new
    <3>1. m.block_list[blk] = n.block_list[blk]
      BY <1>4, <1>5, <2>1, <2>3
    <3> QED
      BY <2>1, <3>1
  <2> QED
    BY <2>2, <2>3
<1>12. DOMAIN m.block_list = Block
  BY <1>4, <1>5 DEF BankInv, BankShape
<1>7. Conserved(m)
  <2>1. /\ m.data_list = n.data_list /\ m.RW_log_list = n.RW_log_list
        /\ m.free_list = n.free_list /\ m.victim_list = n.victim_list /\ m.GC_BLK = n.GC_BLK
    BY <1>3 DEF BankField
  <2> QED
    BY <2>1, ListsStay DEF BankInv
<1>8. HomeOnly(m)
  BY <1>3, <1>6 DEF BankInv, HomeOnly
<1>9. Counted(m)
  BY <1>3, <1>6 DEF BankInv, Counted, BankField
<1>10. m.cur_vt_vpn # VC_MAX => m.cur_vt_vpn \in [block : Block, page : Nat]
  BY <1>3 DEF BankInv, BankShape, BankField
<1>11. /\ m.cur_write_vpn = n.cur_write_vpn /\ m.RW_log_list = n.RW_log_list
       /\ m.writebuf = n.writebuf /\ m.writebuf_index = n.writebuf_index
       /\ m.remap_inbuff_cnt = n.remap_inbuff_cnt
  BY <1>3 DEF BankField
<1>13. Quiet(n, m)
  BY <1>3, <1>6, <1>7, <1>8, <1>9, <1>10, <1>11, <1>12, QuietStep
<1> QED
  BY <1>13 DEF m
-----------------------------------------------------------------------------
(***************************************************************************)
(* What the helpers of FTLBank do to a bank.                               *)
(***************************************************************************)
\* A step that changes block_list only, and no victim's count.
LEMMA BlockListStep ==
    ASSUME NEW n, NEW m, BankInv(n), DOMAIN m = BankField,
           \A f \in BankField \ {"block_list", "num_gcbuffed"} : m[f] = n[f],
           DOMAIN m.block_list = Block,
           \A blk \in Block :
               /\ DOMAIN m.block_list[blk] = InfoField
               /\ \A off \in Offset : m.block_list[blk].spare[off] \in Home
               /\ blk \notin ToSet(n.victim_list) => m.block_list[blk].vcount \in Int
    PROVE  BankInv(m)
<1>1. /\ m.data_list = n.data_list /\ m.RW_log_list = n.RW_log_list
      /\ m.free_list = n.free_list /\ m.victim_list = n.victim_list /\ m.GC_BLK = n.GC_BLK
      /\ m.cur_write_vpn = n.cur_write_vpn /\ m.writebuf_index = n.writebuf_index
      /\ m.writebuf = n.writebuf /\ m.cur_vt_vpn = n.cur_vt_vpn /\ m.GCbuf_lpn = n.GCbuf_lpn
      /\ m.remap_inbuff_cnt = n.remap_inbuff_cnt
  BY DEF BankField
<1>2. Conserved(m)
  BY <1>1, ListsStay DEF BankInv
<1>3. BankShape(m)
  BY <1>1 DEF BankInv, BankShape
<1>4. ActiveStays(m) /\ HomeOnly(m) /\ Counted(m) /\ BuffersOK(m)
  BY <1>1 DEF BankInv, ActiveStays, HomeOnly, Counted, BuffersOK
<1> QED
  BY <1>2, <1>3, <1>4 DEF BankInv

\* A block of log pages without slots goes to the data blocks, unless it is being filled.
LEMMA SettleKeeps ==
    ASSUME NEW n, BankInv(n), NEW blk \in Held(n, "RW_log")
    PROVE  LET m == Settle(n, blk)
           IN  /\ BankInv(m)
               /\ \A f \in {"block_list", "writebuf", "writebuf_index", "cur_write_vpn"} : m[f] = n[f]
               /\ \/ m.RW_log_list = n.RW_log_list
                  \/ /\ n.block_list[blk].remained_remap_cnt = 0
                     /\ ToSet(m.RW_log_list) = ToSet(n.RW_log_list) \ {blk}
<1> DEFINE m == Settle(n, blk)
           cur == n.cur_write_vpn["RW"]
           goes == n.block_list[blk].remained_remap_cnt = 0 /\ (cur.block = blk => cur.page = LAST)
<1>1. CASE ~goes
  <2>1. m = n
    BY <1>1 DEF Settle, LAST
  <2> QED
    BY <2>1
<1>2. CASE goes
  <2> HIDE DEF m
  <2>1. m = [n EXCEPT !.RW_log_list = RemoveFirst(@, blk), !.data_list = Append(@, blk)]
    BY <1>2 DEF m, Settle, LAST
  <2>2. /\ DOMAIN m = BankField
        /\ \A f \in BankField \ {"RW_log_list", "data_list"} : m[f] = n[f]
        /\ m.RW_log_list = RemoveFirst(n.RW_log_list, blk)
        /\ m.data_list = Append(n.data_list, blk)
    BY <2>1 DEF BankInv, BankShape, BankField
  <2>3. Conserved(n) /\ blk \in ToSet(n.RW_log_list)
    BY ListsAre DEF BankInv, Held
  <2>4. List(n.RW_log_list) /\ List(n.data_list)
    BY <2>3, ListsAre DEF Conserved
  <2>5. blk \in Block /\ blk \notin ToSet(n.data_list)
    <3>1. blk \in Block /\ blk \notin Held(n, "data")
      BY <2>3, HeldBlocks, ListsAre
    <3> QED
      BY <3>1, ListsAre DEF Held
  <2>6. List(m.RW_log_list) /\ ToSet(m.RW_log_list) = ToSet(n.RW_log_list) \ {blk}
    BY <2>2, <2>3, <2>4, ListRemove
  <2>7. List(m.data_list) /\ ToSet(m.data_list) = ToSet(n.data_list) \cup {blk}
    BY <2>2, <2>4, <2>5, ListAppend
  <2>8. m.free_list = n.free_list /\ m.victim_list = n.victim_list /\ m.GC_BLK = n.GC_BLK
    BY <2>2 DEF BankField
  <2>9. Conserved(m)
    <3>1. \A z \in ListName : z \notin {"RW_log", "data"} => Lists(m)[z] = Lists(n)[z]
      BY <2>8, ListsAre
    <3>2. List(Lists(m)["RW_log"]) /\ Held(m, "RW_log") = Held(n, "RW_log") \ {blk}
      BY <2>6, ListsAre DEF Held
    <3>3. List(Lists(m)["data"]) /\ Held(m, "data") = Held(n, "data") \cup {blk}
      BY <2>7, ListsAre DEF Held
    <3>4. "RW_log" \in ListName /\ "data" \in ListName /\ "RW_log" # "data"
      BY DEF ListName
    <3> QED
      BY <2>3, <3>1, <3>2, <3>3, <3>4, BlockMoves
  <2>10. /\ m.block_list = n.block_list /\ m.cur_write_vpn = n.cur_write_vpn
         /\ m.writebuf = n.writebuf /\ m.writebuf_index = n.writebuf_index
         /\ m.cur_vt_vpn = n.cur_vt_vpn /\ m.GCbuf_lpn = n.GCbuf_lpn
         /\ m.remap_inbuff_cnt = n.remap_inbuff_cnt
    BY <2>2 DEF BankField
  <2>11. BankShape(m)
    BY <2>2, <2>10 DEF BankInv, BankShape
  <2>12. ActiveStays(m)
    BY <1>2, <2>6, <2>10 DEF BankInv, ActiveStays
  <2>13. HomeOnly(m) /\ Counted(m) /\ BuffersOK(m)
    BY <2>8, <2>10 DEF BankInv, HomeOnly, Counted, BuffersOK
  <2>14. BankInv(m)
    BY <2>9, <2>11, <2>12, <2>13 DEF BankInv
  <2> QED
    BY <1>2, <2>6, <2>10, <2>14 DEF m
<1> QED
  BY <1>1, <1>2

\* The count of the slots in a block is set to k.
WithRemained(n, blk, k) == [n EXCEPT !.block_list[blk].remained_remap_cnt = k]

\* Nothing else of the bank changes by that.
LEMMA RemainedSet ==
    ASSUME NEW n, BankInv(n), NEW blk \in Block, NEW k
    PROVE  LET m == WithRemained(n, blk, k)
           IN  /\ BankInv(m)
               /\ \A f \in BankField \ {"block_list"} : m[f] = n[f]
               /\ m.block_list[blk].remained_remap_cnt = k
               /\ \A other \in Block : other # blk => m.block_list[other] = n.block_list[other]
<1> DEFINE m == WithRemained(n, blk, k)
           info == [n.block_list[blk] EXCEPT !.remained_remap_cnt = k]
<1>1. DOMAIN n = BankField /\ DOMAIN n.block_list = Block /\ \A b \in Block : DOMAIN n.block_list[b] = InfoField
  BY DEF BankInv, BankShape
<1>2. /\ DOMAIN m = BankField
      /\ \A f \in BankField \ {"block_list"} : m[f] = n[f]
      /\ m.block_list = [n.block_list EXCEPT ![blk] = info]
  BY <1>1 DEF BankField, WithRemained
<1> HIDE DEF m
<1>3. /\ DOMAIN info = InfoField /\ info.remained_remap_cnt = k
      /\ info.spare = n.block_list[blk].spare /\ info.vcount = n.block_list[blk].vcount
  BY <1>1 DEF InfoField
<1> HIDE DEF info
<1>4. /\ DOMAIN m.block_list = Block /\ m.block_list[blk] = info
      /\ \A other \in Block : other # blk => m.block_list[other] = n.block_list[other]
  BY <1>1, <1>2
<1>5. ASSUME NEW b \in Block
      PROVE  /\ DOMAIN m.block_list[b] = InfoField
             /\ \A off \in Offset : m.block_list[b].spare[off] \in Home
             /\ b \notin ToSet(n.victim_list) => m.block_list[b].vcount \in Int
  <2>1. /\ m.block_list[b].spare = n.block_list[b].spare
        /\ m.block_list[b].vcount = n.block_list[b].vcount
        /\ DOMAIN m.block_list[b] = InfoField
    BY <1>1, <1>3, <1>4
  <2> QED
    BY <2>1 DEF BankInv, HomeOnly, Counted
<1>6. BankInv(m)
  BY <1>2, <1>4, <1>5, BlockListStep
<1>7. /\ m.block_list[blk].remained_remap_cnt = k
      /\ \A other \in Block : other # blk => m.block_list[other] = n.block_list[other]
  BY <1>3, <1>4
<1> QED
  BY <1>2, <1>6, <1>7 DEF m

\* A slot leaves a block of log pages.
LEMMA UnpinKeeps ==
    ASSUME NEW n, BankInv(n), NEW blk \in Held(n, "RW_log")
    PROVE  LET m == Unpin(n, blk)
           IN  /\ BankInv(m)
               /\ \A f \in {"writebuf", "writebuf_index", "cur_write_vpn"} : m[f] = n[f]
               /\ m.block_list[blk].remained_remap_cnt = n.block_list[blk].remained_remap_cnt - 1
               /\ \A other \in Block : other # blk => m.block_list[other] = n.block_list[other]
               /\ \/ m.RW_log_list = n.RW_log_list
                  \/ /\ m.block_list[blk].remained_remap_cnt = 0
                     /\ ToSet(m.RW_log_list) = ToSet(n.RW_log_list) \ {blk}
<1> DEFINE k == n.block_list[blk].remained_remap_cnt - 1
           c == WithRemained(n, blk, k)
           m == Settle(c, blk)
<1>1. blk \in Block
  <2>1. Held(n, "RW_log") \subseteq Block
    BY DEF BankInv, Conserved, ListName
  <2> QED
    BY <2>1
<1>2. m = Unpin(n, blk)
  BY DEF Unpin, WithRemained
<1> HIDE DEF k
<1>3. /\ BankInv(c)
      /\ \A f \in BankField \ {"block_list"} : c[f] = n[f]
      /\ c.block_list[blk].remained_remap_cnt = k
      /\ \A other \in Block : other # blk => c.block_list[other] = n.block_list[other]
  BY <1>1, RemainedSet
<1> HIDE DEF c
<1>4. /\ c.RW_log_list = n.RW_log_list /\ c.writebuf = n.writebuf
      /\ c.writebuf_index = n.writebuf_index /\ c.cur_write_vpn = n.cur_write_vpn
  BY <1>3 DEF BankField
<1>5. blk \in Held(c, "RW_log")
  BY <1>4, ListsAre DEF Held
<1>6. /\ BankInv(m)
      /\ \A f \in {"block_list", "writebuf", "writebuf_index", "cur_write_vpn"} : m[f] = c[f]
      /\ \/ m.RW_log_list = c.RW_log_list
         \/ /\ c.block_list[blk].remained_remap_cnt = 0
            /\ ToSet(m.RW_log_list) = ToSet(c.RW_log_list) \ {blk}
  BY <1>3, <1>5, SettleKeeps
<1> HIDE DEF m
<1>7. /\ m.block_list = c.block_list /\ m.writebuf = n.writebuf
      /\ m.writebuf_index = n.writebuf_index /\ m.cur_write_vpn = n.cur_write_vpn
  BY <1>4, <1>6
<1>8. /\ m.block_list[blk].remained_remap_cnt = k
      /\ \A other \in Block : other # blk => m.block_list[other] = n.block_list[other]
      /\ \/ m.RW_log_list = n.RW_log_list
         \/ /\ m.block_list[blk].remained_remap_cnt = 0
            /\ ToSet(m.RW_log_list) = ToSet(n.RW_log_list) \ {blk}
  BY <1>3, <1>4, <1>6, <1>7
<1> QED
  BY <1>2, <1>6, <1>7, <1>8 DEF k
-----------------------------------------------------------------------------
(***************************************************************************)
(* The collector.                                                          *)
(***************************************************************************)
\* Two quiet steps are a quiet step.
LEMMA QuietTwice ==
    ASSUME NEW n, NEW c, NEW m, Quiet(n, c), Quiet(c, m)
    PROVE  Quiet(n, m)
BY DEF Quiet

\* The victim is one of the data blocks: among the candidates there is a first
\* one with the least valid count.
LEMMA VictimIsData ==
    ASSUME NEW n, BankInv(n), Candidates(n) # {}
    PROVE  get_vt_vblock(n) \in Held(n, "data") /\ ~BeingFilled(n, get_vt_vblock(n))
<1> DEFINE vcount(i) == n.block_list[n.data_list[i]].vcount
           f == [i \in Candidates(n) |-> vcount(i)]
<1>1. List(n.data_list) /\ Conserved(n)
  BY ListsAre DEF BankInv, Conserved
<1>2. PICK len \in Nat : DOMAIN n.data_list = 1 .. len
  BY <1>1, LenProperties DEF List
<1>3. Candidates(n) \subseteq 1 .. len
  BY <1>2 DEF Candidates
<1>4. \A i \in Candidates(n) : n.data_list[i] \in Held(n, "data")
  BY <1>2, <1>3, ListsAre DEF Held, ToSet
<1>5. \A i \in Candidates(n) : vcount(i) \in Int
  <2>1. \A blk \in Held(n, "data") : blk \in Block /\ blk \notin ToSet(n.victim_list)
    <3>1. /\ Held(n, "data") \subseteq Block
          /\ \A blk \in Held(n, "data") : blk \notin Held(n, "victim")
      BY <1>1, HeldBlocks, ListsAre
    <3> QED
      BY <3>1, ListsAre DEF Held
  <2> QED
    BY <1>4, <2>1 DEF BankInv, Counted
<1>6. f \in [Candidates(n) -> Int]
  BY <1>5
<1>7. \A i \in Candidates(n) : f[i] = vcount(i)
  OBVIOUS
<1> HIDE DEF f
<1>8. \E i \in Candidates(n) : \A j \in Candidates(n) \ {i} : f[i] < f[j] \/ (f[i] = f[j] /\ i < j)
  BY <1>3, <1>6, FirstOfLeast
<1>9. \E i \in Candidates(n) : \A j \in Candidates(n) \ {i} :
          \/ vcount(i) < vcount(j)
          \/ vcount(i) = vcount(j) /\ i < j
  BY <1>7, <1>8
<1> DEFINE k == CHOOSE i \in Candidates(n) : \A j \in Candidates(n) \ {i} :
                    \/ vcount(i) < vcount(j)
                    \/ vcount(i) = vcount(j) /\ i < j
<1>10. k \in Candidates(n)
  BY <1>9
<1>11. get_vt_vblock(n) = n.data_list[k]
  BY DEF get_vt_vblock
<1>12. \A i \in Candidates(n) : ~BeingFilled(n, n.data_list[i])
  BY DEF Candidates
<1> QED
  BY <1>4, <1>10, <1>11, <1>12

\* A data block becomes a victim.
LEMMA TakeVictimIsQuiet ==
    ASSUME NEW n, BankInv(n), NEW blk \in Held(n, "data")
    PROVE  Quiet(n, TakeVictim(n, blk))
<1> DEFINE m == TakeVictim(n, blk)
<1>1. DOMAIN n = BankField /\ Conserved(n)
  BY DEF BankInv, BankShape
<1>2. /\ DOMAIN m = BankField
      /\ \A f \in BankField \ {"data_list", "victim_list", "num_gcbuffed", "cur_vt_vpn"} : m[f] = n[f]
      /\ m.data_list = RemoveFirst(n.data_list, blk)
      /\ m.victim_list = Append(n.victim_list, blk)
      /\ m.cur_vt_vpn = IF n.block_list[blk].vcount = 0 THEN n.cur_vt_vpn
                        ELSE [block |-> blk, page |-> 0]
  BY <1>1 DEF TakeVictim, BankField
<1> HIDE DEF m
<1>3. /\ m.RW_log_list = n.RW_log_list /\ m.free_list = n.free_list /\ m.GC_BLK = n.GC_BLK
      /\ m.cur_write_vpn = n.cur_write_vpn /\ m.writebuf = n.writebuf
      /\ m.writebuf_index = n.writebuf_index /\ m.remap_inbuff_cnt = n.remap_inbuff_cnt
      /\ m.block_list = n.block_list /\ m.GCbuf_lpn = n.GCbuf_lpn
  BY <1>2 DEF BankField
<1>4. List(n.data_list) /\ List(n.victim_list) /\ blk \in ToSet(n.data_list)
  BY <1>1, ListsAre DEF Conserved, Held
<1>5. blk \in Block /\ blk \notin ToSet(n.victim_list)
  <2>1. blk \in Block /\ blk \notin Held(n, "victim")
    BY <1>1, HeldBlocks, ListsAre
  <2> QED
    BY <2>1, ListsAre DEF Held
<1>6. List(m.data_list) /\ ToSet(m.data_list) = ToSet(n.data_list) \ {blk}
  BY <1>2, <1>4, ListRemove
<1>7. List(m.victim_list) /\ ToSet(m.victim_list) = ToSet(n.victim_list) \cup {blk}
  BY <1>2, <1>4, <1>5, ListAppend
<1>8. Conserved(m)
  <2>1. \A z \in ListName : z \notin {"data", "victim"} => Lists(m)[z] = Lists(n)[z]
    BY <1>3, ListsAre
  <2>2. List(Lists(m)["data"]) /\ Held(m, "data") = Held(n, "data") \ {blk}
    BY <1>6, ListsAre DEF Held
  <2>3. List(Lists(m)["victim"]) /\ Held(m, "victim") = Held(n, "victim") \cup {blk}
    BY <1>7, ListsAre DEF Held
  <2>4. "victim" \in ListName /\ "data" \in ListName /\ "victim" # "data"
    BY DEF ListName
  <2> QED
    BY <1>1, <2>1, <2>2, <2>3, <2>4, BlockMoves
<1>9. HomeOnly(m) /\ Counted(m)
  BY <1>3, <1>7 DEF BankInv, HomeOnly, Counted
<1>10. m.cur_vt_vpn # VC_MAX => m.cur_vt_vpn \in [block : Block, page : Nat]
  BY <1>2, <1>5 DEF BankInv, BankShape
<1>11. DOMAIN m.block_list = Block /\ \A k \in Block : DOMAIN m.block_list[k] = InfoField
  BY <1>3 DEF BankInv, BankShape
<1>12. Quiet(n, m)
  BY <1>2, <1>3, <1>8, <1>9, <1>10, <1>11, QuietStep
<1> QED
  BY <1>12 DEF m

\* The collector's reserve becomes a data block.
LEMMA GCTargetIsQuiet ==
    ASSUME NEW n, BankInv(n), NeedsBlock(n) => n.GC_BLK # VC_MAX
    PROVE  Quiet(n, GCTarget(n))
<1> DEFINE m == GCTarget(n)
           blk == n.GC_BLK
<1>1. DOMAIN n = BankField /\ Conserved(n) /\ DOMAIN n.block_list = Block
      /\ \A k \in Block : DOMAIN n.block_list[k] = InfoField
  BY DEF BankInv, BankShape
<1>2. CASE ~NeedsBlock(n)
  <2>1. m = [n EXCEPT !.cur_gc_vpn.page = @ + 1]
    BY <1>2 DEF GCTarget
  <2> HIDE DEF m
  <2>2. DOMAIN m = BankField /\ \A f \in BankField \ {"cur_gc_vpn"} : m[f] = n[f]
    BY <1>1, <2>1 DEF BankField
  <2>3. /\ m.data_list = n.data_list /\ m.victim_list = n.victim_list
        /\ m.RW_log_list = n.RW_log_list /\ m.free_list = n.free_list /\ m.GC_BLK = n.GC_BLK
        /\ m.cur_write_vpn = n.cur_write_vpn /\ m.writebuf = n.writebuf
        /\ m.writebuf_index = n.writebuf_index /\ m.remap_inbuff_cnt = n.remap_inbuff_cnt
        /\ m.block_list = n.block_list /\ m.GCbuf_lpn = n.GCbuf_lpn
        /\ m.cur_vt_vpn = n.cur_vt_vpn
    BY <2>2 DEF BankField
  <2>4. Conserved(m)
    BY <1>1, <2>3, ListsStay
  <2>5. HomeOnly(m) /\ Counted(m) /\ (m.cur_vt_vpn # VC_MAX => m.cur_vt_vpn \in [block : Block, page : Nat])
    BY <2>3 DEF BankInv, BankShape, HomeOnly, Counted
  <2>6. Quiet(n, m)
    BY <1>1, <2>2, <2>3, <2>4, <2>5, QuietStep
  <2> QED
    BY <2>6 DEF m
<1>3. CASE NeedsBlock(n)
  <2> DEFINE info == [n.block_list[blk] EXCEPT !.vcount = 0]
  <2>1. /\ DOMAIN m = BankField
        /\ \A f \in BankField \ {"GC_BLK", "data_list", "cur_gc_vpn", "block_list"} : m[f] = n[f]
        /\ m.GC_BLK = VC_MAX
        /\ m.data_list = Append(n.data_list, blk)
        /\ m.block_list = [n.block_list EXCEPT ![blk] = info]
    BY <1>1, <1>3 DEF GCTarget, BankField
  <2> HIDE DEF m
  <2>2. /\ m.victim_list = n.victim_list
        /\ m.RW_log_list = n.RW_log_list /\ m.free_list = n.free_list
        /\ m.cur_write_vpn = n.cur_write_vpn /\ m.writebuf = n.writebuf
        /\ m.writebuf_index = n.writebuf_index /\ m.remap_inbuff_cnt = n.remap_inbuff_cnt
        /\ m.GCbuf_lpn = n.GCbuf_lpn /\ m.cur_vt_vpn = n.cur_vt_vpn
    BY <2>1 DEF BankField
  <2>3. Lists(n)["GC"] = <<blk>> /\ Held(n, "GC") = {blk}
    <3>1. Lists(n)["GC"] = <<blk>>
      BY <1>3, ListsAre
    <3> QED
      BY <3>1 DEF Held, ToSet
  <2>4. blk \in Block /\ blk \notin ToSet(n.data_list)
    <3>1. blk \in Block /\ blk \notin Held(n, "data")
      BY <1>1, <2>3, HeldBlocks, ListsAre
    <3> QED
      BY <3>1, ListsAre DEF Held
  <2>5. List(m.data_list) /\ ToSet(m.data_list) = ToSet(n.data_list) \cup {blk}
    <3>1. List(n.data_list)
      BY <1>1, ListsAre DEF Conserved
    <3> QED
      BY <2>1, <2>4, <3>1, ListAppend
  <2>6. Conserved(m)
    <3>1. \A z \in ListName : z \notin {"GC", "data"} => Lists(m)[z] = Lists(n)[z]
      BY <2>2, ListsAre
    <3>2. List(Lists(m)["GC"]) /\ Held(m, "GC") = Held(n, "GC") \ {blk}
      <4>1. Lists(m)["GC"] = <<>>
        BY <2>1, ListsAre
      <4>2. List(<<>>) /\ ToSet(<<>>) = {}
        BY EmptySeq DEF List, ToSet
      <4> QED
        BY <2>3, <4>1, <4>2 DEF Held
    <3>3. List(Lists(m)["data"]) /\ Held(m, "data") = Held(n, "data") \cup {blk}
      BY <2>5, ListsAre DEF Held
    <3>4. "GC" \in ListName /\ "data" \in ListName /\ "GC" # "data" /\ blk \in Held(n, "GC")
      BY <2>3 DEF ListName
    <3> QED
      BY <1>1, <3>1, <3>2, <3>3, <3>4, BlockMoves
  <2>7. /\ DOMAIN info = InfoField /\ info.spare = n.block_list[blk].spare /\ info.vcount = 0
        /\ info.remained_remap_cnt = n.block_list[blk].remained_remap_cnt
    BY <1>1, <2>4 DEF InfoField
  <2> HIDE DEF info
  <2>8. DOMAIN m.block_list = Block
    BY <1>1, <2>1
  <2>9. ASSUME NEW k \in Block
        PROVE  /\ DOMAIN m.block_list[k] = InfoField
               /\ m.block_list[k].remained_remap_cnt = n.block_list[k].remained_remap_cnt
               /\ m.block_list[k].spare = n.block_list[k].spare
               /\ n.block_list[k].vcount \in Int => m.block_list[k].vcount \in Int
    BY <1>1, <2>1, <2>7
  <2>10. HomeOnly(m) /\ Counted(m) /\ (m.cur_vt_vpn # VC_MAX => m.cur_vt_vpn \in [block : Block, page : Nat])
    BY <2>2, <2>9 DEF BankInv, BankShape, HomeOnly, Counted
  <2>11. Quiet(n, m)
    BY <2>1, <2>2, <2>6, <2>8, <2>9, <2>10, QuietStep
  <2> QED
    BY <2>11 DEF m
<1> QED
  BY <1>2, <1>3

\* Only victims pay.
LEMMA PaymentIsQuiet ==
    ASSUME NEW n, BankInv(n), NEW count
    PROVE  /\ Quiet(n, decrease_vcount_of_vt_block(n, count))
           /\ decrease_vcount_of_vt_block(n, count).cur_gc_vpn = n.cur_gc_vpn
<1> DEFINE m == decrease_vcount_of_vt_block(n, count)
<1>1. DOMAIN n = BankField /\ DOMAIN n.block_list = Block
      /\ \A k \in Block : DOMAIN n.block_list[k] = InfoField
  BY DEF BankInv, BankShape
<1>2. /\ DOMAIN m = BankField
      /\ \A f \in BankField \ {"block_list"} : m[f] = n[f]
      /\ m.block_list = [blk \in Block |->
              IF blk \in ToSet(n.victim_list) THEN Paid(n.block_list[blk], Payment(n, blk, count))
              ELSE n.block_list[blk]]
  BY <1>1 DEF decrease_vcount_of_vt_block, BankField
<1> HIDE DEF m
<1>3. ASSUME NEW blk \in Block
      PROVE  /\ DOMAIN m.block_list[blk] = InfoField
             /\ m.block_list[blk].remained_remap_cnt = n.block_list[blk].remained_remap_cnt
             /\ m.block_list[blk].spare = n.block_list[blk].spare
             /\ blk \notin ToSet(n.victim_list) => m.block_list[blk].vcount = n.block_list[blk].vcount
  <2> DEFINE pays == Payment(n, blk, count)
  <2> HIDE DEF pays
  <2>1. m.block_list[blk] = IF blk \in ToSet(n.victim_list) THEN Paid(n.block_list[blk], pays)
                            ELSE n.block_list[blk]
    BY <1>2 DEF pays
  <2>2. CASE blk \in ToSet(n.victim_list)
    BY <1>1, <2>1, <2>2 DEF Paid, InfoField
  <2>3. CASE blk \notin ToSet(n.victim_list)
    BY <1>1, <2>1, <2>3
  <2> QED
    BY <2>2, <2>3
<1>4. /\ m.data_list = n.data_list /\ m.victim_list = n.victim_list
      /\ m.RW_log_list = n.RW_log_list /\ m.free_list = n.free_list /\ m.GC_BLK = n.GC_BLK
      /\ m.cur_write_vpn = n.cur_write_vpn /\ m.writebuf = n.writebuf
      /\ m.writebuf_index = n.writebuf_index /\ m.remap_inbuff_cnt = n.remap_inbuff_cnt
      /\ m.GCbuf_lpn = n.GCbuf_lpn /\ m.cur_vt_vpn = n.cur_vt_vpn
      /\ m.cur_gc_vpn = n.cur_gc_vpn
  BY <1>2 DEF BankField
<1>5. Conserved(m)
  BY <1>4, ListsStay DEF BankInv
<1>6. HomeOnly(m) /\ Counted(m) /\ (m.cur_vt_vpn # VC_MAX => m.cur_vt_vpn \in [block : Block, page : Nat])
  BY <1>3, <1>4 DEF BankInv, BankShape, HomeOnly, Counted
<1>7. DOMAIN m.block_list = Block
  BY <1>2
<1>8. Quiet(n, m)
  BY <1>2, <1>3, <1>4, <1>5, <1>6, <1>7, QuietStep
<1> QED
  BY <1>4, <1>8 DEF m

\* What a program writes into the record of a block.
LEMMA ProgrammedInfo ==
    ASSUME NEW info, DOMAIN info = InfoField, NEW page, NEW buf, DOMAIN buf = Position,
           \A pos \in Position : SpareOf(buf, pos) \in Home,
           \A off \in Offset : info.spare[off] \in Home
    PROVE  LET new == Programmed(info, page, buf)
           IN  /\ DOMAIN new = InfoField
               /\ new.remained_remap_cnt = info.remained_remap_cnt
               /\ \A off \in Offset : new.spare[off] \in Home
               /\ info.vcount \in Int => new.vcount \in Int
<1> DEFINE new == Programmed(info, page, buf)
           At(off) == {pos \in Position : OffsetOf(page, pos) = off}
           spare == [off \in Offset |-> IF At(off) = {} THEN info.spare[off]
                                        ELSE SpareOf(buf, CHOOSE pos \in At(off) : TRUE)]
<1>1. PICK bitmap : new = [info EXCEPT !.vbitmap = bitmap,
                                       !.vcount = @ + Cardinality(Mapped(buf)), !.spare = spare]
  BY DEF Programmed
<1>2. Cardinality(Mapped(buf)) \in Nat
  <2>1. Mapped(buf) \in SUBSET Position
    BY DEF Mapped
  <2> QED
    BY <2>1, FlashFacts, FS_Subset, FS_CardinalityType
<1>3. \A off \in Offset : spare[off] \in Home
  <2> SUFFICES ASSUME NEW off \in Offset
               PROVE  spare[off] \in Home
    OBVIOUS
  <2>1. CASE At(off) = {}
    BY <2>1
  <2>2. CASE At(off) # {}
    <3>1. (CHOOSE pos \in At(off) : TRUE) \in Position
      BY <2>2
    <3> QED
      BY <2>2, <3>1
  <2> QED
    BY <2>1, <2>2
<1> HIDE DEF spare, new
<1>4. /\ DOMAIN new = InfoField /\ new.remained_remap_cnt = info.remained_remap_cnt
      /\ new.spare = spare /\ new.vcount = info.vcount + Cardinality(Mapped(buf))
  BY <1>1 DEF InfoField
<1> QED
  BY <1>2, <1>3, <1>4 DEF new

\* A page of a block is programmed.
PageWritten(n, blk, page, buf) == [n EXCEPT !.block_list[blk] = Programmed(@, page, buf)]

\* A program changes the record of one block, and no count of waiting pages.
LEMMA ProgramKeeps ==
    ASSUME NEW n, BankInv(n), NEW blk, NEW page, NEW buf, DOMAIN buf = Position,
           \A pos \in Position : SpareOf(buf, pos) \in Home
    PROVE  LET m == PageWritten(n, blk, page, buf)
           IN  /\ BankInv(m)
               /\ DOMAIN m = BankField
               /\ \A f \in BankField \ {"block_list"} : m[f] = n[f]
               /\ \A k \in Block : m.block_list[k].remained_remap_cnt
                                     = n.block_list[k].remained_remap_cnt
<1> DEFINE m == PageWritten(n, blk, page, buf)
           info == Programmed(n.block_list[blk], page, buf)
<1>1. DOMAIN n = BankField /\ DOMAIN n.block_list = Block
      /\ \A k \in Block : DOMAIN n.block_list[k] = InfoField
  BY DEF BankInv, BankShape
<1>2. /\ DOMAIN m = BankField
      /\ \A f \in BankField \ {"block_list"} : m[f] = n[f]
      /\ m.block_list = [n.block_list EXCEPT ![blk] = info]
  BY <1>1 DEF BankField, PageWritten
<1> HIDE DEF m
<1>3. blk \in Block =>
          /\ DOMAIN info = InfoField
          /\ info.remained_remap_cnt = n.block_list[blk].remained_remap_cnt
          /\ \A off \in Offset : info.spare[off] \in Home
          /\ n.block_list[blk].vcount \in Int => info.vcount \in Int
  <2> SUFFICES ASSUME blk \in Block
               PROVE  /\ DOMAIN info = InfoField
                      /\ info.remained_remap_cnt = n.block_list[blk].remained_remap_cnt
                      /\ \A off \in Offset : info.spare[off] \in Home
                      /\ n.block_list[blk].vcount \in Int => info.vcount \in Int
    OBVIOUS
  <2>1. DOMAIN n.block_list[blk] = InfoField /\ \A off \in Offset : n.block_list[blk].spare[off] \in Home
    BY <1>1 DEF BankInv, HomeOnly
  <2> QED
    BY <2>1, ProgrammedInfo
<1> HIDE DEF info
<1>4. \A k \in Block : m.block_list[k] = IF k = blk THEN info ELSE n.block_list[k]
  BY <1>1, <1>2
<1>5. ASSUME NEW k \in Block
      PROVE  /\ DOMAIN m.block_list[k] = InfoField
             /\ \A off \in Offset : m.block_list[k].spare[off] \in Home
             /\ k \notin ToSet(n.victim_list) => m.block_list[k].vcount \in Int
             /\ m.block_list[k].remained_remap_cnt = n.block_list[k].remained_remap_cnt
  BY <1>1, <1>3, <1>4 DEF BankInv, HomeOnly, Counted
<1>6. DOMAIN m.block_list = Block
  BY <1>1, <1>2
<1>7. BankInv(m)
  BY <1>2, <1>5, <1>6, BlockListStep
<1> QED
  BY <1>2, <1>5, <1>7 DEF m

\* The collector's buffer is written to its block.
LEMMA GCWriteIsQuiet ==
    ASSUME NEW n, BankInv(n), NEW lpns, \A i \in 1 .. SuperPage : lpns[i] \in Home,
           NeedsBlock(n) => n.GC_BLK # VC_MAX
    PROVE  Quiet(n, write_gc_buffer(n, lpns))
<1> DEFINE c == GCTarget(n)
           buf == [pos \in Position |-> [req |-> lpns[pos + 1], remap |-> RSP_INVALID_LPN]]
           count == Cardinality(Mapped(buf))
           paid == decrease_vcount_of_vt_block(c, count)
           blk == c.cur_gc_vpn.block
           page == c.cur_gc_vpn.page
           m == PageWritten(paid, blk, page, buf)
<1>1. write_gc_buffer(n, lpns) = m
  BY DEF write_gc_buffer, PageWritten
<1>2. Quiet(n, c)
  BY GCTargetIsQuiet
<1>3. Quiet(c, paid)
  BY <1>2, PaymentIsQuiet DEF Quiet
<1>4. DOMAIN buf = Position /\ \A pos \in Position : SpareOf(buf, pos) \in Home
  <2>1. \A pos \in Position : pos + 1 \in 1 .. SuperPage
    BY FlashFacts DEF Position
  <2> QED
    BY <2>1 DEF SpareOf
<1> HIDE DEF c, buf, paid, blk, page, count
<1>5. /\ BankInv(m)
      /\ DOMAIN m = BankField
      /\ \A f \in BankField \ {"block_list"} : m[f] = paid[f]
      /\ \A k \in Block : m.block_list[k].remained_remap_cnt = paid.block_list[k].remained_remap_cnt
  <2>1. BankInv(paid)
    BY <1>3 DEF Quiet
  <2> QED
    BY <1>4, <2>1, ProgramKeeps
<1> HIDE DEF m
<1>6. Quiet(paid, m)
  <2>1. /\ m.RW_log_list = paid.RW_log_list /\ m.cur_write_vpn = paid.cur_write_vpn
        /\ m.writebuf = paid.writebuf /\ m.writebuf_index = paid.writebuf_index
    BY <1>5 DEF BankField
  <2> QED
    BY <1>5, <2>1 DEF Quiet
<1>7. Quiet(n, m)
  BY <1>2, <1>3, <1>6, QuietTwice
<1> QED
  BY <1>1, <1>7

\* Pages are added to the collector's buffer, or what was written leaves it.
LEMMA BufferingIsQuiet ==
    ASSUME NEW n, BankInv(n), NEW q \in Seq(Home), NEW count
    PROVE  Quiet(n, [n EXCEPT !.GCbuf_lpn = q, !.num_gcbuffed = count])
<1> DEFINE m == [n EXCEPT !.GCbuf_lpn = q, !.num_gcbuffed = count]
<1>1. /\ DOMAIN m = BankField
      /\ \A f \in BankField \ {"GCbuf_lpn", "num_gcbuffed"} : m[f] = n[f]
      /\ m.GCbuf_lpn = q
  BY DEF BankInv, BankShape, BankField
<1> HIDE DEF m
<1>2. /\ m.data_list = n.data_list /\ m.victim_list = n.victim_list
      /\ m.RW_log_list = n.RW_log_list /\ m.free_list = n.free_list /\ m.GC_BLK = n.GC_BLK
      /\ m.cur_write_vpn = n.cur_write_vpn /\ m.writebuf = n.writebuf
      /\ m.writebuf_index = n.writebuf_index /\ m.remap_inbuff_cnt = n.remap_inbuff_cnt
      /\ m.block_list = n.block_list /\ m.cur_vt_vpn = n.cur_vt_vpn
  BY <1>1 DEF BankField
<1>3. Conserved(m)
  BY <1>2, ListsStay DEF BankInv
<1>4. HomeOnly(m) /\ Counted(m) /\ (m.cur_vt_vpn # VC_MAX => m.cur_vt_vpn \in [block : Block, page : Nat])
  BY <1>1, <1>2 DEF BankInv, BankShape, HomeOnly, Counted
<1>5. DOMAIN m.block_list = Block /\ \A k \in Block : DOMAIN m.block_list[k] = InfoField
  BY <1>2 DEF BankInv, BankShape
<1>6. Quiet(n, m)
  BY <1>1, <1>2, <1>3, <1>4, <1>5, QuietStep
<1> QED
  BY <1>6 DEF m

\* The end of a round of reading moves on in the victim, or leaves it.
LEMMA EndReadIsQuiet ==
    ASSUME NEW n, BankInv(n), NEW blk \in Block, NEW page \in Nat
    PROVE  Quiet(n, EndRead(n, blk, page))
<1> DEFINE m == EndRead(n, blk, page)
<1>1. /\ DOMAIN m = BankField
      /\ \A f \in BankField \ {"cur_vt_vpn"} : m[f] = n[f]
      /\ m.cur_vt_vpn \in {VC_MAX, [block |-> blk, page |-> page]}
  BY DEF BankInv, BankShape, BankField, EndRead
<1> HIDE DEF m
<1>2. /\ m.data_list = n.data_list /\ m.victim_list = n.victim_list
      /\ m.RW_log_list = n.RW_log_list /\ m.free_list = n.free_list /\ m.GC_BLK = n.GC_BLK
      /\ m.cur_write_vpn = n.cur_write_vpn /\ m.writebuf = n.writebuf
      /\ m.writebuf_index = n.writebuf_index /\ m.remap_inbuff_cnt = n.remap_inbuff_cnt
      /\ m.block_list = n.block_list /\ m.GCbuf_lpn = n.GCbuf_lpn
  BY <1>1 DEF BankField
<1>3. Conserved(m)
  BY <1>2, ListsStay DEF BankInv
<1>4. HomeOnly(m) /\ Counted(m) /\ (m.cur_vt_vpn # VC_MAX => m.cur_vt_vpn \in [block : Block, page : Nat])
  BY <1>1, <1>2 DEF BankInv, BankShape, HomeOnly, Counted
<1>5. DOMAIN m.block_list = Block /\ \A k \in Block : DOMAIN m.block_list[k] = InfoField
  BY <1>2 DEF BankInv, BankShape
<1>6. Quiet(n, m)
  BY <1>1, <1>2, <1>3, <1>4, <1>5, QuietStep
<1> QED
  BY <1>6 DEF m

\* An erased victim becomes free.
LEMMA ReclaimOnlyIsQuiet ==
    ASSUME NEW n, BankInv(n), NEW vt \in Held(n, "victim")
    PROVE  /\ Quiet(n, ReclaimOnly(n, vt))
           /\ ReclaimOnly(n, vt).free_list = Append(n.free_list, vt)
           /\ ReclaimOnly(n, vt).GC_BLK = n.GC_BLK
<1> DEFINE m == ReclaimOnly(n, vt)
           old == n.block_list[vt]
           info == [Erased(VC_ERASED) EXCEPT !.vbitmap = old.vbitmap,
                                             !.remained_remap_cnt = old.remained_remap_cnt]
<1>1. DOMAIN n = BankField /\ Conserved(n) /\ DOMAIN n.block_list = Block
      /\ \A k \in Block : DOMAIN n.block_list[k] = InfoField
  BY DEF BankInv, BankShape
<1>2. /\ DOMAIN m = BankField
      /\ \A f \in BankField \ {"block_list", "cur_vt_vpn", "victim_list", "free_list"} : m[f] = n[f]
      /\ m.block_list = [n.block_list EXCEPT ![vt] = info]
      /\ m.cur_vt_vpn \in {VC_MAX, n.cur_vt_vpn}
      /\ m.victim_list = RemoveFirst(n.victim_list, vt)
      /\ m.free_list = Append(n.free_list, vt)
  BY <1>1 DEF ReclaimOnly, BankField
<1> HIDE DEF m
<1>3. /\ m.data_list = n.data_list /\ m.RW_log_list = n.RW_log_list /\ m.GC_BLK = n.GC_BLK
      /\ m.cur_write_vpn = n.cur_write_vpn /\ m.writebuf = n.writebuf
      /\ m.writebuf_index = n.writebuf_index /\ m.remap_inbuff_cnt = n.remap_inbuff_cnt
      /\ m.GCbuf_lpn = n.GCbuf_lpn
  BY <1>2 DEF BankField
<1>4. List(n.free_list) /\ List(n.victim_list) /\ vt \in ToSet(n.victim_list)
  BY <1>1, ListsAre DEF Conserved, Held
<1>5. vt \in Block /\ vt \notin ToSet(n.free_list)
  <2>1. vt \in Block /\ vt \notin Held(n, "free")
    BY <1>1, HeldBlocks, ListsAre
  <2> QED
    BY <2>1, ListsAre DEF Held
<1>6. List(m.victim_list) /\ ToSet(m.victim_list) = ToSet(n.victim_list) \ {vt}
  BY <1>2, <1>4, ListRemove
<1>7. List(m.free_list) /\ ToSet(m.free_list) = ToSet(n.free_list) \cup {vt}
  BY <1>2, <1>4, <1>5, ListAppend
<1>8. Conserved(m)
  <2>1. \A z \in ListName : z \notin {"free", "victim"} => Lists(m)[z] = Lists(n)[z]
    BY <1>3, ListsAre
  <2>2. List(Lists(m)["victim"]) /\ Held(m, "victim") = Held(n, "victim") \ {vt}
    BY <1>6, ListsAre DEF Held
  <2>3. List(Lists(m)["free"]) /\ Held(m, "free") = Held(n, "free") \cup {vt}
    BY <1>7, ListsAre DEF Held
  <2>4. "victim" \in ListName /\ "free" \in ListName /\ "victim" # "free"
    BY DEF ListName
  <2> QED
    BY <1>1, <2>1, <2>2, <2>3, <2>4, BlockMoves
<1>9. /\ DOMAIN info = InfoField /\ info.vcount = VC_ERASED
      /\ info.remained_remap_cnt = old.remained_remap_cnt
      /\ \A off \in Offset : info.spare[off] = RSP_INVALID_LPN
  BY DEF Erased, InfoField
<1> HIDE DEF info
<1>10. DOMAIN m.block_list = Block /\ \A k \in Block : m.block_list[k] = IF k = vt THEN info ELSE n.block_list[k]
  BY <1>1, <1>2
<1>11. ASSUME NEW k \in Block
       PROVE  /\ DOMAIN m.block_list[k] = InfoField
              /\ m.block_list[k].remained_remap_cnt = n.block_list[k].remained_remap_cnt
              /\ \A off \in Offset : m.block_list[k].spare[off] \in Home
              /\ k \notin ToSet(m.victim_list) => m.block_list[k].vcount \in Int
  <2>1. VC_ERASED \in Int
    BY FlashFacts
  <2>2. CASE k = vt
    BY <1>9, <1>10, <2>1, <2>2 DEF Home
  <2>3. CASE k # vt
    BY <1>1, <1>6, <1>10, <2>3 DEF BankInv, HomeOnly, Counted
  <2> QED
    BY <2>2, <2>3
<1>12. HomeOnly(m) /\ Counted(m)
  BY <1>3, <1>11 DEF BankInv, HomeOnly, Counted
<1>13. m.cur_vt_vpn # VC_MAX => m.cur_vt_vpn \in [block : Block, page : Nat]
  BY <1>2 DEF BankInv, BankShape
<1>14. Quiet(n, m)
  BY <1>2, <1>3, <1>8, <1>10, <1>11, <1>12, <1>13, QuietStep
<1> QED
  BY <1>2, <1>3, <1>14 DEF m

\* The collector takes a reserve from the free blocks.
LEMMA ReclaimIsQuiet ==
    ASSUME NEW n, BankInv(n), NEW vt \in Held(n, "victim"), n.GC_BLK # VC_MAX \/ n.free_list # <<>>
    PROVE  Quiet(n, Reclaim(n, vt))
<1> DEFINE c == ReclaimOnly(n, vt)
<1>1. Quiet(n, c) /\ c.free_list = Append(n.free_list, vt) /\ c.GC_BLK = n.GC_BLK
  BY ReclaimOnlyIsQuiet
<1> HIDE DEF c
<1>2. CASE n.GC_BLK # VC_MAX
  BY <1>1, <1>2 DEF Reclaim, c
<1>3. CASE n.GC_BLK = VC_MAX
  <2> DEFINE blk == Head(n.free_list)
             m == [c EXCEPT !.GC_BLK = blk, !.free_list = Tail(@)]
  <2>1. Reclaim(n, vt) = m
    BY <1>3 DEF Reclaim, c
  <2>2. BankInv(c) /\ DOMAIN c = BankField /\ Conserved(c)
    BY <1>1 DEF Quiet, BankInv, BankShape
  <2>3. List(c.free_list) /\ List(n.free_list)
    BY <2>2, ListsAre DEF Conserved, BankInv
  <2>4. c.free_list # <<>> /\ Head(c.free_list) = blk
    <3>1. n.free_list \in Seq(Block) /\ vt \in Block
      <4>1. Held(n, "victim") \subseteq Block
        BY DEF BankInv, Conserved, ListName
      <4> QED
        BY <2>3, <4>1 DEF List
    <3> QED
      BY <1>1, <1>3, <3>1, HeadTailAppend, AppendProperties
  <2>5. /\ DOMAIN m = BankField
        /\ \A f \in BankField \ {"GC_BLK", "free_list"} : m[f] = c[f]
        /\ m.GC_BLK = blk
        /\ m.free_list = Tail(c.free_list)
    BY <2>2 DEF BankField
  <2> HIDE DEF m, blk
  <2>6. /\ m.data_list = c.data_list /\ m.victim_list = c.victim_list
        /\ m.RW_log_list = c.RW_log_list
        /\ m.cur_write_vpn = c.cur_write_vpn /\ m.writebuf = c.writebuf
        /\ m.writebuf_index = c.writebuf_index /\ m.remap_inbuff_cnt = c.remap_inbuff_cnt
        /\ m.block_list = c.block_list /\ m.GCbuf_lpn = c.GCbuf_lpn
        /\ m.cur_vt_vpn = c.cur_vt_vpn
    BY <2>5 DEF BankField
  <2>7. blk \in ToSet(c.free_list) /\ List(m.free_list) /\ ToSet(m.free_list) = ToSet(c.free_list) \ {blk}
    BY <2>3, <2>4, <2>5, ListTail
  <2>8. blk \in Block /\ blk # VC_MAX
    <3>1. Held(c, "free") \subseteq Block /\ Held(c, "free") = ToSet(c.free_list)
      BY <2>2, ListsAre DEF Conserved, Held
    <3> QED
      BY <2>7, <3>1, FlashFacts
  <2>9. Conserved(m)
    <3>1. \A z \in ListName : z \notin {"GC", "free"} => Lists(m)[z] = Lists(c)[z]
      BY <2>6, ListsAre
    <3>2. Lists(m)["GC"] = <<blk>> /\ Lists(c)["GC"] = <<>>
      BY <1>1, <1>3, <2>5, <2>8, ListsAre
    <3>3. List(<<blk>>) /\ ToSet(<<blk>>) = {blk} /\ ToSet(<<>>) = {}
      BY <2>8 DEF List, ToSet
    <3>4. List(Lists(m)["GC"]) /\ Held(m, "GC") = Held(c, "GC") \cup {blk}
      BY <3>2, <3>3 DEF Held
    <3>5. List(Lists(m)["free"]) /\ Held(m, "free") = Held(c, "free") \ {blk}
      BY <2>7, ListsAre DEF Held
    <3>6. "GC" \in ListName /\ "free" \in ListName /\ "GC" # "free" /\ blk \in Held(c, "free")
      BY <2>7, ListsAre DEF Held, ListName
    <3> QED
      BY <2>2, <3>1, <3>4, <3>5, <3>6, BlockMoves
  <2>10. HomeOnly(m) /\ Counted(m) /\ (m.cur_vt_vpn # VC_MAX => m.cur_vt_vpn \in [block : Block, page : Nat])
    BY <2>2, <2>6 DEF BankInv, BankShape, HomeOnly, Counted
  <2>11. DOMAIN m.block_list = Block /\ \A k \in Block : DOMAIN m.block_list[k] = InfoField
    BY <2>2, <2>6 DEF BankInv, BankShape
  <2>12. Quiet(c, m)
    BY <2>2, <2>5, <2>6, <2>9, <2>10, <2>11, QuietStep
  <2>13. Quiet(n, m)
    BY <1>1, <2>12, QuietTwice
  <2> QED
    BY <2>1, <2>13
<1> QED
  BY <1>2, <1>3
-----------------------------------------------------------------------------
(***************************************************************************)
(* The slots of the log: where the map leads for them, given the banks.    *)
(***************************************************************************)
\* The bank goes from n to m, perhaps with a change to a write buffer of home
\* addresses.
SlotQuiet(n, m) ==
    /\ BankInv(m)
    /\ ToSet(m.RW_log_list) = ToSet(n.RW_log_list)
    /\ m.writebuf["RW"] = n.writebuf["RW"]
    /\ \A blk \in Block :
            m.block_list[blk].remained_remap_cnt = n.block_list[blk].remained_remap_cnt

InLogBlock(banks, v) ==
    \E b \in Bank : \E blk \in ToSet(banks[b].RW_log_list), off \in Offset : v = Flash(b, blk, off)
InLogBuffer(banks, v, s) ==
    \E b \in Bank : \E pos \in DOMAIN banks[b].writebuf["RW"] :
        v = Buffered(b, "RW", pos) /\ banks[b].writebuf["RW"][pos].req = s
BufferMaps(banks, map) ==
    \A b \in Bank : \A pos \in DOMAIN banks[b].writebuf["RW"] :
        LET s == banks[b].writebuf["RW"][pos].req
        IN  s \in SlotLPN => map[s] = Buffered(b, "RW", pos)
MappedIn(map, b, blk) ==
    {s \in SlotLPN : InFlash(map[s]) /\ map[s].bank = b /\ map[s].block = blk}

\* A slot is in a block of log pages, in a write buffer, or nowhere, and the
\* counts of its block know of it.
SlotInv(banks, map) ==
    /\ \A b \in Bank : BankInv(banks[b])
    /\ \A s \in SlotLPN :
            map[s] = VC_MAX \/ InLogBlock(banks, map[s]) \/ InLogBuffer(banks, map[s], s)
    /\ BufferMaps(banks, map)
    /\ \A b \in Bank, blk \in Block :
            banks[b].block_list[blk].remained_remap_cnt = Cardinality(MappedIn(map, b, blk))

\* What the places are told apart by.
LEMMA FlashPlace ==
    ASSUME NEW b \in Bank, NEW blk \in Block, NEW off \in Offset
    PROVE  LET v == Flash(b, blk, off)
           IN  /\ v # VC_MAX /\ InFlash(v) /\ ~is_in_write_buffer(v)
               /\ v.bank = b /\ v.block = blk /\ v.off = off
<1>1. Flash(b, blk, off) \in VPN
  BY DEF Flash, VPN
<1>2. Flash(b, blk, off) # VC_MAX
  BY <1>1, NoSuchPlace DEF NoSuchPlace
<1>3. DOMAIN Flash(b, blk, off) = {"bank", "block", "off"}
  BY DEF Flash
<1> QED
  BY <1>2, <1>3 DEF Flash, InFlash, is_in_write_buffer

\* The same for a place in a write buffer.
LEMMA BufferPlace ==
    ASSUME NEW b \in Bank, NEW t \in Type, NEW pos \in Position
    PROVE  LET v == Buffered(b, t, pos)
           IN  /\ v # VC_MAX /\ ~InFlash(v) /\ is_in_write_buffer(v)
               /\ v.bank = b /\ v.type = t /\ v.pos = pos
<1>1. Buffered(b, t, pos) \in BufferVPN
  BY DEF Buffered, BufferVPN
<1>2. Buffered(b, t, pos) # VC_MAX
  BY <1>1, NoSuchPlace DEF NoSuchPlace
<1>3. DOMAIN Buffered(b, t, pos) = {"bank", "type", "pos"}
  BY DEF Buffered
<1> QED
  BY <1>2, <1>3 DEF Buffered, InFlash, is_in_write_buffer

\* The positions of a write buffer are positions.
LEMMA BufferPositions ==
    ASSUME NEW n, BankInv(n), NEW t \in Type
    PROVE  /\ DOMAIN n.writebuf[t] \subseteq Position
           /\ n.writebuf_index[t] \in 0 .. PLANES_PER_BANK
<1>1. n.writebuf_index[t] \in 0 .. PLANES_PER_BANK
  BY DEF BankInv, BankShape
<1>2. DOMAIN n.writebuf[t] \subseteq 0 .. 2 * n.writebuf_index[t] - 1
  BY DEF BankInv, BuffersOK
<1>3. \A k \in 0 .. PLANES_PER_BANK : 0 .. 2 * k - 1 \subseteq Position
  BY FlashFacts DEF Position, SuperPage
<1> QED
  BY <1>1, <1>2, <1>3

\* The slots stay as they are.
LEMMA QuietSlots ==
    ASSUME NEW banks, NEW map, SlotInv(banks, map), NEW b \in Bank,
           NEW banks2, SlotQuiet(banks[b], banks2[b]),
           \A c \in Bank : c # b => banks2[c] = banks[c],
           NEW map2, \A s \in SlotLPN : map2[s] = map[s]
    PROVE  SlotInv(banks2, map2)
<1>1. ASSUME NEW c \in Bank
      PROVE  /\ BankInv(banks2[c])
             /\ ToSet(banks2[c].RW_log_list) = ToSet(banks[c].RW_log_list)
             /\ banks2[c].writebuf["RW"] = banks[c].writebuf["RW"]
             /\ \A blk \in Block : banks2[c].block_list[blk].remained_remap_cnt
                                   = banks[c].block_list[blk].remained_remap_cnt
  <2>1. CASE c = b
    BY <2>1 DEF SlotQuiet
  <2>2. CASE c # b
    BY <2>2 DEF SlotInv
  <2> QED
    BY <2>1, <2>2
<1>2. \A s \in SlotLPN :
          map2[s] = VC_MAX \/ InLogBlock(banks2, map2[s]) \/ InLogBuffer(banks2, map2[s], s)
  <2>1. \A v : InLogBlock(banks2, v) <=> InLogBlock(banks, v)
    BY <1>1 DEF InLogBlock
  <2>2. \A v, s : InLogBuffer(banks2, v, s) <=> InLogBuffer(banks, v, s)
    BY <1>1 DEF InLogBuffer
  <2> QED
    BY <2>1, <2>2 DEF SlotInv
<1>3. BufferMaps(banks2, map2)
  BY <1>1 DEF SlotInv, BufferMaps
<1>4. \A c \in Bank, blk \in Block : MappedIn(map2, c, blk) = MappedIn(map, c, blk)
  BY DEF MappedIn
<1> QED
  BY <1>1, <1>2, <1>3, <1>4 DEF SlotInv

\* A slot's page in a block of log pages is remapped or superseded.
LEMMA SlotLeavesFlash ==
    ASSUME NEW banks, NEW map, SlotInv(banks, map), NEW s \in SlotLPN, InLogBlock(banks, map[s]),
           NEW banks2, banks2[map[s].bank] = Unpin(banks[map[s].bank], map[s].block),
           \A c \in Bank : c # map[s].bank => banks2[c] = banks[c],
           NEW map2, map2[s] = VC_MAX, \A x \in SlotLPN : x # s => map2[x] = map[x]
    PROVE  /\ SlotInv(banks2, map2)
           /\ \A c \in Bank : /\ banks2[c].writebuf = banks[c].writebuf
                             /\ banks2[c].writebuf_index = banks[c].writebuf_index
<1>0. PICK b \in Bank : \E blk \in ToSet(banks[b].RW_log_list), off \in Offset : map[s] = Flash(b, blk, off)
  BY DEF InLogBlock
<1>1. PICK blk \in ToSet(banks[b].RW_log_list), off \in Offset : map[s] = Flash(b, blk, off)
  BY <1>0
<1> DEFINE n == banks[b]
           m == banks2[b]
<1>2. BankInv(n)
  BY DEF SlotInv
<1>3. blk \in Held(n, "RW_log") /\ blk \in Block
  <2>1. Held(n, "RW_log") \subseteq Block
    BY <1>2 DEF BankInv, Conserved, ListName
  <2> QED
    BY <2>1, ListsAre DEF Held
<1>4. map[s] # VC_MAX /\ InFlash(map[s]) /\ map[s].bank = b /\ map[s].block = blk
  BY <1>1, <1>3, FlashPlace
<1>5. m = Unpin(n, blk) /\ \A c \in Bank : c # b => banks2[c] = banks[c]
  BY <1>4
<1>6. /\ BankInv(m) /\ m.writebuf = n.writebuf /\ m.writebuf_index = n.writebuf_index
      /\ m.block_list[blk].remained_remap_cnt = n.block_list[blk].remained_remap_cnt - 1
      /\ \A other \in Block : other # blk => m.block_list[other] = n.block_list[other]
      /\ \/ m.RW_log_list = n.RW_log_list
         \/ /\ m.block_list[blk].remained_remap_cnt = 0
            /\ ToSet(m.RW_log_list) = ToSet(n.RW_log_list) \ {blk}
  BY <1>2, <1>3, <1>5, UnpinKeeps
<1>7. \A c \in Bank : BankInv(banks2[c])
  BY <1>5, <1>6 DEF SlotInv
<1>8. ASSUME NEW c \in Bank, NEW k \in Block
      PROVE  /\ banks2[c].block_list[k].remained_remap_cnt = Cardinality(MappedIn(map2, c, k))
             /\ IsFiniteSet(MappedIn(map2, c, k))
  <2>1. IsFiniteSet(MappedIn(map, c, k)) /\ IsFiniteSet(MappedIn(map2, c, k))
    <3>1. MappedIn(map, c, k) \in SUBSET SlotLPN /\ MappedIn(map2, c, k) \in SUBSET SlotLPN
      BY DEF MappedIn
    <3> QED
      BY <3>1, FlashFacts, FS_Subset
  <2>2. ~InFlash(map2[s])
    BY DEF InFlash
  <2>3. CASE c = b /\ k = blk
    <3>1. s \in MappedIn(map, b, blk)
      BY <1>4 DEF MappedIn
    <3>2. MappedIn(map2, b, blk) = MappedIn(map, b, blk) \ {s}
      BY <2>2 DEF MappedIn
    <3>3. Cardinality(MappedIn(map2, b, blk)) = Cardinality(MappedIn(map, b, blk)) - 1
      BY <2>1, <2>3, <3>1, <3>2, FS_RemoveElement
    <3>4. n.block_list[blk].remained_remap_cnt = Cardinality(MappedIn(map, b, blk))
      BY <1>3 DEF SlotInv
    <3> QED
      BY <1>6, <2>1, <2>3, <3>3, <3>4
  <2>4. CASE ~(c = b /\ k = blk)
    <3>1. MappedIn(map2, c, k) = MappedIn(map, c, k)
      BY <1>4, <2>2, <2>4 DEF MappedIn
    <3>2. banks2[c].block_list[k] = banks[c].block_list[k]
      BY <1>5, <1>6, <2>4
    <3> QED
      BY <2>1, <3>1, <3>2 DEF SlotInv
  <2> QED
    BY <2>3, <2>4
<1>9. ASSUME NEW x \in SlotLPN
      PROVE  map2[x] = VC_MAX \/ InLogBlock(banks2, map2[x]) \/ InLogBuffer(banks2, map2[x], x)
  <2>1. CASE x = s
    BY <2>1
  <2>2. CASE x # s /\ InLogBlock(banks, map[x])
    <3>0. PICK c \in Bank : \E k \in ToSet(banks[c].RW_log_list), y \in Offset : map[x] = Flash(c, k, y)
      BY <2>2 DEF InLogBlock
    <3>1. PICK k \in ToSet(banks[c].RW_log_list), y \in Offset : map[x] = Flash(c, k, y)
      BY <3>0
    <3>2. k \in Block
      <4>1. Held(banks[c], "RW_log") \subseteq Block
        BY DEF SlotInv, BankInv, Conserved, ListName
      <4> QED
        BY <4>1, ListsAre DEF Held
    <3>3. InFlash(map[x]) /\ map[x].bank = c /\ map[x].block = k
      BY <3>1, <3>2, FlashPlace
    <3>4. k \in ToSet(banks2[c].RW_log_list)
      <4>1. CASE c # b
        BY <1>5, <4>1
      <4>2. CASE c = b /\ m.RW_log_list = n.RW_log_list
        BY <4>2
      <4>3. CASE c = b /\ m.block_list[blk].remained_remap_cnt = 0
                 /\ ToSet(m.RW_log_list) = ToSet(n.RW_log_list) \ {blk}
        <5>1. Cardinality(MappedIn(map2, b, blk)) = 0 /\ IsFiniteSet(MappedIn(map2, b, blk))
          BY <1>3, <1>8, <4>3
        <5>2. MappedIn(map2, b, blk) = {}
          BY <5>1, FS_EmptySet
        <5>3. k # blk
          BY <2>2, <3>3, <4>3, <5>2 DEF MappedIn
        <5> QED
          BY <4>3, <5>3
      <4> QED
        BY <1>6, <4>1, <4>2, <4>3
    <3> QED
      BY <2>2, <3>1, <3>4 DEF InLogBlock
  <2>3. CASE x # s /\ InLogBuffer(banks, map[x], x)
    <3>1. \A c \in Bank : banks2[c].writebuf = banks[c].writebuf
      BY <1>5, <1>6
    <3> QED
      BY <2>3, <3>1 DEF InLogBuffer
  <2> QED
    BY <2>1, <2>2, <2>3 DEF SlotInv
<1>10. BufferMaps(banks2, map2)
  <2>1. \A c \in Bank : banks2[c].writebuf = banks[c].writebuf
    BY <1>5, <1>6
  <2>2. ASSUME NEW c \in Bank, NEW pos \in DOMAIN banks[c].writebuf["RW"],
               banks[c].writebuf["RW"][pos].req = s
        PROVE  FALSE
    <3>1. map[s] = Buffered(c, "RW", pos)
      BY <2>2 DEF SlotInv, BufferMaps
    <3>2. pos \in Position
      BY BufferPositions DEF SlotInv, Type
    <3> QED
      BY <1>4, <3>1, <3>2, BufferPlace DEF Type
  <2> QED
    BY <2>1, <2>2 DEF SlotInv, BufferMaps
<1>11. \A c \in Bank : /\ banks2[c].writebuf = banks[c].writebuf
                       /\ banks2[c].writebuf_index = banks[c].writebuf_index
  BY <1>5, <1>6
<1> QED
  BY <1>7, <1>8, <1>9, <1>10, <1>11 DEF SlotInv
-----------------------------------------------------------------------------
(***************************************************************************)
(* The steps of a write and of a remap on the banks.                       *)
(***************************************************************************)
\* The positions that are filled are the same.
BuffersStay(banks, new) ==
    /\ DOMAIN new = Bank
    /\ \A b \in Bank : /\ new[b].writebuf_index = banks[b].writebuf_index
                       /\ \A t \in Type : DOMAIN new[b].writebuf[t] = DOMAIN banks[b].writebuf[t]

\* Two steps that fill no position are one.
LEMMA StayTwice ==
    ASSUME NEW banks, NEW mid, NEW new, BuffersStay(banks, mid), BuffersStay(mid, new)
    PROVE  BuffersStay(banks, new)
BY DEF BuffersStay

\* A bank goes through a quiet step.
LEMMA QuietBank ==
    ASSUME NEW banks, NEW map, SlotInv(banks, map), DOMAIN banks = Bank,
           NEW b, NEW m, b \in Bank => Quiet(banks[b], m),
           NEW map2, \A s \in SlotLPN : map2[s] = map[s]
    PROVE  LET new == [banks EXCEPT ![b] = m]
           IN  SlotInv(new, map2) /\ BuffersStay(banks, new)
<1> DEFINE new == [banks EXCEPT ![b] = m]
<1>1. DOMAIN new = Bank /\ \A c \in Bank : new[c] = IF c = b THEN m ELSE banks[c]
  OBVIOUS
<1> HIDE DEF new
<1>2. CASE b \in Bank
  <2>1. SlotQuiet(banks[b], new[b]) /\ \A c \in Bank : c # b => new[c] = banks[c]
    BY <1>1, <1>2 DEF Quiet, SlotQuiet
  <2>2. SlotInv(new, map2)
    BY <1>2, <2>1, QuietSlots
  <2>3. BuffersStay(banks, new)
    <3>1. ASSUME NEW c \in Bank
          PROVE  /\ new[c].writebuf_index = banks[c].writebuf_index
                 /\ \A t \in Type : DOMAIN new[c].writebuf[t] = DOMAIN banks[c].writebuf[t]
      BY <1>1, <1>2 DEF Quiet, Type
    <3> QED
      BY <1>1, <3>1 DEF BuffersStay
  <2> QED
    BY <2>2, <2>3 DEF new
<1>3. CASE b \notin Bank
  <2>1. \A c \in Bank : new[c] = banks[c]
    BY <1>1, <1>3
  <2>5. 0 \in Bank
    BY FlashFacts DEF Bank
  <2>2. SlotQuiet(banks[0], new[0]) /\ \A c \in Bank : c # 0 => new[c] = banks[c]
    BY <2>1, <2>5 DEF SlotInv, SlotQuiet
  <2>4. SlotInv(new, map2)
    BY <2>2, <2>5, QuietSlots
  <2> QED
    BY <1>1, <2>1, <2>4 DEF BuffersStay, new
<1> QED
  BY <1>2, <1>3

\* A page in flash, if there is one, is no longer the newest of its address.
LEMMA InvalidateStep ==
    ASSUME NEW banks, NEW map, SlotInv(banks, map), DOMAIN banks = Bank, NEW l, NEW v
    PROVE  LET new == [banks EXCEPT ![v.bank] = Invalidate(@, l, v)]
           IN  SlotInv(new, map) /\ BuffersStay(banks, new)
<1> DEFINE b == v.bank
           m == Invalidate(banks[b], l, v)
           new == [banks EXCEPT ![b] = m]
<1>1. b \in Bank => Quiet(banks[b], m)
  BY InvalidateIsQuiet DEF SlotInv
<1> HIDE DEF m, b
<1>2. SlotInv(new, map) /\ BuffersStay(banks, new)
  BY <1>1, QuietBank
<1> QED
  BY <1>2 DEF m, b

\* A page of a home address in a write buffer of home addresses is dropped.
LEMMA DropBuffered ==
    ASSUME NEW banks, NEW map, SlotInv(banks, map), DOMAIN banks = Bank, NEW b, NEW pos
    PROVE  LET new == [banks EXCEPT ![b].writebuf["SW"][pos].req = RSP_INVALID_LPN]
           IN  SlotInv(new, map) /\ BuffersStay(banks, new)
<1> DEFINE n == banks[b]
           buf == n.writebuf["SW"]
           entry == [buf[pos] EXCEPT !.req = RSP_INVALID_LPN]
           buf2 == [buf EXCEPT ![pos] = entry]
           m == [n EXCEPT !.writebuf["SW"] = buf2]
<1>1. CASE b \notin Bank
  <2>1. [banks EXCEPT ![b].writebuf["SW"][pos].req = RSP_INVALID_LPN] = [banks EXCEPT ![b] = m]
    BY <1>1
  <2>2. SlotInv([banks EXCEPT ![b] = m], map) /\ BuffersStay(banks, [banks EXCEPT ![b] = m])
    BY <1>1, QuietBank
  <2> QED
    BY <2>1, <2>2
<1>2. CASE b \in Bank
  <2>1. BankInv(n)
    BY <1>2 DEF SlotInv
  <2>2. DOMAIN n = BankField /\ DOMAIN n.writebuf = Type
    BY <2>1 DEF BankInv, BankShape
  <2>3. m.writebuf = [n.writebuf EXCEPT !["SW"] = buf2]
    BY <2>2 DEF BankField
  <2>4. /\ DOMAIN m = BankField
        /\ \A f \in BankField \ {"writebuf"} : m[f] = n[f]
    BY <2>2 DEF BankField
  <2>5. DOMAIN buf2 = DOMAIN buf /\ \A p \in DOMAIN buf : buf2[p] = IF p = pos THEN entry ELSE buf[p]
    OBVIOUS
  <2>6. \A p \in DOMAIN buf : buf2[p] \in Entry("SW")
    <3>1. \A p \in DOMAIN buf : buf[p] \in [req : Home, remap : {RSP_INVALID_LPN}]
      BY <2>1 DEF BankInv, BuffersOK, Entry, Type
    <3>2. pos \in DOMAIN buf => entry \in [req : Home, remap : {RSP_INVALID_LPN}]
      BY <3>1 DEF Home
    <3> HIDE DEF buf2, entry
    <3> QED
      BY <2>5, <3>1, <3>2 DEF Entry
  <2> HIDE DEF buf2, m
  <2>7. m.writebuf["SW"] = buf2 /\ m.writebuf["RW"] = n.writebuf["RW"] /\ DOMAIN m.writebuf = Type
    BY <2>2, <2>3 DEF Type
  <2>8. /\ m.data_list = n.data_list /\ m.victim_list = n.victim_list
        /\ m.RW_log_list = n.RW_log_list /\ m.free_list = n.free_list /\ m.GC_BLK = n.GC_BLK
        /\ m.cur_write_vpn = n.cur_write_vpn /\ m.GCbuf_lpn = n.GCbuf_lpn
        /\ m.writebuf_index = n.writebuf_index /\ m.remap_inbuff_cnt = n.remap_inbuff_cnt
        /\ m.block_list = n.block_list /\ m.cur_vt_vpn = n.cur_vt_vpn
    BY <2>4 DEF BankField
  <2>9. BankShape(m)
    BY <2>1, <2>4, <2>7, <2>8 DEF BankInv, BankShape
  <2>10. Conserved(m)
    BY <2>1, <2>8, ListsStay DEF BankInv
  <2>11. ActiveStays(m) /\ HomeOnly(m) /\ Counted(m)
    BY <2>1, <2>8 DEF BankInv, ActiveStays, HomeOnly, Counted
  <2>12. BuffersOK(m)
    <3>1. ASSUME NEW t \in Type
          PROVE  /\ DOMAIN m.writebuf[t] \subseteq 0 .. 2 * m.writebuf_index[t] - 1
                 /\ \A p \in DOMAIN m.writebuf[t] : m.writebuf[t][p] \in Entry(t)
      <4>1. CASE t = "SW"
        BY <2>1, <2>5, <2>6, <2>7, <2>8, <4>1 DEF BankInv, BuffersOK
      <4>2. CASE t = "RW"
        BY <2>1, <2>7, <2>8, <4>2 DEF BankInv, BuffersOK
      <4> QED
        BY <4>1, <4>2 DEF Type
    <3> QED
      BY <2>1, <2>7, <2>8, <3>1 DEF BankInv, BuffersOK
  <2>13. Quiet(n, m)
    <3>1. BankInv(m)
      BY <2>9, <2>10, <2>11, <2>12 DEF BankInv
    <3>2. \A f \in {"RW_log_list", "cur_write_vpn", "writebuf_index"} : m[f] = n[f]
      BY <2>8
    <3> QED
      BY <2>5, <2>7, <2>8, <3>1, <3>2 DEF Quiet
  <2>14. [banks EXCEPT ![b].writebuf["SW"][pos].req = RSP_INVALID_LPN] = [banks EXCEPT ![b] = m]
    BY DEF m, buf2
  <2>15. SlotInv([banks EXCEPT ![b] = m], map) /\ BuffersStay(banks, [banks EXCEPT ![b] = m])
    BY <2>13, QuietBank
  <2> QED
    BY <2>14, <2>15
<1> QED
  BY <1>1, <1>2
\* The home address's old page is dropped.
LEMMA DropOldKeeps ==
    ASSUME NEW banks, NEW map, SlotInv(banks, map), DOMAIN banks = Bank, NEW o,
           is_in_write_buffer(vpn[o]) => vpn[o].type = "SW"
    PROVE  SlotInv(DropOld(banks, o), map) /\ BuffersStay(banks, DropOld(banks, o))
<1> DEFINE v == vpn[o]
<1>1. CASE v = VC_MAX
  <2>1. DropOld(banks, o) = banks
    BY <1>1 DEF DropOld
  <2> QED
    BY <2>1 DEF BuffersStay
<1>2. CASE is_in_write_buffer(v)
  <2>1. v.type = "SW"
    BY <1>2
  <2>3. v # VC_MAX
    BY <1>2 DEF is_in_write_buffer
  <2>2. DropOld(banks, o) = [banks EXCEPT ![v.bank].writebuf["SW"][v.pos].req = RSP_INVALID_LPN]
    BY <1>2, <2>1, <2>3 DEF DropOld
  <2> DEFINE new == [banks EXCEPT ![v.bank].writebuf["SW"][v.pos].req = RSP_INVALID_LPN]
  <2>4. SlotInv(new, map) /\ BuffersStay(banks, new)
    BY DropBuffered, Zenon
  <2> HIDE DEF new
  <2> QED
    BY <2>2, <2>4 DEF new
<1>3. CASE v # VC_MAX /\ ~is_in_write_buffer(v)
  <2>1. DropOld(banks, o) = [banks EXCEPT ![v.bank] = Invalidate(@, o, v)]
    BY <1>3 DEF DropOld
  <2> DEFINE new == [banks EXCEPT ![v.bank] = Invalidate(@, o, v)]
  <2>2. SlotInv(new, map) /\ BuffersStay(banks, new)
    BY InvalidateStep, Zenon
  <2> HIDE DEF new
  <2> QED
    BY <2>1, <2>2 DEF new
<1> QED
  BY <1>1, <1>2, <1>3

\* A slot is unmapped: its page in a block of log pages is remapped.
LEMMA UnpinStep ==
    ASSUME NEW banks, NEW map, SlotInv(banks, map), DOMAIN banks = Bank,
           NEW s \in SlotLPN, InLogBlock(banks, map[s]),
           NEW map2, map2[s] = VC_MAX, \A x \in SlotLPN : x # s => map2[x] = map[x]
    PROVE  LET new == [banks EXCEPT ![map[s].bank] = Unpin(@, map[s].block)]
           IN  SlotInv(new, map2) /\ BuffersStay(banks, new)
<1> DEFINE b == map[s].bank
           m == Unpin(banks[b], map[s].block)
           new == [banks EXCEPT ![b] = m]
<1>1. b \in Bank
  <2>0. PICK c \in Bank : \E blk \in ToSet(banks[c].RW_log_list), off \in Offset : map[s] = Flash(c, blk, off)
    BY DEF InLogBlock
  <2>1. PICK blk \in ToSet(banks[c].RW_log_list), off \in Offset : map[s] = Flash(c, blk, off)
    BY <2>0
  <2> QED
    BY <2>1 DEF Flash
<1>2. DOMAIN new = Bank /\ new[b] = m /\ \A c \in Bank : c # b => new[c] = banks[c]
  BY <1>1
<1> HIDE DEF new
<1>3. /\ SlotInv(new, map2)
      /\ \A c \in Bank : /\ new[c].writebuf = banks[c].writebuf
                         /\ new[c].writebuf_index = banks[c].writebuf_index
  BY <1>2, SlotLeavesFlash
<1>4. BuffersStay(banks, new)
  BY <1>2, <1>3 DEF BuffersStay
<1> QED
  BY <1>3, <1>4 DEF new

\* The slot is written again: its old page is no longer valid and no longer waits.
LEMMA SlotSuperseded ==
    ASSUME NEW banks, NEW map, SlotInv(banks, map), DOMAIN banks = Bank,
           NEW s \in SlotLPN, InLogBlock(banks, map[s]),
           NEW map2, map2[s] = VC_MAX, \A x \in SlotLPN : x # s => map2[x] = map[x]
    PROVE  LET v == map[s]
               new == [banks EXCEPT ![v.bank] = Unpin(Invalidate(@, s, v), v.block)]
           IN  SlotInv(new, map2) /\ BuffersStay(banks, new)
<1> DEFINE v == map[s]
           mid == [banks EXCEPT ![v.bank] = Invalidate(@, s, v)]
           last == [mid EXCEPT ![v.bank] = Unpin(@, v.block)]
           new == [banks EXCEPT ![v.bank] = Unpin(Invalidate(@, s, v), v.block)]
<1>1. v.bank \in Bank
  <2>0. PICK c \in Bank : \E blk \in ToSet(banks[c].RW_log_list), off \in Offset : map[s] = Flash(c, blk, off)
    BY DEF InLogBlock
  <2>1. PICK blk \in ToSet(banks[c].RW_log_list), off \in Offset : map[s] = Flash(c, blk, off)
    BY <2>0
  <2> QED
    BY <2>1 DEF Flash
<1>2. SlotInv(mid, map) /\ BuffersStay(banks, mid)
  BY InvalidateStep
<1>3. new = last
  BY <1>1
<1>4. \A c \in Bank : mid[c].RW_log_list = banks[c].RW_log_list
  <2>1. Quiet(banks[v.bank], Invalidate(banks[v.bank], s, v))
    BY <1>1, InvalidateIsQuiet DEF SlotInv
  <2> DEFINE m == Invalidate(banks[v.bank], s, v)
  <2>2. m.RW_log_list = banks[v.bank].RW_log_list
    BY <2>1 DEF Quiet
  <2>3. mid = [banks EXCEPT ![v.bank] = m]
    OBVIOUS
  <2> HIDE DEF m, mid
  <2>4. \A c \in Bank : mid[c] = IF c = v.bank THEN m ELSE banks[c]
    BY <2>3
  <2> QED
    BY <2>2, <2>4
<1> HIDE DEF mid
<1>5. InLogBlock(mid, map[s])
  BY <1>4 DEF InLogBlock
<1>6. SlotInv(last, map2) /\ BuffersStay(mid, last)
  <2>1. DOMAIN mid = Bank
    BY <1>2 DEF BuffersStay
  <2> QED
    BY <1>2, <1>5, <2>1, UnpinStep, Zenon
<1> HIDE DEF last, new
<1>7. SlotInv(new, map2) /\ BuffersStay(banks, new)
  BY <1>2, <1>3, <1>6, StayTwice
<1> QED
  BY <1>7 DEF new

\* A slot's page in a write buffer is remapped there: its entry now is the home
\* address's.
LEMMA SlotLeavesBuffer ==
    ASSUME NEW banks, NEW map, SlotInv(banks, map), DOMAIN banks = Bank,
           NEW s \in SlotLPN, InLogBuffer(banks, map[s], s), NEW o \in HomeLPN,
           NEW map2, map2[s] = VC_MAX, \A x \in SlotLPN : x # s => map2[x] = map[x]
    PROVE  LET v == map[s]
               new == [banks EXCEPT ![v.bank].writebuf[v.type][v.pos].req = o,
                                    ![v.bank].remap_inbuff_cnt = @ + 1]
           IN  SlotInv(new, map2) /\ BuffersStay(banks, new) /\ is_in_write_buffer(v)
<1>0. PICK b \in Bank : \E pos \in DOMAIN banks[b].writebuf["RW"] :
        map[s] = Buffered(b, "RW", pos) /\ banks[b].writebuf["RW"][pos].req = s
  BY DEF InLogBuffer
<1>1. PICK pos \in DOMAIN banks[b].writebuf["RW"] :
        map[s] = Buffered(b, "RW", pos) /\ banks[b].writebuf["RW"][pos].req = s
  BY <1>0
<1> DEFINE n == banks[b]
           buf == n.writebuf["RW"]
           entry == [buf[pos] EXCEPT !.req = o]
           buf2 == [buf EXCEPT ![pos] = entry]
           m == [n EXCEPT !.writebuf["RW"] = buf2, !.remap_inbuff_cnt = @ + 1]
           new == [banks EXCEPT ![b] = m]
<1>2. BankInv(n) /\ pos \in Position
  <2>1. BankInv(n)
    BY DEF SlotInv
  <2> QED
    BY <2>1, BufferPositions DEF Type
<1>3. /\ map[s] # VC_MAX /\ ~InFlash(map[s]) /\ is_in_write_buffer(map[s])
      /\ map[s].bank = b /\ map[s].type = "RW" /\ map[s].pos = pos
  BY <1>1, <1>2, BufferPlace DEF Type
<1>4. [banks EXCEPT ![map[s].bank].writebuf[map[s].type][map[s].pos].req = o,
                    ![map[s].bank].remap_inbuff_cnt = @ + 1] = new
  <2>1. DOMAIN n = BankField /\ DOMAIN n.writebuf = Type
    BY <1>2 DEF BankInv, BankShape
  <2> QED
    BY <1>3, <2>1 DEF BankField
<1>5. DOMAIN n = BankField /\ DOMAIN n.writebuf = Type
  BY <1>2 DEF BankInv, BankShape
<1>6. /\ m.writebuf = [n.writebuf EXCEPT !["RW"] = buf2]
      /\ DOMAIN m = BankField
      /\ \A f \in BankField \ {"writebuf", "remap_inbuff_cnt"} : m[f] = n[f]
      /\ m.remap_inbuff_cnt = n.remap_inbuff_cnt + 1
  BY <1>5 DEF BankField
<1>7. DOMAIN buf2 = DOMAIN buf /\ \A p \in DOMAIN buf : buf2[p] = IF p = pos THEN entry ELSE buf[p]
  OBVIOUS
<1>8. \A p \in DOMAIN buf : buf[p] \in [req : LPN, remap : HomeLPN]
  BY <1>2 DEF BankInv, BuffersOK, Entry, Type
<1>9. entry \in [req : LPN, remap : HomeLPN] /\ entry.req = o
  BY <1>8 DEF LPN
<1> HIDE DEF entry, buf2, m
<1>10. /\ m.writebuf["RW"] = buf2 /\ m.writebuf["SW"] = n.writebuf["SW"] /\ DOMAIN m.writebuf = Type
  BY <1>5, <1>6 DEF Type
<1>11. /\ m.data_list = n.data_list /\ m.victim_list = n.victim_list
       /\ m.RW_log_list = n.RW_log_list /\ m.free_list = n.free_list /\ m.GC_BLK = n.GC_BLK
       /\ m.cur_write_vpn = n.cur_write_vpn /\ m.GCbuf_lpn = n.GCbuf_lpn
       /\ m.writebuf_index = n.writebuf_index
       /\ m.block_list = n.block_list /\ m.cur_vt_vpn = n.cur_vt_vpn
  BY <1>6 DEF BankField
<1>12. BankShape(m)
  BY <1>2, <1>6, <1>10, <1>11 DEF BankInv, BankShape
<1>13. Conserved(m)
  BY <1>2, <1>11, ListsStay DEF BankInv
<1>14. ActiveStays(m) /\ HomeOnly(m) /\ Counted(m)
  BY <1>2, <1>11 DEF BankInv, ActiveStays, HomeOnly, Counted
<1>15. BuffersOK(m)
  <2>1. ASSUME NEW t \in Type
        PROVE  /\ DOMAIN m.writebuf[t] \subseteq 0 .. 2 * m.writebuf_index[t] - 1
               /\ \A p \in DOMAIN m.writebuf[t] : m.writebuf[t][p] \in Entry(t)
    <3>1. CASE t = "SW"
      BY <1>2, <1>10, <1>11, <3>1 DEF BankInv, BuffersOK
    <3>2. CASE t = "RW"
      <4>1. \A p \in DOMAIN buf2 : buf2[p] \in Entry("RW")
        BY <1>7, <1>8, <1>9 DEF Entry
      <4> QED
        BY <1>2, <1>7, <1>10, <1>11, <3>2, <4>1 DEF BankInv, BuffersOK
    <3> QED
      BY <3>1, <3>2 DEF Type
  <2>2. Unslotted(buf2) = Unslotted(buf) \cup {pos} /\ pos \notin Unslotted(buf)
    <3>1. s \in SlotLPN /\ o \notin SlotLPN
      BY FlashFacts
    <3> QED
      BY <1>1, <1>7, <1>9, <3>1 DEF Unslotted
  <2>3. IsFiniteSet(Unslotted(buf))
    <3>1. DOMAIN buf \subseteq Position
      BY <1>2, BufferPositions DEF Type
    <3>2. Unslotted(buf) \in SUBSET Position
      BY <3>1 DEF Unslotted
    <3> QED
      BY <3>2, FlashFacts, FS_Subset
  <2>4. Cardinality(Unslotted(buf2)) = Cardinality(Unslotted(buf)) + 1
    BY <2>2, <2>3, FS_AddElement
  <2>5. m.remap_inbuff_cnt = Cardinality(Unslotted(m.writebuf["RW"]))
    BY <1>2, <1>6, <1>10, <2>4 DEF BankInv, BuffersOK
  <2> QED
    BY <2>1, <2>5 DEF BuffersOK
<1>16. BankInv(m)
  BY <1>12, <1>13, <1>14, <1>15 DEF BankInv
<1>17. DOMAIN new = Bank /\ \A c \in Bank : new[c] = IF c = b THEN m ELSE banks[c]
  OBVIOUS
<1> HIDE DEF new
<1>18. \A c \in Bank : /\ BankInv(new[c])
                       /\ new[c].RW_log_list = banks[c].RW_log_list
                       /\ new[c].block_list = banks[c].block_list
                       /\ new[c].writebuf_index = banks[c].writebuf_index
                       /\ \A t \in Type : DOMAIN new[c].writebuf[t] = DOMAIN banks[c].writebuf[t]
  BY <1>7, <1>10, <1>11, <1>16, <1>17 DEF SlotInv, Type
<1>19. ASSUME NEW c \in Bank, NEW p \in DOMAIN new[c].writebuf["RW"],
              new[c].writebuf["RW"][p].req \in SlotLPN
       PROVE  LET x == new[c].writebuf["RW"][p].req
              IN  /\ p \in DOMAIN banks[c].writebuf["RW"] /\ banks[c].writebuf["RW"][p].req = x
                  /\ x # s
  <2> DEFINE x == new[c].writebuf["RW"][p].req
  <2>1. p \in DOMAIN banks[c].writebuf["RW"]
    BY <1>18 DEF Type
  <2>2. ~(c = b /\ p = pos)
    BY <1>7, <1>9, <1>10, <1>17, <1>19, <2>1, FlashFacts
  <2>3. banks[c].writebuf["RW"][p].req = x
    BY <1>7, <1>10, <1>17, <2>1, <2>2
  <2>4. map[x] = Buffered(c, "RW", p)
    BY <1>19, <2>1, <2>3 DEF SlotInv, BufferMaps
  <2>5. x # s
    <3>1. Buffered(c, "RW", p) # Buffered(b, "RW", pos)
      BY <2>2 DEF Buffered
    <3> QED
      BY <1>1, <2>4, <3>1
  <2> QED
    BY <2>1, <2>3, <2>5
<1>20. BufferMaps(new, map2)
  <2>1. ASSUME NEW c \in Bank, NEW p \in DOMAIN new[c].writebuf["RW"],
               new[c].writebuf["RW"][p].req \in SlotLPN
        PROVE  map2[new[c].writebuf["RW"][p].req] = Buffered(c, "RW", p)
    BY <1>19, <2>1 DEF SlotInv, BufferMaps
  <2> QED
    BY <2>1 DEF BufferMaps
<1>21. ASSUME NEW x \in SlotLPN
       PROVE  map2[x] = VC_MAX \/ InLogBlock(new, map2[x]) \/ InLogBuffer(new, map2[x], x)
  <2>1. CASE x = s
    BY <2>1
  <2>2. CASE x # s /\ InLogBlock(banks, map[x])
    BY <1>18, <2>2 DEF InLogBlock
  <2>3. CASE x # s /\ InLogBuffer(banks, map[x], x)
    <3>0. PICK c \in Bank : \E p \in DOMAIN banks[c].writebuf["RW"] :
            map[x] = Buffered(c, "RW", p) /\ banks[c].writebuf["RW"][p].req = x
      BY <2>3 DEF InLogBuffer
    <3>1. PICK p \in DOMAIN banks[c].writebuf["RW"] :
            map[x] = Buffered(c, "RW", p) /\ banks[c].writebuf["RW"][p].req = x
      BY <3>0
    <3>2. ~(c = b /\ p = pos)
      BY <1>1, <2>3, <3>1
    <3>3. p \in DOMAIN new[c].writebuf["RW"] /\ new[c].writebuf["RW"][p].req = x
      BY <1>7, <1>10, <1>17, <3>1, <3>2
    <3> QED
      BY <2>3, <3>1, <3>3 DEF InLogBuffer
  <2> QED
    BY <2>1, <2>2, <2>3 DEF SlotInv
<1>22. \A c \in Bank, k \in Block : MappedIn(map2, c, k) = MappedIn(map, c, k)
  <2>1. ~InFlash(map2[s]) /\ ~InFlash(map[s])
    BY <1>3 DEF InFlash
  <2> QED
    BY <2>1 DEF MappedIn
<1>23. SlotInv(new, map2)
  BY <1>18, <1>20, <1>21, <1>22 DEF SlotInv
<1>24. BuffersStay(banks, new)
  BY <1>17, <1>18 DEF BuffersStay
<1> QED
  BY <1>3, <1>4, <1>23, <1>24

\* A page enters a write buffer at a free position.
PageBuffered(n, t, filled, idx) == [n EXCEPT !.writebuf[t] = filled, !.writebuf_index[t] = idx]

\* The bank stays a bank, and only that buffer changes.
LEMMA BankFilled ==
    ASSUME NEW n, BankInv(n), NEW t \in Type, NEW pos \in Position \ DOMAIN n.writebuf[t],
           NEW idx \in 0 .. PLANES_PER_BANK,
           DOMAIN n.writebuf[t] \cup {pos} \subseteq 0 .. 2 * idx - 1,
           NEW e \in Entry(t), t = "RW" => e.req \in SlotLPN,
           NEW filled, filled = [p \in DOMAIN n.writebuf[t] \cup {pos} |->
                                    IF p = pos THEN e ELSE n.writebuf[t][p]]
    PROVE  LET m == PageBuffered(n, t, filled, idx)
           IN  /\ BankInv(m)
               /\ m.RW_log_list = n.RW_log_list /\ m.block_list = n.block_list
               /\ m.writebuf[t] = filled /\ m.writebuf_index[t] = idx
               /\ \A x \in Type : x # t => /\ m.writebuf[x] = n.writebuf[x]
                                           /\ m.writebuf_index[x] = n.writebuf_index[x]
<1> DEFINE buf == n.writebuf[t]
           m == [n EXCEPT !.writebuf[t] = filled, !.writebuf_index[t] = idx]
<1>1. /\ DOMAIN n = BankField /\ DOMAIN n.writebuf = Type
      /\ n.writebuf_index \in [Type -> 0 .. PLANES_PER_BANK]
  BY DEF BankInv, BankShape
<1>2. /\ m.writebuf = [n.writebuf EXCEPT ![t] = filled]
      /\ m.writebuf_index = [n.writebuf_index EXCEPT ![t] = idx]
      /\ DOMAIN m = BankField
      /\ \A f \in BankField \ {"writebuf", "writebuf_index"} : m[f] = n[f]
  BY <1>1 DEF BankField
<1> HIDE DEF m
<1>3. /\ DOMAIN filled = DOMAIN buf \cup {pos} /\ filled[pos] = e
      /\ \A p \in DOMAIN buf : filled[p] = buf[p]
  OBVIOUS
<1>4. /\ m.writebuf[t] = filled /\ m.writebuf_index[t] = idx /\ DOMAIN m.writebuf = Type
      /\ m.writebuf_index \in [Type -> 0 .. PLANES_PER_BANK]
      /\ \A x \in Type : x # t => /\ m.writebuf[x] = n.writebuf[x]
                                  /\ m.writebuf_index[x] = n.writebuf_index[x]
  BY <1>1, <1>2
<1>5. /\ m.data_list = n.data_list /\ m.victim_list = n.victim_list
      /\ m.RW_log_list = n.RW_log_list /\ m.free_list = n.free_list /\ m.GC_BLK = n.GC_BLK
      /\ m.cur_write_vpn = n.cur_write_vpn /\ m.GCbuf_lpn = n.GCbuf_lpn
      /\ m.remap_inbuff_cnt = n.remap_inbuff_cnt
      /\ m.block_list = n.block_list /\ m.cur_vt_vpn = n.cur_vt_vpn
  BY <1>2 DEF BankField
<1>6. BankShape(m)
  BY <1>2, <1>4, <1>5 DEF BankInv, BankShape
<1>7. Conserved(m)
  BY <1>5, ListsStay DEF BankInv
<1>8. ActiveStays(m) /\ HomeOnly(m) /\ Counted(m)
  BY <1>5 DEF BankInv, ActiveStays, HomeOnly, Counted
<1>9. BuffersOK(m)
  <2>1. ASSUME NEW x \in Type
        PROVE  /\ DOMAIN m.writebuf[x] \subseteq 0 .. 2 * m.writebuf_index[x] - 1
               /\ \A p \in DOMAIN m.writebuf[x] : m.writebuf[x][p] \in Entry(x)
    <3>1. CASE x = t
      <4>1. \A p \in DOMAIN buf : buf[p] \in Entry(t)
        BY DEF BankInv, BuffersOK
      <4> QED
        BY <1>3, <1>4, <3>1, <4>1
    <3>2. CASE x # t
      BY <1>4, <3>2 DEF BankInv, BuffersOK
    <3> QED
      BY <3>1, <3>2
  <2>2. Unslotted(m.writebuf["RW"]) = Unslotted(n.writebuf["RW"])
    <3>1. CASE t = "RW"
      <4>1. Unslotted(filled) = Unslotted(buf)
        BY <1>3, <3>1 DEF Unslotted
      <4> QED
        BY <1>4, <3>1, <4>1
    <3>2. CASE t # "RW"
      BY <1>4, <3>2 DEF Type
    <3> QED
      BY <3>1, <3>2
  <2> QED
    BY <1>5, <2>1, <2>2 DEF BankInv, BuffersOK
<1>10. BankInv(m)
  BY <1>6, <1>7, <1>8, <1>9 DEF BankInv
<1> QED
  BY <1>4, <1>5, <1>10 DEF m, PageBuffered

\* A page of a home address enters a write buffer of home addresses.
LEMMA HomeEnters ==
    ASSUME NEW banks, NEW map, SlotInv(banks, map), NEW b \in Bank,
           NEW banks2, BankInv(banks2[b]),
           banks2[b].RW_log_list = banks[b].RW_log_list,
           banks2[b].block_list = banks[b].block_list,
           banks2[b].writebuf["RW"] = banks[b].writebuf["RW"],
           \A c \in Bank : c # b => banks2[c] = banks[c],
           NEW map2, \A s \in SlotLPN : map2[s] = map[s]
    PROVE  SlotInv(banks2, map2)
<1>1. SlotQuiet(banks[b], banks2[b])
  BY DEF SlotQuiet
<1> QED
  BY <1>1, QuietSlots

\* A slot without a page enters a write buffer of log pages.
LEMMA SlotEnters ==
    ASSUME NEW banks, NEW map, SlotInv(banks, map), NEW b \in Bank,
           NEW pos \in Position \ DOMAIN banks[b].writebuf["RW"],
           NEW s \in SlotLPN, map[s] = VC_MAX,
           NEW banks2, BankInv(banks2[b]),
           banks2[b].RW_log_list = banks[b].RW_log_list,
           banks2[b].block_list = banks[b].block_list,
           DOMAIN banks2[b].writebuf["RW"] = DOMAIN banks[b].writebuf["RW"] \cup {pos},
           banks2[b].writebuf["RW"][pos].req = s,
           \A p \in DOMAIN banks[b].writebuf["RW"] :
                banks2[b].writebuf["RW"][p] = banks[b].writebuf["RW"][p],
           \A c \in Bank : c # b => banks2[c] = banks[c],
           NEW map2, map2[s] = Buffered(b, "RW", pos), \A x \in SlotLPN : x # s => map2[x] = map[x]
    PROVE  SlotInv(banks2, map2)
<1>1. \A c \in Bank : /\ BankInv(banks2[c])
                      /\ banks2[c].RW_log_list = banks[c].RW_log_list
                      /\ banks2[c].block_list = banks[c].block_list
  BY DEF SlotInv
<1>2. ASSUME NEW x \in SlotLPN
      PROVE  map2[x] = VC_MAX \/ InLogBlock(banks2, map2[x]) \/ InLogBuffer(banks2, map2[x], x)
  <2>1. CASE x = s
    BY <2>1 DEF InLogBuffer
  <2>2. CASE x # s /\ InLogBlock(banks, map[x])
    BY <1>1, <2>2 DEF InLogBlock
  <2>3. CASE x # s /\ InLogBuffer(banks, map[x], x)
    <3>0. PICK c \in Bank : \E p \in DOMAIN banks[c].writebuf["RW"] :
            map[x] = Buffered(c, "RW", p) /\ banks[c].writebuf["RW"][p].req = x
      BY <2>3 DEF InLogBuffer
    <3>1. PICK p \in DOMAIN banks[c].writebuf["RW"] :
            map[x] = Buffered(c, "RW", p) /\ banks[c].writebuf["RW"][p].req = x
      BY <3>0
    <3>2. p \in DOMAIN banks2[c].writebuf["RW"] /\ banks2[c].writebuf["RW"][p].req = x
      BY <3>1
    <3> QED
      BY <2>3, <3>1, <3>2 DEF InLogBuffer
  <2> QED
    BY <2>1, <2>2, <2>3 DEF SlotInv
<1>3. BufferMaps(banks2, map2)
  <2>1. ASSUME NEW c \in Bank, NEW p \in DOMAIN banks2[c].writebuf["RW"],
               banks2[c].writebuf["RW"][p].req \in SlotLPN
        PROVE  map2[banks2[c].writebuf["RW"][p].req] = Buffered(c, "RW", p)
    <3> DEFINE x == banks2[c].writebuf["RW"][p].req
    <3>1. CASE c = b /\ p = pos
      BY <3>1
    <3>2. CASE ~(c = b /\ p = pos)
      <4>1. p \in DOMAIN banks[c].writebuf["RW"] /\ banks[c].writebuf["RW"][p].req = x
        BY <3>2
      <4>2. map[x] = Buffered(c, "RW", p)
        BY <2>1, <4>1 DEF SlotInv, BufferMaps
      <4>3. p \in Position
        <5>1. BankInv(banks[c])
          BY DEF SlotInv
        <5> QED
          BY <4>1, <5>1, BufferPositions DEF Type
      <4>4. x # s
        BY <4>2, <4>3, BufferPlace DEF Type
      <4> QED
        BY <2>1, <4>2, <4>4
    <3> QED
      BY <3>1, <3>2
  <2> QED
    BY <2>1 DEF BufferMaps
<1>4. \A c \in Bank, k \in Block : MappedIn(map2, c, k) = MappedIn(map, c, k)
  <2>1. ~InFlash(map2[s]) /\ ~InFlash(map[s])
    BY BufferPlace DEF InFlash, Type
  <2> QED
    BY <2>1 DEF MappedIn
<1> QED
  BY <1>1, <1>2, <1>3, <1>4 DEF SlotInv

\* Where the page goes: the position is free, and the buffer is long enough then.
LEMMA PositionIsFree ==
    ASSUME NEW n, BankInv(n), NEW t \in Type, DOMAIN n.writebuf[t] # Position, loop \in {0, 1},
           IsTail => n.writebuf_index[t] > 0 /\ 2 * n.writebuf_index[t] - 1 \notin DOMAIN n.writebuf[t],
           NEW idx, idx = IF IsNew(n, t) THEN n.writebuf_index[t] + 1 ELSE n.writebuf_index[t]
    PROVE  LET pos == BufferPosition(n, t)
           IN  /\ pos \in Position \ DOMAIN n.writebuf[t]
               /\ idx \in 0 .. PLANES_PER_BANK
               /\ DOMAIN n.writebuf[t] \cup {pos} \subseteq 0 .. 2 * idx - 1
               /\ loop = 0 /\ IsNew(n, t) =>
                    idx > 0 /\ 2 * idx - 1 \notin DOMAIN n.writebuf[t] \cup {pos}
<1> DEFINE pos == BufferPosition(n, t)
           filled == DOMAIN n.writebuf[t]
<1>1. PICK k \in 0 .. PLANES_PER_BANK : k = n.writebuf_index[t]
  BY BufferPositions
<1>2. filled \subseteq 0 .. 2 * k - 1 /\ filled \subseteq Position
  BY <1>1, BufferPositions DEF BankInv, BuffersOK
<1>3. PICK P \in Nat : P = PLANES_PER_BANK /\ Position = 0 .. 2 * P - 1 /\ k \in 0 .. P
  BY <1>1, FlashFacts DEF Position, SuperPage
<1>4. PICK h \in {0, 1} : h = loop
  OBVIOUS
<1>5. CASE IsTail
  <2>1. pos = 2 * (k - 1) + 1 /\ idx = k
    BY <1>1, <1>5 DEF BufferPosition, IsNew
  <2>2. k > 0 /\ 2 * k - 1 \notin filled
    BY <1>1, <1>5
  <2>3. ~IsNew(n, t)
    BY <1>5 DEF IsNew
  <2> HIDE DEF pos, filled
  <2>4. pos \in Position \ filled /\ idx \in 0 .. P /\ filled \cup {pos} \subseteq 0 .. 2 * idx - 1
    BY <1>2, <1>3, <2>1, <2>2
  <2> QED
    BY <1>3, <2>3, <2>4 DEF pos, filled
<1>6. CASE IsNew(n, t)
  <2>1. pos = 2 * k + h /\ idx = k + 1 /\ k < P
    BY <1>1, <1>3, <1>4, <1>6 DEF BufferPosition, IsNew
  <2> HIDE DEF pos, filled
  <2>2. pos \in Position \ filled /\ idx \in 0 .. P /\ filled \cup {pos} \subseteq 0 .. 2 * idx - 1
    BY <1>2, <1>3, <2>1
  <2>3. h = 0 => idx > 0 /\ 2 * idx - 1 \notin filled \cup {pos}
    BY <1>2, <1>3, <2>1
  <2> QED
    BY <1>3, <1>4, <2>2, <2>3 DEF pos, filled
<1>7. CASE ~IsTail /\ ~IsNew(n, t)
  <2>1. pos = Min(Position \ filled) /\ idx = k
    BY <1>1, <1>7 DEF BufferPosition
  <2>2. k = P
    BY <1>1, <1>3, <1>7 DEF IsNew
  <2> HIDE DEF pos, filled
  <2>3. Position \ filled \subseteq Nat /\ Position \ filled # {}
    <3>1. filled # Position
      BY DEF filled
    <3>2. Position \subseteq Nat
      BY <1>3
    <3> QED
      BY <1>2, <3>1, <3>2
  <2>4. \E m \in Position \ filled : \A j \in Position \ filled : m <= j
    BY <2>3, LeastNatural
  <2>5. pos \in Position \ filled
    BY <2>1, <2>4 DEF Min
  <2>6. idx \in 0 .. P /\ filled \cup {pos} \subseteq 0 .. 2 * idx - 1
    BY <1>2, <1>3, <2>1, <2>2, <2>5
  <2> QED
    BY <1>3, <1>7, <2>5, <2>6 DEF pos, filled
<1> QED
  BY <1>5, <1>6, <1>7

-----------------------------------------------------------------------------
(***************************************************************************)
(* A program.                                                              *)
(***************************************************************************)
\* The page that a full write buffer goes to: a bank keeps its blocks, and a
\* block that log pages go to is in their list.
LEMMA AssignKeeps ==
    ASSUME NEW n, BankInv(n), NEW t \in Type, Obstacle(n, t) = "none"
    PROVE  LET m == assign_new_write_vpn(n, t)
           IN  /\ BankInv(m)
               /\ m.writebuf = n.writebuf /\ m.writebuf_index = n.writebuf_index
               /\ m.cur_write_vpn[t].page \in 0 .. LAST
               /\ m.cur_write_vpn[t].block \in Block
               /\ t = "RW" => m.cur_write_vpn[t].block \in ToSet(m.RW_log_list)
               /\ ToSet(n.RW_log_list) \subseteq ToSet(m.RW_log_list)
               /\ t = "SW" => m.RW_log_list = n.RW_log_list
               /\ \A k \in Block : m.block_list[k].remained_remap_cnt = n.block_list[k].remained_remap_cnt
<1> DEFINE m == assign_new_write_vpn(n, t)
<1>1. /\ DOMAIN n = BankField /\ DOMAIN n.block_list = Block
      /\ \A k \in Block : DOMAIN n.block_list[k] = InfoField
      /\ n.cur_write_vpn \in [Type -> [block : Block, page : 0 .. LAST]]
      /\ Conserved(n)
  BY DEF BankInv, BankShape
<1>2. PICK last \in Nat : last = LAST
  BY FlashFacts
<1>3. CASE ~ActiveFull(n, t)
  <2> DEFINE page == IF n.write_start[t] THEN n.cur_write_vpn[t].page + 1 ELSE n.cur_write_vpn[t].page
             cur == [n.cur_write_vpn[t] EXCEPT !.page = page]
  <2>1. m = [n EXCEPT !.write_start[t] = TRUE,
                      !.cur_write_vpn[t].page = IF n.write_start[t] THEN @ + 1 ELSE @]
    BY <1>3 DEF assign_new_write_vpn
  <2>2. n.cur_write_vpn[t] \in [block : Block, page : 0 .. last]
    BY <1>1, <1>2
  <2>3. page \in 0 .. last
    <3>1. n.cur_write_vpn[t].page # last
      BY <1>2, <1>3 DEF ActiveFull, LAST
    <3> QED
      BY <2>2, <3>1
  <2> HIDE DEF page, m
  <2>4. cur \in [block : Block, page : 0 .. last] /\ cur.block = n.cur_write_vpn[t].block
    BY <2>2, <2>3
  <2>5. /\ DOMAIN m = BankField
        /\ \A f \in BankField \ {"write_start", "cur_write_vpn"} : m[f] = n[f]
        /\ m.cur_write_vpn = [n.cur_write_vpn EXCEPT ![t] = cur]
    BY <1>1, <2>1 DEF BankField, page
  <2> HIDE DEF cur
  <2>6. /\ m.cur_write_vpn[t] = cur
        /\ \A x \in Type : x # t => m.cur_write_vpn[x] = n.cur_write_vpn[x]
        /\ m.cur_write_vpn \in [Type -> [block : Block, page : 0 .. LAST]]
    BY <1>1, <1>2, <2>4, <2>5
  <2>7. /\ m.data_list = n.data_list /\ m.victim_list = n.victim_list
        /\ m.RW_log_list = n.RW_log_list /\ m.free_list = n.free_list /\ m.GC_BLK = n.GC_BLK
        /\ m.GCbuf_lpn = n.GCbuf_lpn /\ m.writebuf = n.writebuf
        /\ m.writebuf_index = n.writebuf_index /\ m.remap_inbuff_cnt = n.remap_inbuff_cnt
        /\ m.block_list = n.block_list /\ m.cur_vt_vpn = n.cur_vt_vpn
    BY <2>5 DEF BankField
  <2>8. t = "RW" => cur.block \in ToSet(n.RW_log_list)
    BY <1>3, <2>4 DEF BankInv, ActiveStays, ActiveFull, LAST
  <2>9. BankShape(m)
    BY <2>5, <2>6, <2>7 DEF BankInv, BankShape
  <2>10. Conserved(m)
    BY <1>1, <2>7, ListsStay
  <2>11. ActiveStays(m)
    <3>1. CASE t = "RW"
      BY <2>6, <2>7, <2>8, <3>1 DEF ActiveStays
    <3>2. CASE t # "RW"
      BY <2>6, <2>7, <3>2 DEF BankInv, ActiveStays, Type
    <3> QED
      BY <3>1, <3>2
  <2>12. HomeOnly(m) /\ Counted(m) /\ BuffersOK(m)
    BY <2>7 DEF BankInv, HomeOnly, Counted, BuffersOK
  <2>13. BankInv(m)
    BY <2>9, <2>10, <2>11, <2>12 DEF BankInv
  <2> QED
    BY <1>2, <2>4, <2>6, <2>7, <2>8, <2>13 DEF m
<1>4. CASE ActiveFull(n, t)
  <2> DEFINE blk == Head(n.free_list)
             info == [n.block_list[blk] EXCEPT !.vcount = IF @ = VC_ERASED THEN 0 ELSE @]
             name == IF t = "SW" THEN "data" ELSE "RW_log"
  <2>1. n.free_list # <<>>
    BY <1>4 DEF Obstacle
  <2>2. List(n.free_list) /\ List(n.data_list) /\ List(n.RW_log_list)
    BY <1>1, ListsAre DEF Conserved
  <2>3. /\ blk \in ToSet(n.free_list) /\ List(Tail(n.free_list))
        /\ ToSet(Tail(n.free_list)) = ToSet(n.free_list) \ {blk}
    BY <2>1, <2>2, ListTail
  <2>4. blk \in Block /\ blk \notin ToSet(n.data_list) /\ blk \notin ToSet(n.RW_log_list)
        /\ blk \notin ToSet(n.victim_list)
    <3>1. blk \in Held(n, "free")
      BY <2>3, ListsAre DEF Held
    <3>2. /\ blk \in Block /\ blk \notin Held(n, "data") /\ blk \notin Held(n, "RW_log")
          /\ blk \notin Held(n, "victim")
      BY <1>1, <3>1, HeldBlocks, ListsAre
    <3> QED
      BY <3>2, ListsAre DEF Held
  <2> HIDE DEF blk, m
  <2>5. /\ DOMAIN m = BankField
        /\ \A f \in BankField \ {"free_list", "cur_write_vpn", "block_list", "data_list", "RW_log_list"} :
                m[f] = n[f]
        /\ m.free_list = Tail(n.free_list)
        /\ m.cur_write_vpn = [n.cur_write_vpn EXCEPT ![t] = [block |-> blk, page |-> 0]]
        /\ m.block_list = [n.block_list EXCEPT ![blk] = info]
        /\ m.data_list = IF t = "SW" THEN Append(n.data_list, blk) ELSE n.data_list
        /\ m.RW_log_list = IF t = "SW" THEN n.RW_log_list ELSE Append(n.RW_log_list, blk)
    <3> DEFINE new == [n EXCEPT !.free_list = Tail(@),
                                !.cur_write_vpn[t] = [block |-> blk, page |-> 0],
                                !.block_list[blk].vcount = IF @ = VC_ERASED THEN 0 ELSE @]
    <3>1. m = IF t = "SW" THEN [new EXCEPT !.data_list = Append(@, blk)]
                          ELSE [new EXCEPT !.RW_log_list = Append(@, blk)]
      BY <1>4 DEF m, blk, assign_new_write_vpn
    <3>2. /\ DOMAIN new = BankField
          /\ \A f \in BankField \ {"free_list", "cur_write_vpn", "block_list"} : new[f] = n[f]
          /\ new.free_list = Tail(n.free_list)
          /\ new.cur_write_vpn = [n.cur_write_vpn EXCEPT ![t] = [block |-> blk, page |-> 0]]
          /\ new.block_list = [n.block_list EXCEPT ![blk] = info]
      BY <1>1 DEF BankField
    <3> HIDE DEF new, info
    <3> QED
      BY <3>1, <3>2 DEF BankField
  <2>6. /\ DOMAIN info = InfoField /\ info.remained_remap_cnt = n.block_list[blk].remained_remap_cnt
        /\ info.spare = n.block_list[blk].spare
        /\ n.block_list[blk].vcount \in Int => info.vcount \in Int
    BY <1>1, <2>4 DEF InfoField
  <2> HIDE DEF info
  <2>7. /\ m.victim_list = n.victim_list /\ m.GC_BLK = n.GC_BLK
        /\ m.GCbuf_lpn = n.GCbuf_lpn /\ m.writebuf = n.writebuf
        /\ m.writebuf_index = n.writebuf_index /\ m.remap_inbuff_cnt = n.remap_inbuff_cnt
        /\ m.cur_vt_vpn = n.cur_vt_vpn
    BY <2>5 DEF BankField
  <2>8. /\ m.cur_write_vpn[t] = [block |-> blk, page |-> 0]
        /\ \A x \in Type : x # t => m.cur_write_vpn[x] = n.cur_write_vpn[x]
        /\ m.cur_write_vpn \in [Type -> [block : Block, page : 0 .. LAST]]
    <3>1. [block |-> blk, page |-> 0] \in [block : Block, page : 0 .. LAST]
      BY <1>2, <2>4
    <3> QED
      BY <1>1, <2>5, <3>1
  <2>9. /\ DOMAIN m.block_list = Block
        /\ \A k \in Block : m.block_list[k] = IF k = blk THEN info ELSE n.block_list[k]
    BY <1>1, <2>5
  <2>10. \A k \in Block : /\ DOMAIN m.block_list[k] = InfoField
                          /\ m.block_list[k].remained_remap_cnt = n.block_list[k].remained_remap_cnt
                          /\ m.block_list[k].spare = n.block_list[k].spare
                          /\ n.block_list[k].vcount \in Int => m.block_list[k].vcount \in Int
    BY <1>1, <2>6, <2>9
  <2>11. BankShape(m)
    BY <2>5, <2>7, <2>8, <2>9, <2>10 DEF BankInv, BankShape
  <2>12. Conserved(m) /\ name \in ListName
    <3>1. name \in ListName /\ "free" \in ListName /\ name # "free"
      BY DEF ListName
    <3>2. List(Lists(m)["free"]) /\ Held(m, "free") = Held(n, "free") \ {blk} /\ blk \in Held(n, "free")
      BY <2>3, <2>5, ListsAre DEF Held
    <3>3. List(Lists(m)[name]) /\ Held(m, name) = Held(n, name) \cup {blk}
      <4>1. CASE t = "SW"
        <5>1. List(m.data_list) /\ ToSet(m.data_list) = ToSet(n.data_list) \cup {blk}
          BY <2>2, <2>4, <2>5, <4>1, ListAppend
        <5> QED
          BY <4>1, <5>1, ListsAre DEF Held
      <4>2. CASE t = "RW"
        <5>1. List(m.RW_log_list) /\ ToSet(m.RW_log_list) = ToSet(n.RW_log_list) \cup {blk}
          BY <2>2, <2>4, <2>5, <4>2, ListAppend
        <5> QED
          BY <4>2, <5>1, ListsAre DEF Held
      <4> QED
        BY <4>1, <4>2 DEF Type
    <3>4. \A z \in ListName : z \notin {"free", name} => Lists(m)[z] = Lists(n)[z]
      <4>1. /\ Lists(m)["victim"] = Lists(n)["victim"] /\ Lists(m)["GC"] = Lists(n)["GC"]
            /\ t = "SW" => Lists(m)["RW_log"] = Lists(n)["RW_log"]
            /\ t # "SW" => Lists(m)["data"] = Lists(n)["data"]
        <5>1. Lists(m)["victim"] = m.victim_list /\ Lists(n)["victim"] = n.victim_list
          BY ListsAre
        <5>2. /\ Lists(m)["GC"] = IF m.GC_BLK = VC_MAX THEN <<>> ELSE <<m.GC_BLK>>
              /\ Lists(n)["GC"] = IF n.GC_BLK = VC_MAX THEN <<>> ELSE <<n.GC_BLK>>
          BY ListsAre
        <5>3. /\ Lists(m)["RW_log"] = m.RW_log_list /\ Lists(n)["RW_log"] = n.RW_log_list
              /\ Lists(m)["data"] = m.data_list /\ Lists(n)["data"] = n.data_list
          BY ListsAre
        <5>4. (t = "SW" => m.RW_log_list = n.RW_log_list) /\ (t # "SW" => m.data_list = n.data_list)
          BY <2>5
        <5> QED
          BY <2>7, <5>1, <5>2, <5>3, <5>4
      <4> QED
        BY <4>1 DEF ListName
    <3> QED
      BY <1>1, <3>1, <3>2, <3>3, <3>4, BlockMoves
  <2>13. t = "RW" => ToSet(m.RW_log_list) = ToSet(n.RW_log_list) \cup {blk}
    BY <2>2, <2>4, <2>5, ListAppend
  <2>14. ActiveStays(m)
    <3>1. CASE t = "RW"
      BY <2>8, <2>13, <3>1 DEF ActiveStays
    <3>2. CASE t = "SW"
      BY <2>5, <2>8, <3>2 DEF BankInv, ActiveStays, Type
    <3> QED
      BY <3>1, <3>2 DEF Type
  <2>15. HomeOnly(m)
    BY <2>7, <2>10 DEF BankInv, HomeOnly
  <2>16. Counted(m) /\ BuffersOK(m)
    BY <2>7, <2>10 DEF BankInv, Counted, BuffersOK
  <2>17. BankInv(m)
    BY <2>11, <2>12, <2>14, <2>15, <2>16 DEF BankInv
  <2>18. t = "SW" => m.RW_log_list = n.RW_log_list
    BY <2>5
  <2> QED
    BY <1>2, <2>4, <2>7, <2>8, <2>10, <2>13, <2>17, <2>18 DEF m, Type
<1> QED
  BY <1>3, <1>4

\* A write buffer is emptied.
WithoutBuffer(n, t, count) ==
    [n EXCEPT !.writebuf[t] = <<>>, !.writebuf_index[t] = 0, !.remap_inbuff_cnt = count]

\* The bank stays a bank, and only that buffer and its counts change.
LEMMA BufferEmptied ==
    ASSUME NEW n, BankInv(n), NEW t \in Type, NEW count, count = IF t = "RW" THEN 0 ELSE n.remap_inbuff_cnt
    PROVE  LET m == WithoutBuffer(n, t, count)
           IN  /\ BankInv(m)
               /\ DOMAIN m = BankField
               /\ \A f \in BankField \ {"writebuf", "writebuf_index", "remap_inbuff_cnt"} : m[f] = n[f]
               /\ m.writebuf = [n.writebuf EXCEPT ![t] = <<>>]
               /\ m.writebuf_index = [n.writebuf_index EXCEPT ![t] = 0]
               /\ m.remap_inbuff_cnt = count
<1> DEFINE m == WithoutBuffer(n, t, count)
<1>1. /\ DOMAIN n = BankField /\ DOMAIN n.writebuf = Type
      /\ n.writebuf_index \in [Type -> 0 .. PLANES_PER_BANK]
  BY DEF BankInv, BankShape
<1>2. /\ m.writebuf = [n.writebuf EXCEPT ![t] = <<>>]
      /\ m.writebuf_index = [n.writebuf_index EXCEPT ![t] = 0]
      /\ m.remap_inbuff_cnt = count
      /\ DOMAIN m = BankField
      /\ \A f \in BankField \ {"writebuf", "writebuf_index", "remap_inbuff_cnt"} : m[f] = n[f]
  BY <1>1 DEF BankField, WithoutBuffer
<1> HIDE DEF m
<1>3. 0 \in 0 .. PLANES_PER_BANK
  BY FlashFacts
<1>4. /\ m.writebuf[t] = <<>> /\ m.writebuf_index[t] = 0 /\ DOMAIN m.writebuf = Type
      /\ m.writebuf_index \in [Type -> 0 .. PLANES_PER_BANK]
      /\ \A x \in Type : x # t => /\ m.writebuf[x] = n.writebuf[x]
                                  /\ m.writebuf_index[x] = n.writebuf_index[x]
  BY <1>1, <1>2, <1>3
<1>5. /\ m.data_list = n.data_list /\ m.victim_list = n.victim_list
      /\ m.RW_log_list = n.RW_log_list /\ m.free_list = n.free_list /\ m.GC_BLK = n.GC_BLK
      /\ m.cur_write_vpn = n.cur_write_vpn /\ m.GCbuf_lpn = n.GCbuf_lpn
      /\ m.block_list = n.block_list /\ m.cur_vt_vpn = n.cur_vt_vpn
  BY <1>2 DEF BankField
<1>6. BankShape(m)
  BY <1>2, <1>4, <1>5 DEF BankInv, BankShape
<1>7. Conserved(m)
  BY <1>5, ListsStay DEF BankInv
<1>8. ActiveStays(m) /\ HomeOnly(m) /\ Counted(m)
  BY <1>5 DEF BankInv, ActiveStays, HomeOnly, Counted
<1>9. BuffersOK(m)
  <2>1. DOMAIN <<>> = {}
    OBVIOUS
  <2>2. ASSUME NEW x \in Type
        PROVE  /\ DOMAIN m.writebuf[x] \subseteq 0 .. 2 * m.writebuf_index[x] - 1
               /\ \A p \in DOMAIN m.writebuf[x] : m.writebuf[x][p] \in Entry(x)
    <3>1. CASE x = t
      BY <1>4, <2>1, <3>1
    <3>2. CASE x # t
      BY <1>4, <3>2 DEF BankInv, BuffersOK
    <3> QED
      BY <3>1, <3>2
  <2>3. m.remap_inbuff_cnt = Cardinality(Unslotted(m.writebuf["RW"]))
    <3>1. CASE t = "RW"
      <4>1. Unslotted(m.writebuf["RW"]) = {}
        BY <1>4, <2>1, <3>1 DEF Unslotted
      <4> QED
        BY <1>2, <3>1, <4>1, FS_EmptySet
    <3>2. CASE t # "RW"
      BY <1>2, <1>4, <3>2 DEF BankInv, BuffersOK, Type
    <3> QED
      BY <3>1, <3>2
  <2> QED
    BY <2>2, <2>3 DEF BuffersOK
<1>10. BankInv(m)
  BY <1>6, <1>7, <1>8, <1>9 DEF BankInv
<1> QED
  BY <1>2, <1>10 DEF m

\* The spare area of a full write buffer names home addresses.
LEMMA BufferSpare ==
    ASSUME NEW n, BankInv(n), NEW t \in Type, NEW pos \in DOMAIN n.writebuf[t]
    PROVE  SpareOf(n.writebuf[t], pos) \in Home
<1> DEFINE e == n.writebuf[t][pos]
<1>1. e \in Entry(t)
  BY DEF BankInv, BuffersOK
<1>2. e.remap = RSP_INVALID_LPN => e.req \in Home
  <2>1. RSP_INVALID_LPN \notin HomeLPN
    BY FlashFacts DEF LPN
  <2>2. CASE t = "RW"
    BY <1>1, <2>1, <2>2 DEF Entry
  <2>3. CASE t = "SW"
    BY <1>1, <2>3 DEF Entry
  <2> QED
    BY <2>2, <2>3 DEF Type
<1>3. e.remap \in Home
  <2>1. CASE t = "RW"
    BY <1>1, <2>1 DEF Entry, Home
  <2>2. CASE t = "SW"
    BY <1>1, <2>2 DEF Entry, Home
  <2> QED
    BY <2>1, <2>2 DEF Type
<1> HIDE DEF e
<1>4. SpareOf(n.writebuf[t], pos) = IF e.remap = RSP_INVALID_LPN THEN e.req ELSE e.remap
  BY DEF SpareOf, e
<1> QED
  BY <1>2, <1>3, <1>4

\* The place of a page in its block.
LEMMA OffsetInBlock ==
    ASSUME NEW page \in 0 .. LAST, NEW pos \in Position
    PROVE  OffsetOf(page, pos) \in Offset
<1>1. PICK P \in Nat : P = PLANES_PER_BANK /\ P > 0
  BY FlashFacts
<1>2. PICK B \in Nat : B = PAGES_PER_BLK /\ B > 0 /\ page \in 0 .. B - 1
  BY FlashFacts DEF LAST
<1>3. pos \in Nat /\ pos < 2 * P
  BY <1>1 DEF Position, SuperPage
<1>4. PICK q \in Nat : q = pos \div 2 /\ q < P
  <2>1. pos \div 2 \in Nat /\ pos \div 2 < P
    BY <1>1, <1>3
  <2> QED
    BY <2>1
<1>5. PICK h \in {0, 1} : h = (pos % 2)
  <2>1. (pos % 2) \in {0, 1}
    BY <1>3
  <2> QED
    BY <2>1
<1>6. PICK k \in Nat : k = q * B
  OBVIOUS
<1>7. k + page \in Nat /\ k + page <= P * B - 1
  <2>1. PICK d \in Nat : P = q + 1 + d
    <3>1. P - q - 1 \in Nat /\ P = q + 1 + (P - q - 1)
      BY <1>1, <1>4
    <3> QED
      BY <3>1
  <2>2. P * B = q * B + B + d * B
    BY <1>2, <2>1
  <2>3. d * B \in Nat
    BY <1>2
  <2> QED
    BY <1>2, <1>6, <2>2, <2>3
<1>8. OffsetOf(page, pos) = 2 * (k + page) + h
  BY <1>2, <1>4, <1>5, <1>6 DEF OffsetOf
<1>9. PICK T \in Nat : T = PhysPages /\ T = P * B
  BY <1>1, <1>2 DEF PhysPages
<1> QED
  BY <1>5, <1>7, <1>8, <1>9 DEF Offset

\* The bank after the program of its write buffer of t.
ProgramDone(n, t) ==
    LET new == assign_new_write_vpn(n, t)
        blk == new.cur_write_vpn[t].block
        written == [new EXCEPT
                      !.block_list[blk] = Programmed(@, new.cur_write_vpn[t].page, n.writebuf[t]),
                      !.writebuf[t] = <<>>,
                      !.writebuf_index[t] = 0]
    IN  IF t = "RW" THEN Pin(written, blk) ELSE written

Written(n, t, count) ==
    LET new == assign_new_write_vpn(n, t)
        blk == new.cur_write_vpn[t].block
    IN  [new EXCEPT
           !.block_list[blk] = Programmed(@, new.cur_write_vpn[t].page, n.writebuf[t]),
           !.writebuf[t] = <<>>,
           !.writebuf_index[t] = 0,
           !.remap_inbuff_cnt = count]

\* What a program does up to the count of the pages that wait for a remap.
LEMMA BankWritten ==
    ASSUME NEW n, BankInv(n), NEW t \in Type, Obstacle(n, t) = "none",
           DOMAIN n.writebuf[t] = Position,
           NEW count, count = IF t = "RW" THEN 0 ELSE n.remap_inbuff_cnt
    PROVE  LET new == assign_new_write_vpn(n, t)
               blk == new.cur_write_vpn[t].block
               m == Written(n, t, count)
           IN  /\ BankInv(m) /\ blk \in Block
               /\ new.remap_inbuff_cnt = n.remap_inbuff_cnt
               /\ m.RW_log_list = new.RW_log_list
               /\ m.writebuf = [n.writebuf EXCEPT ![t] = <<>>]
               /\ m.writebuf_index = [n.writebuf_index EXCEPT ![t] = 0]
               /\ \A k \in Block : m.block_list[k].remained_remap_cnt = n.block_list[k].remained_remap_cnt
<1> DEFINE new == assign_new_write_vpn(n, t)
           blk == new.cur_write_vpn[t].block
           page == new.cur_write_vpn[t].page
           buf == n.writebuf[t]
           c == PageWritten(new, blk, page, buf)
<1>1. /\ BankInv(new) /\ blk \in Block
      /\ new.writebuf = n.writebuf /\ new.writebuf_index = n.writebuf_index
      /\ \A k \in Block : new.block_list[k].remained_remap_cnt = n.block_list[k].remained_remap_cnt
  BY AssignKeeps
<1>2. new.remap_inbuff_cnt = n.remap_inbuff_cnt
  BY <1>1 DEF BankInv, BuffersOK
<1>3. \A pos \in Position : SpareOf(buf, pos) \in Home
  BY BufferSpare
<1> HIDE DEF new, buf, blk, page
<1>4. /\ BankInv(c)
      /\ DOMAIN c = BankField
      /\ \A f \in BankField \ {"block_list"} : c[f] = new[f]
      /\ \A k \in Block : c.block_list[k].remained_remap_cnt = new.block_list[k].remained_remap_cnt
  <2>1. DOMAIN buf = Position
    BY DEF buf
  <2>2. BankInv(new)
    BY <1>1
  <2> QED
    BY <1>3, <2>1, <2>2, ProgramKeeps
<1> DEFINE m == WithoutBuffer(c, t, count)
<1>5. Written(n, t, count) = m
  BY DEF Written, new, blk, page, buf, PageWritten, WithoutBuffer
<1> HIDE DEF c
<1>6. /\ c.remap_inbuff_cnt = n.remap_inbuff_cnt /\ c.RW_log_list = new.RW_log_list
      /\ c.writebuf = n.writebuf /\ c.writebuf_index = n.writebuf_index
  BY <1>1, <1>2, <1>4 DEF BankField
<1>7. /\ BankInv(m)
      /\ \A f \in BankField \ {"writebuf", "writebuf_index", "remap_inbuff_cnt"} : m[f] = c[f]
      /\ m.writebuf = [c.writebuf EXCEPT ![t] = <<>>]
      /\ m.writebuf_index = [c.writebuf_index EXCEPT ![t] = 0]
  <2>1. count = IF t = "RW" THEN 0 ELSE c.remap_inbuff_cnt
    BY <1>6
  <2> QED
    BY <1>4, <2>1, BufferEmptied
<1> HIDE DEF m
<1>8. m.RW_log_list = new.RW_log_list /\ m.block_list = c.block_list
  BY <1>6, <1>7 DEF BankField
<1>9. /\ m.writebuf = [n.writebuf EXCEPT ![t] = <<>>]
      /\ m.writebuf_index = [n.writebuf_index EXCEPT ![t] = 0]
      /\ \A k \in Block : m.block_list[k].remained_remap_cnt = n.block_list[k].remained_remap_cnt
  BY <1>1, <1>4, <1>6, <1>7, <1>8
<1> QED
  BY <1>1, <1>2, <1>5, <1>7, <1>8, <1>9 DEF new, buf, blk, page

\* A program of home addresses.
LEMMA HomeProgram ==
    ASSUME NEW n, BankInv(n), Obstacle(n, "SW") = "none", DOMAIN n.writebuf["SW"] = Position
    PROVE  LET m == ProgramDone(n, "SW")
           IN  /\ SlotQuiet(n, m)
               /\ m.writebuf = [n.writebuf EXCEPT !["SW"] = <<>>]
               /\ m.writebuf_index = [n.writebuf_index EXCEPT !["SW"] = 0]
<1> DEFINE new == assign_new_write_vpn(n, "SW")
           blk == new.cur_write_vpn["SW"].block
           m == ProgramDone(n, "SW")
           count == n.remap_inbuff_cnt
           full == Written(n, "SW", count)
<1>1. /\ BankInv(full) /\ new.remap_inbuff_cnt = n.remap_inbuff_cnt
      /\ full.RW_log_list = new.RW_log_list
      /\ full.writebuf = [n.writebuf EXCEPT !["SW"] = <<>>]
      /\ full.writebuf_index = [n.writebuf_index EXCEPT !["SW"] = 0]
      /\ \A k \in Block : full.block_list[k].remained_remap_cnt = n.block_list[k].remained_remap_cnt
  <2>1. "SW" \in Type /\ count = IF "SW" = "RW" THEN 0 ELSE n.remap_inbuff_cnt
    BY DEF Type
  <2> QED
    BY <2>1, BankWritten
<1>2. BankInv(new) /\ new.RW_log_list = n.RW_log_list
  BY AssignKeeps DEF Type
<1>3. m = full
  <2>1. m = [new EXCEPT
               !.block_list[blk] = Programmed(@, new.cur_write_vpn["SW"].page, n.writebuf["SW"]),
               !.writebuf["SW"] = <<>>,
               !.writebuf_index["SW"] = 0]
    BY DEF ProgramDone
  <2>2. DOMAIN new = BankField
    BY <1>2 DEF BankInv, BankShape
  <2>3. full = [new EXCEPT
                  !.block_list[blk] = Programmed(@, new.cur_write_vpn["SW"].page, n.writebuf["SW"]),
                  !.writebuf["SW"] = <<>>,
                  !.writebuf_index["SW"] = 0,
                  !.remap_inbuff_cnt = count]
    BY DEF Written
  <2> DEFINE info == Programmed(new.block_list[blk], new.cur_write_vpn["SW"].page, n.writebuf["SW"])
             a == [new EXCEPT !.block_list[blk] = info, !.writebuf["SW"] = <<>>,
                              !.writebuf_index["SW"] = 0]
  <2>4. m = a /\ full = [a EXCEPT !.remap_inbuff_cnt = count]
    <3> HIDE DEF m, new, full
    <3> QED
      BY <2>1, <2>3
  <2> HIDE DEF m, new, full, info, blk
  <2>5. a.remap_inbuff_cnt = count /\ DOMAIN a = BankField
    BY <1>1, <2>2 DEF BankField
  <2>6. a = [f \in BankField |-> a[f]]
    BY <2>2
  <2> HIDE DEF a, count
  <2>7. [a EXCEPT !.remap_inbuff_cnt = count] = a
    BY <2>5, <2>6
  <2> QED
    BY <2>4, <2>7
<1> HIDE DEF m, full
<1>4. m.writebuf["RW"] = n.writebuf["RW"]
  <2>1. DOMAIN n.writebuf = {"SW", "RW"}
    BY DEF BankInv, BankShape, Type
  <2> QED
    BY <1>1, <1>3, <2>1
<1>5. SlotQuiet(n, m)
  BY <1>1, <1>2, <1>3, <1>4 DEF SlotQuiet
<1> QED
  BY <1>1, <1>3, <1>5 DEF m

\* A program of log pages: they wait for their remaps, but for those that were
\* remapped in the buffer.
LEMMA LogProgram ==
    ASSUME NEW n, BankInv(n), Obstacle(n, "RW") = "none", DOMAIN n.writebuf["RW"] = Position
    PROVE  LET m == ProgramDone(n, "RW")
               blk == assign_new_write_vpn(n, "RW").cur_write_vpn["RW"].block
           IN  /\ BankInv(m) /\ blk \in Block
               /\ m.writebuf = [n.writebuf EXCEPT !["RW"] = <<>>]
               /\ m.writebuf_index = [n.writebuf_index EXCEPT !["RW"] = 0]
               /\ m.block_list[blk].remained_remap_cnt =
                        n.block_list[blk].remained_remap_cnt + SuperPage - n.remap_inbuff_cnt
               /\ \A k \in Block : k # blk => m.block_list[k].remained_remap_cnt
                                                = n.block_list[k].remained_remap_cnt
               /\ \A k \in ToSet(n.RW_log_list) \cup {blk} :
                        \/ k \in ToSet(m.RW_log_list)
                        \/ k = blk /\ m.block_list[blk].remained_remap_cnt = 0
<1> DEFINE new == assign_new_write_vpn(n, "RW")
           blk == new.cur_write_vpn["RW"].block
           m == ProgramDone(n, "RW")
           c == Written(n, "RW", 0)
           k0 == n.block_list[blk].remained_remap_cnt + SuperPage - n.remap_inbuff_cnt
           d == WithRemained(c, blk, k0)
<1>1. /\ BankInv(c) /\ blk \in Block /\ new.remap_inbuff_cnt = n.remap_inbuff_cnt
      /\ c.RW_log_list = new.RW_log_list
      /\ c.writebuf = [n.writebuf EXCEPT !["RW"] = <<>>]
      /\ c.writebuf_index = [n.writebuf_index EXCEPT !["RW"] = 0]
      /\ \A k \in Block : c.block_list[k].remained_remap_cnt = n.block_list[k].remained_remap_cnt
  <2>1. "RW" \in Type /\ 0 = IF "RW" = "RW" THEN 0 ELSE n.remap_inbuff_cnt
    BY DEF Type
  <2> QED
    BY <2>1, BankWritten
<1>2. /\ BankInv(new) /\ blk \in ToSet(new.RW_log_list)
      /\ ToSet(n.RW_log_list) \subseteq ToSet(new.RW_log_list)
  BY AssignKeeps DEF Type
<1>3. m = Settle(d, blk)
  <2> DEFINE info == Programmed(new.block_list[blk], new.cur_write_vpn["RW"].page, n.writebuf["RW"])
             written == [new EXCEPT !.block_list[blk] = info,
                                    !.writebuf["RW"] = <<>>,
                                    !.writebuf_index["RW"] = 0]
             pinned == [written EXCEPT
                          !.block_list[blk].remained_remap_cnt = @ + SuperPage - written.remap_inbuff_cnt,
                          !.remap_inbuff_cnt = 0]
  <2>1. m = Settle(pinned, blk)
    BY DEF ProgramDone, Pin
  <2>2. DOMAIN new = BankField /\ DOMAIN new.block_list = Block
    BY <1>2 DEF BankInv, BankShape
  <2>3. c = [new EXCEPT !.block_list[blk] = info, !.writebuf["RW"] = <<>>,
                        !.writebuf_index["RW"] = 0, !.remap_inbuff_cnt = 0]
    BY DEF Written
  <2> HIDE DEF new, m, info, c
  <2>4. /\ c.block_list = [new.block_list EXCEPT ![blk] = info]
        /\ DOMAIN c = BankField
        /\ c.block_list[blk] = info
    BY <1>1, <2>2, <2>3 DEF BankField
  <2>5. info.remained_remap_cnt = n.block_list[blk].remained_remap_cnt
    BY <1>1, <2>4
  <2>6. written.block_list[blk] = info /\ written.remap_inbuff_cnt = n.remap_inbuff_cnt
    BY <1>1, <2>2 DEF BankField
  <2>7. pinned = [written EXCEPT !.block_list[blk].remained_remap_cnt = k0, !.remap_inbuff_cnt = 0]
    BY <2>5, <2>6
  <2>8. d = [written EXCEPT !.block_list[blk].remained_remap_cnt = k0, !.remap_inbuff_cnt = 0]
    <3>1. c = [written EXCEPT !.remap_inbuff_cnt = 0]
      BY <2>3
    <3>2. DOMAIN written = BankField
      BY <2>2
    <3> HIDE DEF written
    <3> QED
      BY <3>1, <3>2 DEF BankField, WithRemained
  <2> QED
    BY <2>1, <2>7, <2>8
<1> HIDE DEF c, k0, new, blk
<1>4. /\ BankInv(d)
      /\ \A f \in BankField \ {"block_list"} : d[f] = c[f]
      /\ d.block_list[blk].remained_remap_cnt = k0
      /\ \A k \in Block : k # blk => d.block_list[k] = c.block_list[k]
  BY <1>1, RemainedSet
<1> HIDE DEF d
<1>5. d.RW_log_list = new.RW_log_list /\ d.writebuf = c.writebuf /\ d.writebuf_index = c.writebuf_index
  BY <1>1, <1>4 DEF BankField
<1>6. blk \in Held(d, "RW_log")
  BY <1>2, <1>5, ListsAre DEF Held
<1> HIDE DEF m
<1>7. /\ BankInv(m)
      /\ \A f \in {"block_list", "writebuf", "writebuf_index", "cur_write_vpn"} : m[f] = d[f]
      /\ \/ m.RW_log_list = d.RW_log_list
         \/ /\ d.block_list[blk].remained_remap_cnt = 0
            /\ ToSet(m.RW_log_list) = ToSet(d.RW_log_list) \ {blk}
  BY <1>3, <1>4, <1>6, SettleKeeps
<1>8. m.block_list = d.block_list /\ m.writebuf = d.writebuf /\ m.writebuf_index = d.writebuf_index
  BY <1>7
<1>9. \A k \in ToSet(n.RW_log_list) \cup {blk} :
        \/ k \in ToSet(m.RW_log_list)
        \/ k = blk /\ m.block_list[blk].remained_remap_cnt = 0
  BY <1>2, <1>5, <1>7, <1>8
<1>10. /\ m.writebuf = [n.writebuf EXCEPT !["RW"] = <<>>]
       /\ m.writebuf_index = [n.writebuf_index EXCEPT !["RW"] = 0]
       /\ m.block_list[blk].remained_remap_cnt = k0
       /\ \A k \in Block : k # blk => m.block_list[k].remained_remap_cnt
                                        = n.block_list[k].remained_remap_cnt
  BY <1>1, <1>4, <1>5, <1>8
<1> QED
  BY <1>1, <1>7, <1>9, <1>10 DEF m, blk, new, k0

\* The slots whose pages a program of log pages writes.
SlotsOf(buf) == {buf[pos].req : pos \in {p \in DOMAIN buf : buf[p].req \in SlotLPN}}

\* There are as many as positions that still hold a slot.
LEMMA SlotsCounted ==
    ASSUME NEW banks, NEW map, SlotInv(banks, map), NEW b \in Bank,
           DOMAIN banks[b].writebuf["RW"] = Position
    PROVE  LET buf == banks[b].writebuf["RW"]
           IN  /\ IsFiniteSet(SlotsOf(buf))
               /\ Cardinality(SlotsOf(buf)) = SuperPage - banks[b].remap_inbuff_cnt
               /\ Cardinality(SlotsOf(buf)) \in Nat
               /\ \A pos, p \in Position : buf[pos].req \in SlotLPN /\ buf[pos].req = buf[p].req => pos = p
<1> DEFINE buf == banks[b].writebuf["RW"]
           held == {p \in DOMAIN buf : buf[p].req \in SlotLPN}
           f == [p \in held |-> buf[p].req]
<1>1. \A pos, p \in Position : buf[pos].req \in SlotLPN /\ buf[pos].req = buf[p].req => pos = p
  <2> SUFFICES ASSUME NEW pos \in Position, NEW p \in Position,
                      buf[pos].req \in SlotLPN, buf[pos].req = buf[p].req
               PROVE  pos = p
    OBVIOUS
  <2>1. Buffered(b, "RW", pos) = Buffered(b, "RW", p)
    BY DEF SlotInv, BufferMaps
  <2> QED
    BY <2>1 DEF Buffered
<1>2. IsFiniteSet(Position) /\ Cardinality(Position) = SuperPage
  <2>1. PICK k \in Nat : k = SuperPage
    BY FlashFacts
  <2>2. IsFiniteSet(0 .. k - 1) /\ Cardinality(0 .. k - 1) = IF 0 > k - 1 THEN 0 ELSE k - 1 - 0 + 1
    BY <2>1, FS_Interval
  <2>3. k - 1 - 0 + 1 = k /\ (0 > k - 1 => k = 0)
    BY <2>1
  <2> QED
    BY <2>1, <2>2, <2>3 DEF Position
<1>3. held = Position \ Unslotted(buf) /\ Unslotted(buf) \subseteq Position
  BY DEF Unslotted
<1>4. /\ IsFiniteSet(held) /\ IsFiniteSet(Unslotted(buf))
      /\ Cardinality(held) = SuperPage - Cardinality(Unslotted(buf))
      /\ Cardinality(held) \in Nat
  <2>1. IsFiniteSet(Unslotted(buf))
    BY <1>2, <1>3, FS_Subset
  <2>2. Position \cap Unslotted(buf) = Unslotted(buf)
    BY <1>3
  <2>3. IsFiniteSet(held) /\ Cardinality(held) = Cardinality(Position) - Cardinality(Position \cap Unslotted(buf))
    BY <1>2, <1>3, <2>1, FS_Difference
  <2> QED
    BY <1>2, <2>1, <2>2, <2>3, FS_CardinalityType
<1>5. Cardinality(Unslotted(buf)) = banks[b].remap_inbuff_cnt
  BY DEF SlotInv, BankInv, BuffersOK
<1>6. IsFiniteSet(SlotsOf(buf)) /\ Cardinality(SlotsOf(buf)) = Cardinality(held)
  <2>1. f \in [held -> SlotsOf(buf)]
    BY DEF SlotsOf
  <2>2. \A p, q \in held : f[p] = f[q] => p = q
    BY <1>1
  <2>3. \A s \in SlotsOf(buf) : \E p \in held : f[p] = s
    BY DEF SlotsOf
  <2> HIDE DEF f, held
  <2> QED
    BY <1>4, <2>1, <2>2, <2>3, BijectionCounted
<1> QED
  BY <1>1, <1>4, <1>5, <1>6

\* The slots' pages are in the block of log pages that was written, and wait.
LEMMA SlotsProgrammed ==
    ASSUME NEW banks, NEW map, SlotInv(banks, map), DOMAIN banks = Bank, NEW b \in Bank,
           DOMAIN banks[b].writebuf["RW"] = Position,
           NEW blk \in Block, NEW m, BankInv(m),
           DOMAIN m.writebuf["RW"] = {},
           m.block_list[blk].remained_remap_cnt =
                banks[b].block_list[blk].remained_remap_cnt + SuperPage - banks[b].remap_inbuff_cnt,
           \A k \in Block : k # blk => m.block_list[k].remained_remap_cnt
                                         = banks[b].block_list[k].remained_remap_cnt,
           \A k \in ToSet(banks[b].RW_log_list) \cup {blk} :
                \/ k \in ToSet(m.RW_log_list)
                \/ k = blk /\ m.block_list[blk].remained_remap_cnt = 0,
           NEW banks2, banks2[b] = m, \A c \in Bank : c # b => banks2[c] = banks[c],
           NEW map2,
           \A s \in SlotLPN : s \in SlotsOf(banks[b].writebuf["RW"]) =>
                \E off \in Offset : map2[s] = Flash(b, blk, off),
           \A s \in SlotLPN : s \notin SlotsOf(banks[b].writebuf["RW"]) => map2[s] = map[s]
    PROVE  SlotInv(banks2, map2)
<1> DEFINE n == banks[b]
           buf == n.writebuf["RW"]
           slots == SlotsOf(buf)
<1>1. \A c \in Bank : BankInv(banks2[c])
  BY DEF SlotInv
<1>2. ASSUME NEW s \in slots
      PROVE  /\ s \in SlotLPN /\ \E pos \in Position : map[s] = Buffered(b, "RW", pos)
             /\ ~InFlash(map[s]) /\ map[s] # VC_MAX
             /\ InFlash(map2[s]) /\ map2[s].bank = b /\ map2[s].block = blk
  <2>1. PICK pos \in Position : buf[pos].req = s /\ s \in SlotLPN
    BY DEF SlotsOf
  <2>2. map[s] = Buffered(b, "RW", pos)
    BY <2>1 DEF SlotInv, BufferMaps
  <2>3. ~InFlash(map[s]) /\ map[s] # VC_MAX
    BY <2>2, BufferPlace DEF Type
  <2>4. PICK off \in Offset : map2[s] = Flash(b, blk, off)
    BY <2>1
  <2>5. InFlash(map2[s]) /\ map2[s].bank = b /\ map2[s].block = blk
    BY <2>4, FlashPlace
  <2> QED
    BY <2>1, <2>2, <2>3, <2>5
<1>3. /\ IsFiniteSet(slots) /\ Cardinality(slots) \in Nat
      /\ Cardinality(slots) = SuperPage - n.remap_inbuff_cnt
  BY SlotsCounted
<1>4. slots \subseteq SlotLPN
  BY DEF SlotsOf
<1> HIDE DEF slots
<1>5. ASSUME NEW c \in Bank, NEW k \in Block
      PROVE  /\ banks2[c].block_list[k].remained_remap_cnt = Cardinality(MappedIn(map2, c, k))
             /\ IsFiniteSet(MappedIn(map2, c, k))
  <2>1. IsFiniteSet(MappedIn(map, c, k)) /\ IsFiniteSet(MappedIn(map2, c, k))
    <3>1. MappedIn(map, c, k) \in SUBSET SlotLPN /\ MappedIn(map2, c, k) \in SUBSET SlotLPN
      BY DEF MappedIn
    <3> QED
      BY <3>1, FlashFacts, FS_Subset
  <2>2. \A s \in SlotLPN : s \notin slots => map2[s] = map[s]
    BY DEF slots
  <2>3. banks[c].block_list[k].remained_remap_cnt = Cardinality(MappedIn(map, c, k))
    BY DEF SlotInv
  <2>4. CASE c = b /\ k = blk
    <3>1. MappedIn(map2, c, k) = MappedIn(map, c, k) \cup slots /\ MappedIn(map, c, k) \cap slots = {}
      BY <1>2, <1>4, <2>2, <2>4 DEF MappedIn
    <3>2. Cardinality(MappedIn(map2, c, k)) = Cardinality(MappedIn(map, c, k)) + Cardinality(slots)
      <4>1. Cardinality(MappedIn(map, c, k) \cup slots) =
                Cardinality(MappedIn(map, c, k)) + Cardinality(slots) - Cardinality(MappedIn(map, c, k) \cap slots)
        BY <1>3, <2>1, FS_Union
      <4>2. Cardinality(MappedIn(map, c, k) \cap slots) = 0
        BY <3>1, FS_EmptySet
      <4>3. Cardinality(MappedIn(map, c, k)) \in Nat
        BY <2>1, FS_CardinalityType
      <4> QED
        BY <1>3, <3>1, <4>1, <4>2, <4>3
    <3>3. PICK x \in Nat : x = Cardinality(MappedIn(map, c, k))
      BY <2>1, FS_CardinalityType
    <3>4. m.block_list[blk].remained_remap_cnt = x + SuperPage - n.remap_inbuff_cnt
      BY <2>3, <2>4, <3>3
    <3>5. SuperPage \in Nat /\ n.remap_inbuff_cnt \in Nat
      <4>1. n.remap_inbuff_cnt = Cardinality(Unslotted(buf))
        BY DEF SlotInv, BankInv, BuffersOK
      <4>2. Unslotted(buf) \subseteq Position
        BY DEF Unslotted
      <4>3. IsFiniteSet(Unslotted(buf))
        BY <4>2, FlashFacts, FS_Subset
      <4> QED
        BY <4>1, <4>3, FlashFacts, FS_CardinalityType
    <3>6. x + SuperPage - n.remap_inbuff_cnt = x + (SuperPage - n.remap_inbuff_cnt)
      BY <3>3, <3>5
    <3> QED
      BY <1>3, <2>1, <2>4, <3>2, <3>3, <3>4, <3>6
  <2>5. CASE ~(c = b /\ k = blk)
    <3>1. MappedIn(map2, c, k) = MappedIn(map, c, k)
      BY <1>2, <2>2, <2>5 DEF MappedIn
    <3>2. banks2[c].block_list[k].remained_remap_cnt = banks[c].block_list[k].remained_remap_cnt
      BY <2>5
    <3> QED
      BY <2>1, <2>3, <3>1, <3>2
  <2> QED
    BY <2>4, <2>5
<1>6. ASSUME NEW x \in SlotLPN, NEW k \in ToSet(n.RW_log_list) \cup {blk}, k \in Block,
             InFlash(map2[x]), map2[x].bank = b, map2[x].block = k
      PROVE  k \in ToSet(m.RW_log_list)
  <2> SUFFICES ASSUME k = blk, m.block_list[blk].remained_remap_cnt = 0
               PROVE  FALSE
    OBVIOUS
  <2>1. Cardinality(MappedIn(map2, b, blk)) = 0 /\ IsFiniteSet(MappedIn(map2, b, blk))
    BY <1>5
  <2>2. MappedIn(map2, b, blk) = {}
    BY <2>1, FS_EmptySet
  <2> QED
    BY <1>6, <2>2 DEF MappedIn
<1>7. ASSUME NEW x \in SlotLPN
      PROVE  map2[x] = VC_MAX \/ InLogBlock(banks2, map2[x]) \/ InLogBuffer(banks2, map2[x], x)
  <2>1. CASE x \in slots
    <3>1. PICK off \in Offset : map2[x] = Flash(b, blk, off)
      BY <2>1 DEF slots
    <3>2. blk \in ToSet(m.RW_log_list)
      BY <1>2, <1>6, <2>1
    <3> QED
      BY <3>1, <3>2 DEF InLogBlock
  <2>2. CASE x \notin slots /\ map[x] = VC_MAX
    BY <2>2 DEF slots
  <2>3. CASE x \notin slots /\ InLogBlock(banks, map[x])
    <3>0. PICK c \in Bank : \E k \in ToSet(banks[c].RW_log_list), y \in Offset : map[x] = Flash(c, k, y)
      BY <2>3 DEF InLogBlock
    <3>1. PICK k \in ToSet(banks[c].RW_log_list), y \in Offset : map[x] = Flash(c, k, y)
      BY <3>0
    <3>2. k \in Block
      <4>1. Held(banks[c], "RW_log") \subseteq Block
        BY DEF SlotInv, BankInv, Conserved, ListName
      <4> QED
        BY <4>1, ListsAre DEF Held
    <3>3. map2[x] = Flash(c, k, y)
      BY <2>3, <3>1 DEF slots
    <3>4. InFlash(map2[x]) /\ map2[x].bank = c /\ map2[x].block = k
      BY <3>2, <3>3, FlashPlace
    <3>5. k \in ToSet(banks2[c].RW_log_list)
      <4>1. CASE c = b
        BY <1>6, <3>2, <3>4, <4>1
      <4>2. CASE c # b
        BY <4>2
      <4> QED
        BY <4>1, <4>2
    <3> QED
      BY <3>3, <3>5 DEF InLogBlock
  <2>4. CASE x \notin slots /\ InLogBuffer(banks, map[x], x)
    <3>0. PICK c \in Bank : \E p \in DOMAIN banks[c].writebuf["RW"] :
            map[x] = Buffered(c, "RW", p) /\ banks[c].writebuf["RW"][p].req = x
      BY <2>4 DEF InLogBuffer
    <3>1. PICK p \in DOMAIN banks[c].writebuf["RW"] :
            map[x] = Buffered(c, "RW", p) /\ banks[c].writebuf["RW"][p].req = x
      BY <3>0
    <3>2. c # b
      BY <2>4, <3>1 DEF slots, SlotsOf
    <3>3. map2[x] = map[x] /\ banks2[c] = banks[c]
      BY <2>4, <3>2 DEF slots
    <3> QED
      BY <3>1, <3>3 DEF InLogBuffer
  <2> QED
    BY <2>1, <2>2, <2>3, <2>4 DEF SlotInv
<1>8. BufferMaps(banks2, map2)
  <2>1. ASSUME NEW c \in Bank, NEW p \in DOMAIN banks2[c].writebuf["RW"],
               banks2[c].writebuf["RW"][p].req \in SlotLPN
        PROVE  map2[banks2[c].writebuf["RW"][p].req] = Buffered(c, "RW", p)
    <3> DEFINE x == banks2[c].writebuf["RW"][p].req
    <3>1. c # b /\ banks2[c] = banks[c]
      BY <2>1
    <3>2. map[x] = Buffered(c, "RW", p)
      BY <2>1, <3>1 DEF SlotInv, BufferMaps
    <3>3. x \notin slots
      <4>1. \A pos \in Position : Buffered(b, "RW", pos) # Buffered(c, "RW", p)
        BY <3>1 DEF Buffered
      <4> QED
        BY <1>2, <3>2, <4>1
    <3> QED
      BY <2>1, <3>2, <3>3 DEF slots
  <2> QED
    BY <2>1 DEF BufferMaps
<1> QED
  BY <1>1, <1>5, <1>7, <1>8 DEF SlotInv
-----------------------------------------------------------------------------
(***************************************************************************)
(* The inductive invariant of FTLBank.                                     *)
(***************************************************************************)
Ranges ==
    /\ DOMAIN nand = Bank /\ DOMAIN vpn = LPN
    /\ twrite \in [SlotLPN -> Home]
    /\ cur_write_bank \in Bank /\ loop \in {0, 1} /\ write_type \in Type \cup {"none", "command"}

\* No write buffer is full but the one that is to be programmed.
FullIsProgrammed ==
    \A b \in Bank, t \in Type : DOMAIN nand[b].writebuf[t] = Position =>
        /\ b = cur_write_bank /\ t = write_type
        /\ pc \notin {"page", "gc", "gc_victim", "gc_read", "gc_erase"}
ProgramIsFull ==
    pc = "program" =>
        write_type \in Type /\ DOMAIN nand[cur_write_bank].writebuf[write_type] = Position

\* The second half of the call's buffer has its place behind the first.
TailIsFree ==
    kept =>
        LET n == nand[cur_write_bank]
        IN  /\ write_type \in Type /\ n.writebuf_index[write_type] > 0
            /\ 2 * n.writebuf_index[write_type] - 1 \notin DOMAIN n.writebuf[write_type]

\* What the collector reads is there; what the host may remap is there.
VictimAtHand == pc = "gc_read" => nand[GCBank].cur_vt_vpn # VC_MAX
RemapIsMapped == \A s \in SlotLPN : twrite[s] # RSP_INVALID_LPN => vpn[s] # VC_MAX

FTLInv ==
    /\ SlotInv(nand, vpn)
    /\ Ranges
    /\ FullIsProgrammed
    /\ ProgramIsFull
    /\ TailIsFree
    /\ VictimAtHand
    /\ RemapIsMapped

\* The collector works on a bank.
LEMMA GCBankIsBank ==
    ASSUME Ranges
    PROVE  GCBank \in Bank
<1>1. PICK N \in Nat : N = NumBank /\ N > 0
  BY FlashFacts
<1>2. PICK c \in Nat : c = cur_write_bank
  BY <1>1 DEF Ranges, Bank
<1>3. PICK h \in Nat : h = N \div 2
  BY <1>1
<1>4. GCBank = (c + h) % N
  BY <1>1, <1>2, <1>3 DEF GCBank
<1>5. (c + h) % N \in 0 .. N - 1
  BY <1>1, <1>2, <1>3
<1> QED
  BY <1>1, <1>4, <1>5 DEF Bank

\* A step of the collector, or one that starts a half or ends it without a page.
LEMMA ControlKept ==
    ASSUME FTLInv, pc \in {"page", "gc", "gc_victim", "gc_read", "gc_erase"},
           SlotInv(nand', vpn'), BuffersStay(nand, nand'),
           DOMAIN vpn' = LPN, \A s \in SlotLPN : vpn'[s] = vpn[s],
           UNCHANGED <<twrite, cur_write_bank>>,
           NextHalf \/ (pc' # "program" /\ UNCHANGED <<loop, write_type, kept>>),
           pc' = "gc_read" => nand'[GCBank].cur_vt_vpn # VC_MAX
    PROVE  FTLInv'
<1>1. Ranges'
  <2>1. loop' \in {0, 1} /\ write_type' \in Type \cup {"none", "command"}
    BY DEF FTLInv, Ranges, NextHalf
  <2>2. DOMAIN nand' = Bank
    BY DEF BuffersStay
  <2> QED
    BY <2>1, <2>2 DEF FTLInv, Ranges
<1>2. \A b \in Bank, t \in Type : /\ DOMAIN nand'[b].writebuf[t] = DOMAIN nand[b].writebuf[t]
                                  /\ nand'[b].writebuf_index = nand[b].writebuf_index
  BY DEF BuffersStay
<1>3. \A b \in Bank, t \in Type : DOMAIN nand[b].writebuf[t] # Position
  BY DEF FTLInv, FullIsProgrammed
<1>4. FullIsProgrammed'
  BY <1>2, <1>3 DEF FullIsProgrammed
<1>5. pc' # "program"
  BY DEF NextHalf
<1>6. ProgramIsFull'
  BY <1>5 DEF ProgramIsFull
<1>7. TailIsFree'
  <2> SUFFICES ASSUME kept'
               PROVE  /\ write_type' \in Type
                      /\ nand'[cur_write_bank'].writebuf_index[write_type'] > 0
                      /\ 2 * nand'[cur_write_bank'].writebuf_index[write_type'] - 1
                            \notin DOMAIN nand'[cur_write_bank'].writebuf[write_type']
    BY DEF TailIsFree
  <2>1. kept /\ write_type' = write_type
    <3>1. CASE NextHalf
      <4>1. kept' = (loop = 0 /\ kept) /\ write_type' = IF loop = 1 THEN "none" ELSE write_type
        BY <3>1 DEF NextHalf
      <4>2. loop = 0 /\ kept
        BY <4>1, Zenon
      <4> QED
        BY <4>1, <4>2
    <3>2. CASE UNCHANGED <<loop, write_type, kept>>
      BY <3>2
    <3> QED
      BY <3>1, <3>2
  <2>2. cur_write_bank' = cur_write_bank /\ cur_write_bank \in Bank
    BY DEF FTLInv, Ranges
  <2>3. /\ write_type \in Type
        /\ nand[cur_write_bank].writebuf_index[write_type] > 0
        /\ 2 * nand[cur_write_bank].writebuf_index[write_type] - 1
              \notin DOMAIN nand[cur_write_bank].writebuf[write_type]
    BY <2>1 DEF FTLInv, TailIsFree
  <2> QED
    BY <1>2, <2>1, <2>2, <2>3
<1>8. VictimAtHand'
  BY DEF VictimAtHand, GCBank
<1>9. RemapIsMapped'
  BY DEF FTLInv, RemapIsMapped
<1> QED
  BY <1>1, <1>4, <1>6, <1>7, <1>8, <1>9 DEF FTLInv

\* A step of the collector on its bank.
LEMMA GCStep ==
    ASSUME FTLInv, pc \in {"gc_victim", "gc_read", "gc_erase"},
           NEW m, nand' = [nand EXCEPT ![GCBank] = m], Quiet(nand[GCBank], m),
           DOMAIN vpn' = LPN, \A s \in SlotLPN : vpn'[s] = vpn[s],
           UNCHANGED <<twrite, cur_write_bank>>,
           NextHalf \/ (pc' # "program" /\ UNCHANGED <<loop, write_type, kept>>),
           pc' = "gc_read" => m.cur_vt_vpn # VC_MAX
    PROVE  FTLInv'
<1>1. GCBank \in Bank /\ SlotInv(nand, vpn) /\ DOMAIN nand = Bank
  BY GCBankIsBank DEF FTLInv, Ranges
<1>2. SlotInv(nand', vpn') /\ BuffersStay(nand, nand')
  <2> DEFINE new == [nand EXCEPT ![GCBank] = m]
  <2>1. SlotInv(new, vpn') /\ BuffersStay(nand, new)
    BY <1>1, QuietBank
  <2> QED
    BY <2>1
<1>3. nand'[GCBank] = m
  BY <1>1
<1>4. pc' = "gc_read" => nand'[GCBank].cur_vt_vpn # VC_MAX
  BY <1>3
<1> QED
  BY <1>2, <1>4, ControlKept

\* Nothing of the flash changes.
LEMMA IdleStep ==
    ASSUME FTLInv, pc \in {"page", "gc", "gc_victim", "gc_read", "gc_erase"},
           UNCHANGED <<nand, vpn, twrite, cur_write_bank>>,
           NextHalf \/ (pc' \notin {"program", "gc_read"} /\ UNCHANGED <<loop, write_type, kept>>)
    PROVE  FTLInv'
<1>1. SlotInv(nand', vpn') /\ BuffersStay(nand, nand') /\ DOMAIN vpn' = LPN
  BY DEF FTLInv, BuffersStay, Ranges
<1>2. pc' # "gc_read" /\ (NextHalf \/ (pc' # "program" /\ UNCHANGED <<loop, write_type, kept>>))
  BY DEF NextHalf
<1> QED
  BY <1>1, <1>2, ControlKept

\* A half without a page.
LEMMA NoPageKeeps ==
    ASSUME FTLInv, NoPage
    PROVE  FTLInv'
BY IdleStep DEF NoPage

\* The collector is asked for, or not.
LEMMA IncrementalGCKeeps ==
    ASSUME FTLInv, incremental_GC
    PROVE  FTLInv'
<1>1. CASE Len(nand[GCBank].free_list) <= GC_THRESHOLD
  BY <1>1, IdleStep DEF incremental_GC
<1>2. CASE ~(Len(nand[GCBank].free_list) <= GC_THRESHOLD)
  BY <1>2, IdleStep DEF incremental_GC
<1> QED
  BY <1>1, <1>2

\* No victim is without valid pages: the next round, or the end of the call.
LEMMA NothingToEraseKeeps ==
    ASSUME FTLInv, NothingToErase
    PROVE  FTLInv'
<1>1. NextHalf \/ (pc' \notin {"program", "gc_read"} /\ UNCHANGED <<loop, write_type, kept>>)
  BY DEF NothingToErase
<1>2. UNCHANGED <<nand, vpn, twrite, cur_write_bank>> /\ pc = "gc_erase"
  BY DEF NothingToErase
<1> QED
  BY <1>1, <1>2, IdleStep

\* A victim is chosen and read, or one is to be erased.
LEMMA ChooseVictimKeeps ==
    ASSUME FTLInv, ChooseVictim
    PROVE  FTLInv'
<1> DEFINE n == nand[GCBank]
           blk == get_vt_vblock(n)
           full == blk = VC_MAX \/ n.block_list[blk].vcount > 2 * PhysPages - SuperPage
           headEmpty == n.victim_list # <<>> /\ n.block_list[Head(n.victim_list)].vcount = 0
           chosen == IF headEmpty \/ n.cur_vt_vpn # VC_MAX THEN n ELSE TakeVictim(n, blk)
           vt == chosen.cur_vt_vpn
           none == ~headEmpty /\ n.cur_vt_vpn = VC_MAX /\ full
<1>1. /\ pc = "gc_victim"
      /\ IF none THEN pc' = "exhausted" /\ UNCHANGED nand
         ELSE /\ nand' = [nand EXCEPT ![GCBank] = chosen]
              /\ pc' = IF headEmpty \/ vt = VC_MAX THEN "gc_erase"
                       ELSE IF chosen.block_list[vt.block].vcount = 0 THEN "gc_erase"
                       ELSE "gc_read"
      /\ UNCHANGED <<vpn, copies, twrite, cur_write_bank, loop, write_type, kept, reads>>
  BY DEF ChooseVictim
<1>2. BankInv(n)
  BY GCBankIsBank DEF FTLInv, SlotInv
<1>3. CASE none
  <2> HIDE DEF none
  <2> QED
    BY <1>1, <1>3, IdleStep
<1>4. CASE ~none
  <2>1. Quiet(n, chosen)
    <3>1. CASE headEmpty \/ n.cur_vt_vpn # VC_MAX
      <4>1. chosen = n
        BY <3>1
      <4> HIDE DEF chosen, n
      <4> QED
        BY <1>2, <4>1 DEF Quiet
    <3>2. CASE ~(headEmpty \/ n.cur_vt_vpn # VC_MAX)
      <4>1. blk # VC_MAX
        BY <1>4, <3>2
      <4>2. blk \in Held(n, "data")
        <5>1. Candidates(n) # {}
          BY <4>1 DEF get_vt_vblock
        <5> QED
          BY <1>2, <5>1, VictimIsData
      <4>3. chosen = TakeVictim(n, blk)
        BY <3>2
      <4> HIDE DEF chosen, n, blk
      <4> QED
        BY <1>2, <4>2, <4>3, TakeVictimIsQuiet
    <3> QED
      BY <3>1, <3>2
  <2>2. pc' = "gc_read" => chosen.cur_vt_vpn # VC_MAX
    BY <1>1, <1>4
  <2>3. nand' = [nand EXCEPT ![GCBank] = chosen]
    BY <1>1, <1>4
  <2>4. pc' # "program" /\ UNCHANGED <<loop, write_type, kept>>
    BY <1>1, <1>4
  <2>5. DOMAIN vpn' = LPN /\ \A s \in SlotLPN : vpn'[s] = vpn[s]
    BY <1>1 DEF FTLInv, Ranges
  <2>6. UNCHANGED <<twrite, cur_write_bank>> /\ pc = "gc_victim"
    BY <1>1
  <2> HIDE DEF chosen
  <2> QED
    BY <2>1, <2>2, <2>3, <2>4, <2>5, <2>6, GCStep
<1> QED
  BY <1>3, <1>4

\* The page that the collector reads next.
LEMMA ReadPage ==
    ASSUME NEW from \in Nat, NEW T, T \subseteq from .. PhysPages - 1, T # {}
    PROVE  /\ Min(T) \in 0 .. PhysPages - 1
           /\ 2 * Min(T) \in Offset /\ 2 * Min(T) + 1 \in Offset
<1>1. PICK P \in Nat : P = PhysPages
  BY FlashFacts
<1>2. T \subseteq 0 .. P - 1 /\ T \subseteq Nat
  BY <1>1
<1>3. \E m \in T : \A k \in T : m <= k
  BY <1>2, LeastNatural
<1>4. Min(T) \in T
  BY <1>3 DEF Min
<1>5. PICK p \in 0 .. P - 1 : p = Min(T)
  BY <1>2, <1>4
<1>6. 2 * p \in 0 .. 2 * P - 1 /\ 2 * p + 1 \in 0 .. 2 * P - 1
  BY <1>1, <1>5
<1> QED
  BY <1>1, <1>5, <1>6 DEF Offset

\* What the collector's buffer holds after a page was read.
LEMMA ReadIntoBuffer ==
    ASSUME NEW n, BankInv(n), NEW blk \in Block, NEW page,
           2 * page \in Offset, 2 * page + 1 \in Offset,
           NEW offs \in {<<>>, Readable(n.block_list[blk], page)}
    PROVE  n.GCbuf_lpn \o [i \in DOMAIN offs |-> n.block_list[blk].spare[offs[i]]] \in Seq(Home)
<1> DEFINE info == n.block_list[blk]
           One(off) == IF off \in Halves(info, page) /\ info.spare[off] # RSP_INVALID_LPN
                       THEN <<off>> ELSE <<>>
           spares == [i \in DOMAIN offs |-> info.spare[offs[i]]]
<1>1. \A off \in Offset : One(off) \in Seq(Offset)
  BY EmptySeq
<1>2. Readable(info, page) = One(2 * page) \o One(2 * page + 1)
  BY DEF Readable
<1>3. Readable(info, page) \in Seq(Offset)
  <2> HIDE DEF One
  <2>1. One(2 * page) \in Seq(Offset) /\ One(2 * page + 1) \in Seq(Offset)
    BY <1>1
  <2> QED
    BY <1>2, <2>1, ConcatProperties
<1>4. offs \in Seq(Offset)
  BY <1>3, EmptySeq
<1>5. \A off \in Offset : info.spare[off] \in Home
  BY DEF BankInv, HomeOnly
<1>6. PICK k \in Nat : DOMAIN offs = 1 .. k
  BY <1>4, LenProperties
<1>7. spares \in [1 .. k -> Home]
  <2>1. \A i \in 1 .. k : offs[i] \in Offset
    BY <1>4, <1>6, ElementOfSeq
  <2> HIDE DEF info
  <2> QED
    BY <1>5, <1>6, <2>1
<1>8. spares \in Seq(Home)
  BY <1>6, <1>7, SeqDef
<1>9. n.GCbuf_lpn \in Seq(Home)
  BY DEF BankInv, HomeOnly
<1> HIDE DEF spares
<1>10. n.GCbuf_lpn \o spares \in Seq(Home)
  BY <1>8, <1>9, ConcatProperties
<1> QED
  BY <1>10 DEF spares

\* A page of a victim is read; the buffer is written when it is full.
LEMMA GCReadKeeps ==
    ASSUME FTLInv, GCRead
    PROVE  FTLInv'
<1> DEFINE b == GCBank
           n == nand[b]
           blk == n.cur_vt_vpn.block
           info == n.block_list[blk]
           marked == {p \in n.cur_vt_vpn.page .. PhysPages - 1 : Halves(info, p) # {}}
           more == n.num_gcbuffed < info.vcount
           offs == IF more /\ marked # {} THEN Readable(info, Min(marked)) ELSE <<>>
           page == IF ~more THEN n.cur_vt_vpn.page
                   ELSE IF marked = {} THEN PhysPages ELSE Min(marked) + 1
           buffer == n.GCbuf_lpn \o [i \in DOMAIN offs |-> info.spare[offs[i]]]
           writes == Len(buffer) >= SuperPage
           rest == SubSeq(buffer, SuperPage + 1, Len(buffer))
           front == SubSeq(buffer, 1, SuperPage)
           after == IF writes
                    THEN [write_gc_buffer(n, front) EXCEPT
                             !.GCbuf_lpn = rest, !.num_gcbuffed = Len(rest)]
                    ELSE [n EXCEPT !.GCbuf_lpn = buffer, !.num_gcbuffed = @ + Len(offs)]
           short == writes /\ NeedsBlock(n) /\ n.GC_BLK = VC_MAX
<1>1. pc = "gc_read" /\ UNCHANGED <<twrite, cur_write_bank>>
  BY DEF GCRead
<1>2. short => pc' = "stopped" /\ UNCHANGED <<nand, vpn, loop, write_type, kept>>
  BY DEF GCRead
<1>3. ~short =>
        /\ nand' = [nand EXCEPT ![b] = EndRead(after, blk, page)]
        /\ \/ pc' # "program" /\ pc' # "gc_read" /\ UNCHANGED <<loop, write_type, kept>>
           \/ NextHalf
  BY DEF GCRead
<1>4. ~short => /\ DOMAIN vpn' = LPN
                /\ \A l \in LPN : (~\E i \in 1 .. SuperPage : buffer[i] = l) => vpn'[l] = vpn[l]
                /\ ~writes => \A l \in LPN : vpn'[l] = vpn[l]
  BY DEF GCRead
<1>5. BankInv(n) /\ n.cur_vt_vpn # VC_MAX /\ b \in Bank
  BY <1>1, GCBankIsBank DEF FTLInv, SlotInv, VictimAtHand
<1>6. blk \in Block /\ n.cur_vt_vpn.page \in Nat
  BY <1>5 DEF BankInv, BankShape
<1>7. page \in Nat /\ buffer \in Seq(Home)
  <2> HIDE DEF b, n, blk, more
  <2>1. CASE more /\ marked # {}
    <3>1. /\ Min(marked) \in 0 .. PhysPages - 1
          /\ 2 * Min(marked) \in Offset /\ 2 * Min(marked) + 1 \in Offset
      <4>1. marked \subseteq n.cur_vt_vpn.page .. PhysPages - 1
        OBVIOUS
      <4> HIDE DEF marked
      <4> QED
        BY <1>6, <2>1, <4>1, ReadPage
    <3>2. page = Min(marked) + 1 /\ offs = Readable(info, Min(marked))
      BY <2>1
    <3>3. page \in Nat
      <4> HIDE DEF page, offs, marked
      <4> QED
        BY <3>1, <3>2
    <3>4. buffer \in Seq(Home)
      <4> HIDE DEF offs, page, marked
      <4>1. offs \in {<<>>, Readable(info, Min(marked))}
        BY <3>2
      <4> QED
        BY <1>5, <1>6, <3>1, <4>1, ReadIntoBuffer
    <3> QED
      BY <3>3, <3>4
  <2>2. CASE ~(more /\ marked # {})
    <3>1. offs = <<>>
      BY <2>2
    <3>2. page \in Nat
      <4> HIDE DEF marked
      <4> QED
        BY <1>6, <2>2, FlashFacts
    <3>3. buffer \in Seq(Home)
      <4> HIDE DEF offs
      <4>1. DOMAIN offs = {}
        <5>1. DOMAIN <<>> = {}
          OBVIOUS
        <5> QED
          BY <3>1, <5>1
      <4>2. [i \in DOMAIN offs |-> info.spare[offs[i]]] = <<>>
        BY <4>1
      <4>3. n.GCbuf_lpn \in Seq(Home)
        BY <1>5 DEF BankInv, HomeOnly
      <4>4. <<>> \in Seq(Home)
        BY EmptySeq
      <4> QED
        BY <4>2, <4>3, <4>4, ConcatProperties
    <3> QED
      BY <3>2, <3>3
  <2> QED
    BY <2>1, <2>2
<1> HIDE DEF blk, info, marked, more, offs, page, buffer
<1>8. PICK len \in Nat : len = Len(buffer)
  BY <1>7, LenProperties
<1>9. ASSUME writes
      PROVE  /\ \A i \in 1 .. SuperPage : buffer[i] \in Home
             /\ rest \in Seq(Home)
             /\ \A i \in 1 .. SuperPage : front[i] \in Home
  <2>1. PICK k \in Nat : k = SuperPage /\ k <= len /\ k > 0
    BY <1>8, <1>9, FlashFacts
  <2>2. \A i \in 1 .. len : buffer[i] \in Home
    BY <1>7, <1>8, ElementOfSeq
  <2>3. \A i \in 1 .. SuperPage : buffer[i] \in Home
    BY <1>8, <2>1, <2>2
  <2>4. rest \in Seq(Home)
    <3>1. \A i \in k + 1 .. len : buffer[i] \in Home
      BY <2>1, <2>2
    <3>2. k + 1 \in Int /\ len \in Int
      BY <1>8, <2>1
    <3>3. SubSeq(buffer, k + 1, len) \in Seq(Home)
      BY <3>1, <3>2, SubSeqProperties
    <3> QED
      BY <1>8, <2>1, <3>3
  <2>5. \A i \in 1 .. SuperPage : front[i] \in Home
    <3>1. \A i \in 1 .. k : buffer[i] \in Home
      BY <2>1, <2>3
    <3>2. 1 \in Int /\ k \in Int /\ k - 1 + 1 = k
      BY <2>1
    <3>3. \A i \in 1 .. k - 1 + 1 : SubSeq(buffer, 1, k)[i] = buffer[1 + i - 1]
      BY <3>1, <3>2, SubSeqProperties
    <3>4. \A i \in 1 .. k : 1 + i - 1 = i
      BY <2>1
    <3> QED
      BY <2>1, <3>1, <3>2, <3>3, <3>4
  <2> QED
    BY <2>3, <2>4, <2>5
<1> HIDE DEF rest, front
<1>10. CASE short
  BY <1>1, <1>2, <1>10, IdleStep
<1>11. CASE ~short
  <2>1. Quiet(n, after)
    <3>1. CASE writes
      <4> DEFINE c == write_gc_buffer(n, front)
                 count == Len(rest)
      <4>1. Quiet(n, c)
        BY <1>5, <1>9, <1>11, <3>1, GCWriteIsQuiet
      <4>2. BankInv(c)
        BY <4>1 DEF Quiet
      <4>3. after = [c EXCEPT !.GCbuf_lpn = rest, !.num_gcbuffed = count]
        BY <3>1
      <4> HIDE DEF c, count, after
      <4>4. Quiet(c, [c EXCEPT !.GCbuf_lpn = rest, !.num_gcbuffed = count])
        BY <1>9, <3>1, <4>2, BufferingIsQuiet
      <4> QED
        BY <4>1, <4>3, <4>4, QuietTwice
    <3>2. CASE ~writes
      <4> DEFINE count == n.num_gcbuffed + Len(offs)
      <4>1. after = [n EXCEPT !.GCbuf_lpn = buffer, !.num_gcbuffed = count]
        BY <3>2
      <4> HIDE DEF n, count, after
      <4>2. Quiet(n, [n EXCEPT !.GCbuf_lpn = buffer, !.num_gcbuffed = count])
        BY <1>5, <1>7, BufferingIsQuiet
      <4> QED
        BY <4>1, <4>2
    <3> QED
      BY <3>1, <3>2
  <2> DEFINE m == EndRead(after, blk, page)
  <2>2. Quiet(n, m)
    <3>1. BankInv(after)
      BY <2>1 DEF Quiet
    <3> HIDE DEF after, n
    <3>2. Quiet(after, m)
      BY <1>6, <1>7, <3>1, EndReadIsQuiet
    <3> HIDE DEF m
    <3> QED
      BY <2>1, <3>2, QuietTwice
  <2>3. DOMAIN vpn' = LPN /\ \A s \in SlotLPN : vpn'[s] = vpn[s]
    <3>1. SlotLPN \subseteq LPN /\ \A s \in SlotLPN : s \notin Home
      BY FlashFacts DEF LPN, Home
    <3> QED
      BY <1>4, <1>9, <1>11, <3>1
  <2>4. nand' = [nand EXCEPT ![b] = m]
    BY <1>3, <1>11
  <2> HIDE DEF m
  <2>5. \/ NextHalf
        \/ pc' # "program" /\ pc' # "gc_read" /\ UNCHANGED <<loop, write_type, kept>>
    BY <1>3, <1>11
  <2>6. pc' # "gc_read"
    BY <2>5 DEF NextHalf
  <2> QED
    BY <1>1, <2>2, <2>3, <2>4, <2>5, <2>6, GCStep
<1> QED
  BY <1>10, <1>11

\* The first victim without valid pages.
LEMMA EmptyVictimIs ==
    ASSUME NEW n, BankInv(n), EmptyVictims(n) # {}, NEW vt, vt = n.victim_list[Min(EmptyVictims(n))]
    PROVE  vt \in Held(n, "victim") /\ n.block_list[vt].vcount = 0
<1>1. List(n.victim_list)
  BY ListsAre DEF BankInv, Conserved
<1>2. PICK len \in Nat : DOMAIN n.victim_list = 1 .. len
  BY <1>1, LenProperties DEF List
<1>3. EmptyVictims(n) \subseteq 1 .. len /\ EmptyVictims(n) \subseteq Nat
  BY <1>2 DEF EmptyVictims
<1>4. \E m \in EmptyVictims(n) : \A k \in EmptyVictims(n) : m <= k
  BY <1>3, LeastNatural
<1>5. Min(EmptyVictims(n)) \in EmptyVictims(n)
  BY <1>4 DEF Min
<1> HIDE DEF Min
<1>6. \A i \in EmptyVictims(n) : n.block_list[n.victim_list[i]].vcount = 0
  BY DEF EmptyVictims
<1> QED
  BY <1>2, <1>3, <1>5, <1>6, ListsAre DEF Held, ToSet

\* A victim without valid pages is erased.
LEMMA EraseVictimKeeps ==
    ASSUME FTLInv, EraseVictim
    PROVE  FTLInv'
<1> DEFINE n == nand[GCBank]
           vt == n.victim_list[Min(EmptyVictims(n))]
           none == n.GC_BLK = VC_MAX /\ n.free_list = <<>>
<1>1. /\ pc = "gc_erase" /\ EmptyVictims(n) # {}
      /\ IF none THEN pc' = "exhausted" /\ UNCHANGED <<nand, loop, write_type, kept>>
         ELSE nand' = [nand EXCEPT ![GCBank] = Reclaim(n, vt)] /\ NextHalf
      /\ UNCHANGED <<vpn, twrite, cur_write_bank>>
  BY DEF EraseVictim
<1>2. BankInv(n)
  BY GCBankIsBank DEF FTLInv, SlotInv
<1>3. vt \in Held(n, "victim")
  BY <1>1, <1>2, EmptyVictimIs
<1>4. CASE none
  <2> HIDE DEF none
  <2> QED
    BY <1>1, <1>4, IdleStep
<1>5. CASE ~none
  <2> DEFINE m == Reclaim(n, vt)
  <2>1. Quiet(n, m)
    <3> HIDE DEF vt
    <3> QED
      BY <1>2, <1>3, <1>5, ReclaimIsQuiet
  <2>2. nand' = [nand EXCEPT ![GCBank] = m] /\ NextHalf
    BY <1>1, <1>5
  <2> HIDE DEF m
  <2>3. DOMAIN vpn' = LPN /\ \A s \in SlotLPN : vpn'[s] = vpn[s]
    BY <1>1 DEF FTLInv, Ranges
  <2>4. pc' # "gc_read"
    BY <2>2 DEF NextHalf
  <2> QED
    BY <1>1, <2>1, <2>2, <2>3, <2>4, GCStep
<1> QED
  BY <1>4, <1>5

-----------------------------------------------------------------------------
(***************************************************************************)
(* The calls that write and remap.                                         *)
(***************************************************************************)
\* The call goes on with the collector and keeps no half of its buffer.
LEMMA WriteEnds ==
    ASSUME FTLInv, pc = "page", SlotInv(nand', vpn'), BuffersStay(nand, nand'),
           DOMAIN vpn' = LPN, twrite' \in [SlotLPN -> Home], RemapIsMapped',
           UNCHANGED <<cur_write_bank, loop>>, write_type' \in Type \cup {"none", "command"},
           kept' = FALSE, pc' # "program", pc' # "gc_read"
    PROVE  FTLInv'
<1>1. Ranges'
  BY DEF FTLInv, Ranges, BuffersStay
<1>2. FullIsProgrammed'
  <2>1. \A b \in Bank, t \in Type : DOMAIN nand[b].writebuf[t] # Position
    BY DEF FTLInv, FullIsProgrammed
  <2>2. \A b \in Bank, t \in Type : DOMAIN nand'[b].writebuf[t] # Position
    BY <2>1 DEF BuffersStay
  <2> QED
    BY <2>2 DEF FullIsProgrammed
<1>3. ProgramIsFull' /\ TailIsFree' /\ VictimAtHand'
  BY DEF ProgramIsFull, TailIsFree, VictimAtHand
<1> QED
  BY <1>1, <1>2, <1>3 DEF FTLInv

\* A page is overwritten in a write buffer.
LEMMA MergeKeeps ==
    ASSUME FTLInv, NEW l \in HomeLPN, Merge(l)
    PROVE  FTLInv'
<1>1. /\ pc = "page" /\ write_type' = "SW" /\ kept' = FALSE /\ pc' = "gc"
      /\ UNCHANGED <<nand, vpn, cur_write_bank, loop>>
      /\ twrite' = [s \in SlotLPN |-> IF twrite[s] = l THEN RSP_INVALID_LPN ELSE twrite[s]]
  BY DEF Merge, BeginWrite
<1>2. SlotInv(nand', vpn') /\ BuffersStay(nand, nand') /\ DOMAIN vpn' = LPN
  BY <1>1 DEF FTLInv, BuffersStay, Ranges
<1>3. twrite' \in [SlotLPN -> Home]
  BY <1>1 DEF FTLInv, Ranges, Home
<1>4. RemapIsMapped'
  BY <1>1 DEF FTLInv, RemapIsMapped
<1>5. write_type' \in Type \cup {"none", "command"} /\ pc' # "program" /\ pc' # "gc_read"
  BY <1>1 DEF Type
<1> QED
  BY <1>1, <1>2, <1>3, <1>4, <1>5, WriteEnds

\* A slot that is written again is in a block of log pages or nowhere.
LEMMA SlotAtRest ==
    ASSUME FTLInv, NEW s \in SlotLPN, SlotIsFree(s)
    PROVE  vpn[s] = VC_MAX \/ InLogBlock(nand, vpn[s])
<1>1. vpn[s] = VC_MAX \/ InLogBlock(nand, vpn[s]) \/ InLogBuffer(nand, vpn[s], s)
  BY DEF FTLInv, SlotInv
<1>2. CASE InLogBuffer(nand, vpn[s], s)
  <2>0. PICK b \in Bank : \E pos \in DOMAIN nand[b].writebuf["RW"] : vpn[s] = Buffered(b, "RW", pos)
    BY <1>2 DEF InLogBuffer
  <2>1. PICK pos \in DOMAIN nand[b].writebuf["RW"] : vpn[s] = Buffered(b, "RW", pos)
    BY <2>0
  <2>2. "RW" \in Type
    BY DEF Type
  <2>3. pos \in Position
    BY <2>2, BufferPositions DEF FTLInv, SlotInv
  <2>4. is_in_write_buffer(vpn[s])
    BY <2>1, <2>2, <2>3, BufferPlace
  <2> QED
    BY <2>4 DEF SlotIsFree
<1> QED
  BY <1>1, <1>2

\* The old copy is no longer valid; a slot is then nowhere.
LEMMA SupersededKeeps ==
    ASSUME FTLInv, NEW t \in Type, NEW l,
           IF t = "SW" THEN l \in HomeLPN ELSE l \in SlotLPN /\ SlotIsFree(l),
           NEW map, map = IF t = "RW" THEN [vpn EXCEPT ![l] = VC_MAX] ELSE vpn
    PROVE  SlotInv(Superseded(t, l), map) /\ BuffersStay(nand, Superseded(t, l))
<1>1. SlotInv(nand, vpn) /\ DOMAIN nand = Bank /\ DOMAIN vpn = LPN
  BY DEF FTLInv, Ranges
<1>2. l \in LPN
  BY DEF Type, LPN
<1> DEFINE v == vpn[l]
<1>3. CASE v = VC_MAX
  <2>1. Superseded(t, l) = nand
    BY <1>3 DEF Superseded
  <2>2. \A s \in SlotLPN : map[s] = vpn[s]
    BY <1>1, <1>2, <1>3
  <2>3. PICK b \in Bank : b = cur_write_bank
    BY DEF FTLInv, Ranges
  <2>4. SlotQuiet(nand[b], nand[b])
    BY <1>1 DEF SlotInv, SlotQuiet
  <2>5. SlotInv(nand, map)
    <3>1. \A c \in Bank : c # b => nand[c] = nand[c]
      OBVIOUS
    <3> QED
      BY ONLY <1>1, <2>2, <2>4, <3>1, QuietSlots, b \in Bank
  <2> QED
    BY <1>1, <2>1, <2>5 DEF BuffersStay
<1>4. CASE v # VC_MAX /\ t = "SW"
  <2> DEFINE new == [nand EXCEPT ![v.bank] = Invalidate(@, l, v)]
  <2>1. Superseded(t, l) = new
    BY <1>4 DEF Superseded
  <2>2. map = vpn
    BY <1>4
  <2>3. SlotInv(new, vpn) /\ BuffersStay(nand, new)
    <3> HIDE DEF v
    <3> QED
      BY <1>1, InvalidateStep
  <2> HIDE DEF new
  <2> QED
    BY <2>1, <2>2, <2>3
<1>5. CASE v # VC_MAX /\ t = "RW"
  <2> DEFINE new == [nand EXCEPT ![v.bank] = Unpin(Invalidate(@, l, v), v.block)]
  <2>1. Superseded(t, l) = new
    BY <1>5 DEF Superseded
  <2>2. l \in SlotLPN /\ InLogBlock(nand, v)
    BY <1>5, SlotAtRest
  <2>3. map[l] = VC_MAX /\ \A x \in SlotLPN : x # l => map[x] = vpn[x]
    BY <1>1, <1>2, <1>5
  <2>4. SlotInv(new, map) /\ BuffersStay(nand, new)
    BY <1>1, <2>2, <2>3, SlotSuperseded
  <2> HIDE DEF new
  <2> QED
    BY <2>1, <2>4
<1> QED
  BY <1>3, <1>4, <1>5 DEF Type

\* Padding leaves its slot nowhere.
LEMMA WritePaddingKeeps ==
    ASSUME FTLInv, NEW s \in SlotLPN, WritePadding(s)
    PROVE  FTLInv'
<1>1. /\ pc = "page" /\ write_type' = "RW" /\ kept' = FALSE /\ pc' = "gc"
      /\ SlotIsFree(s) /\ nand' = Superseded("RW", s) /\ vpn' = [vpn EXCEPT ![s] = VC_MAX]
      /\ UNCHANGED <<twrite, cur_write_bank, loop>>
  BY DEF WritePadding, BeginWrite
<1>2. SlotInv(nand', vpn') /\ BuffersStay(nand, nand')
  <2> DEFINE map == [vpn EXCEPT ![s] = VC_MAX]
  <2>1. SlotInv(Superseded("RW", s), map) /\ BuffersStay(nand, Superseded("RW", s))
    BY <1>1, SupersededKeeps DEF Type
  <2> QED
    BY <1>1, <2>1
<1>3. DOMAIN vpn' = LPN /\ twrite' \in [SlotLPN -> Home]
  BY <1>1 DEF FTLInv, Ranges
<1>4. RemapIsMapped'
  <2>1. SlotLPN \subseteq LPN /\ DOMAIN vpn = LPN
    BY DEF LPN, FTLInv, Ranges
  <2> QED
    BY <1>1, <2>1 DEF FTLInv, RemapIsMapped, SlotIsFree
<1>5. write_type' \in Type \cup {"none", "command"} /\ pc' # "program" /\ pc' # "gc_read"
  BY <1>1 DEF Type
<1> QED
  BY <1>1, <1>2, <1>3, <1>4, <1>5, WriteEnds

\* The call's buffer stays as it is.
LEMMA TailStays ==
    ASSUME FTLInv, BuffersStay(nand, nand'), UNCHANGED <<cur_write_bank, write_type, kept>>
    PROVE  TailIsFree'
<1>1. \A b \in Bank, t \in Type : /\ DOMAIN nand'[b].writebuf[t] = DOMAIN nand[b].writebuf[t]
                                  /\ nand'[b].writebuf_index = nand[b].writebuf_index
  BY DEF BuffersStay
<1>2. cur_write_bank \in Bank
  BY DEF FTLInv, Ranges
<1> QED
  BY <1>1, <1>2 DEF FTLInv, TailIsFree

\* A home address takes the place of a slot.
LEMMA RemapKeeps ==
    ASSUME FTLInv, NEW s \in SlotLPN, Remap(s)
    PROVE  FTLInv'
<1>1. /\ pc = "page" /\ loop = 0 /\ twrite[s] # RSP_INVALID_LPN
      /\ is_in_write_buffer(vpn[twrite[s]]) => vpn[twrite[s]].type = "SW"
      /\ nand' = DropOld(Remapped(s, twrite[s]), twrite[s])
      /\ vpn' = [vpn EXCEPT ![s] = VC_MAX, ![twrite[s]] = vpn[s]]
      /\ twrite' = [twrite EXCEPT ![s] = RSP_INVALID_LPN]
      /\ write_type \in {"none", "command"} /\ write_type' = "command"
      /\ UNCHANGED <<cur_write_bank, pc, loop, kept>>
  BY DEF Remap
<1>2. SlotInv(nand, vpn) /\ DOMAIN nand = Bank /\ DOMAIN vpn = LPN
  BY DEF FTLInv, Ranges
<1>3. PICK o \in HomeLPN : o = twrite[s]
  BY <1>1 DEF FTLInv, Ranges, Home
<1>4. SlotLPN \subseteq LPN /\ o \in LPN /\ o \notin SlotLPN
  BY FlashFacts DEF LPN
<1> DEFINE v == vpn[s]
           banks == Remapped(s, o)
           map == [vpn EXCEPT ![s] = VC_MAX, ![o] = vpn[s]]
<1>5. map[s] = VC_MAX /\ (\A x \in SlotLPN : x # s => map[x] = vpn[x]) /\ DOMAIN map = LPN
  BY <1>2, <1>4
<1>6. v # VC_MAX
  BY <1>1 DEF FTLInv, RemapIsMapped
<1>7. SlotInv(banks, map) /\ BuffersStay(nand, banks)
  <2>1. CASE InLogBuffer(nand, v, s)
    <3> DEFINE new == [nand EXCEPT ![v.bank].writebuf[v.type][v.pos].req = o,
                                   ![v.bank].remap_inbuff_cnt = @ + 1]
    <3>1. SlotInv(new, map) /\ BuffersStay(nand, new) /\ is_in_write_buffer(v)
      <4> HIDE DEF map
      <4> QED
        BY <1>2, <1>5, <2>1, SlotLeavesBuffer
    <3>2. banks = new
      BY <3>1 DEF Remapped
    <3> HIDE DEF new, banks, map
    <3> QED
      BY <3>1, <3>2
  <2>2. CASE InLogBlock(nand, v)
    <3> DEFINE new == [nand EXCEPT ![v.bank] = Unpin(@, v.block)]
    <3>1. SlotInv(new, map) /\ BuffersStay(nand, new)
      <4> HIDE DEF map
      <4> QED
        BY <1>2, <1>5, <2>2, UnpinStep
    <3>2. ~is_in_write_buffer(v)
      <4>1. PICK b \in Bank : \E blk \in ToSet(nand[b].RW_log_list), off \in Offset : v = Flash(b, blk, off)
        BY <2>2 DEF InLogBlock
      <4>2. PICK blk \in ToSet(nand[b].RW_log_list), off \in Offset : v = Flash(b, blk, off)
        BY <4>1
      <4>3. blk \in Block
        <5>1. Held(nand[b], "RW_log") \subseteq Block
          BY <1>2 DEF SlotInv, BankInv, Conserved, ListName
        <5> QED
          BY <5>1, ListsAre DEF Held
      <4> HIDE DEF v
      <4> QED
        BY <4>2, <4>3, FlashPlace
    <3>3. banks = new
      BY <3>2 DEF Remapped
    <3> HIDE DEF new, banks, map
    <3> QED
      BY <3>1, <3>3
  <2> QED
    BY <1>2, <1>6, <2>1, <2>2 DEF SlotInv
<1>8. SlotInv(nand', vpn') /\ BuffersStay(nand, nand')
  <2> HIDE DEF banks, map
  <2>1. DOMAIN banks = Bank
    BY <1>7 DEF BuffersStay
  <2>2. is_in_write_buffer(vpn[o]) => vpn[o].type = "SW"
    BY <1>1, <1>3
  <2>3. SlotInv(DropOld(banks, o), map) /\ BuffersStay(banks, DropOld(banks, o))
    BY <1>7, <2>1, <2>2, DropOldKeeps
  <2>4. BuffersStay(nand, DropOld(banks, o))
    BY <1>7, <2>3, StayTwice
  <2>5. nand' = DropOld(banks, o) /\ vpn' = map
    BY <1>1, <1>3 DEF banks, map
  <2> QED
    BY <2>3, <2>4, <2>5
<1>9. DOMAIN nand' = Bank /\ vpn' = map
  BY <1>1, <1>3, <1>8 DEF BuffersStay
<1>10. Ranges'
  BY <1>1, <1>5, <1>9 DEF FTLInv, Ranges, Home
<1>11. FullIsProgrammed'
  <2>1. \A b \in Bank, t \in Type : DOMAIN nand[b].writebuf[t] # Position
    BY <1>1 DEF FTLInv, FullIsProgrammed
  <2>2. \A b \in Bank, t \in Type : DOMAIN nand'[b].writebuf[t] # Position
    BY <1>8, <2>1 DEF BuffersStay
  <2> QED
    BY <2>2 DEF FullIsProgrammed
<1>12. ProgramIsFull' /\ VictimAtHand'
  BY <1>1 DEF ProgramIsFull, VictimAtHand
<1>13. TailIsFree'
  <2>1. write_type \notin Type
    BY <1>1 DEF Type
  <2>2. ~kept
    BY <2>1 DEF FTLInv, TailIsFree
  <2> QED
    BY <1>1, <2>2 DEF TailIsFree
<1>14. RemapIsMapped'
  BY <1>1, <1>5, <1>9 DEF FTLInv, RemapIsMapped, Ranges
<1> QED
  BY <1>8, <1>10, <1>11, <1>12, <1>13, <1>14 DEF FTLInv

\* A command's call goes on with the collector for its empty half.
LEMMA CommandKeeps ==
    ASSUME FTLInv, Command
    PROVE  FTLInv'
<1>1. /\ pc = "page" /\ pc' = "gc" /\ loop' = 1 /\ kept' = FALSE
      /\ UNCHANGED <<nand, vpn, twrite, cur_write_bank, write_type>>
  BY DEF Command
<1>2. SlotInv(nand', vpn') /\ Ranges' /\ RemapIsMapped'
  BY <1>1 DEF FTLInv, Ranges, RemapIsMapped
<1>3. FullIsProgrammed'
  BY <1>1 DEF FTLInv, FullIsProgrammed
<1>4. ProgramIsFull' /\ TailIsFree' /\ VictimAtHand'
  BY <1>1 DEF ProgramIsFull, TailIsFree, VictimAtHand
<1> QED
  BY <1>2, <1>3, <1>4 DEF FTLInv

\* The write buffer cannot be programmed.
LEMMA AssignFailsKeeps ==
    ASSUME FTLInv, AssignFails
    PROVE  FTLInv'
<1>1. /\ pc = "program" /\ pc' \in {"inter_GC", "overrun", "stopped"}
      /\ UNCHANGED <<nand, vpn, twrite, cur_write_bank, loop, write_type, kept>>
  BY DEF AssignFails, Obstacle
<1>2. BuffersStay(nand, nand')
  BY <1>1 DEF BuffersStay, FTLInv, Ranges
<1>3. TailIsFree'
  BY <1>1, <1>2, TailStays
<1>4. SlotInv(nand', vpn') /\ Ranges' /\ RemapIsMapped'
  BY <1>1 DEF FTLInv, Ranges, RemapIsMapped
<1>5. FullIsProgrammed' /\ ProgramIsFull' /\ VictimAtHand'
  BY <1>1 DEF FTLInv, FullIsProgrammed, ProgramIsFull, VictimAtHand
<1> QED
  BY <1>3, <1>4, <1>5 DEF FTLInv

\* A page enters the write buffer: at pos, and the bank is m then.
PageEnters(t, l, o, pos, m) ==
    LET b == cur_write_bank
        mid == Superseded(t, l)
        n == mid[b]
        map == IF t = "RW" THEN [vpn EXCEPT ![l] = VC_MAX] ELSE vpn
        home == IF t = "SW" THEN l ELSE o
    IN  /\ pc = "page" /\ write_type \in {"none", t} /\ write_type' = t
        /\ l \in IF t = "SW" THEN HomeLPN ELSE SlotLPN
        /\ UNCHANGED <<cur_write_bank, loop, reads>>
        /\ ~is_in_write_buffer(vpn[l])
        /\ IF t = "SW" THEN o = RSP_INVALID_LPN ELSE SlotIsFree(l) /\ o \in HomeLPN
        /\ b \in Bank /\ t \in Type
        /\ SlotInv(mid, map) /\ BuffersStay(nand, mid)
        /\ DOMAIN mid = Bank /\ BankInv(n)
        /\ \A c \in Bank, x \in Type : DOMAIN mid[c].writebuf[x] # Position
        /\ pos \in Position \ DOMAIN n.writebuf[t]
        /\ loop = 0 /\ IsNew(n, t) =>
                m.writebuf_index[t] > 0 /\ 2 * m.writebuf_index[t] - 1 \notin DOMAIN m.writebuf[t]
        /\ [req |-> l, remap |-> o] \in Entry(t)
        /\ BankInv(m) /\ \A f \in BankField \ {"writebuf", "writebuf_index"} : m[f] = n[f]
        /\ DOMAIN m.writebuf[t] = DOMAIN n.writebuf[t] \cup {pos}
        /\ m.writebuf[t][pos] = [req |-> l, remap |-> o]
        /\ \A p \in DOMAIN n.writebuf[t] : m.writebuf[t][p] = n.writebuf[t][p]
        /\ \A x \in Type : x # t => m.writebuf[x] = n.writebuf[x]
        /\ nand'[b] = m /\ DOMAIN nand' = Bank /\ \A c \in Bank : c # b => nand'[c] = mid[c]
        /\ DOMAIN vpn' = LPN /\ vpn'[l] = Buffered(b, t, pos) /\ \A x \in LPN : x # l => vpn'[x] = vpn[x]
        /\ copies' = Store(l, Buffered(b, t, pos))
        /\ twrite' = [s \in SlotLPN |-> IF s = l THEN o
                                        ELSE IF twrite[s] = home THEN RSP_INVALID_LPN
                                        ELSE twrite[s]]
        /\ kept' = (loop = 0 /\ IsNew(n, t))
        /\ pc' = IF DOMAIN m.writebuf[t] = Position THEN "program" ELSE "gc"

LEMMA WritePageIs ==
    ASSUME FTLInv, NEW t \in WriteTypes, NEW l \in LPN, NEW o \in Home, write_page(t, l, o)
    PROVE  \E pos, m : PageEnters(t, l, o, pos, m)
<1>1. PICK b \in Bank : b = cur_write_bank
  BY DEF FTLInv, Ranges
<1> DEFINE mid == Superseded(t, l)
           n == mid[b]
           pos == BufferPosition(n, t)
           e == [req |-> l, remap |-> o]
           filled == [p \in DOMAIN n.writebuf[t] \cup {pos} |->
                         IF p = pos THEN e ELSE n.writebuf[t][p]]
           idx == IF IsNew(n, t) THEN n.writebuf_index[t] + 1 ELSE n.writebuf_index[t]
           m == PageBuffered(n, t, filled, idx)
           home == IF t = "SW" THEN l ELSE o
           map == IF t = "RW" THEN [vpn EXCEPT ![l] = VC_MAX] ELSE vpn
<1>2. /\ pc = "page" /\ write_type \in {"none", t} /\ write_type' = t
      /\ l \in IF t = "SW" THEN HomeLPN ELSE SlotLPN
      /\ UNCHANGED <<cur_write_bank, loop, reads>> /\ ~is_in_write_buffer(vpn[l])
      /\ IF t = "SW" THEN o = RSP_INVALID_LPN ELSE SlotIsFree(l) /\ o \in HomeLPN
  BY DEF write_page, BeginWrite
<1>3. /\ nand' = [mid EXCEPT ![b].writebuf[t] = filled,
                             ![b].writebuf_index[t] = IF IsNew(n, t) THEN @ + 1 ELSE @]
      /\ vpn' = [vpn EXCEPT ![l] = Buffered(b, t, pos)]
      /\ copies' = Store(l, Buffered(b, t, pos))
      /\ twrite' = [s \in SlotLPN |-> IF s = l THEN o
                                      ELSE IF twrite[s] = home THEN RSP_INVALID_LPN
                                      ELSE twrite[s]]
      /\ kept' = (loop = 0 /\ IsNew(n, t))
      /\ pc' = IF DOMAIN filled = Position THEN "program" ELSE "gc"
  BY <1>1, Zenon DEF write_page
<1>4. t \in Type
  BY FlashConstants DEF FlashConstants, Type
<1>5. SlotInv(mid, map) /\ BuffersStay(nand, mid)
  <2>1. IF t = "SW" THEN l \in HomeLPN ELSE l \in SlotLPN /\ SlotIsFree(l)
    BY <1>2
  <2> QED
    BY <1>4, <2>1, SupersededKeeps
<1>6. /\ DOMAIN mid = Bank /\ BankInv(n)
      /\ n.writebuf_index = nand[b].writebuf_index
      /\ \A x \in Type : DOMAIN n.writebuf[x] = DOMAIN nand[b].writebuf[x]
  BY <1>5 DEF BuffersStay, SlotInv
<1>7. \A c \in Bank, x \in Type : DOMAIN mid[c].writebuf[x] # Position
  <2>1. \A c \in Bank, x \in Type : DOMAIN nand[c].writebuf[x] # Position
    BY <1>2 DEF FTLInv, FullIsProgrammed
  <2> QED
    BY <1>5, <2>1 DEF BuffersStay
<1>8. IsTail => n.writebuf_index[t] > 0 /\ 2 * n.writebuf_index[t] - 1 \notin DOMAIN n.writebuf[t]
  <2> SUFFICES ASSUME kept
               PROVE  n.writebuf_index[t] > 0 /\ 2 * n.writebuf_index[t] - 1 \notin DOMAIN n.writebuf[t]
    BY DEF IsTail
  <2>1. /\ write_type \in Type /\ nand[b].writebuf_index[write_type] > 0
        /\ 2 * nand[b].writebuf_index[write_type] - 1 \notin DOMAIN nand[b].writebuf[write_type]
    BY <1>1 DEF FTLInv, TailIsFree
  <2>2. write_type = t
    BY <1>2, <2>1 DEF Type
  <2> HIDE DEF n
  <2> QED
    BY <1>4, <1>6, <2>1, <2>2
<1>9. /\ pos \in Position \ DOMAIN n.writebuf[t]
      /\ idx \in 0 .. PLANES_PER_BANK
      /\ DOMAIN n.writebuf[t] \cup {pos} \subseteq 0 .. 2 * idx - 1
      /\ loop = 0 /\ IsNew(n, t) => idx > 0 /\ 2 * idx - 1 \notin DOMAIN n.writebuf[t] \cup {pos}
  <2>1. loop \in {0, 1}
    BY DEF FTLInv, Ranges
  <2> HIDE DEF n
  <2> QED
    BY <1>1, <1>4, <1>6, <1>7, <1>8, <2>1, PositionIsFree DEF n
<1>10. e \in Entry(t) /\ (t = "RW" => e.req \in SlotLPN) /\ e.req = l
  BY <1>2, <1>4 DEF Entry, Type, Home, LPN
<1>11. /\ BankInv(m)
       /\ m.RW_log_list = n.RW_log_list /\ m.block_list = n.block_list
       /\ m.writebuf[t] = filled /\ m.writebuf_index[t] = idx
       /\ \A x \in Type : x # t => /\ m.writebuf[x] = n.writebuf[x]
                                   /\ m.writebuf_index[x] = n.writebuf_index[x]
  <2> HIDE DEF n, e, pos, idx
  <2>1. filled = [p \in DOMAIN n.writebuf[t] \cup {pos} |-> IF p = pos THEN e ELSE n.writebuf[t][p]]
    OBVIOUS
  <2> HIDE DEF filled
  <2> QED
    BY <1>4, <1>6, <1>9, <1>10, <2>1, BankFilled
<1>12. nand' = [mid EXCEPT ![b] = m]
  <2>1. DOMAIN n = BankField
    BY <1>6 DEF BankInv, BankShape
  <2>2. mid[b].writebuf_index[t] = n.writebuf_index[t]
    OBVIOUS
  <2> QED
    BY <1>3, <1>6, <2>1, <2>2 DEF BankField, PageBuffered
<1>13. nand'[b] = m /\ DOMAIN nand' = Bank /\ \A c \in Bank : c # b => nand'[c] = mid[c]
  BY <1>6, <1>12
<1>14. DOMAIN filled = DOMAIN n.writebuf[t] \cup {pos} /\ filled[pos] = e
       /\ \A p \in DOMAIN n.writebuf[t] : filled[p] = n.writebuf[t][p]
  <2> HIDE DEF n, e, pos
  <2> QED
    BY <1>9
<1>20. \A f \in BankField \ {"writebuf", "writebuf_index"} : m[f] = n[f]
  <2>1. DOMAIN n = BankField
    BY <1>6 DEF BankInv, BankShape
  <2> HIDE DEF n, filled, idx
  <2> QED
    BY <2>1 DEF PageBuffered, BankField
<1> HIDE DEF mid, n, pos, e, filled, idx, m, map, home
<1>15. DOMAIN vpn = LPN /\ SlotLPN \subseteq LPN
  BY DEF FTLInv, Ranges, LPN
<1>16. DOMAIN vpn' = LPN /\ vpn'[l] = Buffered(b, t, pos) /\ \A x \in LPN : x # l => vpn'[x] = vpn[x]
  BY <1>3, <1>15
<1>17. e = [req |-> l, remap |-> o]
  BY DEF e
<1>18. /\ DOMAIN m.writebuf[t] = DOMAIN n.writebuf[t] \cup {pos} /\ m.writebuf[t][pos] = e
       /\ \A p \in DOMAIN n.writebuf[t] : m.writebuf[t][p] = n.writebuf[t][p]
       /\ \A x \in Type : x # t => m.writebuf[x] = n.writebuf[x]
       /\ pc' = IF DOMAIN m.writebuf[t] = Position THEN "program" ELSE "gc"
       /\ loop = 0 /\ IsNew(n, t) =>
                m.writebuf_index[t] > 0 /\ 2 * m.writebuf_index[t] - 1 \notin DOMAIN m.writebuf[t]
  BY <1>3, <1>9, <1>11, <1>14
<1>19. PageEnters(t, l, o, pos, m)
  <2>1. /\ copies' = Store(l, Buffered(b, t, pos))
        /\ twrite' = [s \in SlotLPN |-> IF s = l THEN o
                                        ELSE IF twrite[s] = home THEN RSP_INVALID_LPN
                                        ELSE twrite[s]]
        /\ kept' = (loop = 0 /\ IsNew(n, t))
    BY <1>3, Zenon
  <2> QED
    BY <1>1, <1>2, <1>4, <1>5, <1>6, <1>7, <1>9, <1>10, <1>11, <1>13, <1>16, <1>17, <1>18, <1>20, <2>1
       DEF PageEnters, mid, n, map, home
<1> QED
  BY <1>19

LEMMA WritePageKeeps ==
    ASSUME FTLInv, NEW t \in WriteTypes, NEW l \in LPN, NEW o \in Home, write_page(t, l, o)
    PROVE  FTLInv'
<1>1. PICK pos, m : PageEnters(t, l, o, pos, m)
  BY WritePageIs
<1> DEFINE b == cur_write_bank
           mid == Superseded(t, l)
           n == mid[b]
           e == [req |-> l, remap |-> o]
           map == IF t = "RW" THEN [vpn EXCEPT ![l] = VC_MAX] ELSE vpn
           home == IF t = "SW" THEN l ELSE o
<1>2. /\ pc = "page" /\ write_type \in {"none", t} /\ write_type' = t
      /\ l \in IF t = "SW" THEN HomeLPN ELSE SlotLPN
      /\ UNCHANGED <<cur_write_bank, loop>>
      /\ IF t = "SW" THEN o = RSP_INVALID_LPN ELSE SlotIsFree(l) /\ o \in HomeLPN
  BY <1>1 DEF PageEnters
<1>3. /\ twrite' = [s \in SlotLPN |-> IF s = l THEN o
                                      ELSE IF twrite[s] = home THEN RSP_INVALID_LPN
                                      ELSE twrite[s]]
      /\ kept' = (loop = 0 /\ IsNew(n, t))
      /\ pc' = IF DOMAIN m.writebuf[t] = Position THEN "program" ELSE "gc"
  BY <1>1, Zenon DEF PageEnters
<1>4. t \in Type /\ b \in Bank /\ b = cur_write_bank
  BY <1>1 DEF PageEnters
<1>5. SlotInv(mid, map) /\ \A c \in Bank, x \in Type : DOMAIN mid[c].writebuf[x] # Position
  BY <1>1 DEF PageEnters
<1>9. /\ pos \in Position \ DOMAIN n.writebuf[t]
      /\ loop = 0 /\ IsNew(n, t) =>
                m.writebuf_index[t] > 0 /\ 2 * m.writebuf_index[t] - 1 \notin DOMAIN m.writebuf[t]
  BY <1>1 DEF PageEnters
<1>11. BankInv(m) /\ \A f \in BankField \ {"writebuf", "writebuf_index"} : m[f] = n[f]
  BY <1>1 DEF PageEnters
<1>12. m.RW_log_list = n.RW_log_list /\ m.block_list = n.block_list
  BY <1>11 DEF BankField
<1>13. nand'[b] = m /\ DOMAIN nand' = Bank /\ \A c \in Bank : c # b => nand'[c] = mid[c]
  BY <1>1 DEF PageEnters
<1>14. /\ DOMAIN m.writebuf[t] = DOMAIN n.writebuf[t] \cup {pos} /\ m.writebuf[t][pos] = e
       /\ \A p \in DOMAIN n.writebuf[t] : m.writebuf[t][p] = n.writebuf[t][p]
       /\ \A x \in Type : x # t => m.writebuf[x] = n.writebuf[x]
  BY <1>1 DEF PageEnters
<1>10. e.req = l
  OBVIOUS
<1>15. DOMAIN vpn = LPN /\ SlotLPN \subseteq LPN
  BY DEF FTLInv, Ranges, LPN
<1>16. DOMAIN vpn' = LPN /\ vpn'[l] = Buffered(b, t, pos) /\ \A x \in LPN : x # l => vpn'[x] = vpn[x]
  BY <1>1 DEF PageEnters
<1> HIDE DEF b, mid, n, e, map, home
<1>17. SlotInv(nand', vpn')
  <2>1. CASE t = "SW"
    <3>1. \A s \in SlotLPN : vpn'[s] = map[s]
      BY <1>2, <1>15, <1>16, <2>1, FlashFacts DEF map
    <3>2. m.writebuf["RW"] = n.writebuf["RW"]
      BY <1>14, <2>1 DEF Type
    <3> QED
      BY <1>4, <1>5, <1>11, <1>12, <1>13, <3>1, <3>2, HomeEnters DEF n
  <2>2. CASE t = "RW"
    <3>1. l \in SlotLPN /\ map[l] = VC_MAX /\ \A x \in SlotLPN : x # l => vpn'[x] = map[x]
      BY <1>2, <1>15, <1>16, <2>2 DEF map
    <3>2. DOMAIN m.writebuf["RW"] = DOMAIN n.writebuf["RW"] \cup {pos} /\ m.writebuf["RW"][pos].req = l
      BY <1>10, <1>14, <2>2
    <3>3. \A p \in DOMAIN n.writebuf["RW"] : m.writebuf["RW"][p] = n.writebuf["RW"][p]
      BY <1>14, <2>2
    <3>4. vpn'[l] = Buffered(b, "RW", pos) /\ pos \in Position \ DOMAIN n.writebuf["RW"]
      BY <1>9, <1>16, <2>2
    <3> QED
      BY <1>4, <1>5, <1>11, <1>12, <1>13, <3>1, <3>2, <3>3, <3>4, SlotEnters DEF n
  <2> QED
    BY <1>4, <2>1, <2>2 DEF Type
<1>18. Ranges'
  <2>1. \A s \in SlotLPN : twrite'[s] \in Home
    BY <1>3 DEF FTLInv, Ranges, Home, home
  <2> QED
    BY <1>2, <1>3, <1>4, <1>13, <1>16, <2>1 DEF FTLInv, Ranges
<1>19. \A c \in Bank, x \in Type : DOMAIN nand'[c].writebuf[x] = Position =>
            c = b /\ x = t /\ DOMAIN m.writebuf[t] = Position
  BY <1>4, <1>5, <1>13, <1>14 DEF n
<1>20. FullIsProgrammed' /\ ProgramIsFull'
  <2>1. cur_write_bank' = b /\ nand'[b] = m
    BY <1>2, <1>4, <1>13
  <2>2. DOMAIN m.writebuf[t] = Position => pc' = "program"
    BY <1>3
  <2>3. pc' = "program" => DOMAIN m.writebuf[t] = Position
    BY <1>3
  <2>4. FullIsProgrammed'
    BY <1>2, <1>19, <2>1, <2>2 DEF FullIsProgrammed
  <2>5. ProgramIsFull'
    BY <1>2, <1>4, <2>1, <2>3 DEF ProgramIsFull
  <2> QED
    BY <2>4, <2>5
<1>21. TailIsFree'
  <2>1. kept' => loop = 0 /\ IsNew(n, t)
    BY <1>3, Zenon
  <2>2. cur_write_bank' = b /\ nand'[b] = m
    BY <1>2, <1>4, <1>13
  <2>3. kept' => m.writebuf_index[t] > 0 /\ 2 * m.writebuf_index[t] - 1 \notin DOMAIN m.writebuf[t]
    BY <1>9, <2>1
  <2> QED
    BY <1>2, <1>4, <2>2, <2>3 DEF TailIsFree
<1>22. VictimAtHand'
  BY <1>3 DEF VictimAtHand
<1>23. RemapIsMapped'
  <2>1. Buffered(b, t, pos) # VC_MAX
    BY <1>4, <1>9, BufferPlace
  <2> QED
    BY <1>3, <1>15, <1>16, <2>1 DEF FTLInv, RemapIsMapped
<1> QED
  BY <1>17, <1>18, <1>20, <1>21, <1>22, <1>23 DEF FTLInv

\* The map after a program to a page of blk.
ProgramMap(buf, b, blk, page) ==
    [l \in LPN |-> IF \E pos \in Mapped(buf) : buf[pos].req = l
                   THEN Flash(b, blk, OffsetOf(page, CHOOSE pos \in Mapped(buf) : buf[pos].req = l))
                   ELSE vpn[l]]

\* The slots of the buffer are in that block then, the others where they were.
LEMMA ProgramMaps ==
    ASSUME FTLInv, NEW b \in Bank, NEW t \in Type,
           DOMAIN nand[b].writebuf[t] = Position, NEW blk, NEW page \in 0 .. LAST,
           NEW s \in SlotLPN
    PROVE  LET buf == nand[b].writebuf[t]
               map == ProgramMap(buf, b, blk, page)
           IN  /\ t = "SW" => map[s] = vpn[s]
               /\ s \in SlotsOf(buf) => \E off \in Offset : map[s] = Flash(b, blk, off)
               /\ s \notin SlotsOf(buf) => map[s] = vpn[s]
<1> DEFINE buf == nand[b].writebuf[t]
           map == ProgramMap(buf, b, blk, page)
<1>1. s \in LPN /\ s # RSP_INVALID_LPN /\ s \notin Home
  BY FlashFacts DEF LPN, Home
<1>2. s \in SlotsOf(buf) <=> \E pos \in Mapped(buf) : buf[pos].req = s
  BY <1>1 DEF SlotsOf, Mapped
<1>3. s \notin SlotsOf(buf) => map[s] = vpn[s]
  BY <1>1, <1>2 DEF ProgramMap
<1>4. ASSUME s \in SlotsOf(buf)
      PROVE  \E off \in Offset : map[s] = Flash(b, blk, off)
  <2> DEFINE q == CHOOSE pos \in Mapped(buf) : buf[pos].req = s
  <2>1. q \in Mapped(buf)
    BY <1>2, <1>4
  <2>2. q \in Position
    BY <2>1 DEF Mapped
  <2>3. map[s] = Flash(b, blk, OffsetOf(page, q))
    BY <1>1, <1>2, <1>4 DEF ProgramMap
  <2> HIDE DEF q
  <2> QED
    BY <2>2, <2>3, OffsetInBlock
<1>5. ASSUME t = "SW"
      PROVE  s \notin SlotsOf(buf)
  <2>1. \A pos \in DOMAIN buf : buf[pos].req \in Home
    BY <1>5 DEF FTLInv, SlotInv, BankInv, BuffersOK, Entry
  <2> QED
    BY <1>1, <2>1 DEF SlotsOf
<1> QED
  BY <1>3, <1>4, <1>5

\* A full write buffer is programmed.
LEMMA ProgramStepKeeps ==
    ASSUME FTLInv, Program
    PROVE  FTLInv'
<1>1. pc = "program" /\ write_type \in Type /\ cur_write_bank \in Bank
  BY DEF Program, FTLInv, ProgramIsFull, Ranges
<1>2. PICK b \in Bank : b = cur_write_bank
  BY <1>1
<1>3. PICK t \in Type : t = write_type
  BY <1>1
<1> DEFINE n == nand[b]
           buf == n.writebuf[t]
           new == assign_new_write_vpn(n, t)
           blk == new.cur_write_vpn[t].block
           page == new.cur_write_vpn[t].page
           m == ProgramDone(n, t)
           map == ProgramMap(buf, b, blk, page)
<1>4. /\ Obstacle(n, t) = "none" /\ vpn' = map
      /\ cur_write_bank' = (cur_write_bank + 1) % NumBank
      /\ kept' = FALSE /\ pc' = "gc" /\ UNCHANGED <<twrite, loop, write_type>>
  BY <1>2, <1>3, Zenon DEF Program, ProgramMap
<1>5. nand' = [nand EXCEPT ![b] = m]
  <2>1. nand' = [nand EXCEPT ![cur_write_bank] = ProgramDone(nand[cur_write_bank], write_type)]
    BY DEF Program, ProgramDone
  <2> QED
    BY <1>2, <1>3, <2>1
<1>6. SlotInv(nand, vpn) /\ DOMAIN nand = Bank /\ BankInv(n) /\ DOMAIN buf = Position
  BY <1>1, <1>2, <1>3 DEF FTLInv, Ranges, SlotInv, ProgramIsFull
<1>7. page \in 0 .. LAST /\ blk \in Block
  BY <1>4, <1>6, AssignKeeps
<1>8. \A s \in SlotLPN :
          /\ t = "SW" => map[s] = vpn[s]
          /\ s \in SlotsOf(buf) => \E off \in Offset : map[s] = Flash(b, blk, off)
          /\ s \notin SlotsOf(buf) => map[s] = vpn[s]
  <2> HIDE DEF blk, page
  <2> QED
    BY <1>6, <1>7, ProgramMaps
<1>9. nand'[b] = m /\ DOMAIN nand' = Bank /\ \A c \in Bank : c # b => nand'[c] = nand[c]
  BY <1>5, <1>6
<1>10. DOMAIN map = LPN
  BY DEF ProgramMap
<1> HIDE DEF map
<1>11. /\ SlotInv([nand EXCEPT ![b] = m], map)
       /\ m.writebuf = [n.writebuf EXCEPT ![t] = <<>>]
  <2> DEFINE banks == [nand EXCEPT ![b] = m]
  <2>1. banks[b] = m /\ \A c \in Bank : c # b => banks[c] = nand[c]
    BY <1>6
  <2>2. CASE t = "SW"
    <3>1. SlotQuiet(n, m) /\ m.writebuf = [n.writebuf EXCEPT ![t] = <<>>]
      <4> HIDE DEF n
      <4> QED
        BY <1>4, <1>6, <2>2, HomeProgram
    <3>2. \A s \in SlotLPN : map[s] = vpn[s]
      BY <1>8, <2>2
    <3> HIDE DEF banks, m
    <3>3. SlotInv(banks, map)
      BY <1>6, <2>1, <3>1, <3>2, QuietSlots
    <3> QED
      BY <3>1, <3>3 DEF banks
  <2>3. CASE t = "RW"
    <3>1. /\ BankInv(m)
          /\ m.writebuf = [n.writebuf EXCEPT !["RW"] = <<>>]
          /\ m.block_list[blk].remained_remap_cnt =
                n.block_list[blk].remained_remap_cnt + SuperPage - n.remap_inbuff_cnt
          /\ \A k \in Block : k # blk => m.block_list[k].remained_remap_cnt
                                           = n.block_list[k].remained_remap_cnt
          /\ \A k \in ToSet(n.RW_log_list) \cup {blk} :
                \/ k \in ToSet(m.RW_log_list)
                \/ k = blk /\ m.block_list[blk].remained_remap_cnt = 0
      <4> HIDE DEF n
      <4> QED
        BY <1>4, <1>6, <2>3, LogProgram
    <3>2. DOMAIN m.writebuf["RW"] = {}
      <4>1. DOMAIN n.writebuf = Type
        BY <1>6 DEF BankInv, BankShape
      <4>2. DOMAIN <<>> = {}
        OBVIOUS
      <4> QED
        BY <3>1, <4>1, <4>2 DEF Type
    <3> HIDE DEF banks, m, blk
    <3>3. DOMAIN n.writebuf["RW"] = Position
      BY <1>6, <2>3
    <3>4. /\ \A s \in SlotLPN : s \in SlotsOf(n.writebuf["RW"]) =>
                                    \E off \in Offset : map[s] = Flash(b, blk, off)
          /\ \A s \in SlotLPN : s \notin SlotsOf(n.writebuf["RW"]) => map[s] = vpn[s]
      BY <1>8, <2>3
    <3>5. SlotInv(banks, map)
      <4>1. PICK k \in Block : k = blk
        BY <1>7
      <4>2. PICK c : c = m
        OBVIOUS
      <4>3. PICK map2 : map2 = map
        OBVIOUS
      <4>4. PICK banks2 : banks2 = banks
        OBVIOUS
      <4>5. /\ BankInv(c) /\ DOMAIN c.writebuf["RW"] = {}
            /\ c.block_list[k].remained_remap_cnt =
                  nand[b].block_list[k].remained_remap_cnt + SuperPage - nand[b].remap_inbuff_cnt
            /\ \A x \in Block : x # k => c.block_list[x].remained_remap_cnt
                                             = nand[b].block_list[x].remained_remap_cnt
            /\ \A x \in ToSet(nand[b].RW_log_list) \cup {k} :
                  \/ x \in ToSet(c.RW_log_list)
                  \/ x = k /\ c.block_list[k].remained_remap_cnt = 0
        BY <3>1, <3>2, <4>1, <4>2
      <4>6. banks2[b] = c /\ \A x \in Bank : x # b => banks2[x] = nand[x]
        BY <2>1, <4>2, <4>4
      <4>7. /\ \A s \in SlotLPN : s \in SlotsOf(nand[b].writebuf["RW"]) =>
                                      \E off \in Offset : map2[s] = Flash(b, k, off)
            /\ \A s \in SlotLPN : s \notin SlotsOf(nand[b].writebuf["RW"]) => map2[s] = vpn[s]
        BY <3>4, <4>1, <4>3
      <4>8. SlotInv(banks2, map2)
        BY <1>6, <3>3, <4>5, <4>6, <4>7, SlotsProgrammed
      <4> QED
        BY <4>3, <4>4, <4>8
    <3> QED
      BY <2>3, <3>1, <3>5 DEF banks
  <2> QED
    BY <2>2, <2>3 DEF Type
<1> HIDE DEF m
<1>12. SlotInv(nand', vpn')
  BY <1>4, <1>5, <1>11
<1>13. Ranges'
  <2>1. cur_write_bank' \in Bank
    <3>1. PICK N \in Nat : N = NumBank /\ N > 0
      BY FlashFacts
    <3>2. PICK c \in Nat : c = cur_write_bank
      BY <1>1, <3>1 DEF Bank
    <3>3. ((c + 1) % N) \in 0 .. N - 1
      BY <3>1, <3>2
    <3> QED
      BY <1>4, <3>1, <3>2, <3>3 DEF Bank
  <2> QED
    BY <1>4, <1>9, <1>10, <2>1 DEF FTLInv, Ranges
<1>14. FullIsProgrammed'
  <2>1. DOMAIN n.writebuf = Type /\ Position # {} /\ DOMAIN <<>> = {}
    <3>1. DOMAIN n.writebuf = Type
      BY <1>6 DEF BankInv, BankShape
    <3>2. DOMAIN <<>> = {}
      OBVIOUS
    <3> QED
      BY <3>1, <3>2, FlashFacts
  <2>2. ASSUME NEW c \in Bank, NEW x \in Type
        PROVE  DOMAIN nand'[c].writebuf[x] # Position
    <3>1. \A d \in Bank, y \in Type : ~(d = b /\ y = t) => DOMAIN nand[d].writebuf[y] # Position
      BY <1>2, <1>3 DEF FTLInv, FullIsProgrammed
    <3>2. CASE c = b /\ x = t
      BY <1>9, <1>11, <2>1, <3>2
    <3>3. CASE c = b /\ x # t
      BY <1>9, <1>11, <2>1, <3>1, <3>3
    <3>4. CASE c # b
      BY <1>9, <3>1, <3>4
    <3> QED
      BY <3>2, <3>3, <3>4
  <2> QED
    BY <2>2 DEF FullIsProgrammed
<1>15. ProgramIsFull' /\ TailIsFree' /\ VictimAtHand'
  BY <1>4 DEF ProgramIsFull, TailIsFree, VictimAtHand
<1>16. RemapIsMapped'
  <2> SUFFICES ASSUME NEW s \in SlotLPN, twrite[s] # RSP_INVALID_LPN
               PROVE  map[s] # VC_MAX
    BY <1>4 DEF RemapIsMapped
  <2>1. vpn[s] # VC_MAX
    BY DEF FTLInv, RemapIsMapped
  <2>2. \A off \in Offset : Flash(b, blk, off) # VC_MAX
    <3> HIDE DEF blk
    <3> QED
      BY <1>7, FlashPlace
  <2> QED
    BY <1>8, <2>1, <2>2
<1> QED
  BY <1>12, <1>13, <1>14, <1>15, <1>16 DEF FTLInv

-----------------------------------------------------------------------------
(***************************************************************************)
(* The theorems.                                                           *)
(***************************************************************************)
\* What RSP_Open leaves: each block in one list, once.
LEMMA InitConserved == Conserved(BankInit)
<1> DEFINE F == FreeOrder
           free == SubSeq(F, 4, Len(F))
<1>1. PICK len \in Nat : len = Len(F) /\ len > 3
  BY FlashConstants, LenProperties DEF FlashConstants
<1>2. /\ F \in Seq(Block) /\ \A i \in 1 .. len : F[i] \in Block
      /\ \A i, j \in 1 .. len : F[i] = F[j] => i = j
      /\ \A blk \in Block : \E i \in 1 .. len : F[i] = blk
  <2>1. F \in Seq(Block) /\ \A i, j \in DOMAIN F : F[i] = F[j] => i = j
    BY FlashConstants DEF FlashConstants, Block
  <2>2. DOMAIN F = 1 .. len
    BY <1>1, <2>1, LenProperties
  <2> QED
    BY <1>1, <2>1, <2>2, ElementOfSeq DEF Block, ToSet
<1>3. /\ free \in Seq(Block) /\ DOMAIN free = 1 .. len - 3
      /\ \A i \in 1 .. len - 3 : free[i] = F[i + 3]
  <2>1. \A i \in 4 .. len : F[i] \in Block
    BY <1>2
  <2>2. 4 \in Int /\ len \in Int /\ 4 <= len + 1 /\ len - 4 + 1 = len - 3
    BY <1>1
  <2>3. SubSeq(F, 4, len) \in Seq(Block) /\ Len(SubSeq(F, 4, len)) = len - 4 + 1
    BY <1>2, <2>1, <2>2, SubSeqProperties
  <2>4. \A i \in 1 .. len - 4 + 1 : SubSeq(F, 4, len)[i] = F[4 + i - 1]
    BY <1>2, <2>1, <2>2, SubSeqProperties
  <2>5. \A i \in 1 .. len - 3 : 4 + i - 1 = i + 3
    BY <1>1
  <2>6. free = SubSeq(F, 4, len)
    BY <1>1
  <2> HIDE DEF free
  <2>7. DOMAIN free = 1 .. len - 3
    BY <2>2, <2>3, <2>6, LenProperties
  <2> QED
    BY <2>2, <2>3, <2>4, <2>5, <2>6, <2>7
<1>4. /\ BankInit.data_list = <<F[2]>> /\ BankInit.RW_log_list = <<F[3]>>
      /\ BankInit.free_list = free /\ BankInit.victim_list = <<>> /\ BankInit.GC_BLK = F[1]
  BY DEF BankInit
<1>5. F[1] \in Block /\ F[2] \in Block /\ F[3] \in Block /\ F[1] # VC_MAX
  BY <1>1, <1>2, FlashFacts
<1> HIDE DEF F, free
<1>6. \A blk \in Block : List(<<blk>>) /\ ToSet(<<blk>>) = {blk}
  BY DEF List, ToSet
<1>7. List(<<>>) /\ ToSet(<<>>) = {}
  BY DEF List, ToSet
<1>8. List(free) /\ ToSet(free) = {F[i] : i \in 4 .. len}
  <2>1. List(free)
    <3>1. \A i \in 1 .. len - 3 : i + 3 \in 1 .. len
      BY <1>1
    <3>2. ASSUME NEW i \in 1 .. len - 3, NEW j \in 1 .. len - 3, free[i] = free[j]
          PROVE  i = j
      <4>1. F[i + 3] = F[j + 3]
        BY <1>3, <3>2
      <4>2. i + 3 = j + 3
        BY <1>2, <3>1, <4>1
      <4> QED
        BY <1>1, <4>2
    <3> QED
      BY <1>3, <3>2 DEF List
  <2>2. \A i \in 4 .. len : i - 3 \in 1 .. len - 3 /\ i - 3 + 3 = i
    BY <1>1
  <2>3. \A i \in 1 .. len - 3 : i + 3 \in 4 .. len
    BY <1>1
  <2>4. ToSet(free) = {free[i] : i \in 1 .. len - 3}
    BY <1>3 DEF ToSet
  <2> QED
    BY <1>3, <2>1, <2>2, <2>3, <2>4
<1>9. /\ Held(BankInit, "data") = {F[2]} /\ Held(BankInit, "RW_log") = {F[3]}
      /\ Held(BankInit, "free") = {F[i] : i \in 4 .. len} /\ Held(BankInit, "victim") = {}
      /\ Held(BankInit, "GC") = {F[1]}
  BY <1>4, <1>5, <1>6, <1>7, <1>8, ListsAre DEF Held
<1>10. \A name \in ListName : List(Lists(BankInit)[name])
  BY <1>4, <1>5, <1>6, <1>7, <1>8, ListsAre
<1>11. ASSUME NEW x \in ListName, NEW y \in ListName, x # y
       PROVE  Held(BankInit, x) \cap Held(BankInit, y) = {}
  <2>1. \A i \in 4 .. len : F[i] # F[1] /\ F[i] # F[2] /\ F[i] # F[3]
    BY <1>1, <1>2
  <2>2. F[1] # F[2] /\ F[1] # F[3] /\ F[2] # F[3]
    BY <1>1, <1>2
  <2> QED
    BY <1>9, <1>11, <2>1, <2>2 DEF ListName
<1>12. UNION {Held(BankInit, name) : name \in ListName} = Block
  <2>1. \A name \in ListName : Held(BankInit, name) \subseteq Block
    BY <1>1, <1>2, <1>5, <1>9 DEF ListName
  <2>2. \A blk \in Block : \E name \in ListName : blk \in Held(BankInit, name)
    <3> TAKE blk \in Block
    <3>1. PICK i \in 1 .. len : F[i] = blk
      BY <1>2
    <3>2. i = 1 \/ i = 2 \/ i = 3 \/ i \in 4 .. len
      BY <1>1
    <3> QED
      BY <1>9, <3>1, <3>2 DEF ListName
  <2> QED
    BY <2>1, <2>2
<1> QED
  BY <1>10, <1>11, <1>12 DEF Conserved

\* A bank in its first state.
LEMMA InitBank == BankInv(BankInit)
<1> DEFINE n == BankInit
<1>1. FreeOrder[2] \in Block /\ FreeOrder[3] \in Block /\ FreeOrder[1] \in Block
  <2>1. PICK len \in Nat : len = Len(FreeOrder) /\ len > 3 /\ DOMAIN FreeOrder = 1 .. len
    BY FlashConstants, LenProperties DEF FlashConstants
  <2> QED
    BY <2>1 DEF Block, ToSet
<1>2. DOMAIN <<>> = {}
  OBVIOUS
<1>3. \A blk \in Block :
          /\ DOMAIN n.block_list[blk] = InfoField
          /\ n.block_list[blk].vcount \in Int
          /\ \A off \in Offset : n.block_list[blk].spare[off] \in Home
  BY FlashFacts DEF BankInit, Erased, InfoField, Home
<1>4. BankShape(n)
  <2>1. DOMAIN n = BankField /\ DOMAIN n.block_list = Block /\ DOMAIN n.writebuf = Type
    BY DEF BankInit, BankField
  <2>2. n.cur_write_vpn \in [Type -> [block : Block, page : 0 .. LAST]]
    BY <1>1, FlashFacts DEF BankInit
  <2>3. n.writebuf_index \in [Type -> 0 .. PLANES_PER_BANK] /\ n.cur_vt_vpn = VC_MAX
    BY FlashFacts DEF BankInit
  <2> HIDE DEF n
  <2> QED
    BY <1>3, <2>1, <2>2, <2>3 DEF BankShape
<1>5. ActiveStays(n)
  BY DEF ActiveStays, BankInit, ToSet, Type
<1>6. HomeOnly(n)
  <2>1. n.GCbuf_lpn = <<>>
    BY DEF BankInit
  <2> QED
    BY <1>3, <2>1, EmptySeq DEF HomeOnly
<1>7. Counted(n)
  BY <1>3 DEF Counted
<1>8. BuffersOK(n)
  <2>1. \A t \in Type : n.writebuf[t] = <<>>
    BY DEF BankInit
  <2>2. n.remap_inbuff_cnt = 0
    BY DEF BankInit
  <2> HIDE DEF n
  <2>3. Unslotted(n.writebuf["RW"]) = {}
    BY <1>2, <2>1 DEF Unslotted, Type
  <2> QED
    BY <1>2, <2>1, <2>2, <2>3, FS_EmptySet DEF BuffersOK
<1> QED
  BY <1>4, <1>5, <1>6, <1>7, <1>8, InitConserved DEF BankInv

\* The first state: all blocks are erased and nothing is mapped.
LEMMA FTLInit == Init => FTLInv
<1> SUFFICES ASSUME Init
             PROVE  FTLInv
  OBVIOUS
<1>1. /\ nand = [b \in Bank |-> BankInit] /\ vpn = [l \in LPN |-> VC_MAX]
      /\ twrite = [s \in SlotLPN |-> RSP_INVALID_LPN] /\ cur_write_bank = 0 /\ pc = "page"
      /\ loop = 0 /\ write_type = "none" /\ kept = FALSE
  BY DEF Init
<1>2. \A b \in Bank : /\ BankInv(nand[b])
                      /\ \A t \in Type : DOMAIN nand[b].writebuf[t] = {}
                      /\ \A blk \in Block : nand[b].block_list[blk].remained_remap_cnt = 0
  <2>1. \A t \in Type : DOMAIN BankInit.writebuf[t] = {}
    <3>1. DOMAIN <<>> = {}
      OBVIOUS
    <3>2. \A t \in Type : BankInit.writebuf[t] = <<>>
      BY DEF BankInit
    <3> QED
      BY <3>1, <3>2
  <2>2. \A blk \in Block : BankInit.block_list[blk].remained_remap_cnt = 0
    BY DEF BankInit, Erased
  <2> QED
    BY <1>1, <2>1, <2>2, InitBank
<1>3. SlotLPN \subseteq LPN
  BY DEF LPN
<1>4. SlotInv(nand, vpn)
  <2>1. BufferMaps(nand, vpn)
    BY <1>2 DEF BufferMaps, Type
  <2>2. \A s \in SlotLPN : vpn[s] = VC_MAX
    BY <1>1, <1>3
  <2>3. \A b \in Bank, blk \in Block : MappedIn(vpn, b, blk) = {}
    BY <2>2 DEF MappedIn, InFlash
  <2> QED
    BY <1>2, <2>1, <2>2, <2>3, FS_EmptySet DEF SlotInv
<1>5. Ranges
  <2>1. cur_write_bank \in Bank
    <3>1. PICK N \in Nat : N = NumBank /\ N > 0
      BY FlashFacts
    <3>2. 0 \in 0 .. N - 1
      BY <3>1
    <3> QED
      BY <1>1, <3>1, <3>2 DEF Bank
  <2> QED
    BY <1>1, <2>1 DEF Ranges, Home
<1>6. FullIsProgrammed
  BY <1>2, FlashFacts DEF FullIsProgrammed
<1>7. ProgramIsFull /\ TailIsFree /\ VictimAtHand /\ RemapIsMapped
  BY <1>1 DEF ProgramIsFull, TailIsFree, VictimAtHand, RemapIsMapped
<1> QED
  BY <1>4, <1>5, <1>6, <1>7 DEF FTLInv

\* FTLInv is inductive: it holds when RSP_Open is done, and each step of RSP_WritePage
\* (ATLWrapper.cpp), of a remap (:1118) and of the incremental collector keeps it.
THEOREM FTLInvariant == Spec => []FTLInv
<1>1. FTLInv /\ [Next]_vars => FTLInv'
  <2> SUFFICES ASSUME FTLInv, [Next]_vars
               PROVE  FTLInv'
    OBVIOUS
  <2>1. CASE NoPage
    BY <2>1, NoPageKeeps
  <2>2. ASSUME NEW l \in HomeLPN, Merge(l)
        PROVE  FTLInv'
    BY <2>2, MergeKeeps
  <2>3. ASSUME NEW s \in SlotLPN, WritePadding(s)
        PROVE  FTLInv'
    BY <2>3, WritePaddingKeeps
  <2>4. ASSUME NEW s \in SlotLPN, Remap(s)
        PROVE  FTLInv'
    BY <2>4, RemapKeeps
  <2>5. CASE Command
    BY <2>5, CommandKeeps
  <2>6. ASSUME NEW t \in WriteTypes, NEW l \in LPN, NEW o \in HomeLPN \cup {RSP_INVALID_LPN},
               write_page(t, l, o)
        PROVE  FTLInv'
    BY <2>6, WritePageKeeps DEF Home
  <2>7. CASE AssignFails
    BY <2>7, AssignFailsKeeps
  <2>8. CASE Program
    BY <2>8, ProgramStepKeeps
  <2>9. CASE incremental_GC
    BY <2>9, IncrementalGCKeeps
  <2>10. CASE ChooseVictim
    BY <2>10, ChooseVictimKeeps
  <2>11. CASE GCRead
    BY <2>11, GCReadKeeps
  <2>12. CASE EraseVictim
    BY <2>12, EraseVictimKeeps
  <2>13. CASE NothingToErase
    BY <2>13, NothingToEraseKeeps
  <2>14. CASE UNCHANGED vars
    <3>1. UNCHANGED <<nand, vpn, twrite, cur_write_bank, pc, loop, write_type, kept>>
      BY <2>14 DEF vars, call
    <3>2. SlotInv(nand', vpn') /\ Ranges'
      BY <3>1 DEF FTLInv, Ranges
    <3>3. FullIsProgrammed' /\ ProgramIsFull' /\ TailIsFree'
      BY <3>1 DEF FTLInv, FullIsProgrammed, ProgramIsFull, TailIsFree
    <3>4. VictimAtHand' /\ RemapIsMapped'
      BY <3>1 DEF FTLInv, VictimAtHand, RemapIsMapped, GCBank
    <3> QED
      BY <3>2, <3>3, <3>4 DEF FTLInv
  <2> QED
    BY <2>1, <2>2, <2>3, <2>4, <2>5, <2>6, <2>7, <2>8, <2>9, <2>10, <2>11, <2>12, <2>13, <2>14 DEF Next
<1> QED
  BY <1>1, FTLInit, PTL DEF Spec

\* No block of a bank is ever lost or in two lists, whatever moves it: a program
\* that opens it (assign_new_write_vpn, ATLWrapper.cpp:1682), its last slot's remap,
\* the collector that takes it, or the erase that frees it.
THEOREM BlocksAreConserved == Spec => []BlocksConserved
<1>1. FTLInv => BlocksConserved
  <2> SUFFICES ASSUME FTLInv, NEW b \in Bank
               PROVE  LET list == Lists(nand[b])
                      IN  /\ UNION {ToSet(list[name]) : name \in ListName} = Block
                          /\ \A x, y \in ListName : \A i \in DOMAIN list[x], j \in DOMAIN list[y] :
                                list[x][i] = list[y][j] => x = y /\ i = j
    BY DEF BlocksConserved
  <2>1. Conserved(nand[b])
    BY DEF FTLInv, SlotInv, BankInv
  <2> DEFINE list == Lists(nand[b])
  <2>2. UNION {ToSet(list[name]) : name \in ListName} = Block
    BY <2>1 DEF Conserved, Held
  <2>3. ASSUME NEW x \in ListName, NEW y \in ListName,
               NEW i \in DOMAIN list[x], NEW j \in DOMAIN list[y], list[x][i] = list[y][j]
        PROVE  x = y /\ i = j
    <3>1. list[x][i] \in Held(nand[b], x) /\ list[y][j] \in Held(nand[b], y)
      BY DEF Held, ToSet
    <3> HIDE DEF list
    <3>2. x = y
      BY <2>1, <2>3, <3>1 DEF Conserved
    <3>3. List(list[x])
      BY <2>1 DEF Conserved, list
    <3> QED
      BY <2>3, <3>2, <3>3 DEF List
  <2> QED
    BY <2>2, <2>3
<1> QED
  BY <1>1, FTLInvariant, PTL

\* A page at a log address stays out of the collector's reach until its remap or
\* its next write: the block it is in is in no list that victims are taken from
\* (get_vt_vblock looks at data_list only, ATLWrapper.cpp:3020).
THEOREM LogPagesAlwaysStay == Spec => []LogPagesStay
<1>1. FTLInv => LogPagesStay
  <2> SUFFICES ASSUME FTLInv, NEW s \in SlotLPN, InFlash(vpn[s])
               PROVE  vpn[s].block \in ToSet(nand[vpn[s].bank].RW_log_list)
    BY DEF LogPagesStay
  <2>1. SlotInv(nand, vpn)
    BY DEF FTLInv
  <2>2. ~InLogBuffer(nand, vpn[s], s)
    <3> SUFFICES ASSUME NEW b \in Bank, NEW pos \in DOMAIN nand[b].writebuf["RW"],
                        vpn[s] = Buffered(b, "RW", pos)
                 PROVE  FALSE
      BY DEF InLogBuffer
    <3>1. pos \in Position /\ "RW" \in Type
      BY <2>1, BufferPositions DEF SlotInv, Type
    <3> QED
      BY <3>1, BufferPlace
  <2>3. InLogBlock(nand, vpn[s])
    BY <2>1, <2>2 DEF SlotInv, InFlash
  <2>4. PICK b \in Bank : \E blk \in ToSet(nand[b].RW_log_list), off \in Offset :
            vpn[s] = Flash(b, blk, off)
    BY <2>3 DEF InLogBlock
  <2>5. PICK blk \in ToSet(nand[b].RW_log_list), off \in Offset : vpn[s] = Flash(b, blk, off)
    BY <2>4
  <2>6. vpn[s].bank = b /\ vpn[s].block = blk
    BY <2>5 DEF Flash
  <2> QED
    BY <2>6
<1> QED
  BY <1>1, FTLInvariant, PTL

\* remained_remap_cnt of every block is exact, through remaps in the buffer and in
\* flash, slots written again and padding: it decides when the pages of a block may
\* be collected (ATLWrapper.cpp:1118, 1469, 1660).
THEOREM RemainedIsAlwaysMapped == Spec => []RemainedIsMapped
<1>1. FTLInv => RemainedIsMapped
  <2>1. \A b, blk : MappedInto(b, blk, SlotLPN) = MappedIn(vpn, b, blk)
    BY DEF MappedInto, MappedIn
  <2> QED
    BY <2>1 DEF FTLInv, SlotInv, RemainedIsMapped
<1> QED
  BY <1>1, FTLInvariant, PTL
=============================================================================
