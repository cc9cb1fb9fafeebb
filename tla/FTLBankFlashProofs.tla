-------------------------- MODULE FTLBankFlashProofs -------------------------
(***************************************************************************)
(* What a step of FTLBank does to the flash of one bank: the part of the   *)
(* invariant of FTLBankMapProofs that is about valid counts, valid         *)
(* bitmaps, spare areas and the collector's buffer, and one lemma for      *)
(* each way in which a step changes it.                                    *)
(***************************************************************************)
EXTENDS FTLBankProofs
LOCAL INSTANCE SequencesExt
LOCAL INSTANCE FiniteSetsExt

(***************************************************************************)
(* The invariant of the flash of a bank, for a logical map: what it says   *)
(* of write buffers comes below.                                           *)
(***************************************************************************)
\* A victim that is read has at least one program's worth of invalid pages.
MaxVcount == 2 * PhysPages - SuperPage

InBank(v, b) == InFlash(v) /\ v.bank = b
InBlock(v, b, blk) == InBank(v, b) /\ v.block = blk
Into(map, b, blk) == {l \in LPN : InBlock(map[l], b, blk)}

\* The physical page of a place, a half of which it is.
PhysPageOf(off) == off \div 2

\* The collector reads the blocks that are no victims yet, and of the current
\* victim what lies behind cur_vt_vpn.
Reading(n, blk) == n.cur_vt_vpn # VC_MAX /\ n.cur_vt_vpn.block = blk
Unread(n, blk, off) ==
    \/ blk \notin Held(n, "victim")
    \/ Reading(n, blk) /\ PhysPageOf(off) >= n.cur_vt_vpn.page

VcountsRight(b, n, map) ==
    \A blk \in Block :
        LET vcount == n.block_list[blk].vcount
        IN  /\ vcount \in Nat
            /\ Cardinality(Into(map, b, blk)) = IF vcount = VC_ERASED THEN 0 ELSE vcount
            /\ vcount = VC_ERASED => blk \in Held(n, "free") \cup Held(n, "GC")

FreeIsEmpty(b, n, map) ==
    \A blk \in Held(n, "free") \cup Held(n, "GC") : Into(map, b, blk) = {}

\* The valid bitmap and the spare areas agree with the map, as far as they are
\* still to be read.  An erased block keeps its bitmap, but no spare area.
MarksTrue(b, n, map) ==
    \A blk \in Block :
        LET info == n.block_list[blk]
        IN  /\ info.vbitmap \subseteq Offset
            /\ \A off \in Offset : Unread(n, blk, off) =>
                /\ \A l \in LPN : map[l] = Flash(b, blk, off) =>
                        off \in info.vbitmap /\ (l \in HomeLPN => info.spare[off] = l)
                /\ off \in info.vbitmap /\ info.spare[off] # RSP_INVALID_LPN =>
                        \E l \in LPN : map[l] = Flash(b, blk, off)

\* The collector's buffer holds the pages of its victims that were read, once.
GCHeld(n) == {l \in LPN : \E i \in DOMAIN n.GCbuf_lpn : n.GCbuf_lpn[i] = l}
HeldOnce(n) ==
    \A i, j \in DOMAIN n.GCbuf_lpn :
        n.GCbuf_lpn[i] = n.GCbuf_lpn[j] => i = j \/ n.GCbuf_lpn[i] = RSP_INVALID_LPN
HeldIsRead(b, n, map) ==
    \A l \in LPN :
        l \in GCHeld(n) <=>
            \E blk \in Held(n, "victim"), off \in Offset :
                map[l] = Flash(b, blk, off) /\ ~Unread(n, blk, off)

\* The current victim is the youngest, and num_gcbuffed counts its buffered pages.
CurrentIsLast(b, n, map) ==
    n.cur_vt_vpn # VC_MAX =>
        /\ n.cur_vt_vpn.page \in 0 .. PhysPages
        /\ n.victim_list # <<>>
        /\ n.cur_vt_vpn.block = n.victim_list[Len(n.victim_list)]
        /\ n.num_gcbuffed = Cardinality(GCHeld(n) \cap Into(map, b, n.cur_vt_vpn.block))

Collecting(b, n, map) ==
    /\ HeldOnce(n)
    /\ HeldIsRead(b, n, map)
    /\ \A blk \in Held(n, "victim") : n.block_list[blk].vcount <= MaxVcount
    /\ n.num_gcbuffed \in Nat
    /\ CurrentIsLast(b, n, map)

\* The pages of a block that is being filled are mapped up to the active one.
PageOf(off) == (off \div 2) % PAGES_PER_BLK
MappedBelow(b, blk, page, map) ==
    \A l \in LPN : InBlock(map[l], b, blk) => PageOf(map[l].off) < page
NextPage(n, t) == n.cur_write_vpn[t].page + (IF n.write_start[t] THEN 1 ELSE 0)
Filling(n, t) == n.cur_write_vpn[t].page # LAST

WritesFresh(b, n, map) ==
    /\ n.write_start \in [Type -> BOOLEAN]
    /\ \A t \in Type : n.cur_write_vpn[t].page # 0 => n.write_start[t]
    /\ Filling(n, "SW") => n.cur_write_vpn["SW"].block \in Held(n, "data")
    /\ \A t \in Type : Filling(n, t) =>
            MappedBelow(b, n.cur_write_vpn[t].block, NextPage(n, t), map)
CollectorFresh(b, n, map) ==
    n.cur_gc_vpn # VC_MAX =>
        /\ n.cur_gc_vpn \in [block : Block, page : 0 .. LAST]
        /\ n.cur_gc_vpn.page # LAST =>
            /\ n.cur_gc_vpn.block \in Held(n, "data")
            /\ \A t \in Type : Filling(n, t) => n.cur_write_vpn[t].block # n.cur_gc_vpn.block
            /\ MappedBelow(b, n.cur_gc_vpn.block, n.cur_gc_vpn.page + 1, map)

\* While the collector has no block in reserve, what it has written since it took
\* the last one came from the oldest victim, which is not empty yet.
Holes(n) == {i \in DOMAIN n.GCbuf_lpn : n.GCbuf_lpn[i] = RSP_INVALID_LPN}
ReserveIsBack(n) ==
    n.GC_BLK = VC_MAX =>
        LET oldest == n.victim_list[1]
            vcount == n.block_list[oldest].vcount
            page == n.cur_gc_vpn.page
        IN  /\ n.cur_gc_vpn # VC_MAX
            /\ n.victim_list # <<>>
            /\ vcount # 0 =>
                IF Reading(n, oldest)
                THEN vcount + Cardinality(Holes(n)) + page * SuperPage <= MaxVcount
                ELSE page < LAST

BankFlash(b, n, map) ==
    /\ VcountsRight(b, n, map)
    /\ FreeIsEmpty(b, n, map)
    /\ MarksTrue(b, n, map)
    /\ Collecting(b, n, map)
    /\ WritesFresh(b, n, map)
    /\ CollectorFresh(b, n, map)

\* Two addresses are never at one place.
MapApart(map) ==
    /\ \A l \in LPN : InFlash(map[l]) => map[l] \in VPN
    /\ \A l, x \in LPN : InFlash(map[l]) /\ map[x] = map[l] => x = l

FlashInv(banks, map) ==
    /\ MapApart(map)
    /\ \A b \in Bank : BankFlash(b, banks[b], map) /\ ReserveIsBack(banks[b])

\* Between two rounds the collector's buffer is not full and the victim has pages left.
Rested(n) ==
    /\ Len(n.GCbuf_lpn) < SuperPage
    /\ n.cur_vt_vpn # VC_MAX => n.cur_vt_vpn.page < PhysPages

-----------------------------------------------------------------------------
\* An address in the flash of a bank, and its place.
LEMMA PlaceIs ==
    ASSUME NEW map, MapApart(map), NEW l \in LPN, NEW b, NEW blk, InBlock(map[l], b, blk)
    PROVE  /\ map[l] = Flash(b, blk, map[l].off) /\ map[l].off \in Offset
           /\ b \in Bank /\ blk \in Block
<1>1. map[l] \in VPN /\ map[l].bank = b /\ map[l].block = blk
  BY DEF MapApart, InBlock, InBank
<1>2. PICK c \in Bank, k \in Block, off \in Offset : map[l] = [bank |-> c, block |-> k, off |-> off]
  BY <1>1 DEF VPN
<1> QED
  BY <1>1, <1>2 DEF Flash

\* The other way round.
LEMMA FlashIsIn ==
    ASSUME NEW v, NEW b \in Bank, NEW blk \in Block, NEW off \in Offset, v = Flash(b, blk, off)
    PROVE  InFlash(v) /\ InBank(v, b) /\ InBlock(v, b, blk) /\ v.off = off /\ v.bank = b /\ v.block = blk
BY FlashPlace DEF InBank, InBlock

\* The addresses mapped into a block are no more than its pages.
LEMMA IntoFinite ==
    ASSUME NEW map, MapApart(map), NEW b, NEW blk
    PROVE  /\ IsFiniteSet(Into(map, b, blk)) /\ Cardinality(Into(map, b, blk)) \in Nat
           /\ Cardinality(Into(map, b, blk)) <= 2 * PhysPages
<1>1. PICK P \in Nat : P = PhysPages
  BY FlashFacts
<1>2. IsFiniteSet(Offset) /\ Cardinality(Offset) = 2 * P
  <2>1. 0 \in Int /\ 2 * P - 1 \in Int /\ Offset = 0 .. 2 * P - 1
    BY <1>1 DEF Offset
  <2>2. IsFiniteSet(0 .. 2 * P - 1) /\ Cardinality(0 .. 2 * P - 1) = IF 0 > 2 * P - 1 THEN 0 ELSE 2 * P - 1 - 0 + 1
    BY <2>1, FS_Interval
  <2> QED
    BY <2>1, <2>2
<1> DEFINE S == Into(map, b, blk)
           f == [l \in S |-> map[l].off]
<1>3. \A l \in S : l \in LPN /\ map[l] = Flash(b, blk, map[l].off) /\ map[l].off \in Offset
  BY PlaceIs DEF Into
<1>4. f \in [S -> Offset]
  BY <1>3
<1>5. \A x, y \in S : f[x] = f[y] => x = y
  <2> SUFFICES ASSUME NEW x \in S, NEW y \in S, map[x].off = map[y].off
               PROVE  x = y
    OBVIOUS
  <2>1. map[x] = map[y]
    BY <1>3
  <2>2. InFlash(map[x])
    BY DEF Into, InBlock, InBank
  <2> QED
    BY <1>3, <2>1, <2>2 DEF MapApart
<1> HIDE DEF f, S
<1>6. IsFiniteSet(S) /\ Cardinality(S) <= Cardinality(Offset)
  BY <1>2, <1>4, <1>5, InjectionBounded
<1>7. Cardinality(S) \in Nat
  BY <1>6, FS_CardinalityType
<1> QED
  BY <1>1, <1>2, <1>6, <1>7 DEF S

\* The oldest victim and the youngest are blocks.
LEMMA OldestIsBlock ==
    ASSUME NEW n, BankInv(n), n.victim_list # <<>>
    PROVE  /\ Len(n.victim_list) \in Nat \ {0} /\ DOMAIN n.victim_list = 1 .. Len(n.victim_list)
           /\ \A i \in 1 .. Len(n.victim_list) : n.victim_list[i] \in Block /\ n.victim_list[i] \in Held(n, "victim")
           /\ n.victim_list[1] \in Block /\ n.victim_list[1] \in Held(n, "victim")
           /\ \A i, j \in 1 .. Len(n.victim_list) : n.victim_list[i] = n.victim_list[j] => i = j
<1>1. List(n.victim_list) /\ Held(n, "victim") = ToSet(n.victim_list)
  BY ListsAre DEF BankInv, Conserved, Held
<1>2. Len(n.victim_list) \in Nat \ {0} /\ DOMAIN n.victim_list = 1 .. Len(n.victim_list)
  BY <1>1, LenProperties, EmptySeq DEF List
<1>3. \A i \in 1 .. Len(n.victim_list) : n.victim_list[i] \in Block /\ n.victim_list[i] \in Held(n, "victim")
  BY <1>1, <1>2 DEF List, ToSet
<1>4. 1 \in 1 .. Len(n.victim_list)
  BY <1>2
<1> QED
  BY <1>1, <1>2, <1>3, <1>4 DEF List

\* What a step leaves alone in a bank and in the map.
SameMap(map, map2, b) ==
    \A l \in LPN : InBank(map[l], b) \/ InBank(map2[l], b) => map2[l] = map[l]
SameFields(n, m, fields) == \A f \in fields : m[f] = n[f]
SameInfo(n, m) ==
    \A blk \in Block : SameFields(n.block_list[blk], m.block_list[blk], {"vcount", "vbitmap", "spare"})

LEMMA SameInto ==
    ASSUME NEW map, NEW map2, NEW b, SameMap(map, map2, b)
    PROVE  /\ \A blk : Into(map2, b, blk) = Into(map, b, blk)
           /\ \A l \in LPN : \A blk : InBlock(map2[l], b, blk) <=> InBlock(map[l], b, blk)
           /\ \A l \in LPN : \A blk : InBlock(map[l], b, blk) => map2[l] = map[l]
           /\ b \in Bank => \A l \in LPN : \A blk \in Block, off \in Offset :
                    map2[l] = Flash(b, blk, off) <=> map[l] = Flash(b, blk, off)
<1>1. \A l \in LPN : \A blk : InBlock(map2[l], b, blk) <=> InBlock(map[l], b, blk)
  BY DEF SameMap, InBlock
<1>2. \A l \in LPN : \A blk : InBlock(map[l], b, blk) => map2[l] = map[l]
  BY DEF SameMap, InBlock
<1>3. \A blk : Into(map2, b, blk) = Into(map, b, blk)
  BY <1>1 DEF Into
<1>4. ASSUME b \in Bank, NEW l \in LPN, NEW blk \in Block, NEW off \in Offset
      PROVE  map2[l] = Flash(b, blk, off) <=> map[l] = Flash(b, blk, off)
  BY <1>4, FlashIsIn DEF SameMap
<1> QED
  BY <1>1, <1>2, <1>3, <1>4

\* The flash of a bank does not depend on the rest.
FlashField == {"GC_BLK", "cur_write_vpn", "write_start", "free_list", "victim_list", "cur_gc_vpn",
               "cur_vt_vpn", "num_gcbuffed", "GCbuf_lpn"}
LEMMA FlashKept ==
    ASSUME NEW b \in Bank, NEW n, NEW m, NEW map, NEW map2, BankInv(n), BankFlash(b, n, map),
           SameMap(map, map2, b), SameFields(n, m, FlashField), SameInfo(n, m),
           Held(n, "data") \subseteq Held(m, "data")
    PROVE  BankFlash(b, m, map2) /\ (ReserveIsBack(n) => ReserveIsBack(m))
<1>1. /\ m.GC_BLK = n.GC_BLK /\ m.cur_write_vpn = n.cur_write_vpn /\ m.write_start = n.write_start
      /\ m.free_list = n.free_list /\ m.victim_list = n.victim_list
      /\ m.cur_gc_vpn = n.cur_gc_vpn /\ m.cur_vt_vpn = n.cur_vt_vpn
      /\ m.num_gcbuffed = n.num_gcbuffed /\ m.GCbuf_lpn = n.GCbuf_lpn
  BY DEF SameFields, FlashField
<1>2. \A blk \in Block : /\ m.block_list[blk].vcount = n.block_list[blk].vcount
                         /\ m.block_list[blk].vbitmap = n.block_list[blk].vbitmap
                         /\ m.block_list[blk].spare = n.block_list[blk].spare
  BY DEF SameInfo, SameFields
<1>3. /\ Held(m, "free") = Held(n, "free") /\ Held(m, "victim") = Held(n, "victim")
      /\ Held(m, "GC") = Held(n, "GC")
  BY <1>1, ListsAre DEF Held
<1>4. /\ \A blk : Into(map2, b, blk) = Into(map, b, blk)
      /\ \A l \in LPN : \A blk : InBlock(map2[l], b, blk) <=> InBlock(map[l], b, blk)
      /\ \A l \in LPN : \A blk : InBlock(map[l], b, blk) => map2[l] = map[l]
      /\ \A l \in LPN : \A blk \in Block, off \in Offset :
                map2[l] = Flash(b, blk, off) <=> map[l] = Flash(b, blk, off)
  BY SameInto
<1>5. VcountsRight(b, m, map2)
  BY <1>2, <1>3, <1>4 DEF BankFlash, VcountsRight
<1>6. FreeIsEmpty(b, m, map2)
  BY <1>3, <1>4 DEF BankFlash, FreeIsEmpty
<1>7. \A blk, off : Unread(m, blk, off) <=> Unread(n, blk, off)
  BY <1>1, <1>3 DEF Unread, Reading
<1>8. MarksTrue(b, m, map2)
  BY <1>2, <1>4, <1>7 DEF BankFlash, MarksTrue
<1>9. Held(n, "victim") \subseteq Block
  BY HeldBlocks, ListsAre DEF BankInv
<1>10. GCHeld(m) = GCHeld(n)
  BY <1>1 DEF GCHeld
<1>11. Collecting(b, m, map2)
  <2>1. HeldOnce(m)
    BY <1>1 DEF BankFlash, Collecting, HeldOnce
  <2>2. HeldIsRead(b, m, map2)
    BY <1>3, <1>4, <1>7, <1>10, <1>9 DEF BankFlash, Collecting, HeldIsRead
  <2>3. \A blk \in Held(m, "victim") : m.block_list[blk].vcount <= MaxVcount
    BY <1>2, <1>3, <1>9 DEF BankFlash, Collecting
  <2>4. m.num_gcbuffed \in Nat
    BY <1>1 DEF BankFlash, Collecting
  <2>5. CurrentIsLast(b, m, map2)
    BY <1>1, <1>4, <1>10 DEF BankFlash, Collecting, CurrentIsLast
  <2> QED
    BY <2>1, <2>2, <2>3, <2>4, <2>5 DEF Collecting
<1>12. \A blk, page : MappedBelow(b, blk, page, map2) <=> MappedBelow(b, blk, page, map)
  BY <1>4 DEF MappedBelow
<1>13. WritesFresh(b, m, map2)
  BY <1>1, <1>12 DEF BankFlash, WritesFresh, Filling, NextPage
<1>14. CollectorFresh(b, m, map2)
  BY <1>1, <1>12 DEF BankFlash, CollectorFresh, Filling
<1>15. ASSUME ReserveIsBack(n)
       PROVE  ReserveIsBack(m)
  <2>1. n.victim_list # <<>> => n.victim_list[1] \in Block
    BY OldestIsBlock
  <2> QED
    BY <1>1, <1>2, <1>15, <2>1 DEF ReserveIsBack, Reading, Holes
<1> QED
  BY <1>5, <1>6, <1>8, <1>11, <1>13, <1>14, <1>15 DEF BankFlash

\* The positions of the collector's buffer are finitely many.
LEMMA HolesFinite ==
    ASSUME NEW n, BankInv(n)
    PROVE  /\ Len(n.GCbuf_lpn) \in Nat /\ DOMAIN n.GCbuf_lpn = 1 .. Len(n.GCbuf_lpn)
           /\ IsFiniteSet(Holes(n)) /\ Cardinality(Holes(n)) \in Nat
<1>1. Len(n.GCbuf_lpn) \in Nat /\ DOMAIN n.GCbuf_lpn = 1 .. Len(n.GCbuf_lpn)
  BY LenProperties DEF BankInv, HomeOnly
<1>2. IsFiniteSet(1 .. Len(n.GCbuf_lpn))
  BY <1>1, FS_Interval
<1>3. Holes(n) \subseteq 1 .. Len(n.GCbuf_lpn)
  BY <1>1 DEF Holes
<1> QED
  BY <1>1, <1>2, <1>3, FS_Subset, FS_CardinalityType

-----------------------------------------------------------------------------
\* The map is the same as far as it leads to flash.
SameFlash(map, map2) ==
    \A l \in LPN : InFlash(map[l]) \/ InFlash(map2[l]) => map2[l] = map[l]

\* What a step leaves alone in one bank.
SameBank(n, m) ==
    SameFields(n, m, FlashField) /\ SameInfo(n, m) /\ Held(n, "data") \subseteq Held(m, "data")

LEMMA FlashNeutral ==
    ASSUME NEW banks, NEW map, FlashInv(banks, map), \A b \in Bank : BankInv(banks[b]),
           NEW banks2, NEW map2, SameFlash(map, map2),
           \A b \in Bank : SameBank(banks[b], banks2[b])
    PROVE  FlashInv(banks2, map2)
<1>1. MapApart(map2)
  BY DEF FlashInv, MapApart, SameFlash
<1>2. ASSUME NEW b \in Bank
      PROVE  BankFlash(b, banks2[b], map2) /\ ReserveIsBack(banks2[b])
  <2>1. SameMap(map, map2, b)
    BY DEF SameMap, SameFlash, InBank
  <2>2. BankFlash(b, banks[b], map) /\ ReserveIsBack(banks[b]) /\ BankInv(banks[b])
    BY DEF FlashInv
  <2> QED
    BY <2>1, <2>2, FlashKept DEF SameBank
<1> QED
  BY <1>1, <1>2 DEF FlashInv

\* A bank that stays.
LEMMA BankStays == \A n : SameBank(n, n)
BY DEF SameBank, SameFields, SameInfo

\* A step of one bank.
LEMMA FlashStep ==
    ASSUME NEW banks, NEW map, FlashInv(banks, map), \A c \in Bank : BankInv(banks[c]),
           NEW b \in Bank, NEW banks2, \A c \in Bank : c # b => banks2[c] = banks[c],
           NEW map2, MapApart(map2), \A c \in Bank : c # b => SameMap(map, map2, c),
           BankFlash(b, banks2[b], map2), ReserveIsBack(banks2[b])
    PROVE  FlashInv(banks2, map2)
<1>1. ASSUME NEW c \in Bank, c # b
      PROVE  BankFlash(c, banks2[c], map2) /\ ReserveIsBack(banks2[c])
  <2>1. BankFlash(c, banks[c], map) /\ ReserveIsBack(banks[c]) /\ BankInv(banks[c])
    BY DEF FlashInv
  <2>2. SameBank(banks[c], banks2[c])
    BY <1>1, BankStays
  <2>3. SameMap(map, map2, c)
    BY <1>1
  <2> QED
    BY <2>1, <2>2, <2>3, FlashKept DEF SameBank
<1> QED
  BY <1>1 DEF FlashInv

-----------------------------------------------------------------------------
(***************************************************************************)
(* A page in flash is no longer the newest of its address.                 *)
(***************************************************************************)
\* The first place of an element in a queue.
LEMMA Selected ==
    ASSUME NEW S, NEW q \in Seq(S), NEW l
    PROVE  LET i == SelectInSeq(q, LAMBDA x : x = l)
           IN  /\ (\A j \in DOMAIN q : q[j] # l) => i = 0
               /\ (\E j \in DOMAIN q : q[j] = l) => i # 0 /\ i \in DOMAIN q /\ q[i] = l
<1> DEFINE I == {i \in 1 .. Len(q) : q[i] = l}
<1>1. DOMAIN q = 1 .. Len(q) /\ Len(q) \in Nat
  BY LenProperties
<1>2. SelectInSeq(q, LAMBDA x : x = l) = IF I # {} THEN Min(I) ELSE 0
  BY DEF SelectInSeq
<1>3. ASSUME I # {}
      PROVE  Min(I) \in I
  <2>1. I \subseteq Nat
    BY <1>1
  <2>2. \E k \in I : \A j \in I : k <= j
    BY <1>3, <2>1, LeastNatural
  <2> QED
    BY <2>2 DEF Min
<1> HIDE DEF I
<1>4. (\A j \in DOMAIN q : q[j] # l) => I = {}
  BY <1>1 DEF I
<1>5. (\E j \in DOMAIN q : q[j] = l) => I # {}
  BY <1>1 DEF I
<1>6. \A i \in I : i # 0 /\ i \in DOMAIN q /\ q[i] = l
  BY <1>1 DEF I
<1> QED
  BY <1>2, <1>3, <1>4, <1>5, <1>6

\* What Invalidate does to a bank.
LEMMA InvalidateIs ==
    ASSUME NEW n, BankInv(n), NEW l \in LPN, NEW v, v.block \in Block,
           NEW m, m = Invalidate(n, l, v)
    PROVE  LET current == n.cur_vt_vpn # VC_MAX /\ n.cur_vt_vpn.block = v.block
           IN  /\ \A f \in BankField \ {"GCbuf_lpn", "num_gcbuffed", "block_list"} : m[f] = n[f]
               /\ \A k \in Block : k # v.block => m.block_list[k] = n.block_list[k]
               /\ m.block_list[v.block].vcount = n.block_list[v.block].vcount - 1
               /\ m.block_list[v.block].vbitmap = n.block_list[v.block].vbitmap \ {v.off}
               /\ m.block_list[v.block].spare = n.block_list[v.block].spare
               /\ DOMAIN m.GCbuf_lpn = DOMAIN n.GCbuf_lpn
               /\ l \notin GCHeld(n) => m.GCbuf_lpn = n.GCbuf_lpn /\ m.num_gcbuffed = n.num_gcbuffed
               /\ l \in GCHeld(n) =>
                    /\ m.num_gcbuffed = IF current THEN n.num_gcbuffed - 1 ELSE n.num_gcbuffed
                    /\ \E i \in DOMAIN n.GCbuf_lpn :
                        /\ n.GCbuf_lpn[i] = l /\ m.GCbuf_lpn[i] = RSP_INVALID_LPN
                        /\ \A j \in DOMAIN n.GCbuf_lpn : j # i => m.GCbuf_lpn[j] = n.GCbuf_lpn[j]
<1> DEFINE c == check_n_invalid_GCbuff(n, l, v.block)
           i == SelectInSeq(n.GCbuf_lpn, LAMBDA x : x = l)
           current == n.cur_vt_vpn # VC_MAX /\ n.cur_vt_vpn.block = v.block
<1>1. n.GCbuf_lpn \in Seq(Home) /\ DOMAIN n = BankField /\ DOMAIN n.block_list = Block
      /\ DOMAIN n.block_list[v.block] = InfoField
  BY DEF BankInv, HomeOnly, BankShape
<1>2. /\ l \notin GCHeld(n) => i = 0
      /\ l \in GCHeld(n) => i # 0 /\ i \in DOMAIN n.GCbuf_lpn /\ n.GCbuf_lpn[i] = l
  <2>1. /\ (\A j \in DOMAIN n.GCbuf_lpn : n.GCbuf_lpn[j] # l) => i = 0
        /\ (\E j \in DOMAIN n.GCbuf_lpn : n.GCbuf_lpn[j] = l) =>
                i # 0 /\ i \in DOMAIN n.GCbuf_lpn /\ n.GCbuf_lpn[i] = l
    BY <1>1, Selected
  <2> HIDE DEF i
  <2> QED
    BY <2>1 DEF GCHeld
<1>3. c = IF i = 0 THEN n
          ELSE [n EXCEPT !.GCbuf_lpn[i] = RSP_INVALID_LPN,
                         !.num_gcbuffed = IF current THEN @ - 1 ELSE @]
  BY DEF c, check_n_invalid_GCbuff
<1> HIDE DEF i, c, current
<1>4. /\ DOMAIN c = BankField
      /\ \A f \in BankField \ {"GCbuf_lpn", "num_gcbuffed"} : c[f] = n[f]
      /\ i = 0 => c.GCbuf_lpn = n.GCbuf_lpn /\ c.num_gcbuffed = n.num_gcbuffed
      /\ i # 0 => /\ c.GCbuf_lpn = [n.GCbuf_lpn EXCEPT ![i] = RSP_INVALID_LPN]
                  /\ c.num_gcbuffed = IF current THEN n.num_gcbuffed - 1 ELSE n.num_gcbuffed
  BY <1>1, <1>3 DEF BankField
<1>5. m = [c EXCEPT !.block_list[v.block] = Unmarked(@, v.off)]
  BY DEF c, Invalidate
<1>6. /\ \A f \in BankField \ {"block_list"} : m[f] = c[f]
      /\ m.block_list = [n.block_list EXCEPT ![v.block] = Unmarked(@, v.off)]
  BY <1>4, <1>5 DEF BankField
<1>7. /\ \A k \in Block : k # v.block => m.block_list[k] = n.block_list[k]
      /\ m.block_list[v.block] = Unmarked(n.block_list[v.block], v.off)
  BY <1>1, <1>6
<1>8. /\ m.block_list[v.block].vcount = n.block_list[v.block].vcount - 1
      /\ m.block_list[v.block].vbitmap = n.block_list[v.block].vbitmap \ {v.off}
      /\ m.block_list[v.block].spare = n.block_list[v.block].spare
  BY <1>1, <1>7 DEF Unmarked, InfoField
<1>9. m.GCbuf_lpn = c.GCbuf_lpn /\ m.num_gcbuffed = c.num_gcbuffed
  BY <1>6 DEF BankField
<1>10. /\ \A f \in BankField \ {"GCbuf_lpn", "num_gcbuffed", "block_list"} : m[f] = n[f]
  BY <1>4, <1>6
<1>11. DOMAIN m.GCbuf_lpn = DOMAIN n.GCbuf_lpn
  BY <1>4, <1>9
<1>12. l \notin GCHeld(n) => m.GCbuf_lpn = n.GCbuf_lpn /\ m.num_gcbuffed = n.num_gcbuffed
  BY <1>2, <1>4, <1>9
<1>13. l \in GCHeld(n) =>
         /\ m.num_gcbuffed = IF current THEN n.num_gcbuffed - 1 ELSE n.num_gcbuffed
         /\ \E j \in DOMAIN n.GCbuf_lpn :
                /\ n.GCbuf_lpn[j] = l /\ m.GCbuf_lpn[j] = RSP_INVALID_LPN
                /\ \A k \in DOMAIN n.GCbuf_lpn : k # j => m.GCbuf_lpn[k] = n.GCbuf_lpn[k]
  BY <1>2, <1>4, <1>9
<1> QED
  BY <1>7, <1>8, <1>10, <1>11, <1>12, <1>13 DEF current

\* The page no longer counts for its block, nor among what the collector holds.
LEMMA InvalidateFlash ==
    ASSUME NEW b \in Bank, NEW n, BankInv(n), NEW map, MapApart(map), BankFlash(b, n, map),
           ReserveIsBack(n), NEW l \in LPN, InBank(map[l], b),
           NEW m, m = Invalidate(n, l, map[l]),
           NEW map2, ~InFlash(map2[l]), \A x \in LPN : x # l => map2[x] = map[x]
    PROVE  BankFlash(b, m, map2) /\ ReserveIsBack(m) /\ l \notin GCHeld(m)
<1> DEFINE v == map[l]
           blk == v.block
           off == v.off
           current == n.cur_vt_vpn # VC_MAX /\ n.cur_vt_vpn.block = blk
<1>1. v = Flash(b, blk, off) /\ off \in Offset /\ blk \in Block /\ InBlock(v, b, blk)
  BY PlaceIs DEF InBlock
<1>2. /\ \A f \in BankField \ {"GCbuf_lpn", "num_gcbuffed", "block_list"} : m[f] = n[f]
      /\ \A k \in Block : k # blk => m.block_list[k] = n.block_list[k]
      /\ m.block_list[blk].vcount = n.block_list[blk].vcount - 1
      /\ m.block_list[blk].vbitmap = n.block_list[blk].vbitmap \ {off}
      /\ m.block_list[blk].spare = n.block_list[blk].spare
      /\ DOMAIN m.GCbuf_lpn = DOMAIN n.GCbuf_lpn
      /\ l \notin GCHeld(n) => m.GCbuf_lpn = n.GCbuf_lpn /\ m.num_gcbuffed = n.num_gcbuffed
      /\ l \in GCHeld(n) =>
            /\ m.num_gcbuffed = IF current THEN n.num_gcbuffed - 1 ELSE n.num_gcbuffed
            /\ \E i \in DOMAIN n.GCbuf_lpn :
                /\ n.GCbuf_lpn[i] = l /\ m.GCbuf_lpn[i] = RSP_INVALID_LPN
                /\ \A j \in DOMAIN n.GCbuf_lpn : j # i => m.GCbuf_lpn[j] = n.GCbuf_lpn[j]
  <2> HIDE DEF v, off
  <2>1. v.block \in Block
    BY <1>1
  <2>2. m = Invalidate(n, l, v)
    BY DEF v
  <2> QED
    BY <2>1, <2>2, InvalidateIs DEF off
<1>3. /\ m.GC_BLK = n.GC_BLK /\ m.cur_write_vpn = n.cur_write_vpn /\ m.write_start = n.write_start
      /\ m.data_list = n.data_list /\ m.RW_log_list = n.RW_log_list
      /\ m.free_list = n.free_list /\ m.victim_list = n.victim_list
      /\ m.cur_gc_vpn = n.cur_gc_vpn /\ m.cur_vt_vpn = n.cur_vt_vpn
  BY <1>2 DEF BankField
<1>4. /\ \A name \in ListName : Held(m, name) = Held(n, name)
      /\ Held(m, "free") = Held(n, "free") /\ Held(m, "victim") = Held(n, "victim")
      /\ Held(m, "GC") = Held(n, "GC") /\ Held(m, "data") = Held(n, "data")
  <2>1. Lists(m) = Lists(n)
    BY <1>3 DEF Lists
  <2> QED
    BY <2>1 DEF Held
<1> HIDE DEF v, off, blk
<1>5. \A x \in LPN : \A k : InBlock(map2[x], b, k) <=> x # l /\ InBlock(map[x], b, k)
  BY DEF InBlock, InBank
<1>6. \A x \in LPN : \A k \in Block, o \in Offset :
          map2[x] = Flash(b, k, o) <=> x # l /\ map[x] = Flash(b, k, o)
  BY FlashIsIn
<1>7. /\ \A k : Into(map2, b, k) = Into(map, b, k) \ {l}
      /\ l \in Into(map, b, blk)
      /\ \A k \in Block : k # blk => Into(map2, b, k) = Into(map, b, k)
  <2>1. \A k : Into(map2, b, k) = Into(map, b, k) \ {l}
    BY <1>5 DEF Into
  <2>2. \A k : k # blk => l \notin Into(map, b, k)
    BY <1>1 DEF Into, InBlock, v
  <2> QED
    BY <1>1, <2>1, <2>2 DEF Into, v
<1>8. /\ IsFiniteSet(Into(map, b, blk)) /\ Cardinality(Into(map, b, blk)) \in Nat
      /\ Cardinality(Into(map, b, blk)) <= 2 * PhysPages
      /\ Cardinality(Into(map2, b, blk)) = Cardinality(Into(map, b, blk)) - 1
  BY <1>7, IntoFinite, FS_RemoveElement
<1>9. Cardinality(Into(map, b, blk)) > 0
  BY <1>7, <1>8, FS_EmptySet
<1>10. /\ n.block_list[blk].vcount = Cardinality(Into(map, b, blk))
       /\ m.block_list[blk].vcount = Cardinality(Into(map2, b, blk))
       /\ m.block_list[blk].vcount \in Nat /\ m.block_list[blk].vcount # VC_ERASED
       /\ m.block_list[blk].vcount < n.block_list[blk].vcount
  <2>1. n.block_list[blk].vcount = Cardinality(Into(map, b, blk))
    BY <1>1, <1>9 DEF BankFlash, VcountsRight
  <2>2. VC_ERASED \in Nat /\ VC_ERASED > 2 * PhysPages /\ PhysPages \in Nat
    BY NoSuchPlace, FlashFacts
  <2> QED
    BY <1>2, <1>8, <1>9, <2>1, <2>2
<1>11. VcountsRight(b, m, map2)
  <2> SUFFICES ASSUME NEW k \in Block
               PROVE  LET vcount == m.block_list[k].vcount
                      IN  /\ vcount \in Nat
                          /\ Cardinality(Into(map2, b, k)) = IF vcount = VC_ERASED THEN 0 ELSE vcount
                          /\ vcount = VC_ERASED => k \in Held(m, "free") \cup Held(m, "GC")
    BY DEF VcountsRight
  <2>1. CASE k = blk
    BY <1>10, <2>1
  <2>2. CASE k # blk
    BY <1>2, <1>4, <1>7, <2>2 DEF BankFlash, VcountsRight
  <2> QED
    BY <2>1, <2>2
<1>12. FreeIsEmpty(b, m, map2)
  BY <1>4, <1>7 DEF BankFlash, FreeIsEmpty
<1>13. \A k, o : Unread(m, k, o) <=> Unread(n, k, o)
  BY <1>3, <1>4 DEF Unread, Reading
<1>14. MarksTrue(b, m, map2)
  <2> SUFFICES ASSUME NEW k \in Block
               PROVE  LET info == m.block_list[k]
                      IN  /\ info.vbitmap \subseteq Offset
                          /\ \A o \in Offset : Unread(m, k, o) =>
                              /\ \A x \in LPN : map2[x] = Flash(b, k, o) =>
                                      o \in info.vbitmap /\ (x \in HomeLPN => info.spare[o] = x)
                              /\ o \in info.vbitmap /\ info.spare[o] # RSP_INVALID_LPN =>
                                      \E x \in LPN : map2[x] = Flash(b, k, o)
    BY DEF MarksTrue
  <2>1. /\ n.block_list[k].vbitmap \subseteq Offset
        /\ \A o \in Offset : Unread(n, k, o) =>
            /\ \A x \in LPN : map[x] = Flash(b, k, o) =>
                    o \in n.block_list[k].vbitmap /\ (x \in HomeLPN => n.block_list[k].spare[o] = x)
            /\ o \in n.block_list[k].vbitmap /\ n.block_list[k].spare[o] # RSP_INVALID_LPN =>
                    \E x \in LPN : map[x] = Flash(b, k, o)
    BY DEF BankFlash, MarksTrue
  <2>2. CASE k = blk
    <3>1. m.block_list[k].vbitmap = n.block_list[k].vbitmap \ {off} /\ m.block_list[k].spare = n.block_list[k].spare
      BY <1>2, <2>2
    <3>2. \A x \in LPN : map[x] = Flash(b, k, off) => x = l
      BY <1>1, <2>2 DEF MapApart, v, InBlock, InBank
    <3>3. \A o \in Offset : o # off => map[l] # Flash(b, k, o)
      BY <1>1, <2>2, FlashIsIn DEF v
    <3> QED
      BY <1>6, <1>13, <2>1, <3>1, <3>2, <3>3
  <2>3. CASE k # blk
    <3>1. m.block_list[k] = n.block_list[k]
      BY <1>2, <2>3
    <3>2. \A o \in Offset : map[l] # Flash(b, k, o)
      BY <1>1, <2>3, FlashIsIn DEF v
    <3> QED
      BY <1>6, <1>13, <2>1, <3>1, <3>2
  <2> QED
    BY <2>2, <2>3
<1>15. GCHeld(m) = GCHeld(n) \ {l}
  <2>1. CASE l \notin GCHeld(n)
    BY <1>2, <2>1 DEF GCHeld
  <2>2. CASE l \in GCHeld(n)
    <3>1. PICK i \in DOMAIN n.GCbuf_lpn :
            /\ n.GCbuf_lpn[i] = l /\ m.GCbuf_lpn[i] = RSP_INVALID_LPN
            /\ \A j \in DOMAIN n.GCbuf_lpn : j # i => m.GCbuf_lpn[j] = n.GCbuf_lpn[j]
      BY <1>2, <2>2
    <3>2. \A j \in DOMAIN n.GCbuf_lpn : j # i => n.GCbuf_lpn[j] # l
      BY <3>1, FlashFacts DEF BankFlash, Collecting, HeldOnce
    <3>3. DOMAIN m.GCbuf_lpn = DOMAIN n.GCbuf_lpn
      BY <1>2
    <3> QED
      BY <3>1, <3>2, <3>3, FlashFacts DEF GCHeld
  <2> QED
    BY <2>1, <2>2
<1>16. Collecting(b, m, map2)
  <2>1. HeldOnce(m)
    BY <1>2 DEF BankFlash, Collecting, HeldOnce
  <2>9. Held(n, "victim") \subseteq Block
    BY HeldBlocks, ListsAre DEF BankInv
  <2>2. HeldIsRead(b, m, map2)
    BY <1>4, <1>6, <1>13, <1>15, <2>9 DEF BankFlash, Collecting, HeldIsRead
  <2>3. \A k \in Held(m, "victim") : m.block_list[k].vcount <= MaxVcount
    <3> SUFFICES ASSUME NEW k \in Held(m, "victim")
                 PROVE  m.block_list[k].vcount <= MaxVcount
      OBVIOUS
    <3>1. k \in Block /\ n.block_list[k].vcount <= MaxVcount
      BY <1>4, <2>9 DEF BankFlash, Collecting
    <3>2. CASE k # blk
      BY <1>2, <3>1, <3>2
    <3>3. CASE k = blk
      <4>1. MaxVcount \in Int
        BY FlashFacts DEF MaxVcount
      <4> QED
        BY <1>10, <1>8, <3>1, <3>3, <4>1
    <3> QED
      BY <3>2, <3>3
  <2>4. /\ n.num_gcbuffed \in Nat
        /\ current => /\ n.num_gcbuffed = Cardinality(GCHeld(n) \cap Into(map, b, blk))
                      /\ IsFiniteSet(GCHeld(n) \cap Into(map, b, blk))
                      /\ l \in GCHeld(n) => n.num_gcbuffed > 0
    <3>1. n.num_gcbuffed \in Nat
      BY DEF BankFlash, Collecting
    <3>2. IsFiniteSet(GCHeld(n) \cap Into(map, b, blk))
      BY <1>8, FS_Subset
    <3>3. current => n.num_gcbuffed = Cardinality(GCHeld(n) \cap Into(map, b, blk))
      BY DEF BankFlash, Collecting, CurrentIsLast
    <3>4. l \in GCHeld(n) => Cardinality(GCHeld(n) \cap Into(map, b, blk)) # 0
      BY <1>7, <3>2, FS_EmptySet
    <3> QED
      BY <3>1, <3>2, <3>3, <3>4
  <2> HIDE DEF current
  <2>5. m.num_gcbuffed \in Nat
    BY <1>2, <2>4
  <2>6. CurrentIsLast(b, m, map2)
    <3>1. CASE n.cur_vt_vpn = VC_MAX
      BY <1>3, <3>1 DEF CurrentIsLast
    <3>2. CASE current
      <4>1. GCHeld(m) \cap Into(map2, b, blk) = (GCHeld(n) \cap Into(map, b, blk)) \ {l}
        BY <1>7, <1>15
      <4>2. m.num_gcbuffed = Cardinality(GCHeld(m) \cap Into(map2, b, blk))
        <5> DEFINE T == GCHeld(n) \cap Into(map, b, blk)
        <5>1. IsFiniteSet(T) /\ n.num_gcbuffed = Cardinality(T) /\ (l \in T <=> l \in GCHeld(n))
          BY <1>7, <2>4, <3>2
        <5>2. GCHeld(m) \cap Into(map2, b, blk) = T \ {l}
          BY <4>1
        <5> HIDE DEF T
        <5>3. Cardinality(T \ {l}) = IF l \in T THEN Cardinality(T) - 1 ELSE Cardinality(T)
          BY <5>1, FS_RemoveElement
        <5> QED
          BY <1>2, <3>2, <5>1, <5>2, <5>3
      <4> QED
        BY <1>3, <3>2, <4>2 DEF BankFlash, Collecting, CurrentIsLast, current
    <3>3. CASE n.cur_vt_vpn # VC_MAX /\ ~current
      <4> DEFINE k == n.cur_vt_vpn.block
      <4>1. k \in Block /\ k # blk
        BY <3>3 DEF BankInv, BankShape, current
      <4>2. l \notin Into(map, b, k) /\ Into(map2, b, k) = Into(map, b, k)
        BY <1>7, <4>1
      <4>3. GCHeld(m) \cap Into(map2, b, k) = GCHeld(n) \cap Into(map, b, k)
        BY <1>15, <4>2
      <4>4. m.num_gcbuffed = n.num_gcbuffed
        BY <1>2, <3>3
      <4> QED
        BY <1>3, <3>3, <4>3, <4>4 DEF BankFlash, Collecting, CurrentIsLast
    <3> QED
      BY <3>1, <3>2, <3>3 DEF current
  <2> QED
    BY <2>1, <2>2, <2>3, <2>5, <2>6 DEF Collecting
<1>17. \A k, page : MappedBelow(b, k, page, map) => MappedBelow(b, k, page, map2)
  BY <1>5 DEF MappedBelow
<1>18. WritesFresh(b, m, map2)
  BY <1>3, <1>4, <1>17 DEF BankFlash, WritesFresh, Filling, NextPage
<1>19. CollectorFresh(b, m, map2)
  BY <1>3, <1>4, <1>17 DEF BankFlash, CollectorFresh, Filling
<1>20. BankFlash(b, m, map2)
  BY <1>11, <1>12, <1>14, <1>16, <1>18, <1>19 DEF BankFlash
<1>21. \/ Holes(m) = Holes(n)
       \/ l \in GCHeld(n) /\ \E i \in DOMAIN n.GCbuf_lpn : Holes(m) = Holes(n) \cup {i}
  <2>1. CASE l \notin GCHeld(n)
    BY <1>2, <2>1 DEF Holes
  <2>2. CASE l \in GCHeld(n)
    <3>1. PICK i \in DOMAIN n.GCbuf_lpn :
            /\ n.GCbuf_lpn[i] = l /\ m.GCbuf_lpn[i] = RSP_INVALID_LPN
            /\ \A j \in DOMAIN n.GCbuf_lpn : j # i => m.GCbuf_lpn[j] = n.GCbuf_lpn[j]
      BY <1>2, <2>2
    <3>2. Holes(m) = Holes(n) \cup {i}
      BY <1>2, <3>1 DEF Holes
    <3> QED
      BY <2>2, <3>2
  <2> QED
    BY <2>1, <2>2
<1>22. Cardinality(Holes(n)) \in Nat /\ Cardinality(Holes(m)) \in Nat
       /\ Cardinality(Holes(m)) <= Cardinality(Holes(n)) + 1
  <2>1. IsFiniteSet(Holes(n)) /\ Cardinality(Holes(n)) \in Nat
    BY HolesFinite
  <2>2. ASSUME NEW i, Holes(m) = Holes(n) \cup {i}
        PROVE  Cardinality(Holes(m)) \in Nat /\ Cardinality(Holes(m)) <= Cardinality(Holes(n)) + 1
    <3>1. Cardinality(Holes(n) \cup {i}) = IF i \in Holes(n) THEN Cardinality(Holes(n)) ELSE Cardinality(Holes(n)) + 1
      BY <2>1, FS_AddElement
    <3> QED
      BY <2>1, <2>2, <3>1
  <2> QED
    BY <1>21, <2>1, <2>2
<1>23. ReserveIsBack(m)
  <2> SUFFICES ASSUME m.GC_BLK = VC_MAX
               PROVE  LET oldest == m.victim_list[1]
                          vcount == m.block_list[oldest].vcount
                          page == m.cur_gc_vpn.page
                      IN  /\ m.cur_gc_vpn # VC_MAX
                          /\ m.victim_list # <<>>
                          /\ vcount # 0 =>
                              IF Reading(m, oldest)
                              THEN vcount + Cardinality(Holes(m)) + page * SuperPage <= MaxVcount
                              ELSE page < LAST
    BY DEF ReserveIsBack
  <2> DEFINE oldest == n.victim_list[1]
             vcount == n.block_list[oldest].vcount
             page == n.cur_gc_vpn.page
  <2>1. /\ n.cur_gc_vpn # VC_MAX /\ n.victim_list # <<>>
        /\ vcount # 0 => IF Reading(n, oldest)
                         THEN vcount + Cardinality(Holes(n)) + page * SuperPage <= MaxVcount
                         ELSE page < LAST
    BY <1>3 DEF ReserveIsBack
  <2>2. oldest \in Block /\ oldest \in Held(n, "victim")
    BY <2>1, OldestIsBlock
  <2>3. page \in Nat /\ page * SuperPage \in Nat
    BY <2>1, FlashFacts DEF BankFlash, CollectorFresh
  <2>4. n.block_list[oldest].vcount \in Nat
    BY <2>2 DEF BankFlash, VcountsRight
  <2>5. Reading(m, oldest) <=> Reading(n, oldest)
    BY <1>3 DEF Reading
  <2>6. CASE oldest = blk
    <3>1. m.block_list[oldest].vcount = vcount - 1
      BY <1>2, <2>6
    <3>2. vcount # 0
      BY <1>9, <1>10, <2>6
    <3>3. MaxVcount \in Int
      BY FlashFacts DEF MaxVcount
    <3> HIDE DEF oldest, page
    <3>4. Reading(n, oldest) =>
            (vcount - 1) + Cardinality(Holes(m)) + page * SuperPage <= MaxVcount
      <4> DEFINE written == page * SuperPage
      <4>1. written \in Nat
        BY <2>3
      <4>2. Reading(n, oldest) => vcount + Cardinality(Holes(n)) + written <= MaxVcount
        BY <2>1, <3>2
      <4> HIDE DEF written
      <4>3. Reading(n, oldest) => (vcount - 1) + Cardinality(Holes(m)) + written <= MaxVcount
        BY <1>22, <2>4, <3>3, <4>1, <4>2
      <4> QED
        BY <4>3 DEF written
    <3> QED
      BY <1>3, <2>1, <2>5, <3>1, <3>2, <3>4 DEF oldest, page
  <2>7. CASE oldest # blk
    <3>1. m.block_list[oldest].vcount = vcount
      BY <1>2, <2>2, <2>7
    <3>2. Reading(n, oldest) => l \notin GCHeld(n)
      <4> SUFFICES ASSUME Reading(n, oldest), l \in GCHeld(n)
                   PROVE  FALSE
        OBVIOUS
      <4>1. PICK k \in Held(n, "victim"), o \in Offset : map[l] = Flash(b, k, o)
        BY DEF BankFlash, Collecting, HeldIsRead
      <4>2. k \in Block
        BY HeldBlocks, ListsAre DEF BankInv
      <4>3. k = blk
        BY <4>1, <4>2, FlashIsIn DEF blk, v
      <4>4. oldest = n.victim_list[Len(n.victim_list)]
        BY DEF Reading, BankFlash, Collecting, CurrentIsLast
      <4>5. Len(n.victim_list) = 1 /\ DOMAIN n.victim_list = 1 .. Len(n.victim_list)
        <5>1. /\ Len(n.victim_list) \in Nat \ {0} /\ DOMAIN n.victim_list = 1 .. Len(n.victim_list)
              /\ \A i, j \in 1 .. Len(n.victim_list) : n.victim_list[i] = n.victim_list[j] => i = j
          BY <2>1, OldestIsBlock
        <5>2. 1 \in 1 .. Len(n.victim_list) /\ Len(n.victim_list) \in 1 .. Len(n.victim_list)
          BY <5>1
        <5> QED
          BY <4>4, <5>1, <5>2
      <4>6. \E i \in DOMAIN n.victim_list : n.victim_list[i] = k
        BY <4>1, ListsAre DEF Held, ToSet
      <4> QED
        BY <2>7, <4>3, <4>5, <4>6
    <3>3. Reading(n, oldest) => Holes(m) = Holes(n)
      BY <1>21, <3>2
    <3> QED
      BY <1>3, <2>1, <2>5, <3>1, <3>3
  <2> QED
    BY <2>6, <2>7
<1> QED
  BY <1>15, <1>20, <1>23

-----------------------------------------------------------------------------
(***************************************************************************)
(* A slot's page in flash becomes the page of its home address.            *)
(***************************************************************************)
Renamed(map, map2, s, o) ==
    /\ map2[s] = VC_MAX /\ map2[o] = map[s]
    /\ \A x \in LPN : x \notin {s, o} => map2[x] = map[x]

\* The home address has left flash before.
LEMMA RenamedApart ==
    ASSUME NEW map, MapApart(map), NEW s \in SlotLPN, NEW o \in HomeLPN, ~InFlash(map[o]),
           NEW map2, Renamed(map, map2, s, o)
    PROVE  MapApart(map2)
<1>1. s \in LPN /\ o \in LPN /\ s # o /\ ~InFlash(VC_MAX)
  BY FlashFacts DEF LPN, InFlash
<1>2. ASSUME NEW l \in LPN, InFlash(map2[l])
      PROVE  /\ map2[l] \in VPN
             /\ \A x \in LPN : map2[x] = map2[l] => x = l
  <2> DEFINE was(x) == IF x = o THEN s ELSE x
  <2>1. \A x \in LPN : x # s => was(x) \in LPN /\ was(x) # o /\ map2[x] = map[was(x)]
    BY <1>1 DEF Renamed
  <2>2. \A x \in LPN : map2[x] = map2[l] => x # s
    BY <1>1, <1>2 DEF Renamed
  <2>3. \A x, y \in LPN : x # s /\ y # s /\ was(x) = was(y) => x = y
    OBVIOUS
  <2> HIDE DEF was
  <2>4. map[was(l)] = map2[l] /\ was(l) \in LPN
    BY <2>1, <2>2
  <2>5. map2[l] \in VPN
    BY <1>2, <2>4 DEF MapApart
  <2>6. ASSUME NEW x \in LPN, map2[x] = map2[l]
        PROVE  x = l
    <3>1. x # s /\ l # s
      BY <2>2, <2>6
    <3>2. map[was(x)] = map[was(l)] /\ InFlash(map[was(l)]) /\ was(x) \in LPN
      BY <1>2, <2>1, <2>4, <2>6, <3>1
    <3>3. was(x) = was(l)
      BY <2>4, <3>2 DEF MapApart
    <3> QED
      BY <2>3, <3>1, <3>3
  <2> QED
    BY <2>5, <2>6
<1> QED
  BY <1>2 DEF MapApart

\* Its page is marked with the home address already, and no victim's.
LEMMA RenameFlash ==
    ASSUME NEW b \in Bank, NEW n, BankInv(n), NEW map, MapApart(map), BankFlash(b, n, map),
           NEW s \in SlotLPN, InBank(map[s], b),
           map[s].block \notin Held(n, "free") \cup Held(n, "GC") \cup Held(n, "victim"),
           NEW o \in HomeLPN, ~InFlash(map[o]), n.block_list[map[s].block].spare[map[s].off] = o,
           NEW map2, Renamed(map, map2, s, o)
    PROVE  BankFlash(b, n, map2)
<1> DEFINE v == map[s]
           blk == v.block
           off == v.off
<1>1. v = Flash(b, blk, off) /\ off \in Offset /\ blk \in Block /\ InBlock(v, b, blk)
  BY PlaceIs DEF InBlock, LPN
<1>2. s \in LPN /\ o \in LPN /\ s # o /\ s \notin HomeLPN
  BY FlashFacts DEF LPN
<1>3. /\ map2[s] = VC_MAX /\ map2[o] = v /\ \A x \in LPN : x \notin {s, o} => map2[x] = map[x]
      /\ ~InFlash(map[o]) /\ ~InFlash(VC_MAX)
  BY DEF Renamed, InFlash
<1>4. blk \notin Held(n, "free") /\ blk \notin Held(n, "GC") /\ blk \notin Held(n, "victim")
  OBVIOUS
<1>5. n.block_list[blk].spare[off] = o
  OBVIOUS
<1> HIDE DEF v, off, blk
<1>6. \A x \in LPN : \A k : InBlock(map2[x], b, k) <=>
          (x \notin {s, o} /\ InBlock(map[x], b, k)) \/ (x = o /\ InBlock(v, b, k))
  BY <1>2, <1>3 DEF InBlock, InBank
<1>7. \A x \in LPN : \A k \in Block, oo \in Offset : map2[x] = Flash(b, k, oo) <=>
          (x \notin {s, o} /\ map[x] = Flash(b, k, oo)) \/ (x = o /\ v = Flash(b, k, oo))
  <2>1. \A k \in Block, oo \in Offset : InFlash(Flash(b, k, oo))
    BY FlashPlace
  <2> QED
    BY <1>2, <1>3, <2>1
<1>8. /\ Into(map2, b, blk) = (Into(map, b, blk) \ {s}) \cup {o}
      /\ s \in Into(map, b, blk) /\ o \notin Into(map, b, blk)
  BY <1>1, <1>2, <1>3, <1>6 DEF Into, InBlock, InBank, v
<1>9. \A k : k # blk => Into(map2, b, k) = Into(map, b, k)
  BY <1>1, <1>2, <1>3, <1>6 DEF Into, InBlock, InBank, v
<1>10. Cardinality(Into(map2, b, blk)) = Cardinality(Into(map, b, blk))
  <2> DEFINE T == Into(map, b, blk)
  <2>1. IsFiniteSet(T) /\ Cardinality(T) \in Nat /\ s \in T /\ o \notin T
    BY <1>8, IntoFinite
  <2> HIDE DEF T
  <2>2. IsFiniteSet(T \ {s}) /\ Cardinality(T \ {s}) = Cardinality(T) - 1
    BY <2>1, FS_RemoveElement
  <2>3. Cardinality((T \ {s}) \cup {o}) = Cardinality(T \ {s}) + 1
    BY <2>1, <2>2, FS_AddElement
  <2> QED
    BY <1>8, <2>1, <2>2, <2>3 DEF T
<1>11. VcountsRight(b, n, map2)
  <2>1. \A k : Cardinality(Into(map2, b, k)) = Cardinality(Into(map, b, k))
    BY <1>9, <1>10
  <2> QED
    BY <2>1 DEF BankFlash, VcountsRight
<1>12. FreeIsEmpty(b, n, map2)
  BY <1>4, <1>9 DEF BankFlash, FreeIsEmpty
<1>13. MarksTrue(b, n, map2)
  <2> SUFFICES ASSUME NEW k \in Block
               PROVE  LET info == n.block_list[k]
                      IN  /\ info.vbitmap \subseteq Offset
                          /\ \A oo \in Offset : Unread(n, k, oo) =>
                              /\ \A x \in LPN : map2[x] = Flash(b, k, oo) =>
                                      oo \in info.vbitmap /\ (x \in HomeLPN => info.spare[oo] = x)
                              /\ oo \in info.vbitmap /\ info.spare[oo] # RSP_INVALID_LPN =>
                                      \E x \in LPN : map2[x] = Flash(b, k, oo)
    BY DEF MarksTrue
  <2>1. /\ n.block_list[k].vbitmap \subseteq Offset
        /\ \A oo \in Offset : Unread(n, k, oo) =>
            /\ \A x \in LPN : map[x] = Flash(b, k, oo) =>
                    oo \in n.block_list[k].vbitmap /\ (x \in HomeLPN => n.block_list[k].spare[oo] = x)
            /\ oo \in n.block_list[k].vbitmap /\ n.block_list[k].spare[oo] # RSP_INVALID_LPN =>
                    \E x \in LPN : map[x] = Flash(b, k, oo)
    BY DEF BankFlash, MarksTrue
  <2>2. \A oo \in Offset : v = Flash(b, k, oo) => k = blk /\ oo = off
    BY <1>1, FlashIsIn DEF blk, off
  <2>3. ASSUME NEW oo \in Offset, Unread(n, k, oo), NEW x \in LPN, map2[x] = Flash(b, k, oo)
        PROVE  oo \in n.block_list[k].vbitmap /\ (x \in HomeLPN => n.block_list[k].spare[oo] = x)
    <3>1. CASE x \notin {s, o} /\ map[x] = Flash(b, k, oo)
      BY <2>1, <2>3, <3>1
    <3>2. CASE x = o /\ v = Flash(b, k, oo)
      <4>1. map[s] = Flash(b, k, oo)
        BY <3>2 DEF v
      <4> QED
        BY <1>2, <1>5, <2>1, <2>2, <2>3, <3>2, <4>1
    <3> QED
      BY <1>7, <2>3, <3>1, <3>2
  <2>4. ASSUME NEW oo \in Offset, Unread(n, k, oo), oo \in n.block_list[k].vbitmap,
               n.block_list[k].spare[oo] # RSP_INVALID_LPN
        PROVE  \E x \in LPN : map2[x] = Flash(b, k, oo)
    <3>1. PICK x \in LPN : map[x] = Flash(b, k, oo)
      BY <2>1, <2>4
    <3>2. x # o
      <4>1. InFlash(Flash(b, k, oo))
        BY FlashPlace
      <4> QED
        BY <1>3, <3>1, <4>1
    <3>3. CASE x = s
      BY <1>2, <1>3, <3>1, <3>3 DEF v
    <3>4. CASE x # s
      BY <1>3, <3>1, <3>2, <3>4
    <3> QED
      BY <3>3, <3>4
  <2> QED
    BY <2>1, <2>3, <2>4
<1>14. s \notin GCHeld(n) /\ o \notin GCHeld(n)
  <2>1. \A x \in LPN : x \in GCHeld(n) =>
            \E k \in Held(n, "victim"), oo \in Offset : k \in Block /\ map[x] = Flash(b, k, oo)
    BY HeldBlocks, ListsAre DEF BankFlash, Collecting, HeldIsRead, BankInv
  <2>2. \A k \in Block, oo \in Offset : map[o] # Flash(b, k, oo)
    BY <1>3, FlashIsIn
  <2>3. \A k \in Block, oo \in Offset : map[s] = Flash(b, k, oo) => k = blk
    BY FlashIsIn DEF blk, v
  <2> QED
    BY <1>2, <1>4, <2>1, <2>2, <2>3
<1>15. Collecting(b, n, map2)
  <2>1. Held(n, "victim") \subseteq Block
    BY HeldBlocks, ListsAre DEF BankInv
  <2>2. HeldIsRead(b, n, map2)
    <3>1. \A x \in LPN : \A k \in Held(n, "victim"), oo \in Offset :
              map2[x] = Flash(b, k, oo) <=> x \notin {s, o} /\ map[x] = Flash(b, k, oo)
      <4>1. \A k \in Block, oo \in Offset : v = Flash(b, k, oo) => k = blk
        BY FlashIsIn DEF blk
      <4> QED
        BY <1>4, <1>7, <2>1, <4>1
    <3> QED
      BY <1>14, <3>1 DEF BankFlash, Collecting, HeldIsRead
  <2>3. CurrentIsLast(b, n, map2)
    <3>1. \A k : GCHeld(n) \cap Into(map2, b, k) = GCHeld(n) \cap Into(map, b, k)
      BY <1>8, <1>9, <1>14
    <3> QED
      BY <3>1 DEF BankFlash, Collecting, CurrentIsLast
  <2> QED
    BY <2>2, <2>3 DEF BankFlash, Collecting
<1>16. \A k, page : MappedBelow(b, k, page, map) => MappedBelow(b, k, page, map2)
  BY <1>2, <1>3, <1>6 DEF MappedBelow, v
<1>17. WritesFresh(b, n, map2)
  BY <1>16 DEF BankFlash, WritesFresh
<1>18. CollectorFresh(b, n, map2)
  BY <1>16 DEF BankFlash, CollectorFresh
<1> QED
  BY <1>11, <1>12, <1>13, <1>15, <1>17, <1>18 DEF BankFlash

-----------------------------------------------------------------------------
(***************************************************************************)
(* A page of a block is programmed.                                        *)
(***************************************************************************)
\* Division of a number that is given by its quotient and its rest.
LEMMA QuotientAndRest ==
    ASSUME NEW d \in Nat, d > 0, NEW q \in Nat, NEW r \in 0 .. d - 1
    PROVE  (q * d + r) \div d = q /\ (q * d + r) % d = r
<1> DEFINE x == q * d + r
           k == x \div d
           m == x % d
<1>1. x \in Nat
  OBVIOUS
<1>2. k \in Int /\ m \in 0 .. d - 1 /\ x = d * k + m
  BY <1>1
<1> HIDE DEF x, k, m
<1>3. d * k + m = q * d + r
  BY <1>2 DEF x
<1>4. ~(k < q)
  <2> SUFFICES ASSUME k < q PROVE FALSE
    OBVIOUS
  <2>1. PICK e \in Nat : q = k + 1 + e
    <3>1. q - k - 1 \in Nat /\ q = k + 1 + (q - k - 1)
      BY <1>2
    <3> QED
      BY <3>1
  <2>2. q * d = d * k + d + e * d
    BY <1>2, <2>1
  <2>3. e * d \in Nat /\ d * k \in Int
    BY <1>2, <2>1
  <2> QED
    BY <1>2, <1>3, <2>2, <2>3
<1>5. ~(k > q)
  <2> SUFFICES ASSUME k > q PROVE FALSE
    OBVIOUS
  <2>1. PICK e \in Nat : k = q + 1 + e
    <3>1. k - q - 1 \in Nat /\ k = q + 1 + (k - q - 1)
      BY <1>2
    <3> QED
      BY <3>1
  <2>2. d * k = q * d + d + e * d
    BY <1>2, <2>1
  <2>3. e * d \in Nat /\ q * d \in Int
    BY <1>2, <2>1
  <2> QED
    BY <1>2, <1>3, <2>2, <2>3
<1>6. k = q
  BY <1>2, <1>4, <1>5
<1>7. d * k = q * d
  BY <1>2, <1>6
<1>8. m = r
  BY <1>2, <1>3, <1>7
<1> QED
  BY <1>6, <1>8 DEF x, k, m

\* The places of a page: each position has its own, and they tell their page.
LEMMA PlacesOfPage ==
    ASSUME NEW page \in 0 .. LAST
    PROVE  /\ \A pos \in Position : OffsetOf(page, pos) \in Offset /\ PageOf(OffsetOf(page, pos)) = page
           /\ \A p, q \in Position : OffsetOf(page, p) = OffsetOf(page, q) => p = q
<1>1. PAGES_PER_BLK \in Nat /\ PAGES_PER_BLK > 0 /\ page \in 0 .. PAGES_PER_BLK - 1
  BY FlashFacts DEF LAST
<1>2. ASSUME NEW pos \in Position
      PROVE  /\ pos \in Nat /\ pos \div 2 \in Nat /\ pos % 2 \in {0, 1} /\ pos = 2 * (pos \div 2) + (pos % 2)
             /\ OffsetOf(page, pos) \div 2 = (pos \div 2) * PAGES_PER_BLK + page
             /\ OffsetOf(page, pos) % 2 = pos % 2
             /\ (OffsetOf(page, pos) \div 2) \div PAGES_PER_BLK = pos \div 2
             /\ PageOf(OffsetOf(page, pos)) = page
  <2> DEFINE h == pos \div 2
             r == pos % 2
             w == h * PAGES_PER_BLK + page
  <2>1. pos \in Nat
    BY FlashFacts DEF Position
  <2>2. h \in Nat /\ r \in {0, 1} /\ pos = 2 * h + r
    BY <2>1
  <2> HIDE DEF h, r
  <2>3. h * PAGES_PER_BLK \in Nat
    BY <1>1, <2>2
  <2>4. w \in Nat
    BY <1>1, <2>3
  <2>5. w \div PAGES_PER_BLK = h /\ w % PAGES_PER_BLK = page
    BY <1>1, <2>2, QuotientAndRest
  <2> HIDE DEF w
  <2>6. OffsetOf(page, pos) = 2 * w + r
    BY DEF OffsetOf, w, h, r
  <2>7. (2 * w + r) \div 2 = w /\ (2 * w + r) % 2 = r
    BY <2>2, <2>4
  <2>8. OffsetOf(page, pos) \div 2 = w /\ OffsetOf(page, pos) % 2 = r
    BY <2>6, <2>7
  <2>9. PageOf(OffsetOf(page, pos)) = page
    BY <2>5, <2>8 DEF PageOf
  <2>10. (OffsetOf(page, pos) \div 2) \div PAGES_PER_BLK = h
    BY <2>5, <2>8
  <2>11. pos \div 2 \in Nat /\ pos % 2 \in {0, 1} /\ pos = 2 * (pos \div 2) + (pos % 2)
    BY <2>1
  <2>12. OffsetOf(page, pos) \div 2 = (pos \div 2) * PAGES_PER_BLK + page
    BY <2>8 DEF w, h
  <2>13. OffsetOf(page, pos) % 2 = pos % 2 /\ (OffsetOf(page, pos) \div 2) \div PAGES_PER_BLK = pos \div 2
    BY <2>8, <2>10 DEF r, h
  <2> QED
    BY <2>1, <2>9, <2>11, <2>12, <2>13
<1>3. \A pos \in Position : OffsetOf(page, pos) \in Offset
  BY OffsetInBlock
<1>4. ASSUME NEW p \in Position, NEW q \in Position, OffsetOf(page, p) = OffsetOf(page, q)
      PROVE  p = q
  <2>1. p \div 2 = q \div 2 /\ p % 2 = q % 2
    BY <1>2, <1>4
  <2>2. p \in Nat /\ q \in Nat
    BY <1>2
  <2> QED
    BY <2>1, <2>2
<1> QED
  BY <1>2, <1>3, <1>4

\* What a program writes into the record of a block, place by place.
LEMMA ProgrammedIs ==
    ASSUME NEW info, DOMAIN info = InfoField, NEW page \in 0 .. LAST, NEW buf
    PROVE  LET new == Programmed(info, page, buf)
           IN  /\ new.vcount = info.vcount + Cardinality(Mapped(buf))
               /\ new.vbitmap = info.vbitmap \cup {OffsetOf(page, pos) : pos \in Mapped(buf)}
               /\ \A pos \in Position : new.spare[OffsetOf(page, pos)] = SpareOf(buf, pos)
               /\ \A off \in Offset : (\A pos \in Position : OffsetOf(page, pos) # off) =>
                        new.spare[off] = info.spare[off]
<1> DEFINE new == Programmed(info, page, buf)
           At(off) == {pos \in Position : OffsetOf(page, pos) = off}
<1>1. /\ new.vcount = info.vcount + Cardinality(Mapped(buf))
      /\ new.vbitmap = info.vbitmap \cup {OffsetOf(page, pos) : pos \in Mapped(buf)}
      /\ new.spare = [off \in Offset |-> IF At(off) = {} THEN info.spare[off]
                                         ELSE SpareOf(buf, CHOOSE pos \in At(off) : TRUE)]
  BY DEF Programmed, InfoField
<1> HIDE DEF new
<1>2. ASSUME NEW pos \in Position
      PROVE  new.spare[OffsetOf(page, pos)] = SpareOf(buf, pos)
  <2>1. At(OffsetOf(page, pos)) = {pos}
    BY PlacesOfPage
  <2>2. (CHOOSE p \in {pos} : TRUE) = pos
    OBVIOUS
  <2>3. OffsetOf(page, pos) \in Offset
    BY PlacesOfPage
  <2> HIDE DEF At
  <2> QED
    BY <1>1, <2>1, <2>2, <2>3
<1>3. ASSUME NEW off \in Offset, \A pos \in Position : OffsetOf(page, pos) # off
      PROVE  new.spare[off] = info.spare[off]
  <2>1. At(off) = {}
    BY <1>3
  <2> HIDE DEF At
  <2> QED
    BY <1>1, <2>1
<1> QED
  BY <1>1, <1>2, <1>3 DEF new

\* A place has a page.
LEMMA OffsetPages ==
    ASSUME NEW off \in Offset
    PROVE  PageOf(off) \in Int /\ off \in Nat
<1>1. off \in Nat /\ off \div 2 \in Int /\ PAGES_PER_BLK \in Nat /\ PAGES_PER_BLK > 0
  BY FlashFacts DEF Offset
<1> DEFINE d == off \div 2
<1> HIDE DEF d
<1>2. d \in Int => d % PAGES_PER_BLK \in Int
  BY <1>1
<1> QED
  BY <1>1, <1>2 DEF PageOf, d

\* Where a block is filled or read, it is filled or read.
LEMMA RecordIsPlace ==
    ASSUME NEW blk \in Block, NEW page \in 0 .. PhysPages
    PROVE  [block |-> blk, page |-> page] # VC_MAX
BY NoSuchPlace DEF PageVPN

\* The last page of a block is one of it.
LEMMA LastIsPage == LAST \in 0 .. PhysPages
<1>1. PAGES_PER_BLK \in Nat /\ PAGES_PER_BLK > 0 /\ PLANES_PER_BANK \in Nat /\ PLANES_PER_BANK > 0
  BY FlashFacts
<1>2. PICK k \in Nat : PLANES_PER_BANK = k + 1
  <2>1. PLANES_PER_BANK - 1 \in Nat /\ PLANES_PER_BANK = (PLANES_PER_BANK - 1) + 1
    BY <1>1
  <2> QED
    BY <2>1
<1>3. k * PAGES_PER_BLK \in Nat
  BY <1>1
<1>4. PhysPages = k * PAGES_PER_BLK + PAGES_PER_BLK
  BY <1>1, <1>2 DEF PhysPages
<1> QED
  BY <1>1, <1>3, <1>4 DEF LAST

\* The addresses of a buffer, and the map when they went to a page of blk.
AddressesOf(buf) == {buf[p].req : p \in Mapped(buf)}
WrittenTo(buf, b, blk, page, map, map2) ==
    /\ \A p \in Mapped(buf) : map2[buf[p].req] = Flash(b, blk, OffsetOf(page, p))
    /\ \A l \in LPN \ AddressesOf(buf) : map2[l] = map[l]

\* A buffer that can be programmed: each address once, and with the mark of the
\* spare area that the collector will look for.
BufferReady(buf, map) ==
    /\ DOMAIN buf = Position
    /\ \A p \in Mapped(buf) :
        /\ buf[p].req \in LPN /\ ~InFlash(map[buf[p].req])
        /\ buf[p].req \in HomeLPN => SpareOf(buf, p) = buf[p].req
        /\ \A q \in Mapped(buf) : buf[p].req = buf[q].req => p = q
    /\ \A p \in Position \ Mapped(buf) : SpareOf(buf, p) = RSP_INVALID_LPN

\* The page has no data yet, and whoever fills the block has come past it.
PageIsFresh(b, n, map, blk, page) ==
    /\ \A l \in LPN : InBlock(map[l], b, blk) => PageOf(map[l].off) # page
    /\ \A t \in Type : Filling(n, t) /\ n.cur_write_vpn[t].block = blk => page < NextPage(n, t)
    /\ n.cur_gc_vpn # VC_MAX /\ n.cur_gc_vpn.page # LAST /\ n.cur_gc_vpn.block = blk =>
            page < n.cur_gc_vpn.page + 1

LEMMA ProgrammedApart ==
    ASSUME NEW b \in Bank, NEW map, MapApart(map), NEW blk \in Block, NEW page \in 0 .. LAST,
           \A l \in LPN : InBlock(map[l], b, blk) => PageOf(map[l].off) # page,
           NEW buf, BufferReady(buf, map),
           NEW map2, WrittenTo(buf, b, blk, page, map, map2)
    PROVE  MapApart(map2)
<1>1. \A p \in Mapped(buf) : p \in Position
  BY DEF BufferReady, Mapped
<1>2. ASSUME NEW l \in LPN, InFlash(map2[l])
      PROVE  map2[l] \in VPN /\ \A x \in LPN : map2[x] = map2[l] => x = l
  <2>1. ASSUME NEW x \in LPN, x \notin AddressesOf(buf), NEW p \in Mapped(buf)
        PROVE  map2[x] # Flash(b, blk, OffsetOf(page, p))
    <3>1. map2[x] = map[x]
      BY <2>1 DEF WrittenTo
    <3>2. OffsetOf(page, p) \in Offset /\ PageOf(OffsetOf(page, p)) = page
      BY <1>1, PlacesOfPage
    <3> QED
      BY <3>1, <3>2, FlashIsIn
  <2>2. CASE l \in AddressesOf(buf)
    <3>1. PICK p \in Mapped(buf) : l = buf[p].req
      BY <2>2 DEF AddressesOf
    <3>2. map2[l] = Flash(b, blk, OffsetOf(page, p))
      BY <3>1 DEF WrittenTo
    <3>3. map2[l] \in VPN
      <4>1. OffsetOf(page, p) \in Offset
        BY <1>1, PlacesOfPage
      <4> QED
        BY <3>2, <4>1 DEF Flash, VPN
    <3>4. ASSUME NEW x \in LPN, map2[x] = map2[l]
          PROVE  x = l
      <4>1. x \in AddressesOf(buf)
        BY <2>1, <3>2, <3>4
      <4>2. PICK q \in Mapped(buf) : x = buf[q].req
        BY <4>1 DEF AddressesOf
      <4>3. Flash(b, blk, OffsetOf(page, p)) = Flash(b, blk, OffsetOf(page, q))
        BY <3>2, <3>4, <4>2 DEF WrittenTo
      <4>4. OffsetOf(page, p) = OffsetOf(page, q)
        BY <4>3 DEF Flash
      <4>5. p = q
        BY <1>1, <4>4, PlacesOfPage
      <4> QED
        BY <3>1, <4>2, <4>5
    <3> QED
      BY <3>3, <3>4
  <2>3. CASE l \notin AddressesOf(buf)
    <3>1. map2[l] = map[l] /\ InFlash(map[l])
      BY <1>2, <2>3 DEF WrittenTo
    <3>2. ASSUME NEW x \in LPN, map2[x] = map2[l]
          PROVE  x = l
      <4>1. x \notin AddressesOf(buf)
        BY <2>1, <2>3, <3>2 DEF AddressesOf, WrittenTo
      <4>2. map[x] = map[l]
        BY <3>1, <3>2, <4>1 DEF WrittenTo
      <4> QED
        BY <3>1, <4>2 DEF MapApart
    <3> QED
      BY <3>1, <3>2 DEF MapApart
  <2> QED
    BY <2>2, <2>3
<1> QED
  BY <1>2 DEF MapApart

LEMMA ProgramFlash ==
    ASSUME NEW b \in Bank, NEW n, BankInv(n), NEW map, MapApart(map), BankFlash(b, n, map),
           NEW blk \in Held(n, "data") \cup Held(n, "RW_log"), NEW page \in 0 .. LAST,
           PageIsFresh(b, n, map, blk, page),
           NEW buf, BufferReady(buf, map),
           NEW map2, WrittenTo(buf, b, blk, page, map, map2),
           NEW m, SameFields(n, m, FlashField), Held(n, "data") \subseteq Held(m, "data"),
           \A k \in Block : k # blk =>
                SameFields(n.block_list[k], m.block_list[k], {"vcount", "vbitmap", "spare"}),
           SameFields(Programmed(n.block_list[blk], page, buf), m.block_list[blk],
                      {"vcount", "vbitmap", "spare"})
    PROVE  BankFlash(b, m, map2)
<1>1. blk \in Block /\ blk \notin Held(n, "free") /\ blk \notin Held(n, "GC") /\ blk \notin Held(n, "victim")
  BY HeldBlocks, ListsAre DEF BankInv
<1>2. MapApart(map2)
  BY <1>1, ProgrammedApart DEF PageIsFresh
<1>3. /\ m.GC_BLK = n.GC_BLK /\ m.cur_write_vpn = n.cur_write_vpn /\ m.write_start = n.write_start
      /\ m.free_list = n.free_list /\ m.victim_list = n.victim_list
      /\ m.cur_gc_vpn = n.cur_gc_vpn /\ m.cur_vt_vpn = n.cur_vt_vpn
      /\ m.num_gcbuffed = n.num_gcbuffed /\ m.GCbuf_lpn = n.GCbuf_lpn
  BY DEF SameFields, FlashField
<1>4. /\ Held(m, "free") = Held(n, "free") /\ Held(m, "victim") = Held(n, "victim")
      /\ Held(m, "GC") = Held(n, "GC")
  BY <1>3, ListsAre DEF Held
<1>5. \A k \in Block : k # blk => /\ m.block_list[k].vcount = n.block_list[k].vcount
                                 /\ m.block_list[k].vbitmap = n.block_list[k].vbitmap
                                 /\ m.block_list[k].spare = n.block_list[k].spare
  BY DEF SameFields
<1>6. /\ m.block_list[blk].vcount = n.block_list[blk].vcount + Cardinality(Mapped(buf))
      /\ m.block_list[blk].vbitmap = n.block_list[blk].vbitmap \cup {OffsetOf(page, pos) : pos \in Mapped(buf)}
      /\ \A pos \in Position : m.block_list[blk].spare[OffsetOf(page, pos)] = SpareOf(buf, pos)
      /\ \A off \in Offset : (\A pos \in Position : OffsetOf(page, pos) # off) =>
                m.block_list[blk].spare[off] = n.block_list[blk].spare[off]
  <2>1. DOMAIN n.block_list[blk] = InfoField
    BY <1>1 DEF BankInv, BankShape
  <2> DEFINE new == Programmed(n.block_list[blk], page, buf)
  <2>2. /\ m.block_list[blk].vcount = new.vcount /\ m.block_list[blk].vbitmap = new.vbitmap
        /\ m.block_list[blk].spare = new.spare
    BY DEF SameFields
  <2>3. /\ new.vcount = n.block_list[blk].vcount + Cardinality(Mapped(buf))
        /\ new.vbitmap = n.block_list[blk].vbitmap \cup {OffsetOf(page, pos) : pos \in Mapped(buf)}
        /\ \A pos \in Position : new.spare[OffsetOf(page, pos)] = SpareOf(buf, pos)
        /\ \A off \in Offset : (\A pos \in Position : OffsetOf(page, pos) # off) =>
                new.spare[off] = n.block_list[blk].spare[off]
    BY <2>1, ProgrammedIs
  <2> QED
    BY <2>2, <2>3
<1>7. /\ Mapped(buf) \subseteq Position /\ AddressesOf(buf) \subseteq LPN
      /\ \A l \in AddressesOf(buf) : ~InFlash(map[l])
      /\ \A p \in Mapped(buf) : OffsetOf(page, p) \in Offset /\ PageOf(OffsetOf(page, p)) = page
  <2>1. Mapped(buf) \subseteq Position
    BY DEF BufferReady, Mapped
  <2>2. AddressesOf(buf) \subseteq LPN /\ \A l \in AddressesOf(buf) : ~InFlash(map[l])
    BY DEF BufferReady, AddressesOf
  <2> QED
    BY <2>1, <2>2, PlacesOfPage
<1>8. ASSUME NEW l \in LPN, NEW k \in Block, NEW off \in Offset
      PROVE  map2[l] = Flash(b, k, off) <=>
                \/ map[l] = Flash(b, k, off)
                \/ k = blk /\ \E p \in Mapped(buf) : l = buf[p].req /\ off = OffsetOf(page, p)
  <2>1. InFlash(Flash(b, k, off))
    BY FlashPlace
  <2>2. CASE l \in AddressesOf(buf)
    <3>1. PICK p \in Mapped(buf) : l = buf[p].req
      BY <2>2 DEF AddressesOf
    <3>2. map2[l] = Flash(b, blk, OffsetOf(page, p)) /\ map[l] # Flash(b, k, off)
      BY <1>7, <2>1, <2>2, <3>1 DEF WrittenTo
    <3>3. map2[l] = Flash(b, k, off) <=> k = blk /\ off = OffsetOf(page, p)
      BY <3>2 DEF Flash
    <3>4. \A q \in Mapped(buf) : l = buf[q].req => q = p
      BY <3>1 DEF BufferReady
    <3> QED
      BY <3>1, <3>2, <3>3, <3>4
  <2>3. CASE l \notin AddressesOf(buf)
    BY <2>3 DEF WrittenTo, AddressesOf
  <2> QED
    BY <2>2, <2>3
<1>9. ASSUME NEW l \in LPN, NEW k
      PROVE  InBlock(map2[l], b, k) <=>
                \/ InBlock(map[l], b, k)
                \/ k = blk /\ l \in AddressesOf(buf)
  <2>1. CASE l \in AddressesOf(buf)
    <3>1. PICK p \in Mapped(buf) : l = buf[p].req
      BY <2>1 DEF AddressesOf
    <3>2. map2[l] = Flash(b, blk, OffsetOf(page, p)) /\ OffsetOf(page, p) \in Offset
      BY <1>7, <3>1 DEF WrittenTo
    <3>3. InFlash(map2[l]) /\ map2[l].bank = b /\ map2[l].block = blk
      BY <1>1, <3>2, FlashPlace
    <3> QED
      BY <1>7, <2>1, <3>3 DEF InBlock, InBank
  <2>2. CASE l \notin AddressesOf(buf)
    BY <2>2 DEF WrittenTo
  <2> QED
    BY <2>1, <2>2
<1>10. /\ \A k : k # blk => Into(map2, b, k) = Into(map, b, k)
       /\ Into(map2, b, blk) = Into(map, b, blk) \cup AddressesOf(buf)
       /\ Into(map, b, blk) \cap AddressesOf(buf) = {}
  BY <1>7, <1>9 DEF Into, InBlock, InBank
<1>11. /\ IsFiniteSet(AddressesOf(buf)) /\ Cardinality(AddressesOf(buf)) = Cardinality(Mapped(buf))
       /\ Cardinality(Mapped(buf)) \in Nat
  <2>1. IsFiniteSet(Mapped(buf)) /\ Cardinality(Mapped(buf)) \in Nat
    BY <1>7, FlashFacts, FS_Subset, FS_CardinalityType
  <2> DEFINE f == [p \in Mapped(buf) |-> buf[p].req]
  <2>2. f \in [Mapped(buf) -> AddressesOf(buf)]
    BY DEF AddressesOf
  <2>3. \A p, q \in Mapped(buf) : f[p] = f[q] => p = q
    BY DEF BufferReady
  <2>4. \A l \in AddressesOf(buf) : \E p \in Mapped(buf) : f[p] = l
    BY DEF AddressesOf
  <2> HIDE DEF f
  <2> QED
    BY <2>1, <2>2, <2>3, <2>4, BijectionCounted
<1>12. /\ Cardinality(Into(map2, b, blk)) = Cardinality(Into(map, b, blk)) + Cardinality(Mapped(buf))
       /\ Cardinality(Into(map, b, blk)) \in Nat /\ Cardinality(Into(map2, b, blk)) \in Nat
       /\ Cardinality(Into(map2, b, blk)) <= 2 * PhysPages
  <2> DEFINE S == Into(map, b, blk)
             T == AddressesOf(buf)
  <2>1. IsFiniteSet(S) /\ Cardinality(S) \in Nat /\ IsFiniteSet(T)
    BY <1>11, IntoFinite
  <2>2. Cardinality(Into(map2, b, blk)) \in Nat /\ Cardinality(Into(map2, b, blk)) <= 2 * PhysPages
    BY <1>2, IntoFinite
  <2>3. Into(map2, b, blk) = S \cup T /\ S \cap T = {}
    BY <1>10
  <2> HIDE DEF S, T
  <2>4. Cardinality(S \cup T) = Cardinality(S) + Cardinality(T)
    <3>1. Cardinality(S \cup T) = Cardinality(S) + Cardinality(T) - Cardinality(S \cap T)
      BY <2>1, FS_Union
    <3>2. Cardinality(S \cap T) = 0 /\ Cardinality(T) \in Nat
      BY <2>1, <2>3, FS_EmptySet, FS_CardinalityType
    <3> QED
      BY <2>1, <3>1, <3>2
  <2> QED
    BY <1>11, <2>1, <2>2, <2>3, <2>4 DEF S, T
<1>13. VcountsRight(b, m, map2)
  <2> SUFFICES ASSUME NEW k \in Block
               PROVE  LET vcount == m.block_list[k].vcount
                      IN  /\ vcount \in Nat
                          /\ Cardinality(Into(map2, b, k)) = IF vcount = VC_ERASED THEN 0 ELSE vcount
                          /\ vcount = VC_ERASED => k \in Held(m, "free") \cup Held(m, "GC")
    BY DEF VcountsRight
  <2>1. CASE k = blk
    <3>1. n.block_list[blk].vcount = Cardinality(Into(map, b, blk))
      BY <1>1 DEF BankFlash, VcountsRight
    <3>2. VC_ERASED \in Nat /\ VC_ERASED > 2 * PhysPages /\ PhysPages \in Nat
      BY NoSuchPlace, FlashFacts
    <3> QED
      BY <1>6, <1>12, <2>1, <3>1, <3>2
  <2>2. CASE k # blk
    BY <1>4, <1>5, <1>10, <2>2 DEF BankFlash, VcountsRight
  <2> QED
    BY <2>1, <2>2
<1>14. FreeIsEmpty(b, m, map2)
  BY <1>1, <1>4, <1>10 DEF BankFlash, FreeIsEmpty
<1>15. \A k, off : Unread(m, k, off) <=> Unread(n, k, off)
  BY <1>3, <1>4 DEF Unread, Reading
<1>16. MarksTrue(b, m, map2)
  <2> SUFFICES ASSUME NEW k \in Block
               PROVE  LET info == m.block_list[k]
                      IN  /\ info.vbitmap \subseteq Offset
                          /\ \A off \in Offset : Unread(m, k, off) =>
                              /\ \A l \in LPN : map2[l] = Flash(b, k, off) =>
                                      off \in info.vbitmap /\ (l \in HomeLPN => info.spare[off] = l)
                              /\ off \in info.vbitmap /\ info.spare[off] # RSP_INVALID_LPN =>
                                      \E l \in LPN : map2[l] = Flash(b, k, off)
    BY DEF MarksTrue
  <2>1. /\ n.block_list[k].vbitmap \subseteq Offset
        /\ \A off \in Offset : Unread(n, k, off) =>
            /\ \A l \in LPN : map[l] = Flash(b, k, off) =>
                    off \in n.block_list[k].vbitmap /\ (l \in HomeLPN => n.block_list[k].spare[off] = l)
            /\ off \in n.block_list[k].vbitmap /\ n.block_list[k].spare[off] # RSP_INVALID_LPN =>
                    \E l \in LPN : map[l] = Flash(b, k, off)
    BY DEF BankFlash, MarksTrue
  <2>2. CASE k # blk
    BY <1>5, <1>8, <1>15, <2>1, <2>2
  <2>3. CASE k = blk
    <3>1. m.block_list[k].vbitmap \subseteq Offset
      BY <1>6, <1>7, <2>1, <2>3
    <3>2. \A l \in LPN, off \in Offset : map[l] = Flash(b, k, off) => PageOf(off) # page
      BY <2>3, FlashIsIn DEF PageIsFresh
    <3>3. ASSUME NEW off \in Offset, Unread(m, k, off), NEW l \in LPN, map2[l] = Flash(b, k, off)
          PROVE  off \in m.block_list[k].vbitmap /\ (l \in HomeLPN => m.block_list[k].spare[off] = l)
      <4>1. CASE map[l] = Flash(b, k, off)
        <5>1. \A pos \in Position : OffsetOf(page, pos) # off
          BY <3>2, <3>3, <4>1, PlacesOfPage
        <5> QED
          BY <1>6, <1>15, <2>1, <2>3, <3>3, <4>1, <5>1
      <4>2. ASSUME NEW p \in Mapped(buf), l = buf[p].req, off = OffsetOf(page, p)
            PROVE  off \in m.block_list[k].vbitmap /\ (l \in HomeLPN => m.block_list[k].spare[off] = l)
        <5>1. off \in m.block_list[k].vbitmap
          BY <1>6, <2>3, <4>2
        <5>2. m.block_list[k].spare[off] = SpareOf(buf, p)
          BY <1>6, <1>7, <2>3, <4>2
        <5> QED
          BY <4>2, <5>1, <5>2 DEF BufferReady
      <4> QED
        BY <1>8, <3>3, <4>1, <4>2
    <3>4. ASSUME NEW off \in Offset, Unread(m, k, off), off \in m.block_list[k].vbitmap,
                 m.block_list[k].spare[off] # RSP_INVALID_LPN
          PROVE  \E l \in LPN : map2[l] = Flash(b, k, off)
      <4>1. CASE \E p \in Position : off = OffsetOf(page, p)
        <5>1. PICK p \in Position : off = OffsetOf(page, p)
          BY <4>1
        <5>2. SpareOf(buf, p) # RSP_INVALID_LPN
          BY <1>6, <2>3, <3>4, <5>1
        <5>3. p \in Mapped(buf) /\ buf[p].req \in LPN
          BY <5>2 DEF BufferReady
        <5> QED
          BY <2>3, <5>1, <5>3 DEF WrittenTo
      <4>2. CASE \A p \in Position : off # OffsetOf(page, p)
        <5>1. off \in n.block_list[k].vbitmap
          BY <1>6, <1>7, <2>3, <3>4, <4>2
        <5>2. n.block_list[k].spare[off] # RSP_INVALID_LPN
          BY <1>6, <2>3, <3>4, <4>2
        <5> QED
          BY <1>8, <1>15, <2>1, <3>4, <5>1, <5>2
      <4> QED
        BY <4>1, <4>2
    <3> QED
      BY <3>1, <3>3, <3>4
  <2> QED
    BY <2>2, <2>3
<1>17. GCHeld(m) = GCHeld(n) /\ GCHeld(n) \cap AddressesOf(buf) = {}
  <2>1. GCHeld(m) = GCHeld(n)
    BY <1>3 DEF GCHeld
  <2>2. \A l \in GCHeld(n) : InFlash(map[l])
    <3> SUFFICES ASSUME NEW l \in GCHeld(n)
                 PROVE  InFlash(map[l])
      OBVIOUS
    <3>1. l \in LPN
      BY DEF GCHeld
    <3>2. PICK k \in Held(n, "victim"), off \in Offset : map[l] = Flash(b, k, off)
      BY <3>1 DEF BankFlash, Collecting, HeldIsRead
    <3>3. k \in Block
      BY HeldBlocks, ListsAre DEF BankInv
    <3> QED
      BY <3>2, <3>3, FlashPlace
  <2> QED
    BY <1>7, <2>1, <2>2
<1>18. Collecting(b, m, map2)
  <2>1. HeldOnce(m)
    BY <1>3 DEF BankFlash, Collecting, HeldOnce
  <2>2. Held(n, "victim") \subseteq Block
    BY HeldBlocks, ListsAre DEF BankInv
  <2>3. HeldIsRead(b, m, map2)
    <3>1. \A l \in LPN : \A k \in Held(n, "victim"), off \in Offset :
              map2[l] = Flash(b, k, off) <=> map[l] = Flash(b, k, off)
      BY <1>1, <1>8, <2>2
    <3> QED
      BY <1>4, <1>15, <1>17, <3>1 DEF BankFlash, Collecting, HeldIsRead
  <2>4. \A k \in Held(m, "victim") : m.block_list[k].vcount <= MaxVcount
    BY <1>1, <1>4, <1>5, <2>2 DEF BankFlash, Collecting
  <2>5. m.num_gcbuffed \in Nat
    BY <1>3 DEF BankFlash, Collecting
  <2>6. CurrentIsLast(b, m, map2)
    <3>1. \A k : GCHeld(m) \cap Into(map2, b, k) = GCHeld(n) \cap Into(map, b, k)
      BY <1>10, <1>17
    <3> QED
      BY <1>3, <3>1 DEF BankFlash, Collecting, CurrentIsLast
  <2> QED
    BY <2>1, <2>3, <2>4, <2>5, <2>6 DEF Collecting
<1>19. ASSUME NEW k, NEW next, MappedBelow(b, k, next, map), k = blk => page < next
       PROVE  MappedBelow(b, k, next, map2)
  <2> SUFFICES ASSUME NEW l \in LPN, InBlock(map2[l], b, k)
               PROVE  PageOf(map2[l].off) < next
    BY DEF MappedBelow
  <2>1. CASE l \in AddressesOf(buf)
    <3>1. PICK p \in Mapped(buf) : l = buf[p].req
      BY <2>1 DEF AddressesOf
    <3>2. map2[l].off = OffsetOf(page, p)
      BY <1>1, <1>7, <3>1, FlashPlace DEF WrittenTo
    <3>3. k = blk
      BY <1>7, <1>9, <2>1 DEF InBlock, InBank
    <3> QED
      BY <1>7, <1>19, <3>2, <3>3
  <2>2. CASE l \notin AddressesOf(buf)
    BY <1>19, <2>2 DEF MappedBelow, WrittenTo
  <2> QED
    BY <2>1, <2>2
<1>20. WritesFresh(b, m, map2)
  <2>1. \A t \in Type : Filling(n, t) => MappedBelow(b, n.cur_write_vpn[t].block, NextPage(n, t), map2)
    BY <1>19 DEF BankFlash, WritesFresh, PageIsFresh
  <2> QED
    BY <1>3, <2>1 DEF BankFlash, WritesFresh, Filling, NextPage
<1>21. CollectorFresh(b, m, map2)
  <2>1. n.cur_gc_vpn # VC_MAX /\ n.cur_gc_vpn.page # LAST =>
            MappedBelow(b, n.cur_gc_vpn.block, n.cur_gc_vpn.page + 1, map2)
    BY <1>19 DEF BankFlash, CollectorFresh, PageIsFresh
  <2> QED
    BY <1>3, <2>1 DEF BankFlash, CollectorFresh, Filling
<1> QED
  BY <1>13, <1>14, <1>16, <1>18, <1>20, <1>21 DEF BankFlash

-----------------------------------------------------------------------------
(***************************************************************************)
(* A block is taken to be filled.                                          *)
(***************************************************************************)
\* What is said of victims depends on few fields of the bank.
LEMMA VictimsKept ==
    ASSUME NEW b \in Bank, NEW n, BankInv(n), NEW map, BankFlash(b, n, map), NEW m,
           SameFields(n, m, {"victim_list", "cur_vt_vpn", "num_gcbuffed", "GCbuf_lpn"}),
           \A k \in Block : SameFields(n.block_list[k], m.block_list[k], {"vbitmap", "spare"}),
           \A k \in Held(n, "victim") : m.block_list[k].vcount = n.block_list[k].vcount
    PROVE  /\ MarksTrue(b, m, map)
           /\ Collecting(b, m, map)
           /\ ReserveIsBack(n) /\ SameFields(n, m, {"GC_BLK", "cur_gc_vpn"}) => ReserveIsBack(m)
<1>1. /\ m.victim_list = n.victim_list /\ m.cur_vt_vpn = n.cur_vt_vpn
      /\ m.num_gcbuffed = n.num_gcbuffed /\ m.GCbuf_lpn = n.GCbuf_lpn
  BY DEF SameFields
<1>2. \A k \in Block : /\ m.block_list[k].vbitmap = n.block_list[k].vbitmap
                       /\ m.block_list[k].spare = n.block_list[k].spare
  BY DEF SameFields
<1>3. Held(m, "victim") = Held(n, "victim")
  BY <1>1, ListsAre DEF Held
<1>4. \A k, off : Unread(m, k, off) <=> Unread(n, k, off)
  BY <1>1, <1>3 DEF Unread, Reading
<1>5. MarksTrue(b, m, map)
  BY <1>2, <1>4 DEF BankFlash, MarksTrue
<1>6. GCHeld(m) = GCHeld(n)
  BY <1>1 DEF GCHeld
<1>7. Collecting(b, m, map)
  <2>1. HeldOnce(m)
    BY <1>1 DEF BankFlash, Collecting, HeldOnce
  <2>2. HeldIsRead(b, m, map)
    BY <1>3, <1>4, <1>6 DEF BankFlash, Collecting, HeldIsRead
  <2>3. CurrentIsLast(b, m, map)
    BY <1>1, <1>6 DEF BankFlash, Collecting, CurrentIsLast
  <2> QED
    BY <1>1, <1>3, <2>1, <2>2, <2>3 DEF BankFlash, Collecting
<1>8. ASSUME ReserveIsBack(n), SameFields(n, m, {"GC_BLK", "cur_gc_vpn"})
      PROVE  ReserveIsBack(m)
  <2>1. m.GC_BLK = n.GC_BLK /\ m.cur_gc_vpn = n.cur_gc_vpn
    BY <1>8 DEF SameFields
  <2>2. n.victim_list # <<>> => m.block_list[n.victim_list[1]].vcount = n.block_list[n.victim_list[1]].vcount
    BY OldestIsBlock
  <2> QED
    BY <1>1, <1>8, <2>1, <2>2 DEF ReserveIsBack, Reading, Holes
<1> QED
  BY <1>5, <1>7, <1>8

\* Two kinds of pages go to two blocks.
LEMMA FillingApart ==
    ASSUME NEW b \in Bank, NEW n, BankInv(n), NEW map, BankFlash(b, n, map)
    PROVE  /\ \A t \in Type : Filling(n, t) => n.cur_write_vpn[t].block \in Held(n, IF t = "SW" THEN "data" ELSE "RW_log")
           /\ \A t, u \in Type : Filling(n, t) /\ Filling(n, u) /\ t # u =>
                    n.cur_write_vpn[t].block # n.cur_write_vpn[u].block
           /\ \A t \in Type : n.cur_write_vpn[t].block \in Block /\ n.cur_write_vpn[t].page \in 0 .. LAST
<1>1. Filling(n, "SW") => n.cur_write_vpn["SW"].block \in Held(n, "data")
  BY DEF BankFlash, WritesFresh
<1>2. Filling(n, "RW") => n.cur_write_vpn["RW"].block \in Held(n, "RW_log")
  BY ListsAre DEF BankInv, ActiveStays, Filling, Held
<1>3. Held(n, "data") \cap Held(n, "RW_log") = {}
  BY ListsAre DEF BankInv, Conserved
<1>4. \A t \in Type : n.cur_write_vpn[t].block \in Block /\ n.cur_write_vpn[t].page \in 0 .. LAST
  BY DEF BankInv, BankShape
<1>5. Type = {"SW", "RW"}
  BY DEF Type
<1> QED
  BY <1>1, <1>2, <1>3, <1>4, <1>5

\* The active block goes on.
LEMMA AssignNext ==
    ASSUME NEW b \in Bank, NEW n, BankInv(n), NEW map, MapApart(map), BankFlash(b, n, map),
           ReserveIsBack(n), NEW t \in Type, ~ActiveFull(n, t),
           NEW m, m = assign_new_write_vpn(n, t)
    PROVE  /\ BankFlash(b, m, map) /\ ReserveIsBack(m)
           /\ m.cur_write_vpn[t].block \in Held(m, IF t = "SW" THEN "data" ELSE "RW_log")
           /\ m.cur_write_vpn[t].page \in 0 .. LAST
           /\ PageIsFresh(b, m, map, m.cur_write_vpn[t].block, m.cur_write_vpn[t].page)
<1> DEFINE blk == n.cur_write_vpn[t].block
           page == n.cur_write_vpn[t].page
<1>1. DOMAIN n = BankField /\ n.cur_write_vpn \in [Type -> [block : Block, page : 0 .. LAST]]
      /\ n.write_start \in [Type -> BOOLEAN]
  BY DEF BankInv, BankShape, BankFlash, WritesFresh
<1>2. /\ \A f \in BankField \ {"write_start", "cur_write_vpn"} : m[f] = n[f]
      /\ m.write_start = [n.write_start EXCEPT ![t] = TRUE]
      /\ m.cur_write_vpn = [n.cur_write_vpn EXCEPT ![t].page = IF n.write_start[t] THEN @ + 1 ELSE @]
  BY <1>1 DEF assign_new_write_vpn, BankField
<1>3. /\ m.GC_BLK = n.GC_BLK /\ m.data_list = n.data_list /\ m.RW_log_list = n.RW_log_list
      /\ m.free_list = n.free_list /\ m.victim_list = n.victim_list
      /\ m.cur_gc_vpn = n.cur_gc_vpn /\ m.cur_vt_vpn = n.cur_vt_vpn
      /\ m.num_gcbuffed = n.num_gcbuffed /\ m.GCbuf_lpn = n.GCbuf_lpn
      /\ m.block_list = n.block_list
  BY <1>2 DEF BankField
<1>4. \A name : Held(m, name) = Held(n, name)
  <2>1. Lists(m) = Lists(n)
    BY <1>3 DEF Lists
  <2> QED
    BY <2>1 DEF Held
<1>5. LAST \in Nat /\ page \in 0 .. LAST /\ page # LAST /\ Filling(n, t) /\ LAST = PAGES_PER_BLK - 1
  BY <1>1, FlashFacts DEF ActiveFull, Filling, LAST
<1>6. /\ m.cur_write_vpn[t].block = blk
      /\ m.cur_write_vpn[t].page = NextPage(n, t)
      /\ NextPage(m, t) = NextPage(n, t) + 1
      /\ NextPage(n, t) \in 0 .. LAST
      /\ m.write_start[t]
      /\ \A u \in Type : u # t => m.cur_write_vpn[u] = n.cur_write_vpn[u] /\ m.write_start[u] = n.write_start[u]
      /\ m.write_start \in [Type -> BOOLEAN]
  <2>1. /\ m.write_start[t] /\ m.write_start \in [Type -> BOOLEAN]
        /\ \A u \in Type : u # t => m.cur_write_vpn[u] = n.cur_write_vpn[u] /\ m.write_start[u] = n.write_start[u]
    BY <1>1, <1>2
  <2>2. m.cur_write_vpn[t] = [n.cur_write_vpn[t] EXCEPT !.page = IF n.write_start[t] THEN @ + 1 ELSE @]
    BY <1>1, <1>2
  <2>3. n.cur_write_vpn[t] \in [block : Block, page : 0 .. LAST]
    BY <1>1
  <2>4. m.cur_write_vpn[t].block = blk /\ m.cur_write_vpn[t].page = IF n.write_start[t] THEN page + 1 ELSE page
    BY <2>2, <2>3
  <2>5. n.write_start[t] \in BOOLEAN
    BY <1>1
  <2> QED
    BY <1>5, <2>1, <2>4, <2>5 DEF NextPage
<1>7. SameFields(n, m, {"victim_list", "cur_vt_vpn", "num_gcbuffed", "GCbuf_lpn"})
      /\ SameFields(n, m, {"GC_BLK", "cur_gc_vpn"})
  BY <1>3 DEF SameFields
<1>8. MarksTrue(b, m, map) /\ Collecting(b, m, map) /\ ReserveIsBack(m)
  BY <1>3, <1>7, VictimsKept DEF SameFields
<1>9. VcountsRight(b, m, map) /\ FreeIsEmpty(b, m, map)
  BY <1>3, <1>4 DEF BankFlash, VcountsRight, FreeIsEmpty
<1>10. blk \in Held(n, IF t = "SW" THEN "data" ELSE "RW_log")
  BY <1>5, FillingApart
<1>11. \A u \in Type : u # t => (Filling(m, u) <=> Filling(n, u)) /\ NextPage(m, u) = NextPage(n, u)
  BY <1>6 DEF Filling, NextPage
<1>12. MappedBelow(b, blk, NextPage(n, t), map)
  BY <1>5 DEF BankFlash, WritesFresh
<1>13. \A l \in LPN : InBlock(map[l], b, blk) => PageOf(map[l].off) \in Int
  BY PlaceIs, OffsetPages
<1>14. MappedBelow(b, blk, NextPage(m, t), map)
  BY <1>6, <1>12, <1>13 DEF MappedBelow
<1>15. WritesFresh(b, m, map)
  <2>1. Filling(m, "SW") => m.cur_write_vpn["SW"].block \in Held(m, "data")
    <3>1. CASE t = "SW"
      BY <1>4, <1>6, <1>10, <3>1
    <3>2. CASE t # "SW"
      BY <1>4, <1>6, <1>11, <3>2 DEF BankFlash, WritesFresh, Type
    <3> QED
      BY <3>1, <3>2
  <2>2. \A u \in Type : m.cur_write_vpn[u].page # 0 => m.write_start[u]
    BY <1>6 DEF BankFlash, WritesFresh
  <2>3. \A u \in Type : Filling(m, u) => MappedBelow(b, m.cur_write_vpn[u].block, NextPage(m, u), map)
    BY <1>6, <1>11, <1>14 DEF BankFlash, WritesFresh
  <2> QED
    BY <1>6, <2>1, <2>2, <2>3 DEF WritesFresh
<1>16. CollectorFresh(b, m, map)
  <2>1. \A u \in Type : Filling(m, u) => Filling(n, u) /\ m.cur_write_vpn[u].block = n.cur_write_vpn[u].block
    BY <1>5, <1>6, <1>11
  <2> QED
    BY <1>3, <1>4, <2>1 DEF BankFlash, CollectorFresh
<1>17. PageIsFresh(b, m, map, blk, NextPage(n, t))
  <2>1. \A l \in LPN : InBlock(map[l], b, blk) => PageOf(map[l].off) # NextPage(n, t)
    BY <1>6, <1>12, <1>13 DEF MappedBelow
  <2>2. ASSUME NEW u \in Type, Filling(m, u), m.cur_write_vpn[u].block = blk
        PROVE  NextPage(n, t) < NextPage(m, u)
    <3>1. u = t
      BY <1>5, <1>6, <1>11, <2>2, FillingApart
    <3> QED
      BY <1>6, <3>1
  <2>3. ~(m.cur_gc_vpn # VC_MAX /\ m.cur_gc_vpn.page # LAST /\ m.cur_gc_vpn.block = blk)
    BY <1>3, <1>5 DEF BankFlash, CollectorFresh
  <2> QED
    BY <2>1, <2>2, <2>3 DEF PageIsFresh
<1>18. BankFlash(b, m, map)
  BY <1>8, <1>9, <1>15, <1>16 DEF BankFlash
<1> QED
  BY <1>4, <1>6, <1>8, <1>10, <1>17, <1>18

\* The first free block becomes active.
LEMMA AssignFirst ==
    ASSUME NEW b \in Bank, NEW n, BankInv(n), NEW map, MapApart(map), BankFlash(b, n, map),
           ReserveIsBack(n), NEW t \in Type, ActiveFull(n, t), n.free_list # <<>>,
           NEW m, m = assign_new_write_vpn(n, t)
    PROVE  /\ BankFlash(b, m, map) /\ ReserveIsBack(m)
           /\ m.cur_write_vpn[t].block \in Held(m, IF t = "SW" THEN "data" ELSE "RW_log")
           /\ m.cur_write_vpn[t].page \in 0 .. LAST
           /\ PageIsFresh(b, m, map, m.cur_write_vpn[t].block, m.cur_write_vpn[t].page)
<1> DEFINE blk == Head(n.free_list)
<1>1. DOMAIN n = BankField /\ n.cur_write_vpn \in [Type -> [block : Block, page : 0 .. LAST]]
      /\ DOMAIN n.block_list = Block /\ \A k \in Block : DOMAIN n.block_list[k] = InfoField
  BY DEF BankInv, BankShape
<1>2. /\ blk \in Held(n, "free") /\ blk \in Block
      /\ blk \notin Held(n, "data") /\ blk \notin Held(n, "RW_log") /\ blk \notin Held(n, "victim")
      /\ ToSet(Tail(n.free_list)) = ToSet(n.free_list) \ {blk}
  <2>1. List(n.free_list) /\ Held(n, "free") = ToSet(n.free_list)
    BY ListsAre DEF BankInv, Conserved, Held
  <2>2. blk \in Held(n, "free") /\ ToSet(Tail(n.free_list)) = ToSet(n.free_list) \ {blk}
    BY <2>1, ListTail
  <2> QED
    BY <2>2, HeldBlocks, ListsAre DEF BankInv
<1> DEFINE list == IF t = "SW" THEN n.data_list ELSE n.RW_log_list
<1>3. List(list) /\ blk \notin ToSet(list) /\ ToSet(Append(list, blk)) = ToSet(list) \cup {blk}
  <2>1. List(n.data_list) /\ List(n.RW_log_list) /\ Held(n, "data") = ToSet(n.data_list)
        /\ Held(n, "RW_log") = ToSet(n.RW_log_list)
    BY ListsAre DEF BankInv, Conserved, Held
  <2> QED
    BY <1>2, <2>1, ListAppend
<1> HIDE DEF blk
<1>4. /\ \A f \in BankField \ {"free_list", "cur_write_vpn", "block_list", "data_list", "RW_log_list"} : m[f] = n[f]
      /\ m.free_list = Tail(n.free_list)
      /\ m.cur_write_vpn = [n.cur_write_vpn EXCEPT ![t] = [block |-> blk, page |-> 0]]
      /\ m.block_list = [n.block_list EXCEPT ![blk].vcount = IF @ = VC_ERASED THEN 0 ELSE @]
      /\ m.data_list = IF t = "SW" THEN Append(n.data_list, blk) ELSE n.data_list
      /\ m.RW_log_list = IF t = "SW" THEN n.RW_log_list ELSE Append(n.RW_log_list, blk)
  BY <1>1 DEF assign_new_write_vpn, BankField, blk
<1>5. /\ m.GC_BLK = n.GC_BLK /\ m.victim_list = n.victim_list /\ m.write_start = n.write_start
      /\ m.cur_gc_vpn = n.cur_gc_vpn /\ m.cur_vt_vpn = n.cur_vt_vpn
      /\ m.num_gcbuffed = n.num_gcbuffed /\ m.GCbuf_lpn = n.GCbuf_lpn
  BY <1>4 DEF BankField
<1>6. /\ Held(m, "free") = Held(n, "free") \ {blk}
      /\ Held(m, "victim") = Held(n, "victim") /\ Held(m, "GC") = Held(n, "GC")
      /\ Held(n, "data") \subseteq Held(m, "data")
      /\ blk \in Held(m, IF t = "SW" THEN "data" ELSE "RW_log")
  <2>1. \A name \in {"data", "RW_log", "free", "victim", "GC"} :
            Held(n, name) = ToSet(Lists(n)[name]) /\ Held(m, name) = ToSet(Lists(m)[name])
    BY DEF Held
  <2>2. t = "SW" => ToSet(m.data_list) = ToSet(n.data_list) \cup {blk}
    BY <1>3, <1>4
  <2>3. t # "SW" => ToSet(m.RW_log_list) = ToSet(n.RW_log_list) \cup {blk} /\ m.data_list = n.data_list
    BY <1>3, <1>4
  <2>4. Held(n, "data") \subseteq Held(m, "data")
    BY <2>1, <2>2, <2>3, ListsAre
  <2>5. blk \in Held(m, IF t = "SW" THEN "data" ELSE "RW_log")
    BY <2>1, <2>2, <2>3, ListsAre
  <2>6. /\ Held(m, "free") = Held(n, "free") \ {blk}
        /\ Held(m, "victim") = Held(n, "victim") /\ Held(m, "GC") = Held(n, "GC")
    <3>1. Held(m, "free") = ToSet(m.free_list) /\ Held(n, "free") = ToSet(n.free_list)
      BY ListsAre DEF Held
    <3>2. Lists(m)["GC"] = Lists(n)["GC"] /\ Lists(m)["victim"] = Lists(n)["victim"]
      BY <1>5, ListsAre
    <3> QED
      BY <1>2, <1>4, <3>1, <3>2 DEF Held
  <2> QED
    BY <2>4, <2>5, <2>6
<1>7. Into(map, b, blk) = {} /\ \A l \in LPN : ~InBlock(map[l], b, blk)
  BY <1>2 DEF BankFlash, FreeIsEmpty, Into
<1>8. /\ \A k \in Block : /\ m.block_list[k].vbitmap = n.block_list[k].vbitmap
                          /\ m.block_list[k].spare = n.block_list[k].spare
      /\ \A k \in Block : k # blk => m.block_list[k].vcount = n.block_list[k].vcount
      /\ m.block_list[blk].vcount = IF n.block_list[blk].vcount = VC_ERASED THEN 0 ELSE n.block_list[blk].vcount
  <2>1. \A k \in Block : k # blk => m.block_list[k] = n.block_list[k]
    BY <1>1, <1>4
  <2>2. m.block_list[blk] = [n.block_list[blk] EXCEPT !.vcount = IF @ = VC_ERASED THEN 0 ELSE @]
    BY <1>1, <1>2, <1>4
  <2>3. /\ m.block_list[blk].vbitmap = n.block_list[blk].vbitmap
        /\ m.block_list[blk].spare = n.block_list[blk].spare
        /\ m.block_list[blk].vcount = IF n.block_list[blk].vcount = VC_ERASED THEN 0 ELSE n.block_list[blk].vcount
    BY <1>1, <1>2, <2>2 DEF InfoField
  <2> QED
    BY <2>1, <2>3
<1>9. MarksTrue(b, m, map) /\ Collecting(b, m, map) /\ ReserveIsBack(m)
  <2>1. SameFields(n, m, {"victim_list", "cur_vt_vpn", "num_gcbuffed", "GCbuf_lpn"})
        /\ SameFields(n, m, {"GC_BLK", "cur_gc_vpn"})
        /\ \A k \in Block : SameFields(n.block_list[k], m.block_list[k], {"vbitmap", "spare"})
    BY <1>5, <1>8 DEF SameFields
  <2>2. \A k \in Held(n, "victim") : m.block_list[k].vcount = n.block_list[k].vcount
    BY <1>2, <1>8, HeldBlocks, ListsAre DEF BankInv
  <2> QED
    BY <2>1, <2>2, VictimsKept
<1>10. VcountsRight(b, m, map)
  <2> SUFFICES ASSUME NEW k \in Block
               PROVE  LET vcount == m.block_list[k].vcount
                      IN  /\ vcount \in Nat
                          /\ Cardinality(Into(map, b, k)) = IF vcount = VC_ERASED THEN 0 ELSE vcount
                          /\ vcount = VC_ERASED => k \in Held(m, "free") \cup Held(m, "GC")
    BY DEF VcountsRight
  <2>1. /\ n.block_list[k].vcount \in Nat
        /\ Cardinality(Into(map, b, k)) = IF n.block_list[k].vcount = VC_ERASED THEN 0 ELSE n.block_list[k].vcount
        /\ n.block_list[k].vcount = VC_ERASED => k \in Held(n, "free") \cup Held(n, "GC")
    BY DEF BankFlash, VcountsRight
  <2>2. CASE k = blk
    <3>1. Cardinality(Into(map, b, k)) = 0
      BY <1>7, <2>2, FS_EmptySet
    <3>2. VC_ERASED # 0
      BY NoSuchPlace, FlashFacts
    <3>3. m.block_list[k].vcount = 0
      BY <1>8, <2>1, <2>2, <3>1
    <3> QED
      BY <3>1, <3>2, <3>3
  <2>3. CASE k # blk
    BY <1>6, <1>8, <2>1, <2>3
  <2> QED
    BY <2>2, <2>3
<1>11. FreeIsEmpty(b, m, map)
  BY <1>6 DEF BankFlash, FreeIsEmpty
<1>12. /\ m.cur_write_vpn[t].block = blk /\ m.cur_write_vpn[t].page = 0
       /\ \A u \in Type : u # t => m.cur_write_vpn[u] = n.cur_write_vpn[u]
  BY <1>1, <1>4
<1>13. Filling(m, t) => m.write_start[t] = TRUE /\ NextPage(m, t) = 1
  <2> SUFFICES ASSUME Filling(m, t)
               PROVE  m.write_start[t] = TRUE /\ NextPage(m, t) = 1
    OBVIOUS
  <2>1. LAST # 0
    BY <1>12 DEF Filling
  <2>2. n.cur_write_vpn[t].page # 0
    BY <2>1 DEF ActiveFull, LAST
  <2>3. n.write_start[t] = TRUE
    BY <2>2 DEF BankFlash, WritesFresh
  <2> QED
    BY <1>5, <1>12, <2>3 DEF NextPage
<1>14. \A u \in Type : u # t => (Filling(m, u) <=> Filling(n, u)) /\ NextPage(m, u) = NextPage(n, u)
  BY <1>5, <1>12 DEF Filling, NextPage
<1>15. \A u \in Type : u # t /\ Filling(m, u) => m.cur_write_vpn[u].block # blk
  BY <1>2, <1>12, <1>14, FillingApart
<1>16. WritesFresh(b, m, map)
  <2>1. Filling(m, "SW") => m.cur_write_vpn["SW"].block \in Held(m, "data")
    <3>1. CASE t = "SW"
      BY <1>6, <1>12, <3>1
    <3>2. CASE t # "SW"
      BY <1>6, <1>12, <1>14, <3>2 DEF BankFlash, WritesFresh, Type
    <3> QED
      BY <3>1, <3>2
  <2>2. \A u \in Type : m.cur_write_vpn[u].page # 0 => m.write_start[u]
    BY <1>5, <1>12 DEF BankFlash, WritesFresh
  <2>3. \A u \in Type : Filling(m, u) => MappedBelow(b, m.cur_write_vpn[u].block, NextPage(m, u), map)
    <3>1. MappedBelow(b, blk, NextPage(m, t), map)
      BY <1>7 DEF MappedBelow
    <3> QED
      BY <1>12, <1>14, <3>1 DEF BankFlash, WritesFresh
  <2> QED
    BY <1>5, <2>1, <2>2, <2>3 DEF BankFlash, WritesFresh
<1>17. CollectorFresh(b, m, map)
  <2> SUFFICES ASSUME n.cur_gc_vpn # VC_MAX
               PROVE  /\ n.cur_gc_vpn \in [block : Block, page : 0 .. LAST]
                      /\ n.cur_gc_vpn.page # LAST =>
                          /\ n.cur_gc_vpn.block \in Held(m, "data")
                          /\ \A u \in Type : Filling(m, u) => m.cur_write_vpn[u].block # n.cur_gc_vpn.block
                          /\ MappedBelow(b, n.cur_gc_vpn.block, n.cur_gc_vpn.page + 1, map)
    BY <1>5 DEF CollectorFresh
  <2>1. /\ n.cur_gc_vpn \in [block : Block, page : 0 .. LAST]
        /\ n.cur_gc_vpn.page # LAST =>
            /\ n.cur_gc_vpn.block \in Held(n, "data")
            /\ \A u \in Type : Filling(n, u) => n.cur_write_vpn[u].block # n.cur_gc_vpn.block
            /\ MappedBelow(b, n.cur_gc_vpn.block, n.cur_gc_vpn.page + 1, map)
    BY DEF BankFlash, CollectorFresh
  <2> QED
    BY <1>2, <1>6, <1>12, <1>14, <2>1
<1>18. PageIsFresh(b, m, map, blk, 0)
  <2>1. \A u \in Type : Filling(m, u) /\ m.cur_write_vpn[u].block = blk => 0 < NextPage(m, u)
    BY <1>13, <1>15
  <2>2. ~(m.cur_gc_vpn # VC_MAX /\ m.cur_gc_vpn.page # LAST /\ m.cur_gc_vpn.block = blk)
    BY <1>2, <1>5 DEF BankFlash, CollectorFresh
  <2> QED
    BY <1>7, <2>1, <2>2 DEF PageIsFresh
<1>19. BankFlash(b, m, map)
  BY <1>9, <1>10, <1>11, <1>16, <1>17 DEF BankFlash
<1> QED
  BY <1>6, <1>9, <1>12, <1>18, <1>19, FlashFacts

\* The collector's next page: in its block.
LEMMA TargetNext ==
    ASSUME NEW b \in Bank, NEW n, BankInv(n), NEW map, MapApart(map), BankFlash(b, n, map),
           ~NeedsBlock(n), NEW m, m = GCTarget(n)
    PROVE  /\ BankFlash(b, m, map)
           /\ m.cur_gc_vpn.block \in Held(m, "data")
           /\ m.cur_gc_vpn.page = n.cur_gc_vpn.page + 1 /\ m.cur_gc_vpn.page \in 0 .. LAST
           /\ PageIsFresh(b, m, map, m.cur_gc_vpn.block, m.cur_gc_vpn.page)
           /\ m.cur_gc_vpn # VC_MAX
           /\ \A f \in BankField \ {"cur_gc_vpn"} : m[f] = n[f]
<1> DEFINE blk == n.cur_gc_vpn.block
           page == n.cur_gc_vpn.page
<1>1. DOMAIN n = BankField /\ n.cur_gc_vpn # VC_MAX /\ page # LAST
  BY DEF BankInv, BankShape, NeedsBlock, LAST
<1>2. /\ n.cur_gc_vpn \in [block : Block, page : 0 .. LAST]
      /\ blk \in Held(n, "data")
      /\ \A t \in Type : Filling(n, t) => n.cur_write_vpn[t].block # blk
      /\ MappedBelow(b, blk, page + 1, map)
  BY <1>1 DEF BankFlash, CollectorFresh
<1>3. /\ \A f \in BankField \ {"cur_gc_vpn"} : m[f] = n[f]
      /\ m.cur_gc_vpn = [n.cur_gc_vpn EXCEPT !.page = @ + 1]
  BY <1>1 DEF GCTarget, BankField
<1>4. m.cur_gc_vpn.block = blk /\ m.cur_gc_vpn.page = page + 1 /\ page + 1 \in 0 .. LAST
      /\ m.cur_gc_vpn \in [block : Block, page : 0 .. LAST]
  BY <1>1, <1>2, <1>3, FlashFacts
<1>5. /\ m.GC_BLK = n.GC_BLK /\ m.data_list = n.data_list /\ m.RW_log_list = n.RW_log_list
      /\ m.free_list = n.free_list /\ m.victim_list = n.victim_list
      /\ m.cur_vt_vpn = n.cur_vt_vpn /\ m.cur_write_vpn = n.cur_write_vpn /\ m.write_start = n.write_start
      /\ m.num_gcbuffed = n.num_gcbuffed /\ m.GCbuf_lpn = n.GCbuf_lpn
      /\ m.block_list = n.block_list
  BY <1>3 DEF BankField
<1>6. \A name : Held(m, name) = Held(n, name)
  <2>1. Lists(m) = Lists(n)
    BY <1>5 DEF Lists
  <2> QED
    BY <2>1 DEF Held
<1>7. SameFields(n, m, {"victim_list", "cur_vt_vpn", "num_gcbuffed", "GCbuf_lpn"})
  BY <1>5 DEF SameFields
<1>8. MarksTrue(b, m, map) /\ Collecting(b, m, map)
  BY <1>5, <1>7, VictimsKept DEF SameFields
<1>9. VcountsRight(b, m, map) /\ FreeIsEmpty(b, m, map)
  BY <1>5, <1>6 DEF BankFlash, VcountsRight, FreeIsEmpty
<1>10. WritesFresh(b, m, map)
  BY <1>5, <1>6 DEF BankFlash, WritesFresh, Filling, NextPage
<1>11. \A l \in LPN : InBlock(map[l], b, blk) => PageOf(map[l].off) \in Int
  BY PlaceIs, OffsetPages
<1>12. \A l \in LPN : InBlock(map[l], b, blk) => PageOf(map[l].off) < page + 1
  BY <1>2 DEF MappedBelow
<1>13. CollectorFresh(b, m, map)
  <2>1. MappedBelow(b, blk, m.cur_gc_vpn.page + 1, map)
    BY <1>2, <1>4, <1>11, <1>12 DEF MappedBelow
  <2> QED
    BY <1>2, <1>4, <1>5, <1>6, <2>1 DEF CollectorFresh, Filling
<1>14. PageIsFresh(b, m, map, blk, page + 1)
  <2>1. \A l \in LPN : InBlock(map[l], b, blk) => PageOf(map[l].off) # page + 1
    BY <1>2, <1>11, <1>12
  <2>2. \A t \in Type : ~(Filling(m, t) /\ m.cur_write_vpn[t].block = blk)
    BY <1>2, <1>5 DEF Filling
  <2> QED
    BY <1>2, <1>4, <2>1, <2>2 DEF PageIsFresh
<1>15. BankFlash(b, m, map)
  BY <1>8, <1>9, <1>10, <1>13 DEF BankFlash
<1>16. m.cur_gc_vpn # VC_MAX
  <2>1. page + 1 \in 0 .. PhysPages
    BY <1>4, LastIsPage, FlashFacts
  <2>2. m.cur_gc_vpn = [block |-> blk, page |-> page + 1]
    BY <1>2, <1>3
  <2> QED
    BY <1>2, <2>1, <2>2, RecordIsPlace
<1>17. blk \in Held(m, "data")
  BY <1>2, <1>6
<1> HIDE DEF blk, page
<1> QED
  BY <1>3, <1>4, <1>14, <1>15, <1>16, <1>17 DEF blk, page

\* The same for the first page of the block in reserve.
LEMMA TargetFirst ==
    ASSUME NEW b \in Bank, NEW n, BankInv(n), NEW map, MapApart(map), BankFlash(b, n, map),
           NeedsBlock(n), n.GC_BLK # VC_MAX, NEW m, m = GCTarget(n)
    PROVE  /\ BankFlash(b, m, map)
           /\ m.cur_gc_vpn.block \in Held(m, "data")
           /\ m.cur_gc_vpn.page = 0 /\ m.cur_gc_vpn.page \in 0 .. LAST
           /\ PageIsFresh(b, m, map, m.cur_gc_vpn.block, m.cur_gc_vpn.page)
           /\ m.cur_gc_vpn # VC_MAX
           /\ \A f \in BankField \ {"cur_gc_vpn", "GC_BLK", "data_list", "block_list"} : m[f] = n[f]
           /\ \A k \in Held(n, "victim") : m.block_list[k] = n.block_list[k]
<1> DEFINE blk == n.GC_BLK
<1>1. DOMAIN n = BankField /\ DOMAIN n.block_list = Block /\ \A k \in Block : DOMAIN n.block_list[k] = InfoField
  BY DEF BankInv, BankShape
<1>2. /\ blk \in Held(n, "GC") /\ blk \in Block
      /\ blk \notin Held(n, "data") /\ blk \notin Held(n, "RW_log") /\ blk \notin Held(n, "victim")
      /\ blk \notin Held(n, "free")
  <2>1. Lists(n)["GC"] = <<blk>>
    BY ListsAre
  <2>2. blk \in Held(n, "GC")
    BY <2>1 DEF Held, ToSet
  <2> QED
    BY <2>2, HeldBlocks, ListsAre DEF BankInv
<1>3. ToSet(Append(n.data_list, blk)) = ToSet(n.data_list) \cup {blk}
  <2>1. List(n.data_list) /\ Held(n, "data") = ToSet(n.data_list)
    BY ListsAre DEF BankInv, Conserved, Held
  <2> QED
    BY <1>2, <2>1, ListAppend
<1> HIDE DEF blk
<1>4. /\ \A f \in BankField \ {"cur_gc_vpn", "GC_BLK", "data_list", "block_list"} : m[f] = n[f]
      /\ m.GC_BLK = VC_MAX
      /\ m.data_list = Append(n.data_list, blk)
      /\ m.cur_gc_vpn = [block |-> blk, page |-> 0]
      /\ m.block_list = [n.block_list EXCEPT ![blk].vcount = 0]
  BY <1>1 DEF GCTarget, BankField, blk
<1>5. /\ m.RW_log_list = n.RW_log_list
      /\ m.free_list = n.free_list /\ m.victim_list = n.victim_list
      /\ m.cur_vt_vpn = n.cur_vt_vpn /\ m.cur_write_vpn = n.cur_write_vpn /\ m.write_start = n.write_start
      /\ m.num_gcbuffed = n.num_gcbuffed /\ m.GCbuf_lpn = n.GCbuf_lpn
  BY <1>4 DEF BankField
<1>6. /\ Held(m, "free") = Held(n, "free") /\ Held(m, "victim") = Held(n, "victim")
      /\ Held(n, "data") \subseteq Held(m, "data") /\ blk \in Held(m, "data")
  <2>1. /\ Held(m, "data") = ToSet(m.data_list) /\ Held(n, "data") = ToSet(n.data_list)
        /\ Held(m, "free") = ToSet(m.free_list) /\ Held(n, "free") = ToSet(n.free_list)
        /\ Held(m, "victim") = ToSet(m.victim_list) /\ Held(n, "victim") = ToSet(n.victim_list)
    BY ListsAre DEF Held
  <2> QED
    BY <1>3, <1>4, <1>5, <2>1
<1>7. Held(m, "GC") = {} /\ Held(n, "GC") = {blk}
  <2>1. Lists(m)["GC"] = <<>> /\ Lists(n)["GC"] = <<blk>>
    BY <1>4, ListsAre DEF blk
  <2> QED
    BY <2>1 DEF Held, ToSet
<1>8. Into(map, b, blk) = {} /\ \A l \in LPN : ~InBlock(map[l], b, blk)
  BY <1>2 DEF BankFlash, FreeIsEmpty, Into
<1>9. /\ \A k \in Block : k # blk => m.block_list[k] = n.block_list[k]
      /\ m.block_list[blk].vbitmap = n.block_list[blk].vbitmap
      /\ m.block_list[blk].spare = n.block_list[blk].spare
      /\ m.block_list[blk].vcount = 0
  <2>1. m.block_list[blk] = [n.block_list[blk] EXCEPT !.vcount = 0]
    BY <1>1, <1>2, <1>4
  <2> QED
    BY <1>1, <1>2, <1>4, <2>1 DEF InfoField
<1>10. \A k \in Held(n, "victim") : m.block_list[k] = n.block_list[k]
  BY <1>2, <1>9, HeldBlocks, ListsAre DEF BankInv
<1>11. MarksTrue(b, m, map) /\ Collecting(b, m, map)
  <2>1. SameFields(n, m, {"victim_list", "cur_vt_vpn", "num_gcbuffed", "GCbuf_lpn"})
        /\ \A k \in Block : SameFields(n.block_list[k], m.block_list[k], {"vbitmap", "spare"})
    BY <1>5, <1>9 DEF SameFields
  <2> QED
    BY <1>10, <2>1, VictimsKept
<1>12. VcountsRight(b, m, map)
  <2> SUFFICES ASSUME NEW k \in Block
               PROVE  LET vcount == m.block_list[k].vcount
                      IN  /\ vcount \in Nat
                          /\ Cardinality(Into(map, b, k)) = IF vcount = VC_ERASED THEN 0 ELSE vcount
                          /\ vcount = VC_ERASED => k \in Held(m, "free") \cup Held(m, "GC")
    BY DEF VcountsRight
  <2>1. CASE k = blk
    <3>1. Cardinality(Into(map, b, k)) = 0
      BY <1>8, <2>1, FS_EmptySet
    <3>2. VC_ERASED # 0
      BY NoSuchPlace, FlashFacts
    <3> QED
      BY <1>9, <2>1, <3>1, <3>2
  <2>2. CASE k # blk
    BY <1>6, <1>7, <1>9, <2>2 DEF BankFlash, VcountsRight
  <2> QED
    BY <2>1, <2>2
<1>13. FreeIsEmpty(b, m, map)
  BY <1>6, <1>7 DEF BankFlash, FreeIsEmpty
<1>14. WritesFresh(b, m, map)
  BY <1>5, <1>6 DEF BankFlash, WritesFresh, Filling, NextPage
<1>15. \A t \in Type : Filling(m, t) => m.cur_write_vpn[t].block # blk
  <2>1. \A t \in Type : Filling(m, t) => Filling(n, t) /\ m.cur_write_vpn[t].block = n.cur_write_vpn[t].block
    BY <1>5 DEF Filling
  <2> QED
    BY <1>2, <2>1, FillingApart
<1>16. m.cur_gc_vpn.block = blk /\ m.cur_gc_vpn.page = 0 /\ m.cur_gc_vpn \in [block : Block, page : 0 .. LAST]
       /\ 0 \in 0 .. LAST
  BY <1>2, <1>4, FlashFacts
<1>17. m.cur_gc_vpn # VC_MAX
  <2>1. 0 \in 0 .. PhysPages
    BY FlashFacts
  <2> QED
    BY <1>2, <1>4, <2>1, RecordIsPlace
<1>18. CollectorFresh(b, m, map)
  BY <1>6, <1>8, <1>15, <1>16 DEF CollectorFresh, MappedBelow
<1>19. PageIsFresh(b, m, map, blk, 0)
  BY <1>8, <1>15, <1>16 DEF PageIsFresh
<1> QED
  BY <1>4, <1>6, <1>10, <1>11, <1>12, <1>13, <1>14, <1>16, <1>17, <1>18, <1>19 DEF BankFlash

-----------------------------------------------------------------------------
(***************************************************************************)
(* A page of the current victim is read.                                   *)
(***************************************************************************)
\* offs are the places of blk from page `from' on and before page `page' that the
\* map leads to; the spare areas tell their addresses, which are home addresses.
IsRead(b, info, blk, map, from, page, offs) ==
    /\ offs \in Seq(Offset) /\ Len(offs) <= 2
    /\ \A i, j \in DOMAIN offs : offs[i] = offs[j] => i = j
    /\ \A i \in DOMAIN offs :
        /\ PhysPageOf(offs[i]) \in from .. page - 1
        /\ info.spare[offs[i]] \in HomeLPN /\ map[info.spare[offs[i]]] = Flash(b, blk, offs[i])
    /\ \A l \in LPN, off \in Offset :
            map[l] = Flash(b, blk, off) /\ PhysPageOf(off) \in from .. page - 1 =>
                \E i \in DOMAIN offs : offs[i] = off
    /\ page \in from .. PhysPages

\* The least of some pages.
LEMMA MinIs ==
    ASSUME NEW from \in Nat, NEW T, T \subseteq from .. PhysPages - 1, T # {}
    PROVE  /\ Min(T) \in T /\ Min(T) \in Nat /\ from <= Min(T) /\ Min(T) < PhysPages
           /\ \A x \in T : Min(T) <= x
           /\ 2 * Min(T) \in Offset /\ 2 * Min(T) + 1 \in Offset
<1>1. PhysPages \in Nat
  BY FlashFacts
<1>2. T \subseteq Nat
  BY <1>1
<1>3. \E m \in T : \A k \in T : m <= k
  BY <1>2, LeastNatural
<1>4. Min(T) \in T /\ \A x \in T : Min(T) <= x
  BY <1>3 DEF Min
<1>5. Min(T) \in Nat /\ from <= Min(T) /\ Min(T) < PhysPages
  <2>1. Min(T) \in from .. PhysPages - 1
    BY <1>4
  <2>2. \A p \in from .. PhysPages - 1 : p \in Nat /\ from <= p /\ p < PhysPages
    BY <1>1
  <2> HIDE DEF Min
  <2> QED
    BY <2>1, <2>2
<1>6. 2 * Min(T) \in Offset /\ 2 * Min(T) + 1 \in Offset
  BY ReadPage
<1> QED
  BY <1>4, <1>5, <1>6

\* The halves of a page that read_victim_page finds an address for.
LEMMA ReadableIs ==
    ASSUME NEW info, NEW page \in Nat, 2 * page \in Offset, 2 * page + 1 \in Offset,
           NEW q, q = Readable(info, page)
    PROVE  /\ q \in Seq(Offset) /\ Len(q) <= 2
           /\ \A i, j \in DOMAIN q : q[i] = q[j] => i = j
           /\ \A i \in DOMAIN q : q[i] \in {2 * page, 2 * page + 1}
                    /\ q[i] \in info.vbitmap /\ info.spare[q[i]] # RSP_INVALID_LPN
           /\ \A off \in {2 * page, 2 * page + 1} :
                    off \in info.vbitmap /\ info.spare[off] # RSP_INVALID_LPN => \E i \in DOMAIN q : q[i] = off
<1> DEFINE Told(off) == off \in info.vbitmap /\ info.spare[off] # RSP_INVALID_LPN
           One(off) == IF off \in Halves(info, page) /\ info.spare[off] # RSP_INVALID_LPN
                       THEN <<off>> ELSE <<>>
           x == 2 * page
           y == 2 * page + 1
<1>1. x # y /\ x \in Offset /\ y \in Offset
  OBVIOUS
<1>2. q = One(x) \o One(y)
  BY DEF Readable
<1>3. \A off \in {x, y} : One(off) = IF Told(off) THEN <<off>> ELSE <<>>
  BY DEF Halves
<1> HIDE DEF One, x, y
<1>4. CASE Told(x) /\ Told(y)
  <2>1. q \in Seq(Offset) /\ Len(q) = 2 /\ q[1] = x /\ q[2] = y
    <3>1. q = <<x>> \o <<y>>
      BY <1>2, <1>3, <1>4
    <3>2. <<x>> \in Seq(Offset) /\ Len(<<x>>) = 1 /\ <<x>>[1] = x
          /\ <<y>> \in Seq(Offset) /\ Len(<<y>>) = 1 /\ <<y>>[1] = y
      BY <1>1
    <3> QED
      BY <3>1, <3>2, ConcatProperties
  <2>2. DOMAIN q = {1, 2}
    BY <2>1, LenProperties
  <2> QED
    BY <1>1, <1>4, <2>1, <2>2 DEF x, y
<1>5. CASE Told(x) /\ ~Told(y)
  <2>1. q = <<x>>
    <3>1. q = <<x>> \o <<>>
      BY <1>2, <1>3, <1>5
    <3> QED
      BY <3>1
  <2> QED
    BY <1>1, <1>5, <2>1 DEF x, y
<1>6. CASE ~Told(x) /\ Told(y)
  <2>1. q = <<y>>
    <3>1. q = <<>> \o <<y>>
      BY <1>2, <1>3, <1>6
    <3> QED
      BY <3>1
  <2> QED
    BY <1>1, <1>6, <2>1 DEF x, y
<1>7. CASE ~Told(x) /\ ~Told(y)
  <2>1. q = <<>>
    <3>1. q = <<>> \o <<>>
      BY <1>2, <1>3, <1>7
    <3> QED
      BY <3>1
  <2> QED
    BY <1>1, <1>7, <2>1, EmptySeq DEF x, y
<1> QED
  BY <1>4, <1>5, <1>6, <1>7

\* What is mapped into the current victim behind its page is marked, and not held.
LEMMA UnreadIsMarked ==
    ASSUME NEW b \in Bank, NEW n, BankInv(n), NEW map, MapApart(map), BankFlash(b, n, map),
           \A s \in SlotLPN : InBank(map[s], b) => map[s].block \notin Held(n, "victim"),
           n.cur_vt_vpn # VC_MAX, NEW blk, blk = n.cur_vt_vpn.block
    PROVE  /\ blk \in Block /\ blk \in Held(n, "victim") /\ n.cur_vt_vpn.page \in 0 .. PhysPages
           /\ n.block_list[blk].vcount = Cardinality(Into(map, b, blk))
           /\ \A l \in LPN, off \in Offset : map[l] = Flash(b, blk, off) /\ PhysPageOf(off) >= n.cur_vt_vpn.page =>
                /\ off \in n.block_list[blk].vbitmap /\ n.block_list[blk].spare[off] = l /\ l \in HomeLPN
                /\ l \notin GCHeld(n)
           /\ \A off \in Offset :
                /\ PhysPageOf(off) >= n.cur_vt_vpn.page
                /\ off \in n.block_list[blk].vbitmap
                /\ n.block_list[blk].spare[off] # RSP_INVALID_LPN
                => /\ n.block_list[blk].spare[off] \in HomeLPN
                   /\ map[n.block_list[blk].spare[off]] = Flash(b, blk, off)
           /\ \A l \in LPN, off \in Offset : map[l] = Flash(b, blk, off) /\ ~(PhysPageOf(off) >= n.cur_vt_vpn.page) =>
                l \in GCHeld(n)
<1>1. /\ n.cur_vt_vpn.page \in 0 .. PhysPages
      /\ n.victim_list # <<>> /\ blk = n.victim_list[Len(n.victim_list)]
  BY DEF BankFlash, Collecting, CurrentIsLast
<1>2. blk \in Block /\ blk \in Held(n, "victim")
  <2>1. Len(n.victim_list) \in 1 .. Len(n.victim_list)
    BY <1>1, OldestIsBlock
  <2> QED
    BY <1>1, <2>1, OldestIsBlock
<1>3. n.block_list[blk].vcount = Cardinality(Into(map, b, blk))
  <2>1. blk \notin Held(n, "free") /\ blk \notin Held(n, "GC")
    BY <1>2, HeldBlocks, ListsAre DEF BankInv
  <2> QED
    BY <1>2, <2>1 DEF BankFlash, VcountsRight
<1>4. \A off : Unread(n, blk, off) <=> PhysPageOf(off) >= n.cur_vt_vpn.page
  BY <1>2 DEF Unread, Reading
<1>5. \A l \in LPN, off \in Offset : map[l] = Flash(b, blk, off) => l \in HomeLPN
  <2> SUFFICES ASSUME NEW l \in LPN, NEW off \in Offset, map[l] = Flash(b, blk, off)
               PROVE  l \in HomeLPN
    OBVIOUS
  <2>1. InBank(map[l], b) /\ map[l].block = blk
    BY <1>2, FlashIsIn
  <2> QED
    BY <1>2, <2>1 DEF LPN
<1>6. \A off \in Offset : Unread(n, blk, off) =>
        LET info == n.block_list[blk]
        IN  /\ \A l \in LPN : map[l] = Flash(b, blk, off) =>
                    off \in info.vbitmap /\ (l \in HomeLPN => info.spare[off] = l)
            /\ off \in info.vbitmap /\ info.spare[off] # RSP_INVALID_LPN =>
                    \E l \in LPN : map[l] = Flash(b, blk, off)
  BY <1>2 DEF BankFlash, MarksTrue
<1>7. ASSUME NEW l \in LPN, NEW off \in Offset, map[l] = Flash(b, blk, off), PhysPageOf(off) >= n.cur_vt_vpn.page
      PROVE  /\ off \in n.block_list[blk].vbitmap /\ n.block_list[blk].spare[off] = l /\ l \in HomeLPN
             /\ l \notin GCHeld(n)
  <2>1. off \in n.block_list[blk].vbitmap /\ n.block_list[blk].spare[off] = l /\ l \in HomeLPN
    BY <1>4, <1>5, <1>6, <1>7
  <2>2. ASSUME l \in GCHeld(n)
        PROVE  FALSE
    <3>1. PICK k \in Held(n, "victim"), o \in Offset : map[l] = Flash(b, k, o) /\ ~Unread(n, k, o)
      BY <2>2 DEF BankFlash, Collecting, HeldIsRead
    <3>2. k \in Block
      BY <3>1, HeldBlocks, ListsAre DEF BankInv
    <3>3. k = blk /\ o = off
      <4>0. map[l] = Flash(b, blk, off)
        BY <1>7
      <4>1. map[l].block = blk /\ map[l].off = off
        BY <1>2, <4>0, FlashIsIn
      <4>2. map[l].block = k /\ map[l].off = o
        BY <3>1, <3>2, FlashIsIn
      <4> QED
        BY <4>1, <4>2
    <3> QED
      BY <1>4, <1>7, <3>1, <3>3
  <2> QED
    BY <2>1, <2>2
<1>8. ASSUME NEW off \in Offset, PhysPageOf(off) >= n.cur_vt_vpn.page, off \in n.block_list[blk].vbitmap,
             n.block_list[blk].spare[off] # RSP_INVALID_LPN
      PROVE  /\ n.block_list[blk].spare[off] \in HomeLPN
             /\ map[n.block_list[blk].spare[off]] = Flash(b, blk, off)
  <2>1. PICK l \in LPN : map[l] = Flash(b, blk, off)
    BY <1>4, <1>6, <1>8
  <2> QED
    BY <1>7, <1>8, <2>1
<1>9. ASSUME NEW l \in LPN, NEW off \in Offset, map[l] = Flash(b, blk, off), ~(PhysPageOf(off) >= n.cur_vt_vpn.page)
      PROVE  l \in GCHeld(n)
  BY <1>2, <1>4, <1>9 DEF BankFlash, Collecting, HeldIsRead
<1> QED
  BY <1>1, <1>2, <1>3, <1>7, <1>8, <1>9

\* A place is a half of its page.
LEMMA HalfOf ==
    ASSUME NEW off \in Offset
    PROVE  /\ PhysPageOf(off) \in 0 .. PhysPages - 1 /\ PhysPageOf(off) \in Nat
           /\ off \in {2 * PhysPageOf(off), 2 * PhysPageOf(off) + 1}
<1>1. PICK P \in Nat : P = PhysPages
  BY FlashFacts
<1>2. off \in 0 .. 2 * P - 1
  BY <1>1 DEF Offset
<1> QED
  BY <1>1, <1>2 DEF PhysPageOf

\* The other way round.
LEMMA HalvesOf ==
    ASSUME NEW page \in Nat
    PROVE  PhysPageOf(2 * page) = page /\ PhysPageOf(2 * page + 1) = page
BY DEF PhysPageOf

\* A queue without elements.
LEMMA Nothing == \A S : <<>> \in Seq(S) /\ Len(<<>>) = 0 /\ DOMAIN <<>> = {}
BY EmptySeq

\* No page is read.
LEMMA NothingRead ==
    ASSUME NEW b, NEW info, NEW blk, NEW map, NEW from, NEW page \in from .. PhysPages,
           \A l \in LPN, off \in Offset : map[l] = Flash(b, blk, off) => PhysPageOf(off) \notin from .. page - 1
    PROVE  IsRead(b, info, blk, map, from, page, <<>>)
BY Nothing DEF IsRead

\* What a round of the collector reads.
LEMMA ReadIs ==
    ASSUME NEW b \in Bank, NEW n, BankInv(n), NEW map, MapApart(map), BankFlash(b, n, map),
           \A s \in SlotLPN : InBank(map[s], b) => map[s].block \notin Held(n, "victim"),
           n.cur_vt_vpn # VC_MAX, NEW blk, blk = n.cur_vt_vpn.block,
           NEW info, info = n.block_list[blk],
           NEW marked, marked = {p \in n.cur_vt_vpn.page .. PhysPages - 1 : Halves(info, p) # {}},
           NEW more \in BOOLEAN,
           NEW offs, offs = IF more /\ marked # {} THEN Readable(info, Min(marked)) ELSE <<>>,
           NEW page, page = IF ~more THEN n.cur_vt_vpn.page
                            ELSE IF marked = {} THEN PhysPages ELSE Min(marked) + 1
    PROVE  IsRead(b, info, blk, map, n.cur_vt_vpn.page, page, offs)
<1> DEFINE from == n.cur_vt_vpn.page
<1>1. /\ blk \in Block /\ from \in 0 .. PhysPages /\ PhysPages \in Nat
      /\ \A l \in LPN, off \in Offset : map[l] = Flash(b, blk, off) /\ PhysPageOf(off) >= from =>
                off \in info.vbitmap /\ info.spare[off] = l /\ l \in HomeLPN
      /\ \A off \in Offset :
           PhysPageOf(off) >= from /\ off \in info.vbitmap /\ info.spare[off] # RSP_INVALID_LPN
           => info.spare[off] \in HomeLPN /\ map[info.spare[off]] = Flash(b, blk, off)
  BY UnreadIsMarked, FlashFacts
<1> HIDE DEF from
<1>2. \A l \in LPN, off \in Offset : map[l] = Flash(b, blk, off) /\ PhysPageOf(off) \in from .. PhysPages - 1 =>
          PhysPageOf(off) \in marked
  <2> SUFFICES ASSUME NEW l \in LPN, NEW off \in Offset, map[l] = Flash(b, blk, off),
                      PhysPageOf(off) \in from .. PhysPages - 1
               PROVE  Halves(info, PhysPageOf(off)) # {}
    BY DEF from
  <2>1. PhysPageOf(off) >= from
    BY <1>1, HalfOf
  <2>2. off \in info.vbitmap
    BY <1>1, <2>1
  <2> QED
    BY <2>2, HalfOf DEF Halves
<1>3. CASE ~more
  <2>1. offs = <<>> /\ page = from
    BY <1>3 DEF from
  <2>2. \A l \in LPN, off \in Offset : map[l] = Flash(b, blk, off) => PhysPageOf(off) \notin from .. page - 1
    BY <1>1, <2>1, HalfOf
  <2>3. page \in from .. PhysPages
    BY <1>1, <2>1
  <2> QED
    BY <2>1, <2>2, <2>3, NothingRead DEF from
<1>4. CASE more /\ marked = {}
  <2>1. offs = <<>> /\ page = PhysPages
    BY <1>4
  <2>2. \A l \in LPN, off \in Offset : map[l] = Flash(b, blk, off) => PhysPageOf(off) \notin from .. page - 1
    BY <1>2, <1>4, <2>1
  <2>3. page \in from .. PhysPages
    BY <1>1, <2>1
  <2> QED
    BY <2>1, <2>2, <2>3, NothingRead DEF from
<1>5. CASE more /\ marked # {}
  <2> DEFINE p == Min(marked)
  <2>1. /\ p \in marked /\ p \in Nat /\ from <= p /\ p < PhysPages
        /\ \A x \in marked : p <= x
        /\ 2 * p \in Offset /\ 2 * p + 1 \in Offset
    <3>1. marked \subseteq from .. PhysPages - 1 /\ from \in Nat
      BY <1>1 DEF from
    <3> QED
      BY <1>5, <3>1, MinIs
  <2> HIDE DEF p
  <2>2. offs = Readable(info, p) /\ page = p + 1
    BY <1>5 DEF p
  <2>3. /\ offs \in Seq(Offset) /\ Len(offs) <= 2
        /\ \A i, j \in DOMAIN offs : offs[i] = offs[j] => i = j
        /\ \A i \in DOMAIN offs : offs[i] \in {2 * p, 2 * p + 1}
                /\ offs[i] \in info.vbitmap /\ info.spare[offs[i]] # RSP_INVALID_LPN
        /\ \A off \in {2 * p, 2 * p + 1} : off \in info.vbitmap /\ info.spare[off] # RSP_INVALID_LPN =>
                \E i \in DOMAIN offs : offs[i] = off
    <3>1. p \in Nat /\ 2 * p \in Offset /\ 2 * p + 1 \in Offset
      BY <2>1
    <3>2. offs = Readable(info, p)
      BY <2>2
    <3> QED
      BY ONLY <3>1, <3>2, ReadableIs
  <2>4. from .. page - 1 = from .. p /\ from \in Nat
    BY <1>1, <2>1, <2>2
  <2>5. ASSUME NEW i \in DOMAIN offs
        PROVE  /\ PhysPageOf(offs[i]) \in from .. page - 1
               /\ info.spare[offs[i]] \in HomeLPN /\ map[info.spare[offs[i]]] = Flash(b, blk, offs[i])
    <3>1. PhysPageOf(offs[i]) = p
      <4>1. offs[i] \in {2 * p, 2 * p + 1}
        BY <2>3
      <4>2. PhysPageOf(2 * p) = p /\ PhysPageOf(2 * p + 1) = p
        BY <2>1, HalvesOf
      <4> QED
        BY <4>1, <4>2
    <3>2. offs[i] \in Offset /\ PhysPageOf(offs[i]) >= from
      BY <2>1, <2>3, <2>4, <3>1
    <3>3. info.spare[offs[i]] \in HomeLPN /\ map[info.spare[offs[i]]] = Flash(b, blk, offs[i])
      BY <1>1, <2>3, <3>2
    <3>4. p \in from .. p
      BY <2>1, <2>4
    <3> QED
      BY <2>4, <3>1, <3>3, <3>4
  <2>6. ASSUME NEW l \in LPN, NEW off \in Offset, map[l] = Flash(b, blk, off), PhysPageOf(off) \in from .. page - 1
        PROVE  \E i \in DOMAIN offs : offs[i] = off
    <3>1. PhysPageOf(off) \in from .. PhysPages - 1
      BY <2>1, <2>4, <2>6, HalfOf, <1>1
    <3>2. PhysPageOf(off) = p
      <4>1. PhysPageOf(off) \in marked
        BY <1>2, <2>6, <3>1
      <4>2. PhysPageOf(off) \in from .. p
        BY <2>4, <2>6
      <4>3. p <= PhysPageOf(off) /\ PhysPageOf(off) <= p /\ PhysPageOf(off) \in Nat
        BY <2>1, <2>4, <4>1, <4>2
      <4> QED
        BY <2>1, <4>3
    <3>3. off \in {2 * p, 2 * p + 1}
      BY <3>2, HalfOf
    <3>4. PhysPageOf(off) >= from
      BY <2>1, <2>4, <3>2
    <3>5. off \in info.vbitmap /\ info.spare[off] # RSP_INVALID_LPN
      BY <1>1, <2>6, <3>4, FlashFacts DEF LPN
    <3> QED
      BY <2>3, <3>3, <3>5
  <2>7. page \in from .. PhysPages
    BY <1>1, <2>1, <2>2, <2>4
  <2> QED
    BY <2>3, <2>5, <2>6, <2>7 DEF IsRead, from
<1> QED
  BY <1>3, <1>4, <1>5

\* What the collector's buffer holds then.
BufferedRead(q, spare, offs) == q \o [i \in DOMAIN offs |-> spare[offs[i]]]

LEMMA BufferRead ==
    ASSUME NEW q \in Seq(Home), NEW offs \in Seq(Offset), NEW spare, \A off \in Offset : spare[off] \in Home,
           NEW buffer, buffer = BufferedRead(q, spare, offs)
    PROVE  /\ buffer \in Seq(Home) /\ DOMAIN buffer = 1 .. Len(buffer)
           /\ Len(q) \in Nat /\ DOMAIN q = 1 .. Len(q)
           /\ Len(offs) \in Nat /\ DOMAIN offs = 1 .. Len(offs)
           /\ Len(buffer) = Len(q) + Len(offs)
           /\ \A i \in DOMAIN q : i \in DOMAIN buffer /\ buffer[i] = q[i]
           /\ \A i \in DOMAIN offs : Len(q) + i \in DOMAIN buffer /\ buffer[Len(q) + i] = spare[offs[i]]
           /\ \A i \in DOMAIN buffer : i \notin DOMAIN q =>
                i > Len(q) /\ i - Len(q) \in DOMAIN offs /\ buffer[i] = spare[offs[i - Len(q)]]
<1> DEFINE s == [i \in DOMAIN offs |-> spare[offs[i]]]
<1>1. q \in Seq(Home) /\ \A off \in Offset : spare[off] \in Home
  OBVIOUS
<1>2. Len(offs) \in Nat /\ DOMAIN offs = 1 .. Len(offs) /\ \A i \in DOMAIN offs : offs[i] \in Offset
  BY LenProperties, ElementOfSeq
<1>3. Len(q) \in Nat /\ DOMAIN q = 1 .. Len(q)
  BY <1>1, LenProperties
<1>4. s \in Seq(Home) /\ Len(s) = Len(offs) /\ \A i \in 1 .. Len(offs) : s[i] = spare[offs[i]]
  <2>1. s \in [1 .. Len(offs) -> Home]
    BY <1>1, <1>2
  <2>2. s \in Seq(Home)
    BY <1>2, <2>1, SeqDef
  <2>3. DOMAIN s = 1 .. Len(offs) /\ \A i \in 1 .. Len(offs) : s[i] = spare[offs[i]]
    BY <1>2
  <2> HIDE DEF s
  <2>4. Len(s) = Len(offs)
    BY <1>2, <2>2, <2>3, LenProperties
  <2> QED
    BY <2>2, <2>3, <2>4
<1>5. buffer = q \o s
  BY DEF BufferedRead
<1> HIDE DEF s
<1>6. /\ buffer \in Seq(Home) /\ Len(buffer) = Len(q) + Len(offs)
      /\ \A i \in 1 .. Len(q) + Len(offs) : buffer[i] = IF i <= Len(q) THEN q[i] ELSE s[i - Len(q)]
  <2>1. q \in Seq(Home) /\ s \in Seq(Home) /\ Len(s) = Len(offs)
    BY <1>1, <1>4
  <2>2. /\ q \o s \in Seq(Home) /\ Len(q \o s) = Len(q) + Len(s)
        /\ \A i \in 1 .. Len(q) + Len(s) : (q \o s)[i] = IF i <= Len(q) THEN q[i] ELSE s[i - Len(q)]
    BY <2>1, ConcatProperties
  <2> QED
    BY <1>5, <2>1, <2>2
<1>7. DOMAIN buffer = 1 .. Len(buffer)
  BY <1>6, LenProperties
<1>8. \A i \in DOMAIN q : i \in DOMAIN buffer /\ buffer[i] = q[i]
  BY <1>2, <1>3, <1>6, <1>7
<1>9. \A i \in DOMAIN offs : Len(q) + i \in DOMAIN buffer /\ buffer[Len(q) + i] = spare[offs[i]]
  <2> SUFFICES ASSUME NEW i \in 1 .. Len(offs)
               PROVE  Len(q) + i \in DOMAIN buffer /\ buffer[Len(q) + i] = spare[offs[i]]
    BY <1>2
  <2>1. Len(q) + i \in 1 .. Len(q) + Len(offs) /\ ~(Len(q) + i <= Len(q)) /\ (Len(q) + i) - Len(q) = i
    BY <1>2, <1>3
  <2>2. buffer[Len(q) + i] = s[i]
    BY <1>6, <2>1
  <2> QED
    BY <1>4, <1>6, <1>7, <2>1, <2>2
<1>10. \A i \in DOMAIN buffer : i \notin DOMAIN q =>
            i > Len(q) /\ i - Len(q) \in DOMAIN offs /\ buffer[i] = spare[offs[i - Len(q)]]
  <2> SUFFICES ASSUME NEW i \in DOMAIN buffer, i \notin DOMAIN q
               PROVE  i > Len(q) /\ i - Len(q) \in DOMAIN offs /\ buffer[i] = spare[offs[i - Len(q)]]
    OBVIOUS
  <2> DEFINE j == i - Len(q)
  <2>1. j \in DOMAIN offs /\ i > Len(q) /\ Len(q) + j = i
    BY <1>2, <1>3, <1>6, <1>7
  <2> QED
    BY <1>9, <2>1
<1> QED
  BY <1>2, <1>3, <1>6, <1>7, <1>8, <1>9, <1>10

\* The fields of a bank that reading leaves alone.
ReadField == {"GC_BLK", "cur_write_vpn", "write_start", "data_list", "free_list", "victim_list", "cur_gc_vpn",
              "block_list"}

\* The pages of the current victim up to page `page' are read into the buffer.
LEMMA ReadFlash ==
    ASSUME NEW b \in Bank, NEW n, BankInv(n), NEW map, MapApart(map), BankFlash(b, n, map),
           \A s \in SlotLPN : InBank(map[s], b) => map[s].block \notin Held(n, "victim"),
           n.cur_vt_vpn # VC_MAX, NEW blk, blk = n.cur_vt_vpn.block,
           NEW page, NEW offs, IsRead(b, n.block_list[blk], blk, map, n.cur_vt_vpn.page, page, offs),
           NEW m, SameFields(n, m, ReadField),
           m.GCbuf_lpn = BufferedRead(n.GCbuf_lpn, n.block_list[blk].spare, offs),
           m.num_gcbuffed = n.num_gcbuffed + Len(offs),
           m.cur_vt_vpn = [block |-> blk, page |-> page]
    PROVE  /\ BankFlash(b, m, map) /\ Holes(m) = Holes(n) /\ m.cur_vt_vpn # VC_MAX
           /\ \A i \in DOMAIN m.GCbuf_lpn : i \notin DOMAIN n.GCbuf_lpn => m.GCbuf_lpn[i] \in Into(map, b, blk)
<1> DEFINE q == n.GCbuf_lpn
           buffer == m.GCbuf_lpn
           spare == n.block_list[blk].spare
           from == n.cur_vt_vpn.page
           New == {spare[offs[i]] : i \in DOMAIN offs}
<1>1. /\ m.GC_BLK = n.GC_BLK /\ m.cur_write_vpn = n.cur_write_vpn /\ m.write_start = n.write_start
      /\ m.data_list = n.data_list /\ m.free_list = n.free_list /\ m.victim_list = n.victim_list
      /\ m.cur_gc_vpn = n.cur_gc_vpn /\ m.block_list = n.block_list
  BY DEF SameFields, ReadField
<1>2. /\ Held(m, "free") = Held(n, "free") /\ Held(m, "victim") = Held(n, "victim")
      /\ Held(m, "GC") = Held(n, "GC") /\ Held(m, "data") = Held(n, "data")
  BY <1>1, ListsAre DEF Held
<1>3. /\ blk \in Block /\ blk \in Held(n, "victim") /\ from \in 0 .. PhysPages
      /\ \A l \in LPN, off \in Offset : map[l] = Flash(b, blk, off) /\ PhysPageOf(off) >= from =>
            l \in HomeLPN /\ l \notin GCHeld(n)
  BY UnreadIsMarked
<1>4. /\ offs \in Seq(Offset) /\ Len(offs) <= 2
      /\ \A i, j \in DOMAIN offs : offs[i] = offs[j] => i = j
      /\ \A i \in DOMAIN offs :
          /\ PhysPageOf(offs[i]) \in from .. page - 1
          /\ spare[offs[i]] \in HomeLPN /\ map[spare[offs[i]]] = Flash(b, blk, offs[i])
      /\ \A l \in LPN, off \in Offset :
              map[l] = Flash(b, blk, off) /\ PhysPageOf(off) \in from .. page - 1 =>
                  \E i \in DOMAIN offs : offs[i] = off
      /\ page \in from .. PhysPages
  BY DEF IsRead
<1>5. /\ buffer \in Seq(Home) /\ DOMAIN buffer = 1 .. Len(buffer)
      /\ Len(q) \in Nat /\ DOMAIN q = 1 .. Len(q)
      /\ Len(offs) \in Nat /\ DOMAIN offs = 1 .. Len(offs)
      /\ Len(buffer) = Len(q) + Len(offs)
      /\ \A i \in DOMAIN q : i \in DOMAIN buffer /\ buffer[i] = q[i]
      /\ \A i \in DOMAIN offs :
           /\ Len(q) + i \in DOMAIN buffer
           /\ buffer[Len(q) + i] = spare[offs[i]]
      /\ \A i \in DOMAIN buffer : i \notin DOMAIN q =>
           /\ i > Len(q) /\ i - Len(q) \in DOMAIN offs
           /\ buffer[i] = spare[offs[i - Len(q)]]
  <2>1. /\ q \in Seq(Home) /\ \A off \in Offset : spare[off] \in Home
        /\ buffer = BufferedRead(q, spare, offs) /\ offs \in Seq(Offset)
    BY <1>3, <1>4 DEF BankInv, HomeOnly
  <2> HIDE DEF q, spare, buffer
  <2> QED
    BY <2>1, BufferRead
<1>6. PhysPages \in Nat /\ page \in 0 .. PhysPages /\ page >= from /\ page \in Nat /\ from \in Nat
  BY <1>3, <1>4, FlashFacts
<1> HIDE DEF q, buffer, spare, from
<1>7. \A i \in DOMAIN offs : offs[i] \in Offset
  BY <1>4, ElementOfSeq, LenProperties
<1>8. \A x \in New : x \in LPN /\ x \in HomeLPN /\ x # RSP_INVALID_LPN /\ x \notin GCHeld(n) /\ x \in Into(map, b, blk)
  <2> SUFFICES ASSUME NEW i \in DOMAIN offs
               PROVE  LET x == spare[offs[i]]
                      IN  x \in LPN /\ x \in HomeLPN /\ x # RSP_INVALID_LPN /\ x \notin GCHeld(n) /\ x \in Into(map, b, blk)
    OBVIOUS
  <2> DEFINE x == spare[offs[i]]
  <2>1. x \in HomeLPN /\ map[x] = Flash(b, blk, offs[i]) /\ offs[i] \in Offset /\ PhysPageOf(offs[i]) \in from .. page - 1
    BY <1>4, <1>7
  <2>2. x \in LPN /\ x # RSP_INVALID_LPN
    BY <2>1, FlashFacts DEF LPN
  <2>3. PhysPageOf(offs[i]) >= from
    BY <1>6, <2>1
  <2>4. x \notin GCHeld(n)
    BY <1>3, <2>1, <2>2, <2>3
  <2>5. x \in Into(map, b, blk)
    BY <1>3, <2>1, <2>2, FlashIsIn DEF Into
  <2> QED
    BY <2>1, <2>2, <2>4, <2>5
<1>9. \A i \in DOMAIN buffer : i \notin DOMAIN q => buffer[i] \in New
  BY <1>5
<1>10. GCHeld(m) = GCHeld(n) \cup New
  <2>1. \A l \in LPN : l \in GCHeld(m) <=> \E i \in DOMAIN buffer : buffer[i] = l
    BY DEF GCHeld, buffer
  <2>2. \A l \in LPN : l \in GCHeld(n) <=> \E i \in DOMAIN q : q[i] = l
    BY DEF GCHeld, q
  <2>3. GCHeld(m) \subseteq LPN /\ GCHeld(n) \subseteq LPN
    BY DEF GCHeld
  <2>4. ASSUME NEW l \in LPN, l \in GCHeld(m) PROVE l \in GCHeld(n) \cup New
    <3>1. PICK i \in DOMAIN buffer : buffer[i] = l
      BY <2>1, <2>4
    <3>2. CASE i \in DOMAIN q
      BY <1>5, <2>2, <3>1, <3>2
    <3>3. CASE i \notin DOMAIN q
      BY <1>9, <3>1, <3>3
    <3> QED
      BY <3>2, <3>3
  <2>5. ASSUME NEW l \in LPN, l \in GCHeld(n) PROVE l \in GCHeld(m)
    <3>1. PICK i \in DOMAIN q : q[i] = l
      BY <2>2, <2>5
    <3>2. i \in DOMAIN buffer /\ buffer[i] = l
      BY <1>5, <3>1
    <3> QED
      BY <2>1, <3>2
  <2>6. ASSUME NEW l \in New PROVE l \in GCHeld(m)
    <3>1. PICK i \in DOMAIN offs : l = spare[offs[i]]
      OBVIOUS
    <3>2. Len(q) + i \in DOMAIN buffer /\ buffer[Len(q) + i] = l
      BY <1>5, <3>1
    <3>3. l \in LPN
      BY <1>8
    <3> QED
      BY <2>1, <3>2, <3>3
  <2> HIDE DEF New
  <2> QED
    BY <2>3, <2>4, <2>5, <2>6
<1>11. HeldOnce(m)
  <2> SUFFICES ASSUME NEW i \in DOMAIN buffer, NEW j \in DOMAIN buffer, buffer[i] = buffer[j], i # j
               PROVE  buffer[i] = RSP_INVALID_LPN
    BY DEF HeldOnce, buffer
  <2>1. CASE i \in DOMAIN q /\ j \in DOMAIN q
    <3>1. q[i] = q[j]
      BY <1>5, <2>1
    <3>2. q[i] = RSP_INVALID_LPN
      BY <2>1, <3>1 DEF BankFlash, Collecting, HeldOnce, q
    <3> QED
      BY <1>5, <2>1, <3>2
  <2>2. CASE i \in DOMAIN q /\ j \notin DOMAIN q
    <3>1. buffer[j] \in New /\ q[i] = buffer[j]
      BY <1>5, <1>9, <2>2
    <3>2. q[i] \in GCHeld(n)
      BY <1>8, <2>2, <3>1 DEF GCHeld, q
    <3> QED
      BY <1>8, <3>1, <3>2
  <2>3. CASE i \notin DOMAIN q /\ j \in DOMAIN q
    <3>1. buffer[i] \in New /\ q[j] = buffer[i]
      BY <1>5, <1>9, <2>3
    <3>2. q[j] \in GCHeld(n)
      BY <1>8, <2>3, <3>1 DEF GCHeld, q
    <3> QED
      BY <1>8, <3>1, <3>2
  <2>4. CASE i \notin DOMAIN q /\ j \notin DOMAIN q
    <3> DEFINE x == i - Len(q)
               y == j - Len(q)
    <3>1. x \in DOMAIN offs /\ y \in DOMAIN offs /\ buffer[i] = spare[offs[x]] /\ buffer[j] = spare[offs[y]]
      BY <1>5, <2>4
    <3>2. x # y
      BY <1>5
    <3> HIDE DEF x, y
    <3>3. Flash(b, blk, offs[x]) = Flash(b, blk, offs[y])
      <4>1. map[buffer[i]] = Flash(b, blk, offs[x]) /\ map[buffer[j]] = Flash(b, blk, offs[y])
        BY <1>4, <3>1
      <4> QED
        BY <4>1
    <3>4. offs[x] = offs[y]
      BY <3>3 DEF Flash
    <3> QED
      BY <1>4, <3>1, <3>2, <3>4
  <2> QED
    BY <2>1, <2>2, <2>3, <2>4
<1> HIDE DEF New
<1>12. \A k \in Block, off \in Offset : Unread(m, k, off) <=>
            Unread(n, k, off) /\ (k = blk => PhysPageOf(off) >= page)
  <2> SUFFICES ASSUME NEW k \in Block, NEW off \in Offset
               PROVE  Unread(m, k, off) <=> Unread(n, k, off) /\ (k = blk => PhysPageOf(off) >= page)
    OBVIOUS
  <2>1. n.cur_vt_vpn.block = blk /\ n.cur_vt_vpn.page = from /\ m.cur_vt_vpn.block = blk /\ m.cur_vt_vpn.page = page
    BY DEF from
  <2>2. m.cur_vt_vpn # VC_MAX
    BY <1>3, <1>6, RecordIsPlace
  <2>3. PhysPageOf(off) \in Nat
    BY HalfOf
  <2>4. CASE k = blk
    <3>1. Unread(m, k, off) <=> PhysPageOf(off) >= page
      BY <1>2, <1>3, <2>1, <2>2, <2>4 DEF Unread, Reading
    <3>2. Unread(n, k, off) <=> PhysPageOf(off) >= from
      BY <1>3, <2>1, <2>4 DEF Unread, Reading
    <3> QED
      BY <1>6, <2>3, <2>4, <3>1, <3>2
  <2>5. CASE k # blk
    BY <1>2, <2>1, <2>5 DEF Unread, Reading
  <2> QED
    BY <2>4, <2>5
<1>13. VcountsRight(b, m, map) /\ FreeIsEmpty(b, m, map)
  BY <1>1, <1>2 DEF BankFlash, VcountsRight, FreeIsEmpty
<1>14. MarksTrue(b, m, map)
  BY <1>1, <1>12 DEF BankFlash, MarksTrue
<1>15. Held(n, "victim") \subseteq Block
  BY HeldBlocks, ListsAre DEF BankInv
<1>16. HeldIsRead(b, m, map)
  <2> SUFFICES ASSUME NEW l \in LPN
               PROVE  l \in GCHeld(m) <=>
                        \E k \in Held(m, "victim"), off \in Offset : map[l] = Flash(b, k, off) /\ ~Unread(m, k, off)
    BY DEF HeldIsRead
  <2>1. l \in GCHeld(n) <=> \E k \in Held(n, "victim"), off \in Offset : map[l] = Flash(b, k, off) /\ ~Unread(n, k, off)
    BY DEF BankFlash, Collecting, HeldIsRead
  <2>2. ASSUME l \in GCHeld(m)
        PROVE  \E k \in Held(m, "victim"), off \in Offset : map[l] = Flash(b, k, off) /\ ~Unread(m, k, off)
    <3>1. CASE l \in GCHeld(n)
      BY <1>2, <1>12, <1>15, <2>1, <3>1
    <3>2. CASE l \in New
      <4>1. PICK i \in DOMAIN offs : l = spare[offs[i]]
        BY <3>2 DEF New
      <4>2. map[l] = Flash(b, blk, offs[i]) /\ PhysPageOf(offs[i]) \in from .. page - 1 /\ offs[i] \in Offset
        BY <1>4, <1>7, <4>1
      <4>3. ~(PhysPageOf(offs[i]) >= page)
        BY <1>6, <4>2
      <4>4. ~Unread(m, blk, offs[i])
        BY <1>3, <1>12, <4>2, <4>3
      <4> QED
        BY <1>2, <1>3, <4>2, <4>4
    <3> QED
      BY <1>10, <2>2, <3>1, <3>2
  <2>3. ASSUME NEW k \in Held(m, "victim"), NEW off \in Offset, map[l] = Flash(b, k, off), ~Unread(m, k, off)
        PROVE  l \in GCHeld(m)
    <3>1. k \in Held(n, "victim") /\ k \in Block
      BY <1>2, <1>15, <2>3
    <3>2. CASE ~Unread(n, k, off)
      BY <1>10, <2>1, <2>3, <3>1, <3>2
    <3>3. CASE Unread(n, k, off)
      <4>1. k = blk /\ ~(PhysPageOf(off) >= page)
        BY <1>12, <2>3, <3>1, <3>3
      <4>2. PhysPageOf(off) >= from /\ PhysPageOf(off) \in Nat
        <5>1. n.cur_vt_vpn.page = from
          BY DEF from
        <5> QED
          BY <1>3, <3>3, <4>1, <5>1, HalfOf DEF Unread
      <4>3. PhysPageOf(off) \in from .. page - 1
        BY <1>6, <4>1, <4>2
      <4>4. PICK i \in DOMAIN offs : offs[i] = off
        BY <1>4, <2>3, <4>1, <4>3
      <4>5. map[spare[off]] = map[l] /\ spare[off] \in New /\ spare[off] \in LPN
        <5>1. map[spare[off]] = Flash(b, blk, off)
          BY <1>4, <4>4
        <5>2. spare[off] \in New
          BY <4>4 DEF New
        <5> QED
          BY <1>8, <2>3, <4>1, <5>1, <5>2
      <4>6. InFlash(map[l])
        <5>1. map[l] = Flash(b, blk, off)
          BY <2>3, <4>1
        <5> QED
          BY <1>3, <5>1, FlashIsIn
      <4>7. spare[off] = l
        BY <4>5, <4>6 DEF MapApart
      <4> QED
        BY <1>10, <4>5, <4>7
    <3> QED
      BY <3>2, <3>3
  <2> QED
    BY <2>2, <2>3
<1>17. \A k \in Held(m, "victim") : m.block_list[k].vcount <= MaxVcount
  BY <1>1, <1>2 DEF BankFlash, Collecting
<1>18. n.num_gcbuffed \in Nat /\ m.num_gcbuffed \in Nat
  BY <1>5 DEF BankFlash, Collecting
<1>19. IsFiniteSet(New) /\ Cardinality(New) = Len(offs)
  <2> DEFINE f == [i \in DOMAIN offs |-> spare[offs[i]]]
  <2>1. IsFiniteSet(DOMAIN offs) /\ Cardinality(DOMAIN offs) = Len(offs)
    <3> DEFINE k == Len(offs)
    <3>1. k \in Nat /\ DOMAIN offs = 1 .. k
      BY <1>5
    <3> HIDE DEF k
    <3>2. IsFiniteSet(1 .. k) /\ Cardinality(1 .. k) = IF 1 > k THEN 0 ELSE k - 1 + 1
      BY <3>1, FS_Interval
    <3> QED
      BY <3>1, <3>2 DEF k
  <2>2. f \in [DOMAIN offs -> New] /\ \A x \in New : \E i \in DOMAIN offs : f[i] = x
    BY DEF New
  <2>3. \A x, y \in DOMAIN offs : f[x] = f[y] => x = y
    <3> SUFFICES ASSUME NEW x \in DOMAIN offs, NEW y \in DOMAIN offs, spare[offs[x]] = spare[offs[y]]
                 PROVE  x = y
      OBVIOUS
    <3>3. Flash(b, blk, offs[x]) = Flash(b, blk, offs[y])
      BY <1>4
    <3>4. offs[x] = offs[y]
      BY <3>3 DEF Flash
    <3> QED
      BY <1>4, <3>4
  <2> DEFINE D == DOMAIN offs
  <2> HIDE DEF f, D
  <2>4. IsFiniteSet(D) /\ f \in [D -> New] /\ (\A x, y \in D : f[x] = f[y] => x = y) /\ \A x \in New : \E i \in D : f[i] = x
    BY <2>1, <2>2, <2>3 DEF D
  <2>5. IsFiniteSet(New) /\ Cardinality(New) = Cardinality(D)
    BY ONLY <2>4, BijectionCounted
  <2> QED
    BY <2>1, <2>5 DEF D
<1>20. CurrentIsLast(b, m, map)
  <2>1. /\ n.victim_list # <<>> /\ n.cur_vt_vpn.block = n.victim_list[Len(n.victim_list)]
        /\ n.num_gcbuffed = Cardinality(GCHeld(n) \cap Into(map, b, blk))
    BY DEF BankFlash, Collecting, CurrentIsLast
  <2> DEFINE A == GCHeld(n) \cap Into(map, b, blk)
  <2>2. IsFiniteSet(A)
    BY IntoFinite, FS_Intersection
  <2>3. GCHeld(m) \cap Into(map, b, blk) = A \cup New /\ A \cap New = {}
    BY <1>8, <1>10
  <2> HIDE DEF A
  <2>4. Cardinality(A \cup New) = Cardinality(A) + Cardinality(New) - Cardinality(A \cap New)
    BY <1>19, <2>2, FS_Union
  <2>5. Cardinality(A \cap New) = 0
    BY <2>3, FS_EmptySet
  <2>6. Cardinality(A) = n.num_gcbuffed
    BY <2>1 DEF A
  <2>7. m.num_gcbuffed = Cardinality(GCHeld(m) \cap Into(map, b, blk))
    <3>1. Cardinality(A \cup New) = n.num_gcbuffed + Len(offs)
      BY <1>5, <1>18, <1>19, <2>4, <2>5, <2>6
    <3> QED
      BY <2>3, <3>1
  <2> QED
    BY <1>1, <1>6, <2>1, <2>7 DEF CurrentIsLast
<1>21. Collecting(b, m, map)
  BY <1>11, <1>16, <1>17, <1>18, <1>20 DEF Collecting
<1>22. WritesFresh(b, m, map)
  BY <1>1, <1>2 DEF BankFlash, WritesFresh, Filling, NextPage
<1>23. CollectorFresh(b, m, map)
  BY <1>1, <1>2 DEF BankFlash, CollectorFresh, Filling
<1>24. BankFlash(b, m, map)
  BY <1>13, <1>14, <1>21, <1>22, <1>23 DEF BankFlash
<1>25. Holes(m) = Holes(n)
  <2>1. \A i \in DOMAIN buffer : buffer[i] = RSP_INVALID_LPN => i \in DOMAIN q
    BY <1>8, <1>9
  <2> QED
    BY <1>5, <2>1 DEF Holes, buffer, q
<1>26. \A i \in DOMAIN m.GCbuf_lpn : i \notin DOMAIN n.GCbuf_lpn => m.GCbuf_lpn[i] \in Into(map, b, blk)
  BY <1>8, <1>9 DEF buffer, q
<1>27. m.cur_vt_vpn # VC_MAX
  BY <1>3, <1>6, RecordIsPlace
<1> QED
  BY <1>24, <1>25, <1>26, <1>27

-----------------------------------------------------------------------------
(***************************************************************************)
(* The end of a round.                                                     *)
(***************************************************************************)
\* A victim has as many pages as a program but its last page: what it writes is
\* less than one program behind.
LEMMA MaxVcountIs ==
    /\ MaxVcount = LAST * SuperPage /\ MaxVcount \in Nat
    /\ \A page \in Nat : page * SuperPage \in Nat
            /\ (page + 1) * SuperPage = page * SuperPage + SuperPage
            /\ (page * SuperPage < MaxVcount => page < LAST)
<1>1. /\ PLANES_PER_BANK \in Nat /\ PAGES_PER_BLK \in Nat /\ LAST \in Nat
      /\ SuperPage \in Nat /\ SuperPage > 0 /\ PAGES_PER_BLK = LAST + 1
  BY FlashFacts DEF LAST
<1>2. PhysPages = PLANES_PER_BANK * LAST + PLANES_PER_BANK
  BY <1>1 DEF PhysPages
<1>3. LAST * SuperPage = 2 * (PLANES_PER_BANK * LAST)
  BY <1>1 DEF SuperPage
<1>4. PLANES_PER_BANK * LAST \in Nat
  BY <1>1
<1>5. MaxVcount = LAST * SuperPage /\ MaxVcount \in Nat
  BY <1>1, <1>2, <1>3, <1>4 DEF MaxVcount, SuperPage
<1>6. ASSUME NEW page \in Nat
      PROVE  page * SuperPage \in Nat /\ (page + 1) * SuperPage = page * SuperPage + SuperPage
  BY <1>1
<1>7. ASSUME NEW page \in Nat, page * SuperPage < MaxVcount, ~(page < LAST)
      PROVE  FALSE
  <2>1. PICK e \in Nat : page = LAST + e
    <3>1. page - LAST \in Nat /\ page = LAST + (page - LAST)
      BY <1>1, <1>7
    <3> QED
      BY <3>1
  <2>2. page * SuperPage = LAST * SuperPage + e * SuperPage
    BY <1>1, <2>1
  <2>3. e * SuperPage \in Nat /\ LAST * SuperPage \in Nat
    BY <1>1
  <2> QED
    BY <1>5, <1>7, <2>2, <2>3
<1> QED
  BY <1>5, <1>6, <1>7

\* What reading a victim does not change.
EndField == {"GC_BLK", "cur_write_vpn", "write_start", "data_list", "free_list", "victim_list",
             "cur_gc_vpn", "block_list", "GCbuf_lpn", "num_gcbuffed"}

\* The victim is left when all of it is read, and all of it is in the buffer then.
LEMMA EndFlash ==
    ASSUME NEW b \in Bank, NEW n, BankInv(n), NEW map, MapApart(map), BankFlash(b, n, map),
           n.cur_vt_vpn # VC_MAX, NEW vcount, vcount = n.block_list[n.cur_vt_vpn.block].vcount,
           NEW m, SameFields(n, m, EndField),
           m.cur_vt_vpn = IF n.num_gcbuffed # vcount /\ n.cur_vt_vpn.page # PhysPages THEN n.cur_vt_vpn ELSE VC_MAX
    PROVE  /\ BankFlash(b, m, map)
           /\ ReserveIsBack(n) => ReserveIsBack(m)
           /\ m.cur_vt_vpn # VC_MAX => m.cur_vt_vpn.page < PhysPages
           /\ n.cur_vt_vpn.page = PhysPages => n.num_gcbuffed = vcount
<1> DEFINE blk == n.cur_vt_vpn.block
           from == n.cur_vt_vpn.page
           A == GCHeld(n) \cap Into(map, b, blk)
<1>1. /\ m.GC_BLK = n.GC_BLK /\ m.cur_write_vpn = n.cur_write_vpn /\ m.write_start = n.write_start
      /\ m.data_list = n.data_list /\ m.free_list = n.free_list /\ m.victim_list = n.victim_list
      /\ m.cur_gc_vpn = n.cur_gc_vpn /\ m.block_list = n.block_list
      /\ m.GCbuf_lpn = n.GCbuf_lpn /\ m.num_gcbuffed = n.num_gcbuffed
  BY DEF SameFields, EndField
<1>2. /\ Held(m, "free") = Held(n, "free") /\ Held(m, "victim") = Held(n, "victim")
      /\ Held(m, "GC") = Held(n, "GC") /\ Held(m, "data") = Held(n, "data")
      /\ GCHeld(m) = GCHeld(n)
  BY <1>1, ListsAre DEF Held, GCHeld
<1>3. /\ from \in 0 .. PhysPages
      /\ n.victim_list # <<>> /\ blk = n.victim_list[Len(n.victim_list)]
      /\ n.num_gcbuffed = Cardinality(A)
  BY DEF BankFlash, Collecting, CurrentIsLast
<1>4. blk \in Block /\ blk \in Held(n, "victim")
  <2>1. Len(n.victim_list) \in 1 .. Len(n.victim_list)
    BY <1>3, OldestIsBlock
  <2> QED
    BY <1>3, <2>1, OldestIsBlock
<1>5. vcount = Cardinality(Into(map, b, blk)) /\ vcount \in Nat
  <2>1. blk \notin Held(n, "free") /\ blk \notin Held(n, "GC")
    BY <1>4, HeldBlocks, ListsAre DEF BankInv
  <2> QED
    BY <1>4, <2>1 DEF BankFlash, VcountsRight
<1>6. \A l \in LPN : l \in GCHeld(n) <=>
          \E k \in Held(n, "victim"), off \in Offset : map[l] = Flash(b, k, off) /\ ~Unread(n, k, off)
  BY DEF BankFlash, Collecting, HeldIsRead
<1>7. ASSUME from = PhysPages
      PROVE  Into(map, b, blk) \subseteq GCHeld(n)
  <2> SUFFICES ASSUME NEW l \in Into(map, b, blk)
               PROVE  l \in GCHeld(n)
    OBVIOUS
  <2>1. l \in LPN /\ map[l] = Flash(b, blk, map[l].off) /\ map[l].off \in Offset
    BY PlaceIs DEF Into
  <2>2. PhysPageOf(map[l].off) \in 0 .. PhysPages - 1 /\ PhysPages \in Nat
    BY <2>1, HalfOf, FlashFacts
  <2>3. ~Unread(n, blk, map[l].off)
    BY <1>4, <1>7, <2>2 DEF Unread
  <2> QED
    BY <1>4, <1>6, <2>1, <2>3
<1>8. IsFiniteSet(Into(map, b, blk))
  BY IntoFinite
<1>9. ASSUME n.num_gcbuffed = vcount
      PROVE  Into(map, b, blk) \subseteq GCHeld(n)
  <2> DEFINE I == Into(map, b, blk)
  <2>1. A \in SUBSET I /\ Cardinality(A) = Cardinality(I)
    BY <1>3, <1>5, <1>9
  <2>2. IsFiniteSet(I)
    BY <1>8
  <2> HIDE DEF I, A
  <2>3. I = A
    BY <2>1, <2>2, FS_Subset
  <2> QED
    BY <2>3 DEF I, A
<1>10. from = PhysPages => n.num_gcbuffed = vcount
  <2>1. from = PhysPages => A = Into(map, b, blk)
    BY <1>7
  <2> QED
    BY <1>3, <1>5, <2>1
<1>11. m.cur_vt_vpn = VC_MAX => Into(map, b, blk) \subseteq GCHeld(n)
  BY <1>7, <1>9
<1>12. m.cur_vt_vpn # VC_MAX => m.cur_vt_vpn = n.cur_vt_vpn /\ from # PhysPages
  OBVIOUS
<1> HIDE DEF A, from
<1>13. m.cur_vt_vpn # VC_MAX => m.cur_vt_vpn.page < PhysPages
  BY <1>3, <1>12, FlashFacts DEF from
<1>14. \A k, off : Unread(m, k, off) => Unread(n, k, off)
  BY <1>2, <1>12 DEF Unread, Reading
<1>15. \A k, off : Unread(n, k, off) /\ ~Unread(m, k, off) => k = blk /\ m.cur_vt_vpn = VC_MAX
  BY <1>2, <1>12 DEF Unread, Reading
<1>16. VcountsRight(b, m, map) /\ FreeIsEmpty(b, m, map)
  BY <1>1, <1>2 DEF BankFlash, VcountsRight, FreeIsEmpty
<1>17. MarksTrue(b, m, map)
  BY <1>1, <1>14 DEF BankFlash, MarksTrue
<1>18. Held(n, "victim") \subseteq Block
  BY HeldBlocks, ListsAre DEF BankInv
<1>19. HeldIsRead(b, m, map)
  <2> SUFFICES ASSUME NEW l \in LPN
               PROVE  l \in GCHeld(n) <=>
                        \E k \in Held(n, "victim"), off \in Offset : map[l] = Flash(b, k, off) /\ ~Unread(m, k, off)
    BY <1>2 DEF HeldIsRead
  <2>1. ASSUME l \in GCHeld(n)
        PROVE  \E k \in Held(n, "victim"), off \in Offset : map[l] = Flash(b, k, off) /\ ~Unread(m, k, off)
    BY <1>6, <1>14, <2>1
  <2>2. ASSUME NEW k \in Held(n, "victim"), NEW off \in Offset, map[l] = Flash(b, k, off), ~Unread(m, k, off)
        PROVE  l \in GCHeld(n)
    <3>1. CASE ~Unread(n, k, off)
      BY <1>6, <2>2, <3>1
    <3>2. CASE Unread(n, k, off)
      <4>1. k = blk /\ m.cur_vt_vpn = VC_MAX
        BY <1>15, <2>2, <3>2
      <4>2. map[l] = Flash(b, blk, off)
        BY <2>2, <4>1
      <4>3. l \in Into(map, b, blk)
        <5>1. InBlock(map[l], b, blk)
          BY <1>4, <4>2, FlashIsIn
        <5> QED
          BY <5>1 DEF Into
      <4> QED
        BY <1>11, <4>1, <4>3
    <3> QED
      BY <3>1, <3>2
  <2> QED
    BY <2>1, <2>2
<1>20. CurrentIsLast(b, m, map)
  BY <1>1, <1>2, <1>12 DEF BankFlash, Collecting, CurrentIsLast
<1>21. Collecting(b, m, map)
  <2>1. HeldOnce(m)
    BY <1>1 DEF BankFlash, Collecting, HeldOnce
  <2>2. \A k \in Held(m, "victim") : m.block_list[k].vcount <= MaxVcount
    BY <1>1, <1>2 DEF BankFlash, Collecting
  <2>3. m.num_gcbuffed \in Nat
    BY <1>1 DEF BankFlash, Collecting
  <2> QED
    BY <1>19, <1>20, <2>1, <2>2, <2>3 DEF Collecting
<1>22. WritesFresh(b, m, map)
  BY <1>1, <1>2 DEF BankFlash, WritesFresh, Filling, NextPage
<1>23. CollectorFresh(b, m, map)
  BY <1>1, <1>2 DEF BankFlash, CollectorFresh, Filling
<1>24. BankFlash(b, m, map)
  BY <1>16, <1>17, <1>21, <1>22, <1>23 DEF BankFlash
<1>25. ASSUME ReserveIsBack(n), m.GC_BLK = VC_MAX
       PROVE  ReserveIsBack(m)
  <2> DEFINE oldest == n.victim_list[1]
             v == n.block_list[oldest].vcount
             page == n.cur_gc_vpn.page
             h == Cardinality(Holes(n))
  <2>1. /\ n.cur_gc_vpn # VC_MAX /\ n.victim_list # <<>>
        /\ v # 0 => IF Reading(n, oldest) THEN v + h + page * SuperPage <= MaxVcount ELSE page < LAST
    BY <1>1, <1>25 DEF ReserveIsBack
  <2>2. Holes(m) = Holes(n)
    BY <1>1 DEF Holes
  <2>3. CASE Reading(m, oldest) <=> Reading(n, oldest)
    BY <1>1, <2>1, <2>2, <2>3 DEF ReserveIsBack
  <2>4. CASE v # 0 /\ ~Reading(m, oldest) /\ Reading(n, oldest)
    <3>1. v \in Nat /\ h \in Nat /\ page \in Nat
      <4>1. oldest \in Block
        BY <2>1, OldestIsBlock
      <4>2. v \in Nat
        BY <4>1 DEF BankFlash, VcountsRight
      <4>3. page \in Nat
        BY <2>1, FlashFacts DEF BankFlash, CollectorFresh
      <4> QED
        BY <4>2, <4>3, HolesFinite
    <3> DEFINE w == page * SuperPage
    <3>2. w \in Nat /\ MaxVcount \in Nat /\ (w < MaxVcount => page < LAST)
      BY <3>1, MaxVcountIs
    <3>3. v + h + w <= MaxVcount
      BY <2>1, <2>4
    <3> HIDE DEF w, v, h, page
    <3>4. page < LAST
      BY <2>4, <3>1, <3>2, <3>3
    <3> QED
      BY <1>1, <2>1, <2>4, <3>4 DEF ReserveIsBack, page
  <2>5. CASE v = 0
    BY <1>1, <2>1, <2>5 DEF ReserveIsBack
  <2>6. Reading(m, oldest) => Reading(n, oldest)
    BY <1>12 DEF Reading
  <2> QED
    BY <2>3, <2>4, <2>5, <2>6
<1>26. ReserveIsBack(n) => ReserveIsBack(m)
  BY <1>25 DEF ReserveIsBack
<1> QED
  BY <1>10, <1>13, <1>24, <1>26 DEF from

-----------------------------------------------------------------------------
(***************************************************************************)
(* The rest of the collector's round.                                      *)
(***************************************************************************)
\* A block without data is one that nothing is mapped into.
LEMMA NoneMapped ==
    ASSUME NEW b \in Bank, NEW n, BankInv(n), NEW map, MapApart(map), BankFlash(b, n, map),
           NEW blk \in Block, n.block_list[blk].vcount = 0
    PROVE  Into(map, b, blk) = {}
<1>1. VC_ERASED # 0
  BY NoSuchPlace, FlashFacts
<1>2. Cardinality(Into(map, b, blk)) = 0
  BY <1>1 DEF BankFlash, VcountsRight
<1>3. IsFiniteSet(Into(map, b, blk))
  BY IntoFinite
<1> QED
  BY <1>2, <1>3, FS_EmptySet

\* A data block that is not being filled becomes a victim; what it holds is unread.
LEMMA TakeVictimFlash ==
    ASSUME NEW b \in Bank, NEW n, BankInv(n), NEW map, MapApart(map), BankFlash(b, n, map),
           ReserveIsBack(n), Rested(n), n.cur_vt_vpn = VC_MAX,
           NEW blk \in Held(n, "data"), ~BeingFilled(n, blk), n.block_list[blk].vcount <= MaxVcount,
           NEW m, m = TakeVictim(n, blk)
    PROVE  /\ BankFlash(b, m, map) /\ ReserveIsBack(m) /\ Rested(m)
           /\ m.victim_list # <<>> /\ m.block_list = n.block_list
           /\ m.cur_vt_vpn # VC_MAX => m.cur_vt_vpn.block = blk /\ m.block_list[blk].vcount # 0
           /\ m.victim_list[1] = IF n.victim_list = <<>> THEN blk ELSE n.victim_list[1]
<1> DEFINE empty == n.block_list[blk].vcount = 0
           vt == [block |-> blk, page |-> 0]
           len == Len(n.victim_list)
<1>1. DOMAIN n = BankField /\ Conserved(n)
  BY DEF BankInv, BankShape
<1>2. /\ \A f \in BankField \ {"data_list", "victim_list", "num_gcbuffed", "cur_vt_vpn"} : m[f] = n[f]
      /\ m.data_list = RemoveFirst(n.data_list, blk)
      /\ m.victim_list = Append(n.victim_list, blk)
      /\ m.num_gcbuffed = 0
      /\ m.cur_vt_vpn = IF empty THEN VC_MAX ELSE vt
  BY <1>1 DEF TakeVictim, BankField
<1>3. /\ m.RW_log_list = n.RW_log_list /\ m.free_list = n.free_list /\ m.GC_BLK = n.GC_BLK
      /\ m.cur_write_vpn = n.cur_write_vpn /\ m.write_start = n.write_start
      /\ m.block_list = n.block_list /\ m.GCbuf_lpn = n.GCbuf_lpn /\ m.cur_gc_vpn = n.cur_gc_vpn
  BY <1>2 DEF BankField
<1>4. blk \in Block /\ blk \notin Held(n, "victim") /\ blk \notin Held(n, "free") /\ blk \notin Held(n, "GC")
  BY <1>1, HeldBlocks, ListsAre
<1>5. List(n.data_list) /\ List(n.victim_list) /\ blk \in ToSet(n.data_list) /\ blk \notin ToSet(n.victim_list)
  BY <1>1, <1>4, ListsAre DEF Conserved, Held
<1>6. /\ Held(m, "data") = Held(n, "data") \ {blk}
      /\ Held(m, "victim") = Held(n, "victim") \cup {blk}
      /\ Held(m, "free") = Held(n, "free") /\ Held(m, "GC") = Held(n, "GC")
  <2>1. ToSet(m.data_list) = ToSet(n.data_list) \ {blk}
    BY <1>2, <1>5, ListRemove
  <2>2. ToSet(m.victim_list) = ToSet(n.victim_list) \cup {blk}
    BY <1>2, <1>4, <1>5, ListAppend
  <2> QED
    BY <1>3, <2>1, <2>2, ListsAre DEF Held
<1>7. vt # VC_MAX /\ vt.block = blk /\ vt.page = 0 /\ 0 \in 0 .. PhysPages /\ 0 < PhysPages
  <2>1. PhysPages \in Nat /\ PhysPages > 0
    BY FlashFacts DEF PhysPages
  <2>2. 0 \in 0 .. PhysPages
    BY <2>1
  <2> QED
    BY <1>4, <2>1, <2>2, RecordIsPlace
<1>8. /\ len \in Nat /\ DOMAIN n.victim_list = 1 .. len
      /\ Len(m.victim_list) = len + 1 /\ m.victim_list[len + 1] = blk /\ m.victim_list # <<>>
      /\ \A i \in 1 .. len : m.victim_list[i] = n.victim_list[i]
      /\ n.victim_list = <<>> => len = 0
      /\ n.victim_list # <<>> => len > 0
  <2>1. n.victim_list \in Seq(Block) /\ len \in Nat /\ DOMAIN n.victim_list = 1 .. len
    BY <1>5, LenProperties DEF List
  <2>2. /\ m.victim_list \in Seq(Block) /\ Len(m.victim_list) = len + 1 /\ m.victim_list[len + 1] = blk
        /\ \A i \in 1 .. len : m.victim_list[i] = n.victim_list[i]
    BY <1>2, <1>4, <2>1, AppendProperties
  <2>3. (n.victim_list = <<>>) <=> len = 0
    BY <2>1, EmptySeq
  <2>4. m.victim_list # <<>>
    BY <2>1, <2>2, EmptySeq
  <2> QED
    BY <2>1, <2>2, <2>3, <2>4
<1>9. m.victim_list[1] = IF n.victim_list = <<>> THEN blk ELSE n.victim_list[1]
  BY <1>8
<1> HIDE DEF len
<1>10. \A off \in Offset : PhysPageOf(off) >= 0
  BY HalfOf
<1>11. \A k : Reading(m, k) <=> ~empty /\ k = blk
  BY <1>2, <1>7 DEF Reading
<1>12. \A k : ~Reading(n, k)
  BY DEF Reading
<1>13. empty => Into(map, b, blk) = {}
  BY <1>4, NoneMapped
<1>14. \A off \in Offset : ~empty => Unread(m, blk, off)
  BY <1>2, <1>7, <1>10, <1>11 DEF Unread
<1> HIDE DEF empty, vt
<1>15. \A k, off : Unread(n, k, off) <=> k \notin Held(n, "victim")
  BY <1>12 DEF Unread
<1>16. \A k \in Held(n, "victim") : \A off : ~Unread(m, k, off)
  BY <1>4, <1>6, <1>11 DEF Unread
<1>17. MarksTrue(b, m, map)
  <2>1. \A k \in Block, off \in Offset : Unread(m, k, off) => Unread(n, k, off)
    BY <1>15, <1>16
  <2> QED
    BY <1>3, <2>1 DEF BankFlash, MarksTrue
<1>18. VcountsRight(b, m, map) /\ FreeIsEmpty(b, m, map)
  BY <1>3, <1>6 DEF BankFlash, VcountsRight, FreeIsEmpty
<1>19. GCHeld(m) = GCHeld(n)
  BY <1>3 DEF GCHeld
<1>20. \A l \in LPN : \A off \in Offset : map[l] = Flash(b, blk, off) => l \in Into(map, b, blk)
  BY <1>4, FlashIsIn DEF Into
<1>21. HeldIsRead(b, m, map)
  <2> SUFFICES ASSUME NEW l \in LPN
               PROVE  l \in GCHeld(n) <=> \E k \in Held(m, "victim"), off \in Offset :
                            map[l] = Flash(b, k, off) /\ ~Unread(m, k, off)
    BY <1>19 DEF HeldIsRead
  <2>1. l \in GCHeld(n) <=> \E k \in Held(n, "victim"), off \in Offset : map[l] = Flash(b, k, off)
    BY <1>15 DEF BankFlash, Collecting, HeldIsRead
  <2>2. \A off \in Offset : map[l] = Flash(b, blk, off) => Unread(m, blk, off)
    BY <1>13, <1>14, <1>20
  <2> QED
    BY <1>6, <1>16, <2>1, <2>2
<1>22. HeldOnce(m)
  BY <1>3 DEF BankFlash, Collecting, HeldOnce
<1>23. \A k \in Held(m, "victim") : m.block_list[k].vcount <= MaxVcount
  BY <1>3, <1>6 DEF BankFlash, Collecting
<1>24. GCHeld(n) \cap Into(map, b, blk) = {}
  <2> SUFFICES ASSUME NEW l \in GCHeld(n), l \in Into(map, b, blk)
               PROVE  FALSE
    OBVIOUS
  <2>1. PICK k \in Held(n, "victim"), off \in Offset : map[l] = Flash(b, k, off)
    BY DEF BankFlash, Collecting, HeldIsRead, GCHeld
  <2>2. map[l].block = k /\ map[l].block = blk
    BY <2>1 DEF Flash, Into, InBlock
  <2> QED
    BY <1>4, <2>2
<1>25. CurrentIsLast(b, m, map)
  <2> SUFFICES ASSUME ~empty
               PROVE  CurrentIsLast(b, m, map)
    BY <1>2 DEF CurrentIsLast
  <2>1. m.cur_vt_vpn = vt
    BY <1>2
  <2>2. m.cur_vt_vpn.block = blk /\ m.cur_vt_vpn.page \in 0 .. PhysPages
    BY <1>7, <2>1
  <2>3. m.victim_list[Len(m.victim_list)] = blk
    BY <1>8
  <2>4. Cardinality(GCHeld(m) \cap Into(map, b, blk)) = 0
    BY <1>19, <1>24, FS_EmptySet
  <2> QED
    BY <1>2, <1>8, <2>2, <2>3, <2>4 DEF CurrentIsLast
<1>26. Collecting(b, m, map)
  BY <1>2, <1>21, <1>22, <1>23, <1>25 DEF Collecting
<1>27. \A t \in Type : Filling(n, t) => n.cur_write_vpn[t].block # blk
  BY DEF BeingFilled, ActiveFull, Filling, LAST
<1>28. n.cur_gc_vpn # VC_MAX /\ n.cur_gc_vpn.page # LAST => n.cur_gc_vpn.block # blk
  BY DEF BeingFilled, LAST
<1>29. WritesFresh(b, m, map)
  <2>1. "SW" \in Type
    BY DEF Type
  <2> QED
    BY <1>3, <1>6, <1>27, <2>1 DEF BankFlash, WritesFresh, Filling, NextPage
<1>30. CollectorFresh(b, m, map)
  BY <1>3, <1>6, <1>28 DEF BankFlash, CollectorFresh, Filling
<1>31. ReserveIsBack(m)
  <2> SUFFICES ASSUME n.GC_BLK = VC_MAX
               PROVE  ReserveIsBack(m)
    BY <1>3 DEF ReserveIsBack
  <2>1. /\ n.cur_gc_vpn # VC_MAX /\ n.victim_list # <<>>
        /\ n.block_list[n.victim_list[1]].vcount # 0 => n.cur_gc_vpn.page < LAST
    BY <1>12 DEF ReserveIsBack
  <2>2. n.victim_list[1] # blk
    BY <1>4, <2>1, OldestIsBlock
  <2> QED
    BY <1>3, <1>8, <1>9, <1>11, <2>1, <2>2 DEF ReserveIsBack
<1>32. Rested(m)
  BY <1>2, <1>3, <1>7 DEF Rested
<1>33. m.cur_vt_vpn # VC_MAX => m.cur_vt_vpn.block = blk /\ m.block_list[blk].vcount # 0
  BY <1>2, <1>3, <1>7 DEF empty
<1> QED
  BY <1>3, <1>8, <1>9, <1>17, <1>18, <1>26, <1>29, <1>30, <1>31, <1>32, <1>33 DEF BankFlash

LEMMA ChooseVictimFlash ==
    ASSUME FTLInv, FTLInv', FlashInv(nand, vpn), Rested(nand[GCBank]), ChooseVictim
    PROVE  /\ FlashInv(nand', vpn') /\ Rested(nand'[GCBank])
           /\ pc' \in {"exhausted", "gc_erase", "gc_read"}
           /\ pc' # "exhausted" => nand'[GCBank].victim_list # <<>>
           /\ pc' = "gc_read" => nand'[GCBank].block_list[nand'[GCBank].victim_list[1]].vcount # 0
           /\ \A c \in Bank : c # GCBank => nand'[c] = nand[c]
           /\ \A c \in Bank : nand'[c].block_list = nand[c].block_list /\ nand'[c].GCbuf_lpn = nand[c].GCbuf_lpn
                              /\ nand'[c].writebuf = nand[c].writebuf
<1> DEFINE b == GCBank
           n == nand[b]
           blk == get_vt_vblock(n)
           full == blk = VC_MAX \/ n.block_list[blk].vcount > 2 * PhysPages - SuperPage
           headEmpty == n.victim_list # <<>> /\ n.block_list[Head(n.victim_list)].vcount = 0
           chosen == IF headEmpty \/ n.cur_vt_vpn # VC_MAX THEN n ELSE TakeVictim(n, blk)
           vt == chosen.cur_vt_vpn
           none == ~headEmpty /\ n.cur_vt_vpn = VC_MAX /\ full
<1>1. /\ IF none THEN pc' = "exhausted" /\ UNCHANGED nand
         ELSE /\ nand' = [nand EXCEPT ![b] = chosen]
              /\ pc' = IF headEmpty \/ vt = VC_MAX THEN "gc_erase"
                       ELSE IF chosen.block_list[vt.block].vcount = 0 THEN "gc_erase"
                       ELSE "gc_read"
      /\ UNCHANGED vpn
  BY DEF ChooseVictim
<1>2. b \in Bank /\ BankInv(n) /\ DOMAIN nand = Bank
  BY GCBankIsBank DEF FTLInv, SlotInv, Ranges
<1>3. MapApart(vpn) /\ BankFlash(b, n, vpn) /\ ReserveIsBack(n) /\ Rested(n)
  BY <1>2 DEF FlashInv
<1>4. /\ none <=> ~headEmpty /\ n.cur_vt_vpn = VC_MAX /\ full
      /\ headEmpty <=> n.victim_list # <<>> /\ n.block_list[Head(n.victim_list)].vcount = 0
      /\ full <=> blk = VC_MAX \/ n.block_list[blk].vcount > 2 * PhysPages - SuperPage
      /\ chosen = IF headEmpty \/ n.cur_vt_vpn # VC_MAX THEN n ELSE TakeVictim(n, blk)
      /\ vt = chosen.cur_vt_vpn /\ b = GCBank /\ n = nand[b] /\ blk = get_vt_vblock(n)
  OBVIOUS
<1> HIDE DEF b, n, blk, full, headEmpty, chosen, vt, none
<1>5. \A s \in Seq(Block) : s # <<>> => Head(s) = s[1]
  OBVIOUS
<1>6. n.victim_list \in Seq(Block)
  BY <1>2, ListsAre DEF BankInv, Conserved, List
<1>7. CASE none
  BY <1>1, <1>3, <1>4, <1>7 DEF FlashInv
<1>8. CASE ~none /\ (headEmpty \/ n.cur_vt_vpn # VC_MAX)
  <2>1. chosen = n
    BY <1>4, <1>8
  <2>2. \A c \in Bank : nand'[c] = nand[c]
    BY <1>1, <1>2, <1>4, <1>8, <2>1
  <2>5. FlashInv(nand', vpn')
    <3>1. SameFlash(vpn, vpn') /\ \A c \in Bank : SameBank(nand[c], nand'[c])
      BY <1>1, <2>2, BankStays DEF SameFlash
    <3>2. \A c \in Bank : BankInv(nand[c])
      BY DEF FTLInv, SlotInv
    <3> QED
      BY <3>1, <3>2, FlashNeutral
  <2>6. nand'[b] = n
    BY <1>2, <1>4, <2>2
  <2>3. n.victim_list # <<>>
    BY <1>3, <1>4, <1>8 DEF BankFlash, Collecting, CurrentIsLast
  <2>4. pc' = "gc_read" => n.block_list[n.victim_list[1]].vcount # 0
    BY <1>1, <1>4, <1>5, <1>6, <1>8, <2>3
  <2> QED
    BY <1>1, <1>3, <1>4, <1>8, <2>2, <2>3, <2>4, <2>5, <2>6
<1>9. CASE ~none /\ ~(headEmpty \/ n.cur_vt_vpn # VC_MAX)
  <2>1. chosen = TakeVictim(n, blk) /\ blk # VC_MAX /\ n.cur_vt_vpn = VC_MAX /\ ~(n.block_list[blk].vcount > MaxVcount)
    BY <1>4, <1>9 DEF MaxVcount
  <2>2. blk \in Held(n, "data") /\ ~BeingFilled(n, blk)
    <3>1. Candidates(n) # {}
      BY <1>4, <2>1 DEF get_vt_vblock
    <3> QED
      BY <1>2, <1>4, <3>1, VictimIsData
  <2>3. n.block_list[blk].vcount <= MaxVcount
    <3>1. blk \in Block
      BY <1>2, <2>2, HeldBlocks, ListsAre DEF BankInv
    <3>2. n.block_list[blk].vcount \in Nat
      BY <1>3, <3>1 DEF BankFlash, VcountsRight
    <3> QED
      BY <2>1, <3>2, MaxVcountIs
  <2>4. /\ BankFlash(b, chosen, vpn) /\ ReserveIsBack(chosen) /\ Rested(chosen)
        /\ chosen.victim_list # <<>> /\ chosen.block_list = n.block_list
        /\ chosen.cur_vt_vpn # VC_MAX => chosen.cur_vt_vpn.block = blk /\ chosen.block_list[blk].vcount # 0
        /\ chosen.victim_list[1] = IF n.victim_list = <<>> THEN blk ELSE n.victim_list[1]
    <3>1. /\ b \in Bank /\ BankInv(n) /\ MapApart(vpn) /\ BankFlash(b, n, vpn) /\ ReserveIsBack(n) /\ Rested(n)
          /\ n.cur_vt_vpn = VC_MAX /\ blk \in Held(n, "data") /\ ~BeingFilled(n, blk)
          /\ n.block_list[blk].vcount <= MaxVcount /\ chosen = TakeVictim(n, blk)
      BY <1>2, <1>3, <2>1, <2>2, <2>3
    <3> QED
      BY ONLY <3>1, TakeVictimFlash
  <2>5. nand'[b] = chosen /\ \A c \in Bank : c # b => nand'[c] = nand[c]
    BY <1>1, <1>2, <1>9
  <2>6. FlashInv(nand', vpn')
    <3>1. FlashInv(nand, vpn) /\ \A d \in Bank : BankInv(nand[d])
      BY DEF FTLInv, SlotInv
    <3>2. BankFlash(b, nand'[b], vpn') /\ ReserveIsBack(nand'[b])
      BY <1>1, <2>4, <2>5
    <3>3. MapApart(vpn') /\ \A d \in Bank : d # b => SameMap(vpn, vpn', d)
      BY <1>1, <1>3 DEF SameMap
    <3> QED
      BY <1>2, <2>5, <3>1, <3>2, <3>3, FlashStep
  <2>7. pc' = "gc_read" => chosen.block_list[chosen.victim_list[1]].vcount # 0
    <3>1. n.victim_list # <<>> => n.block_list[n.victim_list[1]].vcount # 0
      BY <1>4, <1>5, <1>6, <1>9
    <3> QED
      BY <1>1, <1>4, <1>9, <2>4, <3>1
  <2>8. chosen.GCbuf_lpn = n.GCbuf_lpn /\ chosen.writebuf = n.writebuf
    BY <1>2, <2>1 DEF TakeVictim, BankInv, BankShape, BankField
  <2>9. pc' \in {"gc_erase", "gc_read"}
    BY <1>1, <1>9
  <2> QED
    BY <1>4, <2>4, <2>5, <2>6, <2>7, <2>8, <2>9
<1> QED
  BY <1>7, <1>8, <1>9

-----------------------------------------------------------------------------
(***************************************************************************)
(* An empty victim is erased.                                              *)
(***************************************************************************)
\* What Reclaim does to a bank.
VictimErased(n, vt, m) ==
    /\ SameFields(n, m, BankField \ {"block_list", "cur_vt_vpn", "victim_list", "free_list", "GC_BLK"})
    /\ m.victim_list = RemoveFirst(n.victim_list, vt)
    /\ m.cur_vt_vpn = IF Reading(n, vt) THEN VC_MAX ELSE n.cur_vt_vpn
    /\ \A k \in Block : k # vt => m.block_list[k] = n.block_list[k]
    /\ m.block_list[vt].vcount = VC_ERASED
    /\ m.block_list[vt].vbitmap = n.block_list[vt].vbitmap
    /\ \A off \in Offset : m.block_list[vt].spare[off] = RSP_INVALID_LPN
    /\ m.GC_BLK # VC_MAX

LEMMA ReclaimIs ==
    ASSUME NEW n, BankInv(n), NEW vt \in Held(n, "victim"), n.GC_BLK # VC_MAX \/ n.free_list # <<>>,
           NEW m, m = Reclaim(n, vt)
    PROVE  VictimErased(n, vt, m)
<1> DEFINE c == ReclaimOnly(n, vt)
           old == n.block_list[vt]
           info == [Erased(VC_ERASED) EXCEPT !.vbitmap = old.vbitmap,
                                             !.remained_remap_cnt = old.remained_remap_cnt]
<1>1. DOMAIN n = BankField /\ Conserved(n) /\ DOMAIN n.block_list = Block
  BY DEF BankInv, BankShape
<1>2. /\ DOMAIN c = BankField
      /\ \A f \in BankField \ {"block_list", "cur_vt_vpn", "victim_list", "free_list"} : c[f] = n[f]
      /\ c.block_list = [n.block_list EXCEPT ![vt] = info]
      /\ c.cur_vt_vpn = IF Reading(n, vt) THEN VC_MAX ELSE n.cur_vt_vpn
      /\ c.victim_list = RemoveFirst(n.victim_list, vt)
  BY <1>1 DEF ReclaimOnly, BankField, Reading
<1> HIDE DEF c
<1>3. m = IF n.GC_BLK # VC_MAX THEN c ELSE [c EXCEPT !.GC_BLK = Head(n.free_list), !.free_list = Tail(@)]
  BY DEF Reclaim, c
<1>4. /\ \A f \in BankField \ {"GC_BLK", "free_list"} : m[f] = c[f]
      /\ m.GC_BLK = IF n.GC_BLK # VC_MAX THEN n.GC_BLK ELSE Head(n.free_list)
  BY <1>2, <1>3 DEF BankField
<1>5. vt \in Block
  BY <1>1, HeldBlocks, ListsAre
<1>6. /\ info.vcount = VC_ERASED /\ info.vbitmap = old.vbitmap
      /\ \A off \in Offset : info.spare[off] = RSP_INVALID_LPN
  BY DEF Erased
<1> HIDE DEF info
<1>7. \A k \in Block : m.block_list[k] = IF k = vt THEN info ELSE n.block_list[k]
  <2>1. m.block_list = c.block_list
    BY <1>4 DEF BankField
  <2> QED
    BY <1>1, <1>2, <2>1
<1>8. m.GC_BLK # VC_MAX
  <2>1. n.free_list # <<>> => Head(n.free_list) \in Held(n, "free")
    BY <1>1, ListTail, ListsAre DEF Conserved, Held
  <2>2. Held(n, "free") \subseteq Block
    BY <1>1, HeldBlocks, ListsAre
  <2> QED
    BY <1>4, <2>1, <2>2, FlashFacts
<1>9. SameFields(n, m, BankField \ {"block_list", "cur_vt_vpn", "victim_list", "free_list", "GC_BLK"})
  BY <1>2, <1>4 DEF SameFields
<1>10. m.victim_list = c.victim_list /\ m.cur_vt_vpn = c.cur_vt_vpn
  BY <1>4 DEF BankField
<1> QED
  BY <1>2, <1>5, <1>6, <1>7, <1>8, <1>9, <1>10 DEF VictimErased

\* The block is empty, so the map does not notice.
LEMMA ReclaimFlash ==
    ASSUME NEW b \in Bank, NEW n, BankInv(n), NEW map, MapApart(map), BankFlash(b, n, map), Rested(n),
           NEW vt \in Held(n, "victim"), n.block_list[vt].vcount = 0,
           n.GC_BLK # VC_MAX \/ n.free_list # <<>>,
           NEW m, m = Reclaim(n, vt)
    PROVE  /\ BankFlash(b, m, map) /\ ReserveIsBack(m) /\ Rested(m) /\ Into(map, b, vt) = {}
           /\ m.GCbuf_lpn = n.GCbuf_lpn /\ m.writebuf = n.writebuf
           /\ \A k \in Block : k # vt => m.block_list[k] = n.block_list[k]
<1>1. DOMAIN n = BankField /\ Conserved(n)
  BY DEF BankInv, BankShape
<1>2. /\ SameFields(n, m, BankField \ {"block_list", "cur_vt_vpn", "victim_list", "free_list", "GC_BLK"})
      /\ m.victim_list = RemoveFirst(n.victim_list, vt)
      /\ m.cur_vt_vpn = IF Reading(n, vt) THEN VC_MAX ELSE n.cur_vt_vpn
      /\ \A k \in Block : k # vt => m.block_list[k] = n.block_list[k]
      /\ m.block_list[vt].vcount = VC_ERASED
      /\ m.block_list[vt].vbitmap = n.block_list[vt].vbitmap
      /\ \A off \in Offset : m.block_list[vt].spare[off] = RSP_INVALID_LPN
      /\ m.GC_BLK # VC_MAX
  <2>1. VictimErased(n, vt, m)
    BY ReclaimIs
  <2> QED
    BY ONLY <2>1 DEF VictimErased
<1>3. BankInv(m)
  BY ReclaimIsQuiet DEF Quiet
<1>4. /\ m.RW_log_list = n.RW_log_list /\ m.data_list = n.data_list
      /\ m.cur_write_vpn = n.cur_write_vpn /\ m.write_start = n.write_start
      /\ m.GCbuf_lpn = n.GCbuf_lpn /\ m.cur_gc_vpn = n.cur_gc_vpn /\ m.num_gcbuffed = n.num_gcbuffed
      /\ m.writebuf = n.writebuf
  BY <1>2 DEF SameFields, BankField
<1>5. vt \in Block
  BY <1>1, HeldBlocks, ListsAre
<1>6. List(n.victim_list) /\ vt \in ToSet(n.victim_list)
  BY <1>1, ListsAre DEF Conserved, Held
<1>7. /\ Held(m, "victim") = Held(n, "victim") \ {vt}
      /\ Held(m, "data") = Held(n, "data")
      /\ Held(m, "free") \cup Held(m, "GC") = Held(n, "free") \cup Held(n, "GC") \cup {vt}
  <2>1. ToSet(m.victim_list) = ToSet(n.victim_list) \ {vt}
    BY <1>2, <1>6, ListRemove
  <2>2. Held(m, "victim") = Held(n, "victim") \ {vt}
    BY <2>1, ListsAre DEF Held
  <2>3. Held(m, "data") = Held(n, "data") /\ Held(m, "RW_log") = Held(n, "RW_log")
    BY <1>4, ListsAre DEF Held
  <2>4. \A q : Conserved(q) => /\ Held(q, "free") \cup Held(q, "GC")
                                    = Block \ (Held(q, "data") \cup Held(q, "RW_log") \cup Held(q, "victim"))
    BY ListsAre DEF Conserved
  <2>5. vt \notin Held(n, "data") /\ vt \notin Held(n, "RW_log")
    BY <1>1, HeldBlocks, ListsAre
  <2>6. Conserved(m)
    BY <1>3 DEF BankInv
  <2> QED
    BY <1>1, <1>5, <2>2, <2>3, <2>4, <2>5, <2>6
<1>8. Into(map, b, vt) = {}
  BY <1>5, NoneMapped
<1>9. \A k : Reading(m, k) => Reading(n, k) /\ k # vt
  BY <1>2 DEF Reading
<1>10. \A k : k # vt => (Reading(m, k) <=> Reading(n, k))
  BY <1>2 DEF Reading
<1>11. m.cur_vt_vpn # VC_MAX => m.cur_vt_vpn = n.cur_vt_vpn /\ n.cur_vt_vpn # VC_MAX /\ n.cur_vt_vpn.block # vt
  BY <1>2 DEF Reading
<1>12. \A k, off : k # vt => (Unread(m, k, off) <=> Unread(n, k, off))
  BY <1>7, <1>10, <1>11 DEF Unread, Reading
<1>13. VcountsRight(b, m, map)
  <2>1. Cardinality(Into(map, b, vt)) = 0 /\ VC_ERASED \in Nat
    BY <1>8, FS_EmptySet, FlashFacts
  <2> QED
    BY <1>2, <1>7, <2>1 DEF BankFlash, VcountsRight
<1>14. FreeIsEmpty(b, m, map)
  BY <1>7, <1>8 DEF BankFlash, FreeIsEmpty
<1>15. \A l \in LPN : \A off \in Offset : map[l] # Flash(b, vt, off)
  BY <1>5, <1>8, FlashIsIn DEF Into
<1>16. MarksTrue(b, m, map)
  <2> SUFFICES ASSUME NEW k \in Block
               PROVE  LET info == m.block_list[k]
                      IN  /\ info.vbitmap \subseteq Offset
                          /\ \A off \in Offset : Unread(m, k, off) =>
                              /\ \A l \in LPN : map[l] = Flash(b, k, off) =>
                                      off \in info.vbitmap /\ (l \in HomeLPN => info.spare[off] = l)
                              /\ off \in info.vbitmap /\ info.spare[off] # RSP_INVALID_LPN =>
                                      \E l \in LPN : map[l] = Flash(b, k, off)
    BY DEF MarksTrue
  <2>1. CASE k = vt
    BY <1>2, <1>15, <2>1 DEF BankFlash, MarksTrue
  <2>2. CASE k # vt
    BY <1>2, <1>12, <2>2 DEF BankFlash, MarksTrue
  <2> QED
    BY <2>1, <2>2
<1>17. GCHeld(m) = GCHeld(n)
  BY <1>4 DEF GCHeld
<1>18. HeldOnce(m)
  BY <1>4 DEF BankFlash, Collecting, HeldOnce
<1>19. HeldIsRead(b, m, map)
  <2> SUFFICES ASSUME NEW l \in LPN
               PROVE  l \in GCHeld(n) <=> \E k \in Held(m, "victim"), off \in Offset :
                            map[l] = Flash(b, k, off) /\ ~Unread(m, k, off)
    BY <1>17 DEF HeldIsRead
  <2>1. l \in GCHeld(n) <=> \E k \in Held(n, "victim"), off \in Offset :
                map[l] = Flash(b, k, off) /\ ~Unread(n, k, off)
    BY DEF BankFlash, Collecting, HeldIsRead
  <2> QED
    BY <1>7, <1>12, <1>15, <2>1
<1>20. \A k \in Held(m, "victim") : m.block_list[k].vcount <= MaxVcount
  <2>1. Held(n, "victim") \subseteq Block
    BY <1>1, HeldBlocks, ListsAre
  <2> QED
    BY <1>2, <1>7, <2>1 DEF BankFlash, Collecting
<1>21. CurrentIsLast(b, m, map)
  <2> SUFFICES ASSUME m.cur_vt_vpn # VC_MAX
               PROVE  /\ m.cur_vt_vpn.page \in 0 .. PhysPages
                      /\ m.victim_list # <<>>
                      /\ m.cur_vt_vpn.block = m.victim_list[Len(m.victim_list)]
                      /\ m.num_gcbuffed = Cardinality(GCHeld(m) \cap Into(map, b, m.cur_vt_vpn.block))
    BY DEF CurrentIsLast
  <2>1. /\ n.cur_vt_vpn.page \in 0 .. PhysPages
        /\ n.cur_vt_vpn.block = n.victim_list[Len(n.victim_list)]
        /\ n.num_gcbuffed = Cardinality(GCHeld(n) \cap Into(map, b, n.cur_vt_vpn.block))
    BY <1>11 DEF BankFlash, Collecting, CurrentIsLast
  <2>2. n.victim_list[Len(n.victim_list)] # vt
    BY <1>11, <2>1
  <2>3. Len(m.victim_list) \in Nat \ {0} /\ m.victim_list[Len(m.victim_list)] = n.victim_list[Len(n.victim_list)]
    BY <1>2, <1>6, <2>2, ListRemove
  <2>4. m.victim_list # <<>>
    BY <2>3
  <2> QED
    BY <1>4, <1>11, <1>17, <2>1, <2>3, <2>4
<1>22. Collecting(b, m, map)
  BY <1>4, <1>18, <1>19, <1>20, <1>21 DEF BankFlash, Collecting
<1>23. WritesFresh(b, m, map)
  BY <1>4, <1>7 DEF BankFlash, WritesFresh, Filling, NextPage
<1>24. CollectorFresh(b, m, map)
  BY <1>4, <1>7 DEF BankFlash, CollectorFresh, Filling
<1>25. ReserveIsBack(m) /\ Rested(m)
  BY <1>2, <1>4, <1>11 DEF ReserveIsBack, Rested
<1> QED
  BY <1>2, <1>4, <1>8, <1>13, <1>14, <1>16, <1>22, <1>23, <1>24, <1>25 DEF BankFlash

LEMMA EraseVictimFlash ==
    ASSUME FTLInv, FTLInv', FlashInv(nand, vpn), Rested(nand[GCBank]), EraseVictim
    PROVE  /\ FlashInv(nand', vpn') /\ Rested(nand'[GCBank])
           /\ pc' = "exhausted" \/ NextHalf
           /\ \A c \in Bank : c # GCBank => nand'[c] = nand[c]
           /\ \A c \in Bank : nand'[c].GCbuf_lpn = nand[c].GCbuf_lpn /\ nand'[c].writebuf = nand[c].writebuf
           /\ \A l \in LPN : \E vt \in Block :
                /\ Into(vpn, GCBank, vt) = {}
                /\ copies'[l] \in {copies[l], {c \in copies[l] : \A off \in Offset : c # Flash(GCBank, vt, off)}}
           /\ \A l \in LPN : \A c \in Bank, blk \in Block : InBlock(vpn[l], c, blk) =>
                nand'[c].block_list[blk].spare = nand[c].block_list[blk].spare
<1> DEFINE b == GCBank
           n == nand[b]
           vt == n.victim_list[Min(EmptyVictims(n))]
           none == n.GC_BLK = VC_MAX /\ n.free_list = <<>>
           m == Reclaim(n, vt)
<1>1. /\ EmptyVictims(n) # {}
      /\ IF none THEN pc' = "exhausted" /\ UNCHANGED <<nand, copies>>
         ELSE /\ nand' = [nand EXCEPT ![b] = m]
              /\ copies' = [l \in LPN |-> {c \in copies[l] : \A off \in Offset : c # Flash(b, vt, off)}]
              /\ NextHalf
      /\ UNCHANGED vpn
  BY DEF EraseVictim
<1>2. b \in Bank /\ BankInv(n) /\ DOMAIN nand = Bank /\ \A c \in Bank : BankInv(nand[c])
  BY GCBankIsBank DEF FTLInv, SlotInv, Ranges
<1>3. MapApart(vpn) /\ BankFlash(b, n, vpn) /\ Rested(n)
  BY <1>2 DEF FlashInv
<1>4. /\ none <=> n.GC_BLK = VC_MAX /\ n.free_list = <<>>
      /\ vt = n.victim_list[Min(EmptyVictims(n))] /\ m = Reclaim(n, vt) /\ b = GCBank /\ n = nand[b]
  OBVIOUS
<1> HIDE DEF b, n, vt, none, m
<1>5. vt \in Held(n, "victim") /\ n.block_list[vt].vcount = 0
  BY <1>1, <1>2, <1>4, EmptyVictimIs
<1>6. vt \in Block
  BY <1>2, <1>5, HeldBlocks, ListsAre DEF BankInv
<1>7. Into(vpn, b, vt) = {}
  BY <1>2, <1>3, <1>5, <1>6, NoneMapped
<1>8. \A l \in LPN : copies'[l] \in {copies[l], {c \in copies[l] : \A off \in Offset : c # Flash(b, vt, off)}}
  BY <1>1
<1>9. CASE none
  BY <1>1, <1>3, <1>4, <1>6, <1>7, <1>8, <1>9
<1>10. CASE ~none
  <2>1. /\ BankFlash(b, m, vpn) /\ ReserveIsBack(m) /\ Rested(m)
        /\ m.GCbuf_lpn = n.GCbuf_lpn /\ m.writebuf = n.writebuf
        /\ \A k \in Block : k # vt => m.block_list[k] = n.block_list[k]
    <3>1. /\ b \in Bank /\ BankInv(n) /\ MapApart(vpn) /\ BankFlash(b, n, vpn) /\ Rested(n)
          /\ vt \in Held(n, "victim") /\ n.block_list[vt].vcount = 0
          /\ (n.GC_BLK # VC_MAX \/ n.free_list # <<>>) /\ m = Reclaim(n, vt)
      BY <1>2, <1>3, <1>4, <1>5, <1>10
    <3> QED
      BY ONLY <3>1, ReclaimFlash
  <2>2. nand'[b] = m /\ \A c \in Bank : c # b => nand'[c] = nand[c]
    BY <1>1, <1>2, <1>10
  <2>3. FlashInv(nand', vpn')
    <3>1. BankFlash(b, nand'[b], vpn') /\ ReserveIsBack(nand'[b])
      BY <1>1, <2>1, <2>2
    <3>2. MapApart(vpn') /\ \A d \in Bank : d # b => SameMap(vpn, vpn', d)
      BY <1>1, <1>3 DEF SameMap
    <3> QED
      BY <1>2, <2>2, <3>1, <3>2, FlashStep
  <2>4. \A l \in LPN : \A c \in Bank, blk \in Block : InBlock(vpn[l], c, blk) =>
            nand'[c].block_list[blk].spare = nand[c].block_list[blk].spare
    <3> SUFFICES ASSUME NEW l \in LPN, NEW c \in Bank, NEW blk \in Block, InBlock(vpn[l], c, blk)
                 PROVE  nand'[c].block_list[blk].spare = nand[c].block_list[blk].spare
      OBVIOUS
    <3>1. ~(c = b /\ blk = vt)
      BY <1>7 DEF Into
    <3> QED
      BY <1>4, <2>1, <2>2, <3>1
  <2>5. \A c \in Bank : nand'[c].GCbuf_lpn = nand[c].GCbuf_lpn /\ nand'[c].writebuf = nand[c].writebuf
    BY <1>4, <2>1, <2>2
  <2> QED
    BY <1>1, <1>4, <1>6, <1>7, <1>8, <1>10, <2>1, <2>2, <2>3, <2>4, <2>5
<1> QED
  BY <1>9, <1>10

-----------------------------------------------------------------------------
(***************************************************************************)
(* An address leaves its place in flash, if it has one there.              *)
(***************************************************************************)
\* What a step leaves alone in the flash: the pages that wait for a remap, the
\* write buffers and the place of a block among the log and the data blocks.
LEMMA BuffersAside ==
    ASSUME NEW n, BankInv(n), NEW m,
           SameFields(n, m, BankField \ {"writebuf", "writebuf_index", "remap_inbuff_cnt"})
    PROVE  SameBank(n, m)
<1>1. \A f \in BankField \ {"writebuf", "writebuf_index", "remap_inbuff_cnt"} : m[f] = n[f]
  BY DEF SameFields
<1>2. m.block_list = n.block_list /\ m.data_list = n.data_list
  BY <1>1 DEF BankField
<1>3. \A f \in FlashField : f \in BankField \ {"writebuf", "writebuf_index", "remap_inbuff_cnt"}
  BY DEF FlashField, BankField
<1>4. SameFields(n, m, FlashField)
  BY <1>1, <1>3 DEF SameFields
<1>5. Held(m, "data") = Held(n, "data")
  BY <1>2, ListsAre DEF Held
<1> QED
  BY <1>2, <1>4, <1>5 DEF SameBank, SameInfo, SameFields

LEMMA UnpinAside ==
    ASSUME NEW n, BankInv(n), NEW blk \in Held(n, "RW_log"), NEW m, m = Unpin(n, blk)
    PROVE  SameBank(n, m) /\ m.writebuf = n.writebuf
<1> DEFINE c == [n EXCEPT !.block_list[blk].remained_remap_cnt = @ - 1]
<1>1. DOMAIN n = BankField /\ DOMAIN n.block_list = Block /\ \A k \in Block : DOMAIN n.block_list[k] = InfoField
  BY DEF BankInv, BankShape
<1>2. blk \in Block
  BY HeldBlocks, ListsAre DEF BankInv
<1>3. DOMAIN c = BankField /\ \A f \in BankField \ {"block_list"} : c[f] = n[f]
  BY <1>1 DEF BankField
<1>4. c.block_list = [n.block_list EXCEPT ![blk].remained_remap_cnt = @ - 1]
  BY <1>1 DEF BankField
<1>5. \A k \in Block : SameFields(n.block_list[k], c.block_list[k], {"vcount", "vbitmap", "spare"})
  BY <1>1, <1>2, <1>4 DEF SameFields, InfoField
<1>6. m \in {c, [c EXCEPT !.RW_log_list = RemoveFirst(@, blk), !.data_list = Append(@, blk)]}
  BY DEF Unpin, Settle
<1> HIDE DEF c
<1>7. /\ \A f \in BankField \ {"RW_log_list", "data_list"} : m[f] = c[f]
      /\ m.data_list \in {n.data_list, Append(n.data_list, blk)}
  BY <1>3, <1>6 DEF BankField
<1>8. SameFields(n, m, FlashField)
  BY <1>3, <1>7 DEF SameFields, FlashField, BankField
<1>9. m.block_list = c.block_list /\ m.writebuf = n.writebuf
  BY <1>3, <1>7 DEF BankField
<1>10. Held(n, "data") \subseteq Held(m, "data")
  <2>1. List(n.data_list) /\ blk \notin ToSet(n.data_list)
    <3>1. Conserved(n) /\ blk \notin Held(n, "data")
      BY HeldBlocks, ListsAre DEF BankInv
    <3> QED
      BY <3>1, ListsAre DEF Conserved, Held
  <2>2. ToSet(n.data_list) \subseteq ToSet(m.data_list)
    <3>1. ToSet(Append(n.data_list, blk)) = ToSet(n.data_list) \cup {blk}
      BY <1>2, <2>1, ListAppend
    <3> QED
      BY <1>7, <3>1
  <2> QED
    BY <2>2, ListsAre DEF Held
<1> QED
  BY <1>5, <1>8, <1>9, <1>10 DEF SameBank, SameInfo

\* The banks after the page of an address in flash was invalidated.
Dropped(banks, map, l) ==
    IF InFlash(map[l]) THEN [banks EXCEPT ![map[l].bank] = Invalidate(@, l, map[l])] ELSE banks

\* What else stays in a bank: the write buffers and the spare areas, and the
\* collector's buffer but for addresses that are crossed out.
CollectorRests(n, m) ==
    /\ \A blk \in Block : m.block_list[blk].spare = n.block_list[blk].spare
    /\ DOMAIN m.GCbuf_lpn = DOMAIN n.GCbuf_lpn
    /\ \A i \in DOMAIN n.GCbuf_lpn : m.GCbuf_lpn[i] \in {n.GCbuf_lpn[i], RSP_INVALID_LPN}
    /\ \A f \in {"GC_BLK", "free_list", "victim_list", "cur_vt_vpn"} : m[f] = n[f]
BankRests(n, m) == m.writebuf = n.writebuf /\ CollectorRests(n, m)

LEMMA DroppedFlash ==
    ASSUME NEW banks, NEW map, FlashInv(banks, map), DOMAIN banks = Bank, \A b \in Bank : BankInv(banks[b]),
           NEW l \in LPN, NEW new, new = Dropped(banks, map, l),
           NEW map2, ~InFlash(map2[l]), \A x \in LPN : x # l => map2[x] = map[x]
    PROVE  /\ FlashInv(new, map2) /\ DOMAIN new = Bank
           /\ \A b \in Bank : BankInv(new[b]) /\ BankRests(banks[b], new[b])
<1>1. CASE ~InFlash(map[l])
  <2>1. new = banks
    BY <1>1 DEF Dropped
  <2>2. SameFlash(map, map2)
    BY <1>1 DEF SameFlash
  <2>3. FlashInv(new, map2)
    BY <2>1, <2>2, BankStays, FlashNeutral
  <2> QED
    BY <2>1, <2>3 DEF BankRests, CollectorRests
<1>2. CASE InFlash(map[l])
  <2> DEFINE b == map[l].bank
             m == Invalidate(banks[b], l, map[l])
  <2>1. InBlock(map[l], b, map[l].block) /\ InBank(map[l], b) /\ MapApart(map)
    BY <1>2 DEF InBlock, InBank, FlashInv
  <2>2. b \in Bank /\ map[l].block \in Block
    BY <2>1, PlaceIs
  <2>3. new = [banks EXCEPT ![b] = m]
    BY <1>2 DEF Dropped
  <2>4. m = Invalidate(banks[b], l, map[l])
    OBVIOUS
  <2> HIDE DEF b, m
  <2>5. new[b] = m /\ (\A c \in Bank : c # b => new[c] = banks[c]) /\ DOMAIN new = Bank
    BY <2>2, <2>3
  <2>6. BankFlash(b, m, map2) /\ ReserveIsBack(m)
    <3>1. /\ b \in Bank /\ BankInv(banks[b]) /\ MapApart(map) /\ BankFlash(b, banks[b], map)
          /\ ReserveIsBack(banks[b]) /\ l \in LPN /\ InBank(map[l], b) /\ m = Invalidate(banks[b], l, map[l])
          /\ ~InFlash(map2[l]) /\ \A x \in LPN : x # l => map2[x] = map[x]
      BY <2>1, <2>2, <2>4 DEF FlashInv
    <3> QED
      BY ONLY <3>1, InvalidateFlash
  <2>7. BankInv(m)
    BY <2>2, <2>4, InvalidateIsQuiet DEF Quiet
  <2>8. MapApart(map2)
    BY <2>1 DEF MapApart
  <2>9. \A c \in Bank : c # b => SameMap(map, map2, c)
    BY <2>1 DEF SameMap, InBank
  <2>10. FlashInv(new, map2)
    BY <2>2, <2>5, <2>6, <2>8, <2>9, FlashStep
  <2>11. BankRests(banks[b], m)
    <3> DEFINE n == banks[b]
               blk == map[l].block
    <3>1. BankInv(n) /\ blk \in Block /\ m = Invalidate(n, l, map[l])
      BY <2>2, <2>4
    <3>2. /\ \A f \in BankField \ {"GCbuf_lpn", "num_gcbuffed", "block_list"} : m[f] = n[f]
          /\ \A k \in Block : k # blk => m.block_list[k] = n.block_list[k]
          /\ m.block_list[blk].spare = n.block_list[blk].spare
          /\ DOMAIN m.GCbuf_lpn = DOMAIN n.GCbuf_lpn
          /\ l \notin GCHeld(n) => m.GCbuf_lpn = n.GCbuf_lpn
          /\ l \in GCHeld(n) =>
                \E i \in DOMAIN n.GCbuf_lpn :
                    /\ n.GCbuf_lpn[i] = l /\ m.GCbuf_lpn[i] = RSP_INVALID_LPN
                    /\ \A j \in DOMAIN n.GCbuf_lpn : j # i => m.GCbuf_lpn[j] = n.GCbuf_lpn[j]
      BY <3>1, InvalidateIs
    <3> HIDE DEF n, blk
    <3>3. m.writebuf = n.writebuf /\ \A f \in {"GC_BLK", "free_list", "victim_list", "cur_vt_vpn"} : m[f] = n[f]
      BY <3>2 DEF BankField
    <3>4. \A i \in DOMAIN n.GCbuf_lpn : m.GCbuf_lpn[i] \in {n.GCbuf_lpn[i], RSP_INVALID_LPN}
      BY <3>2
    <3>5. BankRests(n, m)
      BY <3>2, <3>3, <3>4 DEF BankRests, CollectorRests
    <3> QED
      BY <3>5 DEF n
  <2>12. \A c \in Bank : BankRests(banks[c], banks[c])
    BY DEF BankRests, CollectorRests
  <2> QED
    BY <2>5, <2>7, <2>10, <2>11, <2>12
<1> QED
  BY <1>1, <1>2
=============================================================================
