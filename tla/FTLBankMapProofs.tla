-------------------------- MODULE FTLBankMapProofs --------------------------
(***************************************************************************)
(* Theorems of FTLBank about what the map leads to, on top of FTLInv: the  *)
(* valid count of every block is right although the collector charges it   *)
(* to victims by their age, the collector's buffer holds what is still     *)
(* mapped to a victim, none of the collector's assertions fires, and a     *)
(* read finds the newest data.                                             *)
(***************************************************************************)
EXTENDS FTLBankRoundProofs
LOCAL INSTANCE SequencesExt
LOCAL INSTANCE FiniteSetsExt

-----------------------------------------------------------------------------
(***************************************************************************)
(* The rest of the invariant: write buffers, home addresses of log pages,  *)
(* places of the newest data, and where the collector stands.              *)
(***************************************************************************)
\* The map and the write buffers agree; a page that was remapped in the buffer
\* keeps its remap header.
BuffersMapped(banks, map) ==
    /\ \A l \in LPN : map[l] # VC_MAX /\ ~InFlash(map[l]) =>
            \E b \in Bank, t \in Type : \E pos \in DOMAIN banks[b].writebuf[t] :
                map[l] = Buffered(b, t, pos) /\ banks[b].writebuf[t][pos].req = l
    /\ \A b \in Bank, t \in Type : \A pos \in DOMAIN banks[b].writebuf[t] :
            LET req == banks[b].writebuf[t][pos].req
            IN  req # RSP_INVALID_LPN => req \in LPN /\ map[req] = Buffered(b, t, pos)
    /\ \A b \in Bank : \A pos \in DOMAIN banks[b].writebuf["RW"] :
            LET e == banks[b].writebuf["RW"][pos]
            IN  e.req \in HomeLPN => e.remap = e.req

\* The spare area or the remap header of a slot that the host may remap tells
\* the home address.
RemapTold(banks, map, tw) ==
    \A s \in SlotLPN : tw[s] # RSP_INVALID_LPN =>
        /\ \A b \in Bank, blk \in Block, off \in Offset : map[s] = Flash(b, blk, off) =>
                banks[b].block_list[blk].spare[off] = tw[s]
        /\ \A b \in Bank : \A pos \in DOMAIN banks[b].writebuf["RW"] : map[s] = Buffered(b, "RW", pos) =>
                banks[b].writebuf["RW"][pos].remap = tw[s]

\* The map leads to the newest data, which the collector has, too, if it holds the address.
CopiesRight(banks, map, cps) ==
    /\ \A l \in LPN : IF map[l] = VC_MAX THEN cps[l] = {} ELSE map[l] \in cps[l]
    /\ \A l \in LPN, b \in Bank : \A i \in DOMAIN banks[b].GCbuf_lpn :
            banks[b].GCbuf_lpn[i] = l => GCBuffered(b, i) \in cps[l]
    /\ \A l \in LPN : cps[l] \subseteq VPN \cup BufferVPN \cup GCPlace

\* What the collector is about to read or to erase is there.
Control ==
    /\ pc \in {"page", "program", "gc", "gc_victim", "gc_read", "gc_erase",
               "inter_GC", "exhausted", "overrun"}
    /\ kept \in BOOLEAN /\ reads \in 0 .. NUM_READ_PER_INCGC
    /\ pc \in {"gc_victim", "gc_read", "gc_erase"} => reads > 0
    /\ pc \in {"gc_read", "gc_erase"} => nand[GCBank].victim_list # <<>>
    /\ pc = "gc_read" => nand[GCBank].block_list[nand[GCBank].victim_list[1]].vcount # 0

MapInv ==
    /\ FlashInv(nand, vpn)
    /\ \A b \in Bank : Rested(nand[b])
    /\ BuffersMapped(nand, vpn)
    /\ RemapTold(nand, vpn, twrite)
    /\ CopiesRight(nand, vpn, copies) /\ DOMAIN copies = LPN
    /\ Control

\* The write buffers stay, and so do the addresses in them.
LEMMA BuffersKept ==
    ASSUME NEW banks, NEW map, BuffersMapped(banks, map), \A b \in Bank : BankInv(banks[b]),
           NEW banks2, \A b \in Bank : banks2[b].writebuf = banks[b].writebuf,
           NEW map2, \A l \in LPN : \/ map2[l] = map[l]
                                    \/ /\ map[l] = VC_MAX \/ InFlash(map[l])
                                       /\ map2[l] = VC_MAX \/ InFlash(map2[l])
    PROVE  BuffersMapped(banks2, map2)
<1>1. ASSUME NEW l \in LPN, map2[l] # VC_MAX, ~InFlash(map2[l])
      PROVE  \E b \in Bank, t \in Type : \E pos \in DOMAIN banks2[b].writebuf[t] :
                map2[l] = Buffered(b, t, pos) /\ banks2[b].writebuf[t][pos].req = l
  <2>1. map2[l] = map[l]
    BY <1>1
  <2>2. \E b \in Bank, t \in Type : \E pos \in DOMAIN banks[b].writebuf[t] :
                map[l] = Buffered(b, t, pos) /\ banks[b].writebuf[t][pos].req = l
    BY <1>1, <2>1 DEF BuffersMapped
  <2> QED
    BY <2>1, <2>2
<1>2. ASSUME NEW b \in Bank, NEW t \in Type, NEW pos \in DOMAIN banks2[b].writebuf[t],
             NEW req, req = banks2[b].writebuf[t][pos].req, req # RSP_INVALID_LPN
      PROVE  req \in LPN /\ map2[req] = Buffered(b, t, pos)
  <2>1. req \in LPN /\ map[req] = Buffered(b, t, pos)
    BY <1>2 DEF BuffersMapped
  <2>2. pos \in Position
    BY BufferPositions
  <2>3. map[req] # VC_MAX /\ ~InFlash(map[req])
    BY <2>1, <2>2, BufferPlace
  <2> QED
    BY <2>1, <2>3
<1>3. \A b \in Bank : \A pos \in DOMAIN banks2[b].writebuf["RW"] :
          LET e == banks2[b].writebuf["RW"][pos]
          IN  e.req \in HomeLPN => e.remap = e.req
  BY DEF BuffersMapped
<1> QED
  BY <1>1, <1>2, <1>3 DEF BuffersMapped

\* The slots that may still be remapped stay where they are, and so does what is told of them.
LEMMA TellKept ==
    ASSUME NEW banks, NEW map, NEW tw, RemapTold(banks, map, tw),
           NEW tw2, \A s \in SlotLPN : tw2[s] \in {tw[s], RSP_INVALID_LPN},
           NEW map2, \A s \in SlotLPN : tw2[s] # RSP_INVALID_LPN => map2[s] = map[s],
           NEW banks2,
           \A s \in SlotLPN : \A b \in Bank, blk \in Block, off \in Offset : map[s] = Flash(b, blk, off) =>
                banks2[b].block_list[blk].spare[off] = banks[b].block_list[blk].spare[off],
           \A s \in SlotLPN : tw2[s] # RSP_INVALID_LPN =>
                \A b \in Bank : \A pos \in DOMAIN banks2[b].writebuf["RW"] : map2[s] = Buffered(b, "RW", pos) =>
                    /\ pos \in DOMAIN banks[b].writebuf["RW"]
                    /\ banks2[b].writebuf["RW"][pos].remap = banks[b].writebuf["RW"][pos].remap
    PROVE  RemapTold(banks2, map2, tw2)
<1> SUFFICES ASSUME NEW s \in SlotLPN, tw2[s] # RSP_INVALID_LPN
             PROVE  /\ \A b \in Bank, blk \in Block, off \in Offset : map2[s] = Flash(b, blk, off) =>
                            banks2[b].block_list[blk].spare[off] = tw2[s]
                    /\ \A b \in Bank : \A pos \in DOMAIN banks2[b].writebuf["RW"] :
                            map2[s] = Buffered(b, "RW", pos) => banks2[b].writebuf["RW"][pos].remap = tw2[s]
  BY DEF RemapTold
<1>1. tw2[s] = tw[s] /\ map2[s] = map[s] /\ tw[s] # RSP_INVALID_LPN
  OBVIOUS
<1>2. \A b \in Bank, blk \in Block, off \in Offset : map2[s] = Flash(b, blk, off) =>
            banks2[b].block_list[blk].spare[off] = tw2[s]
  BY <1>1 DEF RemapTold
<1>3. \A b \in Bank : \A pos \in DOMAIN banks2[b].writebuf["RW"] :
            map2[s] = Buffered(b, "RW", pos) => banks2[b].writebuf["RW"][pos].remap = tw2[s]
  BY <1>1 DEF RemapTold
<1> QED
  BY <1>2, <1>3

\* Addresses are crossed out in the collector's buffer, and that is all.
LEMMA CopiesKept ==
    ASSUME NEW banks, NEW map, NEW cps, CopiesRight(banks, map, cps),
           NEW banks2, \A b \in Bank : /\ DOMAIN banks2[b].GCbuf_lpn = DOMAIN banks[b].GCbuf_lpn
                                       /\ \A i \in DOMAIN banks[b].GCbuf_lpn :
                                            banks2[b].GCbuf_lpn[i] \in {banks[b].GCbuf_lpn[i], RSP_INVALID_LPN}
    PROVE  CopiesRight(banks2, map, cps)
<1>1. \A l \in LPN : l # RSP_INVALID_LPN
  BY FlashFacts
<1> QED
  BY <1>1 DEF CopiesRight

\* A step that changes none of it.
LEMMA IdleMap ==
    ASSUME MapInv, UNCHANGED <<nand, vpn, copies, twrite>>, Control'
    PROVE  MapInv'
BY DEF MapInv

LEMMA NoPageMap ==
    ASSUME MapInv, NoPage
    PROVE  MapInv'
<1>1. Control'
  BY DEF NoPage, MapInv, Control
<1> QED
  BY <1>1, IdleMap DEF NoPage

\* The second half of a command's call is empty.
LEMMA CommandMap ==
    ASSUME MapInv, Command
    PROVE  MapInv'
<1>1. Control'
  BY DEF Command, MapInv, Control
<1> QED
  BY <1>1, IdleMap DEF Command

\* After one half of the call, the next one; the call goes on whatever the collector did.
LEMMA NextHalfControl ==
    ASSUME Control, NextHalf
    PROVE  Control'
<1>1. pc' = "page" /\ kept' = (loop = 0 /\ kept) /\ reads' = 0
  BY DEF NextHalf
<1>2. kept' \in BOOLEAN
  BY <1>1, Zenon
<1>3. NUM_READ_PER_INCGC \in Nat
  BY FlashConstants DEF FlashConstants
<1>4. reads' \in 0 .. NUM_READ_PER_INCGC
  BY <1>1, <1>3
<1> QED
  BY <1>1, <1>2, <1>4 DEF Control

LEMMA IncrementalGCMap ==
    ASSUME MapInv, incremental_GC
    PROVE  MapInv'
<1>1. UNCHANGED <<nand, vpn, copies, twrite>> /\ Control
  BY DEF incremental_GC, MapInv
<1>2. Control'
  <2>1. CASE NextHalf
    BY <1>1, <2>1, NextHalfControl
  <2>2. CASE ~NextHalf
    <3>1. pc' = "gc_victim" /\ reads' = NUM_READ_PER_INCGC /\ kept' = kept
      BY <2>2 DEF incremental_GC
    <3>2. NUM_READ_PER_INCGC \in Nat /\ NUM_READ_PER_INCGC > 0
      BY FlashConstants DEF FlashConstants
    <3> QED
      BY <1>1, <3>1, <3>2 DEF Control
  <2> QED
    BY <2>1, <2>2
<1> QED
  BY <1>1, <1>2, IdleMap

\* A victim is there, so the collector goes on.
LEMMA NothingToEraseMap ==
    ASSUME MapInv, NothingToErase
    PROVE  MapInv'
<1>1. UNCHANGED <<nand, vpn, copies, twrite>> /\ Control
  BY DEF NothingToErase, MapInv
<1>2. pc = "gc_erase" /\ nand[GCBank].victim_list # <<>>
  BY <1>1 DEF NothingToErase, Control
<1>3. Control'
  <2>1. CASE NextHalf
    BY <1>1, <2>1, NextHalfControl
  <2>2. CASE ~NextHalf
    <3>1. pc' = "gc_victim" /\ reads # 1 /\ reads' = reads - 1 /\ kept' = kept
      BY <1>2, <2>2 DEF NothingToErase
    <3>2. NUM_READ_PER_INCGC \in Nat /\ reads > 0 /\ reads \in 0 .. NUM_READ_PER_INCGC
      BY <1>1, <1>2, FlashConstants DEF Control, FlashConstants
    <3>3. reads' \in 0 .. NUM_READ_PER_INCGC /\ reads' > 0
      BY <3>1, <3>2
    <3> QED
      BY <1>1, <3>1, <3>3 DEF Control
  <2> QED
    BY <2>1, <2>2
<1> QED
  BY <1>1, <1>3, IdleMap

\* A free block holds nothing, so the log can go on in it.
LEMMA AssignFailsMap ==
    ASSUME FTLInv, MapInv, AssignFails
    PROVE  MapInv'
<1> DEFINE b == cur_write_bank
           n == nand[b]
<1>1. /\ UNCHANGED <<nand, vpn, copies, twrite, kept, reads>> /\ pc = "program"
      /\ pc' = Obstacle(n, write_type) /\ pc' # "none"
  BY DEF AssignFails
<1>2. b \in Bank /\ BankInv(n) /\ BankFlash(b, n, vpn)
  BY DEF FTLInv, Ranges, SlotInv, MapInv, FlashInv
<1> HIDE DEF b, n
<1>3. ASSUME n.free_list # <<>>
      PROVE  n.block_list[Head(n.free_list)].vcount \in {0, VC_ERASED}
  <2> DEFINE blk == Head(n.free_list)
  <2>1. blk \in Held(n, "free")
    BY <1>2, <1>3, ListTail, ListsAre DEF BankInv, Conserved, Held
  <2> HIDE DEF blk
  <2>2. blk \in Block
    BY <1>2, <2>1, HeldBlocks, ListsAre DEF BankInv
  <2>3. Cardinality(Into(vpn, b, blk)) = 0
    BY <1>2, <2>1, FS_EmptySet DEF BankFlash, FreeIsEmpty
  <2>4. n.block_list[blk].vcount \in {0, VC_ERASED}
    BY <1>2, <2>2, <2>3 DEF BankFlash, VcountsRight
  <2> QED
    BY <2>4 DEF blk
<1>4. pc' \in {"inter_GC", "overrun"}
  BY <1>1, <1>3 DEF Obstacle
<1>5. Control'
  BY <1>1, <1>4 DEF MapInv, Control
<1> QED
  BY <1>1, <1>5, IdleMap

\* The same, for a step that leaves the map and the write buffers alone.
LEMMA TellStays ==
    ASSUME NEW banks, NEW map, NEW tw, RemapTold(banks, map, tw),
           NEW banks2, NEW map2, NEW tw2, tw2 = tw, map2 = map, \A b \in Bank : banks2[b].writebuf = banks[b].writebuf,
           \A s \in SlotLPN : \A b \in Bank, blk \in Block, off \in Offset : map[s] = Flash(b, blk, off) =>
                banks2[b].block_list[blk].spare[off] = banks[b].block_list[blk].spare[off]
    PROVE  RemapTold(banks2, map2, tw2)
BY DEF RemapTold

\* The collector takes a victim, or sees that it has one to erase.
LEMMA ChooseVictimMap ==
    ASSUME FTLInv, FTLInv', MapInv, ChooseVictim
    PROVE  MapInv'
<1>1. UNCHANGED <<vpn, copies, twrite, cur_write_bank, kept, reads>> /\ pc = "gc_victim"
  BY DEF ChooseVictim
<1>2. GCBank \in Bank /\ GCBank' = GCBank
  BY <1>1, GCBankIsBank DEF FTLInv, GCBank
<1>3. /\ FlashInv(nand, vpn) /\ Rested(nand[GCBank]) /\ BuffersMapped(nand, vpn)
      /\ RemapTold(nand, vpn, twrite) /\ CopiesRight(nand, vpn, copies) /\ Control
      /\ \A b \in Bank : Rested(nand[b])
  BY <1>2 DEF MapInv
<1>4. /\ FlashInv(nand', vpn') /\ Rested(nand'[GCBank])
      /\ pc' \in {"exhausted", "gc_erase", "gc_read"}
      /\ pc' # "exhausted" => nand'[GCBank].victim_list # <<>>
      /\ pc' = "gc_read" => nand'[GCBank].block_list[nand'[GCBank].victim_list[1]].vcount # 0
      /\ \A c \in Bank : c # GCBank => nand'[c] = nand[c]
      /\ \A c \in Bank : nand'[c].block_list = nand[c].block_list /\ nand'[c].GCbuf_lpn = nand[c].GCbuf_lpn
                         /\ nand'[c].writebuf = nand[c].writebuf
  BY <1>3, ChooseVictimFlash
<1>5. \A b \in Bank : Rested(nand'[b])
  BY <1>3, <1>4
<1>6. \A b \in Bank : BankInv(nand[b])
  BY DEF FTLInv, SlotInv
<1>7. BuffersMapped(nand', vpn')
  BY ONLY <1>1, <1>3, <1>4, <1>6, BuffersKept
<1>8. RemapTold(nand', vpn', twrite')
  <2>1. /\ RemapTold(nand, vpn, twrite) /\ vpn' = vpn /\ twrite' = twrite
        /\ \A s \in SlotLPN : \A b \in Bank, blk \in Block, off \in Offset : vpn[s] = Flash(b, blk, off) =>
                nand'[b].block_list[blk].spare[off] = nand[b].block_list[blk].spare[off]
        /\ \A b \in Bank : nand'[b].writebuf = nand[b].writebuf
    BY <1>1, <1>3, <1>4
  <2> QED
    BY ONLY <2>1, TellStays
<1>9. CopiesRight(nand', vpn', copies')
  BY ONLY <1>1, <1>3, <1>4, CopiesKept
<1>10. Control'
  BY <1>1, <1>2, <1>3, <1>4 DEF Control
<1>11. DOMAIN copies' = LPN
  BY <1>1 DEF MapInv
<1> QED
  BY <1>4, <1>5, <1>7, <1>8, <1>9, <1>10, <1>11 DEF MapInv

\* The collector erases a victim to which nothing is mapped.
LEMMA EraseVictimMap ==
    ASSUME FTLInv, FTLInv', MapInv, EraseVictim
    PROVE  MapInv'
<1>1. UNCHANGED <<vpn, twrite, cur_write_bank>> /\ (NextHalf \/ UNCHANGED <<kept, reads>>)
  BY DEF EraseVictim
<1>2. GCBank \in Bank
  BY GCBankIsBank DEF FTLInv
<1>3. /\ FlashInv(nand, vpn) /\ Rested(nand[GCBank]) /\ BuffersMapped(nand, vpn)
      /\ RemapTold(nand, vpn, twrite) /\ CopiesRight(nand, vpn, copies) /\ Control
      /\ \A b \in Bank : Rested(nand[b])
  BY <1>2 DEF MapInv
<1>4. /\ FlashInv(nand', vpn') /\ Rested(nand'[GCBank])
      /\ pc' = "exhausted" \/ NextHalf
      /\ \A c \in Bank : c # GCBank => nand'[c] = nand[c]
      /\ \A c \in Bank : nand'[c].GCbuf_lpn = nand[c].GCbuf_lpn /\ nand'[c].writebuf = nand[c].writebuf
      /\ \A l \in LPN : \E vt \in Block :
            /\ Into(vpn, GCBank, vt) = {}
            /\ copies'[l] \in {copies[l], {c \in copies[l] : \A off \in Offset : c # Flash(GCBank, vt, off)}}
      /\ \A l \in LPN, c \in Bank, blk \in Block : InBlock(vpn[l], c, blk) =>
            nand'[c].block_list[blk].spare = nand[c].block_list[blk].spare
  BY <1>3, EraseVictimFlash
<1>5. \A b \in Bank : Rested(nand'[b])
  BY <1>3, <1>4
<1>6. \A b \in Bank : BankInv(nand[b])
  BY DEF FTLInv, SlotInv
<1>7. BuffersMapped(nand', vpn')
  BY ONLY <1>1, <1>3, <1>4, <1>6, BuffersKept
<1>8. RemapTold(nand', vpn', twrite')
  <2>1. \A s \in SlotLPN : \A b \in Bank, blk \in Block, off \in Offset : vpn[s] = Flash(b, blk, off) =>
            nand'[b].block_list[blk].spare[off] = nand[b].block_list[blk].spare[off]
    BY <1>4, FlashIsIn DEF LPN
  <2>2. RemapTold(nand, vpn, twrite) /\ vpn' = vpn /\ twrite' = twrite /\ \A b \in Bank : nand'[b].writebuf = nand[b].writebuf
    BY <1>1, <1>3, <1>4
  <2> QED
    BY ONLY <2>1, <2>2, TellStays
<1>9. CopiesRight(nand', vpn', copies')
  <2>1. ASSUME NEW l \in LPN
        PROVE  /\ copies'[l] \subseteq copies[l]
               /\ vpn[l] \in copies[l] => vpn[l] \in copies'[l]
               /\ \A b, i : GCBuffered(b, i) \in copies[l] => GCBuffered(b, i) \in copies'[l]
    <3>1. PICK vt \in Block :
            /\ Into(vpn, GCBank, vt) = {}
            /\ copies'[l] \in {copies[l], {c \in copies[l] : \A off \in Offset : c # Flash(GCBank, vt, off)}}
      BY <1>4
    <3>2. \A off \in Offset : vpn[l] # Flash(GCBank, vt, off)
      BY <1>2, <3>1, FlashIsIn DEF Into
    <3>3. \A b, i, off : GCBuffered(b, i) # Flash(GCBank, vt, off)
      <4>1. \A b, i : DOMAIN GCBuffered(b, i) = {"bank", "gc"}
        BY DEF GCBuffered
      <4>2. \A off : DOMAIN Flash(GCBank, vt, off) = {"bank", "block", "off"}
        BY DEF Flash
      <4>3. "gc" \notin {"bank", "block", "off"}
        OBVIOUS
      <4> QED
        BY <4>1, <4>2, <4>3
    <3> QED
      BY <3>1, <3>2, <3>3
  <2>2. \A l \in LPN : IF vpn'[l] = VC_MAX THEN copies'[l] = {} ELSE vpn'[l] \in copies'[l]
    BY <1>1, <1>3, <2>1 DEF CopiesRight
  <2>3. \A l \in LPN, b \in Bank : \A i \in DOMAIN nand'[b].GCbuf_lpn :
            nand'[b].GCbuf_lpn[i] = l => GCBuffered(b, i) \in copies'[l]
    BY <1>3, <1>4, <2>1 DEF CopiesRight
  <2>4. \A l \in LPN : copies'[l] \subseteq VPN \cup BufferVPN \cup GCPlace
    BY <1>3, <2>1 DEF CopiesRight
  <2> QED
    BY <2>2, <2>3, <2>4 DEF CopiesRight
<1>10. Control'
  <2>1. CASE NextHalf
    BY <1>3, <2>1, NextHalfControl
  <2>2. CASE ~NextHalf
    BY <1>1, <1>3, <1>4, <2>2 DEF Control
  <2> QED
    BY <2>1, <2>2
<1>11. DOMAIN copies' = LPN
  BY DEF MapInv, EraseVictim
<1> QED
  BY <1>4, <1>5, <1>7, <1>8, <1>9, <1>10, <1>11 DEF MapInv

-----------------------------------------------------------------------------
(***************************************************************************)
(* A round of the collector and the places of the newest data.             *)
(***************************************************************************)
\* The bank after a round, as far as the rest of the invariant looks at it.
LEMMA RoundBank ==
    ASSUME MapApart(vpn), NEW blk, NEW page, NEW offs, NEW q, NEW a, NEW e, GCRound(blk, page, offs, q, a, e),
           NEW n, n = nand[GCBank], NEW target, target = GCTarget(n).cur_gc_vpn
    PROVE  /\ e.writebuf = n.writebuf /\ e.victim_list = n.victim_list
           /\ e.GCbuf_lpn = IF Len(q) >= SuperPage THEN Behind(q) ELSE q
           /\ \A k \in Held(n, "RW_log") : e.block_list[k].spare = n.block_list[k].spare
           /\ target.block \in Block /\ target.page \in 0 .. LAST
<1> DEFINE b == GCBank
           count == Len(offs)
<1>0. /\ b \in Bank /\ BankInv(n) /\ MapApart(vpn) /\ BankFlash(b, n, vpn) /\ q \in Seq(Home)
      /\ NeedsBlock(n) => n.GC_BLK # VC_MAX
      /\ a = IF Len(q) >= SuperPage THEN AfterWrite(n, q) ELSE AfterRead(n, q, count)
      /\ DOMAIN a = BankField /\ RoundEnds(a, blk, page, e)
  BY DEF GCRound
<1> HIDE DEF b, count
<1> DEFINE c == GCTarget(n)
           w == write_gc_buffer(n, SubSeq(q, 1, SuperPage))
           long == Len(q) >= SuperPage
<1>1. /\ long => a = [w EXCEPT !.GCbuf_lpn = Behind(q), !.num_gcbuffed = Len(Behind(q))]
      /\ ~long => a = [n EXCEPT !.GCbuf_lpn = q, !.num_gcbuffed = @ + count]
  BY <1>0 DEF AfterWrite, AfterRead
<1>2. \A f \in BankField \ {"cur_vt_vpn"} : e[f] = a[f]
  BY <1>0 DEF RoundEnds
<1>3. BankInv(c) /\ Target(b, c, vpn)
      /\ \A f \in BankField \ {"cur_gc_vpn", "GC_BLK", "data_list", "block_list"} : c[f] = n[f]
  BY ONLY <1>0, TargetIs DEF c
<1>4. target = c.cur_gc_vpn /\ (long <=> Len(q) >= SuperPage)
  OBVIOUS
<1>5. \A k \in Block : c.block_list[k].spare = n.block_list[k].spare
  <2>1. DOMAIN n = BankField /\ DOMAIN n.block_list = Block /\ \A k \in Block : DOMAIN n.block_list[k] = InfoField
    BY <1>0 DEF BankInv, BankShape
  <2>2. CASE NeedsBlock(n)
    <3>1. c.block_list = [n.block_list EXCEPT ![n.GC_BLK].vcount = 0]
      BY <2>1, <2>2 DEF GCTarget, BankField
    <3> QED
      BY <2>1, <3>1 DEF InfoField
  <2>3. CASE ~NeedsBlock(n)
    <3>1. c.block_list = n.block_list
      BY <2>1, <2>3 DEF GCTarget, BankField
    <3> QED
      BY <3>1
  <2> QED
    BY <2>2, <2>3
<1>6. c.cur_gc_vpn.block \in Held(c, "data") /\ c.cur_gc_vpn.page \in 0 .. LAST
  BY <1>3 DEF Target
<1>7. c.cur_gc_vpn.block \in Block
      /\ \A k \in Held(n, "RW_log") : k \in Block /\ k # c.cur_gc_vpn.block
  <2>1. Held(c, "RW_log") = Held(n, "RW_log")
    <3>1. c.RW_log_list = n.RW_log_list
      BY <1>3 DEF BankField
    <3> HIDE DEF c
    <3> QED
      BY ONLY <3>1, ListsAre DEF Held
  <2>2. Conserved(c)
    BY <1>3 DEF BankInv
  <2>3. Held(c, "data") \subseteq Block /\ \A k \in Held(c, "data") : k \notin Held(c, "RW_log")
    BY <2>2, HeldBlocks, ListsAre
  <2>4. Held(c, "RW_log") \subseteq Block
    BY <2>2, HeldBlocks, ListsAre
  <2> QED
    BY <1>6, <2>1, <2>3, <2>4
<1>8. DOMAIN n = BankField
  BY <1>0 DEF BankInv, BankShape
<1> DEFINE lpns == SubSeq(q, 1, SuperPage)
           buf == PageBuffer(lpns)
           cnt == Cardinality(Mapped(buf))
<1>9. /\ DOMAIN w = BankField
      /\ \A f \in BankField \ {"block_list"} : w[f] = c[f]
      /\ \A k \in Block : w.block_list[k] =
            IF k = c.cur_gc_vpn.block
            THEN Programmed(PaidInfo(c, k, cnt), c.cur_gc_vpn.page, buf)
            ELSE PaidInfo(c, k, cnt)
  <2>1. c = GCTarget(n) /\ BankInv(c) /\ c.cur_gc_vpn.block \in Block
        /\ buf = PageBuffer(lpns) /\ cnt = Cardinality(Mapped(buf)) /\ w = write_gc_buffer(n, lpns)
    BY <1>3, <1>7
  <2> HIDE DEF c, w, lpns, buf, cnt
  <2> QED
    BY ONLY <2>1, WrittenBank
<1> HIDE DEF c, w, long, lpns, buf, cnt
<1>10. CASE long
  <2>1. /\ \A f \in BankField \ {"GCbuf_lpn", "num_gcbuffed"} : a[f] = w[f]
        /\ a.GCbuf_lpn = Behind(q)
    BY <1>1, <1>9, <1>10 DEF BankField
  <2>2. e.GCbuf_lpn = Behind(q) /\ e.block_list = w.block_list
    BY <1>2, <2>1 DEF BankField
  <2>3. e.writebuf = n.writebuf /\ e.victim_list = n.victim_list
    BY <1>2, <1>3, <1>9, <2>1 DEF BankField
  <2>4. ASSUME NEW k \in Held(n, "RW_log")
        PROVE  e.block_list[k].spare = n.block_list[k].spare
    <3>1. k \in Block /\ e.block_list[k] = PaidInfo(c, k, cnt)
      BY <1>7, <1>9, <2>2
    <3>2. PaidInfo(c, k, cnt).spare = c.block_list[k].spare
      <4>1. SameFields(c.block_list[k], PaidInfo(c, k, cnt), {"spare", "remained_remap_cnt", "vbitmap"})
        BY <1>3, <3>1, PaidInfoIs
      <4> QED
        BY <4>1 DEF SameFields
    <3> QED
      BY <1>5, <3>1, <3>2
  <2> QED
    BY <1>4, <1>6, <1>7, <1>10, <2>2, <2>3, <2>4
<1>11. CASE ~long
  <2>1. /\ \A f \in BankField \ {"GCbuf_lpn", "num_gcbuffed"} : a[f] = n[f]
        /\ a.GCbuf_lpn = q
    BY <1>1, <1>8, <1>11 DEF BankField
  <2>2. /\ e.GCbuf_lpn = q /\ e.block_list = n.block_list
        /\ e.writebuf = n.writebuf /\ e.victim_list = n.victim_list
    BY <1>2, <2>1 DEF BankField
  <2> QED
    BY <1>4, <1>6, <1>7, <1>11, <2>2
<1> QED
  BY <1>10, <1>11

\* Where the map leads for the pages of the buffer before the round.
LEMMA RoundHeld ==
    ASSUME NEW b \in Bank, NEW n, BankInv(n), NEW map, BankFlash(b, n, map),
           NEW blk, NEW page, NEW offs, ReadAt(b, n, map, blk, page, offs), blk \in Block,
           NEW q, q = BufferedRead(n.GCbuf_lpn, n.block_list[blk].spare, offs),
           NEW i \in DOMAIN q, q[i] \in LPN
    PROVE  /\ InBank(map[q[i]], b)
           /\ i \in Nat /\ i > 0 /\ Len(n.GCbuf_lpn) \in Nat
           /\ i <= Len(n.GCbuf_lpn) => i \in DOMAIN n.GCbuf_lpn /\ n.GCbuf_lpn[i] = q[i]
           /\ i > Len(n.GCbuf_lpn) => map[q[i]] = Flash(b, blk, offs[i - Len(n.GCbuf_lpn)])
<1> DEFINE g == n.GCbuf_lpn
           spare == n.block_list[blk].spare
<1>1. g \in Seq(Home) /\ offs \in Seq(Offset) /\ (\A off \in Offset : spare[off] \in Home)
      /\ q = BufferedRead(g, spare, offs)
  BY DEF BankInv, HomeOnly, ReadAt, IsRead
<1>2. \A j \in DOMAIN offs : map[spare[offs[j]]] = Flash(b, blk, offs[j]) /\ offs[j] \in Offset
  <2>1. \A j \in DOMAIN offs : offs[j] \in Offset
    BY <1>1
  <2> QED
    BY <2>1 DEF ReadAt, IsRead
<1>3. g = n.GCbuf_lpn
  OBVIOUS
<1> HIDE DEF g, spare
<1>4. /\ q \in Seq(Home) /\ DOMAIN q = 1 .. Len(q) /\ Len(q) \in Nat
      /\ Len(g) \in Nat /\ DOMAIN g = 1 .. Len(g)
      /\ \A k \in DOMAIN g : k \in DOMAIN q /\ q[k] = g[k]
      /\ \A k \in DOMAIN q : k \notin DOMAIN g =>
            k > Len(g) /\ k - Len(g) \in DOMAIN offs /\ q[k] = spare[offs[k - Len(g)]]
  <2>1. /\ q \in Seq(Home) /\ DOMAIN q = 1 .. Len(q)
        /\ Len(g) \in Nat /\ DOMAIN g = 1 .. Len(g)
        /\ \A k \in DOMAIN g : k \in DOMAIN q /\ q[k] = g[k]
        /\ \A k \in DOMAIN q : k \notin DOMAIN g =>
            k > Len(g) /\ k - Len(g) \in DOMAIN offs /\ q[k] = spare[offs[k - Len(g)]]
    BY ONLY <1>1, BufferRead
  <2> QED
    BY <2>1, LenProperties
<1>5. i \in Nat /\ i > 0
  BY <1>4
<1>6. CASE i \in DOMAIN g
  <2>1. g[i] = q[i] /\ i <= Len(g)
    BY <1>4, <1>6
  <2>2. q[i] \in GCHeld(n)
    BY <1>3, <1>6, <2>1 DEF GCHeld
  <2>3. PICK k \in Held(n, "victim"), off \in Offset : map[q[i]] = Flash(b, k, off)
    BY <2>2 DEF BankFlash, Collecting, HeldIsRead
  <2>4. k \in Block
    BY HeldBlocks, ListsAre DEF BankInv
  <2>5. InBank(map[q[i]], b)
    BY <2>3, <2>4, FlashIsIn
  <2> QED
    BY <1>3, <1>4, <1>5, <1>6, <2>1, <2>5
<1>7. CASE i \notin DOMAIN g
  <2>1. i > Len(g) /\ i - Len(g) \in DOMAIN offs /\ q[i] = spare[offs[i - Len(g)]]
    BY <1>4, <1>7
  <2>2. map[q[i]] = Flash(b, blk, offs[i - Len(g)]) /\ offs[i - Len(g)] \in Offset
    BY <1>2, <2>1
  <2>3. InBank(map[q[i]], b)
    BY <2>2, FlashIsIn
  <2>4. ~(i <= Len(g))
    BY <1>4, <1>5, <2>1
  <2> QED
    BY <1>3, <1>4, <1>5, <2>1, <2>2, <2>3, <2>4
<1> QED
  BY <1>6, <1>7

\* The collector reads a page of its victim, and writes its buffer when that is full.
LEMMA GCReadMap ==
    ASSUME FTLInv, FTLInv', MapInv, GCRead
    PROVE  MapInv'
<1> DEFINE b == GCBank
           n == nand[b]
<1>1. pc = "gc_read" /\ UNCHANGED <<twrite, cur_write_bank>>
  BY DEF GCRead
<1>2. b \in Bank /\ GCBank' = b /\ b = GCBank /\ n = nand[b]
  BY <1>1, GCBankIsBank DEF FTLInv, GCBank
<1>3. /\ FlashInv(nand, vpn) /\ BuffersMapped(nand, vpn)
      /\ RemapTold(nand, vpn, twrite) /\ CopiesRight(nand, vpn, copies) /\ Control
      /\ \A c \in Bank : Rested(nand[c])
  BY DEF MapInv
<1>4. Rested(nand[GCBank]) /\ nand[GCBank].block_list[nand[GCBank].victim_list[1]].vcount # 0
  BY <1>1, <1>2, <1>3 DEF Control
<1>5. /\ FlashInv(nand', vpn') /\ Rested(nand'[b]) /\ pc' # "stopped"
      /\ \A c \in Bank : c # b => nand'[c] = nand[c]
  BY <1>3, <1>4, GCReadFlash
<1>6. PICK blk, page, offs, q, a, e : GCRound(blk, page, offs, q, a, e)
  BY <1>3, <1>4, GCRoundIs
<1> DEFINE writes == Len(q) >= SuperPage
           held == Len(n.GCbuf_lpn)
           target == GCTarget(n).cur_gc_vpn
           Place(i) == IF ~writes THEN GCBuffered(b, i)
                       ELSE IF i > SuperPage THEN GCBuffered(b, i - SuperPage)
                       ELSE Flash(b, target.block, OffsetOf(target.page, i - 1))
           Holds(l, i) == \/ i <= held /\ GCBuffered(b, i) \in copies[l]
                          \/ i > held /\ Flash(b, blk, offs[i - held]) \in copies[l]
<1>7. \A l \in LPN : copies'[l] =
                {c \in copies[l] : \A i \in 1 .. held : c # GCBuffered(b, i)}
                \cup {Place(i) : i \in {j \in DOMAIN q : Holds(l, j)}}
  BY <1>6 DEF GCRound
<1>8. ASSUME NEW l \in LPN
      PROVE  /\ \A c \in copies'[l] : c \in copies[l] \/ \E i \in DOMAIN q : Holds(l, i) /\ c = Place(i)
             /\ \A c \in copies[l] : (\A i \in 1 .. held : c # GCBuffered(b, i)) => c \in copies'[l]
             /\ \A i \in DOMAIN q : Holds(l, i) => Place(i) \in copies'[l]
  <2> HIDE DEF Place, Holds, held
  <2> QED
    BY <1>7
<1>9. \A i : Place(i) = IF ~writes THEN GCBuffered(b, i)
                        ELSE IF i > SuperPage THEN GCBuffered(b, i - SuperPage)
                        ELSE Flash(b, target.block, OffsetOf(target.page, i - 1))
  OBVIOUS
<1>10. \A l, i : Holds(l, i) <=> \/ i <= held /\ GCBuffered(b, i) \in copies[l]
                                 \/ i > held /\ Flash(b, blk, offs[i - held]) \in copies[l]
  OBVIOUS
<1>11. target = GCTarget(n).cur_gc_vpn /\ held = Len(n.GCbuf_lpn) /\ (writes <=> Len(q) >= SuperPage)
  OBVIOUS
<1>12. /\ BankInv(n) /\ BankFlash(b, n, vpn) /\ MapApart(vpn)
       /\ ReadAt(b, n, vpn, blk, page, offs)
       /\ q = BufferedRead(n.GCbuf_lpn, n.block_list[blk].spare, offs)
       /\ NeedsBlock(n) => n.GC_BLK # VC_MAX
       /\ a = IF Len(q) >= SuperPage THEN AfterWrite(n, q) ELSE AfterRead(n, q, Len(offs))
       /\ BankInv(e) /\ RoundEnds(a, blk, page, e) /\ DOMAIN a = BankField
       /\ nand'[b] = e
       /\ held < SuperPage /\ held \in Nat /\ Len(offs) \in Nat /\ Len(offs) <= 2
       /\ Len(q) = held + Len(offs) /\ q \in Seq(Home)
       /\ IF writes THEN Collected(vpn, vpn', b, target, q) ELSE \A l \in LPN : vpn'[l] = vpn[l]
       /\ pc' = "stopped" \/ NextHalf \/ (pc' = "gc_erase" /\ UNCHANGED <<kept, reads>>)
  <2>1. /\ BankInv(n) /\ BankFlash(b, n, vpn)
        /\ ReadAt(b, n, vpn, blk, page, offs)
        /\ q = BufferedRead(n.GCbuf_lpn, n.block_list[blk].spare, offs)
        /\ NeedsBlock(n) => n.GC_BLK # VC_MAX
        /\ a = IF Len(q) >= SuperPage THEN AfterWrite(n, q) ELSE AfterRead(n, q, Len(offs))
        /\ BankInv(e) /\ RoundEnds(a, blk, page, e) /\ DOMAIN a = BankField
        /\ nand'[b] = e
        /\ held < SuperPage /\ held \in Nat /\ Len(offs) \in Nat /\ Len(offs) <= 2
        /\ Len(q) = held + Len(offs) /\ q \in Seq(Home)
    BY <1>6 DEF GCRound
  <2>2. IF writes THEN Collected(vpn, vpn', b, target, q) ELSE \A l \in LPN : vpn'[l] = vpn[l]
    BY <1>6 DEF GCRound
  <2>3. pc' = "stopped" \/ NextHalf \/ (pc' = "gc_erase" /\ UNCHANGED <<kept, reads>>)
    BY <1>6 DEF GCRound
  <2>4. MapApart(vpn)
    BY <1>3 DEF FlashInv
  <2> HIDE DEF b, n, writes, held, target
  <2> QED
    BY <2>1, <2>2, <2>3, <2>4
<1> HIDE DEF b, n, writes, held, target, Place, Holds
<1>13. /\ e.writebuf = n.writebuf /\ e.victim_list = n.victim_list
       /\ e.GCbuf_lpn = IF writes THEN Behind(q) ELSE q
       /\ \A k \in Held(n, "RW_log") : e.block_list[k].spare = n.block_list[k].spare
       /\ target.block \in Block /\ target.page \in 0 .. LAST
  <2>1. /\ MapApart(vpn) /\ GCRound(blk, page, offs, q, a, e) /\ n = nand[GCBank]
        /\ target = GCTarget(n).cur_gc_vpn
    BY <1>2, <1>6, <1>11, <1>12
  <2>2. /\ e.writebuf = n.writebuf /\ e.victim_list = n.victim_list
        /\ e.GCbuf_lpn = IF Len(q) >= SuperPage THEN Behind(q) ELSE q
        /\ \A k \in Held(n, "RW_log") : e.block_list[k].spare = n.block_list[k].spare
        /\ target.block \in Block /\ target.page \in 0 .. LAST
    BY ONLY <2>1, RoundBank
  <2> QED
    BY <1>11, <2>2
<1>14. blk \in Block
  BY <1>2, <1>12, ReadRange
<1>15. \A i \in DOMAIN q : q[i] \in LPN =>
           /\ InBank(vpn[q[i]], b)
           /\ i \in Nat /\ i > 0
           /\ i <= held => i \in DOMAIN n.GCbuf_lpn /\ n.GCbuf_lpn[i] = q[i]
           /\ i > held => vpn[q[i]] = Flash(b, blk, offs[i - held])
  <2>1. /\ b \in Bank /\ BankInv(n) /\ BankFlash(b, n, vpn)
        /\ ReadAt(b, n, vpn, blk, page, offs) /\ blk \in Block
        /\ q = BufferedRead(n.GCbuf_lpn, n.block_list[blk].spare, offs)
    BY <1>2, <1>12, <1>14
  <2> QED
    BY ONLY <1>11, <2>1, RoundHeld
<1>16. SuperPage \in Nat /\ SuperPage >= 2 /\ 1 .. SuperPage \subseteq Nat
  BY FlashFacts DEF SuperPage
<1>17. Len(q) \in Nat /\ DOMAIN q = 1 .. Len(q) /\ Len(q) < SuperPage + 2 /\ DOMAIN n.GCbuf_lpn = 1 .. held
  <2>1. Len(q) \in Nat /\ DOMAIN q = 1 .. Len(q)
    BY <1>12, LenProperties
  <2>2. Len(q) < SuperPage + 2
    <3> DEFINE L == Len(q)
               o == Len(offs)
    <3>1. L = held + o /\ o \in Nat /\ o <= 2 /\ held \in Nat /\ held < SuperPage
      BY <1>12
    <3> HIDE DEF L, o
    <3>2. L < SuperPage + 2
      BY <1>16, <3>1
    <3> QED
      BY <3>2 DEF L
  <2>3. DOMAIN n.GCbuf_lpn = 1 .. held
    BY <1>11, <1>12, LenProperties DEF BankInv, HomeOnly
  <2> QED
    BY <2>1, <2>2, <2>3
\* Where the pages of the buffer are afterwards.
<1>18. \A i \in DOMAIN q : q[i] \in LPN => Place(i) \in copies'[q[i]]
  <2> SUFFICES ASSUME NEW i \in DOMAIN q, NEW l \in LPN, q[i] = l
               PROVE  Place(i) \in copies'[l]
    OBVIOUS
  <2>1. /\ InBank(vpn[l], b) /\ i \in Nat
        /\ i <= held => i \in DOMAIN n.GCbuf_lpn /\ n.GCbuf_lpn[i] = l
        /\ i > held => vpn[l] = Flash(b, blk, offs[i - held])
    BY <1>15
  <2>2. vpn[l] # VC_MAX
    BY <2>1 DEF InBank, InFlash
  <2>3. vpn[l] \in copies[l]
    BY <1>3, <2>2 DEF CopiesRight
  <2>4. i <= held => GCBuffered(b, i) \in copies[l]
    BY <1>2, <1>3, <2>1 DEF CopiesRight
  <2>5. i <= held \/ i > held
    BY <1>12, <2>1
  <2>6. Holds(l, i)
    BY <1>10, <2>1, <2>3, <2>4, <2>5
  <2> QED
    BY <1>8, <2>6
<1>19. ASSUME NEW l \in LPN, NEW i \in DOMAIN q, Holds(l, i)
       PROVE  vpn[l] # VC_MAX /\ Place(i) \in VPN \cup BufferVPN \cup GCPlace
  <2>1. copies[l] # {}
    BY <1>10, <1>19
  <2>2. vpn[l] # VC_MAX
    BY <1>3, <2>1 DEF CopiesRight
  <2>3. i \in Nat /\ i > 0 /\ i <= Len(q)
    BY <1>17
  <2>4. CASE ~writes
    <3>1. i \in 1 .. SuperPage
      BY <1>11, <1>16, <1>17, <2>3, <2>4
    <3> QED
      BY <1>2, <1>9, <2>2, <2>4, <3>1 DEF GCBuffered, GCPlace
  <2>5. CASE writes /\ i > SuperPage
    <3>1. i - SuperPage \in 1 .. SuperPage
      BY <1>16, <1>17, <2>3, <2>5
    <3> QED
      BY <1>2, <1>9, <2>2, <2>5, <3>1 DEF GCBuffered, GCPlace
  <2>6. CASE writes /\ ~(i > SuperPage)
    <3>1. i - 1 \in Position
      BY <1>16, <2>3, <2>6 DEF Position
    <3>2. OffsetOf(target.page, i - 1) \in Offset
      BY <1>13, <3>1, OffsetInBlock
    <3> QED
      BY <1>2, <1>9, <1>13, <2>2, <2>6, <3>2 DEF Flash, VPN
  <2> QED
    BY <2>4, <2>5, <2>6
\* The map is the same but for the pages that were written.
<1>20. ASSUME NEW l \in LPN
       PROVE  \/ vpn'[l] = vpn[l]
              \/ /\ InBank(vpn[l], b) /\ InFlash(vpn'[l])
                 /\ \E i \in DOMAIN q : q[i] = l /\ vpn'[l] = Place(i)
  <2>1. CASE writes /\ l \in FrontOf(q, SuperPage)
    <3>1. PICK i \in 1 .. SuperPage : q[i] = l /\ vpn'[l] = Flash(b, target.block, OffsetOf(target.page, i - 1))
      BY <1>12, <2>1 DEF Collected
    <3>2. i \in DOMAIN q /\ ~(i > SuperPage) /\ i - 1 \in Position
      BY <1>11, <1>16, <1>17, <2>1 DEF Position
    <3>3. vpn'[l] = Place(i)
      BY <1>9, <2>1, <3>1, <3>2
    <3>4. OffsetOf(target.page, i - 1) \in Offset
      BY <1>13, <3>2, OffsetInBlock
    <3>5. InFlash(vpn'[l])
      BY <1>2, <1>13, <3>1, <3>4, FlashIsIn
    <3>6. InBank(vpn[l], b)
      BY <1>15, <3>1, <3>2
    <3> QED
      BY <3>1, <3>2, <3>3, <3>5, <3>6
  <2>2. CASE ~writes
    BY <1>12, <2>2
  <2>3. CASE writes /\ l \notin FrontOf(q, SuperPage)
    BY <1>12, <2>3 DEF Collected
  <2> QED
    BY <2>1, <2>2, <2>3
<1>21. \A c \in Bank : Rested(nand'[c])
  BY <1>3, <1>5
<1>22. \A c \in Bank : BankInv(nand[c]) /\ nand'[c].writebuf = nand[c].writebuf
  BY <1>2, <1>5, <1>12, <1>13 DEF FTLInv, SlotInv
<1>23. BuffersMapped(nand', vpn')
  <2>1. \A l \in LPN : \/ vpn'[l] = vpn[l]
                       \/ /\ vpn[l] = VC_MAX \/ InFlash(vpn[l])
                          /\ vpn'[l] = VC_MAX \/ InFlash(vpn'[l])
    BY <1>20 DEF InBank
  <2> QED
    BY ONLY <1>3, <1>22, <2>1, BuffersKept
<1>24. RemapTold(nand', vpn', twrite')
  <2>1. \A s \in SlotLPN : vpn'[s] = vpn[s]
    <3> SUFFICES ASSUME NEW s \in SlotLPN, InBank(vpn[s], b), NEW i \in DOMAIN q, q[i] = s
                 PROVE  FALSE
      BY <1>20 DEF LPN
    <3>1. s \in Home
      BY <1>12, <1>17, ElementOfSeq
    <3> QED
      BY <3>1, FlashFacts DEF Home, LPN
  <2>2. ASSUME NEW s \in SlotLPN, NEW c \in Bank, NEW k \in Block, NEW off \in Offset, vpn[s] = Flash(c, k, off)
        PROVE  nand'[c].block_list[k].spare[off] = nand[c].block_list[k].spare[off]
    <3>1. InBank(vpn[s], c) /\ vpn[s].block = k
      BY <2>2, FlashIsIn
    <3>2. k \in Held(nand[c], "RW_log")
      BY <3>1, SlotsNotVictims DEF FTLInv
    <3> QED
      BY <1>2, <1>5, <1>12, <1>13, <3>2
  <2>3. \A s \in SlotLPN : twrite'[s] \in {twrite[s], RSP_INVALID_LPN}
    BY <1>1
  <2>4. \A s \in SlotLPN : twrite'[s] # RSP_INVALID_LPN =>
                \A c \in Bank : \A pos \in DOMAIN nand'[c].writebuf["RW"] : vpn'[s] = Buffered(c, "RW", pos) =>
                    /\ pos \in DOMAIN nand[c].writebuf["RW"]
                    /\ nand'[c].writebuf["RW"][pos].remap = nand[c].writebuf["RW"][pos].remap
    BY <1>22
  <2> QED
    BY ONLY <1>3, <2>1, <2>2, <2>3, <2>4, TellKept
<1>25. CopiesRight(nand', vpn', copies')
  <2>1. ASSUME NEW l \in LPN
        PROVE  IF vpn'[l] = VC_MAX THEN copies'[l] = {} ELSE vpn'[l] \in copies'[l]
    <3>1. CASE vpn'[l] = VC_MAX
      <4>1. vpn[l] = VC_MAX
        BY <1>20, <3>1 DEF InFlash
      <4>2. copies[l] = {}
        BY <1>3, <4>1 DEF CopiesRight
      <4>3. \A i \in DOMAIN q : ~Holds(l, i)
        BY <1>19, <4>1
      <4> QED
        BY <1>8, <3>1, <4>2, <4>3
    <3>2. CASE vpn'[l] # VC_MAX /\ vpn'[l] = vpn[l]
      <4>1. vpn[l] \in copies[l]
        BY <1>3, <3>2 DEF CopiesRight
      <4>2. \A i : vpn[l] # GCBuffered(b, i)
        <5>1. \A i : DOMAIN GCBuffered(b, i) = {"bank", "gc"}
          BY DEF GCBuffered
        <5>2. "block" \in DOMAIN vpn[l] \/ "type" \in DOMAIN vpn[l]
          <6>1. CASE InFlash(vpn[l])
            BY <6>1 DEF InFlash
          <6>2. CASE ~InFlash(vpn[l])
            <7>1. PICK c \in Bank, t \in Type : \E pos \in DOMAIN nand[c].writebuf[t] : vpn[l] = Buffered(c, t, pos)
              BY <1>3, <3>2, <6>2 DEF BuffersMapped
            <7> QED
              BY <7>1 DEF Buffered
          <6> QED
            BY <6>1, <6>2
        <5>3. "block" \notin {"bank", "gc"} /\ "type" \notin {"bank", "gc"}
          OBVIOUS
        <5> QED
          BY <5>1, <5>2, <5>3
      <4> QED
        BY <1>8, <3>2, <4>1, <4>2
    <3>3. CASE vpn'[l] # vpn[l]
      <4>1. InFlash(vpn'[l]) /\ \E i \in DOMAIN q : q[i] = l /\ vpn'[l] = Place(i)
        BY <1>20, <3>3
      <4>2. vpn'[l] \in copies'[l]
        BY <1>18, <4>1
      <4> QED
        BY <4>1, <4>2 DEF InFlash
    <3> QED
      BY <3>1, <3>2, <3>3
  <2>2. ASSUME NEW l \in LPN, NEW c \in Bank, NEW j \in DOMAIN nand'[c].GCbuf_lpn, nand'[c].GCbuf_lpn[j] = l
        PROVE  GCBuffered(c, j) \in copies'[l]
    <3>1. CASE c # b
      <4>1. nand'[c] = nand[c]
        BY <1>5, <3>1
      <4>2. GCBuffered(c, j) \in copies[l]
        BY <1>3, <2>2, <4>1 DEF CopiesRight
      <4>3. \A i : GCBuffered(c, j) # GCBuffered(b, i)
        BY <3>1 DEF GCBuffered
      <4> QED
        BY <1>8, <4>2, <4>3
    <3>2. CASE c = b /\ ~writes
      <4>1. j \in DOMAIN q /\ q[j] = l
        BY <1>12, <1>13, <2>2, <3>2
      <4> QED
        BY <1>9, <1>18, <3>2, <4>1
    <3>3. CASE c = b /\ writes
      <4> DEFINE r == Behind(q)
      <4>1. j \in DOMAIN r /\ r[j] = l /\ r = Behind(q)
        BY <1>12, <1>13, <2>2, <3>3
      <4>2. q \in Seq(Home) /\ Len(q) >= SuperPage
        BY <1>11, <1>12, <3>3
      <4> HIDE DEF r
      <4>3. /\ Len(r) \in Nat /\ DOMAIN r = 1 .. Len(r)
            /\ \A i \in DOMAIN r : i + SuperPage \in DOMAIN q /\ i + SuperPage > SuperPage
                    /\ r[i] = q[i + SuperPage]
        BY ONLY <4>1, <4>2, BehindIs
      <4>4. j + SuperPage \in DOMAIN q /\ j + SuperPage > SuperPage /\ q[j + SuperPage] = l
        BY <4>1, <4>3
      <4>5. (j + SuperPage) - SuperPage = j
        BY <1>16, <4>1, <4>3
      <4>6. Place(j + SuperPage) = GCBuffered(b, j)
        BY <1>9, <3>3, <4>4, <4>5
      <4> QED
        BY <1>18, <3>3, <4>4, <4>6
    <3> QED
      BY <3>1, <3>2, <3>3
  <2>3. \A l \in LPN : copies'[l] \subseteq VPN \cup BufferVPN \cup GCPlace
    BY <1>3, <1>8, <1>19 DEF CopiesRight
  <2> QED
    BY <2>1, <2>2, <2>3 DEF CopiesRight
<1>26. Control'
  <2>1. CASE NextHalf
    BY <1>3, <2>1, NextHalfControl
  <2>2. CASE pc' = "gc_erase" /\ UNCHANGED <<kept, reads>>
    <3>1. nand'[b].victim_list = nand[b].victim_list
      BY <1>2, <1>12, <1>13
    <3>2. nand'[GCBank'].victim_list # <<>>
      BY <1>1, <1>2, <1>3, <3>1 DEF Control
    <3> QED
      BY <1>1, <1>3, <2>2, <3>2 DEF Control
  <2> QED
    BY <1>5, <1>12, <2>1, <2>2
<1>27. DOMAIN copies' = LPN
  BY DEF MapInv, GCRead
<1> QED
  BY <1>5, <1>21, <1>23, <1>24, <1>25, <1>26, <1>27 DEF MapInv

-----------------------------------------------------------------------------
(***************************************************************************)
(* The steps of the host: a page enters a write buffer or leaves its place *)
(* in flash.                                                               *)
(***************************************************************************)
\* A place in a write buffer is that of the address in it.
LEMMA BufferedIs ==
    ASSUME NEW banks, NEW map, BuffersMapped(banks, map), \A b \in Bank : BankInv(banks[b]),
           NEW l \in LPN, NEW b \in Bank, NEW t \in Type, NEW pos \in Position, map[l] = Buffered(b, t, pos)
    PROVE  pos \in DOMAIN banks[b].writebuf[t] /\ banks[b].writebuf[t][pos].req = l
<1>1. map[l] # VC_MAX /\ ~InFlash(map[l])
  BY BufferPlace
<1>2. PICK c \in Bank, u \in Type : \E p \in DOMAIN banks[c].writebuf[u] :
            map[l] = Buffered(c, u, p) /\ banks[c].writebuf[u][p].req = l
  BY <1>1 DEF BuffersMapped
<1>3. PICK p \in DOMAIN banks[c].writebuf[u] : map[l] = Buffered(c, u, p) /\ banks[c].writebuf[u][p].req = l
  BY <1>2
<1>4. c = b /\ u = t /\ p = pos
  BY <1>3 DEF Buffered
<1> QED
  BY <1>3, <1>4

\* A place in a write buffer is not one of the collector's.
LEMMA BufferedElsewhere ==
    ASSUME NEW b, NEW t, NEW pos, NEW c, NEW i
    PROVE  Buffered(b, t, pos) # GCBuffered(c, i)
<1>1. DOMAIN Buffered(b, t, pos) = {"bank", "type", "pos"} /\ DOMAIN GCBuffered(c, i) = {"bank", "gc"}
  BY DEF Buffered, GCBuffered
<1>2. "gc" \notin {"bank", "type", "pos"} /\ "gc" \in {"bank", "gc"}
  OBVIOUS
<1> QED
  BY <1>1, <1>2

\* An address that is not in flash is not in the collector's buffer either.
LEMMA NotHeld ==
    ASSUME NEW banks, NEW map, FlashInv(banks, map), \A b \in Bank : BankInv(banks[b]),
           NEW l \in LPN, ~InFlash(map[l]), NEW b \in Bank
    PROVE  \A i \in DOMAIN banks[b].GCbuf_lpn : banks[b].GCbuf_lpn[i] # l
<1>1. l \notin GCHeld(banks[b])
  <2> SUFFICES ASSUME NEW blk \in Held(banks[b], "victim"), NEW off \in Offset, map[l] = Flash(b, blk, off)
               PROVE  FALSE
    BY DEF FlashInv, BankFlash, Collecting, HeldIsRead
  <2>1. blk \in Block
    BY HeldBlocks, ListsAre DEF BankInv
  <2> QED
    BY <2>1, FlashIsIn
<1> QED
  BY <1>1 DEF GCHeld

\* The newest data of l is in a write buffer from now on.
LeavesCollector(banks, banks2, l) ==
    \A c \in Bank : /\ DOMAIN banks2[c].GCbuf_lpn = DOMAIN banks[c].GCbuf_lpn
                    /\ \A i \in DOMAIN banks[c].GCbuf_lpn :
                            /\ banks2[c].GCbuf_lpn[i] \in {banks[c].GCbuf_lpn[i], RSP_INVALID_LPN}
                            /\ banks2[c].GCbuf_lpn[i] # l
StoredAt(map, map2, cps, cps2, l, place) ==
    /\ map2[l] = place
    /\ \A x \in LPN : /\ x # l => map2[x] = map[x] /\ map[x] # place
                      /\ cps2[x] = IF x = l THEN {place} ELSE cps[x] \ {place}
LEMMA StoreCopies ==
    ASSUME NEW banks, NEW map, NEW cps, CopiesRight(banks, map, cps),
           NEW l \in LPN, NEW b \in Bank, NEW t \in Type, NEW pos \in Position,
           NEW place, place = Buffered(b, t, pos),
           NEW map2, NEW cps2, StoredAt(map, map2, cps, cps2, l, place),
           NEW banks2, LeavesCollector(banks, banks2, l)
    PROVE  CopiesRight(banks2, map2, cps2)
<1>1. place # VC_MAX /\ place \in BufferVPN
  BY BufferPlace DEF Buffered, BufferVPN
<1>2. \A x \in LPN : IF map2[x] = VC_MAX THEN cps2[x] = {} ELSE map2[x] \in cps2[x]
  BY <1>1 DEF CopiesRight, StoredAt
<1>3. \A x \in LPN, c \in Bank : \A i \in DOMAIN banks2[c].GCbuf_lpn :
            banks2[c].GCbuf_lpn[i] = x => GCBuffered(c, i) \in cps2[x]
  <2>1. \A x \in LPN : x # RSP_INVALID_LPN
    BY FlashFacts
  <2>2. \A c, i : place # GCBuffered(c, i)
    BY BufferedElsewhere
  <2> SUFFICES ASSUME NEW x \in LPN, NEW c \in Bank, NEW i \in DOMAIN banks2[c].GCbuf_lpn, banks2[c].GCbuf_lpn[i] = x
               PROVE  GCBuffered(c, i) \in cps2[x]
    OBVIOUS
  <2>3. i \in DOMAIN banks[c].GCbuf_lpn /\ banks[c].GCbuf_lpn[i] = x /\ x # l
    BY <2>1 DEF LeavesCollector
  <2>4. GCBuffered(c, i) \in cps[x]
    BY <2>3 DEF CopiesRight
  <2>5. cps2[x] = cps[x] \ {place}
    BY <2>3 DEF StoredAt
  <2> QED
    BY ONLY <2>2, <2>4, <2>5, Zenon
<1>4. \A x \in LPN : cps2[x] \subseteq VPN \cup BufferVPN \cup GCPlace
  BY <1>1 DEF CopiesRight, StoredAt
<1> QED
  BY <1>2, <1>3, <1>4 DEF CopiesRight

\* A page is overwritten in its write buffer.
LEMMA MergeMap ==
    ASSUME FTLInv, MapInv, NEW l \in HomeLPN, Merge(l)
    PROVE  MapInv'
<1>1. /\ nand' = nand /\ vpn' = vpn /\ UNCHANGED <<cur_write_bank, reads>> /\ is_in_write_buffer(vpn[l])
      /\ copies' = Store(l, vpn[l]) /\ kept' = FALSE /\ pc' = "gc"
      /\ twrite' = [s \in SlotLPN |-> IF twrite[s] = l THEN RSP_INVALID_LPN ELSE twrite[s]]
  BY DEF Merge, BeginWrite
<1>2. /\ FlashInv(nand, vpn) /\ BuffersMapped(nand, vpn)
      /\ RemapTold(nand, vpn, twrite) /\ CopiesRight(nand, vpn, copies) /\ Control
      /\ \A b \in Bank : BankInv(nand[b])
  BY DEF MapInv, FTLInv, SlotInv
<1>3. l \in LPN
  BY DEF LPN
<1>4. vpn[l] # VC_MAX /\ ~InFlash(vpn[l])
  <2>1. ASSUME InFlash(vpn[l])
        PROVE  FALSE
    <3>1. PICK c \in Bank, blk \in Block, off \in Offset : vpn[l] = [bank |-> c, block |-> blk, off |-> off]
      BY <1>2, <1>3, <2>1 DEF FlashInv, MapApart, VPN
    <3>2. ~is_in_write_buffer(vpn[l])
      BY <3>1, FlashPlace DEF Flash
    <3> QED
      BY <1>1, <3>2
  <2> QED
    BY <1>1, <2>1 DEF is_in_write_buffer
<1>5. PICK b \in Bank, t \in Type : \E pos \in DOMAIN nand[b].writebuf[t] :
            vpn[l] = Buffered(b, t, pos) /\ nand[b].writebuf[t][pos].req = l
  BY <1>2, <1>3, <1>4 DEF BuffersMapped
<1>6. PICK pos \in DOMAIN nand[b].writebuf[t] : vpn[l] = Buffered(b, t, pos) /\ nand[b].writebuf[t][pos].req = l
  BY <1>5
<1>7. pos \in Position
  BY <1>2, BufferPositions
<1>8. CopiesRight(nand', vpn', copies')
  <2>1. \A x \in LPN : x # l => vpn[x] # vpn[l]
    BY <1>2, <1>6, <1>7, BufferedIs
  <2>2. \A c \in Bank : \A i \in DOMAIN nand[c].GCbuf_lpn : nand[c].GCbuf_lpn[i] # l
    BY <1>2, <1>3, <1>4, NotHeld
  <2>3. \A x \in LPN : copies'[x] = IF x = l THEN {vpn[l]} ELSE copies[x] \ {vpn[l]}
    BY <1>1 DEF Store
  <2> DEFINE place == vpn[l]
  <2>4. StoredAt(vpn, vpn, copies, copies', l, place) /\ LeavesCollector(nand, nand, l)
    BY <2>1, <2>2, <2>3 DEF StoredAt, LeavesCollector
  <2>5. /\ CopiesRight(nand, vpn, copies) /\ l \in LPN /\ b \in Bank /\ t \in Type /\ pos \in Position
        /\ place = Buffered(b, t, pos)
    BY <1>2, <1>3, <1>6, <1>7
  <2> HIDE DEF place
  <2>6. CopiesRight(nand, vpn, copies')
    BY ONLY <2>4, <2>5, StoreCopies
  <2> QED
    BY <1>1, <2>6
<1>9. RemapTold(nand', vpn', twrite')
  <2>1. RemapTold(nand, vpn, twrite')
    BY <1>1, <1>2 DEF RemapTold
  <2> QED
    BY <1>1, <2>1
<1>10. Control'
  BY <1>1, <1>2 DEF Control
<1>11. DOMAIN copies' = LPN
  BY <1>1 DEF Store
<1> QED
  BY <1>1, <1>8, <1>9, <1>10, <1>11 DEF MapInv

\* Two ways to see that a bank rests.
LEMMA RestsTwice ==
    ASSUME NEW n, NEW m, NEW k, BankRests(n, m), BankRests(m, k)
    PROVE  BankRests(n, k)
<1>1. \A i \in DOMAIN n.GCbuf_lpn : k.GCbuf_lpn[i] \in {n.GCbuf_lpn[i], RSP_INVALID_LPN}
  BY DEF BankRests, CollectorRests
<1>2. \A blk \in Block : k.block_list[blk].spare = n.block_list[blk].spare
  BY DEF BankRests, CollectorRests
<1> QED
  BY <1>1, <1>2 DEF BankRests, CollectorRests

LEMMA SameRests ==
    ASSUME NEW n, NEW m, SameBank(n, m)
    PROVE  CollectorRests(n, m)
<1>1. m.GCbuf_lpn = n.GCbuf_lpn /\ \A f \in {"GC_BLK", "free_list", "victim_list", "cur_vt_vpn"} : m[f] = n[f]
  BY DEF SameBank, SameFields, FlashField
<1>2. \A blk \in Block : m.block_list[blk].spare = n.block_list[blk].spare
  BY DEF SameBank, SameInfo, SameFields
<1> QED
  BY <1>1, <1>2 DEF CollectorRests

\* What is not in a write buffer is in flash or nowhere.
LEMMA NotBuffered ==
    ASSUME NEW banks, NEW map, BuffersMapped(banks, map), \A b \in Bank : BankInv(banks[b]),
           NEW l \in LPN, ~is_in_write_buffer(map[l])
    PROVE  map[l] = VC_MAX \/ InFlash(map[l])
<1> SUFFICES ASSUME map[l] # VC_MAX, ~InFlash(map[l])
             PROVE  FALSE
  OBVIOUS
<1>1. PICK b \in Bank, t \in Type : \E pos \in DOMAIN banks[b].writebuf[t] : map[l] = Buffered(b, t, pos)
  BY DEF BuffersMapped
<1>2. PICK pos \in DOMAIN banks[b].writebuf[t] : map[l] = Buffered(b, t, pos)
  BY <1>1
<1>3. pos \in Position
  BY BufferPositions
<1> QED
  BY <1>2, <1>3, BufferPlace

\* The old copy of an address that is written again is gone: it is nowhere, for the flash.
LEMMA SupersededMap ==
    ASSUME FTLInv, MapInv, NEW t \in Type, NEW l,
           IF t = "SW" THEN l \in HomeLPN ELSE l \in SlotLPN /\ SlotIsFree(l),
           ~is_in_write_buffer(vpn[l]),
           NEW map2, ~InFlash(map2[l]), \A x \in LPN : x # l => map2[x] = vpn[x],
           NEW new, new = Superseded(t, l)
    PROVE  /\ FlashInv(new, map2) /\ DOMAIN new = Bank
           /\ \A c \in Bank : BankInv(new[c]) /\ BankRests(nand[c], new[c])
<1>1. /\ FlashInv(nand, vpn) /\ BuffersMapped(nand, vpn) /\ DOMAIN nand = Bank
      /\ \A b \in Bank : BankInv(nand[b])
  BY DEF MapInv, FTLInv, SlotInv, Ranges
<1>2. l \in LPN
  BY DEF LPN, Type
<1>3. PICK D : D = Dropped(nand, vpn, l)
  OBVIOUS
<1>4. /\ FlashInv(D, map2) /\ DOMAIN D = Bank
      /\ \A b \in Bank : BankInv(D[b]) /\ BankRests(nand[b], D[b])
  <2>1. /\ FlashInv(nand, vpn) /\ DOMAIN nand = Bank /\ (\A b \in Bank : BankInv(nand[b]))
        /\ l \in LPN /\ D = Dropped(nand, vpn, l)
        /\ ~InFlash(map2[l]) /\ \A x \in LPN : x # l => map2[x] = vpn[x]
    BY <1>1, <1>2, <1>3
  <2> QED
    BY ONLY <2>1, DroppedFlash
<1>5. vpn[l] = VC_MAX \/ InFlash(vpn[l])
  BY <1>1, <1>2, NotBuffered
<1>6. CASE vpn[l] = VC_MAX \/ t = "SW"
  <2>1. new = D
    BY <1>3, <1>5, <1>6 DEF Superseded, Dropped, InFlash
  <2> QED
    BY <1>4, <2>1
<1>7. CASE vpn[l] # VC_MAX /\ t = "RW"
  <2> DEFINE b == vpn[l].bank
             k == vpn[l].block
  <2>1. InLogBlock(nand, vpn[l])
    BY <1>7, SlotAtRest
  <2>2. b \in Bank /\ k \in Held(nand[b], "RW_log")
    <3>1. PICK c \in Bank : \E blk \in ToSet(nand[c].RW_log_list), off \in Offset : vpn[l] = Flash(c, blk, off)
      BY <2>1 DEF InLogBlock
    <3>2. PICK blk \in ToSet(nand[c].RW_log_list), off \in Offset : vpn[l] = Flash(c, blk, off)
      BY <3>1
    <3>3. b = c /\ k = blk
      BY <3>2 DEF Flash
    <3> QED
      BY <3>3, ListsAre DEF Held
  <2>3. D = [nand EXCEPT ![b] = Invalidate(@, l, vpn[l])]
    BY <1>3, <1>5, <1>7 DEF Dropped
  <2>4. new = [nand EXCEPT ![b] = Unpin(Invalidate(nand[b], l, vpn[l]), k)]
    BY <1>7 DEF Superseded
  <2> HIDE DEF b, k
  <2>5. D[b] = Invalidate(nand[b], l, vpn[l])
    BY <1>1, <2>2, <2>3
  <2>6. new[b] = Unpin(D[b], k) /\ DOMAIN new = Bank /\ \A c \in Bank : c # b => new[c] = D[c]
    BY <1>1, <2>2, <2>3, <2>4, <2>5
  <2>7. k \in Held(D[b], "RW_log")
    <3>1. D[b].RW_log_list = nand[b].RW_log_list
      BY <1>1, <2>2, <2>5, InvalidateIsQuiet DEF Quiet
    <3> QED
      BY <2>2, <3>1, ListsAre DEF Held
  <2>8. SameBank(D[b], new[b]) /\ new[b].writebuf = D[b].writebuf
    BY <1>4, <2>2, <2>6, <2>7, UnpinAside
  <2>9. BankInv(new[b])
    BY <1>4, <2>2, <2>6, <2>7, UnpinKeeps
  <2>10. \A c \in Bank : SameBank(D[c], new[c])
    BY <2>6, <2>8, BankStays
  <2>11. FlashInv(new, map2)
    <3>1. SameFlash(map2, map2)
      BY DEF SameFlash
    <3> QED
      BY <1>4, <2>10, <3>1, FlashNeutral
  <2>12. \A c \in Bank : BankRests(nand[c], new[c])
    <3>1. BankRests(D[b], new[b])
      BY <2>8, SameRests DEF BankRests
    <3>2. BankRests(nand[b], new[b])
      BY <1>4, <2>2, <3>1, RestsTwice
    <3> QED
      BY <1>4, <2>6, <3>2
  <2> QED
    BY <1>4, <2>6, <2>9, <2>11, <2>12
<1> QED
  BY <1>6, <1>7, <1>2 DEF Type

LEMMA RestedStays ==
    ASSUME NEW n, BankInv(n), NEW m, BankInv(m), CollectorRests(n, m), Rested(n)
    PROVE  Rested(m)
<1>1. /\ Len(n.GCbuf_lpn) \in Nat /\ DOMAIN n.GCbuf_lpn = 1 .. Len(n.GCbuf_lpn)
      /\ Len(m.GCbuf_lpn) \in Nat /\ DOMAIN m.GCbuf_lpn = 1 .. Len(m.GCbuf_lpn)
  BY HolesFinite
<1>2. DOMAIN m.GCbuf_lpn = DOMAIN n.GCbuf_lpn /\ m.cur_vt_vpn = n.cur_vt_vpn
  BY DEF BankRests, CollectorRests
<1> DEFINE x == Len(n.GCbuf_lpn)
           y == Len(m.GCbuf_lpn)
<1>3. x \in Nat /\ y \in Nat /\ 1 .. x = 1 .. y
  BY <1>1, <1>2
<1> HIDE DEF x, y
<1>4. x = y
  BY <1>3
<1> QED
  BY <1>2, <1>4 DEF Rested, x, y

\* An address that is not in flash leaves the collector's buffer.
LEMMA CollectorLeft ==
    ASSUME NEW banks, NEW banks2, NEW map2, NEW l \in LPN, FlashInv(banks2, map2), ~InFlash(map2[l]),
           \A c \in Bank : BankInv(banks2[c]) /\ CollectorRests(banks[c], banks2[c])
    PROVE  LeavesCollector(banks, banks2, l)
<1>1. \A c \in Bank : \A i \in DOMAIN banks2[c].GCbuf_lpn : banks2[c].GCbuf_lpn[i] # l
  BY NotHeld
<1> QED
  BY <1>1 DEF CollectorRests, LeavesCollector

\* An address without data.
Emptied(map, map2, cps, cps2, l) ==
    /\ map2[l] = VC_MAX /\ cps2[l] = {}
    /\ \A x \in LPN : x # l => map2[x] = map[x] /\ cps2[x] = cps[x]
LEMMA EmptyCopies ==
    ASSUME NEW banks, NEW map, NEW cps, CopiesRight(banks, map, cps),
           NEW l \in LPN, NEW map2, NEW cps2, Emptied(map, map2, cps, cps2, l),
           NEW banks2, LeavesCollector(banks, banks2, l)
    PROVE  CopiesRight(banks2, map2, cps2)
<1>1. \A x \in LPN : IF map2[x] = VC_MAX THEN cps2[x] = {} ELSE map2[x] \in cps2[x]
  BY DEF CopiesRight, Emptied
<1>2. \A x \in LPN, c \in Bank : \A i \in DOMAIN banks2[c].GCbuf_lpn :
            banks2[c].GCbuf_lpn[i] = x => GCBuffered(c, i) \in cps2[x]
  <2> SUFFICES ASSUME NEW x \in LPN, NEW c \in Bank, NEW i \in DOMAIN banks2[c].GCbuf_lpn, banks2[c].GCbuf_lpn[i] = x
               PROVE  GCBuffered(c, i) \in cps2[x]
    OBVIOUS
  <2>1. x # RSP_INVALID_LPN
    BY FlashFacts
  <2>2. i \in DOMAIN banks[c].GCbuf_lpn /\ banks[c].GCbuf_lpn[i] = x /\ x # l
    BY <2>1 DEF LeavesCollector
  <2>3. GCBuffered(c, i) \in cps[x]
    BY <2>2 DEF CopiesRight
  <2> QED
    BY <2>2, <2>3 DEF Emptied
<1>3. \A x \in LPN : cps2[x] \subseteq VPN \cup BufferVPN \cup GCPlace
  BY DEF CopiesRight, Emptied
<1> QED
  BY <1>1, <1>2, <1>3 DEF CopiesRight

\* What is told of the slots that stay.
LEMMA RestsTold ==
    ASSUME NEW banks, NEW map, NEW tw, RemapTold(banks, map, tw),
           NEW banks2, \A c \in Bank : BankRests(banks[c], banks2[c]),
           NEW map2, NEW tw2,
           \A s \in SlotLPN : tw2[s] # RSP_INVALID_LPN => tw2[s] = tw[s] /\ map2[s] = map[s]
    PROVE  RemapTold(banks2, map2, tw2)
<1> SUFFICES ASSUME NEW s \in SlotLPN, tw2[s] # RSP_INVALID_LPN
             PROVE  /\ \A b \in Bank, blk \in Block, off \in Offset : map2[s] = Flash(b, blk, off) =>
                            banks2[b].block_list[blk].spare[off] = tw2[s]
                    /\ \A b \in Bank : \A pos \in DOMAIN banks2[b].writebuf["RW"] :
                            map2[s] = Buffered(b, "RW", pos) => banks2[b].writebuf["RW"][pos].remap = tw2[s]
  BY DEF RemapTold
<1>1. tw2[s] = tw[s] /\ map2[s] = map[s] /\ tw[s] # RSP_INVALID_LPN
  OBVIOUS
<1> QED
  BY <1>1 DEF RemapTold, BankRests, CollectorRests

\* Padding: the slot is nowhere then.
LEMMA WritePaddingMap ==
    ASSUME FTLInv, MapInv, NEW s \in SlotLPN, WritePadding(s)
    PROVE  MapInv'
<1>1. /\ SlotIsFree(s) /\ nand' = Superseded("RW", s) /\ vpn' = [vpn EXCEPT ![s] = VC_MAX]
      /\ copies' = [copies EXCEPT ![s] = {}] /\ twrite' = twrite /\ kept' = FALSE /\ pc' = "gc"
      /\ UNCHANGED <<cur_write_bank, reads>>
  BY DEF WritePadding, BeginWrite
<1>2. /\ FlashInv(nand, vpn) /\ BuffersMapped(nand, vpn) /\ RemapTold(nand, vpn, twrite)
      /\ CopiesRight(nand, vpn, copies) /\ Control
      /\ \A b \in Bank : BankInv(nand[b]) /\ Rested(nand[b])
  BY DEF MapInv, FTLInv, SlotInv
<1>3. s \in LPN /\ DOMAIN vpn = LPN /\ ~is_in_write_buffer(vpn[s]) /\ twrite[s] = RSP_INVALID_LPN
  BY <1>1 DEF LPN, FTLInv, Ranges, SlotIsFree
<1>4. vpn'[s] = VC_MAX /\ ~InFlash(vpn'[s]) /\ \A x \in LPN : x # s => vpn'[x] = vpn[x]
  BY <1>1, <1>3 DEF InFlash
<1>5. /\ FlashInv(nand', vpn') /\ DOMAIN nand' = Bank
      /\ \A c \in Bank : BankInv(nand'[c]) /\ BankRests(nand[c], nand'[c])
  <2>1. /\ SlotIsFree(s) /\ ~is_in_write_buffer(vpn[s]) /\ ~InFlash(vpn'[s]) /\ nand' = Superseded("RW", s)
        /\ \A x \in LPN : x # s => vpn'[x] = vpn[x]
    BY <1>1, <1>3, <1>4
  <2>2. "RW" \in Type /\ "RW" # "SW"
    BY DEF Type
  <2>3. IF "RW" = "SW" THEN s \in HomeLPN ELSE s \in SlotLPN /\ SlotIsFree(s)
    BY <2>1, <2>2
  <2> DEFINE t == "RW"
             map2 == vpn'
             new == nand'
  <2>4. /\ t \in Type /\ IF t = "SW" THEN s \in HomeLPN ELSE s \in SlotLPN /\ SlotIsFree(s)
        /\ ~is_in_write_buffer(vpn[s]) /\ ~InFlash(map2[s]) /\ new = Superseded(t, s)
        /\ \A x \in LPN : x # s => map2[x] = vpn[x]
    BY <2>1, <2>2, <2>3
  <2> HIDE DEF t, map2, new
  <2>5. /\ FlashInv(new, map2) /\ DOMAIN new = Bank
        /\ \A c \in Bank : BankInv(new[c]) /\ BankRests(nand[c], new[c])
    BY <2>4, SupersededMap
  <2> QED
    BY <2>5 DEF map2, new
<1>6. \A b \in Bank : Rested(nand'[b])
  BY <1>2, <1>5, RestedStays DEF BankRests
<1>7. BuffersMapped(nand', vpn')
  <2>1. \A b \in Bank : nand'[b].writebuf = nand[b].writebuf
    BY <1>5 DEF BankRests, CollectorRests
  <2>2. vpn[s] = VC_MAX \/ InFlash(vpn[s])
    BY <1>2, <1>3, NotBuffered
  <2>3. \A l \in LPN : \/ vpn'[l] = vpn[l]
                       \/ /\ vpn[l] = VC_MAX \/ InFlash(vpn[l])
                          /\ vpn'[l] = VC_MAX \/ InFlash(vpn'[l])
    BY <1>4, <2>2
  <2> QED
    BY ONLY <1>2, <2>1, <2>3, BuffersKept
<1>8. RemapTold(nand', vpn', twrite')
  <2>1. \A x \in SlotLPN : twrite'[x] # RSP_INVALID_LPN => twrite'[x] = twrite[x] /\ vpn'[x] = vpn[x]
    BY <1>1, <1>3, <1>4 DEF LPN
  <2>2. RemapTold(nand, vpn, twrite) /\ \A c \in Bank : BankRests(nand[c], nand'[c])
    BY <1>2, <1>5
  <2> QED
    BY ONLY <2>1, <2>2, RestsTold
<1>9. CopiesRight(nand', vpn', copies')
  <2>1. DOMAIN copies = LPN
    BY DEF MapInv
  <2>2. Emptied(vpn, vpn', copies, copies', s)
    BY <1>1, <1>3, <1>4, <2>1 DEF Emptied
  <2>3. LeavesCollector(nand, nand', s)
    BY <1>3, <1>4, <1>5, CollectorLeft DEF BankRests
  <2> QED
    BY ONLY <1>2, <1>3, <2>2, <2>3, EmptyCopies
<1>10. Control'
  BY <1>1, <1>2 DEF Control
<1>11. DOMAIN copies' = LPN
  BY <1>1 DEF MapInv
<1> QED
  BY <1>5, <1>6, <1>7, <1>8, <1>9, <1>10, <1>11 DEF MapInv

\* A page enters a write buffer, and nothing else changes in the buffers.
FilledAt(banks, banks2, b, t, pos, e) ==
    /\ pos \in Position /\ pos \notin DOMAIN banks[b].writebuf[t]
    /\ pos \in DOMAIN banks2[b].writebuf[t] /\ banks2[b].writebuf[t][pos] = e
    /\ \A c \in Bank, u \in Type : \A p \in DOMAIN banks[c].writebuf[u] :
            p \in DOMAIN banks2[c].writebuf[u] /\ banks2[c].writebuf[u][p] = banks[c].writebuf[u][p]
    /\ \A c \in Bank, u \in Type : \A p \in DOMAIN banks2[c].writebuf[u] :
            p \in DOMAIN banks[c].writebuf[u] \/ (c = b /\ u = t /\ p = pos)

LEMMA FilledMapped ==
    ASSUME NEW banks, NEW map, BuffersMapped(banks, map), \A c \in Bank : BankInv(banks[c]),
           NEW l \in LPN, ~is_in_write_buffer(map[l]),
           NEW b \in Bank, NEW t \in Type, NEW pos, NEW e, e.req = l, t = "RW" => l \in SlotLPN,
           NEW banks2, FilledAt(banks, banks2, b, t, pos, e),
           NEW map2, map2[l] = Buffered(b, t, pos), \A x \in LPN : x # l => map2[x] = map[x]
    PROVE  BuffersMapped(banks2, map2)
<1>1. ASSUME NEW x \in LPN, map2[x] # VC_MAX, ~InFlash(map2[x])
      PROVE  \E c \in Bank, u \in Type : \E p \in DOMAIN banks2[c].writebuf[u] :
                map2[x] = Buffered(c, u, p) /\ banks2[c].writebuf[u][p].req = x
  <2>1. CASE x = l
    BY <2>1 DEF FilledAt
  <2>2. CASE x # l
    <3>1. \E c \in Bank, u \in Type : \E p \in DOMAIN banks[c].writebuf[u] :
                map2[x] = Buffered(c, u, p) /\ banks[c].writebuf[u][p].req = x
      BY <1>1, <2>2 DEF BuffersMapped
    <3> QED
      BY <3>1 DEF FilledAt
  <2> QED
    BY <2>1, <2>2
<1>2. ASSUME NEW c \in Bank, NEW u \in Type, NEW p \in DOMAIN banks2[c].writebuf[u],
             NEW req, req = banks2[c].writebuf[u][p].req, req # RSP_INVALID_LPN
      PROVE  req \in LPN /\ map2[req] = Buffered(c, u, p)
  <2>1. CASE c = b /\ u = t /\ p = pos
    BY <1>2, <2>1 DEF FilledAt
  <2>2. CASE p \in DOMAIN banks[c].writebuf[u]
    <3>1. banks[c].writebuf[u][p].req = req
      BY <1>2, <2>2 DEF FilledAt
    <3>2. req \in LPN /\ map[req] = Buffered(c, u, p)
      BY <1>2, <2>2, <3>1 DEF BuffersMapped
    <3>3. p \in Position
      BY <2>2, BufferPositions
    <3>4. req # l
      BY <3>2, <3>3, BufferPlace
    <3> QED
      BY <3>2, <3>4
  <2> QED
    BY <2>1, <2>2 DEF FilledAt
<1>3. ASSUME NEW c \in Bank, NEW p \in DOMAIN banks2[c].writebuf["RW"], banks2[c].writebuf["RW"][p].req \in HomeLPN
      PROVE  banks2[c].writebuf["RW"][p].remap = banks2[c].writebuf["RW"][p].req
  <2>1. "RW" \in Type
    BY DEF Type
  <2>2. p \in DOMAIN banks[c].writebuf["RW"]
    BY <1>3, <2>1, FlashFacts DEF FilledAt
  <2>3. banks2[c].writebuf["RW"][p] = banks[c].writebuf["RW"][p]
    BY <2>1, <2>2 DEF FilledAt
  <2> QED
    BY <1>3, <2>2, <2>3 DEF BuffersMapped
<1> QED
  BY <1>1, <1>2, <1>3 DEF BuffersMapped

\* A page enters a write buffer.
LEMMA WritePageMap ==
    ASSUME FTLInv, MapInv, NEW t \in WriteTypes, NEW l \in LPN, NEW o \in Home, write_page(t, l, o)
    PROVE  MapInv'
<1>1. PICK pos, m : PageEnters(t, l, o, pos, m)
  BY WritePageIs
<1> DEFINE b == cur_write_bank
           mid == Superseded(t, l)
           n == mid[b]
           e == [req |-> l, remap |-> o]
           place == Buffered(b, t, pos)
           home == IF t = "SW" THEN l ELSE o
<1>2. /\ l \in IF t = "SW" THEN HomeLPN ELSE SlotLPN
      /\ UNCHANGED <<cur_write_bank, reads>> /\ ~is_in_write_buffer(vpn[l])
      /\ IF t = "SW" THEN o = RSP_INVALID_LPN ELSE SlotIsFree(l) /\ o \in HomeLPN
      /\ b \in Bank /\ t \in Type
  BY <1>1 DEF PageEnters
<1>3. /\ copies' = Store(l, place)
      /\ twrite' = [s \in SlotLPN |-> IF s = l THEN o
                                      ELSE IF twrite[s] = home THEN RSP_INVALID_LPN
                                      ELSE twrite[s]]
      /\ kept' = (loop = 0 /\ IsNew(n, t))
      /\ pc' = IF DOMAIN m.writebuf[t] = Position THEN "program" ELSE "gc"
  BY <1>1, Zenon DEF PageEnters
<1>4. /\ pos \in Position \ DOMAIN n.writebuf[t]
      /\ BankInv(m) /\ \A f \in BankField \ {"writebuf", "writebuf_index"} : m[f] = n[f]
      /\ nand'[b] = m /\ \A c \in Bank : c # b => nand'[c] = mid[c]
  BY <1>1 DEF PageEnters
<1>5. /\ DOMAIN m.writebuf[t] = DOMAIN n.writebuf[t] \cup {pos} /\ m.writebuf[t][pos] = e
      /\ \A p \in DOMAIN n.writebuf[t] : m.writebuf[t][p] = n.writebuf[t][p]
      /\ \A x \in Type : x # t => m.writebuf[x] = n.writebuf[x]
  BY <1>1 DEF PageEnters
<1>6. vpn'[l] = place /\ \A x \in LPN : x # l => vpn'[x] = vpn[x]
  BY <1>1 DEF PageEnters
<1>7. e.req = l /\ e.remap = o /\ place = Buffered(b, t, pos) /\ mid = Superseded(t, l) /\ n = mid[b]
  OBVIOUS
<1> HIDE DEF b, mid, n, e, place, home
<1>8. /\ FlashInv(nand, vpn) /\ BuffersMapped(nand, vpn) /\ RemapTold(nand, vpn, twrite)
      /\ CopiesRight(nand, vpn, copies) /\ Control
      /\ \A c \in Bank : BankInv(nand[c]) /\ Rested(nand[c])
  BY DEF MapInv, FTLInv, SlotInv
<1>9. place # VC_MAX /\ ~InFlash(place) /\ is_in_write_buffer(place)
  BY <1>2, <1>4, <1>7, BufferPlace
<1>10. /\ FlashInv(mid, vpn') /\ \A c \in Bank : BankInv(mid[c]) /\ BankRests(nand[c], mid[c])
  <2> DEFINE map2 == vpn'
  <2>1. /\ t \in Type /\ IF t = "SW" THEN l \in HomeLPN ELSE l \in SlotLPN /\ SlotIsFree(l)
        /\ ~is_in_write_buffer(vpn[l]) /\ ~InFlash(map2[l]) /\ mid = Superseded(t, l)
        /\ \A x \in LPN : x # l => map2[x] = vpn[x]
    BY <1>2, <1>6, <1>7, <1>9
  <2> HIDE DEF map2
  <2>2. FlashInv(mid, map2) /\ \A c \in Bank : BankInv(mid[c]) /\ BankRests(nand[c], mid[c])
    BY <2>1, SupersededMap
  <2> QED
    BY <2>2 DEF map2
<1>11. \A c \in Bank : SameBank(mid[c], nand'[c]) /\ BankInv(nand'[c])
  <2>1. SameFields(n, m, BankField \ {"writebuf", "writebuf_index", "remap_inbuff_cnt"})
    BY <1>4 DEF SameFields
  <2>2. BankInv(n)
    BY <1>2, <1>7, <1>10
  <2>3. SameBank(n, m)
    BY <2>1, <2>2, BuffersAside
  <2> QED
    BY <1>4, <1>7, <1>10, <2>3, BankStays
<1>12. FlashInv(nand', vpn')
  <2>1. SameFlash(vpn', vpn')
    BY DEF SameFlash
  <2> QED
    BY ONLY <1>10, <1>11, <2>1, FlashNeutral
<1>13. \A c \in Bank : nand'[c].block_list = mid[c].block_list /\ nand'[c].GCbuf_lpn = mid[c].GCbuf_lpn
                       /\ nand'[c].cur_vt_vpn = mid[c].cur_vt_vpn
  <2>1. m.block_list = n.block_list /\ m.GCbuf_lpn = n.GCbuf_lpn /\ m.cur_vt_vpn = n.cur_vt_vpn
    BY <1>4 DEF BankField
  <2> QED
    BY <1>4, <1>7, <2>1
<1>14. \A c \in Bank : Rested(nand'[c])
  <2>1. \A c \in Bank : Rested(mid[c])
    BY <1>8, <1>10, RestedStays DEF BankRests
  <2> QED
    BY <1>13, <2>1 DEF Rested
<1>15. FilledAt(nand, nand', b, t, pos, e)
  <2>1. \A c \in Bank : mid[c].writebuf = nand[c].writebuf
    BY <1>10 DEF BankRests, CollectorRests
  <2>2. \A c \in Bank, u \in Type : c # b \/ u # t => nand'[c].writebuf[u] = nand[c].writebuf[u]
    BY <1>4, <1>5, <1>7, <2>1
  <2>3. nand[b].writebuf[t] = n.writebuf[t] /\ nand'[b].writebuf[t] = m.writebuf[t]
    BY <1>2, <1>4, <1>7, <2>1
  <2>4. /\ pos \in Position /\ pos \notin DOMAIN nand[b].writebuf[t]
        /\ pos \in DOMAIN nand'[b].writebuf[t] /\ nand'[b].writebuf[t][pos] = e
    BY <1>4, <1>5, <2>3
  <2>5. \A c \in Bank, u \in Type : \A p \in DOMAIN nand[c].writebuf[u] :
            p \in DOMAIN nand'[c].writebuf[u] /\ nand'[c].writebuf[u][p] = nand[c].writebuf[u][p]
    BY <1>5, <2>2, <2>3
  <2>6. \A c \in Bank, u \in Type : \A p \in DOMAIN nand'[c].writebuf[u] :
            p \in DOMAIN nand[c].writebuf[u] \/ (c = b /\ u = t /\ p = pos)
    BY <1>5, <2>2, <2>3
  <2> QED
    BY <2>4, <2>5, <2>6 DEF FilledAt
<1>16. BuffersMapped(nand', vpn')
  <2> DEFINE banks2 == nand'
             map2 == vpn'
  <2>1. /\ BuffersMapped(nand, vpn) /\ (\A c \in Bank : BankInv(nand[c])) /\ l \in LPN /\ ~is_in_write_buffer(vpn[l])
        /\ b \in Bank /\ t \in Type /\ e.req = l /\ (t = "RW" => l \in SlotLPN)
        /\ FilledAt(nand, banks2, b, t, pos, e) /\ map2[l] = Buffered(b, t, pos)
        /\ \A x \in LPN : x # l => map2[x] = vpn[x]
    BY <1>2, <1>6, <1>7, <1>8, <1>15
  <2> HIDE DEF banks2, map2
  <2>2. BuffersMapped(banks2, map2)
    BY ONLY <2>1, FilledMapped
  <2> QED
    BY <2>2 DEF banks2, map2
<1>17. \A x \in LPN : vpn[x] # place
  BY <1>2, <1>4, <1>7, <1>8, <1>15, BufferedIs DEF FilledAt
<1>18. RemapTold(nand', vpn', twrite')
  <2> SUFFICES ASSUME NEW s \in SlotLPN, twrite'[s] # RSP_INVALID_LPN
               PROVE  /\ \A c \in Bank, blk \in Block, off \in Offset : vpn'[s] = Flash(c, blk, off) =>
                            nand'[c].block_list[blk].spare[off] = twrite'[s]
                      /\ \A c \in Bank : \A p \in DOMAIN nand'[c].writebuf["RW"] :
                            vpn'[s] = Buffered(c, "RW", p) => nand'[c].writebuf["RW"][p].remap = twrite'[s]
    BY DEF RemapTold
  <2>1. s \in LPN /\ s \notin HomeLPN
    BY FlashFacts DEF LPN
  <2>2. CASE s = l
    <3>1. t = "RW" /\ twrite'[s] = o
      BY <1>2, <1>3, <2>1, <2>2 DEF Type
    <3>2. \A c \in Bank, blk \in Block, off \in Offset : vpn'[s] # Flash(c, blk, off)
      BY <1>6, <1>9, <2>2, FlashPlace
    <3>3. ASSUME NEW c \in Bank, NEW p, vpn'[s] = Buffered(c, "RW", p)
          PROVE  nand'[c].writebuf["RW"][p].remap = o
      <4>1. c = b /\ p = pos
        BY <1>6, <1>7, <2>2, <3>3 DEF Buffered
      <4> QED
        BY <1>7, <1>15, <3>1, <4>1 DEF FilledAt
    <3> QED
      BY <3>1, <3>2, <3>3
  <2>3. CASE s # l
    <3>1. twrite'[s] = twrite[s] /\ vpn'[s] = vpn[s] /\ twrite[s] # RSP_INVALID_LPN
      BY <1>3, <1>6, <2>1, <2>3
    <3>2. ASSUME NEW c \in Bank, NEW blk \in Block, NEW off \in Offset, vpn[s] = Flash(c, blk, off)
          PROVE  nand'[c].block_list[blk].spare[off] = twrite[s]
      <4>1. nand'[c].block_list[blk].spare = nand[c].block_list[blk].spare
        BY <1>10, <1>13 DEF BankRests, CollectorRests
      <4> QED
        BY <1>8, <3>1, <3>2, <4>1 DEF RemapTold
    <3>3. ASSUME NEW c \in Bank, NEW p \in DOMAIN nand'[c].writebuf["RW"], vpn[s] = Buffered(c, "RW", p)
          PROVE  nand'[c].writebuf["RW"][p].remap = twrite[s]
      <4>1. "RW" \in Type
        BY DEF Type
      <4>2. p \in DOMAIN nand[c].writebuf["RW"]
        BY <1>7, <1>15, <1>17, <2>1, <3>3, <4>1 DEF FilledAt
      <4>3. nand'[c].writebuf["RW"][p] = nand[c].writebuf["RW"][p]
        BY <1>15, <4>1, <4>2 DEF FilledAt
      <4> QED
        BY <1>8, <3>1, <3>3, <4>2, <4>3 DEF RemapTold
    <3> QED
      BY <3>1, <3>2, <3>3
  <2> QED
    BY <2>2, <2>3
<1>19. CopiesRight(nand', vpn', copies')
  <2> DEFINE map2 == vpn'
             banks2 == nand'
             cps2 == copies'
  <2>1. \A x \in LPN : copies'[x] = IF x = l THEN {place} ELSE copies[x] \ {place}
    BY <1>3 DEF Store
  <2>2. StoredAt(vpn, map2, copies, cps2, l, place)
    BY <1>6, <1>17, <2>1 DEF StoredAt
  <2>3. LeavesCollector(nand, mid, l)
    <3>1. ~InFlash(map2[l]) /\ FlashInv(mid, map2)
      BY <1>6, <1>9, <1>10
    <3> HIDE DEF map2
    <3> QED
      BY <1>10, <3>1, CollectorLeft DEF BankRests
  <2>4. LeavesCollector(nand, banks2, l)
    BY <1>13, <2>3 DEF LeavesCollector
  <2>5. /\ CopiesRight(nand, vpn, copies) /\ l \in LPN /\ b \in Bank /\ t \in Type /\ pos \in Position
        /\ place = Buffered(b, t, pos)
    BY <1>2, <1>4, <1>7, <1>8
  <2> HIDE DEF map2, banks2, cps2
  <2>6. CopiesRight(banks2, map2, cps2)
    BY ONLY <2>2, <2>4, <2>5, StoreCopies
  <2> QED
    BY <2>6 DEF map2, banks2, cps2
<1>20. Control'
  <2>1. kept' \in BOOLEAN
    BY <1>3, Zenon
  <2>2. pc' \in {"program", "gc"} /\ reads' = reads
    BY <1>2, <1>3
  <2> QED
    BY <1>8, <2>1, <2>2 DEF Control
<1>21. DOMAIN copies' = LPN
  BY <1>3 DEF Store
<1> QED
  BY <1>12, <1>14, <1>16, <1>18, <1>19, <1>20, <1>21 DEF MapInv

-----------------------------------------------------------------------------
(***************************************************************************)
(* A full write buffer is programmed.                                      *)
(***************************************************************************)
\* A full write buffer can be programmed.
LEMMA ReadyToProgram ==
    ASSUME NEW banks, NEW map, BuffersMapped(banks, map), \A c \in Bank : BankInv(banks[c]),
           NEW b \in Bank, NEW t \in Type, NEW buf, buf = banks[b].writebuf[t], DOMAIN buf = Position
    PROVE  /\ BufferReady(buf, map)
           /\ \A p \in Mapped(buf) : map[buf[p].req] = Buffered(b, t, p)
<1>1. \A p \in Position : buf[p] \in Entry(t)
  BY DEF BankInv, BuffersOK
<1>2. \A p \in Mapped(buf) : p \in Position /\ buf[p].req # RSP_INVALID_LPN
  BY DEF Mapped
<1>3. \A p \in Mapped(buf) : buf[p].req \in LPN /\ map[buf[p].req] = Buffered(b, t, p)
  BY <1>2 DEF BuffersMapped
<1>4. \A p \in Mapped(buf) : ~InFlash(map[buf[p].req])
  BY <1>2, <1>3, BufferPlace
<1>5. ASSUME NEW p \in Mapped(buf), NEW q \in Mapped(buf), buf[p].req = buf[q].req
      PROVE  p = q
  <2>1. Buffered(b, t, p) = Buffered(b, t, q)
    BY <1>3, <1>5
  <2>2. \A x \in Position : Buffered(b, t, x).pos = x
    BY BufferPlace
  <2> QED
    BY <1>2, <2>1, <2>2
<1>6. CASE t = "RW"
  <2>1. \A p \in Position : buf[p].req \in LPN /\ buf[p].remap \in HomeLPN
    BY <1>1, <1>6 DEF Entry
  <2>2. \A p \in Position : buf[p].req # RSP_INVALID_LPN /\ buf[p].remap # RSP_INVALID_LPN
    BY <2>1, FlashFacts DEF LPN
  <2>3. \A p \in Position : p \in Mapped(buf) /\ SpareOf(buf, p) = buf[p].remap
    BY <2>2 DEF Mapped, SpareOf
  <2>4. \A p \in Position : buf[p].req \in HomeLPN => buf[p].remap = buf[p].req
    BY <1>6 DEF BuffersMapped
  <2> QED
    BY <1>2, <1>3, <1>4, <1>5, <2>3, <2>4 DEF BufferReady
<1>7. CASE t = "SW"
  <2>1. \A p \in Position : buf[p].remap = RSP_INVALID_LPN
    BY <1>1, <1>7 DEF Entry
  <2>2. \A p \in Position : SpareOf(buf, p) = buf[p].req
    BY <2>1 DEF SpareOf
  <2>3. \A p \in Position \ Mapped(buf) : buf[p].req = RSP_INVALID_LPN
    BY DEF Mapped
  <2> QED
    BY <1>2, <1>3, <1>4, <1>5, <2>2, <2>3 DEF BufferReady
<1> QED
  BY <1>3, <1>6, <1>7 DEF Type

\* What the new page does not touch: the spare areas and the other buffers.
LEMMA AssignIs ==
    ASSUME NEW n, BankInv(n), NEW t \in Type, NEW m, m = assign_new_write_vpn(n, t)
    PROVE  /\ \A f \in BankField \ {"free_list", "cur_write_vpn", "block_list", "data_list", "RW_log_list",
                                    "write_start"} : m[f] = n[f]
           /\ \A k \in Block : m.block_list[k].spare = n.block_list[k].spare
<1>1. DOMAIN n = BankField /\ DOMAIN n.block_list = Block /\ \A k \in Block : DOMAIN n.block_list[k] = InfoField
  BY DEF BankInv, BankShape
<1>2. CASE ActiveFull(n, t)
  <2> DEFINE blk == Head(n.free_list)
             new == [n EXCEPT !.free_list = Tail(@),
                              !.cur_write_vpn[t] = [block |-> blk, page |-> 0],
                              !.block_list[blk].vcount = IF @ = VC_ERASED THEN 0 ELSE @]
  <2>1. m \in {[new EXCEPT !.data_list = Append(@, blk)], [new EXCEPT !.RW_log_list = Append(@, blk)]}
    BY <1>2 DEF assign_new_write_vpn
  <2>2. DOMAIN new = BankField
    BY <1>1
  <2>3. \A f \in BankField \ {"free_list", "cur_write_vpn", "block_list"} : new[f] = n[f]
    BY <1>1
  <2>4. new.block_list = [n.block_list EXCEPT ![blk].vcount = IF @ = VC_ERASED THEN 0 ELSE @]
    BY <1>1 DEF BankField
  <2> HIDE DEF new
  <2>5. \A k \in Block : new.block_list[k].spare = n.block_list[k].spare
    BY <1>1, <2>4 DEF InfoField
  <2>6. m.block_list = new.block_list
    BY <2>1, <2>2 DEF BankField
  <2>7. \A f \in BankField \ {"data_list", "RW_log_list"} : m[f] = new[f]
    BY <2>1, <2>2
  <2> QED
    BY <2>3, <2>5, <2>6, <2>7
<1>3. CASE ~ActiveFull(n, t)
  <2>1. m = [n EXCEPT !.write_start[t] = TRUE,
                      !.cur_write_vpn[t].page = IF n.write_start[t] THEN @ + 1 ELSE @]
    BY <1>3 DEF assign_new_write_vpn
  <2>2. \A f \in BankField \ {"write_start", "cur_write_vpn"} : m[f] = n[f]
    BY <1>1, <2>1
  <2>3. m.block_list = n.block_list
    BY <2>2 DEF BankField
  <2> QED
    BY <2>2, <2>3
<1> QED
  BY <1>2, <1>3

\* The bank after the program, up to what the flash does not see.
BankProgrammed(n, blk, page, buf, m) ==
    /\ SameFields(n, m, FlashField) /\ Held(n, "data") \subseteq Held(m, "data")
    /\ \A k \in Block : k # blk => SameFields(n.block_list[k], m.block_list[k], {"vcount", "vbitmap", "spare"})
    /\ SameFields(Programmed(n.block_list[blk], page, buf), m.block_list[blk], {"vcount", "vbitmap", "spare"})

LEMMA ProgramDoneIs ==
    ASSUME NEW n, NEW t \in Type, NEW new, new = assign_new_write_vpn(n, t), BankInv(new),
           NEW blk, blk = new.cur_write_vpn[t].block, blk \in Held(new, IF t = "SW" THEN "data" ELSE "RW_log"),
           NEW page, page = new.cur_write_vpn[t].page, NEW buf, buf = n.writebuf[t],
           \A pos \in Position : SpareOf(buf, pos) \in Home, DOMAIN buf = Position,
           NEW m, m = ProgramDone(n, t)
    PROVE  BankProgrammed(new, blk, page, buf, m)
<1> DEFINE info == Programmed(new.block_list[blk], page, buf)
           written == [new EXCEPT !.block_list[blk] = info, !.writebuf[t] = <<>>, !.writebuf_index[t] = 0]
           pinned == [written EXCEPT !.block_list[blk].remained_remap_cnt = @ + SuperPage - written.remap_inbuff_cnt,
                                     !.remap_inbuff_cnt = 0]
           moved == [pinned EXCEPT !.RW_log_list = RemoveFirst(@, blk), !.data_list = Append(@, blk)]
<1>1. m = IF t = "RW" THEN Pin(written, blk) ELSE written
  BY DEF ProgramDone
<1>2. Pin(written, blk) = Settle(pinned, blk)
  BY DEF Pin
<1>3. Settle(pinned, blk) \in {pinned, moved}
  BY DEF Settle
<1>4. DOMAIN new = BankField /\ DOMAIN new.block_list = Block /\ \A k \in Block : DOMAIN new.block_list[k] = InfoField
  BY DEF BankInv, BankShape
<1>5. blk \in Block
  BY HeldBlocks, ListsAre DEF BankInv
<1>6. DOMAIN info = InfoField
  BY <1>4, <1>5, ProgrammedInfo DEF BankInv, HomeOnly
<1> HIDE DEF info
<1>7. /\ DOMAIN written = BankField
      /\ \A f \in BankField \ {"block_list", "writebuf", "writebuf_index"} : written[f] = new[f]
      /\ written.block_list = [new.block_list EXCEPT ![blk] = info]
  BY <1>4 DEF BankField
<1> HIDE DEF written
<1>8. /\ DOMAIN pinned = BankField
      /\ \A f \in BankField \ {"block_list", "remap_inbuff_cnt"} : pinned[f] = written[f]
      /\ pinned.block_list =
            [written.block_list EXCEPT ![blk].remained_remap_cnt = @ + SuperPage - written.remap_inbuff_cnt]
  BY <1>7 DEF BankField
<1> HIDE DEF pinned
<1>9. /\ \A f \in BankField \ {"RW_log_list", "data_list"} : moved[f] = pinned[f]
      /\ moved.data_list = Append(pinned.data_list, blk)
  BY <1>8 DEF BankField
<1> HIDE DEF moved
<1>10. m = written \/ (t = "RW" /\ m \in {pinned, moved})
  BY <1>1, <1>2, <1>3
<1>11. \A f \in FlashField : f \in BankField /\ f \notin {"block_list", "writebuf", "writebuf_index", "remap_inbuff_cnt",
                                                          "RW_log_list", "data_list"}
  BY DEF FlashField, BankField
<1>12. SameFields(new, m, FlashField)
  BY <1>7, <1>8, <1>9, <1>10, <1>11 DEF SameFields
<1>13. m.block_list \in {written.block_list, pinned.block_list}
  BY <1>8, <1>9, <1>10 DEF BankField
<1>14. /\ \A k \in Block : k # blk => written.block_list[k] = new.block_list[k] /\ pinned.block_list[k] = new.block_list[k]
       /\ written.block_list[blk] = info
       /\ SameFields(info, pinned.block_list[blk], {"vcount", "vbitmap", "spare"})
  <2>1. \A k \in Block : k # blk => written.block_list[k] = new.block_list[k]
    BY <1>4, <1>7
  <2>2. written.block_list[blk] = info /\ DOMAIN written.block_list = Block
    BY <1>4, <1>5, <1>7
  <2>3. \A k \in Block : k # blk => pinned.block_list[k] = written.block_list[k]
    BY <1>8, <2>2
  <2>4. pinned.block_list[blk] = [info EXCEPT !.remained_remap_cnt = @ + SuperPage - written.remap_inbuff_cnt]
    BY <1>5, <1>8, <2>2
  <2>5. SameFields(info, pinned.block_list[blk], {"vcount", "vbitmap", "spare"})
    BY <1>6, <2>4 DEF SameFields, InfoField
  <2> QED
    BY <2>1, <2>2, <2>3, <2>5
<1>15. /\ \A k \in Block : k # blk => SameFields(new.block_list[k], m.block_list[k], {"vcount", "vbitmap", "spare"})
       /\ SameFields(info, m.block_list[blk], {"vcount", "vbitmap", "spare"})
  BY <1>13, <1>14 DEF SameFields
<1>16. Held(new, "data") \subseteq Held(m, "data")
  <2>1. written.data_list = new.data_list /\ pinned.data_list = new.data_list
    BY <1>7, <1>8 DEF BankField
  <2>2. m.data_list = new.data_list \/ (t = "RW" /\ m.data_list = Append(new.data_list, blk))
    BY <1>9, <1>10, <2>1
  <2>3. CASE m.data_list = new.data_list
    BY <2>3, ListsAre DEF Held
  <2>4. CASE t = "RW" /\ m.data_list = Append(new.data_list, blk)
    <3>1. Conserved(new) /\ blk \in Held(new, "RW_log")
      BY <2>4 DEF BankInv
    <3>2. blk \notin Held(new, "data")
      BY <3>1, HeldBlocks, ListsAre
    <3>3. List(new.data_list) /\ blk \notin ToSet(new.data_list)
      BY <3>1, <3>2, ListsAre DEF Conserved, Held
    <3>4. ToSet(Append(new.data_list, blk)) = ToSet(new.data_list) \cup {blk}
      BY ONLY <1>5, <3>3, ListAppend
    <3>5. ToSet(new.data_list) \subseteq ToSet(m.data_list)
      BY <2>4, <3>4
    <3> QED
      BY <3>5, ListsAre DEF Held
  <2> QED
    BY <2>2, <2>3, <2>4
<1> QED
  BY <1>12, <1>15, <1>16 DEF BankProgrammed, info

\* The flash of the bank with the program done.
ProgramGood(b, new, m, map, map2, blk, page, buf) ==
    /\ MapApart(map2) /\ BankFlash(b, m, map2) /\ ReserveIsBack(m)
    /\ \A d \in Bank : d # b => SameMap(map, map2, d)
    /\ BankInv(new) /\ BankProgrammed(new, blk, page, buf, m)
    /\ blk \in Block /\ page \in 0 .. LAST
    /\ \A l \in LPN : InBlock(map[l], b, blk) => PageOf(map[l].off) # page

LEMMA ProgramBank ==
    ASSUME NEW b \in Bank, NEW n, BankInv(n), NEW map, MapApart(map), BankFlash(b, n, map), ReserveIsBack(n),
           NEW t \in Type, Obstacle(n, t) = "none",
           NEW buf, buf = n.writebuf[t], BufferReady(buf, map),
           NEW new, new = assign_new_write_vpn(n, t),
           NEW blk, blk = new.cur_write_vpn[t].block, NEW page, page = new.cur_write_vpn[t].page,
           NEW m, m = ProgramDone(n, t),
           NEW map2, WrittenTo(buf, b, blk, page, map, map2)
    PROVE  ProgramGood(b, new, m, map, map2, blk, page, buf)
<1>1. ActiveFull(n, t) => n.free_list # <<>>
  BY DEF Obstacle
<1>2. /\ BankFlash(b, new, map) /\ ReserveIsBack(new)
      /\ blk \in Held(new, IF t = "SW" THEN "data" ELSE "RW_log")
      /\ page \in 0 .. LAST
      /\ PageIsFresh(b, new, map, blk, page)
  BY <1>1, AssignNext, AssignFirst
<1>3. BankInv(new) /\ blk \in Block
  BY AssignKeeps
<1>4. DOMAIN buf = Position /\ \A pos \in Position : SpareOf(buf, pos) \in Home
  BY BufferSpare DEF BufferReady
<1>5. BankProgrammed(new, blk, page, buf, m)
  BY <1>2, <1>3, <1>4, ProgramDoneIs
<1>6. \A l \in LPN : InBlock(map[l], b, blk) => PageOf(map[l].off) # page
  BY <1>2 DEF PageIsFresh
<1>7. MapApart(map2)
  <2>1. /\ b \in Bank /\ MapApart(map) /\ blk \in Block /\ page \in 0 .. LAST
        /\ \A l \in LPN : InBlock(map[l], b, blk) => PageOf(map[l].off) # page
        /\ BufferReady(buf, map) /\ WrittenTo(buf, b, blk, page, map, map2)
    BY <1>2, <1>3, <1>6
  <2> QED
    BY ONLY <2>1, ProgrammedApart
<1>8. BankFlash(b, m, map2)
  <2>1. /\ b \in Bank /\ BankInv(new) /\ MapApart(map) /\ BankFlash(b, new, map)
        /\ blk \in Held(new, "data") \cup Held(new, "RW_log") /\ page \in 0 .. LAST
        /\ PageIsFresh(b, new, map, blk, page) /\ BufferReady(buf, map)
        /\ WrittenTo(buf, b, blk, page, map, map2)
    BY <1>2, <1>3
  <2>2. /\ SameFields(new, m, FlashField) /\ Held(new, "data") \subseteq Held(m, "data")
        /\ \A k \in Block : k # blk =>
                SameFields(new.block_list[k], m.block_list[k], {"vcount", "vbitmap", "spare"})
        /\ SameFields(Programmed(new.block_list[blk], page, buf), m.block_list[blk],
                      {"vcount", "vbitmap", "spare"})
    BY <1>5 DEF BankProgrammed
  <2> QED
    BY ONLY <2>1, <2>2, ProgramFlash
<1>9. ReserveIsBack(m)
  <2>1. /\ m.GC_BLK = new.GC_BLK /\ m.cur_gc_vpn = new.cur_gc_vpn /\ m.victim_list = new.victim_list
        /\ m.cur_vt_vpn = new.cur_vt_vpn /\ m.GCbuf_lpn = new.GCbuf_lpn
    BY <1>5 DEF BankProgrammed, SameFields, FlashField
  <2>2. ASSUME new.victim_list # <<>>
        PROVE  m.block_list[new.victim_list[1]].vcount = new.block_list[new.victim_list[1]].vcount
    <3> DEFINE k == new.victim_list[1]
    <3>1. k \in Block /\ k \in Held(new, "victim")
      BY <1>3, <2>2, OldestIsBlock
    <3>2. Conserved(new)
      BY <1>3 DEF BankInv
    <3> HIDE DEF k
    <3>3. k # blk
      BY <1>2, <3>1, <3>2, HeldBlocks, ListsAre
    <3>4. m.block_list[k].vcount = new.block_list[k].vcount
      BY <1>5, <3>1, <3>3 DEF BankProgrammed, SameFields
    <3> QED
      BY <3>4 DEF k
  <2> QED
    BY <1>2, <2>1, <2>2 DEF ReserveIsBack, Reading, Holes
<1>10. \A d \in Bank : d # b => SameMap(map, map2, d)
  <2> SUFFICES ASSUME NEW d \in Bank, d # b, NEW l \in LPN, InBank(map[l], d) \/ InBank(map2[l], d)
               PROVE  map2[l] = map[l]
    BY DEF SameMap
  <2>1. CASE l \in AddressesOf(buf)
    <3>1. PICK p \in Mapped(buf) : buf[p].req = l
      BY <2>1 DEF AddressesOf
    <3>2. ~InFlash(map[l]) /\ map2[l] = Flash(b, blk, OffsetOf(page, p))
      BY <3>1 DEF BufferReady, WrittenTo
    <3>3. map2[l].bank = b
      BY <3>2 DEF Flash
    <3> QED
      BY <3>2, <3>3 DEF InBank
  <2>2. CASE l \notin AddressesOf(buf)
    BY <2>2 DEF WrittenTo
  <2> QED
    BY <2>1, <2>2
<1> QED
  BY <1>2, <1>3, <1>5, <1>6, <1>7, <1>8, <1>9, <1>10 DEF ProgramGood

\* The map after a program.
LEMMA ProgramMapIs ==
    ASSUME NEW buf, \A p \in Mapped(buf) : buf[p].req \in LPN /\ \A q \in Mapped(buf) : buf[p].req = buf[q].req => p = q,
           NEW b, NEW blk, NEW page, NEW map2, map2 = ProgramMap(buf, b, blk, page)
    PROVE  WrittenTo(buf, b, blk, page, vpn, map2)
<1>1. ASSUME NEW p \in Mapped(buf)
      PROVE  map2[buf[p].req] = Flash(b, blk, OffsetOf(page, p))
  <2> DEFINE l == buf[p].req
             q == CHOOSE pos \in Mapped(buf) : buf[pos].req = l
  <2>1. q \in Mapped(buf) /\ buf[q].req = l
    OBVIOUS
  <2>2. q = p
    BY <2>1
  <2>3. map2[l] = Flash(b, blk, OffsetOf(page, q))
    BY DEF ProgramMap
  <2> QED
    BY <2>2, <2>3
<1>2. ASSUME NEW l \in LPN \ AddressesOf(buf)
      PROVE  map2[l] = vpn[l]
  BY DEF ProgramMap, AddressesOf
<1> QED
  BY <1>1, <1>2 DEF WrittenTo

\* The bank, the map and the copies after the step.
ProgramEnds(b, t, buf, n, new, blk, page, m) ==
    /\ b = cur_write_bank /\ b \in Bank /\ t \in Type /\ n = nand[b] /\ buf = n.writebuf[t] /\ DOMAIN buf = Position
    /\ BufferReady(buf, vpn) /\ \A p \in Mapped(buf) : vpn[buf[p].req] = Buffered(b, t, p)
    /\ new = assign_new_write_vpn(n, t)
    /\ ProgramGood(b, new, m, vpn, vpn', blk, page, buf)
    /\ WrittenTo(buf, b, blk, page, vpn, vpn')
    /\ nand'[b] = m /\ \A c \in Bank : c # b => nand'[c] = nand[c]
    /\ m.writebuf = [n.writebuf EXCEPT ![t] = <<>>]
    /\ \A l \in LPN : copies'[l] =
            {c \in copies[l] : \A pos \in Position : c # Buffered(b, t, pos)}
            \cup {Flash(b, blk, OffsetOf(page, pos)) : pos \in {p \in Position : Buffered(b, t, p) \in copies[l]}}
    /\ DOMAIN copies' = LPN
    /\ kept' = FALSE /\ pc' = "gc" /\ UNCHANGED <<twrite, reads>>

LEMMA ProgramIs ==
    ASSUME FTLInv, MapInv, Program
    PROVE  \E b, t, buf, n, new, blk, page, m : ProgramEnds(b, t, buf, n, new, blk, page, m)
<1>1. pc = "program" /\ write_type \in Type /\ cur_write_bank \in Bank
  BY DEF Program, FTLInv, ProgramIsFull, Ranges
<1>2. PICK b \in Bank : b = cur_write_bank
  BY <1>1
<1>3. PICK t \in Type : t = write_type
  BY <1>1
<1> DEFINE n == nand[b]
           buf == n.writebuf[t]
           new == assign_new_write_vpn(n, t)
           blk == new.cur_write_vpn[t].block
           page == new.cur_write_vpn[t].page
           m == ProgramDone(n, t)
           map2 == ProgramMap(buf, b, blk, page)
<1>4. /\ Obstacle(n, t) = "none" /\ vpn' = map2
      /\ kept' = FALSE /\ pc' = "gc" /\ UNCHANGED <<twrite, reads>>
  BY <1>2, <1>3, Zenon DEF Program, ProgramMap
<1>5. nand' = [nand EXCEPT ![b] = m]
  <2>1. nand' = [nand EXCEPT ![cur_write_bank] = ProgramDone(nand[cur_write_bank], write_type)]
    BY DEF Program, ProgramDone
  <2> QED
    BY <1>2, <1>3, <2>1
<1>6. copies' = [l \in LPN |->
            {c \in copies[l] : \A pos \in Position : c # Buffered(b, t, pos)}
            \cup {Flash(b, blk, OffsetOf(page, pos)) : pos \in {p \in Position : Buffered(b, t, p) \in copies[l]}}]
  BY <1>2, <1>3, Zenon DEF Program
<1>7. DOMAIN nand = Bank /\ BankInv(n) /\ DOMAIN buf = Position
  BY <1>1, <1>2, <1>3 DEF FTLInv, Ranges, SlotInv, ProgramIsFull
<1>8. n = nand[b] /\ buf = n.writebuf[t] /\ new = assign_new_write_vpn(n, t)
      /\ blk = new.cur_write_vpn[t].block /\ page = new.cur_write_vpn[t].page /\ m = ProgramDone(n, t)
      /\ map2 = ProgramMap(buf, b, blk, page)
  OBVIOUS
<1> HIDE DEF n, buf, new, blk, page, m, map2
<1>9. BufferReady(buf, vpn) /\ \A p \in Mapped(buf) : vpn[buf[p].req] = Buffered(b, t, p)
  <2>1. BuffersMapped(nand, vpn) /\ (\A c \in Bank : BankInv(nand[c])) /\ buf = nand[b].writebuf[t]
    BY <1>8 DEF MapInv, FTLInv, SlotInv
  <2> QED
    BY <1>7, <2>1, ReadyToProgram
<1>10. WrittenTo(buf, b, blk, page, vpn, map2)
  <2>1. \A p \in Mapped(buf) : buf[p].req \in LPN /\ \A q \in Mapped(buf) : buf[p].req = buf[q].req => p = q
    BY <1>9 DEF BufferReady
  <2> QED
    BY <1>8, <2>1, ProgramMapIs
<1>11. ProgramGood(b, new, m, vpn, map2, blk, page, buf)
  <2>1. MapApart(vpn) /\ BankFlash(b, n, vpn) /\ ReserveIsBack(n)
    BY <1>8 DEF MapInv, FlashInv
  <2> QED
    BY <1>4, <1>7, <1>8, <1>9, <1>10, <2>1, ProgramBank
<1>12. m.writebuf = [n.writebuf EXCEPT ![t] = <<>>]
  <2>1. CASE t = "SW"
    BY <1>4, <1>7, <1>8, <2>1, HomeProgram
  <2>2. CASE t = "RW"
    BY <1>4, <1>7, <1>8, <2>2, LogProgram
  <2> QED
    BY <2>1, <2>2 DEF Type
<1>13. nand'[b] = m /\ \A c \in Bank : c # b => nand'[c] = nand[c]
  BY <1>5, <1>7
<1>14. /\ \A l \in LPN : copies'[l] =
            {c \in copies[l] : \A pos \in Position : c # Buffered(b, t, pos)}
            \cup {Flash(b, blk, OffsetOf(page, pos)) : pos \in {p \in Position : Buffered(b, t, p) \in copies[l]}}
       /\ DOMAIN copies' = LPN
  BY <1>6
<1>15. ProgramEnds(b, t, buf, n, new, blk, page, m)
  BY <1>2, <1>4, <1>7, <1>8, <1>9, <1>10, <1>11, <1>12, <1>13, <1>14 DEF ProgramEnds
<1> QED
  BY <1>15

\* The data of a program moves from the buffer to the page.
LEMMA ProgramCopies ==
    ASSUME NEW banks, NEW map, NEW cps, CopiesRight(banks, map, cps), BuffersMapped(banks, map),
           \A c \in Bank : BankInv(banks[c]),
           NEW b \in Bank, NEW t \in Type, NEW buf, buf = banks[b].writebuf[t], DOMAIN buf = Position,
           \A p \in Mapped(buf) : map[buf[p].req] = Buffered(b, t, p),
           NEW blk \in Block, NEW page \in 0 .. LAST,
           NEW map2, WrittenTo(buf, b, blk, page, map, map2),
           NEW cps2, \A l \in LPN : cps2[l] =
                {c \in cps[l] : \A pos \in Position : c # Buffered(b, t, pos)}
                \cup {Flash(b, blk, OffsetOf(page, pos)) : pos \in {p \in Position : Buffered(b, t, p) \in cps[l]}},
           NEW banks2, \A c \in Bank : banks2[c].GCbuf_lpn = banks[c].GCbuf_lpn
    PROVE  CopiesRight(banks2, map2, cps2)
<1>1. \A pos \in Position : LET v == Flash(b, blk, OffsetOf(page, pos)) IN v \in VPN /\ v # VC_MAX
  <2> TAKE pos \in Position
  <2>1. OffsetOf(page, pos) \in Offset
    BY OffsetInBlock
  <2> QED
    BY <2>1, FlashPlace DEF Flash, VPN
<1>2. ASSUME NEW l \in LPN
      PROVE  IF map2[l] = VC_MAX THEN cps2[l] = {} ELSE map2[l] \in cps2[l]
  <2>1. CASE l \in AddressesOf(buf)
    <3>1. PICK p \in Mapped(buf) : buf[p].req = l
      BY <2>1 DEF AddressesOf
    <3>2. p \in Position /\ map[l] = Buffered(b, t, p) /\ map2[l] = Flash(b, blk, OffsetOf(page, p))
      BY <3>1 DEF Mapped, WrittenTo
    <3>3. map[l] # VC_MAX
      BY <3>2, BufferPlace
    <3>4. Buffered(b, t, p) \in cps[l]
      BY <3>2, <3>3 DEF CopiesRight
    <3>5. map2[l] \in cps2[l]
      BY <3>2, <3>4
    <3> QED
      BY <1>1, <3>2, <3>5
  <2>2. CASE l \notin AddressesOf(buf)
    <3>1. map2[l] = map[l]
      BY <2>2 DEF WrittenTo
    <3>2. CASE map[l] = VC_MAX
      <4>1. cps[l] = {}
        BY <3>2 DEF CopiesRight
      <4> QED
        BY <3>1, <3>2, <4>1
    <3>3. CASE map[l] # VC_MAX
      <4>1. map[l] \in cps[l]
        BY <3>3 DEF CopiesRight
      <4>2. ASSUME NEW pos \in Position, map[l] = Buffered(b, t, pos)
            PROVE  FALSE
        <5>1. buf[pos].req = l
          BY <4>2, BufferedIs
        <5>2. l # RSP_INVALID_LPN
          BY FlashFacts
        <5> QED
          BY <2>2, <5>1, <5>2 DEF AddressesOf, Mapped
      <4>3. map[l] \in cps2[l]
        BY <4>1, <4>2
      <4> QED
        BY <3>1, <3>3, <4>3
    <3> QED
      BY <3>2, <3>3
  <2> QED
    BY <2>1, <2>2
<1>3. ASSUME NEW l \in LPN, NEW c \in Bank, NEW i \in DOMAIN banks2[c].GCbuf_lpn, banks2[c].GCbuf_lpn[i] = l
      PROVE  GCBuffered(c, i) \in cps2[l]
  <2>1. GCBuffered(c, i) \in cps[l]
    BY <1>3 DEF CopiesRight
  <2>2. \A pos \in Position : GCBuffered(c, i) # Buffered(b, t, pos)
    BY BufferedElsewhere
  <2> QED
    BY <2>1, <2>2
<1>4. \A l \in LPN : cps2[l] \subseteq VPN \cup BufferVPN \cup GCPlace
  <2> TAKE l \in LPN
  <2>1. cps[l] \subseteq VPN \cup BufferVPN \cup GCPlace
    BY DEF CopiesRight
  <2> QED
    BY <1>1, <2>1
<1> QED
  BY <1>2, <1>3, <1>4 DEF CopiesRight

\* A write buffer is emptied, and its addresses are in flash.
LEMMA BufferLeft ==
    ASSUME NEW banks, NEW map, BuffersMapped(banks, map), \A c \in Bank : BankInv(banks[c]),
           NEW b \in Bank, NEW t \in Type, NEW buf, buf = banks[b].writebuf[t],
           \A p \in Mapped(buf) : map[buf[p].req] = Buffered(b, t, p),
           NEW blk \in Block, NEW page \in 0 .. LAST, DOMAIN buf = Position,
           NEW map2, WrittenTo(buf, b, blk, page, map, map2),
           NEW banks2, DOMAIN banks2[b].writebuf[t] = {},
           \A c \in Bank, u \in Type : c # b \/ u # t => banks2[c].writebuf[u] = banks[c].writebuf[u]
    PROVE  BuffersMapped(banks2, map2)
<1>1. ASSUME NEW x \in LPN, map2[x] # VC_MAX, ~InFlash(map2[x])
      PROVE  \E c \in Bank, u \in Type : \E p \in DOMAIN banks2[c].writebuf[u] :
                map2[x] = Buffered(c, u, p) /\ banks2[c].writebuf[u][p].req = x
  <2>1. x \notin AddressesOf(buf)
    <3> SUFFICES ASSUME NEW p \in Mapped(buf), buf[p].req = x
                 PROVE  FALSE
      BY DEF AddressesOf
    <3>1. map2[x] = Flash(b, blk, OffsetOf(page, p)) /\ p \in Position
      BY DEF WrittenTo, Mapped
    <3> QED
      BY <1>1, <3>1, OffsetInBlock, FlashPlace
  <2>2. map2[x] = map[x]
    BY <2>1 DEF WrittenTo
  <2>3. PICK c \in Bank, u \in Type : \E p \in DOMAIN banks[c].writebuf[u] :
                map[x] = Buffered(c, u, p) /\ banks[c].writebuf[u][p].req = x
    BY <1>1, <2>2 DEF BuffersMapped
  <2>4. PICK p \in DOMAIN banks[c].writebuf[u] : map[x] = Buffered(c, u, p) /\ banks[c].writebuf[u][p].req = x
    BY <2>3
  <2>5. c # b \/ u # t
    <3>1. x # RSP_INVALID_LPN
      BY FlashFacts
    <3> QED
      BY <2>1, <2>4, <3>1 DEF AddressesOf, Mapped
  <2>6. banks2[c].writebuf[u] = banks[c].writebuf[u]
    BY <2>5
  <2> QED
    BY <2>2, <2>4, <2>6
<1>2. ASSUME NEW c \in Bank, NEW u \in Type, NEW p \in DOMAIN banks2[c].writebuf[u],
             NEW req, req = banks2[c].writebuf[u][p].req, req # RSP_INVALID_LPN
      PROVE  req \in LPN /\ map2[req] = Buffered(c, u, p)
  <2>1. (c # b \/ u # t) /\ banks2[c].writebuf[u] = banks[c].writebuf[u]
    OBVIOUS
  <2>2. req \in LPN /\ map[req] = Buffered(c, u, p)
    BY <1>2, <2>1 DEF BuffersMapped
  <2>3. req \notin AddressesOf(buf)
    <3> SUFFICES ASSUME NEW q \in Mapped(buf), buf[q].req = req
                 PROVE  FALSE
      BY DEF AddressesOf
    <3>1. Buffered(c, u, p) = Buffered(b, t, q)
      BY <2>2
    <3>2. c = b /\ u = t
      BY <3>1 DEF Buffered
    <3> QED
      BY <2>1, <3>2
  <2> QED
    BY <2>2, <2>3 DEF WrittenTo
<1>3. ASSUME NEW c \in Bank, NEW p \in DOMAIN banks2[c].writebuf["RW"], banks2[c].writebuf["RW"][p].req \in HomeLPN
      PROVE  banks2[c].writebuf["RW"][p].remap = banks2[c].writebuf["RW"][p].req
  <2>1. "RW" \in Type
    BY DEF Type
  <2>2. banks2[c].writebuf["RW"] = banks[c].writebuf["RW"]
    BY <2>1
  <2> QED
    BY <1>3, <2>2 DEF BuffersMapped
<1> QED
  BY <1>1, <1>2, <1>3 DEF BuffersMapped

LEMMA ProgramMapStep ==
    ASSUME FTLInv, FTLInv', MapInv, Program
    PROVE  MapInv'
<1>1. PICK b, t, buf, n, new, blk, page, m : ProgramEnds(b, t, buf, n, new, blk, page, m)
  BY ProgramIs
<1>2. /\ b \in Bank /\ t \in Type /\ n = nand[b] /\ buf = n.writebuf[t] /\ DOMAIN buf = Position
      /\ BufferReady(buf, vpn) /\ \A p \in Mapped(buf) : vpn[buf[p].req] = Buffered(b, t, p)
      /\ new = assign_new_write_vpn(n, t)
      /\ WrittenTo(buf, b, blk, page, vpn, vpn')
      /\ nand'[b] = m /\ \A c \in Bank : c # b => nand'[c] = nand[c]
      /\ m.writebuf = [n.writebuf EXCEPT ![t] = <<>>]
      /\ DOMAIN copies' = LPN
      /\ kept' = FALSE /\ pc' = "gc" /\ UNCHANGED <<twrite, reads>>
  BY <1>1 DEF ProgramEnds
<1>3. \A l \in LPN : copies'[l] =
            {c \in copies[l] : \A pos \in Position : c # Buffered(b, t, pos)}
            \cup {Flash(b, blk, OffsetOf(page, pos)) : pos \in {p \in Position : Buffered(b, t, p) \in copies[l]}}
  BY <1>1 DEF ProgramEnds
<1>4. /\ MapApart(vpn') /\ BankFlash(b, m, vpn') /\ ReserveIsBack(m)
      /\ \A d \in Bank : d # b => SameMap(vpn, vpn', d)
      /\ BankInv(new) /\ BankProgrammed(new, blk, page, buf, m)
      /\ blk \in Block /\ page \in 0 .. LAST
      /\ \A l \in LPN : InBlock(vpn[l], b, blk) => PageOf(vpn[l].off) # page
  BY <1>1 DEF ProgramEnds, ProgramGood
<1>5. /\ FlashInv(nand, vpn) /\ BuffersMapped(nand, vpn) /\ RemapTold(nand, vpn, twrite)
      /\ CopiesRight(nand, vpn, copies) /\ Control
      /\ \A c \in Bank : BankInv(nand[c]) /\ Rested(nand[c])
  BY DEF MapInv, FTLInv, SlotInv
<1>6. /\ \A f \in BankField \ {"free_list", "cur_write_vpn", "block_list", "data_list", "RW_log_list",
                               "write_start"} : new[f] = n[f]
      /\ \A k \in Block : new.block_list[k].spare = n.block_list[k].spare
  BY <1>2, <1>5, AssignIs
<1>7. FlashInv(nand', vpn')
  <2> DEFINE banks2 == nand'
             map2 == vpn'
  <2>1. /\ FlashInv(nand, vpn) /\ (\A c \in Bank : BankInv(nand[c])) /\ b \in Bank
        /\ (\A c \in Bank : c # b => banks2[c] = nand[c])
        /\ MapApart(map2) /\ (\A c \in Bank : c # b => SameMap(vpn, map2, c))
        /\ BankFlash(b, banks2[b], map2) /\ ReserveIsBack(banks2[b])
    BY <1>2, <1>4, <1>5
  <2> HIDE DEF banks2, map2
  <2>2. FlashInv(banks2, map2)
    BY ONLY <2>1, FlashStep
  <2> QED
    BY <2>2 DEF banks2, map2
<1>8. m.GCbuf_lpn = n.GCbuf_lpn /\ m.cur_vt_vpn = n.cur_vt_vpn
  <2>1. m.GCbuf_lpn = new.GCbuf_lpn /\ m.cur_vt_vpn = new.cur_vt_vpn
    BY <1>4 DEF BankProgrammed, SameFields, FlashField
  <2>2. new.GCbuf_lpn = n.GCbuf_lpn /\ new.cur_vt_vpn = n.cur_vt_vpn
    BY <1>6 DEF BankField
  <2> QED
    BY <2>1, <2>2
<1>9. \A c \in Bank : Rested(nand'[c]) /\ nand'[c].GCbuf_lpn = nand[c].GCbuf_lpn
  BY <1>2, <1>5, <1>8 DEF Rested
<1>10. /\ DOMAIN nand'[b].writebuf[t] = {}
       /\ \A c \in Bank, u \in Type : c # b \/ u # t => nand'[c].writebuf[u] = nand[c].writebuf[u]
  <2>1. DOMAIN n.writebuf = Type
    BY <1>2, <1>5 DEF BankInv, BankShape
  <2>2. DOMAIN <<>> = {}
    OBVIOUS
  <2> QED
    BY <1>2, <2>1, <2>2
<1>11. BuffersMapped(nand', vpn')
  <2> DEFINE banks2 == nand'
             map2 == vpn'
  <2>1. /\ BuffersMapped(nand, vpn) /\ (\A c \in Bank : BankInv(nand[c])) /\ b \in Bank /\ t \in Type
        /\ buf = nand[b].writebuf[t] /\ (\A p \in Mapped(buf) : vpn[buf[p].req] = Buffered(b, t, p))
        /\ blk \in Block /\ page \in 0 .. LAST /\ DOMAIN buf = Position
        /\ WrittenTo(buf, b, blk, page, vpn, map2) /\ DOMAIN banks2[b].writebuf[t] = {}
        /\ \A c \in Bank, u \in Type : c # b \/ u # t => banks2[c].writebuf[u] = nand[c].writebuf[u]
    BY <1>2, <1>4, <1>5, <1>10
  <2> HIDE DEF banks2, map2
  <2>2. BuffersMapped(banks2, map2)
    BY ONLY <2>1, BufferLeft
  <2> QED
    BY <2>2 DEF banks2, map2
<1>12. CopiesRight(nand', vpn', copies')
  <2> DEFINE banks2 == nand'
             map2 == vpn'
             cps2 == copies'
  <2>1. /\ CopiesRight(nand, vpn, copies)
        /\ BuffersMapped(nand, vpn) /\ (\A c \in Bank : BankInv(nand[c])) /\ b \in Bank /\ t \in Type
        /\ buf = nand[b].writebuf[t] /\ (\A p \in Mapped(buf) : vpn[buf[p].req] = Buffered(b, t, p))
        /\ blk \in Block /\ page \in 0 .. LAST /\ DOMAIN buf = Position
        /\ WrittenTo(buf, b, blk, page, vpn, map2)
        /\ \A c \in Bank : banks2[c].GCbuf_lpn = nand[c].GCbuf_lpn
    BY <1>2, <1>4, <1>5, <1>9
  <2>2. \A l \in LPN : cps2[l] =
            {c \in copies[l] : \A pos \in Position : c # Buffered(b, t, pos)}
            \cup {Flash(b, blk, OffsetOf(page, pos)) : pos \in {p \in Position : Buffered(b, t, p) \in copies[l]}}
    BY <1>3
  <2> HIDE DEF banks2, map2, cps2
  <2>3. CopiesRight(banks2, map2, cps2)
    BY ONLY <2>1, <2>2, ProgramCopies
  <2> QED
    BY <2>3 DEF banks2, map2, cps2
<1>13. RemapTold(nand', vpn', twrite')
  <2> SUFFICES ASSUME NEW s \in SlotLPN, twrite'[s] # RSP_INVALID_LPN
               PROVE  /\ \A c \in Bank, k \in Block, off \in Offset : vpn'[s] = Flash(c, k, off) =>
                            nand'[c].block_list[k].spare[off] = twrite'[s]
                      /\ \A c \in Bank : \A p \in DOMAIN nand'[c].writebuf["RW"] :
                            vpn'[s] = Buffered(c, "RW", p) => nand'[c].writebuf["RW"][p].remap = twrite'[s]
    BY DEF RemapTold
  <2>1. s \in LPN /\ s \notin Home /\ twrite'[s] = twrite[s] /\ twrite[s] # RSP_INVALID_LPN
    BY <1>2, FlashFacts DEF LPN, Home
  <2>2. /\ \A pos \in Position :
                m.block_list[blk].spare[OffsetOf(page, pos)] = SpareOf(buf, pos) /\ OffsetOf(page, pos) \in Offset
        /\ \A off \in Offset : PageOf(off) # page => m.block_list[blk].spare[off] = n.block_list[blk].spare[off]
        /\ \A k \in Block : k # blk => m.block_list[k].spare = n.block_list[k].spare
    <3> DEFINE info == new.block_list[blk]
               prg == Programmed(info, page, buf)
    <3>1. DOMAIN info = InfoField
      BY <1>4 DEF BankInv, BankShape
    <3>2. /\ \A pos \in Position : prg.spare[OffsetOf(page, pos)] = SpareOf(buf, pos)
          /\ \A off \in Offset : (\A pos \in Position : OffsetOf(page, pos) # off) => prg.spare[off] = info.spare[off]
      <4> HIDE DEF info
      <4> QED
        BY <1>4, <3>1, ProgrammedIs
    <3>3. m.block_list[blk].spare = prg.spare /\ \A k \in Block : k # blk => m.block_list[k].spare = new.block_list[k].spare
      BY <1>4 DEF BankProgrammed, SameFields
    <3>4. info.spare = n.block_list[blk].spare
      BY <1>4, <1>6
    <3> HIDE DEF info, prg
    <3>5. \A pos \in Position : OffsetOf(page, pos) \in Offset /\ PageOf(OffsetOf(page, pos)) = page
      BY <1>4, PlacesOfPage
    <3> QED
      BY <1>6, <3>2, <3>3, <3>4, <3>5
  <2>3. CASE s \in AddressesOf(buf)
    <3>1. PICK p \in Mapped(buf) : buf[p].req = s
      BY <2>3 DEF AddressesOf
    <3>2. p \in Position /\ vpn[s] = Buffered(b, t, p) /\ vpn'[s] = Flash(b, blk, OffsetOf(page, p))
      BY <1>2, <3>1 DEF Mapped, WrittenTo
    <3>3. t = "RW" /\ buf[p].remap \in HomeLPN
      <4>1. buf[p] \in Entry(t)
        BY <1>2, <1>5, <3>2 DEF BankInv, BuffersOK
      <4>2. t # "SW"
        BY <2>1, <3>1, <4>1 DEF Entry
      <4> QED
        BY <1>2, <4>1, <4>2 DEF Type, Entry
    <3>4. buf[p].remap = twrite[s]
      BY <1>2, <1>5, <2>1, <3>2, <3>3 DEF RemapTold
    <3>5. SpareOf(buf, p) = twrite[s]
      BY <2>1, <3>4 DEF SpareOf
    <3>6. ASSUME NEW c \in Bank, NEW k \in Block, NEW off \in Offset, vpn'[s] = Flash(c, k, off)
          PROVE  nand'[c].block_list[k].spare[off] = twrite'[s]
      <4>1. c = b /\ k = blk /\ off = OffsetOf(page, p)
        BY <3>2, <3>6 DEF Flash
      <4> QED
        BY <1>2, <2>1, <2>2, <3>2, <3>5, <4>1
    <3>7. ASSUME NEW c \in Bank, NEW x \in DOMAIN nand'[c].writebuf["RW"]
          PROVE  vpn'[s] # Buffered(c, "RW", x)
      <4>1. x \in Position /\ "RW" \in Type
        <5>1. BankInv(nand'[c])
          BY DEF FTLInv, SlotInv
        <5> QED
          BY <5>1, BufferPositions DEF Type
      <4> QED
        BY <1>2, <1>4, <2>2, <3>2, <4>1, FlashPlace, BufferPlace
    <3> QED
      BY <3>6, <3>7
  <2>4. CASE s \notin AddressesOf(buf)
    <3>1. vpn'[s] = vpn[s]
      BY <1>2, <2>1, <2>4 DEF WrittenTo
    <3>2. ASSUME NEW c \in Bank, NEW k \in Block, NEW off \in Offset, vpn[s] = Flash(c, k, off)
          PROVE  nand'[c].block_list[k].spare[off] = nand[c].block_list[k].spare[off]
      <4>1. CASE c = b /\ k = blk
        <5>1. InBlock(vpn[s], b, blk) /\ vpn[s].off = off
          BY <1>2, <1>4, <3>2, <4>1, FlashIsIn
        <5>2. PageOf(off) # page
          BY <1>4, <2>1, <5>1
        <5> QED
          BY <1>2, <2>2, <4>1, <5>2
      <4>2. CASE c # b \/ k # blk
        BY <1>2, <2>2, <4>2
      <4> QED
        BY <4>1, <4>2
    <3>3. ASSUME NEW c \in Bank, NEW p \in DOMAIN nand'[c].writebuf["RW"]
          PROVE  p \in DOMAIN nand[c].writebuf["RW"] /\ nand'[c].writebuf["RW"][p] = nand[c].writebuf["RW"][p]
      <4>1. "RW" \in Type
        BY DEF Type
      <4> QED
        BY <1>10, <3>3, <4>1
    <3> QED
      BY <1>5, <2>1, <3>1, <3>2, <3>3 DEF RemapTold
  <2> QED
    BY <2>3, <2>4
<1>14. Control'
  BY <1>2, <1>5 DEF Control
<1> QED
  BY <1>2, <1>7, <1>9, <1>11, <1>12, <1>13, <1>14 DEF MapInv

-----------------------------------------------------------------------------
(***************************************************************************)
(* A remap: the slot's place becomes that of its home address.             *)
(***************************************************************************)
\* The address in a place of a write buffer is x from now on.
ReqSet(banks, banks2, v, x) ==
    \A c \in Bank, u \in Type :
        /\ DOMAIN banks2[c].writebuf[u] = DOMAIN banks[c].writebuf[u]
        /\ \A p \in DOMAIN banks[c].writebuf[u] :
            LET e == banks[c].writebuf[u][p]
                e2 == banks2[c].writebuf[u][p]
            IN  e2.remap = e.remap /\ e2.req = IF v = Buffered(c, u, p) THEN x ELSE e.req

\* No write buffer changes.
LEMMA NoReqSet ==
    ASSUME NEW banks, \A c \in Bank : BankInv(banks[c]),
           NEW banks2, \A c \in Bank : banks2[c].writebuf = banks[c].writebuf,
           NEW v, v = VC_MAX \/ InFlash(v), NEW x
    PROVE  ReqSet(banks, banks2, v, x)
<1>1. ASSUME NEW c \in Bank, NEW u \in Type, NEW p \in DOMAIN banks[c].writebuf[u]
      PROVE  v # Buffered(c, u, p)
  <2>1. p \in Position
    BY BufferPositions
  <2> QED
    BY <2>1, BufferPlace
<1> QED
  BY <1>1 DEF ReqSet

EntryReq(n, m, t, pos, x) ==
    /\ DOMAIN m = BankField /\ m.writebuf = [n.writebuf EXCEPT ![t][pos].req = x]
    /\ \A f \in BankField \ {"writebuf", "remap_inbuff_cnt"} : m[f] = n[f]
LEMMA EntrySet ==
    ASSUME NEW banks, \A c \in Bank : BankInv(banks[c]),
           NEW b \in Bank, NEW t \in Type, NEW pos \in DOMAIN banks[b].writebuf[t],
           NEW v, v = Buffered(b, t, pos), NEW x,
           NEW banks2, EntryReq(banks[b], banks2[b], t, pos, x),
           \A c \in Bank : c # b => banks2[c] = banks[c]
    PROVE  /\ \A c \in Bank : SameBank(banks[c], banks2[c])
           /\ ReqSet(banks, banks2, v, x)
<1> DEFINE n == banks[b]
           m == banks2[b]
           buf == n.writebuf[t]
<1>0. /\ DOMAIN m = BankField /\ m.writebuf = [n.writebuf EXCEPT ![t][pos].req = x]
      /\ \A f \in BankField \ {"writebuf", "remap_inbuff_cnt"} : m[f] = n[f]
  BY DEF EntryReq
<1>1. DOMAIN n.writebuf = Type /\ BankInv(n)
  BY DEF BankInv, BankShape
<1>2. \A p \in DOMAIN buf : "req" \in DOMAIN buf[p] /\ "remap" \in DOMAIN buf[p]
  <2>1. \A p \in DOMAIN buf : buf[p] \in Entry(t)
    BY <1>1 DEF BankInv, BuffersOK
  <2>2. \A e \in Entry(t) : "req" \in DOMAIN e /\ "remap" \in DOMAIN e
    BY DEF Entry
  <2> QED
    BY <2>1, <2>2
<1>3. banks2[b] = m /\ \A c \in Bank : c # b => banks2[c] = banks[c]
  OBVIOUS
<1>4. SameBank(n, m)
  <2>1. SameFields(n, m, BankField \ {"writebuf", "writebuf_index", "remap_inbuff_cnt"})
    BY <1>0 DEF SameFields
  <2> HIDE DEF n, m
  <2> QED
    BY <1>1, <2>1, BuffersAside
<1>5. /\ \A u \in Type : u # t => m.writebuf[u] = n.writebuf[u]
      /\ DOMAIN m.writebuf[t] = DOMAIN buf
      /\ \A p \in DOMAIN buf : p # pos => m.writebuf[t][p] = buf[p]
      /\ m.writebuf[t][pos] = [buf[pos] EXCEPT !.req = x]
  BY <1>0, <1>1
<1> HIDE DEF m
<1>6. m.writebuf[t][pos].req = x /\ m.writebuf[t][pos].remap = buf[pos].remap
  BY <1>2, <1>5
<1>7. \A c, u, p : v = Buffered(c, u, p) <=> c = b /\ u = t /\ p = pos
  BY DEF Buffered
<1>8. ReqSet(banks, banks2, v, x)
  <2> SUFFICES ASSUME NEW c \in Bank, NEW u \in Type
               PROVE  /\ DOMAIN banks2[c].writebuf[u] = DOMAIN banks[c].writebuf[u]
                      /\ \A p \in DOMAIN banks[c].writebuf[u] :
                            /\ banks2[c].writebuf[u][p].remap = banks[c].writebuf[u][p].remap
                            /\ banks2[c].writebuf[u][p].req =
                                    IF v = Buffered(c, u, p) THEN x ELSE banks[c].writebuf[u][p].req
    BY DEF ReqSet
  <2>1. CASE c # b
    <3>1. banks2[c] = banks[c] /\ \A p : v # Buffered(c, u, p)
      BY <1>3, <1>7, <2>1
    <3> QED
      BY <3>1
  <2>2. CASE c = b /\ u # t
    <3>1. banks2[c].writebuf[u] = banks[c].writebuf[u]
      BY <1>3, <1>5, <2>2
    <3>2. \A p : v # Buffered(c, u, p)
      BY <1>7, <2>2
    <3> QED
      BY <3>1, <3>2
  <2>3. CASE c = b /\ u = t
    <3> DEFINE w == m.writebuf[t]
    <3>1. banks2[c].writebuf[u] = w /\ banks[c].writebuf[u] = buf
      BY <1>3, <2>3
    <3>2. /\ DOMAIN w = DOMAIN buf
          /\ w[pos].req = x /\ w[pos].remap = buf[pos].remap
          /\ \A p \in DOMAIN buf : p # pos => w[p] = buf[p]
      BY <1>5, <1>6
    <3>3. \A p : v = Buffered(c, u, p) <=> p = pos
      BY <1>7, <2>3
    <3> HIDE DEF w, buf
    <3>4. \A p \in DOMAIN buf : w[p].remap = buf[p].remap
                /\ w[p].req = IF v = Buffered(c, u, p) THEN x ELSE buf[p].req
      BY <3>2, <3>3
    <3> QED
      BY <3>1, <3>2, <3>4
  <2> QED
    BY <2>1, <2>2, <2>3
<1> QED
  BY <1>3, <1>4, <1>8, BankStays

\* What the new address in the buffer, or one page less to wait for, does to the banks.
LEMMA RemappedBanks ==
    ASSUME FTLInv, MapInv, NEW s \in SlotLPN, NEW o \in HomeLPN, vpn[s] # VC_MAX,
           NEW new, new = Remapped(s, o)
    PROVE  /\ DOMAIN new = Bank
           /\ \A c \in Bank : BankInv(new[c]) /\ SameBank(nand[c], new[c])
           /\ ReqSet(nand, new, vpn[s], o)
<1>1. SlotInv(nand, vpn) /\ DOMAIN nand = Bank /\ DOMAIN vpn = LPN /\ \A c \in Bank : BankInv(nand[c])
  BY DEF FTLInv, Ranges, SlotInv
<1>2. PICK map : map = [vpn EXCEPT ![s] = VC_MAX]
  OBVIOUS
<1>3. s \in LPN /\ map[s] = VC_MAX /\ \A x \in SlotLPN : x # s => map[x] = vpn[x]
  BY <1>1, <1>2 DEF LPN
<1> DEFINE v == vpn[s]
<1>4. CASE InLogBuffer(nand, v, s)
  <2>1. PICK b \in Bank : \E pos \in DOMAIN nand[b].writebuf["RW"] : v = Buffered(b, "RW", pos)
    BY <1>4 DEF InLogBuffer
  <2>2. PICK pos \in DOMAIN nand[b].writebuf["RW"] : v = Buffered(b, "RW", pos)
    BY <2>1
  <2> DEFINE set == [nand EXCEPT ![v.bank].writebuf[v.type][v.pos].req = o,
                                 ![v.bank].remap_inbuff_cnt = @ + 1]
             n == nand[b]
             m == [n EXCEPT !.writebuf["RW"][pos].req = o, !.remap_inbuff_cnt = @ + 1]
  <2>3. SlotInv(set, map) /\ BuffersStay(nand, set) /\ is_in_write_buffer(v)
    BY <1>1, <1>3, <1>4, SlotLeavesBuffer
  <2>4. new = set
    BY <2>3 DEF Remapped
  <2>5. "RW" \in Type /\ pos \in Position
    BY <1>1, BufferPositions DEF Type
  <2>6. v.bank = b /\ v.type = "RW" /\ v.pos = pos
    BY <2>2, <2>5, BufferPlace
  <2>7. DOMAIN n = BankField /\ DOMAIN n.writebuf = Type
    BY <1>1 DEF BankInv, BankShape
  <2>8. set = [nand EXCEPT ![b] = m]
    BY <1>1, <2>6, <2>7 DEF BankField
  <2>9. /\ DOMAIN m = BankField /\ m.writebuf = [n.writebuf EXCEPT !["RW"][pos].req = o]
        /\ \A f \in BankField \ {"writebuf", "remap_inbuff_cnt"} : m[f] = n[f]
    BY <2>7 DEF BankField
  <2> HIDE DEF set, m, v
  <2>10. (\A c \in Bank : SameBank(nand[c], set[c])) /\ ReqSet(nand, set, v, o)
    <3> DEFINE t == "RW"
    <3>1. EntryReq(nand[b], m, t, pos, o) /\ set[b] = m /\ \A c \in Bank : c # b => set[c] = nand[c]
      BY <1>1, <2>2, <2>5, <2>8, <2>9 DEF EntryReq
    <3>2. /\ (\A c \in Bank : BankInv(nand[c])) /\ b \in Bank /\ t \in Type
          /\ pos \in DOMAIN nand[b].writebuf[t] /\ v = Buffered(b, t, pos)
          /\ EntryReq(nand[b], set[b], t, pos, o) /\ \A c \in Bank : c # b => set[c] = nand[c]
      BY <3>1, <1>1, <2>2, <2>5, <2>8, <2>9
    <3> HIDE DEF t, n
    <3> QED
      BY ONLY <3>2, EntrySet
  <2> QED
    BY <2>3, <2>4, <2>10 DEF SlotInv, BuffersStay, v
<1>5. CASE InLogBlock(nand, v)
  <2>1. PICK b \in Bank : \E blk \in ToSet(nand[b].RW_log_list), off \in Offset : v = Flash(b, blk, off)
    BY <1>5 DEF InLogBlock
  <2>2. PICK blk \in ToSet(nand[b].RW_log_list), off \in Offset : v = Flash(b, blk, off)
    BY <2>1
  <2>3. blk \in Held(nand[b], "RW_log") /\ blk \in Block
    <3>1. BankInv(nand[b]) /\ blk \in Held(nand[b], "RW_log")
      BY <1>1, ListsAre DEF Held
    <3> QED
      BY <3>1, HeldBlocks, ListsAre DEF BankInv
  <2>4. InFlash(v) /\ ~is_in_write_buffer(v) /\ v.bank = b /\ v.block = blk
    BY <2>2, <2>3, FlashPlace
  <2> DEFINE set == [nand EXCEPT ![v.bank] = Unpin(@, v.block)]
             m == Unpin(nand[b], blk)
  <2>5. SlotInv(set, map) /\ BuffersStay(nand, set)
    BY <1>1, <1>3, <1>5, UnpinStep
  <2>6. new = set /\ set = [nand EXCEPT ![b] = m]
    BY <2>4 DEF Remapped
  <2>7. SameBank(nand[b], m) /\ m.writebuf = nand[b].writebuf
    BY <1>1, <2>3, UnpinAside
  <2> HIDE DEF set, m, v
  <2>8. set[b] = m /\ \A c \in Bank : c # b => set[c] = nand[c]
    BY <1>1, <2>6
  <2>9. \A c \in Bank : SameBank(nand[c], set[c]) /\ set[c].writebuf = nand[c].writebuf
    BY <2>7, <2>8, BankStays
  <2>10. ReqSet(nand, set, v, o)
    BY <1>1, <2>4, <2>9, NoReqSet
  <2> QED
    BY <2>5, <2>6, <2>9, <2>10 DEF SlotInv, BuffersStay, v
<1> QED
  BY <1>1, <1>4, <1>5 DEF SlotInv

\* Its home address leaves its old place.
LEMMA DropOldBanks ==
    ASSUME NEW banks, FlashInv(banks, vpn), DOMAIN banks = Bank, \A c \in Bank : BankInv(banks[c]),
           NEW o \in HomeLPN,
           vpn[o] # VC_MAX /\ ~InFlash(vpn[o]) => \E b \in Bank, t \in Type : \E pos \in DOMAIN banks[b].writebuf[t] :
                vpn[o] = Buffered(b, t, pos),
           NEW new, new = DropOld(banks, o),
           NEW map, map[o] = VC_MAX, \A x \in LPN : x # o => map[x] = vpn[x]
    PROVE  /\ FlashInv(new, map)
           /\ \A c \in Bank : CollectorRests(banks[c], new[c])
           /\ ReqSet(banks, new, vpn[o], RSP_INVALID_LPN)
<1>1. PICK D : D = Dropped(banks, vpn, o)
  OBVIOUS
<1>2. o \in LPN /\ ~InFlash(map[o])
  BY DEF LPN, InFlash
<1>3. FlashInv(D, map) /\ DOMAIN D = Bank /\ \A c \in Bank : BankInv(D[c]) /\ BankRests(banks[c], D[c])
  BY <1>1, <1>2, DroppedFlash
<1>4. CASE vpn[o] = VC_MAX \/ InFlash(vpn[o])
  <2>1. new = D
    <3>1. CASE vpn[o] = VC_MAX
      BY <1>1, <3>1 DEF DropOld, Dropped, InFlash
    <3>2. CASE InFlash(vpn[o])
      <4>1. vpn[o] \in VPN
        BY <1>2, <3>2 DEF FlashInv, MapApart
      <4>2. vpn[o] # VC_MAX /\ ~is_in_write_buffer(vpn[o])
        BY <4>1, FlashPlace DEF VPN, Flash
      <4> QED
        BY <1>1, <3>2, <4>2 DEF DropOld, Dropped
    <3> QED
      BY <1>4, <3>1, <3>2
  <2>2. \A c \in Bank : new[c].writebuf = banks[c].writebuf /\ CollectorRests(banks[c], new[c])
    BY <1>3, <2>1 DEF BankRests
  <2>3. ReqSet(banks, new, vpn[o], RSP_INVALID_LPN)
    BY <1>4, <2>2, NoReqSet
  <2> QED
    BY <1>3, <2>1, <2>2, <2>3
<1>5. CASE vpn[o] # VC_MAX /\ ~InFlash(vpn[o])
  <2>1. PICK b \in Bank, t \in Type : \E pos \in DOMAIN banks[b].writebuf[t] : vpn[o] = Buffered(b, t, pos)
    BY <1>5
  <2>2. PICK pos \in DOMAIN banks[b].writebuf[t] : vpn[o] = Buffered(b, t, pos)
    BY <2>1
  <2> DEFINE v == vpn[o]
             n == banks[b]
             m == [n EXCEPT !.writebuf[t][pos].req = RSP_INVALID_LPN]
  <2>3. pos \in Position
    BY BufferPositions
  <2>4. v.bank = b /\ v.type = t /\ v.pos = pos /\ is_in_write_buffer(v) /\ v # VC_MAX
    BY <2>2, <2>3, BufferPlace
  <2>5. DOMAIN n = BankField /\ DOMAIN n.writebuf = Type
    BY DEF BankInv, BankShape
  <2>6. new = [banks EXCEPT ![b] = m]
    <3>1. new = [banks EXCEPT ![v.bank].writebuf[v.type][v.pos].req = RSP_INVALID_LPN]
      BY <2>4 DEF DropOld
    <3> QED
      BY <2>4, <2>5, <3>1 DEF BankField
  <2>7. /\ DOMAIN m = BankField /\ m.writebuf = [n.writebuf EXCEPT ![t][pos].req = RSP_INVALID_LPN]
        /\ \A f \in BankField \ {"writebuf", "remap_inbuff_cnt"} : m[f] = n[f]
    BY <2>5 DEF BankField
  <2>8. v = Buffered(b, t, pos) /\ pos \in DOMAIN banks[b].writebuf[t]
    BY <2>2
  <2> HIDE DEF m, v
  <2>9. (\A c \in Bank : SameBank(banks[c], new[c])) /\ ReqSet(banks, new, v, RSP_INVALID_LPN)
    <3>1. EntryReq(banks[b], m, t, pos, RSP_INVALID_LPN) /\ new[b] = m /\ \A c \in Bank : c # b => new[c] = banks[c]
      BY <2>6, <2>7, <2>8 DEF EntryReq
    <3>2. /\ (\A c \in Bank : BankInv(banks[c])) /\ b \in Bank /\ t \in Type
          /\ pos \in DOMAIN banks[b].writebuf[t] /\ v = Buffered(b, t, pos)
          /\ EntryReq(banks[b], new[b], t, pos, RSP_INVALID_LPN) /\ \A c \in Bank : c # b => new[c] = banks[c]
      BY <3>1, <2>6, <2>7, <2>8
    <3> QED
      BY ONLY <3>2, EntrySet
  <2>10. FlashInv(new, map)
    <3>1. SameFlash(vpn, map)
      BY <1>2, <1>5 DEF SameFlash
    <3> QED
      BY <2>9, <3>1, FlashNeutral
  <2> QED
    BY <2>9, <2>10, SameRests DEF v
<1> QED
  BY <1>4, <1>5

\* The write buffers after both.
LEMMA RenamedBuffers ==
    ASSUME NEW banks, NEW map, BuffersMapped(banks, map), \A c \in Bank : BankInv(banks[c]),
           NEW s \in SlotLPN, NEW o \in HomeLPN, map[s] # VC_MAX,
           \A c \in Bank : \A p \in DOMAIN banks[c].writebuf["RW"] : map[s] = Buffered(c, "RW", p) =>
                banks[c].writebuf["RW"][p].remap = o,
           NEW mid, ReqSet(banks, mid, map[s], o),
           NEW banks2, ReqSet(mid, banks2, map[o], RSP_INVALID_LPN),
           NEW map2, Renamed(map, map2, s, o)
    PROVE  BuffersMapped(banks2, map2)
<1>1. s \in LPN /\ o \in LPN /\ s # o /\ o # RSP_INVALID_LPN
  BY FlashFacts DEF LPN
<1>2. \A c \in Bank, u \in Type :
        /\ DOMAIN banks2[c].writebuf[u] = DOMAIN banks[c].writebuf[u]
        /\ \A p \in DOMAIN banks[c].writebuf[u] :
            /\ banks2[c].writebuf[u][p].remap = banks[c].writebuf[u][p].remap
            /\ banks2[c].writebuf[u][p].req =
                    IF map[o] = Buffered(c, u, p) THEN RSP_INVALID_LPN
                    ELSE IF map[s] = Buffered(c, u, p) THEN o ELSE banks[c].writebuf[u][p].req
  BY DEF ReqSet
<1>3. \A l \in LPN, c \in Bank, u \in Type : \A p \in DOMAIN banks[c].writebuf[u] : map[l] = Buffered(c, u, p) =>
            banks[c].writebuf[u][p].req = l
  <2>1. \A c \in Bank, u \in Type : DOMAIN banks[c].writebuf[u] \subseteq Position
    BY BufferPositions
  <2> QED
    BY <2>1, BufferedIs
<1>4. ASSUME NEW l \in LPN, map2[l] # VC_MAX, ~InFlash(map2[l])
      PROVE  \E c \in Bank, u \in Type : \E p \in DOMAIN banks2[c].writebuf[u] :
                map2[l] = Buffered(c, u, p) /\ banks2[c].writebuf[u][p].req = l
  <2>1. PICK x \in LPN : /\ map[x] = map2[l] /\ x # o
                         /\ (l = o /\ x = s) \/ (l \notin {s, o} /\ x = l)
    BY <1>1, <1>4 DEF Renamed
  <2>2. PICK c \in Bank, u \in Type : \E p \in DOMAIN banks[c].writebuf[u] : map[x] = Buffered(c, u, p)
    BY <1>4, <2>1 DEF BuffersMapped
  <2>3. PICK p \in DOMAIN banks[c].writebuf[u] : map[x] = Buffered(c, u, p)
    BY <2>2
  <2>4. banks[c].writebuf[u][p].req = x /\ map[o] # Buffered(c, u, p)
    BY <1>1, <1>3, <2>1, <2>3
  <2>5. map[s] = Buffered(c, u, p) <=> x = s
    BY <1>1, <1>3, <2>3, <2>4
  <2>6. banks2[c].writebuf[u][p].req = l /\ p \in DOMAIN banks2[c].writebuf[u]
    BY <1>1, <1>2, <2>1, <2>4, <2>5
  <2> QED
    BY <2>1, <2>3, <2>6
<1>5. ASSUME NEW c \in Bank, NEW u \in Type, NEW p \in DOMAIN banks2[c].writebuf[u],
             NEW req, req = banks2[c].writebuf[u][p].req, req # RSP_INVALID_LPN
      PROVE  req \in LPN /\ map2[req] = Buffered(c, u, p)
  <2>1. p \in DOMAIN banks[c].writebuf[u] /\ map[o] # Buffered(c, u, p)
    BY <1>2, <1>5
  <2>2. CASE map[s] = Buffered(c, u, p)
    BY <1>1, <1>2, <1>5, <2>1, <2>2 DEF Renamed
  <2>3. CASE map[s] # Buffered(c, u, p)
    <3>1. req = banks[c].writebuf[u][p].req
      BY <1>2, <1>5, <2>1, <2>3
    <3>2. req \in LPN /\ map[req] = Buffered(c, u, p)
      BY <1>5, <2>1, <3>1 DEF BuffersMapped
    <3> QED
      BY <2>1, <2>3, <3>2 DEF Renamed
  <2> QED
    BY <2>2, <2>3
<1>6. ASSUME NEW c \in Bank, NEW p \in DOMAIN banks2[c].writebuf["RW"], banks2[c].writebuf["RW"][p].req \in HomeLPN
      PROVE  banks2[c].writebuf["RW"][p].remap = banks2[c].writebuf["RW"][p].req
  <2>1. "RW" \in Type /\ RSP_INVALID_LPN \notin HomeLPN
    BY FlashFacts DEF Type, LPN
  <2> DEFINE u == "RW"
  <2>2. /\ p \in DOMAIN banks[c].writebuf[u]
        /\ banks2[c].writebuf[u][p].remap = banks[c].writebuf[u][p].remap
        /\ map[o] # Buffered(c, u, p)
        /\ banks2[c].writebuf[u][p].req =
                IF map[s] = Buffered(c, u, p) THEN o ELSE banks[c].writebuf[u][p].req
    BY <1>2, <1>6, <2>1
  <2>3. CASE map[s] = Buffered(c, u, p)
    BY <2>2, <2>3
  <2>4. CASE map[s] # Buffered(c, u, p)
    BY <1>6, <2>2, <2>4 DEF BuffersMapped
  <2> QED
    BY <2>3, <2>4
<1> QED
  BY <1>4, <1>5, <1>6 DEF BuffersMapped

LEMMA SameLists ==
    ASSUME NEW n, NEW m, m.GC_BLK = n.GC_BLK, m.free_list = n.free_list, m.victim_list = n.victim_list
    PROVE  /\ Held(m, "free") = Held(n, "free") /\ Held(m, "GC") = Held(n, "GC")
           /\ Held(m, "victim") = Held(n, "victim")
BY ListsAre DEF Held

LEMMA RemapMap ==
    ASSUME FTLInv, FTLInv', MapInv, NEW s \in SlotLPN, Remap(s)
    PROVE  MapInv'
<1>1. PICK o \in HomeLPN : o = twrite[s]
  BY DEF Remap, FTLInv, Ranges, Home
<1>2. /\ pc = "page" /\ loop = 0 /\ o # RSP_INVALID_LPN
      /\ nand' = DropOld(Remapped(s, o), o)
      /\ vpn' = [vpn EXCEPT ![s] = VC_MAX, ![o] = vpn[s]]
      /\ copies' = [copies EXCEPT ![s] = {}, ![o] = copies[s]]
      /\ twrite' = [twrite EXCEPT ![s] = RSP_INVALID_LPN]
      /\ UNCHANGED <<cur_write_bank, pc, loop, kept, reads>>
  BY <1>1 DEF Remap
<1>3. /\ FlashInv(nand, vpn) /\ BuffersMapped(nand, vpn) /\ RemapTold(nand, vpn, twrite)
      /\ CopiesRight(nand, vpn, copies) /\ Control
      /\ DOMAIN vpn = LPN /\ DOMAIN copies = LPN /\ DOMAIN twrite = SlotLPN /\ DOMAIN nand = Bank
      /\ \A c \in Bank : BankInv(nand[c]) /\ Rested(nand[c])
  BY DEF MapInv, FTLInv, SlotInv, Ranges
<1>4. s \in LPN /\ o \in LPN /\ s # o /\ SlotLPN \subseteq LPN /\ o \notin SlotLPN
  BY FlashFacts DEF LPN
<1>5. vpn[s] # VC_MAX
  BY <1>1, <1>2 DEF FTLInv, RemapIsMapped
<1>6. \A c \in Bank : BankInv(nand'[c])
  BY DEF FTLInv, SlotInv
<1> DEFINE banks2 == nand'
           map2 == vpn'
           cps2 == copies'
           tw2 == twrite'
<1>7. Renamed(vpn, map2, s, o)
  BY <1>2, <1>3, <1>4 DEF Renamed
<1>8. \A x \in LPN : cps2[x] = IF x = s THEN {} ELSE IF x = o THEN copies[s] ELSE copies[x]
  BY <1>2, <1>3, <1>4
<1>9. \A x \in SlotLPN : tw2[x] # RSP_INVALID_LPN => x # s /\ tw2[x] = twrite[x]
  BY <1>2, <1>3
<1>10. PICK R : R = Remapped(s, o)
  OBVIOUS
<1>11. /\ DOMAIN R = Bank /\ \A c \in Bank : BankInv(R[c]) /\ SameBank(nand[c], R[c])
       /\ ReqSet(nand, R, vpn[s], o)
  BY <1>5, <1>10, RemappedBanks
<1>12. banks2 = DropOld(R, o)
  BY <1>2, <1>10
<1>13. FlashInv(R, vpn)
  <2>1. SameFlash(vpn, vpn)
    BY DEF SameFlash
  <2> QED
    BY <1>3, <1>11, <2>1, FlashNeutral
<1>14. PICK map : map = [vpn EXCEPT ![o] = VC_MAX]
  OBVIOUS
<1>15. map[o] = VC_MAX /\ \A x \in LPN : x # o => map[x] = vpn[x]
  BY <1>3, <1>4, <1>14
<1>16. DOMAIN copies' = LPN /\ Control'
  BY <1>2, <1>3 DEF Control
<1> HIDE DEF banks2, map2, cps2, tw2
<1>17. /\ FlashInv(banks2, map)
       /\ \A c \in Bank : CollectorRests(R[c], banks2[c])
       /\ ReqSet(R, banks2, vpn[o], RSP_INVALID_LPN)
  <2>1. ASSUME vpn[o] # VC_MAX, ~InFlash(vpn[o])
        PROVE  \E b \in Bank, t \in Type : \E pos \in DOMAIN R[b].writebuf[t] : vpn[o] = Buffered(b, t, pos)
    <3>1. \E b \in Bank, t \in Type : \E pos \in DOMAIN nand[b].writebuf[t] : vpn[o] = Buffered(b, t, pos)
      BY <1>3, <1>4, <2>1 DEF BuffersMapped
    <3> QED
      BY <1>11, <3>1 DEF ReqSet
  <2> QED
    BY <1>11, <1>12, <1>13, <1>15, <2>1, DropOldBanks
<1>18. \A c \in Bank : BankInv(banks2[c])
  BY <1>6 DEF banks2
<1>19. \A c \in Bank : CollectorRests(nand[c], banks2[c])
  <2>1. \A c \in Bank : CollectorRests(nand[c], R[c])
    BY <1>11, SameRests
  <2> QED
    BY <1>17, <2>1 DEF CollectorRests
<1>20. Renamed(map, map2, s, o) /\ ~InFlash(map[o])
  BY <1>4, <1>7, <1>15 DEF Renamed, InFlash
<1>21. FlashInv(banks2, map2)
  <2>1. CASE ~InFlash(vpn[s])
    <3>1. SameFlash(map, map2)
      BY <1>4, <1>15, <1>20, <2>1 DEF SameFlash, Renamed, InFlash
    <3> QED
      BY <1>17, <1>18, <3>1, BankStays, FlashNeutral
  <2>2. CASE InFlash(vpn[s])
    <3>1. InLogBlock(nand, vpn[s])
      <4>1. ASSUME InLogBuffer(nand, vpn[s], s)
            PROVE  FALSE
        <5>1. PICK b \in Bank : \E pos \in DOMAIN nand[b].writebuf["RW"] : vpn[s] = Buffered(b, "RW", pos)
          BY <4>1 DEF InLogBuffer
        <5>2. PICK pos \in DOMAIN nand[b].writebuf["RW"] : vpn[s] = Buffered(b, "RW", pos)
          BY <5>1
        <5>3. "RW" \in Type /\ pos \in Position
          BY <1>3, BufferPositions DEF Type
        <5> QED
          BY <2>2, <5>2, <5>3, BufferPlace
      <4> QED
        BY <1>5, <4>1 DEF FTLInv, SlotInv
    <3>2. PICK b \in Bank : \E blk \in ToSet(nand[b].RW_log_list), off \in Offset : vpn[s] = Flash(b, blk, off)
      BY <3>1 DEF InLogBlock
    <3>3. PICK blk \in ToSet(nand[b].RW_log_list), off \in Offset : vpn[s] = Flash(b, blk, off)
      BY <3>2
    <3>4. blk \in Block /\ blk \notin Held(nand[b], "free") \cup Held(nand[b], "GC") \cup Held(nand[b], "victim")
      <4>1. BankInv(nand[b]) /\ blk \in Held(nand[b], "RW_log")
        BY <1>3, ListsAre DEF Held
      <4> QED
        BY <4>1, HeldBlocks, ListsAre DEF BankInv
    <3> DEFINE m == banks2[b]
    <3>5. blk \notin Held(m, "free") \cup Held(m, "GC") \cup Held(m, "victim")
      <4>1. m.GC_BLK = nand[b].GC_BLK /\ m.free_list = nand[b].free_list /\ m.victim_list = nand[b].victim_list
        BY <1>19 DEF CollectorRests
      <4> HIDE DEF m
      <4> QED
        BY <3>4, <4>1, SameLists
    <3>6. InFlash(vpn[s]) /\ InBank(map[s], b) /\ map[s].block = blk /\ map[s].off = off
      BY <1>4, <1>15, <3>3, <3>4, FlashIsIn
    <3>7. m.block_list[blk].spare[off] = o
      <4>1. nand[b].block_list[blk].spare[off] = o
        BY <1>1, <1>2, <1>3, <3>3, <3>4 DEF RemapTold
      <4> QED
        BY <1>19, <3>4, <4>1 DEF CollectorRests
    <3>8. MapApart(map) /\ BankFlash(b, m, map) /\ ReserveIsBack(m) /\ BankInv(m)
      BY <1>17, <1>18 DEF FlashInv
    <3> HIDE DEF m
    <3>9. BankFlash(b, m, map2)
      BY <1>20, <3>5, <3>6, <3>7, <3>8, RenameFlash
    <3>10. MapApart(map2)
      BY <1>20, <3>8, RenamedApart
    <3>11. \A c \in Bank : c # b => SameMap(map, map2, c)
      <4>1. \A c \in Bank : c # b => ~InBank(map[s], c) /\ ~InBank(map[o], c) /\ ~InBank(VC_MAX, c)
        BY <1>20, <3>6 DEF InBank, InFlash
      <4> QED
        BY <1>20, <4>1 DEF SameMap, Renamed
    <3>12. BankFlash(b, banks2[b], map2) /\ ReserveIsBack(banks2[b])
      BY <3>8, <3>9 DEF m
    <3> QED
      BY <1>17, <1>18, <3>10, <3>11, <3>12, FlashStep
  <2> QED
    BY <2>1, <2>2
<1>22. \A c \in Bank : Rested(banks2[c])
  BY <1>3, <1>18, <1>19, RestedStays
<1>23. BuffersMapped(banks2, map2)
  <2>1. \A c \in Bank : \A p \in DOMAIN nand[c].writebuf["RW"] : vpn[s] = Buffered(c, "RW", p) =>
                nand[c].writebuf["RW"][p].remap = o
    BY <1>1, <1>2, <1>3 DEF RemapTold
  <2> QED
    BY <1>3, <1>5, <1>7, <1>11, <1>17, <2>1, RenamedBuffers
<1>24. RemapTold(banks2, map2, tw2)
  <2> SUFFICES ASSUME NEW x \in SlotLPN, tw2[x] # RSP_INVALID_LPN
               PROVE  /\ \A b \in Bank, blk \in Block, off \in Offset : map2[x] = Flash(b, blk, off) =>
                              banks2[b].block_list[blk].spare[off] = tw2[x]
                      /\ \A b \in Bank : \A pos \in DOMAIN banks2[b].writebuf["RW"] :
                              map2[x] = Buffered(b, "RW", pos) => banks2[b].writebuf["RW"][pos].remap = tw2[x]
    BY DEF RemapTold
  <2>1. tw2[x] = twrite[x] /\ map2[x] = vpn[x] /\ twrite[x] # RSP_INVALID_LPN
    BY <1>4, <1>7, <1>9 DEF Renamed
  <2>2. \A b \in Bank, blk \in Block : banks2[b].block_list[blk].spare = nand[b].block_list[blk].spare
    BY <1>19 DEF CollectorRests
  <2>3. \A b \in Bank : /\ DOMAIN banks2[b].writebuf["RW"] = DOMAIN nand[b].writebuf["RW"]
                         /\ \A pos \in DOMAIN nand[b].writebuf["RW"] :
                                banks2[b].writebuf["RW"][pos].remap = nand[b].writebuf["RW"][pos].remap
    <3>1. "RW" \in Type
      BY DEF Type
    <3> QED
      BY <1>11, <1>17, <3>1 DEF ReqSet
  <2> QED
    BY <1>3, <2>1, <2>2, <2>3 DEF RemapTold
<1>25. CopiesRight(banks2, map2, cps2)
  <2>1. \A x \in LPN : IF map2[x] = VC_MAX THEN cps2[x] = {} ELSE map2[x] \in cps2[x]
    BY <1>3, <1>4, <1>5, <1>7, <1>8 DEF Renamed, CopiesRight
  <2>2. LeavesCollector(banks2, banks2, s) /\ LeavesCollector(banks2, banks2, o)
    <3>1. ~InFlash(map2[s]) /\ \A c \in Bank : CollectorRests(banks2[c], banks2[c])
      BY <1>20 DEF Renamed, InFlash, CollectorRests
    <3>2. LeavesCollector(banks2, banks2, s)
      BY <1>4, <1>18, <1>21, <3>1, CollectorLeft
    <3>3. LeavesCollector(banks2, banks2, o)
      BY <1>4, <1>17, <1>18, <1>20, <3>1, CollectorLeft
    <3> QED
      BY <3>2, <3>3
  <2>3. ASSUME NEW x \in LPN, NEW c \in Bank, NEW i \in DOMAIN banks2[c].GCbuf_lpn, banks2[c].GCbuf_lpn[i] = x
        PROVE  GCBuffered(c, i) \in cps2[x]
    <3>1. x # s /\ x # o /\ x # RSP_INVALID_LPN
      BY <2>2, <2>3, FlashFacts DEF LeavesCollector
    <3>2. i \in DOMAIN nand[c].GCbuf_lpn /\ nand[c].GCbuf_lpn[i] = x
      BY <1>19, <2>3, <3>1 DEF CollectorRests
    <3> QED
      BY <1>3, <1>8, <3>1, <3>2 DEF CopiesRight
  <2>4. \A x \in LPN : cps2[x] \subseteq VPN \cup BufferVPN \cup GCPlace
    BY <1>3, <1>4, <1>8 DEF CopiesRight
  <2> QED
    BY <2>1, <2>3, <2>4 DEF CopiesRight
<1> QED
  BY <1>16, <1>21, <1>22, <1>23, <1>24, <1>25 DEF MapInv, banks2, map2, cps2, tw2

-----------------------------------------------------------------------------
(***************************************************************************)
(* The first state, and the theorems.                                      *)
(***************************************************************************)
LEMMA FirstFlash ==
    ASSUME NEW b \in Bank, NEW map, \A l \in LPN : map[l] = VC_MAX
    PROVE  BankFlash(b, BankInit, map) /\ ReserveIsBack(BankInit) /\ Rested(BankInit)
<1> DEFINE n == BankInit
<1>1. BankInv(n) /\ FreeOrder[1] \in Block /\ FreeOrder[2] \in Block
  <2>1. PICK len \in Nat : len = Len(FreeOrder) /\ len > 3 /\ DOMAIN FreeOrder = 1 .. len
    BY FlashConstants, LenProperties DEF FlashConstants
  <2>2. FreeOrder[1] \in Block /\ FreeOrder[2] \in Block
    <3>1. \A i \in 1 .. len : FreeOrder[i] \in Block
      BY <2>1 DEF Block, ToSet
    <3>2. 1 \in 1 .. len /\ 2 \in 1 .. len
      BY <2>1
    <3> QED
      BY <3>1, <3>2
  <2> QED
    BY <2>2, InitBank
<1>2. /\ n.GC_BLK = FreeOrder[1] /\ n.victim_list = <<>> /\ n.cur_gc_vpn = VC_MAX /\ n.cur_vt_vpn = VC_MAX
      /\ n.num_gcbuffed = 0 /\ n.GCbuf_lpn = <<>> /\ n.data_list = <<FreeOrder[2]>>
      /\ n.write_start = [t \in Type |-> FALSE]
      /\ n.cur_write_vpn = [t \in Type |-> [block |-> FreeOrder[IF t = "SW" THEN 2 ELSE 3], page |-> 0]]
  BY DEF BankInit
<1>3. \A blk \in Block : /\ n.block_list[blk].vcount = IF blk = FreeOrder[1] THEN VC_ERASED ELSE 0
                         /\ n.block_list[blk].vbitmap = {}
  BY DEF BankInit, Erased
<1> HIDE DEF n
<1>4. /\ Held(n, "victim") = {} /\ FreeOrder[1] \in Held(n, "GC") /\ FreeOrder[2] \in Held(n, "data")
      /\ n.GC_BLK # VC_MAX
  <2>1. ToSet(<<>>) = {} /\ \A x : ToSet(<<x>>) = {x}
    BY DEF ToSet
  <2>2. FreeOrder[1] # VC_MAX
    BY <1>1, FlashFacts
  <2>3. Lists(n)["victim"] = <<>> /\ Lists(n)["data"] = <<FreeOrder[2]>> /\ Lists(n)["GC"] = <<FreeOrder[1]>>
    <3>1. Lists(n)["victim"] = n.victim_list /\ Lists(n)["data"] = n.data_list
      BY ListsAre
    <3>2. Lists(n)["GC"] = IF n.GC_BLK = VC_MAX THEN <<>> ELSE <<n.GC_BLK>>
      BY ListsAre
    <3> QED
      BY <1>2, <2>2, <3>1, <3>2
  <2> QED
    BY <1>2, <2>1, <2>2, <2>3 DEF Held
<1>5. /\ \A blk : Into(map, b, blk) = {}
      /\ \A l \in LPN, blk \in Block, off \in Offset : map[l] # Flash(b, blk, off)
  <2>1. \A blk \in Block, off \in Offset : Flash(b, blk, off) # VC_MAX
    BY FlashPlace
  <2> QED
    BY <2>1 DEF Into, InBlock, InBank, InFlash
<1>6. DOMAIN n.GCbuf_lpn = {} /\ GCHeld(n) = {}
  <2>1. DOMAIN n.GCbuf_lpn = {}
    BY <1>2
  <2> QED
    BY <2>1 DEF GCHeld
<1>7. VcountsRight(b, n, map)
  <2>1. Cardinality({}) = 0 /\ VC_ERASED \in Nat
    BY FS_EmptySet, FlashFacts
  <2>2. ASSUME NEW blk \in Block, NEW vcount, vcount = n.block_list[blk].vcount
        PROVE  /\ vcount \in Nat
               /\ Cardinality(Into(map, b, blk)) = IF vcount = VC_ERASED THEN 0 ELSE vcount
               /\ vcount = VC_ERASED => blk \in Held(n, "free") \cup Held(n, "GC")
    <3>1. vcount = IF blk = FreeOrder[1] THEN VC_ERASED ELSE 0
      BY <1>3, <2>2
    <3>2. Cardinality(Into(map, b, blk)) = 0 /\ VC_ERASED # 0
      BY <1>5, <2>1, NoSuchPlace, FlashFacts DEF NoSuchPlace
    <3> QED
      BY <1>4, <2>1, <3>1, <3>2
  <2> QED
    BY <2>2 DEF VcountsRight
<1>8. FreeIsEmpty(b, n, map)
  BY <1>5 DEF FreeIsEmpty
<1>9. MarksTrue(b, n, map)
  BY <1>3, <1>5 DEF MarksTrue
<1>10. Collecting(b, n, map)
  BY <1>2, <1>4, <1>6 DEF Collecting, HeldOnce, HeldIsRead, CurrentIsLast
<1>11. WritesFresh(b, n, map)
  <2>1. \A t \in Type : n.cur_write_vpn[t].page = 0 /\ n.write_start[t] = FALSE
    BY <1>2
  <2>2. n.cur_write_vpn["SW"].block = FreeOrder[2] /\ n.write_start \in [Type -> BOOLEAN]
    BY <1>2 DEF Type
  <2>3. \A k, page : MappedBelow(b, k, page, map)
    BY DEF MappedBelow, InBlock, InBank, InFlash
  <2> QED
    BY <1>4, <2>1, <2>2, <2>3 DEF WritesFresh
<1>12. CollectorFresh(b, n, map) /\ ReserveIsBack(n)
  BY <1>2, <1>4 DEF CollectorFresh, ReserveIsBack
<1>13. Rested(n)
  <2>1. Len(n.GCbuf_lpn) = 0
    BY <1>2
  <2> QED
    BY <1>2, <2>1, FlashFacts DEF Rested
<1> QED
  BY <1>7, <1>8, <1>9, <1>10, <1>11, <1>12, <1>13 DEF BankFlash, n

LEMMA InitMap == Init => MapInv
<1> SUFFICES ASSUME Init
             PROVE  MapInv
  OBVIOUS
<1>1. /\ nand = [b \in Bank |-> BankInit] /\ vpn = [l \in LPN |-> VC_MAX] /\ copies = [l \in LPN |-> {}]
      /\ twrite = [s \in SlotLPN |-> RSP_INVALID_LPN] /\ pc = "page" /\ kept = FALSE /\ reads = 0
  BY DEF Init
<1>2. \A l \in LPN : vpn[l] = VC_MAX /\ copies[l] = {}
  BY <1>1
<1>3. \A b \in Bank : nand[b] = BankInit /\ \A t \in Type : DOMAIN nand[b].writebuf[t] = {}
  <2>1. DOMAIN <<>> = {} /\ \A t \in Type : BankInit.writebuf[t] = <<>>
    BY DEF BankInit
  <2> QED
    BY <1>1, <2>1
<1>4. \A b \in Bank : DOMAIN nand[b].GCbuf_lpn = {}
  <2>1. DOMAIN <<>> = {} /\ BankInit.GCbuf_lpn = <<>>
    BY DEF BankInit
  <2> QED
    BY <1>3, <2>1
<1>5. FlashInv(nand, vpn)
  BY <1>2, <1>3, FirstFlash DEF FlashInv, MapApart, InFlash
<1>6. \A b \in Bank : Rested(nand[b])
  BY <1>2, <1>3, FirstFlash
<1>7. BuffersMapped(nand, vpn)
  <2>1. "RW" \in Type
    BY DEF Type
  <2> QED
    BY <1>2, <1>3, <2>1 DEF BuffersMapped
<1>8. RemapTold(nand, vpn, twrite)
  BY <1>1 DEF RemapTold
<1>9. CopiesRight(nand, vpn, copies) /\ DOMAIN copies = LPN
  BY <1>1, <1>2, <1>4 DEF CopiesRight
<1>10. Control
  <2>1. NUM_READ_PER_INCGC \in Nat /\ 0 \in 0 .. NUM_READ_PER_INCGC
    BY FlashConstants DEF FlashConstants
  <2> QED
    BY <1>1, <2>1 DEF Control
<1> QED
  BY <1>5, <1>6, <1>7, <1>8, <1>9, <1>10 DEF MapInv

\* MapInv is inductive on top of FTLInv: the map, the buffers, the valid counts and
\* bitmaps and the collector's place agree through every step of RSP_WritePage,
\* of a remap (ATLWrapper.cpp:1118) and of the incremental collector.
THEOREM MapInvariant == Spec => []MapInv
<1>1. FTLInv /\ FTLInv' /\ MapInv /\ [Next]_vars => MapInv'
  <2> SUFFICES ASSUME FTLInv, FTLInv', MapInv, [Next]_vars
               PROVE  MapInv'
    OBVIOUS
  <2>1. CASE NoPage
    BY <2>1, NoPageMap
  <2>2. ASSUME NEW l \in HomeLPN, Merge(l)
        PROVE  MapInv'
    BY <2>2, MergeMap
  <2>3. ASSUME NEW s \in SlotLPN, WritePadding(s)
        PROVE  MapInv'
    BY <2>3, WritePaddingMap
  <2>4. ASSUME NEW s \in SlotLPN, Remap(s)
        PROVE  MapInv'
    BY <2>4, RemapMap
  <2>5. CASE Command
    BY <2>5, CommandMap
  <2>6. ASSUME NEW t \in WriteTypes, NEW l \in LPN, NEW o \in HomeLPN \cup {RSP_INVALID_LPN},
               write_page(t, l, o)
        PROVE  MapInv'
    BY <2>6, WritePageMap DEF Home
  <2>7. CASE AssignFails
    BY <2>7, AssignFailsMap
  <2>8. CASE Program
    BY <2>8, ProgramMapStep
  <2>9. CASE incremental_GC
    BY <2>9, IncrementalGCMap
  <2>10. CASE ChooseVictim
    BY <2>10, ChooseVictimMap
  <2>11. CASE GCRead
    BY <2>11, GCReadMap
  <2>12. CASE EraseVictim
    BY <2>12, EraseVictimMap
  <2>13. CASE NothingToErase
    BY <2>13, NothingToEraseMap
  <2>14. CASE UNCHANGED vars
    <3>1. UNCHANGED <<nand, vpn, copies, twrite, cur_write_bank, pc, loop, write_type, kept, reads>>
      BY <2>14 DEF vars, call
    <3>2. Control'
      BY <3>1 DEF MapInv, Control, GCBank
    <3> QED
      BY <3>1, <3>2, IdleMap
  <2> QED
    BY <2>1, <2>2, <2>3, <2>4, <2>5, <2>6, <2>7, <2>8, <2>9, <2>10, <2>11, <2>12, <2>13, <2>14 DEF Next
<1> QED
  BY <1>1, InitMap, FTLInvariant, PTL DEF Spec

\* write_gc_buffer (ATLWrapper.cpp) takes the pages it copied off the valid counts
\* of the victims by their age; the counts are right all the same, for every block.
THEOREM VcountsAreRight == Spec => []VcountIsMapped
<1>1. MapInv => VcountIsMapped
  <2> SUFFICES ASSUME MapInv, NEW b \in Bank, NEW blk \in Block
               PROVE  Cardinality(MappedInto(b, blk, LPN)) =
                        IF nand[b].block_list[blk].vcount = VC_ERASED THEN 0 ELSE nand[b].block_list[blk].vcount
    BY DEF VcountIsMapped
  <2>1. MappedInto(b, blk, LPN) = Into(vpn, b, blk)
    BY DEF MappedInto, Into, InBlock, InBank
  <2> QED
    BY <2>1 DEF MapInv, FlashInv, BankFlash, VcountsRight
<1> QED
  BY <1>1, MapInvariant, PTL

\* The collector's buffer holds what is still mapped to a victim and nothing else, though
\* the host overwrites, pads and remaps between its reads (check_n_invalid_GCbuff).
THEOREM GCBufferStaysCurrent == Spec => []GCBufferIsCurrent
<1>1. FTLInv /\ MapInv => GCBufferIsCurrent
  <2> SUFFICES ASSUME FTLInv, MapInv, NEW b \in Bank
               PROVE  LET n == nand[b]
                          held == ToSet(n.GCbuf_lpn) \ {RSP_INVALID_LPN}
                      IN  /\ \A l \in held : /\ InFlash(vpn[l]) /\ vpn[l].bank = b
                                             /\ vpn[l].block \in ToSet(n.victim_list)
                          /\ n.cur_vt_vpn # VC_MAX =>
                                n.num_gcbuffed = Cardinality({l \in held : vpn[l].block = n.cur_vt_vpn.block})
    BY DEF GCBufferIsCurrent
  <2> DEFINE n == nand[b]
             held == ToSet(n.GCbuf_lpn) \ {RSP_INVALID_LPN}
  <2>1. BankInv(n) /\ BankFlash(b, n, vpn)
    BY DEF FTLInv, SlotInv, MapInv, FlashInv
  <2>2. held = GCHeld(n)
    <3>1. \A i \in DOMAIN n.GCbuf_lpn : n.GCbuf_lpn[i] \in Home
      <4>1. n.GCbuf_lpn \in Seq(Home)
        BY <2>1 DEF BankInv, HomeOnly
      <4> QED
        BY <2>1, <4>1, HolesFinite, ElementOfSeq
    <3>2. Home \ {RSP_INVALID_LPN} \subseteq LPN /\ RSP_INVALID_LPN \notin LPN
      BY FlashFacts DEF Home, LPN
    <3>3. ToSet(n.GCbuf_lpn) = {n.GCbuf_lpn[i] : i \in DOMAIN n.GCbuf_lpn}
      BY DEF ToSet
    <3> QED
      BY <3>1, <3>2, <3>3 DEF GCHeld
  <2>3. ASSUME NEW l \in held
        PROVE  InBank(vpn[l], b) /\ vpn[l].block \in ToSet(n.victim_list) /\ l \in LPN
    <3>1. l \in LPN /\ l \in GCHeld(n)
      BY <2>2 DEF GCHeld
    <3>2. PICK blk \in Held(n, "victim"), off \in Offset : vpn[l] = Flash(b, blk, off)
      BY <2>1, <3>1 DEF BankFlash, Collecting, HeldIsRead
    <3>3. Held(n, "victim") \subseteq Block /\ Held(n, "victim") = ToSet(n.victim_list)
      BY <2>1, HeldBlocks, ListsAre DEF BankInv, Held
    <3> HIDE DEF n
    <3>4. InBank(vpn[l], b) /\ vpn[l].block = blk
      BY <3>2, <3>3, FlashIsIn
    <3> QED
      BY <3>1, <3>2, <3>3, <3>4
  <2>4. ASSUME n.cur_vt_vpn # VC_MAX
        PROVE  n.num_gcbuffed = Cardinality({l \in held : vpn[l].block = n.cur_vt_vpn.block})
    <3>1. n.num_gcbuffed = Cardinality(GCHeld(n) \cap Into(vpn, b, n.cur_vt_vpn.block))
      BY <2>1, <2>4 DEF BankFlash, Collecting, CurrentIsLast
    <3>2. GCHeld(n) \cap Into(vpn, b, n.cur_vt_vpn.block) = {l \in held : vpn[l].block = n.cur_vt_vpn.block}
      BY <2>2, <2>3 DEF Into, InBlock
    <3> QED
      BY <3>1, <3>2
  <2> QED
    BY <2>3, <2>4 DEF InBank
<1> QED
  BY <1>1, MapInvariant, FTLInvariant, PTL

\* The asserts of do_incremental_GC and write_gc_buffer on counts and lists never fire.
THEOREM CollectorNeverStops == Spec => []NoAssertFires
<1>1. MapInv => NoAssertFires
  BY DEF MapInv, Control, NoAssertFires
<1> QED
  BY <1>1, MapInvariant, PTL

\* RSP_ReadPage finds what was written last, wherever buffers, programs, remaps and the
\* collector have put it meanwhile.
THEOREM ReadsFindNewest == Spec => []ReadsNewest
<1>1. MapInv => ReadsNewest
  BY DEF MapInv, CopiesRight, ReadsNewest
<1> QED
  BY <1>1, MapInvariant, PTL

\* Every counter and index stays in the range of its array: the asserts of set_vcount
\* and write_page among them.
THEOREM TypeCorrect == Spec => []TypeOK
<1>1. ASSUME FTLInv, MapInv, NEW b \in Bank
      PROVE  BankTypeOK(nand[b])
  <2> DEFINE n == nand[b]
  <2>1. BankInv(n) /\ BankFlash(b, n, vpn) /\ Rested(n) /\ MapApart(vpn)
    BY <1>1 DEF FTLInv, SlotInv, MapInv, FlashInv
  <2>2. \A blk \in Block : n.block_list[blk].remained_remap_cnt = Cardinality(MappedIn(vpn, b, blk))
    BY <1>1 DEF FTLInv, SlotInv
  <2> HIDE DEF n
  <2>3. /\ ToSet(n.data_list) \subseteq Block /\ ToSet(n.RW_log_list) \subseteq Block
        /\ ToSet(n.free_list) \subseteq Block /\ ToSet(n.victim_list) \subseteq Block
        /\ n.GC_BLK \in Block \cup {VC_MAX}
    <3>1. \A name \in ListName : Held(n, name) \subseteq Block
      BY <2>1 DEF BankInv, Conserved
    <3>2. n.GC_BLK # VC_MAX => Held(n, "GC") = {n.GC_BLK}
      <4>1. n.GC_BLK # VC_MAX => Lists(n)["GC"] = <<n.GC_BLK>>
        BY ListsAre
      <4>2. \A x : ToSet(<<x>>) = {x}
        BY DEF ToSet
      <4> QED
        BY <4>1, <4>2 DEF Held
    <3> QED
      BY <3>1, <3>2, ListsAre DEF Held
  <2>4. /\ n.cur_write_vpn \in [Type -> [block : Block, page : 0 .. PAGES_PER_BLK - 1]]
        /\ n.write_start \in [Type -> BOOLEAN]
        /\ n.cur_gc_vpn = VC_MAX \/ n.cur_gc_vpn \in [block : Block, page : 0 .. PAGES_PER_BLK - 1]
        /\ n.writebuf_index \in [Type -> 0 .. PLANES_PER_BANK]
    BY <2>1 DEF BankInv, BankShape, BankFlash, WritesFresh, CollectorFresh, LAST
  <2>5. n.cur_vt_vpn = VC_MAX \/ n.cur_vt_vpn \in [block : Block, page : 0 .. PhysPages - 1]
    <3> SUFFICES ASSUME n.cur_vt_vpn # VC_MAX
                 PROVE  n.cur_vt_vpn \in [block : Block, page : 0 .. PhysPages - 1]
      OBVIOUS
    <3>1. n.cur_vt_vpn \in [block : Block, page : Nat] /\ n.cur_vt_vpn.page < PhysPages
      BY <2>1 DEF BankInv, BankShape, Rested
    <3>2. n.cur_vt_vpn.page \in 0 .. PhysPages - 1
      BY <3>1, FlashFacts
    <3> QED
      BY <3>1, <3>2
  <2>6. n.num_gcbuffed \in Nat /\ Len(n.GCbuf_lpn) < SuperPage /\ ToSet(n.GCbuf_lpn) \subseteq LPN \cup {RSP_INVALID_LPN}
    <3>1. n.GCbuf_lpn \in Seq(Home) /\ Home \subseteq LPN \cup {RSP_INVALID_LPN}
      BY <2>1 DEF BankInv, HomeOnly, Home, LPN
    <3>2. \A i \in DOMAIN n.GCbuf_lpn : n.GCbuf_lpn[i] \in Home
      BY <2>1, <3>1, HolesFinite, ElementOfSeq
    <3> QED
      BY <2>1, <3>1, <3>2 DEF BankFlash, Collecting, Rested, ToSet
  <2>7. \A t \in Type : DOMAIN n.writebuf[t] \subseteq Position
    BY <2>1, BufferPositions
  <2>8. n.remap_inbuff_cnt \in 0 .. SuperPage
    <3> DEFINE U == Unslotted(n.writebuf["RW"])
    <3>1. n.remap_inbuff_cnt = Cardinality(U)
      BY <2>1 DEF BankInv, BuffersOK
    <3>2. U \subseteq Position
      BY <2>7 DEF Unslotted, Type
    <3>3. IsFiniteSet(Position) /\ Cardinality(Position) = SuperPage
      BY FlashFacts, FS_Interval DEF Position
    <3> HIDE DEF U
    <3>4. Cardinality(U) \in Nat /\ Cardinality(U) <= SuperPage
      BY <3>2, <3>3, FS_Subset, FS_CardinalityType
    <3> QED
      BY <3>1, <3>4, FlashFacts
  <2>9. ASSUME NEW blk \in Block
        PROVE  /\ n.block_list[blk].vcount \in 0 .. 2 * PhysPages \cup {VC_ERASED}
               /\ n.block_list[blk].remained_remap_cnt \in 0 .. 2 * PhysPages
               /\ n.block_list[blk].vbitmap \subseteq Offset
               /\ \A off \in Offset : n.block_list[blk].spare[off] \in LPN \cup {RSP_INVALID_LPN}
    <3> DEFINE T == Into(vpn, b, blk)
               S == MappedIn(vpn, b, blk)
    <3>1. IsFiniteSet(T) /\ Cardinality(T) \in Nat /\ Cardinality(T) <= 2 * PhysPages
      BY <2>1, IntoFinite
    <3>2. S \subseteq T
      BY DEF MappedIn, Into, InBlock, InBank, LPN
    <3>3. n.block_list[blk].vcount \in Nat
          /\ (n.block_list[blk].vcount # VC_ERASED => n.block_list[blk].vcount = Cardinality(T))
      BY <2>1 DEF BankFlash, VcountsRight
    <3> HIDE DEF S, T
    <3>4. Cardinality(S) \in Nat /\ Cardinality(S) <= 2 * PhysPages
      <4>1. IsFiniteSet(S) /\ Cardinality(S) <= Cardinality(T)
        BY <3>1, <3>2, FS_Subset
      <4> QED
        BY <3>1, <4>1, FS_CardinalityType, FlashFacts
    <3>5. n.block_list[blk].remained_remap_cnt = Cardinality(S)
      BY <2>2 DEF S
    <3>6. n.block_list[blk].vbitmap \subseteq Offset
      BY <2>1 DEF BankFlash, MarksTrue
    <3>7. \A off \in Offset : n.block_list[blk].spare[off] \in LPN \cup {RSP_INVALID_LPN}
      <4>1. \A off \in Offset : n.block_list[blk].spare[off] \in Home
        BY <2>1 DEF BankInv, HomeOnly
      <4> QED
        BY <4>1 DEF Home, LPN
    <3> QED
      BY <3>1, <3>3, <3>4, <3>5, <3>6, <3>7, FlashFacts
  <2>10. BankTypeOK(n)
    BY <2>3, <2>4, <2>5, <2>6, <2>7, <2>8, <2>9 DEF BankTypeOK
  <2> QED
    BY <2>10 DEF n
<1>2. ASSUME FTLInv, MapInv, NEW l \in LPN
      PROVE  vpn[l] \in VPN \cup BufferVPN \cup {VC_MAX} /\ copies[l] \subseteq VPN \cup BufferVPN \cup GCPlace
  <2>1. copies[l] \subseteq VPN \cup BufferVPN \cup GCPlace
    BY <1>2 DEF MapInv, CopiesRight
  <2>2. InFlash(vpn[l]) => vpn[l] \in VPN
    BY <1>2 DEF MapInv, FlashInv, MapApart
  <2>3. ASSUME vpn[l] # VC_MAX, ~InFlash(vpn[l])
        PROVE  vpn[l] \in BufferVPN
    <3>1. PICK b \in Bank, t \in Type : \E pos \in DOMAIN nand[b].writebuf[t] : vpn[l] = Buffered(b, t, pos)
      BY <1>2, <2>3 DEF MapInv, BuffersMapped
    <3>2. PICK pos \in DOMAIN nand[b].writebuf[t] : vpn[l] = Buffered(b, t, pos)
      BY <3>1
    <3>3. pos \in Position
      BY <1>2, BufferPositions DEF FTLInv, SlotInv
    <3> QED
      BY <3>2, <3>3 DEF Buffered, BufferVPN
  <2> QED
    BY <2>1, <2>2, <2>3
<1>3. FTLInv /\ MapInv => TypeOK
  <2> SUFFICES ASSUME FTLInv, MapInv
               PROVE  TypeOK
    OBVIOUS
  <2>1. /\ twrite \in [SlotLPN -> HomeLPN \cup {RSP_INVALID_LPN}]
        /\ cur_write_bank \in Bank /\ loop \in {0, 1} /\ write_type \in Type \cup {"none", "command"}
    BY DEF FTLInv, Ranges, Home
  <2>2. /\ pc \in {"page", "program", "gc", "gc_victim", "gc_read", "gc_erase",
                   "inter_GC", "exhausted", "overrun", "stopped"}
        /\ kept \in BOOLEAN /\ reads \in 0 .. NUM_READ_PER_INCGC
    BY DEF MapInv, Control
  <2> QED
    BY <1>1, <1>2, <2>1, <2>2 DEF TypeOK
<1> QED
  BY <1>3, MapInvariant, FTLInvariant, PTL
=============================================================================
