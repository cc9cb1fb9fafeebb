------------------------------ MODULE FTLBank ------------------------------
(***************************************************************************)
(* The flash of one FTL core (src/ATLWrapper.cpp): write buffers, active   *)
(* blocks, block lists, valid counts and the incremental collector.  The   *)
(* logical map is the function vpn; how it is cached and logged is left    *)
(* out, and so are the sectors of a page and the journal (JN) log.         *)
(*                                                                         *)
(* One call of RSP_WritePage is cut where one function hands over to the   *)
(* next: write_page, the program of a full buffer, the steps of            *)
(* incremental_GC.  pc runs through them; nothing comes in between.        *)
(*                                                                         *)
(* Page contents are left out too.  Instead, copies[l] are the places that *)
(* hold the newest data of l: in flash, in a write buffer, or in the page  *)
(* buffer of the collector.                                                *)
(***************************************************************************)
EXTENDS Integers, Sequences, FiniteSets
LOCAL INSTANCE SequencesExt
LOCAL INSTANCE FiniteSetsExt

CONSTANTS
    HomeLPN, SlotLPN,   \* home addresses, addresses of the random write log
    RSP_INVALID_LPN,
    VC_MAX,             \* no vpn, no block
    VC_ERASED,          \* VC_MAX as a number: the vcount of an erased block
    FreeOrder,          \* a bank's blocks in the order RSP_Open takes them
    NumBank,            \* NAND_NUM_CHANNELS * BANKS_PER_CHANNEL
    PLANES_PER_BANK, PAGES_PER_BLK, GC_THRESHOLD, NUM_READ_PER_INCGC,
    WriteTypes          \* the types of write that come: SW to home addresses, RW to the log

ASSUME FlashConstants ==
    /\ {NumBank, PLANES_PER_BANK, PAGES_PER_BLK, NUM_READ_PER_INCGC} \subseteq Nat \ {0}
    /\ GC_THRESHOLD \in Nat
    /\ FreeOrder \in Seq(ToSet(FreeOrder)) /\ Len(FreeOrder) > 3
    /\ \A i, j \in DOMAIN FreeOrder : FreeOrder[i] = FreeOrder[j] => i = j
    /\ HomeLPN \cap SlotLPN = {} /\ IsFiniteSet(SlotLPN)
    /\ RSP_INVALID_LPN \notin HomeLPN \cup SlotLPN
    /\ WriteTypes \subseteq {"SW", "RW"}

Bank == 0 .. NumBank - 1
Block == ToSet(FreeOrder)
LPN == HomeLPN \cup SlotLPN
Type == {"SW", "RW"}

\* A program fills a super page: LPAGE_PER_PPAGE = 2 logical pages per plane.
SuperPage == 2 * PLANES_PER_BANK
Position == 0 .. SuperPage - 1
PhysPages == PLANES_PER_BANK * PAGES_PER_BLK
Offset == 0 .. 2 * PhysPages - 1
OffsetOf(page, pos) == 2 * ((pos \div 2) * PAGES_PER_BLK + page) + (pos % 2)

\* Places; the first two are also what the logical map holds.
Flash(b, blk, off) == [bank |-> b, block |-> blk, off |-> off]
Buffered(b, t, pos) == [bank |-> b, type |-> t, pos |-> pos]
GCBuffered(b, i) == [bank |-> b, gc |-> i]
VPN == [bank : Bank, block : Block, off : Offset]
BufferVPN == [bank : Bank, type : Type, pos : Position]
GCPlace == [bank : Bank, gc : 1 .. SuperPage]

\* Where a block is filled or read.
PageVPN == [block : Block, page : 0 .. PhysPages]

\* VC_MAX, 0xffffffff, is beyond every page number and every count.
ASSUME NoSuchPlace ==
    /\ VC_MAX \notin Block \cup VPN \cup BufferVPN \cup PageVPN
    /\ VC_ERASED \in Nat /\ VC_ERASED > 2 * PhysPages

is_in_write_buffer(v) == v # VC_MAX /\ "type" \in DOMAIN v
InFlash(v) == v # VC_MAX /\ "block" \in DOMAIN v

VARIABLES
    nand,             \* NAND_bank_state
    vpn,              \* the logical map
    copies,
    twrite,           \* the home address of each slot the host may still remap
    cur_write_bank,
    pc,
    loop,             \* which half of the call's buffer
    write_type,       \* the type of the halves so far; "command" for a remap command
    kept,             \* the call's buffer is the last of the write buffer
    reads             \* what is left of NUM_READ_PER_INCGC

call == <<pc, loop, write_type, kept, reads>>
vars == <<nand, vpn, copies, twrite, cur_write_bank, call>>

Erased(vcount) ==
    [vcount |-> vcount,
     remained_remap_cnt |-> 0,
     vbitmap |-> {},
     spare |-> [off \in Offset |-> RSP_INVALID_LPN]]

\* writebuf holds writebuf_bitmap and writebuf_lpn: its domain is the filled positions.
BankInit ==
    [GC_BLK |-> FreeOrder[1],
     cur_write_vpn |-> [t \in Type |-> [block |-> FreeOrder[IF t = "SW" THEN 2 ELSE 3],
                                        page |-> 0]],
     write_start |-> [t \in Type |-> FALSE],
     data_list |-> <<FreeOrder[2]>>,
     RW_log_list |-> <<FreeOrder[3]>>,
     free_list |-> SubSeq(FreeOrder, 4, Len(FreeOrder)),
     victim_list |-> <<>>,
     cur_gc_vpn |-> VC_MAX,
     cur_vt_vpn |-> VC_MAX,
     num_gcbuffed |-> 0,
     GCbuf_lpn |-> <<>>,
     writebuf |-> [t \in Type |-> <<>>],
     writebuf_index |-> [t \in Type |-> 0],
     remap_inbuff_cnt |-> 0,
     block_list |-> [blk \in Block |-> Erased(IF blk = FreeOrder[1] THEN VC_ERASED ELSE 0)]]

Init ==
    /\ nand = [b \in Bank |-> BankInit]
    /\ vpn = [l \in LPN |-> VC_MAX]
    /\ copies = [l \in LPN |-> {}]
    /\ twrite = [s \in SlotLPN |-> RSP_INVALID_LPN]
    /\ cur_write_bank = 0
    /\ pc = "page"
    /\ loop = 0
    /\ write_type = "none"
    /\ kept = FALSE
    /\ reads = 0

-----------------------------------------------------------------------------
(***************************************************************************)
(* Pages that are overwritten or remapped.                                 *)
(***************************************************************************)
\* Mutation: the block being filled goes too.
SettleActive(n, blk) ==
    IF n.block_list[blk].remained_remap_cnt = 0
    THEN [n EXCEPT !.RW_log_list = RemoveFirst(@, blk), !.data_list = Append(@, blk)]
    ELSE n

\* A block of log pages goes to the data blocks when no slot is mapped to it
\* any more, except while it is being filled.
Settle(n, blk) ==
    LET cur == n.cur_write_vpn["RW"]
    IN  IF /\ n.block_list[blk].remained_remap_cnt = 0
           /\ cur.block = blk => cur.page = PAGES_PER_BLK - 1
        THEN [n EXCEPT !.RW_log_list = RemoveFirst(@, blk), !.data_list = Append(@, blk)]
        ELSE n

\* A slot of blk was remapped or written again.
Unpin(n, blk) == Settle([n EXCEPT !.block_list[blk].remained_remap_cnt = @ - 1], blk)

\* Mutation: the collector's buffer is not looked at.
KeepInGCbuff(n, l, blk) == n

\* Mutation: num_gcbuffed still counts the page.
InvalidInGCbuff(n, l, blk) ==
    LET i == SelectInSeq(n.GCbuf_lpn, LAMBDA x : x = l)
    IN  IF i = 0 THEN n ELSE [n EXCEPT !.GCbuf_lpn[i] = RSP_INVALID_LPN]

check_n_invalid_GCbuff(n, l, blk) ==
    LET i == SelectInSeq(n.GCbuf_lpn, LAMBDA x : x = l)
        current == n.cur_vt_vpn # VC_MAX /\ n.cur_vt_vpn.block = blk
    IN  IF i = 0 THEN n
        ELSE [n EXCEPT !.GCbuf_lpn[i] = RSP_INVALID_LPN,
                       !.num_gcbuffed = IF current THEN @ - 1 ELSE @]

\* The data of l at v, a place in flash, is no longer l's newest.
Unmarked(info, off) == [info EXCEPT !.vbitmap = @ \ {off}, !.vcount = @ - 1]

Invalidate(n, l, v) ==
    [check_n_invalid_GCbuff(n, l, v.block) EXCEPT !.block_list[v.block] = Unmarked(@, v.off)]

\* The newest data of l is at place and nowhere else.
Store(l, place) == [x \in LPN |-> IF x = l THEN {place} ELSE copies[x] \ {place}]

-----------------------------------------------------------------------------
(***************************************************************************)
(* RSP_WritePage and write_page, once for each half of the call's buffer.  *)
(* The first half may be empty or the second, never both; both are of one  *)
(* type, as RSP_WritePage asserts.                                         *)
(***************************************************************************)
NextHalf ==
    /\ pc' = "page"
    /\ loop' = 1 - loop
    /\ write_type' = IF loop = 1 THEN "none" ELSE write_type
    /\ kept' = (loop = 0 /\ kept)
    /\ reads' = 0

NoPage ==
    /\ pc = "page"
    /\ loop = 1 => write_type # "none"
    /\ loop = 0 => write_type # "command"
    /\ pc' = "gc"
    /\ UNCHANGED <<nand, vpn, copies, twrite, cur_write_bank, loop, write_type, kept, reads>>

BeginWrite(t, l) ==
    /\ pc = "page"
    /\ t \in WriteTypes /\ write_type \in {"none", t}
    /\ l \in IF t = "SW" THEN HomeLPN ELSE SlotLPN
    /\ write_type' = t
    /\ UNCHANGED <<cur_write_bank, loop, reads>>

\* The page is in a write buffer already and is overwritten there.
Merge(l) ==
    /\ BeginWrite("SW", l)
    /\ is_in_write_buffer(vpn[l])
    /\ copies' = Store(l, vpn[l])
    /\ twrite' = [s \in SlotLPN |-> IF twrite[s] = l THEN RSP_INVALID_LPN ELSE twrite[s]]
    /\ kept' = FALSE
    /\ pc' = "gc"
    /\ UNCHANGED <<nand, vpn>>

\* Mutation: a slot that is written again keeps its old block waiting.
SupersededPinned(t, l) ==
    IF vpn[l] = VC_MAX THEN nand
    ELSE [nand EXCEPT ![vpn[l].bank] = Invalidate(@, l, vpn[l])]

\* The old copy of l in flash is invalidated; a slot with one is written again
\* without having been remapped.
Superseded(t, l) ==
    IF vpn[l] = VC_MAX THEN nand
    ELSE LET n == Invalidate(nand[vpn[l].bank], l, vpn[l])
         IN  [nand EXCEPT ![vpn[l].bank] = IF t = "RW" THEN Unpin(n, vpn[l].block) ELSE n]

\* The call's buffer already holds the first half; it is added to the write
\* buffer; or a hole of an older one is filled and the call's buffer is not kept.
IsTail == loop = 1 /\ kept
IsNew(n, t) == ~IsTail /\ n.writebuf_index[t] < PLANES_PER_BANK

\* Mutation: holes are not filled.
PositionBehind(n, t) ==
    IF IsTail THEN 2 * (n.writebuf_index[t] - 1) + 1 ELSE 2 * n.writebuf_index[t] + loop

BufferPosition(n, t) ==
    IF IsTail THEN 2 * (n.writebuf_index[t] - 1) + 1
    ELSE IF IsNew(n, t) THEN 2 * n.writebuf_index[t] + loop
    ELSE Min(Position \ DOMAIN n.writebuf[t])

(***************************************************************************)
(* A slot is written again only when the host no longer remaps it, and     *)
(* when its old copy has left the write buffer: the log is far longer than *)
(* all write buffers together.                                             *)
(***************************************************************************)
SlotIsFree(s) == twrite[s] = RSP_INVALID_LPN /\ ~is_in_write_buffer(vpn[s])

\* Padding leaves the slot unmapped.
WritePadding(s) ==
    /\ BeginWrite("RW", s)
    /\ SlotIsFree(s)
    /\ nand' = Superseded("RW", s)
    /\ vpn' = [vpn EXCEPT ![s] = VC_MAX]
    /\ copies' = [copies EXCEPT ![s] = {}]
    /\ kept' = FALSE
    /\ pc' = "gc"
    /\ UNCHANGED twrite

\* o is the home address of a log page, RSP_INVALID_LPN for a home address.
write_page(t, l, o) ==
    /\ BeginWrite(t, l)
    /\ ~is_in_write_buffer(vpn[l])
    /\ IF t = "SW" THEN o = RSP_INVALID_LPN ELSE SlotIsFree(l) /\ o \in HomeLPN
    /\ LET b == cur_write_bank
           n == Superseded(t, l)[b]
           pos == BufferPosition(n, t)
           filled == [p \in DOMAIN n.writebuf[t] \cup {pos} |->
                         IF p = pos THEN [req |-> l, remap |-> o] ELSE n.writebuf[t][p]]
           home == IF t = "SW" THEN l ELSE o
       IN  /\ nand' = [Superseded(t, l) EXCEPT
                            ![b].writebuf[t] = filled,
                            ![b].writebuf_index[t] = IF IsNew(n, t) THEN @ + 1 ELSE @]
           /\ vpn' = [vpn EXCEPT ![l] = Buffered(b, t, pos)]
           /\ copies' = Store(l, Buffered(b, t, pos))
           /\ twrite' = [s \in SlotLPN |-> IF s = l THEN o
                                           ELSE IF twrite[s] = home THEN RSP_INVALID_LPN
                                           ELSE twrite[s]]
           /\ kept' = (loop = 0 /\ IsNew(n, t))
           /\ pc' = IF DOMAIN filled = Position THEN "program" ELSE "gc"

-----------------------------------------------------------------------------
(***************************************************************************)
(* A full write buffer is programmed: assign_new_write_vpn, its RW variant *)
(* and the rest of write_page.                                             *)
(***************************************************************************)
ActiveFull(n, t) == n.cur_write_vpn[t].page = PAGES_PER_BLK - 1

\* The active block goes on, or the head of the free list becomes active.
assign_new_write_vpn(n, t) ==
    IF ActiveFull(n, t)
    THEN LET blk == Head(n.free_list)
             new == [n EXCEPT !.free_list = Tail(@),
                              !.cur_write_vpn[t] = [block |-> blk, page |-> 0],
                              !.block_list[blk].vcount = IF @ = VC_ERASED THEN 0 ELSE @]
         IN  IF t = "SW" THEN [new EXCEPT !.data_list = Append(@, blk)]
                         ELSE [new EXCEPT !.RW_log_list = Append(@, blk)]
    ELSE [n EXCEPT !.write_start[t] = TRUE,
                   !.cur_write_vpn[t].page = IF n.write_start[t] THEN @ + 1 ELSE @]

\* With no free block the bank is collected at once (garbage_collection or
\* inter_GC), which is not modelled.  If the head of the free list is the full
\* active block itself, the code goes on behind that block's last page.
Obstacle(n, t) ==
    IF ~ActiveFull(n, t) THEN "none"
    ELSE IF n.free_list = <<>> THEN "inter_GC"
    ELSE IF Head(n.free_list) = n.cur_write_vpn[t].block THEN "overrun"
    ELSE IF t = "RW" /\ n.block_list[Head(n.free_list)].vcount \notin {0, VC_ERASED} THEN "stopped"
    ELSE "none"

AssignFails ==
    /\ pc = "program"
    /\ Obstacle(nand[cur_write_bank], write_type) # "none"
    /\ pc' = Obstacle(nand[cur_write_bank], write_type)
    /\ UNCHANGED <<nand, vpn, copies, twrite, cur_write_bank, loop, write_type, kept, reads>>

Mapped(buf) == {pos \in DOMAIN buf : buf[pos].req # RSP_INVALID_LPN}

\* Mutation: the remap header of the page is ignored.
SpareIsReq(buf, pos) == buf[pos].req

\* What the spare area tells the collector about the page at pos.
SpareOf(buf, pos) ==
    IF buf[pos].remap = RSP_INVALID_LPN THEN buf[pos].req ELSE buf[pos].remap

\* Mutation: every page of the program counts as valid.
ProgrammedFull(info, page, buf) ==
    LET At(off) == {pos \in Position : OffsetOf(page, pos) = off}
    IN  [info EXCEPT
           !.vbitmap = @ \cup {OffsetOf(page, pos) : pos \in Mapped(buf)},
           !.vcount = @ + SuperPage,
           !.spare = [off \in Offset |->
                        IF At(off) = {} THEN @[off]
                        ELSE SpareOf(buf, CHOOSE pos \in At(off) : TRUE)]]

\* buf is written to page of blk.
Programmed(info, page, buf) ==
    LET At(off) == {pos \in Position : OffsetOf(page, pos) = off}
    IN  [info EXCEPT
           !.vbitmap = @ \cup {OffsetOf(page, pos) : pos \in Mapped(buf)},
           !.vcount = @ + Cardinality(Mapped(buf)),
           !.spare = [off \in Offset |->
                        IF At(off) = {} THEN @[off]
                        ELSE SpareOf(buf, CHOOSE pos \in At(off) : TRUE)]]

\* Mutation: remap_inbuff_cnt is not reset.
PinKeepingCount(n, blk) ==
    Settle([n EXCEPT !.block_list[blk].remained_remap_cnt =
                         @ + SuperPage - n.remap_inbuff_cnt], blk)

\* The log pages of a program are remapped later, but for those that were
\* remapped in the buffer.
Pin(n, blk) ==
    Settle([n EXCEPT !.block_list[blk].remained_remap_cnt =
                         @ + SuperPage - n.remap_inbuff_cnt,
                     !.remap_inbuff_cnt = 0], blk)

Program ==
    LET b == cur_write_bank
        t == write_type
        buf == nand[b].writebuf[t]
        n == assign_new_write_vpn(nand[b], t)
        blk == n.cur_write_vpn[t].block
        Place(pos) == Flash(b, blk, OffsetOf(n.cur_write_vpn[t].page, pos))
        written == [n EXCEPT
                      !.block_list[blk] = Programmed(@, n.cur_write_vpn[t].page, buf),
                      !.writebuf[t] = <<>>,
                      !.writebuf_index[t] = 0]
    IN  /\ pc = "program"
        /\ Obstacle(nand[b], t) = "none"
        /\ nand' = [nand EXCEPT ![b] = IF t = "RW" THEN Pin(written, blk) ELSE written]
        /\ vpn' = [l \in LPN |-> IF \E pos \in Mapped(buf) : buf[pos].req = l
                                 THEN Place(CHOOSE pos \in Mapped(buf) : buf[pos].req = l)
                                 ELSE vpn[l]]
        /\ copies' = [l \in LPN |->
                        {c \in copies[l] : \A pos \in Position : c # Buffered(b, t, pos)}
                        \cup {Place(pos) : pos \in {p \in Position : Buffered(b, t, p) \in copies[l]}}]
        /\ cur_write_bank' = (cur_write_bank + 1) % NumBank
        /\ kept' = FALSE
        /\ pc' = "gc"
        /\ UNCHANGED <<twrite, loop, write_type, reads>>

-----------------------------------------------------------------------------
(***************************************************************************)
(* __do_remap for one slot: the home address takes the slot's place.       *)
(***************************************************************************)
\* Mutation: a remap in the buffer is not counted.
RemappedUncounted(s, o) ==
    LET v == vpn[s]
    IN  IF is_in_write_buffer(v)
        THEN [nand EXCEPT ![v.bank].writebuf[v.type][v.pos].req = o]
        ELSE [nand EXCEPT ![v.bank] = Unpin(@, v.block)]

\* The slot's page no longer waits for a remap.
Remapped(s, o) ==
    LET v == vpn[s]
    IN  IF is_in_write_buffer(v)
        THEN [nand EXCEPT ![v.bank].writebuf[v.type][v.pos].req = o,
                          ![v.bank].remap_inbuff_cnt = @ + 1]
        ELSE [nand EXCEPT ![v.bank] = Unpin(@, v.block)]

\* Mutation: the old page in flash keeps its valid count.
DropOldBuffered(banks, o) ==
    LET v == vpn[o]
    IN  IF v # VC_MAX /\ is_in_write_buffer(v)
        THEN [banks EXCEPT ![v.bank].writebuf[v.type][v.pos].req = RSP_INVALID_LPN]
        ELSE banks

\* Mutation: the old page in a write buffer stays mapped.
DropOldInFlash(banks, o) ==
    LET v == vpn[o]
    IN  IF v = VC_MAX \/ is_in_write_buffer(v) THEN banks
        ELSE [banks EXCEPT ![v.bank] = Invalidate(@, o, v)]

\* The home address's old page is dropped.
DropOld(banks, o) ==
    LET v == vpn[o]
    IN  IF v = VC_MAX THEN banks
        ELSE IF is_in_write_buffer(v)
        THEN [banks EXCEPT ![v.bank].writebuf[v.type][v.pos].req = RSP_INVALID_LPN]
        ELSE [banks EXCEPT ![v.bank] = Invalidate(@, o, v)]

\* Two remaps of one page lie a good part of the log apart, so the page that
\* the first one left in a write buffer of log pages is in flash by then.
Remap(s) ==
    LET o == twrite[s]
    IN  /\ pc = "page" /\ loop = 0
        /\ write_type \in {"none", "command"}
        /\ o # RSP_INVALID_LPN
        /\ is_in_write_buffer(vpn[o]) => vpn[o].type = "SW"
        /\ nand' = DropOld(Remapped(s, o), o)
        /\ vpn' = [vpn EXCEPT ![s] = VC_MAX, ![o] = vpn[s]]
        /\ copies' = [copies EXCEPT ![s] = {}, ![o] = copies[s]]
        /\ twrite' = [twrite EXCEPT ![s] = RSP_INVALID_LPN]
        /\ write_type' = "command"
        /\ UNCHANGED <<cur_write_bank, pc, loop, kept, reads>>

\* A call with a command in its first half goes on to the second, which is empty:
\* a header, or a remap command when its slots are done or if it has none here.
Command ==
    /\ pc = "page" /\ loop = 0
    /\ write_type \in {"none", "command"} /\ "RW" \in WriteTypes
    /\ pc' = "gc"
    /\ loop' = 1
    /\ kept' = FALSE
    /\ UNCHANGED <<nand, vpn, copies, twrite, cur_write_bank, write_type, reads>>

-----------------------------------------------------------------------------
(***************************************************************************)
(* incremental_GC: up to NUM_READ_PER_INCGC rounds of do_incremental_GC,   *)
(* until one of them writes or erases.                                     *)
(***************************************************************************)
GCBank == (cur_write_bank + NumBank \div 2) % NumBank

incremental_GC ==
    /\ pc = "gc"
    /\ IF Len(nand[GCBank].free_list) <= GC_THRESHOLD
       THEN /\ pc' = "gc_victim"
            /\ reads' = NUM_READ_PER_INCGC
            /\ UNCHANGED <<loop, write_type, kept>>
       ELSE NextHalf
    /\ UNCHANGED <<nand, vpn, copies, twrite, cur_write_bank>>

\* A block that is being filled is no victim.
BeingFilled(n, blk) ==
    \/ \E t \in Type : n.cur_write_vpn[t].block = blk /\ ~ActiveFull(n, t)
    \/ n.cur_gc_vpn # VC_MAX /\ n.cur_gc_vpn.block = blk /\ n.cur_gc_vpn.page # PAGES_PER_BLK - 1

\* get_vt_vblock: the first data block with the fewest valid pages.
Candidates(n) ==
    {i \in DOMAIN n.data_list :
        /\ ~BeingFilled(n, n.data_list[i])
        /\ n.block_list[n.data_list[i]].vcount < 2 * PhysPages}

get_vt_vblock(n) ==
    LET vcount(i) == n.block_list[n.data_list[i]].vcount
    IN  IF Candidates(n) = {} THEN VC_MAX
        ELSE n.data_list[CHOOSE i \in Candidates(n) :
                            \A j \in Candidates(n) \ {i} :
                                \/ vcount(i) < vcount(j)
                                \/ vcount(i) = vcount(j) /\ i < j]

TakeVictim(n, blk) ==
    [n EXCEPT !.data_list = RemoveFirst(@, blk),
              !.victim_list = Append(@, blk),
              !.num_gcbuffed = 0,
              !.cur_vt_vpn = IF n.block_list[blk].vcount = 0 THEN @
                             ELSE [block |-> blk, page |-> 0]]

\* The begin of do_incremental_GC: a victim to read from, or one to erase.
ChooseVictim ==
    LET n == nand[GCBank]
        blk == get_vt_vblock(n)
        full == blk = VC_MAX \/ n.block_list[blk].vcount > 2 * PhysPages - SuperPage
        headEmpty == n.victim_list # <<>> /\ n.block_list[Head(n.victim_list)].vcount = 0
        chosen == IF headEmpty \/ n.cur_vt_vpn # VC_MAX THEN n ELSE TakeVictim(n, blk)
        vt == chosen.cur_vt_vpn
    IN  /\ pc = "gc_victim"
        /\ IF ~headEmpty /\ n.cur_vt_vpn = VC_MAX /\ full
           THEN pc' = "exhausted" /\ UNCHANGED nand
           ELSE /\ nand' = [nand EXCEPT ![GCBank] = chosen]
                /\ pc' = IF headEmpty \/ vt = VC_MAX THEN "gc_erase"
                         ELSE IF chosen.block_list[vt.block].vcount = 0 THEN "gc_erase"
                         ELSE "gc_read"
        /\ UNCHANGED <<vpn, copies, twrite, cur_write_bank, loop, write_type, kept, reads>>

\* The valid halves of a physical page of a victim, and those of them that
\* read_victim_page finds an address for, in their order.
Halves(info, page) == {2 * page, 2 * page + 1} \cap info.vbitmap
Readable(info, page) ==
    LET One(off) == IF off \in Halves(info, page) /\ info.spare[off] # RSP_INVALID_LPN
                    THEN <<off>> ELSE <<>>
    IN  One(2 * page) \o One(2 * page + 1)

\* The valid counts of the victims pay for count pages, the oldest victim first;
\* what blk pays.  Where they cannot the code asserts; here the counts come out
\* too large, against VcountIsMapped.
Payment(n, blk, count) ==
    LET list == n.victim_list
        before[i \in 0 .. Len(list)] ==
            IF i = 0 THEN 0 ELSE before[i - 1] + n.block_list[list[i]].vcount
        i == CHOOSE j \in DOMAIN list : list[j] = blk
    IN  Max({0, Min({n.block_list[blk].vcount, count - before[i - 1]})})

Paid(info, count) == [info EXCEPT !.vcount = @ - count]

decrease_vcount_of_vt_block(n, count) ==
    [n EXCEPT !.block_list =
        [blk \in Block |-> IF blk \in ToSet(n.victim_list)
                           THEN Paid(@[blk], Payment(n, blk, count))
                           ELSE @[blk]]]

\* The collector's next page: in its block, or the first of GC_BLK.
NeedsBlock(n) == n.cur_gc_vpn = VC_MAX \/ n.cur_gc_vpn.page = PAGES_PER_BLK - 1

GCTarget(n) ==
    IF NeedsBlock(n) THEN [n EXCEPT !.GC_BLK = VC_MAX,
                   !.data_list = Append(@, n.GC_BLK),
                   !.cur_gc_vpn = [block |-> n.GC_BLK, page |-> 0],
                   !.block_list[n.GC_BLK].vcount = 0]
    ELSE [n EXCEPT !.cur_gc_vpn.page = @ + 1]

\* write_gc_buffer: lpns are the pages of the collector's buffer.
write_gc_buffer(n, lpns) ==
    LET m == GCTarget(n)
        buf == [pos \in Position |-> [req |-> lpns[pos + 1], remap |-> RSP_INVALID_LPN]]
        paid == decrease_vcount_of_vt_block(m, Cardinality(Mapped(buf)))
    IN  [paid EXCEPT !.block_list[m.cur_gc_vpn.block] = Programmed(@, m.cur_gc_vpn.page, buf)]

\* The end of a round: the victim is read when all its valid pages are buffered.
EndRead(n, blk, page) ==
    LET left == n.num_gcbuffed # n.block_list[blk].vcount /\ page # PhysPages
    IN  [n EXCEPT !.cur_vt_vpn = IF left THEN [block |-> blk, page |-> page] ELSE VC_MAX]

\* Reads the victim's next physical page with a valid half, and writes the
\* collector's buffer when that fills it.
GCRead ==
    LET b == GCBank
        n == nand[b]
        blk == n.cur_vt_vpn.block
        info == n.block_list[blk]
        marked == {p \in n.cur_vt_vpn.page .. PhysPages - 1 : Halves(info, p) # {}}
        more == n.num_gcbuffed < info.vcount
        offs == IF more /\ marked # {} THEN Readable(info, Min(marked)) ELSE <<>>
        page == IF ~more THEN n.cur_vt_vpn.page
                ELSE IF marked = {} THEN PhysPages ELSE Min(marked) + 1
        held == Len(n.GCbuf_lpn)
        buffer == n.GCbuf_lpn \o [i \in DOMAIN offs |-> info.spare[offs[i]]]
        writes == Len(buffer) >= SuperPage
        rest == SubSeq(buffer, SuperPage + 1, Len(buffer))
        after == IF writes
                 THEN [write_gc_buffer(n, SubSeq(buffer, 1, SuperPage)) EXCEPT
                          !.GCbuf_lpn = rest, !.num_gcbuffed = Len(rest)]
                 ELSE [n EXCEPT !.GCbuf_lpn = buffer, !.num_gcbuffed = @ + Len(offs)]
        target == after.cur_gc_vpn
        \* The place of the i-th page of the buffer after this round.
        Place(i) == IF ~writes THEN GCBuffered(b, i)
                    ELSE IF i > SuperPage THEN GCBuffered(b, i - SuperPage)
                    ELSE Flash(b, target.block, OffsetOf(target.page, i - 1))
        Holds(l, i) == \/ i <= held /\ GCBuffered(b, i) \in copies[l]
                       \/ i > held /\ Flash(b, blk, offs[i - held]) \in copies[l]
    IN  /\ pc = "gc_read"
        /\ IF writes /\ NeedsBlock(n) /\ n.GC_BLK = VC_MAX
           THEN pc' = "stopped" /\ UNCHANGED <<nand, vpn, copies, loop, write_type, kept, reads>>
           ELSE /\ nand' = [nand EXCEPT ![b] = EndRead(after, blk, page)]
                /\ vpn' = [l \in LPN |->
                        IF writes /\ \E i \in 1 .. SuperPage : buffer[i] = l
                        THEN Place(CHOOSE i \in 1 .. SuperPage : buffer[i] = l)
                        ELSE vpn[l]]
                /\ copies' = [l \in LPN |->
                        {c \in copies[l] : \A i \in 1 .. held : c # GCBuffered(b, i)}
                        \cup {Place(i) : i \in {j \in DOMAIN buffer : Holds(l, j)}}]
                /\ IF page = PhysPages /\ after.block_list[blk].vcount > after.num_gcbuffed
                   THEN pc' = "stopped" /\ UNCHANGED <<loop, write_type, kept, reads>>
                   ELSE IF writes THEN NextHalf
                   ELSE pc' = "gc_erase" /\ UNCHANGED <<loop, write_type, kept, reads>>
        /\ UNCHANGED <<twrite, cur_write_bank>>

\* The erased victim becomes free.  (Also a mutation of Reclaim: the collector's
\* reserve is not filled up.)
ReclaimOnly(n, vt) ==
    [n EXCEPT
        !.block_list[vt] = [Erased(VC_ERASED) EXCEPT !.vbitmap = n.block_list[vt].vbitmap,
                               !.remained_remap_cnt = n.block_list[vt].remained_remap_cnt],
        !.cur_vt_vpn = IF @ # VC_MAX /\ @.block = vt THEN VC_MAX ELSE @,
        !.victim_list = RemoveFirst(@, vt),
        !.free_list = Append(@, vt)]

\* erase_victim_block: the first victim without valid pages becomes free; if
\* the collector has no block in reserve it takes one.
Reclaim(n, vt) ==
    LET m == ReclaimOnly(n, vt)
    IN  IF n.GC_BLK # VC_MAX THEN m
        ELSE [m EXCEPT !.GC_BLK = Head(n.free_list), !.free_list = Tail(@)]

EmptyVictims(n) == {i \in DOMAIN n.victim_list : n.block_list[n.victim_list[i]].vcount = 0}

EraseVictim ==
    LET n == nand[GCBank]
        vt == n.victim_list[Min(EmptyVictims(n))]
    IN  /\ pc = "gc_erase"
        /\ EmptyVictims(n) # {}
        /\ IF n.GC_BLK = VC_MAX /\ n.free_list = <<>>
           THEN pc' = "exhausted" /\ UNCHANGED <<nand, copies, loop, write_type, kept, reads>>
           ELSE /\ nand' = [nand EXCEPT ![GCBank] = Reclaim(n, vt)]
                /\ copies' = [l \in LPN |->
                        {c \in copies[l] : \A off \in Offset : c # Flash(GCBank, vt, off)}]
                /\ NextHalf
        /\ UNCHANGED <<vpn, twrite, cur_write_bank>>

NothingToErase ==
    /\ pc = "gc_erase"
    /\ EmptyVictims(nand[GCBank]) = {}
    /\ IF nand[GCBank].victim_list = <<>>
       THEN pc' = "stopped" /\ UNCHANGED <<loop, write_type, kept, reads>>
       ELSE IF reads = 1 THEN NextHalf
       ELSE /\ pc' = "gc_victim"
            /\ reads' = reads - 1
            /\ UNCHANGED <<loop, write_type, kept>>
    /\ UNCHANGED <<nand, vpn, copies, twrite, cur_write_bank>>

-----------------------------------------------------------------------------
Next ==
    \/ NoPage
    \/ \E l \in HomeLPN : Merge(l)
    \/ \E s \in SlotLPN : WritePadding(s) \/ Remap(s)
    \/ Command
    \/ \E t \in WriteTypes, l \in LPN, o \in HomeLPN \cup {RSP_INVALID_LPN} : write_page(t, l, o)
    \/ AssignFails
    \/ Program
    \/ incremental_GC
    \/ ChooseVictim
    \/ GCRead
    \/ EraseVictim
    \/ NothingToErase

Spec == Init /\ [][Next]_vars

-----------------------------------------------------------------------------
BankTypeOK(n) ==
    /\ n.GC_BLK \in Block \cup {VC_MAX}
    /\ n.cur_write_vpn \in [Type -> [block : Block, page : 0 .. PAGES_PER_BLK - 1]]
    /\ n.write_start \in [Type -> BOOLEAN]
    /\ \A list \in {n.data_list, n.RW_log_list, n.free_list, n.victim_list} :
            ToSet(list) \subseteq Block
    /\ n.cur_gc_vpn = VC_MAX \/ n.cur_gc_vpn \in [block : Block, page : 0 .. PAGES_PER_BLK - 1]
    /\ n.cur_vt_vpn = VC_MAX \/ n.cur_vt_vpn \in [block : Block, page : 0 .. PhysPages - 1]
    /\ n.num_gcbuffed \in Nat
    /\ Len(n.GCbuf_lpn) < SuperPage
    /\ ToSet(n.GCbuf_lpn) \subseteq LPN \cup {RSP_INVALID_LPN}
    /\ \A t \in Type : DOMAIN n.writebuf[t] \subseteq Position
    /\ n.writebuf_index \in [Type -> 0 .. PLANES_PER_BANK]
    /\ n.remap_inbuff_cnt \in 0 .. SuperPage
    /\ \A blk \in Block :
            LET info == n.block_list[blk]
            IN  /\ info.vcount \in 0 .. 2 * PhysPages \cup {VC_ERASED}
                /\ info.remained_remap_cnt \in 0 .. 2 * PhysPages
                /\ info.vbitmap \subseteq Offset
                /\ \A off \in Offset : info.spare[off] \in LPN \cup {RSP_INVALID_LPN}

\* Every counter and index is in the range its array has (set_vcount and the
\* asserts of write_page say so of their own).
TypeOK ==
    /\ \A b \in Bank : BankTypeOK(nand[b])
    /\ \A l \in LPN :
        /\ vpn[l] \in VPN \cup BufferVPN \cup {VC_MAX}
        /\ copies[l] \subseteq VPN \cup BufferVPN \cup GCPlace
    /\ twrite \in [SlotLPN -> HomeLPN \cup {RSP_INVALID_LPN}]
    /\ cur_write_bank \in Bank
    /\ pc \in {"page", "program", "gc", "gc_victim", "gc_read", "gc_erase",
               "inter_GC", "exhausted", "overrun", "stopped"}
    /\ loop \in {0, 1} /\ write_type \in Type \cup {"none", "command"}
    /\ kept \in BOOLEAN /\ reads \in 0 .. NUM_READ_PER_INCGC

\* A read of any address finds the data last written to it: the map leads to a
\* place that holds the newest data, through buffers, programs, remaps and
\* collections, and only a page without data has no vpn.
ReadsNewest ==
    \A l \in LPN : IF copies[l] = {} THEN vpn[l] = VC_MAX ELSE vpn[l] \in copies[l]

MappedInto(b, blk, lpns) ==
    {l \in lpns : InFlash(vpn[l]) /\ vpn[l].bank = b /\ vpn[l].block = blk}

\* The valid count of a block is the number of addresses mapped into it,
\* although write_gc_buffer charges it to victims by their age and not by the
\* pages it copied; an erased block has none.
VcountIsMapped ==
    \A b \in Bank, blk \in Block :
        LET vcount == nand[b].block_list[blk].vcount
        IN  Cardinality(MappedInto(b, blk, LPN)) = IF vcount = VC_ERASED THEN 0 ELSE vcount

\* A block's remained_remap_cnt is the number of slots mapped into it, whether
\* their pages were remapped in the buffer, in flash or not at all.
RemainedIsMapped ==
    \A b \in Bank, blk \in Block :
        nand[b].block_list[blk].remained_remap_cnt = Cardinality(MappedInto(b, blk, SlotLPN))

\* The lists of a bank's blocks; the collector's reserve is a list of one.
ListName == {"data", "RW_log", "free", "victim", "GC"}
Lists(n) == [name \in ListName |->
    CASE name = "data"   -> n.data_list
      [] name = "RW_log" -> n.RW_log_list
      [] name = "free"   -> n.free_list
      [] name = "victim" -> n.victim_list
      [] name = "GC"     -> IF n.GC_BLK = VC_MAX THEN <<>> ELSE <<n.GC_BLK>>]

\* Every block of a bank is in one list, once, or the collector's reserve: no
\* block is lost, and none is filled and collected at the same time.
BlocksConserved ==
    \A b \in Bank :
        LET list == Lists(nand[b])
        IN  /\ UNION {ToSet(list[name]) : name \in ListName} = Block
            /\ \A x, y \in ListName : \A i \in DOMAIN list[x], j \in DOMAIN list[y] :
                    list[x][i] = list[y][j] => x = y /\ i = j

\* A page at a log address is never where the collector could take it: it
\* would be copied under its home address before its remap.
LogPagesStay ==
    \A s \in SlotLPN :
        InFlash(vpn[s]) => vpn[s].block \in ToSet(nand[vpn[s].bank].RW_log_list)

\* The collector's buffer holds only pages that are still mapped to a victim,
\* and num_gcbuffed counts those of the current one.
GCBufferIsCurrent ==
    \A b \in Bank :
        LET n == nand[b]
            held == ToSet(n.GCbuf_lpn) \ {RSP_INVALID_LPN}
        IN  /\ \A l \in held : /\ InFlash(vpn[l]) /\ vpn[l].bank = b
                               /\ vpn[l].block \in ToSet(n.victim_list)
            /\ n.cur_vt_vpn # VC_MAX =>
                    n.num_gcbuffed = Cardinality({l \in held : vpn[l].block = n.cur_vt_vpn.block})

\* The collector's own counts and lists never contradict each other: its asserts
\* on them hold (all valid pages of a victim are found, a block is in reserve when
\* a copy needs one, a victim is there when all is read).  pc = "exhausted" is no
\* such case: the bank has no victim or no block left, a question of its size.
NoAssertFires == pc # "stopped"

\* assign_new_write_vpn "returns new page for data block" (ATLWrapper.cpp:1682):
\* a page of the block it took, not one behind the end of it.
PageOfOwnBlock == pc # "overrun"
=============================================================================
