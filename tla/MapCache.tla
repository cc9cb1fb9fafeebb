------------------------------ MODULE MapCache ------------------------------
(***************************************************************************)
(* The logical map of one FTL core (src/ATLWrapper.cpp): the cached map    *)
(* pages with their LRU list, the map blocks in flash, the log of the      *)
(* collector's moves, and the block that takes the flushed bitmaps.        *)
(*                                                                         *)
(* A vpn is a bank and a mark that tells an older place from a newer one.  *)
(***************************************************************************)
EXTENDS Integers, Sequences, FiniteSets
LOCAL INSTANCE SequencesExt
LOCAL INSTANCE FiniteSetsExt
LOCAL INSTANCE Functions

CONSTANTS
    LPN,
    MapPage,
    MapPageOf,      \* lpn / NUM_PAGES_PER_MAP
    BankOf,         \* map_offset / NUM_MAP_ENTRY_PER_BANK
    NumBank,
    Updated,        \* the addresses that set_vpn is called for; the others are only read
    Slot,           \* the slots of the cache, in the order they are first used
    VC_MAX, NULL,
    Meta,           \* what bank_meta_flush writes
    DirtyBBP,       \* how many pages of bitmaps may be dirty when a block is taken
    MAP_ENTRY_BLK_PER_BANK, PAGES_PER_BLK,
    SuperPage,      \* pages of the collector's buffer
    BlockOrder,     \* a bank's blocks as RSP_Open takes them, as far as they come here
    NumData         \* how many of them hold data at first

ASSUME MapConstants ==
    /\ {NumBank, PAGES_PER_BLK, SuperPage} \subseteq Nat \ {0}
    /\ MapPageOf \in [LPN -> MapPage] /\ Updated \subseteq LPN
    /\ BankOf \in [MapPage -> 0 .. NumBank - 1]
    /\ Len(Slot) > 1
    /\ NumData \in Nat /\ DirtyBBP \subseteq Nat
    /\ MAP_ENTRY_BLK_PER_BANK \in 2 .. Len(BlockOrder) - 1 - NumData
    /\ \A b \in 0 .. NumBank - 1 :
            Cardinality({p \in MapPage : BankOf[p] = b})
                < (MAP_ENTRY_BLK_PER_BANK - 1) * PAGES_PER_BLK

Bank == 0 .. NumBank - 1
Block == ToSet(BlockOrder)
NUM_CACHED_MAP == Len(Slot)
MapBlock == 0 .. MAP_ENTRY_BLK_PER_BANK - 1
Page == 0 .. PAGES_PER_BLK - 1
MapVPN == 0 .. MAP_ENTRY_BLK_PER_BANK * PAGES_PER_BLK - 1
Offset == 0 .. PAGES_PER_BLK * SuperPage - 1
Addresses(p) == {l \in LPN : MapPageOf[l] = p}

VPN == [bank : Bank, mark : {0, 1}]
\* The vpn of a page that the collector moved within its bank.
Moved(v) == [v EXCEPT !.mark = 1 - @]

VARIABLES
    nand,               \* NAND_bank_state, MAP_VALID_COUNT, MAPP2L and the flash of each bank
    gc_map_log, gc_page,    \* NAND_bank_state: the log, the page of cur_gc_vpn in its block
    MAP_MAPPING_TABLE,  \* where in its bank's map blocks a map page is
    cache,              \* per slot: map_page, data, dirty, lru_next
    CACHE_LRU_HEAD,
    num_cached,
    flushing,           \* the bank whose log write_gc_buffer flushes
    place               \* history: where each address was put last

vars == <<nand, gc_map_log, gc_page, MAP_MAPPING_TABLE, cache, CACHE_LRU_HEAD, num_cached,
          flushing, place>>

-----------------------------------------------------------------------------
\* The state after RSP_Open.  A page of the flash is the sequence of what was
\* programmed into it since its block was erased.
Erased == [page \in Page |-> <<>>]

BankInit ==
    LET meta == MAP_ENTRY_BLK_PER_BANK + 1
    IN  [map_blk_offset |-> [i \in MapBlock |-> BlockOrder[i + 1]],
         MAP_VALID_COUNT |-> [i \in MapBlock |->
                                IF i = MAP_ENTRY_BLK_PER_BANK - 1 THEN VC_MAX ELSE 0],
         MAPP2L |-> [v \in MapVPN |-> VC_MAX],
         MAP_GC_BLK |-> MAP_ENTRY_BLK_PER_BANK - 1,
         cur_map_vpn |-> 0,
         map_start |-> FALSE,
         map_free_blk |-> MAP_ENTRY_BLK_PER_BANK - 1,
         meta_blk |-> BlockOrder[meta],
         cur_meta_vpn |-> 0,
         meta_start |-> FALSE,
         data |-> {BlockOrder[i] : i \in meta + 1 .. meta + NumData},
         free_list |-> SubSeq(BlockOrder, meta + NumData + 1, Len(BlockOrder)),
         vcount |-> [blk \in Block |->
                        IF \E i \in 1 .. meta : BlockOrder[i] = blk THEN VC_MAX ELSE 0],
         flash |-> [blk \in Block |-> Erased]]

Init ==
    /\ nand = [b \in Bank |-> BankInit]
    /\ gc_map_log = [b \in Bank |-> <<>>]
    /\ gc_page = [b \in Bank |-> PAGES_PER_BLK - 1]
    /\ MAP_MAPPING_TABLE = [p \in MapPage |-> VC_MAX]
    /\ cache = [s \in ToSet(Slot) |->
                    [map_page |-> VC_MAX, data |-> <<>>, dirty |-> FALSE, lru_next |-> NULL]]
    /\ CACHE_LRU_HEAD = NULL
    /\ num_cached = 0
    /\ flushing = NULL
    /\ place = [l \in LPN |-> VC_MAX]

-----------------------------------------------------------------------------
(***************************************************************************)
(* Blocks of a bank: erase, program, and the exchange of a used block for  *)
(* the head of the free list.                                              *)
(***************************************************************************)
Erase(n, blk) == [n EXCEPT !.flash[blk] = Erased]
Programmed(n, blk, page, data) == [n EXCEPT !.flash[blk][page] = Append(@, data)]

\* Mutation: the block handed in counts as erased.
ExchangedErased(n, blk) ==
    LET new == Head(n.free_list)
        m == [n EXCEPT !.free_list = Append(Tail(@), blk),
                       !.vcount[blk] = VC_MAX, !.vcount[new] = VC_MAX]
    IN  IF n.vcount[new] = 0 THEN Erase(m, new) ELSE m

\* blk will be erased when it is taken; the block taken for it is, now if need be.
Exchanged(n, blk) ==
    LET new == Head(n.free_list)
        m == [n EXCEPT !.free_list = Append(Tail(@), blk),
                       !.vcount[blk] = 0, !.vcount[new] = VC_MAX]
    IN  IF n.vcount[new] = 0 THEN Erase(m, new) ELSE m

\* map_write, the victim's block.
Recycle(n, victim) ==
    LET blk == n.map_blk_offset[victim]
    IN  IF n.free_list = <<>> THEN Erase(n, blk)
        ELSE [Exchanged(n, blk) EXCEPT !.map_blk_offset[victim] = Head(n.free_list)]

MetaReady(n) ==
    IF n.cur_meta_vpn # 0 \/ ~n.meta_start THEN n
    ELSE IF n.free_list = <<>> THEN Erase(n, n.meta_blk)
    ELSE [Exchanged(n, n.meta_blk) EXCEPT !.meta_blk = Head(n.free_list)]

\* Mutation: the next page of the meta block is not taken modulo its size.
bank_meta_flush_unwrapped(n) ==
    LET ready == MetaReady(n)
    IN  [Programmed(ready, ready.meta_blk, n.cur_meta_vpn, Meta) EXCEPT
            !.cur_meta_vpn = @ + 1,
            !.meta_start = TRUE]

bank_meta_flush(n) ==
    LET ready == MetaReady(n)
    IN  [Programmed(ready, ready.meta_blk, n.cur_meta_vpn, Meta) EXCEPT
            !.cur_meta_vpn = (@ + 1) % PAGES_PER_BLK,
            !.meta_start = TRUE]

-----------------------------------------------------------------------------
(***************************************************************************)
(* Map pages in flash: map_write with its garbage collection, map_read.    *)
(* w is a bank's state with the mapping table.                             *)
(***************************************************************************)
BlockFull(n) == n.map_free_blk = 0 /\ n.cur_map_vpn % PAGES_PER_BLK = PAGES_PER_BLK - 1

FlashData(n, v) == Last(n.flash[n.map_blk_offset[v \div PAGES_PER_BLK]][v % PAGES_PER_BLK])
ProgramMap(n, v, data) ==
    Programmed(n, n.map_blk_offset[v \div PAGES_PER_BLK], v % PAGES_PER_BLK, data)

\* The first map block with the fewest mapped pages; MAP_GC_BLK counts VC_MAX.
MapVictim(n) ==
    LET Fewest(i) == \A j \in MapBlock \ {n.MAP_GC_BLK} :
                        \/ n.MAP_VALID_COUNT[i] < n.MAP_VALID_COUNT[j]
                        \/ n.MAP_VALID_COUNT[i] = n.MAP_VALID_COUNT[j] /\ i <= j
    IN  CHOOSE i \in MapBlock \ {n.MAP_GC_BLK} : Fewest(i)

\* Mutation: an older copy of a map page counts too.
MappedOnce(n, table, v) == n.MAPP2L[v] # VC_MAX

\* The map page at map vpn v, if v is its place.
MappedAt(n, table, v) == n.MAPP2L[v] # VC_MAX /\ table[n.MAPP2L[v]] = v

\* The mapped pages of the victim go to MAP_GC_BLK, whose place the victim takes.
Collected(w) ==
    LET n == w.bank
        victim == MapVictim(n)
        vcount == n.MAP_VALID_COUNT[victim]
        free == n.MAP_GC_BLK * PAGES_PER_BLK
        places == SelectSeq([i \in 1 .. PAGES_PER_BLK |-> victim * PAGES_PER_BLK + i - 1],
                            LAMBDA v : MappedAt(n, w.table, v))
        copied == SubSeq(places, 1, Min({vcount, Len(places)}))
        Copy(m, i) == [ProgramMap(m, free + i - 1, FlashData(n, copied[i])) EXCEPT
                            !.MAPP2L[free + i - 1] = n.MAPP2L[copied[i]]]
        after == FoldLeft(Copy, n, [i \in DOMAIN copied |-> i])
    IN  [bank |-> Recycle([after EXCEPT !.MAP_VALID_COUNT[victim] = VC_MAX,
                                        !.MAP_VALID_COUNT[n.MAP_GC_BLK] = vcount,
                                        !.MAP_GC_BLK = victim,
                                        !.cur_map_vpn = free + Len(copied)], victim),
         table |-> [p \in MapPage |->
                        IF \E i \in DOMAIN copied : n.MAPP2L[copied[i]] = p
                        THEN free + (CHOOSE i \in DOMAIN copied : n.MAPP2L[copied[i]] = p) - 1
                        ELSE w.table[p]]]

\* Mutation: the old place still counts.
RecountedNew(counts, old, v) ==
    [i \in MapBlock |-> IF counts[i] # VC_MAX /\ i = v \div PAGES_PER_BLK
                        THEN counts[i] + 1 ELSE counts[i]]

\* MAP_VALID_COUNT when a map page moves from map vpn old to v.
Recounted(counts, old, v) ==
    LET In(i, x) == IF x # VC_MAX /\ i = x \div PAGES_PER_BLK THEN 1 ELSE 0
    IN  [i \in MapBlock |-> IF counts[i] = VC_MAX THEN VC_MAX
                            ELSE counts[i] + In(i, v) - In(i, old)]

\* Map page p is written to map vpn v, and its old place no longer counts.
Placed(w, p, v, data) ==
    LET n == [w.bank EXCEPT !.cur_map_vpn = v, !.MAPP2L[v] = p,
                            !.MAP_VALID_COUNT = Recounted(@, w.table[p], v)]
    IN  [bank |-> ProgramMap(n, v, data), table |-> [w.table EXCEPT ![p] = v]]

\* The next page, in the active map block or the first of the next one.
Advanced(w, p, data) ==
    LET n == w.bank
        v == IF n.map_start THEN n.cur_map_vpn + 1 ELSE n.cur_map_vpn
        r == Placed(w, p, v, data)
    IN  [r EXCEPT !.bank.map_start = TRUE,
                  !.bank.map_free_blk = IF v % PAGES_PER_BLK = PAGES_PER_BLK - 1 /\ @ # 0
                                        THEN @ - 1 ELSE @]

map_write(w, p, data) ==
    IF BlockFull(w.bank)
    THEN LET c == Collected(w) IN Placed(c, p, c.bank.cur_map_vpn, data)
    ELSE Advanced(w, p, data)

\* A map page that is nowhere in flash reads as VC_MAX throughout.
map_read(banks, table, p) ==
    IF table[p] = VC_MAX THEN [l \in Addresses(p) |-> VC_MAX]
    ELSE FlashData(banks[BankOf[p]], table[p])

-----------------------------------------------------------------------------
(***************************************************************************)
(* The log of the collector's moves.  Per bank an array of entries, one    *)
(* for each page of the collector's block, and a tree of the entries by    *)
(* address; gc_map_log holds the entries in the tree.                      *)
(***************************************************************************)
Logged(b, l) == {off \in DOMAIN gc_map_log[b] : gc_map_log[b][off].lpn = l}
BanksLogging(l) == {b \in Bank : Logged(b, l) # {}}

\* get_map_log: the entry of the first bank that has one.
FirstLogging(l) == CHOOSE b \in BanksLogging(l) : \A c \in BanksLogging(l) : b <= c
get_map_log(l) ==
    LET b == FirstLogging(l) IN gc_map_log[b][CHOOSE off \in Logged(b, l) : TRUE]

\* log_map_search and rb_erase: the entry of l leaves the tree.
log_map_remove(log, l) == [off \in {o \in DOMAIN log : log[o].lpn # l} |-> log[off]]

\* Mutation: only the entry in its place is replaced.
set_map_log_twice(log, first, buffer) ==
    LET new == first .. first + Len(buffer) - 1
    IN  [off \in DOMAIN log \cup new |->
            IF off \in new THEN LET l == buffer[off - first + 1]
                                IN  [lpn |-> l, vpn |-> Moved(place[l])]
            ELSE log[off]]

\* set_map_log for every page of a buffer, from entry first on: an address in
\* the tree already is replaced, and so is an entry in its place.
set_map_log(log, first, buffer) ==
    LET new == first .. first + Len(buffer) - 1
        kept == {off \in DOMAIN log \ new : \A i \in DOMAIN buffer : buffer[i] # log[off].lpn}
    IN  [off \in kept \cup new |->
            IF off \in new THEN LET l == buffer[off - first + 1]
                                IN  [lpn |-> l, vpn |-> Moved(place[l])]
            ELSE log[off]]

-----------------------------------------------------------------------------
(***************************************************************************)
(* get_map_page, and what its caller does with the slot: get_vpn reads it  *)
(* (written = <<>>), set_vpn writes to it.                                 *)
(***************************************************************************)
\* The slots from CACHE_LRU_HEAD along lru_next.
LRU ==
    LET at[i \in 1 .. NUM_CACHED_MAP] ==
            IF i = 1 THEN CACHE_LRU_HEAD
            ELSE IF at[i - 1] = NULL THEN NULL ELSE cache[at[i - 1]].lru_next
    IN  SelectSeq([i \in 1 .. NUM_CACHED_MAP |-> at[i]], LAMBDA s : s # NULL)

\* Where in the list map page p is, or 0.
Found(p) ==
    LET lru == LRU
        at == {i \in DOMAIN lru : cache[lru[i]].map_page = p}
    IN  IF at = {} THEN 0 ELSE Min(at)
LRUTail == LET lru == LRU IN IF lru = <<>> THEN NULL ELSE Last(lru)
CacheFull == num_cached = NUM_CACHED_MAP

Used(slot, written) ==
    [slot EXCEPT !.data = [l \in DOMAIN @ |-> IF l \in DOMAIN written THEN written[l] ELSE @[l]],
                 !.dirty = @ \/ written # <<>>]

\* Mutation: the page before it still leads to it.
ToFrontLinked(i) == [cache EXCEPT ![LRU[i]].lru_next = CACHE_LRU_HEAD]

\* A page that is not used for the collector moves to the front.
ToFront(i) ==
    [cache EXCEPT ![LRU[i - 1]].lru_next = cache[LRU[i]].lru_next,
                  ![LRU[i]].lru_next = CACHE_LRU_HEAD]

\* The page is the i-th of the list.
Hit(i, flag, written) ==
    LET moved == flag # "GC" /\ i > 1
    IN  /\ cache' = [(IF moved THEN ToFront(i) ELSE cache) EXCEPT ![LRU[i]] = Used(@, written)]
        /\ CACHE_LRU_HEAD' = IF moved THEN LRU[i] ELSE CACHE_LRU_HEAD
        /\ UNCHANGED <<nand, MAP_MAPPING_TABLE, num_cached>>

\* Slot s gets the page and goes to the front; for the collector a slot that
\* is used again stays at the end.
Load(banks, table, s, p, flag, written) ==
    LET list == LRU
        tail == list # <<>> /\ Last(list) = s
        front == CACHE_LRU_HEAD # NULL /\ (flag # "GC" \/ ~tail)
        cut == IF front /\ tail /\ Len(list) > 1
               THEN [cache EXCEPT ![list[Len(list) - 1]].lru_next = NULL] ELSE cache
        lru == IF front THEN [cut EXCEPT ![s].lru_next = CACHE_LRU_HEAD] ELSE cut
        loaded == [lru[s] EXCEPT !.map_page = p, !.dirty = FALSE,
                                 !.data = map_read(banks, table, p)]
    IN  /\ cache' = [lru EXCEPT ![s] = Used(loaded, written)]
        /\ CACHE_LRU_HEAD' = IF CACHE_LRU_HEAD = NULL \/ front THEN s ELSE CACHE_LRU_HEAD
        /\ nand' = banks
        /\ MAP_MAPPING_TABLE' = table

\* The first loads take the slots in turn.
Fill(p, flag, written) ==
    /\ ~CacheFull
    /\ num_cached' = num_cached + 1
    /\ Load(nand, MAP_MAPPING_TABLE, Slot[num_cached + 1], p, flag, written)

\* Then the least recently used page makes room, written back if it is dirty.
Replace(p, flag, written) ==
    LET old == cache[LRUTail]
        b == BankOf[old.map_page]
        w == [bank |-> nand[b], table |-> MAP_MAPPING_TABLE]
        back == IF old.dirty THEN map_write(w, old.map_page, old.data) ELSE w
    IN  /\ CacheFull
        /\ Load([nand EXCEPT ![b] = back.bank], back.table, LRUTail, p, flag, written)
        /\ UNCHANGED num_cached

get_map_page(p, flag, written) ==
    LET i == Found(p)
    IN  \/ i # 0 /\ Hit(i, flag, written)
        \/ i = 0 /\ Fill(p, flag, written)
        \/ i = 0 /\ Replace(p, flag, written)

-----------------------------------------------------------------------------
(***************************************************************************)
(* The calls.  They run to the end one at a time, but for write_gc_buffer, *)
(* whose flush of the log calls set_vpn once per entry.                    *)
(***************************************************************************)
\* An address in the log is answered without the cache, and one whose map page
\* stays where it is in the list changes nothing.
get_vpn(l, flag) ==
    /\ flushing = NULL
    /\ BanksLogging(l) = {}
    /\ Found(MapPageOf[l]) # 1 /\ (flag = "GC" => Found(MapPageOf[l]) = 0)
    /\ get_map_page(MapPageOf[l], flag, <<>>)
    /\ UNCHANGED <<gc_map_log, gc_page, flushing, place>>

\* An entry in the log is overtaken.
Set(l, v, flag) ==
    /\ gc_map_log' = IF BanksLogging(l) = {} THEN gc_map_log
                     ELSE [gc_map_log EXCEPT ![FirstLogging(l)] = log_map_remove(@, l)]
    /\ get_map_page(MapPageOf[l], flag, [x \in {l} |-> v])
    /\ UNCHANGED <<gc_page, flushing>>

set_vpn(l, v) ==
    /\ flushing = NULL
    /\ Set(l, v, "host")
    /\ place' = [place EXCEPT ![l] = v]

\* write_gc_buffer flushes the log of a full collector's block to the map,
\* entry by entry; flush_map_log goes through the tree by address, here in any
\* order.
BlockIsFull(b) ==
    /\ flushing = NULL
    /\ gc_page[b] = PAGES_PER_BLK - 1
    /\ flushing' = b
    /\ UNCHANGED <<nand, gc_map_log, gc_page, MAP_MAPPING_TABLE, cache, CACHE_LRU_HEAD,
                   num_cached, place>>

flush_map_log ==
    /\ flushing # NULL
    /\ \E off \in DOMAIN gc_map_log[flushing] :
            LET entry == gc_map_log[flushing][off] IN Set(entry.lpn, entry.vpn, "GC")
    /\ UNCHANGED place

\* Then the pages of the buffer are logged under their new places.
write_gc_buffer(b, buffer) ==
    LET page == (gc_page[b] + 1) % PAGES_PER_BLK
    IN  /\ IF gc_page[b] = PAGES_PER_BLK - 1
           THEN flushing = b /\ gc_map_log[b] = <<>>
           ELSE flushing = NULL
        /\ \A i \in DOMAIN buffer : place[buffer[i]] # VC_MAX /\ place[buffer[i]].bank = b
        /\ gc_map_log' = [gc_map_log EXCEPT ![b] = set_map_log(@, page * SuperPage, buffer)]
        /\ gc_page' = [gc_page EXCEPT ![b] = page]
        /\ flushing' = NULL
        /\ place' = [l \in LPN |-> IF \E i \in DOMAIN buffer : buffer[i] = l
                                   THEN Moved(place[l]) ELSE place[l]]
        /\ UNCHANGED <<nand, MAP_MAPPING_TABLE, cache, CACHE_LRU_HEAD, num_cached>>

(***************************************************************************)
(* assign_new_write_vpn takes a block and flushes the bitmaps: BBP_flush   *)
(* once for each dirty page of bitmaps, from the bank being written on,    *)
(* then once for the bank itself.                                          *)
(***************************************************************************)
flush_bank(banks, b, dirty) ==
    LET Flush(m, i) == [m EXCEPT ![(b + i) % NumBank] = bank_meta_flush(@)]
    IN  FoldLeft(Flush, banks, [i \in 1 .. dirty |-> i - 1] \o <<0>>)

AssignBlock(b, dirty) ==
    LET n == nand[b]
        blk == Head(n.free_list)
        taken == [n EXCEPT !.free_list = Tail(@), !.data = @ \cup {blk}, !.vcount[blk] = 0]
    IN  /\ flushing = NULL
        /\ n.free_list # <<>>
        /\ nand' = flush_bank([nand EXCEPT
                        ![b] = IF n.vcount[blk] = 0 THEN Erase(taken, blk) ELSE taken], b, dirty)
        /\ UNCHANGED <<gc_map_log, gc_page, MAP_MAPPING_TABLE, cache, CACHE_LRU_HEAD, num_cached,
                   flushing, place>>

\* erase_victim_block frees a data block; if write_gc_buffer has taken the
\* collector's reserve, the head of the free list is the next one.
FreeBlock(b, blk) ==
    LET n == nand[b]
        freed == [n EXCEPT !.data = @ \ {blk}, !.vcount[blk] = VC_MAX]
        new == Head(n.free_list)
        reserved == [freed EXCEPT !.data = @ \cup {new}, !.free_list = Append(Tail(@), blk)]
    IN  /\ flushing = NULL
        /\ blk \in n.data
        /\ \/ nand' = [nand EXCEPT ![b] = [freed EXCEPT !.free_list = Append(@, blk)]]
           \/ /\ n.free_list # <<>>
              /\ nand' = [nand EXCEPT ![b] = IF n.vcount[new] = 0 THEN Erase(reserved, new)
                                             ELSE reserved]
        /\ UNCHANGED <<gc_map_log, gc_page, MAP_MAPPING_TABLE, cache, CACHE_LRU_HEAD, num_cached,
                       flushing, place>>

\* Different pages of one block of flash.
Buffers == {buffer \in UNION {[1 .. k -> LPN] : k \in 1 .. SuperPage} :
                \A i, j \in DOMAIN buffer : buffer[i] = buffer[j] => i = j}

Next ==
    \/ \E l \in LPN, flag \in {"host", "GC"} : get_vpn(l, flag)
    \/ \E l \in Updated : \E v \in (VPN \cup {VC_MAX}) \ {place[l]} : set_vpn(l, v)
    \/ \E b \in Bank, buffer \in Buffers : write_gc_buffer(b, buffer)
    \/ flush_map_log
    \/ \E b \in Bank : BlockIsFull(b)
    \/ \E b \in Bank, dirty \in DirtyBBP : AssignBlock(b, dirty)
    \/ \E b \in Bank, blk \in Block : FreeBlock(b, blk)

Spec == Init /\ [][Next]_vars

-----------------------------------------------------------------------------
\* What get_vpn finds for an address: in the log, the cache or the flash.
Value(l) ==
    LET i == Found(MapPageOf[l])
    IN  IF BanksLogging(l) # {} THEN get_map_log(l).vpn
        ELSE IF i # 0 THEN cache[LRU[i]].data[l]
        ELSE map_read(nand, MAP_MAPPING_TABLE, MapPageOf[l])[l]

\* Nothing is lost between log, cache and flash: get_vpn finds the place that
\* was set last, or the one the collector moved the page to since, after any
\* run of misses, write backs, collections of map blocks and flushes.
GetVpnIsLast == \A l \in LPN : Value(l) = place[l]

SlotTypeOK(s) ==
    /\ cache[s].map_page \in MapPage \cup {VC_MAX}
    /\ cache[s].map_page # VC_MAX =>
            cache[s].data \in [Addresses(cache[s].map_page) -> VPN \cup {VC_MAX}]
    /\ cache[s].dirty \in BOOLEAN
    /\ cache[s].lru_next \in ToSet(Slot) \cup {NULL}

BankTypeOK(n) ==
    /\ n.map_blk_offset \in [MapBlock -> Block]
    /\ n.MAP_VALID_COUNT \in [MapBlock -> 0 .. PAGES_PER_BLK \cup {VC_MAX}]
    /\ n.MAPP2L \in [MapVPN -> MapPage \cup {VC_MAX}]
    /\ n.MAP_GC_BLK \in MapBlock
    /\ n.cur_map_vpn \in MapVPN
    /\ n.map_free_blk \in MapBlock
    /\ n.cur_meta_vpn \in Page

LogTypeOK ==
    /\ gc_page \in [Bank -> Page]
    /\ place \in [LPN -> VPN \cup {VC_MAX}]
    /\ flushing \in Bank \cup {NULL}
    /\ \A b \in Bank :
        /\ DOMAIN gc_map_log[b] \subseteq Offset
        /\ \A off \in DOMAIN gc_map_log[b] : gc_map_log[b][off] \in [lpn : LPN, vpn : VPN]

\* Indexes and counters keep to the tables they belong to (the asserts of
\* get_map_vcount, map_read and map_write).
TypeOK ==
    /\ LogTypeOK
    /\ \A b \in Bank : BankTypeOK(nand[b])
    /\ MAP_MAPPING_TABLE \in [MapPage -> MapVPN \cup {VC_MAX}]
    /\ \A s \in ToSet(Slot) : SlotTypeOK(s)
    /\ num_cached \in 0 .. NUM_CACHED_MAP

\* The list from CACHE_LRU_HEAD ends, and goes through every slot in use once,
\* however pages are moved to the front, reused at the end or left there; no
\* two slots cache the same map page.
LRUHoldsCached ==
    /\ Len(LRU) = num_cached /\ IsInjective(LRU)
    /\ LRU # <<>> => cache[LRUTail].lru_next = NULL
    /\ \A s, t \in ToSet(LRU) :
            s # t /\ cache[s].map_page # VC_MAX => cache[s].map_page # cache[t].map_page

\* What map_vcount_test asserts: the valid count of a map block is the number
\* of map pages in it that MAPP2L leads to, so its collection copies them all.
MapVcountIsMapped ==
    \A b \in Bank, i \in MapBlock :
        LET vcount == nand[b].MAP_VALID_COUNT[i]
            inBlock == {p \in MapPage : /\ BankOf[p] = b /\ MAP_MAPPING_TABLE[p] # VC_MAX
                                        /\ MAP_MAPPING_TABLE[p] \div PAGES_PER_BLK = i}
        IN  /\ Cardinality(inBlock) = IF vcount = VC_MAX THEN 0 ELSE vcount
            /\ \A p \in inBlock : nand[b].MAPP2L[MAP_MAPPING_TABLE[p]] = p

\* An address is in the log of one bank at most, and once: get_map_log and the
\* erase in set_vpn take the first they find.
LoggedOnce ==
    \A b, c \in Bank : \A o \in DOMAIN gc_map_log[b], q \in DOMAIN gc_map_log[c] :
        gc_map_log[b][o].lpn = gc_map_log[c][q].lpn => b = c /\ o = q

\* Flash is programmed once between two erases: no page of a map or meta block
\* is programmed twice, and a free block marked erased (vcount VC_MAX) is.
ErasedBeforeProgram ==
    \A b \in Bank, blk \in Block :
        /\ \A page \in Page : Len(nand[b].flash[blk][page]) <= 1
        /\ blk \in ToSet(nand[b].free_list) \cup nand[b].data /\ nand[b].vcount[blk] = VC_MAX =>
                nand[b].flash[blk] = Erased
=============================================================================
