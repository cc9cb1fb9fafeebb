----------------------------- MODULE MCMapCache -----------------------------
(***************************************************************************)
(* The model of MapCache for TLC.  View names the blocks of a bank by      *)
(* their place in its tables and the slots by their place in the LRU list. *)
(* Of the places of an address it keeps whether there is one and whether   *)
(* get_vpn would find it: marks may be swapped, and a copy that get_vpn    *)
(* would not find is written before it is read.                            *)
(***************************************************************************)
EXTENDS MapCache, TLC
LOCAL INSTANCE SequencesExt

CONSTANTS k1, k2, k3, k4, k5, k6, c1, c2

SixBlocks == <<k1, k2, k3, k4, k5, k6>>
TwoSlots == <<c1, c2>>
\* One address per map page.
Itself == [l \in LPN |-> l]
OneBank == [p \in MapPage |-> 0]

\* Of a page of the flash, how often it was programmed.
Programs(n, blk) == [page \in Page |-> Len(n.flash[blk][page])]

BankView(b) ==
    LET n == nand[b]
    IN  << n.MAP_VALID_COUNT, n.MAP_GC_BLK, n.cur_map_vpn, n.map_start, n.map_free_blk,
           [i \in MapBlock |-> Programs(n, n.map_blk_offset[i])],
           n.cur_meta_vpn, n.meta_start, Programs(n, n.meta_blk), Cardinality(n.data),
           [i \in DOMAIN n.free_list |->
                IF n.vcount[n.free_list[i]] = 0 THEN 0 ELSE Programs(n, n.free_list[i])],
           gc_page[b], Cardinality(DOMAIN gc_map_log[b]) >>

\* What a state says of a map page; lru is the list of cached pages.
PageView(p, lru) ==
    LET i == Found(p)
        slot == cache[lru[i]]
        v == MAP_MAPPING_TABLE[p]
        inFlash == map_read(nand, MAP_MAPPING_TABLE, p)
    IN  << v, v # VC_MAX => nand[BankOf[p]].MAPP2L[v] = p, i, place[p] = VC_MAX,
           Value(p) = place[p], BanksLogging(p),
           IF i = 0 THEN NULL
           ELSE << slot.dirty, slot.dirty \/ slot.data = inFlash >> >>

\* Two map pages that are written to may be swapped.  The comparison of vars
\* makes TLC evaluate the functions of a state at once.
View ==
    LET lru == LRU
    IN  << vars = vars, [b \in Bank |-> BankView(b)], num_cached, flushing, Len(lru),
           {PageView(p, lru) : p \in Updated}, [p \in LPN \ Updated |-> PageView(p, lru)] >>
=============================================================================
