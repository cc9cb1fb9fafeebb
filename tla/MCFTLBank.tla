----------------------------- MODULE MCFTLBank -----------------------------
(***************************************************************************)
(* The model of FTLBank for TLC.                                           *)
(*                                                                         *)
(* Blocks are only compared, so states that differ in the names of blocks  *)
(* behave the same.  View names each block by its place in the lists of    *)
(* its bank: a symmetry reduction without going through all permutations.  *)
(* It also drops the spare area of pages that are not marked valid, which  *)
(* the collector never looks at.                                           *)
(***************************************************************************)
EXTENDS FTLBank, TLC

CONSTANTS b1, b2, b3, b4, b5, b6
Five == <<b1, b2, b3, b4, b5>>
Six == Five \o <<b6>>

\* Addresses are only compared too.
Symmetry == Permutations(HomeLPN) \cup Permutations(SlotLPN)

Placed(n) ==
    (IF n.GC_BLK = VC_MAX THEN <<>> ELSE <<n.GC_BLK>>)
        \o n.data_list \o n.RW_log_list \o n.victim_list \o n.free_list

Name(b, blk) ==
    LET all == Placed(nand[b]) IN CHOOSE i \in DOMAIN all : all[i] = blk

Renamed(b, v) ==
    IF v # VC_MAX /\ "block" \in DOMAIN v THEN [v EXCEPT !.block = Name(b, @)] ELSE v

RenamedPlace(v) == IF v = VC_MAX THEN v ELSE Renamed(v.bank, v)

Marked(info) ==
    <<info.vcount, info.remained_remap_cnt, [off \in info.vbitmap |-> info.spare[off]]>>

BankView(b) ==
    LET n == nand[b]
    IN  << [i \in DOMAIN Placed(n) |-> Marked(n.block_list[Placed(n)[i]])],
           n.GC_BLK = VC_MAX, Len(n.data_list), Len(n.RW_log_list), Len(n.victim_list),
           [t \in Type |-> Renamed(b, n.cur_write_vpn[t])], n.write_start,
           Renamed(b, n.cur_gc_vpn), Renamed(b, n.cur_vt_vpn), n.num_gcbuffed, n.GCbuf_lpn,
           n.writebuf, n.writebuf_index, n.remap_inbuff_cnt >>

\* The last component makes TLC work out every value of a state: it stores the
\* state as it is when the view is taken, unevaluated functions included.
View == << [b \in Bank |-> BankView(b)],
           [l \in LPN |-> RenamedPlace(vpn[l])],
           [l \in LPN |-> {RenamedPlace(c) : c \in copies[l]}],
           twrite, cur_write_bank, call, vars = vars >>
=============================================================================
