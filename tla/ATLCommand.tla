----------------------------- MODULE ATLCommand -----------------------------
(***************************************************************************)
(* How the two FTL cores (src/ATLWrapper.cpp) serve the calls of the host: *)
(* transactional write headers, log data and remap commands, down to the   *)
(* logical map.  Where the flash keeps a page is left out: log and home    *)
(* give the content that a read of a log slot or of a home address finds,  *)
(* VC_MAX if the address has no vpn.                                       *)
(*                                                                         *)
(* The handlers are functions of the state of both cores, a record         *)
(*   twrites   RW_twrite_list of each core,                                *)
(*   log, home the logical maps; an address belongs to core address % 2,   *)
(*   stopped   a core spins in RSP_ASSERT or followed a null pointer: the  *)
(*             simulator is one thread, so nothing happens after that.     *)
(***************************************************************************)
EXTENDS Integers, Sequences

CONSTANTS
    RSP_INVALID_LPN,   \* the o_addr of padding
    VC_MAX,            \* an address without a vpn
    OwnCoreId,         \* TRUE if each core is built with its own __COREID__
    TwriteEntries,     \* SHRD_TWRITE_ENTRIES: the host's remap commands follow
    NumMaxTwrite,      \* NUM_MAX_TWRITE: the core's remap commands follow
    NumMaxRemap        \* NUM_MAX_REMAP

Core == {0, 1}
NUM_FTL_CORE == 2

\* THIS_CORE is __COREID__ - 1; the firmware numbers its cores from 1, and the
\* simulator's header gives both cores 0.
COREID(core) == IF OwnCoreId THEN core + 1 ELSE 0
ThisCore(core) == COREID(core) - 1

ATLInit(slots, lpns) ==
    [twrites |-> [core \in Core |-> <<>>],
     log |-> [s \in slots |-> VC_MAX],
     home |-> [l \in lpns |-> VC_MAX],
     stopped |-> FALSE]

Stop(atl) == [atl EXCEPT !.stopped = TRUE]

(***************************************************************************)
(* twrite_header_handler: the pages of the write that this core will see   *)
(* are counted in remained; a header without any is dropped.               *)
(***************************************************************************)
\* Mutation: the odd page is never this core's.
RemainedRoundedDown(core, addr_start, io_count) == io_count \div NUM_FTL_CORE

\* Mutation: the odd page is always this core's.
RemainedRoundedUp(core, addr_start, io_count) == (io_count + 1) \div NUM_FTL_CORE

Remained(core, addr_start, io_count) ==
    IF io_count % NUM_FTL_CORE = 0 THEN io_count \div NUM_FTL_CORE
    ELSE io_count \div NUM_FTL_CORE
            + (IF addr_start % NUM_FTL_CORE = ThisCore(core) THEN 1 ELSE 0)

TwriteHeader(atl, call) ==
    LET remained == Remained(call.core, call.t_addr_start, Len(call.o_addr))
        entry == [addr_start |-> call.t_addr_start, o_addr |-> call.o_addr,
                  remained |-> remained]
    IN  IF Len(atl.twrites[call.core]) = 2 * NumMaxTwrite THEN Stop(atl)
        ELSE IF remained = 0 THEN atl
        ELSE [atl EXCEPT !.twrites[call.core] = Append(@, entry)]

(***************************************************************************)
(* RSP_WritePage on a log address: the header gives the page's o_addr, and *)
(* goes when all its pages have come.  Padding leaves the slot unmapped.   *)
(* (A slot is written again only after a turn of the log, when its old     *)
(* copy has long left the write buffer.)                                   *)
(***************************************************************************)
Address(core, t_addr) ==
    (t_addr \div NUM_FTL_CORE) * NUM_FTL_CORE + ThisCore(core)

\* The position in list of the first header that covers addr, 0 if there is none.
FindTwrite(list, addr) ==
    LET hits == {i \in DOMAIN list :
                    /\ addr >= list[i].addr_start
                    /\ addr < list[i].addr_start + Len(list[i].o_addr)}
    IN  IF hits = {} THEN 0 ELSE CHOOSE i \in hits : \A j \in hits : i <= j

\* Mutation: the header of a finished write stays in the list.
RetireNever(list, i) == [list EXCEPT ![i].remained = @ - 1]

Retire(list, i) ==
    IF list[i].remained = 1 THEN SubSeq(list, 1, i - 1) \o SubSeq(list, i + 1, Len(list))
                            ELSE [list EXCEPT ![i].remained = @ - 1]

TwriteData(atl, call) ==
    LET core == call.t_addr % NUM_FTL_CORE
        addr == Address(core, call.t_addr)
        list == atl.twrites[core]
        i == FindTwrite(list, addr)
    IN  IF i = 0 THEN Stop(atl)
        ELSE LET oLPN == list[i].o_addr[addr - list[i].addr_start + 1]
             IN  [atl EXCEPT
                    !.twrites[core] = Retire(list, i),
                    !.log[call.t_addr] =
                        IF oLPN = RSP_INVALID_LPN THEN VC_MAX ELSE call.content]

(***************************************************************************)
(* remap_handler and __do_remap: the vpn of each log slot this core owns   *)
(* becomes that of its home address.  A slot without vpn is asserted away: *)
(* "if not, twrite data is not arrived yet".                               *)
(***************************************************************************)
\* Mutation: the slot's vpn is read after it was set to VC_MAX.
RemapPairTooLate(core, atl, pair) ==
    IF pair.t_addr % NUM_FTL_CORE # ThisCore(core) THEN atl
    ELSE [atl EXCEPT !.log[pair.t_addr] = VC_MAX, !.home[pair.o_addr] = VC_MAX]

RemapPair(core, atl, pair) ==
    IF pair.t_addr % NUM_FTL_CORE # ThisCore(core) THEN atl
    ELSE [atl EXCEPT !.log[pair.t_addr] = VC_MAX,
                     !.home[pair.o_addr] = atl.log[pair.t_addr],
                     !.stopped = @ \/ atl.log[pair.t_addr] = VC_MAX]

RemapCommand(atl, call) ==
    LET after[n \in 0 .. Len(call.pairs)] ==
            IF n = 0 THEN atl ELSE RemapPair(call.core, after[n - 1], call.pairs[n])
    IN  after[Len(call.pairs)]

(***************************************************************************)
(* RSP_WritePage's choice of a handler.  A command address tells only its  *)
(* position in the command area, where the host puts remap commands after  *)
(* its TwriteEntries headers and the core after NumMaxTwrite of them; a    *)
(* remap read as a header has its remap_count for an address and asserts.  *)
(***************************************************************************)
CmdIndex(call) ==
    IF call.cmd = "header" THEN call.entry ELSE TwriteEntries + call.entry

Handle(atl, call) ==
    IF atl.stopped THEN atl
    ELSE IF call.cmd = "data" THEN TwriteData(atl, call)
    ELSE IF CmdIndex(call) >= NumMaxTwrite + NumMaxRemap THEN Stop(atl)
    ELSE IF (call.cmd = "remap") # (CmdIndex(call) >= NumMaxTwrite) THEN Stop(atl)
    ELSE IF call.cmd = "remap" THEN RemapCommand(atl, call)
    ELSE TwriteHeader(atl, call)
=============================================================================
