------------------------------ MODULE SHRDHost ------------------------------
(***************************************************************************)
(* The host side of the simulator (src/SHRD_host.cpp): small random writes *)
(* are packed into a circular log of pages (the RW log), a redirection map *)
(* remembers which log slot holds the newest copy of a logical page, and   *)
(* remap commands later give logged pages back to their home addresses,    *)
(* which frees log slots.                                                  *)
(*                                                                         *)
(* The simulator is one thread, so a call of HOST_gen_random_workload runs *)
(* to its end; the model cuts it at the iterations of its loops, which is  *)
(* where the host calls HIL_WriteLPN.  The variable sent holds the calls   *)
(* made by the last step, for a device module to serve.                    *)
(*                                                                         *)
(* Log addresses are offsets from SHRD_RW_LOG_START_IN_PAGE, an even       *)
(* number, so the core (address % 2) of a slot is the parity of its offset.*)
(***************************************************************************)
EXTENDS Integers, Sequences, FiniteSets

CONSTANTS
    LPN,              \* logical pages the workload writes (LPN_RANGE)
    RSP_INVALID_LPN,  \* the o_addr of a padding page
    LogSize,          \* SHRD_RW_LOG_SIZE_IN_PAGE
    MinLogging,       \* SHRD_MIN_RW_LOGGING_IO_SIZE_IN_PAGE
    MaxTwritePage,    \* SHRD_MAX_TWRITE_IO_SIZE_IN_PAGE
    MaxTwriteSector,  \* SHRD_MAX_TWRITE_IO_SIZE_IN_SECTOR
    NumTwriteEntry,   \* SHRD_NUM_MAX_TWRITE_ENTRY
    RemapThreshold,   \* remap_threshold
    RemapSize,        \* remap_size
    NumRemapEntry,    \* SHRD_NUM_MAX_REMAP_ENTRY
    TwriteEntries     \* SHRD_TWRITE_ENTRIES, also the ring of remap commands

\* What the constants of SHRD_host.h satisfy: 32768, 128, 128, 1024, 128,
\* 20480, 16384, 511 and 32 in the order above.
ASSUME HostConstants ==
    /\ LPN \subseteq Nat
    /\ RSP_INVALID_LPN \notin Nat
    /\ {LogSize, MinLogging, MaxTwritePage, MaxTwriteSector, NumTwriteEntry,
        RemapThreshold, RemapSize, NumRemapEntry, TwriteEntries} \subseteq Nat \ {0}
    /\ MaxTwritePage <= MinLogging
    /\ MinLogging <= LogSize
    /\ RemapSize <= RemapThreshold

Slot == 0 .. LogSize - 1
NoSlot == -1        \* "not in redirection_map"

VARIABLES
    pc,               \* where the single thread of the host is
    map_entries,      \* map_entries[offset]; NoMap stands for SHRD_INVALID_MAP
    redirection_map,  \* o_addr -> offset of its entry in map_entries
    rw_log_start_idx,
    rw_log_new_idx,
    header_entry_num,
    remap_entry_num,
    twrite_header,    \* do_twrite's header: t_addr_start, o_addr
    page,             \* do_twrite's i, from 1: the page it sends next
    remap_entry,      \* __do_remap's command under construction: <<t, o>> pairs
    remap_cnt,        \* __do_remap's cnt - idx, the entries still to collect
    remap_end,        \* __do_remap's end_idx
    sent              \* the HIL_WriteLPN calls of the last step

hostvars == <<pc, map_entries, redirection_map, rw_log_start_idx, rw_log_new_idx,
              header_entry_num, remap_entry_num, twrite_header, page,
              remap_entry, remap_cnt, remap_end, sent>>

\* The addresses of an entry are read only while its flags are not
\* SHRD_INVALID_MAP, and its t_addr is then its own index.
NoMap == [flags |-> "INVALID", o_addr |-> RSP_INVALID_LPN]
ValidMap(l) == [flags |-> "VALID", o_addr |-> l]
RemappingMap(l) == [flags |-> "REMAPPING", o_addr |-> l]
MapEntry == {NoMap} \cup {ValidMap(l) : l \in LPN} \cup {RemappingMap(l) : l \in LPN}

IsValid(s) == map_entries[s].flags = "VALID"

MinOf(a, b) == IF a <= b THEN a ELSE b
Wrap(i) == IF i >= LogSize THEN i - LogSize ELSE i
\* Mutation: the ring of command addresses is never reset.
NextEntryUnbounded(n) == n + 1
NextEntry(n) == IF n + 1 = TwriteEntries THEN 0 ELSE n + 1

Init ==
    /\ pc = "ready"
    /\ map_entries = [s \in Slot |-> NoMap]
    /\ redirection_map = [l \in LPN |-> NoSlot]
    /\ rw_log_start_idx = 0
    /\ rw_log_new_idx = 0
    /\ header_entry_num = 0
    /\ remap_entry_num = 0
    /\ twrite_header = [t_addr_start |-> 0, o_addr |-> <<>>]
    /\ page = 1
    /\ remap_entry = <<>>
    /\ remap_cnt = 0
    /\ remap_end = 0
    /\ sent = <<>>
-----------------------------------------------------------------------------
(***************************************************************************)
(* HOST_gen_random_workload: is there room for a transactional write?      *)
(***************************************************************************)
Linear == rw_log_new_idx >= rw_log_start_idx

RoomAtEnd == Linear /\ LogSize - rw_log_new_idx >= MinLogging
\* Mutation: the write goes back to slot 0 without a look at the log's start.
RoomAfterWrapUnchecked == Linear /\ LogSize - rw_log_new_idx < MinLogging
RoomAfterWrap ==
    /\ Linear
    /\ LogSize - rw_log_new_idx < MinLogging
    /\ rw_log_start_idx >= MaxTwritePage
RoomBeforeStart == ~Linear /\ rw_log_start_idx - rw_log_new_idx >= MinLogging
NoRoom == ~RoomAtEnd /\ ~RoomAfterWrap /\ ~RoomBeforeStart

\* The address the transactional write goes to and max_packed_rw.  At the end
\* of the log the limit is the constant in sectors, not the one in pages.
TwriteAddr == IF RoomAfterWrap THEN 0 ELSE rw_log_new_idx
MaxPacked ==
    IF RoomAtEnd THEN MinOf(LogSize - rw_log_new_idx, MaxTwriteSector)
    ELSE IF RoomAfterWrap THEN MaxTwritePage
    ELSE MinOf(rw_log_start_idx - rw_log_new_idx, MaxTwritePage)

(***************************************************************************)
(* do_twrite's packing loop over random pages: a page whose parity is not  *)
(* that of the log address is preceded by one padding page.  num is        *)
(* num_packing; it is compared before the padding is counted, so a packed  *)
(* write may have num + 1 pages.                                           *)
(***************************************************************************)
\* Mutation: no padding, whatever the parity of the page.
PackedUnaligned(o_addr, addr, max, num) ==
    /\ \A i \in DOMAIN o_addr : o_addr[i] # RSP_INVALID_LPN
    /\ Len(o_addr) = MinOf(max, num)

PackedBy(o_addr, addr, max, num) ==
    /\ \A i \in DOMAIN o_addr :
        /\ o_addr[i] = RSP_INVALID_LPN =>
               /\ i + 1 <= Len(o_addr) /\ o_addr[i + 1] # RSP_INVALID_LPN
               /\ i <= num /\ i + 1 <= max
        /\ o_addr[i] # RSP_INVALID_LPN =>
               /\ o_addr[i] % 2 = (addr + i - 1) % 2
               /\ i <= max
               /\ \/ i <= num
                  \/ i > 1 /\ o_addr[i - 1] = RSP_INVALID_LPN
    /\ Len(o_addr) + 2 > MinOf(max, num + 1)

Packings(addr, max) ==
    {o_addr \in UNION {[1 .. n -> LPN \cup {RSP_INVALID_LPN}] :
                       n \in 0 .. MinOf(max, NumTwriteEntry)} :
        \E num \in 0 .. NumTwriteEntry - 1 : PackedBy(o_addr, addr, max, num)}

HeaderCmd(core, o_addr) ==
    [cmd |-> "header", core |-> core, entry |-> header_entry_num,
     t_addr_start |-> TwriteAddr, o_addr |-> o_addr]

BeginTwrite ==
    /\ pc = "ready"
    /\ ~NoRoom
    /\ \E o_addr \in Packings(TwriteAddr, MaxPacked) :
        /\ twrite_header' = [t_addr_start |-> TwriteAddr, o_addr |-> o_addr]
        /\ sent' = <<HeaderCmd(0, o_addr), HeaderCmd(1, o_addr)>>
    /\ rw_log_new_idx' = TwriteAddr
    /\ header_entry_num' = NextEntry(header_entry_num)
    /\ page' = 1
    /\ pc' = "twrite"
    /\ UNCHANGED <<map_entries, redirection_map, rw_log_start_idx,
                   remap_entry_num, remap_entry, remap_cnt, remap_end>>
(***************************************************************************)
(* do_twrite's data loop, one page at a time.  TwriteSlot is offset.       *)
(***************************************************************************)
TwriteSlot == twrite_header.t_addr_start + page - 1
TwriteOAddr == twrite_header.o_addr[page]
\* Mutation: the buffer still holds the page sent before.
DataCmdStale ==
    [cmd |-> "data", t_addr |-> TwriteSlot,
     o_addr |-> twrite_header.o_addr[IF page = 1 THEN 1 ELSE page - 1]]
DataCmd == [cmd |-> "data", t_addr |-> TwriteSlot, o_addr |-> TwriteOAddr]

\* Mutation: the entry of the replaced copy stays VALID.
RedirectOnly(s, l) ==
    /\ map_entries' = [map_entries EXCEPT ![s] = ValidMap(l)]
    /\ redirection_map' = [redirection_map EXCEPT ![l] = s]

\* Lines 144-152: the slot becomes the newest copy of l, and the entry of the
\* copy it replaces is cleared, whichever slot that entry is in.
Redirect(s, l) ==
    LET old == redirection_map[l]
        set == [map_entries EXCEPT ![s] = ValidMap(l)]
    IN  /\ map_entries' = IF old = NoSlot THEN set ELSE [set EXCEPT ![old] = NoMap]
        /\ redirection_map' = [redirection_map EXCEPT ![l] = s]

WritePadding ==
    /\ pc = "twrite"
    /\ page <= Len(twrite_header.o_addr)
    /\ TwriteOAddr = RSP_INVALID_LPN
    /\ sent' = <<DataCmd>>
    /\ page' = page + 1
    /\ UNCHANGED <<pc, map_entries, redirection_map, rw_log_start_idx,
                   rw_log_new_idx, header_entry_num, remap_entry_num,
                   twrite_header, remap_entry, remap_cnt, remap_end>>

WritePage ==
    /\ pc = "twrite"
    /\ page <= Len(twrite_header.o_addr)
    /\ TwriteOAddr # RSP_INVALID_LPN
    /\ ~IsValid(TwriteSlot)
    /\ sent' = <<DataCmd>>
    /\ Redirect(TwriteSlot, TwriteOAddr)
    /\ page' = page + 1
    /\ UNCHANGED <<pc, rw_log_start_idx, rw_log_new_idx, header_entry_num,
                   remap_entry_num, twrite_header, remap_entry, remap_cnt,
                   remap_end>>

\* The slot still holds a VALID entry: its addresses are already overwritten
\* when the host prints "ERROR on packing RW" and waits in getchar().
PackingError ==
    /\ pc = "twrite"
    /\ page <= Len(twrite_header.o_addr)
    /\ TwriteOAddr # RSP_INVALID_LPN
    /\ IsValid(TwriteSlot)
    /\ sent' = <<DataCmd>>
    /\ map_entries' = [map_entries EXCEPT ![TwriteSlot] = ValidMap(TwriteOAddr)]
    /\ pc' = "packing_error"
    /\ UNCHANGED <<redirection_map, rw_log_start_idx, rw_log_new_idx,
                   header_entry_num, remap_entry_num, twrite_header, page,
                   remap_entry, remap_cnt, remap_end>>

\* The operator answers the getchar() of a packing error.
ResumePacking ==
    /\ pc = "packing_error"
    /\ Redirect(TwriteSlot, TwriteOAddr)
    /\ page' = page + 1
    /\ pc' = "twrite"
    /\ sent' = <<>>
    /\ UNCHANGED <<rw_log_start_idx, rw_log_new_idx, header_entry_num,
                   remap_entry_num, twrite_header, remap_entry, remap_cnt,
                   remap_end>>

EndTwrite ==
    /\ pc = "twrite"
    /\ page > Len(twrite_header.o_addr)
    /\ rw_log_new_idx' = twrite_header.t_addr_start + Len(twrite_header.o_addr)
    /\ twrite_header' = [t_addr_start |-> 0, o_addr |-> <<>>]
    /\ page' = 1
    /\ pc' = "ready"
    /\ sent' = <<>>
    /\ UNCHANGED <<map_entries, redirection_map, rw_log_start_idx,
                   header_entry_num, remap_entry_num, remap_entry, remap_cnt,
                   remap_end>>
-----------------------------------------------------------------------------
(***************************************************************************)
(* do_remap and __do_remap.  A remap never crosses the end of the log.     *)
(***************************************************************************)
\* Mutation: the free part of a wrapped log is taken for the used one.
UsedSizeSwapped ==
    IF Linear THEN rw_log_new_idx - rw_log_start_idx
              ELSE rw_log_start_idx - rw_log_new_idx

UsedSize ==
    IF Linear THEN rw_log_new_idx - rw_log_start_idx
              ELSE LogSize - rw_log_start_idx + rw_log_new_idx

RemapWindowSize ==
    MinOf(IF Linear THEN UsedSize ELSE LogSize - rw_log_start_idx, RemapSize)

ValidIn(lo, hi) == {s \in lo .. hi : s \in Slot /\ IsValid(s)}

\* do_remap finds the log below its threshold and returns 1, which its caller
\* holds for impossible ("should do remap, but didn't") and waits in getchar().
RemapRefused ==
    /\ pc = "ready"
    /\ NoRoom
    /\ UsedSize <= RemapThreshold
    /\ pc' = "remap_refused"
    /\ sent' = <<>>
    /\ UNCHANGED <<map_entries, redirection_map, rw_log_start_idx,
                   rw_log_new_idx, header_entry_num, remap_entry_num,
                   twrite_header, page, remap_entry, remap_cnt, remap_end>>

ResumeRefused ==
    /\ pc = "remap_refused"
    /\ pc' = "ready"
    /\ sent' = <<>>
    /\ UNCHANGED <<map_entries, redirection_map, rw_log_start_idx,
                   rw_log_new_idx, header_entry_num, remap_entry_num,
                   twrite_header, page, remap_entry, remap_cnt, remap_end>>

\* Mutation: a window without VALID entries is not left.
RemapNothingStays ==
    /\ pc = "ready"
    /\ NoRoom
    /\ UsedSize > RemapThreshold
    /\ ValidIn(rw_log_start_idx, rw_log_start_idx + RemapWindowSize - 1) = {}
    /\ sent' = <<>>
    /\ UNCHANGED <<pc, map_entries, redirection_map, rw_log_start_idx,
                   rw_log_new_idx, header_entry_num, remap_entry_num,
                   twrite_header, page, remap_entry, remap_cnt, remap_end>>

\* No VALID entry in the window: the log start moves on without a command.
\* idx is already the window's size when 1 is added to it.
RemapNothing ==
    /\ pc = "ready"
    /\ NoRoom
    /\ UsedSize > RemapThreshold
    /\ ValidIn(rw_log_start_idx, rw_log_start_idx + RemapWindowSize - 1) = {}
    /\ rw_log_start_idx' = Wrap(rw_log_start_idx + RemapWindowSize + 1)
    /\ sent' = <<>>
    /\ UNCHANGED <<pc, map_entries, redirection_map, rw_log_new_idx,
                   header_entry_num, remap_entry_num, twrite_header, page,
                   remap_entry, remap_cnt, remap_end>>

BeginRemap ==
    /\ pc = "ready"
    /\ NoRoom
    /\ UsedSize > RemapThreshold
    /\ LET valid == ValidIn(rw_log_start_idx, rw_log_start_idx + RemapWindowSize - 1)
       IN  valid # {} /\ remap_cnt' = Cardinality(valid)
    /\ remap_end' = rw_log_start_idx + RemapWindowSize - 1
    /\ remap_entry' = <<>>
    /\ pc' = "remap"
    /\ sent' = <<>>
    /\ UNCHANGED <<map_entries, redirection_map, rw_log_start_idx,
                   rw_log_new_idx, header_entry_num, remap_entry_num,
                   twrite_header, page>>

\* Mutation: the last slot of the window is left out.
RemappableBeforeEnd(l) ==
    LET s == redirection_map[l]
    IN  s # NoSlot /\ IsValid(s) /\ s \in rw_log_start_idx .. remap_end - 1

\* A redirected page whose copy is VALID and in the window.
Remappable(l) ==
    LET s == redirection_map[l]
    IN  s # NoSlot /\ IsValid(s) /\ s \in rw_log_start_idx .. remap_end

\* std::map iterates in key order, so the next hit is the least one left: the
\* hits already visited are REMAPPING or erased.
NextRemappable(l) ==
    /\ l \in LPN
    /\ Remappable(l)
    /\ \A k \in LPN : k < l => ~Remappable(k)

RemapCmd(core) ==
    [cmd |-> "remap", core |-> core, entry |-> remap_entry_num, pairs |-> remap_entry]

\* Mutation: the entries of the command stay in state REMAPPING.
SendRemapKeepingFlags ==
    /\ sent' = <<RemapCmd(0), RemapCmd(1)>>
    /\ remap_entry_num' = NextEntry(remap_entry_num)
    /\ redirection_map' =
           [l \in LPN |-> IF \E i \in DOMAIN remap_entry : remap_entry[i].o_addr = l
                          THEN NoSlot ELSE redirection_map[l]]
    /\ UNCHANGED map_entries
    /\ remap_entry' = <<>>

\* Mutation: the remapped pages stay in the redirection map.
SendRemapKeepingPages ==
    /\ sent' = <<RemapCmd(0), RemapCmd(1)>>
    /\ remap_entry_num' = NextEntry(remap_entry_num)
    /\ UNCHANGED redirection_map
    /\ map_entries' =
           [s \in Slot |-> IF \E i \in DOMAIN remap_entry : remap_entry[i].t_addr = s
                           THEN NoMap ELSE map_entries[s]]
    /\ remap_entry' = <<>>

\* The command goes to both cores; then its pages leave the redirection map.
SendRemap ==
    /\ sent' = <<RemapCmd(0), RemapCmd(1)>>
    /\ remap_entry_num' = NextEntry(remap_entry_num)
    /\ redirection_map' =
           [l \in LPN |-> IF \E i \in DOMAIN remap_entry : remap_entry[i].o_addr = l
                          THEN NoSlot ELSE redirection_map[l]]
    /\ map_entries' =
           [s \in Slot |-> IF \E i \in DOMAIN remap_entry : remap_entry[i].t_addr = s
                           THEN NoMap ELSE map_entries[s]]
    /\ remap_entry' = <<>>

RemapSendFull ==
    /\ pc = "remap"
    /\ remap_cnt > 0
    /\ Len(remap_entry) = NumRemapEntry
    /\ \E l \in LPN : Remappable(l)
    /\ SendRemap
    /\ UNCHANGED <<pc, rw_log_start_idx, rw_log_new_idx, header_entry_num,
                   twrite_header, page, remap_cnt, remap_end>>

RemapCollect ==
    /\ pc = "remap"
    /\ remap_cnt > 0
    /\ Len(remap_entry) < NumRemapEntry
    /\ \E l \in LPN :
        /\ NextRemappable(l)
        /\ LET s == redirection_map[l]
               o == map_entries[s].o_addr
           IN  /\ remap_entry' = Append(remap_entry, [t_addr |-> s, o_addr |-> o])
               /\ map_entries' = [map_entries EXCEPT ![s] = RemappingMap(o)]
    /\ remap_cnt' = remap_cnt - 1
    /\ sent' = <<>>
    /\ UNCHANGED <<pc, redirection_map, rw_log_start_idx, rw_log_new_idx,
                   header_entry_num, remap_entry_num, twrite_header, page,
                   remap_end>>

\* Mutation: one slot too many is freed, as in RemapNothing.
FreeWindowAndOne ==
    /\ rw_log_start_idx' = Wrap(remap_end + 2)
    /\ pc' = "ready"
    /\ UNCHANGED <<rw_log_new_idx, header_entry_num, twrite_header, page,
                   remap_cnt, remap_end>>

\* Lines 255-257, after the loop.  The loop also ends when the iterator runs out
\* before cnt entries are found; RemapFindsAll says that it never does, and a
\* state that broke it would be a deadlock of this model.
FreeWindow ==
    /\ rw_log_start_idx' = Wrap(remap_end + 1)
    /\ pc' = "ready"
    /\ UNCHANGED <<rw_log_new_idx, header_entry_num, twrite_header, page,
                   remap_cnt, remap_end>>

RemapSendLast ==
    /\ pc = "remap"
    /\ remap_cnt = 0
    /\ SendRemap
    /\ FreeWindow

-----------------------------------------------------------------------------
Twrite == BeginTwrite \/ WritePadding \/ WritePage \/ PackingError \/ EndTwrite
Remap == RemapNothing \/ BeginRemap \/ RemapSendFull \/ RemapCollect
            \/ RemapSendLast
Refused == RemapRefused \/ ResumeRefused

Next == Twrite \/ ResumePacking \/ Remap \/ Refused

Spec == Init /\ [][Next]_hostvars

\* run_shrd_workload calls HOST_gen_random_workload until enough is written
\* (SHRD_sim.cpp:522-531), and a call without room writes nothing, so a step that
\* is not an operator's is taken.  Nobody need answer a getchar().
FairSpec == Spec /\ WF_hostvars(Twrite \/ Remap)

(***************************************************************************)
(* Two rare steps break the log: a remap window without VALID entries is   *)
(* left by one slot too many, over an entry that is still VALID; and a     *)
(* write fills the log up to its start, after which rw_log_new_idx equals  *)
(* rw_log_start_idx, the host's picture of an empty log.  NoSkip leaves    *)
(* out the first, Guarded both: the log as it behaves until the workload   *)
(* draws such a case.                                                      *)
(***************************************************************************)
SkipsLiveEntry ==
    RemapNothing /\ IsValid(Wrap(rw_log_start_idx + RemapWindowSize))
FillsToStart ==
    /\ BeginTwrite
    /\ rw_log_new_idx' < rw_log_start_idx
    /\ rw_log_new_idx' + Len(twrite_header'.o_addr) = rw_log_start_idx

NoSkip == Init /\ [][Next /\ ~SkipsLiveEntry]_hostvars
Guarded == Init /\ [][Next /\ ~SkipsLiveEntry /\ ~FillsToStart]_hostvars
-----------------------------------------------------------------------------
TypeOK ==
    /\ pc \in {"ready", "twrite", "packing_error", "remap", "remap_refused"}
    /\ map_entries \in [Slot -> MapEntry]
    /\ redirection_map \in [LPN -> Slot \cup {NoSlot}]
    /\ rw_log_start_idx \in Slot
    /\ rw_log_new_idx \in 0 .. LogSize
    /\ header_entry_num \in 0 .. TwriteEntries - 1
    /\ remap_entry_num \in 0 .. TwriteEntries - 1
    /\ twrite_header.t_addr_start \in 0 .. LogSize
    /\ twrite_header.o_addr \in Seq(LPN \cup {RSP_INVALID_LPN})
    /\ twrite_header.t_addr_start + Len(twrite_header.o_addr) <= LogSize
    /\ page \in 1 .. Len(twrite_header.o_addr) + 1
    /\ remap_entry \in Seq([t_addr : Slot, o_addr : LPN])
    /\ remap_cnt \in 0 .. LogSize
    /\ remap_end \in Slot

\* Every VALID entry is the one the redirection map gives for its page, so no
\* logged copy is ever forgotten; while a packing error waits for its answer the
\* entry being packed is not yet in the map.  (Lines 137-152 and 218-222.)
ValidIsRedirected ==
    \A s \in Slot :
        IsValid(s) /\ ~(pc = "packing_error" /\ s = TwriteSlot)
            => redirection_map[map_entries[s].o_addr] = s

\* A remap finds in the redirection map every entry that its first loop counted
\* VALID, so the command under construction is always sent (lines 174-252).
RemapFindsAll ==
    pc = "remap" /\ remap_cnt > 0 => \E l \in LPN : Remappable(l)

\* The entries in state REMAPPING are those of the command under construction:
\* no entry stays in that state when __do_remap returns (lines 218-228).
RemappingIsPending ==
    {s \in Slot : map_entries[s].flags = "REMAPPING"} =
        {remap_entry[i].t_addr : i \in DOMAIN remap_entry}

\* The padding keeps a page and its log slot on one core, which is the only core
\* that applies its remap (lines 68-82).
SameCore ==
    \A s \in Slot : map_entries[s] # NoMap => map_entries[s].o_addr % 2 = s % 2

\* The redirection map leads to an entry for the page it was asked for.  Holds
\* as long as no write is packed over a VALID entry (lines 137-152): that leaves
\* the overwritten page redirected to another page's entry.
RedirectionLeadsToPage ==
    \A l \in LPN :
        LET s == redirection_map[l]
        IN  s # NoSlot /\ ~(pc = "packing_error" /\ s = TwriteSlot)
                => map_entries[s] \in {ValidMap(l), RemappingMap(l)}

\* "should do remap, but didn't" (lines 309 and 325) is never reached.
RemapNeverRefused == pc # "remap_refused"

\* Every VALID entry lies between the log's start and its end, where a remap
\* will find it and no write will be packed over it; the pages of a write that is
\* being packed lie past the end (lines 159, 181, 255 and 294-329).
InUse(s) ==
    IF Linear THEN s \in rw_log_start_idx .. rw_log_new_idx - 1
              ELSE s >= rw_log_start_idx \/ s < rw_log_new_idx
BeingPacked(s) ==
    /\ pc \in {"twrite", "packing_error"}
    /\ s \in twrite_header.t_addr_start .. TwriteSlot - 1
LiveInWindow ==
    \A s \in Slot : IsValid(s) => InUse(s) \/ BeingPacked(s)

\* "ERROR on packing RW" (line 141) is never printed.
NoPackingError == pc # "packing_error"

\* The log never wedges: remaps make room for another transactional write.
RoomIsMade == pc = "ready" ~> pc = "twrite"
=============================================================================
