----------------------------- MODULE SHRDSystem -----------------------------
(***************************************************************************)
(* The whole stack of run_shrd_workload at the level of logical addresses: *)
(* the host (SHRDHost), the HIL's write queue, and the FTL cores           *)
(* (ATLCommand).  The queue holds back up to BUFF_THRESHOLD calls, and     *)
(* when it drains, header and remap commands overtake the data.            *)
(*                                                                         *)
(* The generator fills a page with a pattern of its o_addr.  Here the      *)
(* content also carries a version, so that a stale copy of a page differs  *)
(* from the newest one.                                                    *)
(***************************************************************************)
EXTENDS SHRDHost

CONSTANTS Version, VC_MAX, OwnCoreId, NumMaxTwrite, NumMaxRemap,
          BUFF_THRESHOLD

INSTANCE ATLCommand

VARIABLES
    atl,       \* the state of both FTL cores
    buff,      \* do_twrite's page buffer
    pending,   \* the calls in the HIL's urgent and bank queues, oldest first
    draining   \* HIL_WriteLPN is in its loop that fetches requests into the FTL

sysvars == <<hostvars, buff, atl, pending, draining>>

Padding == [o_addr |-> RSP_INVALID_LPN, version |-> RSP_INVALID_LPN]
Content(l) == [o_addr : {l}, version : Version]
Contents == {VC_MAX, Padding} \cup UNION {Content(l) : l \in LPN}

\* VC_MAX is no page's content.
ASSUME BlankIsNoContent ==
    VC_MAX \notin {Padding} \cup UNION {Content(l) : l \in LPN}

SysInit ==
    /\ Init
    /\ buff = VC_MAX
    /\ atl = ATLInit(Slot, LPN)
    /\ pending = <<>>
    /\ draining = FALSE

SentData == {i \in DOMAIN sent : sent[i].cmd = "data"}

\* A step of the host, once its calls have returned.  The buffer of a data call is
\* a page of 0xaa as padding, else a pattern of the page; its content is not read
\* between the calls.
Host ==
    /\ sent = <<>>
    /\ ~draining
    /\ Next
    /\ buff' \in IF SentData' = {} THEN {VC_MAX}
                 ELSE IF sent'[1].o_addr = RSP_INVALID_LPN THEN {Padding}
                 ELSE Content(sent'[1].o_addr)
    /\ UNCHANGED <<atl, pending, draining>>

(***************************************************************************)
(* HIL_WriteLPN, the host's next call.  Commands go to the urgent queue of *)
(* their core, data to the queue of its bank; at BUFF_THRESHOLD the urgent *)
(* queues are emptied into the FTL, then the bank queues.  Calls to        *)
(* different cores, and data for different slots, commute, so a sequence   *)
(* stands for all these queues.                                            *)
(***************************************************************************)
HIL_WriteLPN ==
    /\ sent # <<>>
    /\ ~draining
    /\ pending' = Append(pending,
                     IF SentData = {} THEN Head(sent)
                     ELSE [cmd |-> "data", t_addr |-> sent[1].t_addr, content |-> buff])
    /\ sent' = Tail(sent)
    /\ buff' = VC_MAX
    /\ draining' = (Len(pending) + 1 >= BUFF_THRESHOLD)
    /\ UNCHANGED <<pc, map_entries, redirection_map, rw_log_start_idx,
                   rw_log_new_idx, header_entry_num, remap_entry_num,
                   twrite_header, page, remap_entry, remap_cnt, remap_end, atl>>

Urgent == {i \in DOMAIN pending : pending[i].cmd # "data"}
NextCall == IF Urgent = {} THEN 1 ELSE CHOOSE i \in Urgent : \A j \in Urgent : i <= j

\* A core that spins in an assertion never returns to the HIL.
RSP_WritePage ==
    /\ draining
    /\ ~atl.stopped
    /\ atl' = Handle(atl, pending[NextCall])
    /\ pending' = SubSeq(pending, 1, NextCall - 1) \o SubSeq(pending, NextCall + 1, Len(pending))
    /\ draining' = (Len(pending) > 1)
    /\ UNCHANGED <<hostvars, buff>>

SysNext == Host \/ HIL_WriteLPN \/ RSP_WritePage

SysSpec == SysInit /\ [][SysNext]_sysvars

\* The system until the workload draws one of the two steps that break the log.
GuardedSysSpec ==
    SysInit /\ [][SysNext /\ ~SkipsLiveEntry /\ ~FillsToStart]_sysvars
-----------------------------------------------------------------------------
SysTypeOK ==
    /\ TypeOK
    /\ buff \in Contents
    /\ draining \in BOOLEAN
    /\ atl.twrites \in [Core -> Seq([addr_start : Nat, remained : Nat \ {0},
                                     o_addr : Seq(LPN \cup {RSP_INVALID_LPN})])]
    /\ atl.log \in [Slot -> Contents]
    /\ atl.home \in [LPN -> Contents]
    /\ atl.stopped \in BOOLEAN
    /\ Len(pending) <= BUFF_THRESHOLD

\* No core ever meets log data without its header, a remap of a slot without
\* data, or a command it cannot read: no assertion of the handlers fires
\* (ATLWrapper.cpp:834, 876, 1086 and 1233; the null entry at 1309).
NoAssert == ~atl.stopped

\* HOST_verify_random_workload (SHRD_host.cpp:392-457): a home address holds
\* nothing yet or the pattern of its own page, never padding or another page.
HomeHoldsOwnPage == \A l \in LPN : atl.home[l] \in Content(l) \cup {VC_MAX}

\* A header's remained is the number of pages of the write that its core has still
\* to see: those in the queue and those the host has not sent.  So a core drops a
\* header with its last page, and no header is left behind to capture the data of a
\* later write (ATLWrapper.cpp:806-815, 897-907 and 1294-1314).
IsPending(s) == \E i \in DOMAIN pending : pending[i].cmd = "data" /\ pending[i].t_addr = s
IsUnsent(s) ==
    \/ pc = "twrite" /\ s \in TwriteSlot ..
                           twrite_header.t_addr_start + Len(twrite_header.o_addr) - 1
    \/ \E i \in SentData : sent[i].t_addr = s
RemainedIsOutstanding ==
    \A core \in Core : \A i \in DOMAIN atl.twrites[core] :
        LET entry == atl.twrites[core][i]
        IN  entry.remained =
                Cardinality({s \in entry.addr_start ..
                                   entry.addr_start + Len(entry.o_addr) - 1 :
                                s % NUM_FTL_CORE = core /\ (IsPending(s) \/ IsUnsent(s))})

\* The content of log slot s: that of its data call while it is being made or is
\* in the queue.
LogContent(s) ==
    IF \E i \in SentData : sent[i].t_addr = s THEN buff
    ELSE IF IsPending(s)
    THEN (CHOOSE call \in {pending[i] : i \in DOMAIN pending} :
              call.cmd = "data" /\ call.t_addr = s).content
    ELSE atl.log[s]

\* The remaps that have been sent and that no core has applied.
Owned(call) ==
    {pair \in {call.pairs[i] : i \in DOMAIN call.pairs} :
        pair.t_addr % NUM_FTL_CORE = call.core}
PendingRemaps ==
    UNION {Owned(call) : call \in {c \in {pending[i] : i \in DOMAIN pending}
                                        \cup {sent[i] : i \in DOMAIN sent} :
                                    c.cmd = "remap"}}

\* The newest copy of a page: in the log if the redirection map says so, else at
\* its home address, which it may reach only with a remap under way.  The slot of
\* such a remap may be given to the next write, whose data the remap overtakes.
Newest(l) ==
    IF redirection_map[l] # NoSlot THEN LogContent(redirection_map[l])
    ELSE IF \E pair \in PendingRemaps : pair.o_addr = l
    THEN atl.log[(CHOOSE pair \in PendingRemaps : pair.o_addr = l).t_addr]
    ELSE atl.home[l]

Abstract == INSTANCE PageStore WITH
                store <- [l \in LPN |-> Newest(l)], Values <- Content,
                Blank <- VC_MAX

\* Log, redirection map, queue, remaps and FTL map together are the page store: a
\* read through the redirection map gives the content last written to the page.
ImplementsPageStore == Abstract!Spec
=============================================================================
