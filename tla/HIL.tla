-------------------------------- MODULE HIL ---------------------------------
(***************************************************************************)
(* The host interface layer (src/HILWrapper.cpp).  It gathers 4KB writes   *)
(* in 8KB buffers, two of a bank to a buffer, and holds them back until    *)
(* BUFF_THRESHOLD requests are there; then it hands all of them to the two *)
(* FTL cores, urgent requests (header and remap commands) first.  A buffer *)
(* whose data the FTL keeps waits until the flash program that writes it   *)
(* calls HIL_BuffFree, from inside RSP_WritePage.                          *)
(*                                                                         *)
(* The FTL is seen from here only: which buffers it keeps and which ones   *)
(* it frees.  The free buffers are interchangeable and the waiting ones    *)
(* are looked up by address, so these two queues are sets.                 *)
(***************************************************************************)
EXTENDS Integers, Sequences, FiniteSets
LOCAL INSTANCE SequencesExt

CONSTANTS
    Buffer,              \* the NUM_BUFF buffers
    LPN,                 \* the lpns of the calls
    RSP_INVALID_LPN,
    SPECIAL_LPN_START,   \* in-core lpns from here on are commands
    NUM_PERBANK_QUEUE,
    BUFF_THRESHOLD,
    NumPlane,            \* RSP_NUM_PLANE: the buffers one program writes
    MaxKept              \* buffers a core's write buffers keep between calls

Core == {0, 1}
NUM_FTL_CORE == 2
Bank == 0 .. NUM_PERBANK_QUEUE - 1
Half == {0, 1}

\* 2560 buffers; 32; and with 8 banks, 3 write types and 4 planes, 96.
ASSUME HILConstants ==
    /\ LPN \subseteq Nat /\ RSP_INVALID_LPN \notin Nat
    /\ SPECIAL_LPN_START \in Nat
    /\ {NUM_PERBANK_QUEUE, BUFF_THRESHOLD, NumPlane, MaxKept} \subseteq Nat \ {0}
    /\ IsFiniteSet(Buffer)
    /\ Cardinality(Buffer) >= BUFF_THRESHOLD + 2 * MaxKept

VARIABLES
    free_buff_queue,
    waiting_buff_queue,
    urgent_queue,              \* by core
    bank_queue,                \* by core and bank
    lpn,                       \* LPN[2] of each buffer
    partial,                   \* the buffer's second half is still to be filled
    on_going_urgent_request,
    on_going_normal_request,
    pc,                        \* the call in progress and its loop's branch
    core_iter,                 \* the core whose turn it is in that loop
    kept                       \* by core, the buffers in the FTL's write buffers

queues == <<free_buff_queue, waiting_buff_queue, urgent_queue, bank_queue>>
counters == <<on_going_urgent_request, on_going_normal_request>>
hilvars == <<queues, lpn, partial, counters, pc, core_iter, kept>>

CoreOf(l) == l % NUM_FTL_CORE
InCore(l) == l \div NUM_FTL_CORE
IsCommand(l) == InCore(l) >= SPECIAL_LPN_START
BankOf(l) == InCore(l) % NUM_PERBANK_QUEUE

\* HIL_buff_init leaves the partial flag alone.
NoLPN == [half \in Half |-> RSP_INVALID_LPN]

Init ==
    /\ free_buff_queue = Buffer
    /\ waiting_buff_queue = {}
    /\ urgent_queue = [core \in Core |-> <<>>]
    /\ bank_queue = [core \in Core |-> [bank \in Bank |-> <<>>]]
    /\ lpn = [b \in Buffer |-> NoLPN]
    /\ partial = [b \in Buffer |-> FALSE]
    /\ on_going_urgent_request = 0
    /\ on_going_normal_request = 0
    /\ pc = "idle"
    /\ core_iter = 0
    /\ kept = [core \in Core |-> {}]
-----------------------------------------------------------------------------
(***************************************************************************)
(* HIL_WriteLPN up to its loop: the call's 4KB go to a buffer.             *)
(***************************************************************************)
\* At the threshold the call goes on into its loop.
CheckThreshold(on_going_request) ==
    pc' = IF on_going_request >= BUFF_THRESHOLD THEN "drain" ELSE "idle"

WriteUrgent(l) ==
    /\ pc = "idle"
    /\ IsCommand(l)
    /\ \E b \in free_buff_queue :
        /\ free_buff_queue' = free_buff_queue \ {b}
        /\ lpn' = [lpn EXCEPT ![b][0] = InCore(l)]
        /\ urgent_queue' = [urgent_queue EXCEPT ![CoreOf(l)] = Append(@, b)]
    /\ on_going_urgent_request' = on_going_urgent_request + 1
    /\ CheckThreshold(on_going_urgent_request + on_going_normal_request + 1)
    /\ UNCHANGED <<waiting_buff_queue, bank_queue, partial,
                   on_going_normal_request, core_iter, kept>>

HasPartial(queue) == queue # <<>> /\ partial[Last(queue)]

\* Mutation: the flag of the filled buffer is not reset.
WriteSecondHalfMarked(l) ==
    /\ pc = "idle"
    /\ ~IsCommand(l)
    /\ LET queue == bank_queue[CoreOf(l)][BankOf(l)]
       IN  /\ HasPartial(queue)
           /\ lpn' = [lpn EXCEPT ![Last(queue)][1] = InCore(l)]
    /\ on_going_normal_request' = on_going_normal_request + 1
    /\ CheckThreshold(on_going_urgent_request + on_going_normal_request + 1)
    /\ UNCHANGED <<queues, partial, on_going_urgent_request, core_iter, kept>>

WriteSecondHalf(l) ==
    /\ pc = "idle"
    /\ ~IsCommand(l)
    /\ LET queue == bank_queue[CoreOf(l)][BankOf(l)]
       IN  /\ HasPartial(queue)
           /\ lpn' = [lpn EXCEPT ![Last(queue)][1] = InCore(l)]
           /\ partial' = [partial EXCEPT ![Last(queue)] = FALSE]
    /\ on_going_normal_request' = on_going_normal_request + 1
    /\ CheckThreshold(on_going_urgent_request + on_going_normal_request + 1)
    /\ UNCHANGED <<queues, on_going_urgent_request, core_iter, kept>>

WriteFirstHalf(l) ==
    /\ pc = "idle"
    /\ ~IsCommand(l)
    /\ ~HasPartial(bank_queue[CoreOf(l)][BankOf(l)])
    /\ \E b \in free_buff_queue :
        /\ free_buff_queue' = free_buff_queue \ {b}
        /\ lpn' = [lpn EXCEPT ![b][0] = InCore(l)]
        /\ partial' = [partial EXCEPT ![b] = TRUE]
        /\ bank_queue' = [bank_queue EXCEPT ![CoreOf(l)][BankOf(l)] = Append(@, b)]
    /\ on_going_normal_request' = on_going_normal_request + 1
    /\ CheckThreshold(on_going_urgent_request + on_going_normal_request + 1)
    /\ UNCHANGED <<waiting_buff_queue, urgent_queue, on_going_urgent_request,
                   core_iter, kept>>

\* HIL_ReadLPN serves the urgent queues, and nothing else, before it reads.
BeginRead ==
    /\ pc = "idle"
    /\ pc' = "read"
    /\ UNCHANGED <<queues, lpn, partial, counters, core_iter, kept>>
-----------------------------------------------------------------------------
(***************************************************************************)
(* The loop.  An iteration with an urgent request serves one of each core, *)
(* else one bank buffer of each core; a write is never served in the same  *)
(* iteration as a command.                                                 *)
(***************************************************************************)
Draining == pc \in {"drain", "drain_urgent", "drain_normal"}
Reading == pc \in {"read", "read_urgent"}

\* Mutation: urgent requests wait for the writes before them.
UrgentAlone == on_going_urgent_request > 0 /\ on_going_normal_request = 0
UrgentPending == on_going_urgent_request > 0

BeginIteration ==
    /\ pc \in {"drain", "read"}
    /\ pc' = IF UrgentPending
             THEN IF Draining THEN "drain_urgent" ELSE "read_urgent"
             ELSE IF Reading THEN "read_page"
             ELSE IF on_going_normal_request > 0 THEN "drain_normal" ELSE "idle"
    /\ core_iter' = 0
    /\ UNCHANGED <<queues, lpn, partial, counters, kept>>

NextCore ==
    /\ core_iter' = 1 - core_iter
    /\ pc' = IF core_iter = 0 THEN pc ELSE IF Draining THEN "drain" ELSE "read"

\* RSP_WritePage answers a command with false: its data was only parsed.
\* Mutation: the served buffer is put in no queue.
LoseUrgent(b) ==
    /\ lpn' = [lpn EXCEPT ![b] = NoLPN]
    /\ UNCHANGED free_buff_queue
FreeUrgent(b) ==
    /\ lpn' = [lpn EXCEPT ![b] = NoLPN]
    /\ free_buff_queue' = free_buff_queue \cup {b}

ServeUrgent ==
    /\ pc \in {"drain_urgent", "read_urgent"}
    /\ urgent_queue[core_iter] # <<>>
    /\ LET b == Head(urgent_queue[core_iter])
       IN  /\ urgent_queue' = [urgent_queue EXCEPT ![core_iter] = Tail(@)]
           /\ FreeUrgent(b)
    /\ on_going_urgent_request' = on_going_urgent_request - 1
    /\ NextCore
    /\ UNCHANGED <<waiting_buff_queue, bank_queue, partial,
                   on_going_normal_request, kept>>

NoneUrgent ==
    /\ pc \in {"drain_urgent", "read_urgent"}
    /\ urgent_queue[core_iter] = <<>>
    /\ NextCore
    /\ UNCHANGED <<queues, lpn, partial, counters, kept>>

\* The first bank with a buffer; global_rr_cnt, the bank the search starts from,
\* is set to 0 and never moves.
NonEmpty(core) == {bank \in Bank : bank_queue[core][bank] # <<>>}
FirstBank(core) == CHOOSE bank \in NonEmpty(core) : \A k \in NonEmpty(core) : bank <= k

\* The requests in a buffer: its filled halves.
\* Mutations: a buffer counts as two requests, or as one.
TwoRequests(b) == 2
OneRequest(b) == 1
Requests(b) == Cardinality({half \in Half : lpn[b][half] # RSP_INVALID_LPN})

(***************************************************************************)
(* RSP_WritePage as the HIL sees it.  The FTL keeps the buffer or answers  *)
(* false: both pages were copied into other buffers, merged with a copy    *)
(* there, or dropped as padding.  A bank's write buffers, once full, are   *)
(* programmed and freed, the new one possibly among them; each half that   *)
(* is copied may fill one bank.                                            *)
(***************************************************************************)
Outcome(core, b) ==
    {o \in [keep : BOOLEAN, freed : SUBSET (kept[core] \cup {b})] :
        /\ b \in o.freed => o.keep
        /\ \/ Cardinality(o.freed) \in {0, NumPlane}
           \/ ~o.keep /\ Cardinality(o.freed) = 2 * NumPlane
        /\ Cardinality((kept[core] \cup (IF o.keep THEN {b} ELSE {})) \ o.freed)
               <= MaxKept}

\* Mutation: a buffer answered with false is left to wait.
FreedByProgram(o, b) == o.freed
Freed(o, b) == o.freed \cup (IF o.keep THEN {} ELSE {b})

\* HIL_BuffFree: the FTL's calls for the programmed buffers, then the HIL's own.
ServeNormal ==
    /\ pc = "drain_normal"
    /\ NonEmpty(core_iter) # {}
    /\ LET bank == FirstBank(core_iter)
           b == Head(bank_queue[core_iter][bank])
       IN  /\ bank_queue' = [bank_queue EXCEPT ![core_iter][bank] = Tail(@)]
           /\ on_going_normal_request' =
                  on_going_normal_request - Requests(b)
           /\ \E o \in Outcome(core_iter, b) :
                LET done == Freed(o, b)
                IN  /\ waiting_buff_queue' = (waiting_buff_queue \cup {b}) \ done
                    /\ free_buff_queue' = free_buff_queue \cup done
                    /\ lpn' = [x \in Buffer |-> IF x \in done THEN NoLPN ELSE lpn[x]]
                    /\ kept' = [kept EXCEPT ![core_iter] = (@ \cup {b}) \ done]
    /\ NextCore
    /\ UNCHANGED <<urgent_queue, partial, on_going_urgent_request>>

NoneNormal ==
    /\ pc = "drain_normal"
    /\ NonEmpty(core_iter) = {}
    /\ NextCore
    /\ UNCHANGED <<queues, lpn, partial, counters, kept>>

\* The read takes a buffer for the time of RSP_ReadPage.
ReadPage ==
    /\ pc = "read_page"
    /\ free_buff_queue # {}
    /\ pc' = "idle"
    /\ UNCHANGED <<queues, lpn, partial, counters, core_iter, kept>>
-----------------------------------------------------------------------------
Call == BeginRead \/ \E l \in LPN : WriteUrgent(l) \/ WriteSecondHalf(l) \/ WriteFirstHalf(l)
Loop == BeginIteration \/ ServeUrgent \/ NoneUrgent \/ ServeNormal \/ NoneNormal \/ ReadPage

Next == Call \/ Loop

Spec == Init /\ [][Next]_hilvars

\* The loop runs on the caller's thread and waits for nobody.
FairSpec == Spec /\ WF_hilvars(Loop)
-----------------------------------------------------------------------------
TypeOK ==
    /\ free_buff_queue \subseteq Buffer
    /\ waiting_buff_queue \subseteq Buffer
    /\ urgent_queue \in [Core -> Seq(Buffer)]
    /\ bank_queue \in [Core -> [Bank -> Seq(Buffer)]]
    /\ lpn \in [Buffer -> [Half -> {InCore(l) : l \in LPN} \cup {RSP_INVALID_LPN}]]
    /\ partial \in [Buffer -> BOOLEAN]
    /\ on_going_urgent_request \in 0 .. BUFF_THRESHOLD
    /\ on_going_normal_request \in 0 .. BUFF_THRESHOLD
    /\ pc \in {"idle", "drain", "drain_urgent", "drain_normal", "read", "read_urgent",
               "read_page"}
    /\ core_iter \in Core
    /\ kept \in [Core -> SUBSET Buffer]

\* The lanes of a core: its urgent queue and its bank queues.
URGENT == -1
Lane == Bank \cup {URGENT}
Queue(core, lane) == IF lane = URGENT THEN urgent_queue[core] ELSE bank_queue[core][lane]

Elements(queue) == {queue[i] : i \in DOMAIN queue}
Queued == UNION {Elements(Queue(core, lane)) : core \in Core, lane \in Lane}
QueuedInBanks == UNION {Elements(bank_queue[core][bank]) : core \in Core, bank \in Bank}
FilledHalves ==
    {h \in QueuedInBanks \X Half : lpn[h[1]][h[2]] # RSP_INVALID_LPN}

\* Every buffer is in one place: free, waiting, or in a queue once.  None is lost,
\* in two queues, or twice in one, whichever queues it went through (insert_buff
\* and del_buff, lines 22-58, 122-141, 160-201, 224-296).
BuffersConserved ==
    /\ free_buff_queue \cup waiting_buff_queue \cup Queued = Buffer
    /\ free_buff_queue \cap waiting_buff_queue = {}
    /\ Queued \cap (free_buff_queue \cup waiting_buff_queue) = {}
    /\ \A c, d \in Core, k, l \in Lane :
        \A i \in DOMAIN Queue(c, k), j \in DOMAIN Queue(d, l) :
            Queue(c, k)[i] = Queue(d, l)[j] => c = d /\ k = l /\ i = j

\* The two counters the loop stops on are those of the queues: buffers for the
\* commands, filled halves for the writes (lines 167, 204, 239, 259, 280-284).
CountersMatch ==
    /\ on_going_urgent_request = Len(urgent_queue[0]) + Len(urgent_queue[1])
    /\ on_going_normal_request = Cardinality(FilledHalves)

\* Only the youngest buffer of a bank may be half full, and its partial flag says
\* so, though a recycled buffer keeps its old flag (HIL_buff_init, lines 69-77):
\* no write is put before an older one (lines 178-201).
PartialIsYoungest ==
    \A core \in Core, bank \in Bank :
        LET queue == bank_queue[core][bank]
        IN  \A i \in DOMAIN queue :
                /\ lpn[queue[i]][0] # RSP_INVALID_LPN
                /\ partial[queue[i]] <=> lpn[queue[i]][1] = RSP_INVALID_LPN
                /\ partial[queue[i]] => i = Len(queue)

\* A call finds a free buffer, which line 192 takes without a look at the size of
\* the queue and lines 155 and 360 assert: what waits for a flash program and
\* what waits for the threshold never exhaust the pool.
BufferAtHand == pc \in {"idle", "read_page"} => free_buff_queue # {}

\* Once at the threshold, or reading, a call returns (lines 213-299, 310-379).
CallReturns == pc # "idle" ~> pc = "idle"

(***************************************************************************)
(* The HIL implements WriteQueue: the halves of the queued buffers, in     *)
(* order, are the requests not yet served.  A command has the first half   *)
(* of its buffer; a bank's writes fill both halves but for the last one.   *)
(***************************************************************************)
CommandsOf(queue) == [i \in 1 .. Len(queue) |-> lpn[queue[i]][0]]
NumWrites(queue) == 2 * Len(queue) - (IF HasPartial(queue) THEN 1 ELSE 0)
WritesOf(queue) ==
    [i \in 1 .. NumWrites(queue) |-> lpn[queue[(i + 1) \div 2]][(i - 1) % 2]]

Abstract == INSTANCE WriteQueue WITH
    commands <- [core \in Core |-> CommandsOf(urgent_queue[core])],
    writes <- [core \in Core |-> [bank \in Bank |-> WritesOf(bank_queue[core][bank])]]

\* Requests are served once each and in order, commands before writes.
ImplementsWriteQueue == Abstract!Spec
=============================================================================
