# SHRD simulator: TLA+ models, checks and proofs

The repository simulates an SSD with SHRD support: a host that turns random
writes into sequential ones ("transactional writes" into a log) and a flash
translation layer (FTL) that later gives the logged pages back to their home
addresses by changing its map ("remap"). All of it runs on one thread of one
Windows program, `run_shrd_workload` (`src/SHRD_sim.cpp:495`). There is no
concurrency in the sense of threads; what makes it hard is that every layer
holds requests back and serves them in another order, and that three layers
keep their own picture of where the newest copy of a page is.

## The system

| part | source | state | operations |
|---|---|---|---|
| host | `SHRD_host.cpp`, `SHRD_host.h` | circular log (start, end), one map entry per log slot, redirection map (page -> entry), rings of command addresses | `HOST_gen_random_workload`, `do_twrite`, `do_remap`, `__do_remap`, `HOST_verify_random_workload` |
| HIL | `HILWrapper.cpp` | pool of 8KB buffers in ring lists: free, waiting for the flash, urgent per core, per core and bank; two request counters | `HIL_WriteLPN`, `HIL_ReadLPN`, `HIL_BuffFree` |
| FTL, commands | `ATLWrapper.cpp:795-1331` | list of transactional write headers with the pages still to come, the logical map | `RSP_WritePage`'s dispatch, `twrite_header_handler`, `find_twrite_oLPN`, `remap_handler`, `__do_remap` |
| FTL, write path | `ATLWrapper.cpp:1337-1850, 3081-3151` | per bank: write buffers of each write type, active blocks, block lists (free, data, RW log), valid counts, remaps due per block | `write_page`, `assign_new_write_vpn` and its RW variant |
| FTL, garbage collection | `ATLWrapper.cpp:2579-3065` | per bank: victim, collector's page buffers | `incremental_GC` and its steps; `garbage_collection` and `inter_GC` (2113-2577) when no block is free |
| FTL, map cache | `ATLWrapper.cpp:340-790, 1846-2056, 3153-3267, 3783-3884` | cached map pages, LRU list, meta blocks, RB tree of the log map | `get_vpn`, `set_vpn`, map loading and flushing |
| FTL, start-up | `ATLWrapper.cpp:89-340` | | `RSP_Open`, bad block table |
| VFL | `VFLWrapper.cpp` | two files for data and spare area | `Issue`, `MetaIssue` |
| main program | `SHRD_sim.cpp` | | trace readers, workload loops |

How they interact. The host calls `HIL_WriteLPN` for a header, then for each
page of the write, and for remap commands; header and remap commands go to both
cores, a page to the core of its address (address % 2). The HIL collects
requests until `BUFF_THRESHOLD` and then serves all of them, commands first,
through `RSP_WritePage` of each core. A program of the flash calls back
`HIL_BuffFree` for the buffers it wrote. The FTL may answer a write at once
(the data was copied or merged) or keep the buffer.

What is hard about it:

- *order*: commands overtake the data queued before them (a header must be
  there before its data, a remap must not come before it);
- *stale copies*: a page logged twice, remapped while a newer copy is logged, or
  overwritten in a write buffer;
- *the ring*: start and end of the log are plain indices, windows may hold
  nothing, and full and empty look the same;
- *pools and counters*: buffers and headers are taken without asking whether
  there is one; counters decide when loops end and when headers go;
- *two owners of a page*: the collector carries pages in its buffer while writes
  and remaps go on changing where they belong, and a remapped page may still be
  in a write buffer;
- *progress*: room comes only from remaps and remaps only run above a threshold.

There are no crashes, restarts, retries or timeouts in the program, so none are
modelled: the flash is a file and the state in memory is never rebuilt.

## Modules

| module | models | kind |
|---|---|---|
| `SHRDHost` | the host | one action per loop iteration or branch of the four functions |
| `HIL` | the HIL | one action per call up to its loop, and per step of the loop |
| `WriteQueue` | what the HIL promises about order | abstract specification |
| `ATLCommand` | the FTL's handlers down to the logical map | functions of the cores' state |
| `SHRDSystem` | host, queue and both cores together | composition: extends `SHRDHost`, instantiates `ATLCommand` |
| `PageStore` | what the stack promises: last write wins | abstract specification |
| `FTLBank` | write buffers, blocks, valid counts and incremental collector of one FTL core | one action per function that hands over to the next |
| `MapCache` | the map behind `get_vpn` and `set_vpn`: cache, map blocks, log of the collector's moves; the meta block | one action per call |
| `MCSHRDSystem`, `MCFTLBank`, `MCMapCache` | values, symmetry and views for TLC | |
| `Lemmas` | facts on naturals, finite sets and sequences the proofs share | proofs |
| `SHRDSystemProofs` | theorems about `SHRDHost`, then about `SHRDSystem`, and that it implements `PageStore` | proofs |
| `HILProofs` | theorems about `HIL`, and that it implements `WriteQueue` | proofs |
| `MapCacheProofs` | theorems about `MapCache` | proofs |
| `FTLBankProofs` | theorems about the blocks and slots of `FTLBank` | proofs |
| `FTLBankFlashProofs` | what each step of `FTLBank` does to the flash of a bank | proofs |
| `FTLBankRoundProofs` | what a round of the collector does to it | proofs |
| `FTLBankMapProofs` | theorems about counts, copies and asserts of `FTLBank` | proofs |

### SHRDHost

The variables are the fields of `SHRD_host` and the locals of `do_twrite` and
`__do_remap` that live across a call of the HIL (`twrite_header`, `page`,
`remap_entry`, `remap_cnt`, `remap_end`). `pc` is the place of the thread. Log
addresses are offsets from the log's start, which is even, so an offset has the
parity of its address. The random numbers of `do_twrite` are a choice of the
packed pages: `PackedBy` says which sequences its loop can build, with the test
of the limit before the padding is counted, as in the code. `sent` holds the
HIL calls of the last step. The two `getchar()` waits are states of their own
(`packing_error`, `remap_refused`), left by the operator's answer, and the
assignments before and after them are where the code has them.

### HIL

The five kinds of queue, the halves of each buffer (`lpn`), the `partial` flag
and the two counters are the code's. The free and the waiting queue are sets:
free buffers are interchangeable, waiting ones are looked up by address. The
FTL is what the HIL sees of it, the buffers that a call of `RSP_WritePage`
keeps and those it frees by programs (`Outcome`, from `ATLWrapper.cpp:1248` and
`write_page`: at most one program per half, the new buffer among the programmed
only if it is kept, never more kept than the write buffers hold). Page contents
and sector bitmaps are left out.

### ATLCommand and SHRDSystem

`ATLCommand` has the handlers as functions from the state of both cores to the
next: the list of headers, the map of log slots and of home addresses to page
contents, and whether a core spins in an assertion. Where in the flash a page is
does not matter here. `SHRDSystem` runs the host, a queue with the HIL's order
of service (what `HIL` is shown to keep: per-core order of commands, per-bank
order of data, commands first) and the cores. Contents carry a version, so that
a stale copy of a page differs from the newest.

`OwnCoreId`, `TwriteEntries` and `NumMaxTwrite` are constants because the code as
it stands has values under which the stack fails at once (see "Findings"); the
runs use the intended ones: each core its own number, both sides the same command
area.

### FTLBank

The flash of one core. `nand[b]` is the code's `NAND_bank_state`: the block lists
are sequences, `cur_write_vpn` holds the active block and page of both write
types (SW for home addresses, RW for the log), `writebuf` the pages of each write
buffer with the address they have (`req`) and the one their header gives them
(`remap`), `GCbuf_lpn` the collector's buffer, `block_list` the valid count, the
remaps still due, the valid bitmap and the spare areas. `vpn` is the logical map
as a plain table; that it answers like one is what `MapCache` shows. `copies` is not in the code: it says for each
address where its newest data is, and moves as the data is copied, so that
`ReadsNewest` can compare it with the map.

A call of `RSP_WritePage` runs through `pc`: `write_page` for each half of the
buffer (`write_page`, `Merge`, `WritePadding`, `NoPage`), `Program` when the write
buffer is full, then `incremental_GC` with its rounds (`ChooseVictim`, `GCRead`,
`EraseVictim`, `NothingToErase`). A call with a command has it in its first half: a
remap command moves the slots of its pairs (`Remap`, the body of `__do_remap`'s loop, once
per pair), a header none, and `Command` goes on to the empty second half, for which the
collector runs a round. A buffer with a home page in one half and a log page in the other
is left out, as `RSP_WritePage` asserts (lines 1258-1266); no workload builds one. `NUM_READ_PER_INCGC` is the
number of pages the collector reads per call, 1 in two of the runs, so that a page
stays in its buffer between two calls, where writes and remaps can overtake it. An
assertion about the collector's counts and lists that fires leads to `stopped`.

`VC_MAX` is one number in the code, 0xffffffff, and two constants here: `VC_MAX` where no
block or place is meant, `VC_ERASED` where it is the valid count of an erased block. All
that is assumed of them (`NoSuchPlace`) is that the first is no block or place and the
second more than a block has pages.

Two states end the model without being errors of the code: `inter_GC`, a program
that finds no free block, where the code would run `garbage_collection`; and
`exhausted`, a collector without a victim or without a block. Both are a question
of the size of a bank and of `GC_THRESHOLD` (8 in the code), not of the order of
calls, and with banks as small as those of the runs they are reached.

Two facts about the callers are used. A slot of the log is written again only if
the host no longer remaps it and its old copy has left the write buffer; two
remaps of a page are so far apart that the copy the first one left in a write
buffer of log pages is in flash before the second. Both hold because the log is
far longer than all write buffers of a core together (32768 pages against a few
hundred), and the host's part of it is what `SHRDHost` is about. `twrite` keeps
the home address of each slot that the host may still remap.

Blocks are only compared with each other, so `MCFTLBank`'s `View` names them by
their place in the lists: states that differ in the names of blocks count once.
It also drops the spare areas of pages not marked valid, which the collector
skips. Home addresses and log slots are symmetric.

### MapCache

The map of a core is in three layers: map pages in a cache with an LRU list
(`cache`, `CACHE_LRU_HEAD`, `num_cached`), map pages in a few blocks of each bank
(`MAP_MAPPING_TABLE` and, in `nand[b]`, `MAPP2L`, `MAP_VALID_COUNT` and the blocks), and
beside both a log per bank of the pages the collector moved since it last filled a
block (`gc_map_log`). `get_vpn` asks the log, then the cache, which loads from flash and
writes back; `set_vpn` takes an address out of the log and changes the cached page.
When the collector's block is full, `write_gc_buffer` writes its log into the map, one
`set_vpn` per entry, and starts the log again.

`get_vpn` and `set_vpn` are one action each: they run to the end, with
`get_map_page` (`Hit`, `Fill` or `Replace`), the write back and its collection of a map block
(`map_write`, `Collected`, `Recycle`) inside. `flushing` marks the one loop that is made of
several calls. `AssignBlock` and `FreeBlock` are what the rest of the FTL does to a bank's
free list; taking a block also flushes the bitmaps to the meta block
(`flush_bank`, `bank_meta_flush`). Map and meta blocks change places with free blocks,
which is why the three belong in one module. `flash` holds, per page, all that was
programmed since the last erase, so that a second program or a missing erase
shows.

The red-black tree of the log is the set of its entries, and flush_map_log goes
through it in any order. `place` is not in the code: it says where each address was
put last. Of a vpn only the bank matters, and whether it is an older or a newer
one (`mark`). A read that leaves the cache as it is is no step.

`MCMapCache`'s view names blocks by their place in the tables and slots by their
place in the list. Of the places it keeps only whether `get_vpn` would find the
right one: the model treats all marks alike, and a copy that `get_vpn` would not
find is always written before anything reads it. `map_start` and `meta_start` are kept.

## Runs

| run | question | bounds | states |
|---|---|---|---|
| `host_log` | do entries and redirection map agree in every state, damaged ones included? | log 8, 3 pages, writes of 2, windows of 3, 1 entry per remap command | 209k |
| `host_guarded` | does nothing live lie outside the window, and is no write packed over it? | as above, the two rare steps excluded | 16k |
| `host_progress` | is room always made? | threshold as large as fits | 47k |
| `hil` | are buffers, counters and order right, is `WriteQueue` implemented, and does every call return? | 5 buffers, threshold 3, 1 kept per core, 2 cores x 2 banks; writes to one bank of each core, commands of core 0 | 287k |
| `system` | is the stack a page store, with no assertion? | log 6, 2 pages x 2 versions, threshold 2 in the queue, 2 header and 2 remap addresses: the smallest that satisfies `QueueFits` (see "Proofs") | 812k |
| `ftl_data` | does overwriting and collecting on several banks lose nothing? | 2 banks of 5 blocks of 2 pages after start-up, 3 home addresses | 238k |
| `ftl_log` | do log pages and remaps lose nothing, and do the collector's asserts hold? | 1 bank of 6 blocks, the collector at work from 2 free blocks on, 2 home addresses, 2 slots | 126k |
| `ftl_mixed` | the same with both types of write | 1 bank of 6 blocks, 1 home address, 2 slots | 113k |
| `map_cache` | does the map answer like a table, and is flash erased before it is programmed? | 1 bank of 3 map blocks, the meta block and 2 others, of 2 pages each; 3 map pages with one address, 2 of them written, 2 slots | 124k |
| `host_fill`, `system_padding`, `ftl_overrun` | findings, below | | |

The bounds make the interesting cases happen: the log goes round several times;
a window holds no, some and only live entries; a remap needs more than one
command; pages need padding; a page is logged again while its older copy is in
the window; the queue holds data back when a command is served; the half-filled
buffer of a bank is drained and recycled with its flag set; a bank is served
while another waits. `BUFF_THRESHOLD` is smaller than the code's 32, and so is
everything it is compared with. A flash block of two programs of two pages each is
the smallest with a block that is partly filled; every bank still goes through many
turns of filling, collecting, erasing and reuse. In `map_cache` more map pages than
slots make every write back happen, and three map blocks of two pages are collected
again and again with 0 to 2 valid pages; `DirtyBBP` is 1, since every block that is
taken is followed by pages marked valid, so the next flush finds a dirty bitmap. A log of 8 slots is enough because the code
compares log positions only with each other and with constants; the theorems
below hold for every size.

Properties by hazard: the invariants `ValidIsRedirected`,
`RedirectionLeadsToPage`, `RemappingIsPending` and `RemapFindsAll` are about
stale and lost copies in the host; `LiveInWindow` and `NoPackingError` about
the ring; `SameCore` about the parity rule both cores rely on;
`RemapNeverRefused` and `RoomIsMade` about progress; `BuffersConserved`,
`BufferAtHand`, `CountersMatch`, `PartialIsYoungest` and `CallReturns` about
the HIL's lists, pool and counters; `NoAssert`, `RemainedIsOutstanding` and
`HomeHoldsOwnPage` about the cores; `ReadsNewest` about stale pages in
the flash; `VcountIsMapped`, `RemainedIsMapped` and `GCBufferIsCurrent` about the
counters that decide what is collected, erased and moved; `LogPagesStay` and
`BlocksConserved` about the lists; `NoAssertFires` about the collector's reserve and
victims; `GetVpnIsLast` about stale and lost map entries, `MapVcountIsMapped` about the
count that ends the collection of a map block, `LRUHoldsCached` about the relinking of
the cache, `LoggedOnce` about the log of moves, `ErasedBeforeProgram` about the blocks
that change owner without an erase; `ImplementsWriteQueue` and `ImplementsPageStore` are
the refinements.

### Fairness

`SHRDHost` assumes weak fairness of its steps except the operator's answers:
the workload loop calls the host until enough is written and a step never waits
(`FairSpec`). `HIL` assumes it of the request loop only, which runs on the
caller's thread; nobody need make a call. No fairness is assumed elsewhere.

### Findings

1. `system_padding`: `__do_remap` leaves a window without valid entries by one slot
   too many (`SHRD_host.cpp:181`), so a valid entry may lie behind the log's start
   and be written over. The host notices it unless the page written is padding,
   which skips the test (`SHRD_host.cpp:134`); then the entry's remap ends in the
   FTL's assertion at `ATLWrapper.cpp:1086`.
2. `host_fill`: a write may end exactly at the log start
   (`SHRD_host.cpp:316-319`), and the full log then counts as empty.
3. `ftl_overrun`: when the full active block was collected and freed, because only
   the other type of write used its bank in the meantime, and it is the head of
   the free list, `assign_new_write_vpn` takes the new block for the old one and
   goes on behind its end (`ATLWrapper.cpp:1708`): the write lands in a block that
   is not its own. It takes traffic of both types; the shipped main program runs
   either trace writes or the random workload. The other runs end at that step.

Two disagreements no run is spent on, since they stop the stack at once:

- `THIS_CORE` is -1 for both cores (`ATLWrapper.h:18`, `RSP_Header.h:38`), although the
  constructor stores each core's number. With `OwnCoreId` FALSE, as shipped, the first
  page of log data finds no header and `NoAssert` of `system` fails.
- The host puts remap commands behind `SHRD_TWRITE_ENTRIES` headers of each core
  (`SHRD_host.h:57`, 32), the FTL expects them behind `NUM_MAX_TWRITE`
  (`ATLWrapper.h:97`, 128). With `TwriteEntries` below `NumMaxTwrite`, as shipped,
  `NoAssert` fails at the first remap command, which the FTL reads as a header
  (`ATLWrapper.cpp:834`).

Cases 1 and 2 need rare draws of the workload: a window of 16384 slots without a
valid entry, or a write of exactly the free space. `Guarded` and
`GuardedSysSpec` leave these two steps out and nothing else; what is checked
under them is what the program does until such a draw.

## Proofs

### The host

The first part of `SHRDSystemProofs` proves of `SHRDHost`, for all values of the constants that satisfy
`HostConstants` (and `ThresholdFits` for the last):

| theorem | property |
|---|---|
| `TypeCorrect` | `TypeOK` |
| `NoCopyForgotten` | `ValidIsRedirected` |
| `NoRemapForgotten` | `RemappingIsPending` |
| `RemapComplete` | `RemapFindsAll` |
| `CoresAgree` | `SameCore` |
| `RemapServed` | `RemapNeverRefused` |

`TypeOK` is not inductive: the operator's answer to a packing error writes the
page the error is about, so `TypeInv` adds that there is one. `LogInv` carries
the log theorems. `ValidIsRedirected` alone is not inductive because sending a
remap command erases its pages from the redirection map; one has to know that
these pages are redirected to the command's own slots (`PendingEntries`) and that
the slots in state REMAPPING are the command's and nothing else's. `WindowCount`
(the loop's counter is the number of valid entries left in the window) gives
`RemapFindsAll`. `ParityInv` adds the parity of the header's pages to `SameCore`.
None of these needs the two rare steps to be excluded. `ThresholdFits` is
`RemapThreshold + MinLogging + MaxTwritePage <= LogSize + 1`; the code's values
are 20480, 128, 128 and 32768.

The next theorems say, from `HostConstants`, what holds of the host as long as none of the
two rare steps is taken:

| theorem | property |
|---|---|
| `LiveStaysInWindow` | `LiveInWindow` |
| `NeverPacksOverLive` | `NoPackingError` |
| `RedirectionIsTrue` | `RedirectionLeadsToPage` |

The first two need each other and the invariant `WindowInv`: a write keeps within the window
because it is packed over nothing live, and it meets nothing live because everything live
is in the window. Two facts have to be added: the write under way stops short of the log's
start (`WriteStopsShort`; `FillsToStart` is the step that breaks it), and the window of a
remap ends before the log does (`WindowBeforeEnd`; `SkipsLiveEntry` breaks `LiveInWindow`
through it). `RedirectionLeadsToPage` then needs that a slot is never
written over while a page is redirected to it, which is `NoPackingError`.

### The stack

The second part of `SHRDSystemProofs` proves of `GuardedSysSpec`, from `HostConstants`,
`BlankIsNoContent` (the pattern of a page never written is no page's content) and
`QueueFits`:

| theorem | property |
|---|---|
| `SysTypeCorrect` | `SysTypeOK` |
| `NoCoreStops` | `NoAssert` |
| `HomeKeepsItsPage` | `HomeHoldsOwnPage` |
| `HeadersCountPages` | `RemainedIsOutstanding` |
| `SystemIsPageStore` | `ImplementsPageStore` |

`QueueFits` says what none of the files says: commands overtake data only within the queue,
so the stack is right as long as the queue is short against the log. With `Q` for
`BUFF_THRESHOLD` it asks for

- `Q < 2 * NumMaxTwrite`: a core never needs more headers than it has, since each listed one
  has a page in the queue, or is the last one sent (`ATLWrapper.cpp:1233`; 32 against 64 or more);
- `Q + MinLogging + 2 * NumTwriteEntry <= LogSize + 3` and `Q + 2 * MinLogging <= LogSize + 3`:
  no slot is written again while its data waits, and no two headers of a core cover the same
  slot (32, 128 and 2 * 128 against 32768);
- `Q + MinLogging <= RemapThreshold - RemapSize + 3`: a remap command does not overtake the
  data of the slots it names (a remap leaves at least 4096 pages in the log);
- and the values under which cores and commands are numbered right (see "Findings").

The invariant is `SysInv == HostInv /\ CallInv /\ CoreInv`. `HostInv` is what the host's theorems
show. `CallInv` is about the queue: `QueueOK` (its kinds of call and its length), `DataOnce`
(no slot has two pages under way), and the two distances that `QueueFits` is needed for,
`DataNear` (a queued page is not further behind the slot written next than there are calls
behind it in the queue, but for what is skipped at the log's end) and `FarWindow` (what is being
remapped is further behind than that). `CoreInv` is about the cores:

- `HeadersInv`, of each core's headers, listed or still in the queue: they cover different
  slots (`HeadersApart`), each page under way has its header among them, which names the page
  it is for (`HeadersCover`), each counts the core's pages of its write that are under way
  (`HeadersCount`), and each is for pages queued before or for the write being sent
  (`HeadersNear`). A header overtakes data and never the reverse, so it is enough to count both
  places together.
- `RemapsInv`, of the remaps on their way to the core: no two are of one slot or one page
  (`RemapsApart`), the core has the data of each (`RemapsHold`), and when slot or page is
  used again, that write is still under way (`RemapsPast`).
- `CommandHolds` and `LogHolds`: the slots of the command under construction and the VALID
  slots hold their page's data, or have it under way.

`NoAssert` and `RemainedIsOutstanding` follow from these. For the refinement, `Reads(l, x)` says
in terms of the queue that page `l` reads `x`: through the log slot it is redirected to, whose
data may be under way; else through the remap under way that names it; else from its home. Each
step is shown to keep what a page reads, but for the write that is being sent, whose content
then is that page's (`StoreStep`). One case is easy to miss: as soon as the host has sent a remap
command it may give the slots to the next write. The remap is served first, before the new data
can reach the slot, so the page reads what the core's log holds, not what the slot will
hold; `Newest` follows the core's log there.

### The map cache

`MapCacheProofs` proves of `MapCache`, from `MapConstants`, for any number of banks,
addresses, pages per block and pages in the collector's buffer:

| theorem | property |
|---|---|
| `LoggedAtMostOnce` | `LoggedOnce` |
| `LogLeadsToPlace` | `LogIsPlace`: a logged address is where its entry says, in the bank that logs it |

`LoggedOnce` is not inductive: `set_map_log` replaces an entry of its own bank only, so
one has to know that no other bank logs an address whose page is in this bank.
`LogInv` adds that (`LogIsPlace`), and the types of the variables involved. The run
`map_cache` has one bank, where two logs cannot disagree; with the theorem the other
banks are covered too.

### The HIL

`HILProofs` proves of `HIL`, from `HILConstants`, for any number of buffers, banks and
addresses, any threshold and any behaviour of the FTL that `Outcome` allows:

| theorem | property |
|---|---|
| `TypeCorrect` | `TypeOK` |
| `NoBufferIsLost` | `BuffersConserved` |
| `CountersAreTrue` | `CountersMatch` |
| `PartialIsTrue` | `PartialIsYoungest` |
| `NeverOutOfBuffers` | `BufferAtHand` |

They are parts of one invariant, `HILInv`. The counters are typed as naturals only because
they match the queues, and the queues give up what the counters say only because no
buffer is twice in them. `PartialIsYoungest` needs `FreeIsClean` (a free buffer has no
address in either half): the flag of a recycled buffer is stale, and the first write
into it sets the flag again. `KeptWaits` relates the waiting queue to what the FTL keeps,
`BelowThreshold` and `NormalAlone` say where in the loop the counters may stand.
`NeverOutOfBuffers` counts the places a buffer can be in: below the threshold the queues
hold fewer than `BUFF_THRESHOLD` buffers, the waiting queue at most `MaxKept` of each
core, and `HILConstants` has more buffers than that together. The code has 2560 buffers
(`HILWrapper.h:11`) and a threshold of 32. `CountersMatch` is stated with the cardinality of the
set of filled halves, so no sum over banks has to be unfolded.

The module ends with `HILImplementsWriteQueue`, from the same assumptions:
`Spec => ImplementsWriteQueue`. The mapping takes each urgent queue to the addresses in its
buffers and each bank queue to the addresses in the filled halves, two per buffer but for a
half-filled youngest one. A call that queues a request is a `Put`; an iteration of the
request loop is `ServeCommand` or `ServeWrites`; the rest stutters. The two hard points are
that a buffer given back while others wait leaves every queue as it is
(`BuffersConserved`: it is in no queue), and that writes are served only when the commands of
both cores are gone (`NormalAlone` and `CountersMatch`).

### The FTL core

`FTLBankProofs` proves of `FTLBank`, from `FlashConstants` and `NoSuchPlace`, for any number
of banks, blocks, planes and pages, all addresses and every `GC_THRESHOLD`:

| theorem | property |
|---|---|
| `BlocksAreConserved` | `BlocksConserved` |
| `LogPagesAlwaysStay` | `LogPagesStay` |
| `RemainedIsAlwaysMapped` | `RemainedIsMapped` |
| `FTLInvariant` | `FTLInv`, the inductive invariant of the three |

None of the three is inductive, and none can be proved without the others: a block is moved
from the log blocks to the data blocks when its count reaches 0; that loses no block only if
it was in the list (`BlocksConserved` needs `LogPagesStay`), leaves no log page behind only
if the count was right (`LogPagesStay` needs `RemainedIsMapped`), and the count is right only
if a slot's page is found in one place. `FTLInv` has four parts:

- `BankInv`, of each bank by itself: the lists are without repetition and share nothing
  (`Conserved`); the block that log pages go to is in its list until its last page is written
  (`ActiveStays`, the reason for the extra condition at `ATLWrapper.cpp:1123` and `:1668`);
  the collector's buffer and all spare areas hold home addresses (`HomeOnly`); what write
  buffers hold, and `remap_inbuff_cnt` as the number of positions without a slot
  (`BuffersOK`).
- `SlotInv`, of the map and the banks together: a slot is mapped to a block of log pages, to
  the position of a write buffer that names it, or not at all, and each block's count is
  exact. A program turns the positions that still name a slot into waiting pages; that there
  are `SuperPage - remap_inbuff_cnt` of them, one per slot, is `SlotsCounted`, by a bijection
  between them and the slots.
- the control: no write buffer is full but the one about to be programmed
  (`FullIsProgrammed`, `ProgramIsFull`), the second half of the call's buffer still has its
  place (`TailIsFree`), the collector has a victim when it reads (`VictimAtHand`), and a slot
  that the host may remap is mapped (`RemapIsMapped`, the assertion at `ATLWrapper.cpp:1074`
  on the FTL's side).
- `Ranges`.

The steps are classified by what they leave alone. `Quiet` steps of a bank (everything the
collector does, invalidations) change nothing the slots depend on, so one lemma (`GCStep`)
carries the invariant through the collector; a slot leaves flash (`SlotLeavesFlash`) or a
buffer (`SlotLeavesBuffer`), enters a buffer (`SlotEnters`) or is programmed
(`SlotsProgrammed`). Nothing is assumed of the order of calls but the two facts about the
callers that `SlotIsFree` and `Remap` state (see "FTLBank" above). What the valid counts of
victims become is left open in this invariant (`Counted` speaks of the other blocks).

`FTLBankMapProofs` proves on top of `FTLInv`, from the same assumptions, the other invariants
of `FTLBank`:

| theorem | property |
|---|---|
| `VcountsAreRight` | `VcountIsMapped` |
| `GCBufferStaysCurrent` | `GCBufferIsCurrent` |
| `CollectorNeverStops` | `NoAssertFires` |
| `ReadsFindNewest` | `ReadsNewest` |
| `TypeCorrect` | `TypeOK` |
| `MapInvariant` | `MapInv`, the inductive invariant of the five |

`MapInv` says of the flash of each bank (`BankFlash`):

- `VcountsRight`: the count of every block is the number of addresses mapped into it, and
  `FreeIsEmpty`: nothing is mapped into a block that can be taken.
- `MarksTrue`: as far as the collector will still read a block, a valid bit with a spare area
  that names an address is there for just the addresses mapped to that place. This is what
  makes it right that `read_victim_page` (`ATLWrapper.cpp:2667`) asks the bitmap and not the
  map. It says nothing of what was read already, because those bits stay set.
- `Collecting`: the collector's buffer holds, once each, just the addresses that are mapped
  to a part of a victim that was read (`HeldIsRead`), `num_gcbuffed` counts those of the
  current victim, which is the youngest (`CurrentIsLast`), and no victim counts more than a
  block less one program (`MaxVcount`).
- `WritesFresh` and `CollectorFresh`: in a block that is being filled nothing is mapped to
  the next page or a later one, so a program covers no live page.
- `ReserveIsBack`: while the collector has no block in reserve, what it has written to the
  block it took fits with what it still holds and with the count of the oldest victim into a
  block less one program. So that victim is empty, and gives back its block, before the
  block being filled is full: the reserve is there when it is needed next, and the assertion
  on it never fires.

Across banks it says that two addresses are never at one place (`MapApart`), that the map and
the write buffers name each other (`BuffersMapped`), that the spare area or the header of a
slot tells the home address the host will remap it to (`RemapTold`: the collector files a page
under that address before the remap has come), and where the newest data of each address may
be (`CopiesRight`).

Each part needs others. The collector's buffer is written and the victims are charged with
what leaves it, by their age and without a look at whose pages they are
(`decrease_vcount_of_vt_block`). That is right because all of an older victim's pages were
read before the first of a younger one, so the pages in the buffer are those of all victims but
the youngest and some of that one (`Charged`, `PaymentIs`); this follows from `Collecting`, which
needs `MarksTrue` for what is read next, which needs `WritesFresh` for what was programmed. The
sum along the victim list is a recursive function; that it is the size of a union of disjoint
sets is proved with `NatSetInduction` (`SetsCounted`). `ReadsNewest` and `TypeOK` need all of it: a
page in the collector's buffer replaces the map's place without another look.

`FTLBankFlashProofs` has one lemma for each way in which a step changes the flash of a bank: an
address leaves its place (`InvalidateFlash`, `DroppedFlash`), a slot's page becomes its home's
(`RenameFlash`), a page is programmed (`ProgramFlash`), a block is taken to be filled
(`AssignNext`, `AssignFirst` and the collector's `TargetNext`, `TargetFirst`), the collector reads a page
(`ReadFlash`), takes a victim, ends a read (`EndFlash`) or erases (`ReclaimFlash`).
`FTLBankRoundProofs` puts them together to a round of the collector (`GCReadFlash`).

`Lemmas` has what these proofs share: induction over the naturals for a set
(`NatSetInduction`), least elements, counting along a bijection, and cardinalities of the
positions of a sequence. The library's induction theorems take an operator as parameter; for a set the same
is proved here from the pigeonhole theorem of finite sets.

### What has no proof

Only model-checked: the cache and the map blocks of `MapCache` (`GetVpnIsLast`,
`LRUHoldsCached`, `MapVcountIsMapped`, `ErasedBeforeProgram` and `TypeOK`), and both liveness
properties (`RoomIsMade`, `CallReturns`), which are beyond the proof system. `GetVpnIsLast`
depends on `Collected`, a fold over the pages of a map block, whose result for every block size
has no proof here. That the queue of `SHRDSystem` serves calls in the order `HIL` serves them
in is an argument across two modules, with `WriteQueue` between them, and not a theorem; the
same holds of the plain logical map in `ATLCommand` and `FTLBank`.

## Not modelled

- `garbage_collection` and `inter_GC`: only reached when a bank has no free block; with
  `GC_THRESHOLD` at 8 the incremental collector starts long before. `FTLBank` ends there.
- The red-black tree's links and colours: the routines are the Linux kernel's, and the
  FTL uses them as a set ordered by address.
- The journal list (JN): the host never writes to it.
- The bitmaps that `BBP_flush` writes and the sectors of a page: nothing reads the flushed
  bitmaps, and the host writes whole pages. `map_flush` is compiled out
  (`IS_BACKFLUSH`).
- Start-up and the bad block table: run once, before the first request; their result is
  what the `Init` predicates say.
- VFL (file I/O; what it does for the other layers, the freeing of programmed buffers, is
  part of `HIL`), OS layer (wrappers of `malloc` and `memcpy`), the main program's trace
  parsing, and `SHRD_driver_simulator` and `SHRD_workload_maker`, whose `main` functions are
  empty.

## Plan

What would extend this most, in order:

1. Proofs: `LRUHoldsCached` and `MapCache`'s `TypeOK` for any number of slots, and what
   `Collected` computes for every block size.
2. Refinement of `ATLCommand`'s maps by `FTLBank`, so that `SHRDSystem`'s page store reaches
   down to flash pages.
3. `inter_GC` and `garbage_collection`.
