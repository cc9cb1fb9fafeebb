--------------------------- MODULE SHRDSystemProofs ---------------------------
(***************************************************************************)
(* Theorems of SHRDHost, and then of SHRDSystem, for every size of the     *)
(* log, of the writes, of the remap commands and of the queue.             *)
(***************************************************************************)
EXTENDS SHRDSystem, Lemmas

(***************************************************************************)
(* THE HOST: the theorems of Spec, then those of Guarded.                  *)
(***************************************************************************)
LEMMA Constants ==
    /\ LogSize \in Nat /\ LogSize > 0
    /\ MinLogging \in Nat /\ MinLogging > 0 /\ MinLogging <= LogSize
    /\ MaxTwritePage \in Nat /\ MaxTwritePage > 0 /\ MaxTwritePage <= MinLogging
    /\ MaxTwriteSector \in Nat /\ MaxTwriteSector > 0
    /\ NumTwriteEntry \in Nat /\ NumTwriteEntry > 0
    /\ RemapThreshold \in Nat /\ RemapThreshold > 0
    /\ RemapSize \in Nat /\ RemapSize > 0
    /\ TwriteEntries \in Nat /\ TwriteEntries > 0
    /\ NumRemapEntry \in Nat /\ NumRemapEntry > 0
    /\ LPN \subseteq Nat /\ RSP_INVALID_LPN \notin LPN
<1>1. LPN \subseteq Nat /\ RSP_INVALID_LPN \notin LPN
  BY HostConstants DEF HostConstants
<1>2. \A n \in {LogSize, MinLogging, MaxTwritePage, MaxTwriteSector, NumTwriteEntry,
               RemapThreshold, RemapSize, NumRemapEntry, TwriteEntries} :
          n \in Nat /\ n > 0
  BY HostConstants DEF HostConstants
<1>3. MaxTwritePage <= MinLogging /\ MinLogging <= LogSize
  BY HostConstants DEF HostConstants
<1> QED
  BY <1>1, <1>2, <1>3

\* The ring of command addresses.
LEMMA NextEntryInRing ==
    ASSUME NEW n \in 0 .. TwriteEntries - 1
    PROVE  NextEntry(n) \in 0 .. TwriteEntries - 1
BY Constants DEF NextEntry

\* A transactional write fits between its address and the end of the log, and its
\* pages have the parity of their slots.
LEMMA PackingFits ==
    ASSUME TypeOK, ~NoRoom, NEW o_addr \in Packings(TwriteAddr, MaxPacked)
    PROVE  /\ o_addr \in Seq(LPN \cup {RSP_INVALID_LPN})
           /\ TwriteAddr \in 0 .. LogSize
           /\ TwriteAddr + Len(o_addr) <= LogSize
           /\ \A i \in 1 .. Len(o_addr) :
                  o_addr[i] # RSP_INVALID_LPN => o_addr[i] % 2 = (TwriteAddr + i - 1) % 2
<1> DEFINE pages == LPN \cup {RSP_INVALID_LPN}
<1>1. PICK n \in 0 .. MinOf(MaxPacked, NumTwriteEntry) : o_addr \in [1 .. n -> pages]
  BY DEF Packings
<1>2. TwriteAddr \in 0 .. LogSize /\ MaxPacked \in Nat /\ TwriteAddr + MaxPacked <= LogSize
  BY Constants DEF TypeOK, Slot, TwriteAddr, MaxPacked, MinOf, NoRoom, RoomAtEnd,
                   RoomAfterWrap, RoomBeforeStart, Linear
<1>3. n \in Nat /\ n <= MaxPacked
  BY <1>1, <1>2, Constants DEF MinOf
<1>4. o_addr \in Seq(pages) /\ Len(o_addr) = n
  BY <1>1, <1>3
<1>5. PICK num \in 0 .. NumTwriteEntry - 1 : PackedBy(o_addr, TwriteAddr, MaxPacked, num)
  BY DEF Packings
<1>6. \A i \in 1 .. Len(o_addr) :
          o_addr[i] # RSP_INVALID_LPN => o_addr[i] % 2 = (TwriteAddr + i - 1) % 2
  BY <1>4, <1>5, <1>1 DEF PackedBy
<1>7. TwriteAddr + Len(o_addr) <= LogSize
  BY <1>2, <1>3, <1>4, Constants
<1> QED
  BY <1>2, <1>4, <1>6, <1>7

\* The remap window is not empty and ends inside the log.
LEMMA WindowInLog ==
    ASSUME TypeOK, UsedSize > RemapThreshold
    PROVE  /\ RemapWindowSize \in Nat /\ RemapWindowSize > 0
           /\ rw_log_start_idx + RemapWindowSize <= LogSize
           /\ rw_log_start_idx + RemapWindowSize - 1 \in Slot
           /\ LogSize > 1
BY Constants DEF TypeOK, Slot, UsedSize, RemapWindowSize, MinOf, Linear

LEMMA ValidInFinite ==
    ASSUME NEW lo \in Nat, NEW hi \in Slot
    PROVE  /\ IsFiniteSet(ValidIn(lo, hi))
           /\ Cardinality(ValidIn(lo, hi)) \in 0 .. LogSize
<1>1. IsFiniteSet(Slot) /\ Cardinality(Slot) = LogSize
  BY Constants, FS_Interval DEF Slot
<1>2. ValidIn(lo, hi) \subseteq Slot
  BY DEF ValidIn
<1> QED
  BY <1>1, <1>2, FS_Subset, FS_CardinalityType, Constants

LEMMA MapEntries ==
    /\ NoMap \in MapEntry
    /\ \A l \in LPN : ValidMap(l) \in MapEntry /\ RemappingMap(l) \in MapEntry
BY DEF MapEntry

LEMMA MapEntryShape ==
    ASSUME NEW e \in MapEntry, e.flags = "VALID"
    PROVE  e.o_addr \in LPN /\ e = ValidMap(e.o_addr)
BY DEF MapEntry, NoMap, ValidMap, RemappingMap

\* While a packing error waits for its answer there is a page to answer for.
PageInError ==
    pc = "packing_error" => page <= Len(twrite_header.o_addr) /\ TwriteOAddr \in LPN

TypeInv == TypeOK /\ PageInError
-----------------------------------------------------------------------------
LEMMA TypeInvInit == Init => TypeInv
BY Constants DEF Init, TypeInv, PageInError, TypeOK, Slot, NoSlot, MapEntry

LEMMA TypeInvStep == TypeInv /\ [Next]_hostvars => TypeInv'
<1>1. TypeInv /\ [Next]_hostvars => TypeOK'
  <2> SUFFICES ASSUME TypeOK, PageInError, [Next]_hostvars
               PROVE  TypeOK'
    BY DEF TypeInv
  <2> USE Constants
  <2>1. CASE BeginTwrite
    <3>1. PICK o_addr \in Packings(TwriteAddr, MaxPacked) :
              twrite_header' = [t_addr_start |-> TwriteAddr, o_addr |-> o_addr]
      BY <2>1 DEF BeginTwrite
    <3>2. ~NoRoom
      BY <2>1 DEF BeginTwrite
    <3>3. /\ o_addr \in Seq(LPN \cup {RSP_INVALID_LPN})
          /\ TwriteAddr \in 0 .. LogSize
          /\ TwriteAddr + Len(o_addr) <= LogSize
      BY <3>1, <3>2, PackingFits
    <3>4. header_entry_num' \in 0 .. TwriteEntries - 1
      BY <2>1, NextEntryInRing DEF BeginTwrite, TypeOK
    <3>5. page' \in 1 .. Len(twrite_header'.o_addr) + 1
      BY <2>1, <3>1, <3>3 DEF BeginTwrite
    <3> QED
      BY <2>1, <3>1, <3>3, <3>4, <3>5 DEF BeginTwrite, TypeOK
  <2>2. CASE WritePadding
    BY <2>2 DEF WritePadding, TypeOK
  <2>3. ASSUME NEW s \in Slot, NEW l \in LPN, Redirect(s, l)
        PROVE  /\ map_entries' \in [Slot -> MapEntry]
               /\ redirection_map' \in [LPN -> Slot \cup {NoSlot}]
    BY <2>3, MapEntries DEF TypeOK, Redirect
  <2>4. ASSUME pc \in {"twrite", "packing_error"}, page <= Len(twrite_header.o_addr)
        PROVE  TwriteSlot \in Slot /\ TwriteOAddr \in LPN \cup {RSP_INVALID_LPN}
    <3> DEFINE addr == twrite_header.t_addr_start
               o_addr == twrite_header.o_addr
    <3>1. /\ addr \in Nat /\ page \in Nat /\ page >= 1 /\ page <= Len(o_addr)
          /\ o_addr \in Seq(LPN \cup {RSP_INVALID_LPN})
          /\ addr + Len(o_addr) <= LogSize
      BY <2>4 DEF TypeOK
    <3>2. Len(o_addr) \in Nat /\ o_addr[page] \in LPN \cup {RSP_INVALID_LPN}
      BY <3>1
    <3>3. addr + page - 1 \in 0 .. LogSize - 1
      BY <3>1, <3>2
    <3> QED
      BY <3>2, <3>3 DEF Slot, TwriteSlot, TwriteOAddr
  <2>5. CASE WritePage
    <3>1. TwriteSlot \in Slot /\ TwriteOAddr \in LPN
      BY <2>4, <2>5 DEF WritePage
    <3> QED
      BY <2>3, <2>5, <3>1 DEF WritePage, TypeOK
  <2>6. CASE PackingError
    <3>1. TwriteSlot \in Slot /\ TwriteOAddr \in LPN
      BY <2>4, <2>6 DEF PackingError
    <3> QED
      BY <2>6, <3>1, MapEntries DEF PackingError, TypeOK
  <2>7. CASE ResumePacking
    <3>1. page <= Len(twrite_header.o_addr) /\ TwriteOAddr \in LPN
      BY <2>7 DEF ResumePacking, PageInError
    <3>2. TwriteSlot \in Slot
      BY <2>4, <2>7, <3>1 DEF ResumePacking
    <3>3. page + 1 \in 1 .. Len(twrite_header.o_addr) + 1
      BY <3>1 DEF TypeOK
    <3> QED
      BY <2>3, <2>7, <3>1, <3>2, <3>3 DEF ResumePacking, TypeOK
  <2>8. CASE EndTwrite
    BY <2>8 DEF EndTwrite, TypeOK
  <2>9. CASE RemapNothing
    <3>1. rw_log_start_idx' \in Slot
      <4> DEFINE end == rw_log_start_idx + RemapWindowSize
      <4>1. end \in 0 .. LogSize /\ LogSize > 1
        BY <2>9, WindowInLog DEF RemapNothing, Slot, TypeOK
      <4>2. Wrap(end + 1) \in Slot
        BY <4>1 DEF Wrap, Slot
      <4> QED
        BY <2>9, <4>2 DEF RemapNothing
    <3> QED
      BY <2>9, <3>1 DEF RemapNothing, TypeOK
  <2>10. CASE BeginRemap
    <3>1. remap_end' \in Slot
      BY <2>10, WindowInLog DEF BeginRemap
    <3>2. remap_cnt' \in 0 .. LogSize
      BY <2>10, <3>1, WindowInLog, ValidInFinite DEF BeginRemap, TypeOK, Slot
    <3> QED
      BY <2>10, <3>1, <3>2 DEF BeginRemap, TypeOK
  <2>11. ASSUME SendRemap
         PROVE  /\ map_entries' \in [Slot -> MapEntry]
                /\ redirection_map' \in [LPN -> Slot \cup {NoSlot}]
                /\ remap_entry' \in Seq([t_addr : Slot, o_addr : LPN])
                /\ remap_entry_num' \in 0 .. TwriteEntries - 1
    <3>1. map_entries' \in [Slot -> MapEntry]
      BY <2>11, MapEntries DEF SendRemap, TypeOK
    <3>2. redirection_map' \in [LPN -> Slot \cup {NoSlot}]
      BY <2>11 DEF SendRemap, TypeOK
    <3>3. remap_entry' = <<>>
      BY <2>11 DEF SendRemap
    <3>4. remap_entry_num' \in 0 .. TwriteEntries - 1
      BY <2>11, NextEntryInRing DEF SendRemap, TypeOK
    <3> QED
      BY <3>1, <3>2, <3>3, <3>4
  <2>12. CASE RemapSendFull
    BY <2>11, <2>12 DEF RemapSendFull, TypeOK
  <2>13. CASE RemapCollect
    <3>1. PICK l \in LPN :
              /\ Remappable(l)
              /\ remap_entry' = Append(remap_entry,
                     [t_addr |-> redirection_map[l],
                      o_addr |-> map_entries[redirection_map[l]].o_addr])
              /\ map_entries' = [map_entries EXCEPT ![redirection_map[l]] =
                     RemappingMap(map_entries[redirection_map[l]].o_addr)]
      BY <2>13 DEF RemapCollect, NextRemappable
    <3>2. redirection_map[l] \in Slot /\ map_entries[redirection_map[l]].o_addr \in LPN
      BY <3>1, MapEntryShape DEF Remappable, IsValid, TypeOK
    <3>3. map_entries' \in [Slot -> MapEntry]
      BY <3>1, <3>2, MapEntries DEF TypeOK
    <3>4. remap_entry' \in Seq([t_addr : Slot, o_addr : LPN])
      <4>1. remap_entry \in Seq([t_addr : Slot, o_addr : LPN])
        BY DEF TypeOK
      <4>2. [t_addr |-> redirection_map[l], o_addr |-> map_entries[redirection_map[l]].o_addr]
                \in [t_addr : Slot, o_addr : LPN]
        BY <3>2
      <4> QED
        BY <3>1, <4>1, <4>2
    <3>5. remap_cnt' \in 0 .. LogSize
      BY <2>13 DEF RemapCollect, TypeOK
    <3> QED
      BY <2>13, <3>3, <3>4, <3>5 DEF RemapCollect, TypeOK
  <2>14. CASE RemapSendLast
    <3>1. rw_log_start_idx' \in Slot
      BY <2>14 DEF RemapSendLast, FreeWindow, Wrap, Slot, TypeOK
    <3> QED
      BY <2>11, <2>14, <3>1 DEF RemapSendLast, FreeWindow, TypeOK
  <2>15. CASE RemapRefused
    BY <2>15 DEF RemapRefused, TypeOK
  <2>16. CASE ResumeRefused
    BY <2>16 DEF ResumeRefused, TypeOK
  <2>17. CASE UNCHANGED hostvars
    BY <2>17 DEF hostvars, TypeOK
  <2> QED
    BY <2>1, <2>2, <2>5, <2>6, <2>7, <2>8, <2>9, <2>10, <2>12, <2>13, <2>14, <2>15,
       <2>16, <2>17 DEF Next, Twrite, Remap, Refused
<1>2. TypeInv /\ [Next]_hostvars => PageInError'
  <2> SUFFICES ASSUME TypeOK, PageInError, [Next]_hostvars
               PROVE  PageInError'
    BY DEF TypeInv
  <2>1. CASE PackingError
    <3>1. TwriteOAddr \in LPN
      BY <2>1 DEF PackingError, TypeOK, TwriteOAddr
    <3> QED
      BY <2>1, <3>1 DEF PackingError, PageInError, TwriteOAddr
  <2>2. CASE UNCHANGED hostvars
    BY <2>2 DEF hostvars, PageInError, TwriteOAddr
  <2>3. CASE Next /\ ~PackingError
    <3>1. pc' # "packing_error"
      BY <2>3 DEF Next, Twrite, Remap, Refused, BeginTwrite, WritePadding, WritePage,
         EndTwrite, ResumePacking, RemapNothing, BeginRemap, RemapSendFull,
         RemapCollect, RemapSendLast, FreeWindow, RemapRefused, ResumeRefused
    <3> QED
      BY <3>1 DEF PageInError
  <2> QED
    BY <2>1, <2>2, <2>3
<1> QED
  BY <1>1, <1>2 DEF TypeInv

LEMMA TypeInvariant == Spec => []TypeInv
BY TypeInvInit, TypeInvStep, PTL DEF Spec

\* Every variable keeps to its range: no step leaves the log, the ring of command
\* addresses or the header that is being written (do_twrite, do_remap).
THEOREM TypeCorrect == Spec => []TypeOK
<1>1. TypeInv => TypeOK
  BY DEF TypeInv
<1> QED
  BY <1>1, TypeInvariant, PTL
-----------------------------------------------------------------------------
(***************************************************************************)
(* The command under construction.  Its entries are REMAPPING, one slot is *)
(* in it once and its pages are still redirected there, so that SendRemap  *)
(* clears these slots and no other copy.                                   *)
(***************************************************************************)
PendingEntries ==
    \A i \in DOMAIN remap_entry :
        /\ redirection_map[remap_entry[i].o_addr] = remap_entry[i].t_addr
        /\ map_entries[remap_entry[i].t_addr] = RemappingMap(remap_entry[i].o_addr)

PendingInRemap == remap_entry # <<>> => pc = "remap"

\* remap_cnt counts the VALID entries left in the window.
WindowCount ==
    pc = "remap" => remap_cnt = Cardinality(ValidIn(rw_log_start_idx, remap_end))

LogInv ==
    /\ ValidIsRedirected
    /\ RemappingIsPending
    /\ PendingEntries
    /\ PendingInRemap
    /\ WindowCount

\* The pages of the header have the parity of their slots.
HeaderParity ==
    \A i \in 1 .. Len(twrite_header.o_addr) :
        twrite_header.o_addr[i] # RSP_INVALID_LPN =>
            twrite_header.o_addr[i] % 2 = (twrite_header.t_addr_start + i - 1) % 2

ParityInv == SameCore /\ HeaderParity
-----------------------------------------------------------------------------
\* do_remap never refuses while the log is at least as large as the threshold and
\* the two margins of HOST_gen_random_workload together (lines 281-330).  With the
\* constants of SHRD_host.h, 20480 + 128 + 128 <= 32768 + 1.
ThresholdFits == RemapThreshold + MinLogging + MaxTwritePage <= LogSize + 1

LEMMA NoRoomAboveThreshold ==
    ASSUME TypeOK, ThresholdFits, NoRoom
    PROVE  UsedSize > RemapThreshold
BY Constants DEF ThresholdFits, TypeOK, Slot, NoRoom, RoomAtEnd, RoomAfterWrap,
                 RoomBeforeStart, UsedSize, Linear

\* The host never waits in the getchar() of "should do remap, but didn't".
THEOREM RemapServed == ThresholdFits /\ Spec => []RemapNeverRefused
<1> SUFFICES ASSUME ThresholdFits
             PROVE  Spec => []RemapNeverRefused
  OBVIOUS
<1>1. Init => RemapNeverRefused
  BY DEF Init, RemapNeverRefused
<1>2. TypeInv /\ RemapNeverRefused /\ [Next]_hostvars => RemapNeverRefused'
  <2> SUFFICES ASSUME TypeOK, RemapNeverRefused, [Next]_hostvars
               PROVE  RemapNeverRefused'
    BY DEF TypeInv
  <2>1. ~RemapRefused
    BY NoRoomAboveThreshold, Constants DEF RemapRefused, TypeOK, UsedSize, Slot, Linear
  <2>2. CASE UNCHANGED hostvars
    BY <2>2 DEF hostvars, RemapNeverRefused
  <2>3. CASE Next
    BY <2>1, <2>3 DEF RemapNeverRefused, Next, Twrite, Remap, Refused, BeginTwrite,
       WritePadding, WritePage, PackingError, EndTwrite, ResumePacking, RemapNothing,
       BeginRemap, RemapSendFull, RemapCollect, RemapSendLast, FreeWindow, ResumeRefused
  <2> QED
    BY <2>2, <2>3
<1> QED
  BY <1>1, <1>2, TypeInvariant, PTL DEF Spec
-----------------------------------------------------------------------------
\* A logged page and its slot belong to the same core (lines 68-82, 144-152).
THEOREM CoresAgree == Spec => []SameCore
<1>1. Init => ParityInv
  BY DEF Init, ParityInv, SameCore, HeaderParity
<1>2. TypeInv /\ ParityInv /\ [Next]_hostvars => ParityInv'
  <2> SUFFICES ASSUME TypeOK, PageInError, SameCore, HeaderParity, [Next]_hostvars
               PROVE  ParityInv'
    BY DEF TypeInv, ParityInv
  <2>1. ASSUME pc \in {"twrite", "packing_error"}, page <= Len(twrite_header.o_addr),
               TwriteOAddr \in LPN
        PROVE  TwriteSlot \in Slot /\ TwriteOAddr % 2 = TwriteSlot % 2
    <3>1. /\ page \in 1 .. Len(twrite_header.o_addr)
          /\ twrite_header.t_addr_start \in Nat
          /\ twrite_header.t_addr_start + Len(twrite_header.o_addr) <= LogSize
          /\ Len(twrite_header.o_addr) \in Nat
      BY <2>1 DEF TypeOK
    <3>2. TwriteSlot \in Slot
      BY <3>1, Constants DEF TwriteSlot, Slot
    <3>3. TwriteOAddr # RSP_INVALID_LPN
      BY <2>1, Constants
    <3> QED
      BY <3>1, <3>2, <3>3 DEF HeaderParity, TwriteOAddr, TwriteSlot
  <2>2. ASSUME NEW s \in Slot, NEW l \in LPN, l % 2 = s % 2, Redirect(s, l)
        PROVE  SameCore'
    <3> SUFFICES ASSUME NEW t \in Slot, map_entries'[t] # NoMap
                 PROVE  map_entries'[t].o_addr % 2 = t % 2
      BY DEF SameCore
    <3>1. t = s => map_entries'[t] = ValidMap(l)
      BY <2>2 DEF Redirect, TypeOK
    <3>2. t # s => map_entries'[t] = map_entries[t]
      BY <2>2 DEF Redirect, TypeOK
    <3> QED
      BY <2>2, <3>1, <3>2 DEF SameCore, ValidMap
  <2>3. CASE BeginTwrite
    <3>1. PICK o_addr \in Packings(TwriteAddr, MaxPacked) :
              twrite_header' = [t_addr_start |-> TwriteAddr, o_addr |-> o_addr]
      BY <2>3 DEF BeginTwrite
    <3>2. \A i \in 1 .. Len(o_addr) :
              o_addr[i] # RSP_INVALID_LPN => o_addr[i] % 2 = (TwriteAddr + i - 1) % 2
      BY <2>3, PackingFits DEF BeginTwrite
    <3>3. HeaderParity'
      BY <3>1, <3>2 DEF HeaderParity
    <3> QED
      BY <2>3, <3>3 DEF BeginTwrite, ParityInv, SameCore
  <2>4. CASE WritePage
    <3>1. page <= Len(twrite_header.o_addr) /\ TwriteOAddr \in LPN
      BY <2>4 DEF WritePage, TypeOK, TwriteOAddr
    <3> QED
      BY <2>1, <2>2, <2>4, <3>1 DEF WritePage, ParityInv, HeaderParity
  <2>5. CASE ResumePacking
    <3>1. page <= Len(twrite_header.o_addr) /\ TwriteOAddr \in LPN
      BY <2>5 DEF ResumePacking, PageInError
    <3> QED
      BY <2>1, <2>2, <2>5, <3>1 DEF ResumePacking, ParityInv, HeaderParity
  <2>6. CASE PackingError
    <3>1. page <= Len(twrite_header.o_addr) /\ TwriteOAddr \in LPN
      BY <2>6 DEF PackingError, TypeOK, TwriteOAddr
    <3>2. TwriteSlot \in Slot /\ TwriteOAddr % 2 = TwriteSlot % 2
      BY <2>1, <2>6, <3>1 DEF PackingError
    <3>3. SameCore'
      BY <2>6, <3>1, <3>2 DEF PackingError, SameCore, TypeOK, ValidMap
    <3> QED
      BY <2>6, <3>3 DEF PackingError, ParityInv, HeaderParity
  <2>7. CASE EndTwrite
    BY <2>7 DEF EndTwrite, ParityInv, SameCore, HeaderParity
  <2>8. ASSUME SendRemap
        PROVE  SameCore'
    BY <2>8 DEF SendRemap, SameCore, TypeOK
  <2>9. CASE RemapCollect
    <3>1. PICK l \in LPN :
              /\ Remappable(l)
              /\ map_entries' = [map_entries EXCEPT ![redirection_map[l]] =
                     RemappingMap(map_entries[redirection_map[l]].o_addr)]
      BY <2>9 DEF RemapCollect, NextRemappable
    <3>2. redirection_map[l] \in Slot /\ IsValid(redirection_map[l])
      BY <3>1 DEF Remappable, TypeOK
    <3>3. map_entries[redirection_map[l]] # NoMap
      BY <3>2 DEF IsValid, NoMap
    <3>4. SameCore'
      BY <3>1, <3>2, <3>3 DEF SameCore, TypeOK, RemappingMap
    <3> QED
      BY <2>9, <3>4 DEF RemapCollect, ParityInv, HeaderParity
  <2>10. CASE RemapSendFull \/ RemapSendLast
    <3>1. twrite_header' = twrite_header
      BY <2>10 DEF RemapSendFull, RemapSendLast, FreeWindow
    <3> QED
      BY <2>8, <2>10, <3>1 DEF RemapSendFull, RemapSendLast, ParityInv, HeaderParity
  <2>11. CASE \/ WritePadding \/ RemapNothing \/ BeginRemap \/ Refused
              \/ UNCHANGED hostvars
    <3>1. UNCHANGED <<map_entries, twrite_header>>
      BY <2>11 DEF WritePadding, RemapNothing, BeginRemap, Refused, RemapRefused,
                   ResumeRefused, hostvars
    <3> QED
      BY <3>1 DEF ParityInv, SameCore, HeaderParity
  <2> QED
    BY <2>3, <2>4, <2>5, <2>6, <2>7, <2>9, <2>10, <2>11 DEF Next, Twrite, Remap
<1>3. ParityInv => SameCore
  BY DEF ParityInv
<1> QED
  BY <1>1, <1>2, <1>3, TypeInvariant, PTL DEF Spec
-----------------------------------------------------------------------------
(***************************************************************************)
(* The redirection map and the log entries agree.  First what one step     *)
(* does to them: a redirection, and a remap command that is sent.          *)
(***************************************************************************)
PageOf(s) == map_entries[s].o_addr

\* Redirecting l to s leaves every VALID entry the one its page is redirected to,
\* whatever s held before.
LEMMA RedirectKeepsAgreement ==
    ASSUME TypeOK, ValidIsRedirected, NEW s \in Slot, NEW l \in LPN, Redirect(s, l),
           pc = "packing_error" => s = TwriteSlot
    PROVE  \A t \in Slot : map_entries'[t].flags = "VALID" =>
               redirection_map'[map_entries'[t].o_addr] = t
<1> SUFFICES ASSUME NEW t \in Slot, map_entries'[t].flags = "VALID"
             PROVE  redirection_map'[map_entries'[t].o_addr] = t
  OBVIOUS
<1>1. NoMap.flags # "VALID"
  BY DEF NoMap
<1>2. redirection_map[l] # t
  BY <1>1, Constants DEF Redirect, TypeOK, NoSlot, Slot
<1>3. CASE t = s
  BY <1>3, <1>2 DEF Redirect, TypeOK, ValidMap
<1>4. CASE t # s
  <2>1. map_entries'[t] = map_entries[t]
    BY <1>2, <1>4 DEF Redirect, TypeOK
  <2>2. IsValid(t) /\ redirection_map[PageOf(t)] = t
    BY <1>4, <2>1 DEF ValidIsRedirected, IsValid, PageOf
  <2>3. PageOf(t) \in LPN /\ PageOf(t) # l
    BY <1>2, <2>2, MapEntryShape DEF TypeOK, IsValid, PageOf
  <2> QED
    BY <2>1, <2>2, <2>3 DEF Redirect, TypeOK, PageOf
<1> QED
  BY <1>3, <1>4

LEMMA RedirectKeepsFlags ==
    ASSUME TypeOK, NEW s \in Slot, NEW l \in LPN, Redirect(s, l),
           NEW t \in Slot, map_entries'[t].flags = "REMAPPING"
    PROVE  map_entries[t].flags = "REMAPPING"
BY DEF Redirect, TypeOK, ValidMap, NoMap

\* A sent command clears its own slots and no other copy of its pages.
LEMMA SendKeepsAgreement ==
    ASSUME TypeOK, LogInv, pc = "remap", SendRemap
    PROVE  /\ \A t \in Slot : map_entries'[t].flags = "VALID" =>
                  /\ map_entries'[t] = map_entries[t]
                  /\ redirection_map'[map_entries'[t].o_addr] = t
           /\ \A t \in Slot : map_entries[t].flags = "VALID" =>
                  map_entries'[t] = map_entries[t]
           /\ \A t \in Slot : map_entries'[t].flags # "REMAPPING"
<1> DEFINE Sent(t) == \E i \in DOMAIN remap_entry : remap_entry[i].t_addr = t
<1>1. \A t \in Slot : map_entries'[t] = IF Sent(t) THEN NoMap ELSE map_entries[t]
  BY DEF SendRemap
<1>2. NoMap.flags = "INVALID"
  BY DEF NoMap
<1>3. \A t \in Slot : map_entries[t].flags = "VALID" => ~Sent(t)
  <2> SUFFICES ASSUME NEW i \in DOMAIN remap_entry
               PROVE  map_entries[remap_entry[i].t_addr].flags # "VALID"
    OBVIOUS
  <2>1. map_entries[remap_entry[i].t_addr] = RemappingMap(remap_entry[i].o_addr)
    BY DEF LogInv, PendingEntries
  <2> QED
    BY <2>1 DEF RemappingMap
<1>4. \A t \in Slot : map_entries'[t].flags = "VALID" =>
          /\ map_entries'[t] = map_entries[t]
          /\ redirection_map'[map_entries'[t].o_addr] = t
  <2> SUFFICES ASSUME NEW t \in Slot, map_entries'[t].flags = "VALID"
               PROVE  /\ map_entries'[t] = map_entries[t]
                      /\ redirection_map'[map_entries'[t].o_addr] = t
    OBVIOUS
  <2>1. map_entries'[t] = map_entries[t] /\ ~Sent(t)
    BY <1>1, <1>2
  <2>2. IsValid(t) /\ PageOf(t) \in LPN
    BY <2>1, MapEntryShape DEF IsValid, PageOf, TypeOK
  <2>3. redirection_map[PageOf(t)] = t
    BY <2>2 DEF LogInv, ValidIsRedirected, PageOf
  <2>4. ~ \E i \in DOMAIN remap_entry : remap_entry[i].o_addr = PageOf(t)
    BY <2>1, <2>3 DEF LogInv, PendingEntries
  <2>5. redirection_map'[PageOf(t)] = redirection_map[PageOf(t)]
    BY <2>2, <2>4 DEF SendRemap
  <2> QED
    BY <2>1, <2>3, <2>5 DEF PageOf
<1>5. \A t \in Slot : map_entries'[t].flags # "REMAPPING"
  <2> SUFFICES ASSUME NEW t \in Slot, map_entries[t].flags = "REMAPPING"
               PROVE  Sent(t)
    BY <1>1, <1>2
  <2> QED
    BY DEF LogInv, RemappingIsPending
<1> QED
  BY <1>1, <1>3, <1>4, <1>5
-----------------------------------------------------------------------------
LEMMA LogInvInit == Init => LogInv
<1> SUFFICES ASSUME Init
             PROVE  LogInv
  OBVIOUS
<1>1. \A s \in Slot : map_entries[s].flags = "INVALID"
  BY DEF Init, NoMap
<1>2. remap_entry = <<>> /\ DOMAIN remap_entry = {} /\ pc = "ready"
  BY DEF Init
<1> QED
  BY <1>1, <1>2 DEF LogInv, ValidIsRedirected, RemappingIsPending, PendingEntries,
                    PendingInRemap, WindowCount, IsValid

\* Outside a remap there is no command under construction, and a step that leaves
\* no remap behind need only care for the VALID entries.
LEMMA LogInvOutsideRemap ==
    ASSUME LogInv, pc # "remap", pc' # "remap", UNCHANGED remap_entry,
           ValidIsRedirected',
           \A t \in Slot : map_entries'[t].flags = "REMAPPING" =>
               map_entries[t].flags = "REMAPPING"
    PROVE  LogInv'
<1>1. remap_entry = <<>> /\ DOMAIN remap_entry = {}
  BY DEF LogInv, PendingInRemap
<1>2. \A t \in Slot : map_entries[t].flags # "REMAPPING"
  BY <1>1 DEF LogInv, RemappingIsPending
<1>3. RemappingIsPending'
  BY <1>1, <1>2 DEF RemappingIsPending
<1>4. PendingEntries' /\ PendingInRemap' /\ WindowCount'
  BY <1>1 DEF PendingEntries, PendingInRemap, WindowCount
<1> QED
  BY <1>3, <1>4 DEF LogInv

LEMMA LogInvTwrite ==
    ASSUME TypeInv, LogInv, Twrite \/ ResumePacking
    PROVE  LogInv'
<1> USE DEF TypeInv
<1>1. pc # "remap" /\ pc' # "remap" /\ UNCHANGED remap_entry
  BY DEF Twrite, BeginTwrite, WritePadding, WritePage, PackingError, EndTwrite,
         ResumePacking
<1>2. CASE BeginTwrite \/ WritePadding \/ EndTwrite
  <2>1. UNCHANGED <<map_entries, redirection_map>> /\ pc # "packing_error"
        /\ pc' # "packing_error"
    BY <1>2 DEF BeginTwrite, WritePadding, EndTwrite
  <2>2. ValidIsRedirected'
    BY <2>1 DEF LogInv, ValidIsRedirected, IsValid
  <2> QED
    BY <1>1, <2>1, <2>2, LogInvOutsideRemap
<1>3. ASSUME NEW s \in Slot, NEW l \in LPN, Redirect(s, l), pc' = "twrite",
             pc = "packing_error" => s = TwriteSlot
      PROVE  LogInv'
  <2>1. ValidIsRedirected'
    BY <1>3, RedirectKeepsAgreement DEF LogInv, ValidIsRedirected, IsValid
  <2> QED
    BY <1>1, <1>3, <2>1, RedirectKeepsFlags, LogInvOutsideRemap
<1>4. ASSUME page <= Len(twrite_header.o_addr), pc \in {"twrite", "packing_error"}
      PROVE  TwriteSlot \in Slot
  <2>1. /\ page \in Nat /\ page >= 1 /\ Len(twrite_header.o_addr) \in Nat
        /\ twrite_header.t_addr_start \in Nat
        /\ twrite_header.t_addr_start + Len(twrite_header.o_addr) <= LogSize
    BY DEF TypeOK
  <2> QED
    BY <1>4, <2>1, Constants DEF TwriteSlot, Slot
<1>5. CASE WritePage
  <2>1. TwriteSlot \in Slot /\ TwriteOAddr \in LPN
    BY <1>4, <1>5 DEF WritePage, TypeOK, TwriteOAddr
  <2> QED
    BY <1>3, <1>5, <2>1 DEF WritePage
<1>6. CASE ResumePacking
  <2>1. TwriteSlot \in Slot /\ TwriteOAddr \in LPN
    BY <1>4, <1>6 DEF ResumePacking, PageInError
  <2> QED
    BY <1>3, <1>6, <2>1 DEF ResumePacking
<1>7. CASE PackingError
  <2>1. TwriteSlot \in Slot /\ TwriteSlot' = TwriteSlot
    BY <1>4, <1>7 DEF PackingError, TwriteSlot
  <2>2. \A t \in Slot : t # TwriteSlot => map_entries'[t] = map_entries[t]
    BY <1>7 DEF PackingError, TypeOK
  <2>3. map_entries'[TwriteSlot].flags = "VALID"
    BY <1>7, <2>1 DEF PackingError, TypeOK, ValidMap
  <2>4. UNCHANGED redirection_map /\ pc # "packing_error" /\ pc' = "packing_error"
    BY <1>7 DEF PackingError
  <2>5. ValidIsRedirected'
    BY <2>1, <2>2, <2>4 DEF LogInv, ValidIsRedirected, IsValid
  <2>6. \A t \in Slot : map_entries'[t].flags = "REMAPPING" =>
            map_entries[t].flags = "REMAPPING"
    BY <2>2, <2>3
  <2> QED
    BY <1>1, <2>5, <2>6, LogInvOutsideRemap
<1> QED
  BY <1>2, <1>5, <1>6, <1>7 DEF Twrite

LEMMA LogInvBeginRemap ==
    ASSUME TypeInv, LogInv, BeginRemap
    PROVE  LogInv'
<1>1. UNCHANGED <<map_entries, redirection_map, rw_log_start_idx>>
  BY DEF BeginRemap
<1>2. remap_entry = <<>> /\ remap_entry' = <<>> /\ pc = "ready" /\ pc' = "remap"
  BY DEF BeginRemap, LogInv, PendingInRemap
<1>3. ValidIsRedirected'
  BY <1>1, <1>2 DEF LogInv, ValidIsRedirected, IsValid
<1>4. RemappingIsPending' /\ PendingEntries' /\ PendingInRemap'
  BY <1>1, <1>2 DEF LogInv, RemappingIsPending, PendingEntries, PendingInRemap
<1>5. remap_cnt' = Cardinality(ValidIn(rw_log_start_idx, remap_end'))
  BY DEF BeginRemap
<1>6. ValidIn(rw_log_start_idx', remap_end') = ValidIn(rw_log_start_idx, remap_end')
  BY <1>1
<1>7. WindowCount'
  BY <1>1, <1>5 DEF WindowCount, ValidIn, IsValid
<1> QED
  BY <1>3, <1>4, <1>7 DEF LogInv

\* The slot collected is VALID, so it is not in the command yet, and is one of those
\* that remap_cnt counts.
LEMMA LogInvCollect ==
    ASSUME TypeInv, LogInv, RemapCollect
    PROVE  LogInv'
<1> USE DEF TypeInv
<1>1. PICK l \in LPN :
          /\ Remappable(l)
          /\ remap_entry' = Append(remap_entry, [t_addr |-> redirection_map[l],
                                                 o_addr |-> PageOf(redirection_map[l])])
          /\ map_entries' = [map_entries EXCEPT ![redirection_map[l]] =
                 RemappingMap(PageOf(redirection_map[l]))]
  BY DEF RemapCollect, NextRemappable, PageOf
<1> DEFINE s == redirection_map[l]
           o == PageOf(s)
<1>2. /\ s \in Slot /\ IsValid(s) /\ s \in rw_log_start_idx .. remap_end
      /\ pc = "remap" /\ pc' = "remap"
      /\ UNCHANGED <<redirection_map, rw_log_start_idx, remap_end>>
  BY <1>1 DEF Remappable, TypeOK, RemapCollect
<1>3. redirection_map[o] = s
  BY <1>2 DEF LogInv, ValidIsRedirected, PageOf
<1>4. /\ map_entries'[s] = RemappingMap(o)
      /\ \A t \in Slot : t # s => map_entries'[t] = map_entries[t]
  BY <1>1, <1>2 DEF TypeOK
<1>5. RemappingMap(o).flags = "REMAPPING"
  BY DEF RemappingMap
<1>6. ValidIsRedirected'
  BY <1>2, <1>4, <1>5 DEF LogInv, ValidIsRedirected, IsValid
<1>7. remap_entry \in Seq([t_addr : Slot, o_addr : LPN])
  BY DEF TypeOK
<1>8. /\ Len(remap_entry) \in Nat /\ DOMAIN remap_entry = 1 .. Len(remap_entry)
      /\ DOMAIN remap_entry' = 1 .. Len(remap_entry) + 1
      /\ \A i \in DOMAIN remap_entry :
            remap_entry'[i] = remap_entry[i] /\ remap_entry[i].t_addr \in Slot
      /\ remap_entry'[Len(remap_entry) + 1] = [t_addr |-> s, o_addr |-> o]
  <2>1. [t_addr |-> s, o_addr |-> o] \in [t_addr : Slot, o_addr : LPN]
    BY <1>2, MapEntryShape DEF TypeOK, IsValid, PageOf
  <2>2. \A i \in DOMAIN remap_entry : remap_entry[i].t_addr \in Slot
    <3>1. \A i \in 1 .. Len(remap_entry) :
              remap_entry[i] \in [t_addr : Slot, o_addr : LPN]
      BY <1>7, LenProperties
    <3> QED
      BY <1>7, <3>1, LenProperties
  <2>3. remap_entry' = Append(remap_entry, [t_addr |-> s, o_addr |-> o])
    BY <1>1
  <2> HIDE DEF s, o
  <2> QED
    BY <1>7, <2>1, <2>2, <2>3
<1>9. \A i \in DOMAIN remap_entry : remap_entry[i].t_addr # s
  <2> SUFFICES ASSUME NEW i \in DOMAIN remap_entry
               PROVE  map_entries[remap_entry[i].t_addr].flags # "VALID"
    BY <1>2 DEF IsValid
  <2>1. map_entries[remap_entry[i].t_addr] = RemappingMap(remap_entry[i].o_addr)
    BY DEF LogInv, PendingEntries
  <2> QED
    BY <2>1 DEF RemappingMap
<1>10. PendingEntries'
  <2> SUFFICES ASSUME NEW i \in DOMAIN remap_entry'
               PROVE  /\ redirection_map'[remap_entry'[i].o_addr] = remap_entry'[i].t_addr
                      /\ map_entries'[remap_entry'[i].t_addr]
                             = RemappingMap(remap_entry'[i].o_addr)
    BY DEF PendingEntries
  <2>1. CASE i = Len(remap_entry) + 1
    BY <1>2, <1>3, <1>4, <1>8, <2>1
  <2>2. CASE i \in DOMAIN remap_entry
    BY <1>2, <1>4, <1>8, <1>9, <2>2 DEF LogInv, PendingEntries
  <2> QED
    BY <1>8, <2>1, <2>2
<1>11. RemappingIsPending'
  <2>1. \A t \in Slot : map_entries'[t].flags = "REMAPPING" =>
            \E i \in DOMAIN remap_entry' : remap_entry'[i].t_addr = t
    <3> SUFFICES ASSUME NEW t \in Slot, map_entries'[t].flags = "REMAPPING"
                 PROVE  \E i \in DOMAIN remap_entry' : remap_entry'[i].t_addr = t
      OBVIOUS
    <3>1. CASE t = s
      BY <1>8, <3>1
    <3>2. CASE t # s
      <4>1. map_entries[t].flags = "REMAPPING"
        BY <1>4, <3>2
      <4>2. PICK i \in DOMAIN remap_entry : remap_entry[i].t_addr = t
        BY <4>1 DEF LogInv, RemappingIsPending
      <4> QED
        BY <1>8, <4>2
    <3> QED
      BY <3>1, <3>2
  <2>2. \A i \in DOMAIN remap_entry' :
            /\ remap_entry'[i].t_addr \in Slot
            /\ map_entries'[remap_entry'[i].t_addr].flags = "REMAPPING"
    <3> SUFFICES ASSUME NEW i \in DOMAIN remap_entry'
                 PROVE  /\ remap_entry'[i].t_addr \in Slot
                        /\ map_entries'[remap_entry'[i].t_addr].flags = "REMAPPING"
      OBVIOUS
    <3>1. remap_entry'[i].t_addr \in Slot
      BY <1>2, <1>8
    <3>2. map_entries'[remap_entry'[i].t_addr] = RemappingMap(remap_entry'[i].o_addr)
      BY <1>10 DEF PendingEntries
    <3> QED
      BY <3>1, <3>2 DEF RemappingMap
  <2> QED
    BY <2>1, <2>2 DEF RemappingIsPending
<1>12. WindowCount'
  <2> DEFINE valid == ValidIn(rw_log_start_idx, remap_end)
  <2>1. s \in valid /\ IsFiniteSet(valid) /\ remap_cnt = Cardinality(valid)
    BY <1>2, ValidInFinite DEF ValidIn, LogInv, WindowCount, TypeOK, Slot
  <2>2. ValidIn(rw_log_start_idx, remap_end)' = valid \ {s}
    BY <1>2, <1>4, <1>5 DEF ValidIn, IsValid
  <2>3. Cardinality(valid \ {s}) = Cardinality(valid) - 1
    BY <2>1, FS_RemoveElement
  <2> QED
    BY <2>1, <2>2, <2>3 DEF WindowCount, RemapCollect
<1>13. PendingInRemap'
  BY <1>2 DEF PendingInRemap
<1> QED
  BY <1>6, <1>10, <1>11, <1>12, <1>13 DEF LogInv

LEMMA LogInvSend ==
    ASSUME TypeInv, LogInv, RemapSendFull \/ RemapSendLast
    PROVE  LogInv'
<1> USE DEF TypeInv
<1>1. pc = "remap" /\ SendRemap
  BY DEF RemapSendFull, RemapSendLast
<1>2. remap_entry' = <<>> /\ DOMAIN remap_entry' = {}
  BY <1>1 DEF SendRemap
<1>3. /\ \A t \in Slot : map_entries'[t].flags = "VALID" =>
            /\ map_entries'[t] = map_entries[t]
            /\ redirection_map'[map_entries'[t].o_addr] = t
      /\ \A t \in Slot : map_entries[t].flags = "VALID" =>
            map_entries'[t] = map_entries[t]
      /\ \A t \in Slot : map_entries'[t].flags # "REMAPPING"
  BY <1>1, SendKeepsAgreement
<1>4. ValidIsRedirected'
  BY <1>3 DEF ValidIsRedirected, IsValid
<1>5. RemappingIsPending' /\ PendingEntries' /\ PendingInRemap'
  BY <1>2, <1>3 DEF RemappingIsPending, PendingEntries, PendingInRemap
<1>6. CASE RemapSendFull
  <2>1. /\ UNCHANGED <<pc, rw_log_start_idx, remap_end, remap_cnt>>
    BY <1>6 DEF RemapSendFull
  <2>2. ValidIn(rw_log_start_idx, remap_end)' = ValidIn(rw_log_start_idx, remap_end)
    BY <1>3, <2>1 DEF ValidIn, IsValid
  <2>3. WindowCount'
    BY <2>1, <2>2 DEF LogInv, WindowCount
  <2> QED
    BY <1>4, <1>5, <2>3 DEF LogInv
<1>7. CASE RemapSendLast
  <2>1. pc' = "ready"
    BY <1>7 DEF RemapSendLast, FreeWindow
  <2> QED
    BY <1>4, <1>5, <2>1 DEF LogInv, WindowCount
<1> QED
  BY <1>6, <1>7

LEMMA LogInvOthers ==
    ASSUME TypeInv, LogInv, RemapNothing \/ Refused \/ UNCHANGED hostvars
    PROVE  LogInv'
<1>1. CASE RemapNothing \/ Refused
  <2>1. /\ UNCHANGED <<map_entries, redirection_map, remap_entry>>
        /\ pc \notin {"remap", "packing_error"} /\ pc' \notin {"remap", "packing_error"}
    BY <1>1 DEF RemapNothing, Refused, RemapRefused, ResumeRefused
  <2>2. ValidIsRedirected'
    BY <2>1 DEF LogInv, ValidIsRedirected, IsValid
  <2> QED
    BY <2>1, <2>2, LogInvOutsideRemap
<1>2. CASE UNCHANGED hostvars
  BY <1>2 DEF hostvars, LogInv, ValidIsRedirected, RemappingIsPending, PendingEntries,
              PendingInRemap, WindowCount, ValidIn, IsValid, TwriteSlot
<1> QED
  BY <1>1, <1>2

LEMMA LogInvStep == TypeInv /\ LogInv /\ [Next]_hostvars => LogInv'
BY LogInvTwrite, LogInvBeginRemap, LogInvCollect, LogInvSend, LogInvOthers DEF Next, Remap

LEMMA LogInvariant == Spec => []LogInv
BY LogInvInit, LogInvStep, TypeInvariant, PTL DEF Spec

\* No logged copy is forgotten: a VALID entry is the one its page is redirected to
\* (lines 137-152 and 218-252), also after a write was packed over a VALID entry.
THEOREM NoCopyForgotten == Spec => []ValidIsRedirected
<1>1. LogInv => ValidIsRedirected
  BY DEF LogInv
<1> QED
  BY <1>1, LogInvariant, PTL

\* No entry stays in state REMAPPING when __do_remap returns (lines 205-252).
THEOREM NoRemapForgotten == Spec => []RemappingIsPending
<1>1. LogInv => RemappingIsPending
  BY DEF LogInv
<1> QED
  BY <1>1, LogInvariant, PTL

\* __do_remap's second loop finds as many pages as its first loop counted, so it
\* ends by sending its last command and never runs off the map (lines 174-252).
THEOREM RemapComplete == Spec => []RemapFindsAll
<1>1. TypeInv /\ LogInv => RemapFindsAll
  <2> SUFFICES ASSUME TypeOK, LogInv, pc = "remap", remap_cnt > 0
               PROVE  \E l \in LPN : Remappable(l)
    BY DEF TypeInv, RemapFindsAll
  <2> DEFINE valid == ValidIn(rw_log_start_idx, remap_end)
  <2>1. remap_cnt = Cardinality(valid)
    BY DEF LogInv, WindowCount
  <2>2. valid # {}
    BY <2>1, FS_EmptySet
  <2>3. PICK s \in valid : TRUE
    BY <2>2
  <2>4. s \in Slot /\ IsValid(s) /\ s \in rw_log_start_idx .. remap_end
    BY <2>3 DEF ValidIn
  <2>5. PageOf(s) \in LPN /\ redirection_map[PageOf(s)] = s
    BY <2>4, MapEntryShape DEF LogInv, ValidIsRedirected, TypeOK, IsValid, PageOf
  <2>6. s # NoSlot
    BY <2>4 DEF Slot, NoSlot
  <2> QED
    BY <2>4, <2>5, <2>6 DEF Remappable
<1> QED
  BY <1>1, LogInvariant, TypeInvariant, PTL
-----------------------------------------------------------------------------
(***************************************************************************)
(* The log as it behaves while no step of it skips a live entry and no     *)
(* write fills it up to its start (Guarded), for every size of the log, of *)
(* the writes and of the remap commands.                                   *)
(***************************************************************************)
GuardedNext == Next /\ ~SkipsLiveEntry /\ ~FillsToStart

\* What holds of the host holds of the guarded host.
LEMMA GuardedHost == Guarded => [](TypeInv /\ LogInv) /\ [][GuardedNext]_hostvars
<1>1. [Next /\ ~SkipsLiveEntry /\ ~FillsToStart]_hostvars => [Next]_hostvars
  OBVIOUS
<1>2. [Next /\ ~SkipsLiveEntry /\ ~FillsToStart]_hostvars => [GuardedNext]_hostvars
  BY DEF GuardedNext
<1>3. Guarded => Spec
  BY <1>1, PTL DEF Guarded, Spec
<1>4. Guarded => [][GuardedNext]_hostvars
  BY <1>2, PTL DEF Guarded
<1> QED
  BY <1>3, <1>4, TypeInvariant, LogInvariant, PTL
-----------------------------------------------------------------------------
(***************************************************************************)
(* The write under way goes to the end of the log and stops short of its   *)
(* start; the window of a remap ends before the end of the log.            *)
(***************************************************************************)
WriteStopsShort ==
    pc = "twrite" =>
        /\ twrite_header.t_addr_start = rw_log_new_idx
        /\ ~Linear => rw_log_new_idx + Len(twrite_header.o_addr) < rw_log_start_idx

WindowBeforeEnd ==
    pc = "remap" =>
        /\ rw_log_start_idx <= remap_end
        /\ Linear => remap_end < rw_log_new_idx

WindowInv ==
    /\ LiveInWindow
    /\ NoPackingError
    /\ WriteStopsShort
    /\ WindowBeforeEnd

\* A write that goes before the start of the log goes up to it at most.
LEMMA PackingBelowStart ==
    ASSUME TypeOK, ~NoRoom, TwriteAddr < rw_log_start_idx,
           NEW o_addr \in Packings(TwriteAddr, MaxPacked)
    PROVE  TwriteAddr + Len(o_addr) <= rw_log_start_idx
<1>1. MaxPacked \in Nat /\ TwriteAddr + MaxPacked <= rw_log_start_idx /\ TwriteAddr \in Nat
  BY Constants DEF TypeOK, Slot, TwriteAddr, MaxPacked, MinOf, NoRoom, RoomAtEnd,
                   RoomAfterWrap, RoomBeforeStart, Linear
<1>2. PICK n \in 0 .. MinOf(MaxPacked, NumTwriteEntry) :
          o_addr \in [1 .. n -> LPN \cup {RSP_INVALID_LPN}]
  BY DEF Packings
<1>3. n \in Nat /\ n <= MaxPacked /\ Len(o_addr) = n
  BY <1>1, <1>2, Constants DEF MinOf
<1> QED
  BY <1>1, <1>3, Constants DEF TypeOK, Slot

\* The slot of the next page holds no VALID entry.
LEMMA SlotIsFree ==
    ASSUME TypeOK, WindowInv, pc = "twrite", page <= Len(twrite_header.o_addr)
    PROVE  /\ TwriteSlot \in Slot
           /\ ~IsValid(TwriteSlot)
<1>1. /\ twrite_header.t_addr_start = rw_log_new_idx
      /\ ~Linear => rw_log_new_idx + Len(twrite_header.o_addr) < rw_log_start_idx
      /\ page \in Nat /\ page >= 1 /\ Len(twrite_header.o_addr) \in Nat
      /\ rw_log_new_idx \in Nat /\ rw_log_start_idx \in Nat
      /\ rw_log_new_idx + Len(twrite_header.o_addr) <= LogSize
  BY DEF TypeOK, WindowInv, WriteStopsShort, Slot
<1>2. TwriteSlot = rw_log_new_idx + page - 1
  BY <1>1 DEF TwriteSlot
<1>3. TwriteSlot \in Slot
  BY <1>1, <1>2, Constants DEF Slot
<1>4. ~InUse(TwriteSlot)
  BY <1>1, <1>2 DEF InUse, Linear
<1>5. ~BeingPacked(TwriteSlot)
  BY <1>1, <1>2 DEF BeingPacked
<1> QED
  BY <1>3, <1>4, <1>5 DEF WindowInv, LiveInWindow

\* A step that moves neither end of the log, makes no entry VALID and packs nothing.
LEMMA WindowStays ==
    ASSUME TypeOK, WindowInv, UNCHANGED <<rw_log_start_idx, rw_log_new_idx>>,
           pc # "twrite", pc' \notin {"twrite", "packing_error"},
           \A s \in Slot : IsValid(s)' => IsValid(s)
    PROVE  LiveInWindow' /\ NoPackingError' /\ WriteStopsShort'
<1>1. ASSUME NEW s \in Slot, IsValid(s)'
      PROVE  InUse(s)'
  <2>1. InUse(s) \/ BeingPacked(s)
    BY <1>1 DEF WindowInv, LiveInWindow
  <2>2. ~BeingPacked(s)
    BY DEF WindowInv, NoPackingError, BeingPacked
  <2> QED
    BY <2>1, <2>2 DEF InUse, Linear
<1> QED
  BY <1>1 DEF LiveInWindow, NoPackingError, WriteStopsShort

\* The log start moves on to the slot after hi over entries that are not VALID.
LEMMA StartMoves ==
    ASSUME TypeOK, WindowInv, pc \in {"ready", "remap"}, pc' = "ready",
           NEW hi \in rw_log_start_idx .. LogSize,
           Linear => hi < rw_log_new_idx,
           \A s \in Slot : s \in rw_log_start_idx .. hi => ~IsValid(s)',
           hi = LogSize => ~IsValid(0)',
           rw_log_start_idx' = Wrap(hi + 1), UNCHANGED rw_log_new_idx,
           \A s \in Slot : IsValid(s)' => IsValid(s)
    PROVE  WindowInv'
<1>1. /\ rw_log_start_idx \in Nat /\ rw_log_new_idx \in Nat /\ hi \in Nat
      /\ rw_log_start_idx < LogSize /\ rw_log_new_idx <= LogSize
  BY Constants DEF TypeOK, Slot
<1>2. ASSUME NEW s \in Slot, IsValid(s)'
      PROVE  InUse(s)'
  <2>1. IsValid(s) /\ ~(s \in rw_log_start_idx .. hi) /\ (hi = LogSize => s # 0)
    BY <1>2
  <2>2. ~BeingPacked(s)
    BY DEF BeingPacked
  <2>3. InUse(s)
    BY <2>1, <2>2 DEF WindowInv, LiveInWindow
  <2>4. s \in Nat /\ s < LogSize
    BY Constants DEF Slot
  <2>5. CASE Linear
    <3>1. s > hi /\ s < rw_log_new_idx
      BY <1>1, <2>1, <2>3, <2>4, <2>5 DEF InUse
    <3>2. rw_log_start_idx' = hi + 1
      BY <1>1, <2>4, <3>1, Constants DEF Wrap
    <3> QED
      BY <1>1, <2>4, <2>5, <3>1, <3>2 DEF InUse, Linear
  <2>6. CASE ~Linear /\ hi < LogSize
    BY <1>1, <2>1, <2>3, <2>4, <2>6, Constants DEF InUse, Linear, Wrap
  <2>7. CASE ~Linear /\ hi = LogSize
    <3>1. rw_log_start_idx' = 1
      BY <2>7, Constants DEF Wrap
    <3>2. s > 0 /\ s < rw_log_new_idx
      BY <1>1, <2>1, <2>3, <2>4, <2>7 DEF InUse
    <3> QED
      BY <1>1, <2>4, <3>1, <3>2 DEF InUse, Linear
  <2> QED
    BY <1>1, <2>5, <2>6, <2>7, Constants
<1> QED
  BY <1>2 DEF WindowInv, LiveInWindow, NoPackingError, WriteStopsShort, WindowBeforeEnd
-----------------------------------------------------------------------------
LEMMA WindowInvTwrite ==
    ASSUME TypeInv, WindowInv, Twrite, ~FillsToStart
    PROVE  WindowInv'
<1> USE DEF TypeInv
<1>1. CASE BeginTwrite
  <2>1. PICK o_addr \in Packings(TwriteAddr, MaxPacked) :
            twrite_header' = [t_addr_start |-> TwriteAddr, o_addr |-> o_addr]
    BY <1>1 DEF BeginTwrite
  <2>2. /\ ~NoRoom /\ rw_log_new_idx' = TwriteAddr /\ page' = 1 /\ pc' = "twrite"
        /\ UNCHANGED <<map_entries, rw_log_start_idx>> /\ pc = "ready"
    BY <1>1 DEF BeginTwrite
  <2>3. TwriteAddr \in 0 .. LogSize /\ rw_log_start_idx \in Nat /\ Len(o_addr) \in Nat
    BY <2>2, PackingFits DEF TypeOK, Slot
  <2>4. WriteStopsShort'
    <3>1. ASSUME TwriteAddr < rw_log_start_idx
          PROVE  TwriteAddr + Len(o_addr) < rw_log_start_idx
      <4>1. TwriteAddr + Len(o_addr) <= rw_log_start_idx
        BY <2>2, <3>1, PackingBelowStart
      <4>2. TwriteAddr + Len(o_addr) # rw_log_start_idx
        BY <1>1, <2>1, <2>2, <3>1 DEF FillsToStart
      <4> QED
        BY <2>3, <4>1, <4>2
    <3> QED
      BY <2>1, <2>2, <2>3, <3>1 DEF WriteStopsShort, Linear
  <2>5. LiveInWindow'
    <3> SUFFICES ASSUME NEW s \in Slot, IsValid(s)
                 PROVE  InUse(s)'
      BY <2>2 DEF LiveInWindow, IsValid
    <3>1. InUse(s)
      BY <2>2 DEF WindowInv, LiveInWindow, BeingPacked
    <3>2. CASE RoomAfterWrap
      <4>1. rw_log_new_idx' = 0 /\ rw_log_start_idx > 0
        BY <2>2, <2>3, <3>2, Constants DEF TwriteAddr, RoomAfterWrap
      <4>2. s >= rw_log_start_idx
        BY <3>1, <3>2 DEF InUse, RoomAfterWrap
      <4> QED
        BY <2>2, <2>3, <4>1, <4>2 DEF InUse, Linear
    <3>3. CASE ~RoomAfterWrap
      BY <2>2, <3>1, <3>3 DEF TwriteAddr, InUse, Linear
    <3> QED
      BY <3>2, <3>3
  <2> QED
    BY <2>2, <2>4, <2>5 DEF WindowInv, NoPackingError, WindowBeforeEnd
<1>2. CASE WritePadding \/ WritePage
  <2>1. /\ pc = "twrite" /\ pc' = "twrite" /\ page' = page + 1
        /\ page <= Len(twrite_header.o_addr)
        /\ UNCHANGED <<rw_log_start_idx, rw_log_new_idx, twrite_header>>
    BY <1>2 DEF WritePadding, WritePage
  <2>2. /\ page \in Nat /\ page >= 1 /\ twrite_header.t_addr_start \in Nat
        /\ TwriteSlot = twrite_header.t_addr_start + page - 1
        /\ TwriteSlot' = TwriteSlot + 1 /\ TwriteSlot \in Nat
    BY <2>1 DEF TypeOK, TwriteSlot
  <2>3. ASSUME NEW s \in Slot, IsValid(s)', s # TwriteSlot
        PROVE  IsValid(s)
    BY <1>2, <2>3 DEF WritePadding, WritePage, Redirect, IsValid, TypeOK, NoMap
  <2>4. LiveInWindow'
    <3> SUFFICES ASSUME NEW s \in Slot, IsValid(s)'
                 PROVE  InUse(s)' \/ BeingPacked(s)'
      BY DEF LiveInWindow
    <3>1. CASE s = TwriteSlot
      BY <2>1, <2>2, <3>1 DEF BeingPacked
    <3>2. CASE s # TwriteSlot
      <4>1. InUse(s) \/ BeingPacked(s)
        BY <2>3, <3>2 DEF WindowInv, LiveInWindow
      <4>2. InUse(s) => InUse(s)'
        BY <2>1 DEF InUse, Linear
      <4>3. BeingPacked(s) => BeingPacked(s)'
        BY <2>1, <2>2 DEF BeingPacked
      <4> QED
        BY <4>1, <4>2, <4>3
    <3> QED
      BY <3>1, <3>2
  <2> QED
    BY <2>1, <2>4 DEF WindowInv, NoPackingError, WriteStopsShort, WindowBeforeEnd, Linear
<1>3. ~PackingError
  BY SlotIsFree DEF PackingError
<1>4. CASE EndTwrite
  <2>1. /\ pc = "twrite" /\ pc' = "ready" /\ UNCHANGED <<map_entries, rw_log_start_idx>>
        /\ rw_log_new_idx' = twrite_header.t_addr_start + Len(twrite_header.o_addr)
        /\ page > Len(twrite_header.o_addr)
    BY <1>4 DEF EndTwrite
  <2>2. page = Len(twrite_header.o_addr) + 1 /\ Len(twrite_header.o_addr) \in Nat
    BY <2>1 DEF TypeOK
  <2>3. /\ twrite_header.t_addr_start = rw_log_new_idx
        /\ rw_log_start_idx \in Nat /\ rw_log_new_idx \in Nat
        /\ ~Linear => rw_log_new_idx + Len(twrite_header.o_addr) < rw_log_start_idx
    BY <2>1 DEF TypeOK, Slot, WindowInv, WriteStopsShort
  <2>4. LiveInWindow'
    <3> SUFFICES ASSUME NEW s \in Slot, IsValid(s)
                 PROVE  InUse(s)'
      BY <2>1 DEF LiveInWindow, IsValid
    <3>1. InUse(s) \/ s \in rw_log_new_idx .. rw_log_new_idx + Len(twrite_header.o_addr) - 1
      BY <2>2, <2>3 DEF WindowInv, LiveInWindow, BeingPacked, TwriteSlot
    <3>2. s \in Nat
      BY DEF Slot
    <3> QED
      BY <2>1, <2>2, <2>3, <3>1, <3>2 DEF InUse, Linear
  <2> QED
    BY <2>1, <2>4 DEF WindowInv, NoPackingError, WriteStopsShort, WindowBeforeEnd
<1> QED
  BY <1>1, <1>2, <1>3, <1>4 DEF Twrite

\* The window of a remap that finds nothing is not the whole log.
LEMMA WindowInvNothing ==
    ASSUME TypeInv, WindowInv, RemapNothing, ~SkipsLiveEntry
    PROVE  WindowInv'
<1> USE DEF TypeInv
<1>1. /\ pc = "ready" /\ UsedSize > RemapThreshold
      /\ UNCHANGED <<pc, map_entries, rw_log_new_idx>>
      /\ rw_log_start_idx' = Wrap(rw_log_start_idx + RemapWindowSize + 1)
      /\ ValidIn(rw_log_start_idx, rw_log_start_idx + RemapWindowSize - 1) = {}
  BY DEF RemapNothing
<1> DEFINE end == rw_log_start_idx + RemapWindowSize
<1>2. RemapWindowSize \in Nat /\ end <= LogSize /\ rw_log_start_idx \in Nat
  BY <1>1, WindowInLog DEF TypeOK, Slot
<1>3. Linear => end < rw_log_new_idx
  <2>1. RemapSize <= RemapThreshold
    BY HostConstants DEF HostConstants
  <2> QED
    BY <1>1, <2>1, Constants DEF UsedSize, RemapWindowSize, MinOf, Linear, TypeOK, Slot
<1>4. ~IsValid(Wrap(end))
  BY DEF SkipsLiveEntry
<1>5. /\ end < LogSize => ~IsValid(end)
      /\ end = LogSize => ~IsValid(0)
  BY <1>2, <1>4, Constants DEF Wrap
<1>6. \A s \in Slot : s \in rw_log_start_idx .. end => ~IsValid(s)
  <2> SUFFICES ASSUME NEW s \in Slot, s \in rw_log_start_idx .. end
               PROVE  ~IsValid(s)
    OBVIOUS
  <2>1. \A t \in rw_log_start_idx .. rw_log_start_idx + RemapWindowSize - 1 :
            t \in Slot => ~IsValid(t)
    BY <1>1 DEF ValidIn
  <2>2. s < end => ~IsValid(s)
    BY <1>2, <2>1 DEF Slot
  <2>3. s < LogSize /\ s \in Nat
    BY Constants DEF Slot
  <2> QED
    BY <1>2, <1>5, <2>2, <2>3
<1>7. \A s : IsValid(s)' <=> IsValid(s)
  BY <1>1 DEF IsValid
<1>8. end \in rw_log_start_idx .. LogSize
  BY <1>2, Constants
<1>9. rw_log_start_idx' = Wrap(end + 1) /\ pc' = "ready" /\ UNCHANGED rw_log_new_idx
  BY <1>1
<1> HIDE DEF end
<1> QED
  BY <1>1, <1>3, <1>5, <1>6, <1>7, <1>8, <1>9, StartMoves

LEMMA WindowInvRemap ==
    ASSUME TypeInv, LogInv, WindowInv,
           BeginRemap \/ RemapCollect \/ RemapSendFull \/ RemapSendLast
    PROVE  WindowInv'
<1> USE DEF TypeInv
<1>1. CASE BeginRemap
  <2>1. /\ pc = "ready" /\ pc' = "remap" /\ UsedSize > RemapThreshold
        /\ UNCHANGED <<map_entries, rw_log_start_idx, rw_log_new_idx>>
        /\ remap_end' = rw_log_start_idx + RemapWindowSize - 1
    BY <1>1 DEF BeginRemap
  <2>2. WindowBeforeEnd'
    BY <2>1, WindowInLog, Constants DEF WindowBeforeEnd, RemapWindowSize, UsedSize, MinOf, Linear,
                           TypeOK, Slot
  <2> QED
    BY <2>1, <2>2, WindowStays DEF WindowInv, IsValid
<1>2. CASE RemapCollect
  <2>1. /\ pc = "remap" /\ pc' = "remap"
        /\ UNCHANGED <<rw_log_start_idx, rw_log_new_idx, remap_end>>
    BY <1>2 DEF RemapCollect
  <2>2. \A s \in Slot : IsValid(s)' => IsValid(s)
    BY <1>2 DEF RemapCollect, NextRemappable, Remappable, IsValid, RemappingMap, TypeOK
  <2> QED
    BY <2>1, <2>2, WindowStays DEF WindowInv, WindowBeforeEnd, Linear
<1>3. CASE RemapSendFull
  <2>1. /\ pc = "remap" /\ pc' = "remap" /\ SendRemap
        /\ UNCHANGED <<rw_log_start_idx, rw_log_new_idx, remap_end>>
    BY <1>3 DEF RemapSendFull
  <2>2. \A s \in Slot : IsValid(s)' => IsValid(s)
    BY <2>1, SendKeepsAgreement DEF IsValid
  <2> QED
    BY <2>1, <2>2, WindowStays DEF WindowInv, WindowBeforeEnd, Linear
<1>4. CASE RemapSendLast
  <2>1. /\ pc = "remap" /\ pc' = "ready" /\ SendRemap /\ remap_cnt = 0
        /\ rw_log_start_idx' = Wrap(remap_end + 1) /\ UNCHANGED rw_log_new_idx
    BY <1>4 DEF RemapSendLast, FreeWindow
  <2>2. \A s \in Slot : IsValid(s)' => IsValid(s)
    BY <2>1, SendKeepsAgreement DEF IsValid
  <2>3. ValidIn(rw_log_start_idx, remap_end) = {}
    BY <2>1, ValidInFinite, FS_EmptySet DEF LogInv, WindowCount, TypeOK, Slot
  <2>4. \A s \in Slot : s \in rw_log_start_idx .. remap_end => ~IsValid(s)
    BY <2>3 DEF ValidIn
  <2>5. /\ remap_end \in rw_log_start_idx .. LogSize /\ remap_end # LogSize
        /\ Linear => remap_end < rw_log_new_idx
    BY <2>1, Constants DEF WindowInv, WindowBeforeEnd, TypeOK, Slot
  <2>6. \A s \in Slot : s \in rw_log_start_idx .. remap_end => ~IsValid(s)'
    BY <2>2, <2>4
  <2>7. pc \in {"ready", "remap"} /\ (remap_end = LogSize => ~IsValid(0)')
    BY <2>1, <2>5
  <2>8. TypeOK /\ WindowInv
    OBVIOUS
  <2> HIDE DEF TypeInv, TypeOK
  <2> QED
    BY <2>1, <2>2, <2>5, <2>6, <2>7, <2>8, StartMoves
<1> QED
  BY <1>1, <1>2, <1>3, <1>4
LEMMA WindowInvInit == Init => WindowInv
BY DEF Init, WindowInv, LiveInWindow, NoPackingError, WriteStopsShort, WindowBeforeEnd,
       IsValid, NoMap

LEMMA WindowInvStep ==
    ASSUME TypeInv, LogInv, WindowInv, [GuardedNext]_hostvars
    PROVE  WindowInv'
<1> USE DEF TypeInv
<1>1. ~ResumePacking
  BY DEF WindowInv, NoPackingError, ResumePacking
<1>2. CASE Refused
  <2>1. /\ pc \in {"ready", "remap_refused"} /\ pc' \in {"ready", "remap_refused"}
        /\ UNCHANGED <<map_entries, rw_log_start_idx, rw_log_new_idx>>
    BY <1>2 DEF Refused, RemapRefused, ResumeRefused
  <2> QED
    BY <2>1, WindowStays DEF WindowInv, WindowBeforeEnd, IsValid
<1>3. CASE UNCHANGED hostvars
  BY <1>3 DEF hostvars, WindowInv, LiveInWindow, NoPackingError, WriteStopsShort,
     WindowBeforeEnd, IsValid, InUse, BeingPacked, TwriteSlot, Linear
<1>4. CASE GuardedNext
  BY <1>1, <1>2, <1>4, WindowInvTwrite, WindowInvNothing, WindowInvRemap
     DEF GuardedNext, Next, Remap
<1> QED
  BY <1>3, <1>4

LEMMA WindowInvariant == Guarded => []WindowInv
BY WindowInvInit, WindowInvStep, GuardedHost, PTL DEF Guarded

\* Every VALID entry lies in the used part of the log, where a remap finds it, or in
\* the write under way (lines 159, 181, 255 and 294-329).
THEOREM LiveStaysInWindow == Guarded => []LiveInWindow
<1>1. WindowInv => LiveInWindow
  BY DEF WindowInv
<1> QED
  BY <1>1, WindowInvariant, PTL

\* No write is packed over a VALID entry: "ERROR on packing RW" (line 141) is not
\* reached.
THEOREM NeverPacksOverLive == Guarded => []NoPackingError
<1>1. WindowInv => NoPackingError
  BY DEF WindowInv
<1> QED
  BY <1>1, WindowInvariant, PTL
-----------------------------------------------------------------------------
(***************************************************************************)
(* With no write packed over a VALID entry, a redirection leads to an      *)
(* entry for its own page.                                                 *)
(***************************************************************************)
LeadsToPage ==
    \A l \in LPN :
        redirection_map[l] # NoSlot =>
            map_entries[redirection_map[l]] \in {ValidMap(l), RemappingMap(l)}

LEMMA LeadsToOwnEntry ==
    ASSUME LeadsToPage, NEW l \in LPN, redirection_map[l] # NoSlot
    PROVE  /\ map_entries[redirection_map[l]].o_addr = l
           /\ map_entries[redirection_map[l]].flags \in {"VALID", "REMAPPING"}
<1>1. \/ map_entries[redirection_map[l]] = ValidMap(l)
      \/ map_entries[redirection_map[l]] = RemappingMap(l)
  BY DEF LeadsToPage
<1>2. ValidMap(l).o_addr = l /\ RemappingMap(l).o_addr = l
      /\ ValidMap(l).flags = "VALID" /\ RemappingMap(l).flags = "REMAPPING"
  BY DEF ValidMap, RemappingMap
<1> QED
  BY <1>1, <1>2

LEMMA LeadsToPageWrite ==
    ASSUME TypeInv, LogInv, WindowInv, LeadsToPage, WritePage
    PROVE  LeadsToPage'
<1> USE DEF TypeInv
<1> DEFINE s == TwriteSlot
           o == TwriteOAddr
<1>1. s \in Slot /\ ~IsValid(s) /\ o \in LPN /\ Redirect(s, o)
  BY SlotIsFree DEF WritePage, TypeOK, TwriteOAddr
<1>2. map_entries[s].flags # "REMAPPING"
  <2>1. pc = "twrite"
    BY DEF WritePage
  <2>2. remap_entry = <<>> /\ DOMAIN remap_entry = {}
    BY <2>1 DEF LogInv, PendingInRemap
  <2> QED
    BY <1>1, <2>2 DEF LogInv, RemappingIsPending
<1>3. \A k \in LPN : redirection_map[k] # s
  BY <1>1, <1>2, LeadsToOwnEntry DEF IsValid, Slot, NoSlot
<1> HIDE DEF s, o
<1> SUFFICES ASSUME NEW l \in LPN, redirection_map'[l] # NoSlot
             PROVE  map_entries'[redirection_map'[l]] \in {ValidMap(l), RemappingMap(l)}
  BY DEF LeadsToPage
<1>4. CASE l = o
  <2>1. redirection_map'[l] = s /\ map_entries'[s] = ValidMap(l)
    BY <1>1, <1>3, <1>4 DEF Redirect, TypeOK
  <2> QED
    BY <2>1
<1>5. CASE l # o
  <2>1. redirection_map'[l] = redirection_map[l] /\ redirection_map[l] # s
        /\ redirection_map[l] \in Slot
    BY <1>1, <1>3, <1>5 DEF Redirect, TypeOK
  <2>2. map_entries[redirection_map[l]] \in {ValidMap(l), RemappingMap(l)}
    BY <2>1 DEF LeadsToPage, Slot, NoSlot, WindowInv
  <2>3. redirection_map[o] # redirection_map[l]
    <3>1. redirection_map[o] # NoSlot =>
              map_entries[redirection_map[o]] \in {ValidMap(o), RemappingMap(o)}
      BY <1>1 DEF LeadsToPage
    <3> QED
      BY <1>5, <2>1, <2>2, <3>1 DEF ValidMap, RemappingMap
  <2> QED
    BY <1>1, <2>1, <2>2, <2>3 DEF Redirect, TypeOK
<1> QED
  BY <1>4, <1>5

LEMMA LeadsToPageRemap ==
    ASSUME TypeInv, LogInv, LeadsToPage, RemapCollect \/ SendRemap
    PROVE  LeadsToPage'
<1> USE DEF TypeInv
<1>1. CASE RemapCollect
  <2>1. PICK k \in LPN :
            /\ Remappable(k)
            /\ map_entries' = [map_entries EXCEPT ![redirection_map[k]] =
                   RemappingMap(PageOf(redirection_map[k]))]
    BY <1>1 DEF RemapCollect, NextRemappable, PageOf
  <2>2. UNCHANGED redirection_map
    BY <1>1 DEF RemapCollect
  <2> DEFINE t == redirection_map[k]
  <2>3. t \in Slot /\ t # NoSlot
    BY <2>1 DEF Remappable, TypeOK
  <2>4. PageOf(t) = k
    BY <2>3, LeadsToOwnEntry DEF PageOf
  <2>5. map_entries' = [map_entries EXCEPT ![t] = RemappingMap(k)]
    BY <2>1, <2>4
  <2> HIDE DEF t
  <2> SUFFICES ASSUME NEW l \in LPN, redirection_map[l] # NoSlot
               PROVE  map_entries'[redirection_map[l]] \in {ValidMap(l), RemappingMap(l)}
    BY <2>2 DEF LeadsToPage
  <2>6. CASE redirection_map[l] = t
    <3>1. l = k
      BY <2>4, <2>6, LeadsToOwnEntry DEF PageOf
    <3> QED
      BY <2>3, <2>5, <2>6, <3>1 DEF TypeOK
  <2>7. CASE redirection_map[l] # t
    BY <2>3, <2>5, <2>7 DEF LeadsToPage, TypeOK
  <2> QED
    BY <2>6, <2>7
<1>2. CASE SendRemap
  <2> SUFFICES ASSUME NEW l \in LPN, redirection_map'[l] # NoSlot
               PROVE  map_entries'[redirection_map'[l]] \in {ValidMap(l), RemappingMap(l)}
    BY DEF LeadsToPage
  <2>1. /\ redirection_map'[l] = redirection_map[l]
        /\ ~ \E i \in DOMAIN remap_entry : remap_entry[i].o_addr = l
    BY <1>2 DEF SendRemap
  <2>2. redirection_map[l] \in Slot
        /\ map_entries[redirection_map[l]] \in {ValidMap(l), RemappingMap(l)}
    BY <2>1 DEF LeadsToPage, TypeOK
  <2>3. redirection_map[l] # NoSlot
    BY <2>1
  <2>4. ASSUME NEW i \in DOMAIN remap_entry, remap_entry[i].t_addr = redirection_map[l]
        PROVE  FALSE
    <3>1. map_entries[remap_entry[i].t_addr] = RemappingMap(remap_entry[i].o_addr)
      BY DEF LogInv, PendingEntries
    <3>2. remap_entry[i].o_addr = l
      BY <2>1, <2>3, <2>4, <3>1, LeadsToOwnEntry DEF RemappingMap
    <3> QED
      BY <2>1, <3>2
  <2> QED
    BY <1>2, <2>1, <2>2, <2>4 DEF SendRemap
<1> QED
  BY <1>1, <1>2

LEMMA LeadsToPageInit == Init => LeadsToPage
BY DEF Init, LeadsToPage

LEMMA LeadsToPageStep ==
    ASSUME TypeInv, LogInv, WindowInv, LeadsToPage, [GuardedNext]_hostvars
    PROVE  LeadsToPage'
<1>1. ~PackingError /\ ~ResumePacking
  BY SlotIsFree DEF TypeInv, PackingError, ResumePacking, WindowInv, NoPackingError
<1>2. CASE BeginTwrite \/ WritePadding \/ EndTwrite \/ RemapNothing \/ BeginRemap
           \/ Refused \/ UNCHANGED hostvars
  BY <1>2 DEF BeginTwrite, WritePadding, EndTwrite, RemapNothing, BeginRemap, Refused,
     RemapRefused, ResumeRefused, hostvars, LeadsToPage
<1>3. CASE RemapSendFull \/ RemapSendLast
  BY <1>3, LeadsToPageRemap DEF RemapSendFull, RemapSendLast
<1> QED
  BY <1>1, <1>2, <1>3, LeadsToPageWrite, LeadsToPageRemap
     DEF GuardedNext, Next, Twrite, Remap

\* The redirection map leads to an entry for the page it was asked for
\* (HOST_verify_random_workload follows it; lines 137-152 and 205-252).
THEOREM RedirectionIsTrue == Guarded => []RedirectionLeadsToPage
<1>1. LeadsToPage => RedirectionLeadsToPage
  BY DEF LeadsToPage, RedirectionLeadsToPage
<1> QED
  BY <1>1, LeadsToPageInit, LeadsToPageStep, GuardedHost, WindowInvariant, PTL DEF Guarded
-----------------------------------------------------------------------------
(***************************************************************************)
(* THE STACK: no core asserts, and host, queue and cores together are the  *)
(* page store.                                                             *)
(***************************************************************************)

\* What the threshold of the queue leaves of the log and of its remaps, besides
\* the values under which the cores number themselves and their commands right.  The
\* code has 32 calls, 32768 slots, writes of at most 128 pages, and remaps of at most
\* 16384 slots once more than 20480 are used.
QueueFits ==
    /\ OwnCoreId
    /\ BUFF_THRESHOLD \in Nat \ {0}
    /\ NumMaxTwrite = TwriteEntries /\ NumMaxRemap \in Nat /\ NumMaxRemap >= TwriteEntries
    /\ BUFF_THRESHOLD < 2 * NumMaxTwrite
    /\ BUFF_THRESHOLD + MinLogging + 2 * NumTwriteEntry <= LogSize + 3
    /\ BUFF_THRESHOLD + 2 * MinLogging <= LogSize + 3
    /\ BUFF_THRESHOLD + MinLogging <= RemapThreshold - RemapSize + 3
-----------------------------------------------------------------------------
(***************************************************************************)
(* The headers of a core: those in its list and those on their way to it.  *)
(***************************************************************************)
Pages == LPN \cup {RSP_INVALID_LPN}
Entries == [addr_start : Nat, remained : Nat, o_addr : Seq(Pages)]
HeaderCalls == [cmd : {"header"}, core : Core, entry : 0 .. TwriteEntries - 1,
                t_addr_start : 0 .. LogSize, o_addr : Seq(Pages)]

\* The core that serves an address.
CoreOf(s) == s % NUM_FTL_CORE

Span(start, o_addr) == start .. start + Len(o_addr) - 1
ListSpan(h) == Span(h.addr_start, h.o_addr)
CallSpan(h) == Span(h.t_addr_start, h.o_addr)
Headers(c, way) == {j \in DOMAIN way : way[j].cmd = "header" /\ way[j].core = c}
Slots(due) == {d[1] : d \in due}

\* They cover different slots.
HeadersApart(c, list, way) ==
    /\ \A i, j \in DOMAIN list : i # j => ListSpan(list[i]) \cap ListSpan(list[j]) = {}
    /\ \A i, j \in Headers(c, way) : i # j => CallSpan(way[i]) \cap CallSpan(way[j]) = {}
    /\ \A i \in DOMAIN list, j \in Headers(c, way) :
            ListSpan(list[i]) \cap CallSpan(way[j]) = {}

\* Each page under way finds its header there, which names the page it is for.
Names(start, o_addr, d) == d[1] \in Span(start, o_addr) /\ o_addr[d[1] - start + 1] = d[2]
HeadersCover(c, list, way, due) ==
    \A d \in due : CoreOf(d[1]) = c =>
        \/ \E i \in DOMAIN list : Names(list[i].addr_start, list[i].o_addr, d)
        \/ \E j \in Headers(c, way) : Names(way[j].t_addr_start, way[j].o_addr, d)

\* A header counts its pages that are under way; one that is itself under way has
\* all of its pages behind it.
Remaining(c, span, due) == {s \in span : CoreOf(s) = c /\ s \in Slots(due)}
HeadersCount(c, list, way, due) ==
    /\ \A i \in DOMAIN list :
            /\ list[i].remained # 0
            /\ list[i].remained = Cardinality(Remaining(c, ListSpan(list[i]), due))
    /\ \A j \in Headers(c, way) : CallSpan(way[j]) \subseteq Slots(due)

\* A header is for pages queued before, for the write at the frontier or for slots
\* after it, or for no page; and no longer than a header can be.
OneSide(start, o_addr, frontier, rest) ==
    /\ Len(o_addr) <= NumTwriteEntry
    /\ \/ Len(o_addr) = 0
       \/ start + Len(o_addr) <= frontier - rest
       \/ start + Len(o_addr) = frontier
       \/ start >= frontier
HeadersNear(c, list, way, frontier, rest) ==
    /\ \A i \in DOMAIN list : OneSide(list[i].addr_start, list[i].o_addr, frontier, rest)
    /\ \A j \in Headers(c, way) :
            OneSide(way[j].t_addr_start, way[j].o_addr, frontier, rest)

HeadersOK(c, list, way, due, frontier, rest) ==
    /\ HeadersApart(c, list, way)
    /\ HeadersCover(c, list, way, due)
    /\ HeadersCount(c, list, way, due)
    /\ HeadersNear(c, list, way, frontier, rest)
-----------------------------------------------------------------------------
\* How a queue is after an element of it is taken out.
Without(q, k) == SubSeq(q, 1, k - 1) \o SubSeq(q, k + 1, Len(q))

LEMMA WithoutIs ==
    ASSUME NEW S, NEW q \in Seq(S), NEW k \in 1 .. Len(q)
    PROVE  /\ Without(q, k) \in Seq(S) /\ Len(Without(q, k)) = Len(q) - 1
           /\ \A i \in 1 .. Len(q) - 1 :
                  Without(q, k)[i] = q[IF i < k THEN i ELSE i + 1]
<1> DEFINE a == SubSeq(q, 1, k - 1)
           b == SubSeq(q, k + 1, Len(q))
<1>1. Len(q) \in Nat /\ \A i \in 1 .. Len(q) : q[i] \in S
  BY LenProperties
<1>2. /\ a \in Seq(S) /\ Len(a) = k - 1 /\ \A i \in 1 .. k - 1 : a[i] = q[i]
  <2>1. \A i \in 1 .. k - 1 : q[i] \in S
    BY <1>1
  <2>2. /\ a \in Seq(S)
        /\ Len(a) = IF 1 <= k - 1 THEN k - 1 - 1 + 1 ELSE 0
        /\ \A i \in 1 .. k - 1 - 1 + 1 : a[i] = q[1 + i - 1]
    BY <1>1, <2>1, SubSeqProperties
  <2> QED
    BY <1>1, <2>2
<1>3. /\ b \in Seq(S) /\ Len(b) = Len(q) - k
      /\ \A i \in 1 .. Len(q) - k : b[i] = q[i + k]
  <2>1. \A i \in k + 1 .. Len(q) : q[i] \in S
    BY <1>1
  <2>2. /\ b \in Seq(S)
        /\ Len(b) = IF k + 1 <= Len(q) THEN Len(q) - (k + 1) + 1 ELSE 0
        /\ \A i \in 1 .. Len(q) - (k + 1) + 1 : b[i] = q[k + 1 + i - 1]
    BY <1>1, <2>1, SubSeqProperties
  <2> HIDE DEF b
  <2>3. \A i \in 1 .. Len(q) - k : i \in 1 .. Len(q) - (k + 1) + 1 /\ k + 1 + i - 1 = i + k
    BY <1>1
  <2> QED
    BY <1>1, <2>2, <2>3
<1> HIDE DEF a, b
<1>4. /\ a \o b \in Seq(S) /\ Len(a \o b) = Len(a) + Len(b)
      /\ \A i \in 1 .. Len(a) + Len(b) :
             (a \o b)[i] = IF i <= Len(a) THEN a[i] ELSE b[i - Len(a)]
  BY <1>2, <1>3, ConcatProperties
<1>5. Without(q, k) = a \o b
  BY DEF Without, a, b
<1>6. ASSUME NEW i \in 1 .. Len(q) - 1
      PROVE  (a \o b)[i] = q[IF i < k THEN i ELSE i + 1]
  <2>1. (a \o b)[i] = IF i <= k - 1 THEN a[i] ELSE b[i - (k - 1)]
    BY <1>1, <1>2, <1>3, <1>4, <1>6
  <2>2. CASE i < k
    BY <1>2, <2>1, <2>2
  <2>3. CASE i >= k
    <3>1. PICK j \in 1 .. Len(q) - k : j = i - (k - 1)
      BY <1>1, <2>3
    <3>2. b[j] = q[j + k]
      BY <1>3
    <3>3. j + k = i + 1 /\ ~(i <= k - 1) /\ ~(i < k)
      BY <1>1, <2>3, <3>1
    <3> QED
      BY <2>1, <3>1, <3>2, <3>3
  <2>4. i < k \/ i >= k
    BY <1>1, <1>6
  <2> QED
    BY <2>2, <2>3, <2>4, Zenon
<1>7. Len(a \o b) = Len(q) - 1
  BY <1>1, <1>2, <1>3, <1>4
<1> HIDE DEF Without
<1> QED
  BY <1>4, <1>5, <1>6, <1>7, Zenon

\* way2 holds the commands of way, each once, but perhaps the one at k.
Embeds(way2, way, e, k) ==
    /\ e \in [DOMAIN way2 -> DOMAIN way]
    /\ \A i, j \in DOMAIN way2 : e[i] = e[j] => i = j
    /\ \A j \in DOMAIN way2 :
           /\ e[j] # k
           /\ way2[j] = way[e[j]] \/ (way2[j].cmd = "data" /\ way[e[j]].cmd = "data")
    /\ \A i \in DOMAIN way \ {k} : \E j \in DOMAIN way2 : e[j] = i

LEMMA EmbeddedHeaders ==
    ASSUME NEW c, NEW way, NEW way2, NEW e, NEW k, Embeds(way2, way, e, k)
    PROVE  /\ \A j \in Headers(c, way2) :
                  e[j] \in Headers(c, way) /\ e[j] # k /\ way2[j] = way[e[j]]
           /\ \A i, j \in Headers(c, way2) : e[i] = e[j] => i = j
           /\ \A i \in Headers(c, way) \ {k} :
                  \E j \in Headers(c, way2) : e[j] = i /\ way2[j] = way[i]
<1>1. \A j \in Headers(c, way2) : e[j] \in Headers(c, way) /\ e[j] # k /\ way2[j] = way[e[j]]
  BY DEF Embeds, Headers
<1>2. \A i, j \in Headers(c, way2) : e[i] = e[j] => i = j
  BY DEF Embeds, Headers
<1>3. ASSUME NEW i \in Headers(c, way) \ {k}
      PROVE  \E j \in Headers(c, way2) : e[j] = i /\ way2[j] = way[i]
  <2>1. PICK j \in DOMAIN way2 : e[j] = i
    BY <1>3 DEF Embeds, Headers
  <2>2. way2[j] = way[i] /\ j \in Headers(c, way2)
    BY <1>3, <2>1 DEF Embeds, Headers
  <2> QED
    BY <2>1, <2>2
<1> QED
  BY <1>1, <1>2, <1>3

\* A step that is no business of this core's headers.
LEMMA HeadersStay ==
    ASSUME NEW c, NEW list, NEW way, NEW way2, NEW e, NEW k, NEW due,
           NEW frontier, NEW rest,
           HeadersOK(c, list, way, due, frontier, rest), Embeds(way2, way, e, k),
           k \notin Headers(c, way)
    PROVE  HeadersOK(c, list, way2, due, frontier, rest)
<1>1. /\ \A j \in Headers(c, way2) : e[j] \in Headers(c, way) /\ way2[j] = way[e[j]]
      /\ \A i, j \in Headers(c, way2) : e[i] = e[j] => i = j
      /\ \A i \in Headers(c, way) : \E j \in Headers(c, way2) : e[j] = i /\ way2[j] = way[i]
  <2>1. Headers(c, way) = Headers(c, way) \ {k}
    OBVIOUS
  <2> QED
    BY <2>1, EmbeddedHeaders
<1>2. HeadersApart(c, list, way2)
  <2> HIDE DEF Headers
  <2>1. ASSUME NEW i \in Headers(c, way2), NEW j \in Headers(c, way2), i # j
        PROVE  CallSpan(way2[i]) \cap CallSpan(way2[j]) = {}
    <3>1. e[i] \in Headers(c, way) /\ e[j] \in Headers(c, way) /\ e[i] # e[j]
      BY <1>1, <2>1
    <3>2. CallSpan(way[e[i]]) \cap CallSpan(way[e[j]]) = {}
      BY <3>1 DEF HeadersOK, HeadersApart
    <3> QED
      BY <1>1, <3>2
  <2>2. ASSUME NEW i \in DOMAIN list, NEW j \in Headers(c, way2)
        PROVE  ListSpan(list[i]) \cap CallSpan(way2[j]) = {}
    <3>1. e[j] \in Headers(c, way)
      BY <1>1
    <3>2. ListSpan(list[i]) \cap CallSpan(way[e[j]]) = {}
      BY <3>1 DEF HeadersOK, HeadersApart
    <3> QED
      BY <1>1, <3>2
  <2> QED
    BY <2>1, <2>2, Zenon DEF HeadersOK, HeadersApart
<1>3. HeadersCover(c, list, way2, due)
  BY <1>1, Zenon DEF HeadersOK, HeadersCover
<1>4. HeadersCount(c, list, way2, due)
  BY <1>1, Zenon DEF HeadersOK, HeadersCount
<1>5. HeadersNear(c, list, way2, frontier, rest)
  <2>1. HeadersNear(c, list, way, frontier, rest)
    BY DEF HeadersOK
  <2>2. ASSUME NEW j \in Headers(c, way2)
        PROVE  OneSide(way2[j].t_addr_start, way2[j].o_addr, frontier, rest)
    <3>1. e[j] \in Headers(c, way) /\ way2[j] = way[e[j]]
      BY <1>1
    <3> QED
      BY <2>1, <3>1 DEF HeadersNear
  <2> QED
    BY <2>1, <2>2 DEF HeadersNear
<1> QED
  BY <1>2, <1>3, <1>4, <1>5 DEF HeadersOK

\* A header that covers a slot is the one that the core finds for it.
LEMMA HeaderFound ==
    ASSUME NEW list \in Seq(Entries), NEW s \in Nat, NEW i \in DOMAIN list,
           s \in ListSpan(list[i]),
           \A j, k \in DOMAIN list : j # k => ListSpan(list[j]) \cap ListSpan(list[k]) = {}
    PROVE  FindTwrite(list, s) = i
<1> DEFINE hits == {j \in DOMAIN list : /\ s >= list[j].addr_start
                                       /\ s < list[j].addr_start + Len(list[j].o_addr)}
<1>1. \A j \in DOMAIN list : /\ list[j].addr_start \in Nat
                             /\ list[j].o_addr \in Seq(Pages)
  <2>1. \A j \in DOMAIN list : list[j] \in Entries
    BY LenProperties
  <2> QED
    BY <2>1 DEF Entries
<1>2. \A j \in DOMAIN list : Len(list[j].o_addr) \in Nat
  BY <1>1, LenProperties
<1>3. \A j \in DOMAIN list : s \in ListSpan(list[j]) <=>
          /\ s >= list[j].addr_start
          /\ s < list[j].addr_start + Len(list[j].o_addr)
  BY <1>1, <1>2 DEF ListSpan, Span
<1>4. hits = {i}
  <2>1. i \in hits
    BY <1>3
  <2>2. \A j \in hits : j = i
    BY <1>3, <2>1
  <2> QED
    BY <2>1, <2>2
<1>5. DOMAIN list = 1 .. Len(list) /\ i \in Int
  BY LenProperties
<1>6. FindTwrite(list, s) = IF hits = {} THEN 0 ELSE CHOOSE j \in hits : \A m \in hits : j <= m
  BY DEF FindTwrite
<1> HIDE DEF hits
<1>7. \A j \in hits : (\A m \in hits : j <= m) <=> j = i
  BY <1>4, <1>5
<1>8. (CHOOSE j \in hits : \A m \in hits : j <= m) = i
  BY <1>4, <1>7
<1> QED
  BY <1>4, <1>6, <1>8

\* due2 is due without the page under way for slot s.
Handled(due2, due, s, o) ==
    /\ <<s, o>> \in due
    /\ \A d \in due : d[1] = s => d = <<s, o>>
    /\ due2 = due \ {<<s, o>>}

\* Data that has been handled is no longer counted, by its header alone.
LEMMA SlotsShrink ==
    ASSUME NEW due, NEW due2, NEW s, NEW o, Handled(due2, due, s, o)
    PROVE  s \in Slots(due) /\ Slots(due2) = Slots(due) \ {s}
<1> USE DEF Handled
<1>1. ASSUME NEW t \in Slots(due2)
      PROVE  t \in Slots(due) \ {s}
  BY <1>1 DEF Slots
<1>2. ASSUME NEW t \in Slots(due) \ {s}
      PROVE  t \in Slots(due2)
  <2>1. PICK d \in due : t = d[1]
    BY DEF Slots
  <2>2. d # <<s, o>>
    BY <2>1
  <2> QED
    BY <2>1, <2>2 DEF Slots
<1>3. s \in Slots(due)
  <2>1. <<s, o>>[1] = s
    OBVIOUS
  <2> QED
    BY <2>1 DEF Slots
<1> QED
  BY <1>1, <1>2, <1>3

LEMMA RemainingStays ==
    ASSUME NEW due, NEW due2, NEW s, NEW o, Handled(due2, due, s, o),
           NEW c, NEW span, s \notin span \/ CoreOf(s) # c
    PROVE  Remaining(c, span, due2) = Remaining(c, span, due)
<1>1. s \in Slots(due) /\ Slots(due2) = Slots(due) \ {s}
  BY SlotsShrink
<1> QED
  BY <1>1 DEF Remaining

LEMMA RemainingShrinks ==
    ASSUME NEW due, NEW due2, NEW s, NEW o, Handled(due2, due, s, o),
           NEW c, NEW span, IsFiniteSet(span), s \in span, CoreOf(s) = c
    PROVE  /\ Cardinality(Remaining(c, span, due)) \in Nat \ {0}
           /\ Cardinality(Remaining(c, span, due2)) = Cardinality(Remaining(c, span, due)) - 1
<1> DEFINE R == Remaining(c, span, due)
<1>1. s \in Slots(due) /\ Slots(due2) = Slots(due) \ {s}
  BY SlotsShrink
<1>2. R \in SUBSET span /\ IsFiniteSet(R)
  <2>1. R \in SUBSET span
    BY DEF Remaining
  <2> HIDE DEF R
  <2> QED
    BY <2>1, FS_Subset
<1>3. Remaining(c, span, due2) = R \ {s}
  BY <1>1 DEF Remaining
<1>4. s \in R
  BY <1>1 DEF Remaining
<1> HIDE DEF R
<1>5. Cardinality(R \ {s}) = Cardinality(R) - 1
  BY <1>2, <1>4, FS_RemoveElement
<1>6. Cardinality(R) \in Nat
  BY <1>2, FS_CardinalityType
<1>7. Cardinality(R) # 0
  BY <1>2, <1>4, FS_EmptySet
<1> QED
  BY <1>3, <1>5, <1>6, <1>7 DEF R

\* What a header entry is.
LEMMA EntryShape ==
    ASSUME NEW list \in Seq(Entries)
    PROVE  /\ Len(list) \in Nat /\ DOMAIN list = 1 .. Len(list)
           /\ \A i \in DOMAIN list :
                  /\ list[i] \in Entries /\ list[i].addr_start \in Nat
                  /\ list[i].remained \in Nat
                  /\ list[i].o_addr \in Seq(Pages) /\ Len(list[i].o_addr) \in Nat
                  /\ ListSpan(list[i]) \in SUBSET Nat /\ IsFiniteSet(ListSpan(list[i]))
<1>1. Len(list) \in Nat /\ DOMAIN list = 1 .. Len(list)
  BY LenProperties
<1>2. ASSUME NEW i \in DOMAIN list
      PROVE  /\ list[i] \in Entries /\ list[i].addr_start \in Nat
             /\ list[i].remained \in Nat
             /\ list[i].o_addr \in Seq(Pages) /\ Len(list[i].o_addr) \in Nat
             /\ ListSpan(list[i]) \in SUBSET Nat /\ IsFiniteSet(ListSpan(list[i]))
  <2>1. list[i] \in Entries
    BY <1>1
  <2>2. list[i].addr_start \in Nat /\ list[i].remained \in Nat /\ list[i].o_addr \in Seq(Pages)
    BY <2>1 DEF Entries
  <2>3. Len(list[i].o_addr) \in Nat
    BY <2>2, LenProperties
  <2>4. ListSpan(list[i]) \in SUBSET Nat
    BY <2>2, <2>3 DEF ListSpan, Span
  <2>5. /\ list[i].addr_start \in Int
        /\ list[i].addr_start + Len(list[i].o_addr) - 1 \in Int
    BY <2>2, <2>3
  <2>6. IsFiniteSet(ListSpan(list[i]))
    BY <2>5, FS_Interval DEF ListSpan, Span
  <2> QED
    BY <2>1, <2>2, <2>3, <2>4, <2>6
<1> QED
  BY <1>1, <1>2

\* The list after one of its headers has seen a page: list2 is list but for the i-th
\* element, which is gone or has its remained one less.
RetiredBy(list2, list, i, f) ==
    /\ list2 \in Seq(Entries)
    /\ f \in [DOMAIN list2 -> DOMAIN list]
    /\ \A j, k \in DOMAIN list2 : f[j] = f[k] => j = k
    /\ \A j \in DOMAIN list2 :
           /\ list2[j].addr_start = list[f[j]].addr_start
           /\ list2[j].o_addr = list[f[j]].o_addr
           /\ f[j] # i => list2[j].remained = list[f[j]].remained
           /\ f[j] = i => list2[j].remained = list[i].remained - 1 /\ list[i].remained # 1
    /\ \A j \in DOMAIN list : (j = i /\ list[i].remained = 1) \/ \E k \in DOMAIN list2 : f[k] = j

LEMMA RetireIs ==
    ASSUME NEW list \in Seq(Entries), NEW i \in DOMAIN list, list[i].remained # 0
    PROVE  \E f : RetiredBy(Retire(list, i), list, i, f)
<1> DEFINE r == Retire(list, i)
<1>1. /\ Len(list) \in Nat /\ DOMAIN list = 1 .. Len(list)
      /\ \A j \in DOMAIN list : list[j] \in Entries /\ list[j].remained \in Nat
  BY EntryShape
<1>2. CASE list[i].remained = 1
  <2>1. r = Without(list, i)
    BY <1>2 DEF Retire, Without
  <2> HIDE DEF r
  <2> DEFINE f == [j \in 1 .. Len(list) - 1 |-> IF j < i THEN j ELSE j + 1]
  <2>2. /\ r \in Seq(Entries) /\ Len(r) = Len(list) - 1
        /\ \A j \in 1 .. Len(list) - 1 : r[j] = list[IF j < i THEN j ELSE j + 1]
    BY <1>1, <2>1, WithoutIs
  <2>3. DOMAIN r = 1 .. Len(list) - 1
    BY <1>1, <2>2, LenProperties
  <2>4. f \in [DOMAIN r -> DOMAIN list]
    BY <1>1, <2>3
  <2>5. \A j, k \in DOMAIN r : f[j] = f[k] => j = k
    BY <1>1, <2>3
  <2>6. \A j \in DOMAIN r : f[j] # i /\ r[j] = list[f[j]]
    BY <1>1, <2>2, <2>3
  <2>7. \A j \in DOMAIN list : j = i \/ \E k \in DOMAIN r : f[k] = j
    <3>1. ASSUME NEW j \in DOMAIN list, j # i
          PROVE  \E k \in DOMAIN r : f[k] = j
      <4>1. CASE j < i
        BY <1>1, <2>3, <4>1
      <4>2. CASE j > i
        <5>1. j - 1 \in DOMAIN r /\ f[j - 1] = j
          BY <1>1, <2>3, <4>2
        <5> QED
          BY <5>1
      <4> QED
        BY <1>1, <3>1, <4>1, <4>2
    <3> QED
      BY <3>1
  <2> HIDE DEF f
  <2>8. RetiredBy(r, list, i, f)
    BY <1>2, <2>2, <2>4, <2>5, <2>6, <2>7, Zenon DEF RetiredBy
  <2> QED
    BY <2>8 DEF r
<1>3. CASE list[i].remained # 1
  <2>1. r = [list EXCEPT ![i].remained = list[i].remained - 1]
    BY <1>3 DEF Retire
  <2> HIDE DEF r
  <2> DEFINE f == [j \in DOMAIN list |-> j]
  <2>6. list[i].remained - 1 \in Nat
    BY <1>1
  <2>7. [list[i] EXCEPT !.remained = list[i].remained - 1] \in Entries
    BY <1>1, <2>6 DEF Entries
  <2>8. r = [list EXCEPT ![i] = [list[i] EXCEPT !.remained = list[i].remained - 1]]
    BY <2>1
  <2>2. DOMAIN r = DOMAIN list /\ \A j \in DOMAIN list : r[j] \in Entries
    BY <1>1, <2>7, <2>8
  <2>3. r \in Seq(Entries)
    BY <1>1, <2>1, <2>2
  <2>4. \A j \in DOMAIN r :
           /\ r[j].addr_start = list[j].addr_start
           /\ r[j].o_addr = list[j].o_addr
           /\ j # i => r[j].remained = list[j].remained
           /\ j = i => r[j].remained = list[i].remained - 1
    BY <1>1, <2>1 DEF Entries
  <2>5. RetiredBy(r, list, i, f)
    BY <1>3, <2>2, <2>3, <2>4 DEF RetiredBy
  <2> QED
    BY <2>5 DEF r
<1> QED
  BY <1>2, <1>3

\* The header in the list that covers slot s names o, and has its page seen.
Takes(list2, list, s, o) ==
    \E i \in DOMAIN list :
        /\ i = FindTwrite(list, s)
        /\ list[i].o_addr[s - list[i].addr_start + 1] = o
        /\ list2 = Retire(list, i)
        /\ list2 \in Seq(Entries)

\* No header on its way is for slot s.
Behind(c, way, s) == \A j \in Headers(c, way) : s \notin CallSpan(way[j])

\* A core has seen a page: its header is found, and counts one page less.
LEMMA DataHandled ==
    ASSUME NEW c \in Core, NEW list \in Seq(Entries), NEW way, NEW due, NEW due2,
           NEW frontier, NEW rest, HeadersOK(c, list, way, due, frontier, rest),
           NEW s \in Nat, NEW o, Handled(due2, due, s, o), CoreOf(s) = c,
           Behind(c, way, s)
    PROVE  \E list2 : Takes(list2, list, s, o)
                     /\ HeadersOK(c, list2, way, due2, frontier, rest)
<1>0. /\ <<s, o>> \in due /\ \A d \in due : d[1] = s => d = <<s, o>>
       /\ due2 = due \ {<<s, o>>}
  BY DEF Handled
<1>1. <<s, o>>[1] = s /\ <<s, o>>[2] = o
  OBVIOUS
<1>2. PICK i \in DOMAIN list : Names(list[i].addr_start, list[i].o_addr, <<s, o>>)
  <2>1. ~ \E j \in Headers(c, way) : Names(way[j].t_addr_start, way[j].o_addr, <<s, o>>)
    BY <1>1 DEF Names, CallSpan, Behind
  <2> QED
    BY <1>1, <1>0, <2>1 DEF HeadersOK, HeadersCover
<1>3. s \in ListSpan(list[i]) /\ list[i].o_addr[s - list[i].addr_start + 1] = o
  BY <1>1, <1>2 DEF Names, ListSpan
<1>4. \A j, k \in DOMAIN list : j # k => ListSpan(list[j]) \cap ListSpan(list[k]) = {}
  BY DEF HeadersOK, HeadersApart
<1>5. FindTwrite(list, s) = i
  BY <1>3, <1>4, HeaderFound
<1>6. \A j \in DOMAIN list :
          /\ list[j].remained # 0 /\ list[j].remained \in Nat
          /\ list[j].remained = Cardinality(Remaining(c, ListSpan(list[j]), due))
          /\ ListSpan(list[j]) \in SUBSET Nat /\ IsFiniteSet(ListSpan(list[j]))
  BY EntryShape DEF HeadersOK, HeadersCount
<1>7. PICK f : RetiredBy(Retire(list, i), list, i, f)
  BY <1>6, RetireIs
<1> DEFINE list2 == Retire(list, i)
<1> HIDE DEF list2
<1>8. RetiredBy(list2, list, i, f)
  BY <1>7 DEF list2
<1>9. /\ list2 \in Seq(Entries)
      /\ \A j \in DOMAIN list2 : f[j] \in DOMAIN list /\ ListSpan(list2[j]) = ListSpan(list[f[j]])
      /\ \A j, k \in DOMAIN list2 : f[j] = f[k] => j = k
  BY <1>8 DEF RetiredBy, ListSpan
<1>10. \A j \in DOMAIN list : j # i => s \notin ListSpan(list[j])
  BY <1>3, <1>4
<1>11. HeadersApart(c, list2, way)
  <2>1. \A j, k \in DOMAIN list2 : j # k => ListSpan(list2[j]) \cap ListSpan(list2[k]) = {}
    BY <1>4, <1>9
  <2>2. \A j \in DOMAIN list2, k \in Headers(c, way) :
            ListSpan(list2[j]) \cap CallSpan(way[k]) = {}
    <3>1. ASSUME NEW j \in DOMAIN list2, NEW k \in Headers(c, way)
          PROVE  ListSpan(list2[j]) \cap CallSpan(way[k]) = {}
      <4>1. ListSpan(list[f[j]]) \cap CallSpan(way[k]) = {}
        BY <1>9 DEF HeadersOK, HeadersApart
      <4> QED
        BY <1>9, <4>1
    <3> QED
      BY <3>1
  <2> QED
    BY <2>1, <2>2 DEF HeadersOK, HeadersApart
<1>12. /\ Slots(due2) = Slots(due) \ {s}
       /\ \A j \in DOMAIN list : j # i =>
              Remaining(c, ListSpan(list[j]), due2) = Remaining(c, ListSpan(list[j]), due)
       /\ Cardinality(Remaining(c, ListSpan(list[i]), due2)) = list[i].remained - 1
  <2>1. \A j \in DOMAIN list : j # i =>
            Remaining(c, ListSpan(list[j]), due2) = Remaining(c, ListSpan(list[j]), due)
    BY <1>10, RemainingStays
  <2>2. Cardinality(Remaining(c, ListSpan(list[i]), due2)) = list[i].remained - 1
    <3>1. IsFiniteSet(ListSpan(list[i]))
          /\ list[i].remained = Cardinality(Remaining(c, ListSpan(list[i]), due))
      BY <1>6
    <3> QED
      BY <1>3, <3>1, RemainingShrinks
  <2> QED
    BY <2>1, <2>2, SlotsShrink
<1>13. HeadersCount(c, list2, way, due2)
  <2>1. ASSUME NEW j \in DOMAIN list2
        PROVE  /\ list2[j].remained # 0
               /\ list2[j].remained = Cardinality(Remaining(c, ListSpan(list2[j]), due2))
    <3>1. CASE f[j] # i
      <4>1. list2[j].remained = list[f[j]].remained
        BY <1>8, <3>1 DEF RetiredBy
      <4> QED
        BY <1>6, <1>9, <1>12, <3>1, <4>1
    <3>2. CASE f[j] = i
      <4>1. list2[j].remained = list[i].remained - 1 /\ list[i].remained # 1
        BY <1>8, <3>2 DEF RetiredBy
      <4>2. Cardinality(Remaining(c, ListSpan(list[i]), due2)) = list[i].remained - 1
        BY <1>12
      <4>3. ListSpan(list2[j]) = ListSpan(list[i])
        BY <1>9, <3>2
      <4>4. list[i].remained - 1 # 0
        BY <1>6, <4>1
      <4> QED
        BY <4>1, <4>2, <4>3, <4>4
    <3> QED
      BY <3>1, <3>2
  <2>2. \A j \in Headers(c, way) : CallSpan(way[j]) \subseteq Slots(due2)
    BY <1>12 DEF HeadersOK, HeadersCount, Behind
  <2> QED
    BY <2>1, <2>2 DEF HeadersCount
<1>14. HeadersCover(c, list2, way, due2)
  <2> SUFFICES ASSUME NEW d \in due2, CoreOf(d[1]) = c,
                      ~ \E j \in Headers(c, way) : Names(way[j].t_addr_start, way[j].o_addr, d)
               PROVE  \E j \in DOMAIN list2 : Names(list2[j].addr_start, list2[j].o_addr, d)
    BY DEF HeadersCover
  <2>1. d \in due /\ d # <<s, o>>
    BY <1>0
  <2>2. PICK j \in DOMAIN list : Names(list[j].addr_start, list[j].o_addr, d)
    BY <2>1 DEF HeadersOK, HeadersCover
  <2>3. ~(j = i /\ list[i].remained = 1)
    <3>1. SUFFICES ASSUME j = i, list[i].remained = 1
                   PROVE  FALSE
      OBVIOUS
    <3>2. Cardinality(Remaining(c, ListSpan(list[i]), due2)) = 0
      BY <1>12, <3>1
    <3>3. IsFiniteSet(Remaining(c, ListSpan(list[i]), due2))
      <4>1. Remaining(c, ListSpan(list[i]), due2) \in SUBSET ListSpan(list[i])
        BY DEF Remaining
      <4> QED
        BY <1>6, <4>1, FS_Subset
    <3>4. Remaining(c, ListSpan(list[i]), due2) = {}
      BY <3>2, <3>3, FS_EmptySet
    <3>5. d[1] \in ListSpan(list[i])
      BY <2>2, <3>1 DEF Names, ListSpan
    <3>6. d[1] \in Slots(due2)
      BY DEF Slots
    <3> QED
      BY <3>4, <3>5, <3>6 DEF Remaining
  <2>4. PICK k \in DOMAIN list2 : f[k] = j
    BY <1>8, <2>3 DEF RetiredBy
  <2>5. list2[k].addr_start = list[j].addr_start /\ list2[k].o_addr = list[j].o_addr
    BY <1>8, <2>4 DEF RetiredBy
  <2> QED
    BY <2>2, <2>4, <2>5
<1>15. HeadersNear(c, list2, way, frontier, rest)
  <2>1. \A j \in DOMAIN list2 : OneSide(list2[j].addr_start, list2[j].o_addr, frontier, rest)
    <3>1. ASSUME NEW j \in DOMAIN list2
          PROVE  OneSide(list2[j].addr_start, list2[j].o_addr, frontier, rest)
      <4>1. OneSide(list[f[j]].addr_start, list[f[j]].o_addr, frontier, rest)
        BY <1>9 DEF HeadersOK, HeadersNear
      <4>2. list2[j].addr_start = list[f[j]].addr_start /\ list2[j].o_addr = list[f[j]].o_addr
        BY <1>8 DEF RetiredBy
      <4> QED
        BY <4>1, <4>2
    <3> QED
      BY <3>1
  <2> QED
    BY <2>1 DEF HeadersOK, HeadersNear
<1>16. HeadersOK(c, list2, way, due2, frontier, rest)
  BY <1>11, <1>13, <1>14, <1>15 DEF HeadersOK
<1> QED
  BY <1>3, <1>5, <1>9, <1>16 DEF Takes, list2

\* The other core's headers do not count it.
LEMMA DataElsewhere ==
    ASSUME NEW c \in Core, NEW list \in Seq(Entries), NEW way, NEW due, NEW due2,
           NEW frontier, NEW rest, HeadersOK(c, list, way, due, frontier, rest),
           NEW s \in Nat, NEW o, Handled(due2, due, s, o), CoreOf(s) # c,
           Behind(c, way, s)
    PROVE  HeadersOK(c, list, way, due2, frontier, rest)
<1>0. \A d \in due2 : d \in due
  BY DEF Handled
<1>1. \A j \in DOMAIN list : ListSpan(list[j]) \in SUBSET Nat /\ IsFiniteSet(ListSpan(list[j]))
  BY EntryShape
<1>2. /\ Slots(due2) = Slots(due) \ {s}
      /\ \A j \in DOMAIN list :
             Remaining(c, ListSpan(list[j]), due2) = Remaining(c, ListSpan(list[j]), due)
  BY SlotsShrink, RemainingStays
<1>4. HeadersCover(c, list, way, due2)
  BY <1>0 DEF HeadersOK, HeadersCover
<1>5. HeadersCount(c, list, way, due2)
  <2>1. \A j \in Headers(c, way) : CallSpan(way[j]) \subseteq Slots(due2)
    BY <1>2 DEF HeadersOK, HeadersCount, Behind
  <2> QED
    BY <1>2, <2>1 DEF HeadersOK, HeadersCount
<1> QED
  BY <1>4, <1>5 DEF HeadersOK

\* A core sees half of the pages of a write, or the odd one more.
Half(c, start, n) ==
    IF n % 2 = 0 THEN n \div 2 ELSE n \div 2 + (IF start % 2 = c THEN 1 ELSE 0)

LEMMA HalfGrows ==
    ASSUME NEW c \in {0, 1}, NEW start \in Nat, NEW n \in Nat
    PROVE  /\ Half(c, start, n) \in Nat /\ Half(c, start, 0) = 0
           /\ Half(c, start, n + 1) =
                  Half(c, start, n) + (IF (start + n) % 2 = c THEN 1 ELSE 0)
<1>1. PICK h \in Nat : n = 2 * h \/ n = 2 * h + 1
  <2>1. n \div 2 \in Nat /\ (n = 2 * (n \div 2) \/ n = 2 * (n \div 2) + 1)
    OBVIOUS
  <2> QED
    BY <2>1
<1>2. CASE n = 2 * h
  <2>1. n % 2 = 0 /\ n \div 2 = h /\ (n + 1) % 2 = 1 /\ (n + 1) \div 2 = h
    BY <1>2
  <2>2. (start + n) % 2 = start % 2
    BY <1>2
  <2> QED
    BY <2>1, <2>2 DEF Half
<1>3. CASE n = 2 * h + 1
  <2>1. n % 2 = 1 /\ n \div 2 = h /\ (n + 1) % 2 = 0 /\ (n + 1) \div 2 = h + 1
    BY <1>3
  <2>2. (start + n) % 2 = c <=> start % 2 # c
    BY <1>3
  <2> QED
    BY <2>1, <2>2 DEF Half
<1> QED
  BY <1>1, <1>2, <1>3

LEMMA ParityCount ==
    ASSUME NEW c \in {0, 1}, NEW start \in Nat, NEW n \in Nat
    PROVE  /\ IsFiniteSet({s \in start .. start + n - 1 : s % 2 = c})
           /\ Cardinality({s \in start .. start + n - 1 : s % 2 = c}) = Half(c, start, n)
<1> DEFINE A(k) == {s \in start .. start + k - 1 : s % 2 = c}
           S == {k \in Nat : IsFiniteSet(A(k)) /\ Cardinality(A(k)) = Half(c, start, k)}
<1>1. 0 \in S
  <2>1. A(0) = {}
    OBVIOUS
  <2>2. Half(c, start, 0) = 0
    BY HalfGrows
  <2> QED
    BY <2>1, <2>2, FS_EmptySet
<1>2. ASSUME NEW k \in Nat, k \in S
      PROVE  k + 1 \in S
  <2>1. IsFiniteSet(A(k)) /\ Cardinality(A(k)) = Half(c, start, k)
    BY <1>2
  <2>2. Half(c, start, k + 1) = Half(c, start, k) + (IF (start + k) % 2 = c THEN 1 ELSE 0)
    BY HalfGrows
  <2>3. Half(c, start, k) \in Nat
    BY HalfGrows
  <2>6. start + k \notin A(k)
    OBVIOUS
  <2>4. CASE (start + k) % 2 = c
    <3>1. A(k + 1) = A(k) \cup {start + k}
      BY <2>4
    <3> HIDE DEF A
    <3>2. IsFiniteSet(A(k + 1)) /\ Cardinality(A(k + 1)) = Cardinality(A(k)) + 1
      BY <2>1, <2>6, <3>1, FS_AddElement
    <3> QED
      BY <2>1, <2>2, <2>4, <3>2
  <2>5. CASE (start + k) % 2 # c
    <3>1. A(k + 1) = A(k)
      BY <2>5
    <3> HIDE DEF A
    <3> QED
      BY <2>1, <2>2, <2>3, <2>5, <3>1
  <2> QED
    BY <2>4, <2>5
<1> HIDE DEF S
<1>3. n \in S
  BY <1>1, <1>2, NatSetInduction
<1> QED
  BY <1>3 DEF S

HeaderOf(c, call) == [addr_start |-> call.t_addr_start, o_addr |-> call.o_addr,
                      remained |-> Half(c, call.t_addr_start, Len(call.o_addr))]

\* What a header call is, and what its entry counts.
LEMMA CallShape ==
    ASSUME NEW c \in Core, NEW call \in HeaderCalls
    PROVE  /\ HeaderOf(c, call) \in Entries
           /\ ListSpan(HeaderOf(c, call)) = CallSpan(call)
           /\ IsFiniteSet({s \in CallSpan(call) : CoreOf(s) = c})
           /\ HeaderOf(c, call).remained = Cardinality({s \in CallSpan(call) : CoreOf(s) = c})
<1>1. call.t_addr_start \in Nat /\ call.o_addr \in Seq(Pages)
  BY Constants DEF HeaderCalls
<1>2. Len(call.o_addr) \in Nat
  BY <1>1, LenProperties
<1>3. c \in {0, 1}
  BY DEF Core
<1>4. Half(c, call.t_addr_start, Len(call.o_addr)) \in Nat
  BY <1>1, <1>2, <1>3, HalfGrows
<1>5. HeaderOf(c, call) \in Entries
  BY <1>1, <1>4 DEF HeaderOf, Entries
<1>6. ListSpan(HeaderOf(c, call)) = CallSpan(call)
  BY DEF HeaderOf, ListSpan, CallSpan
<1>7. {s \in CallSpan(call) : CoreOf(s) = c}
          = {s \in call.t_addr_start .. call.t_addr_start + Len(call.o_addr) - 1 : s % 2 = c}
  BY DEF CallSpan, Span, CoreOf, NUM_FTL_CORE
<1>8. /\ IsFiniteSet({s \in CallSpan(call) : CoreOf(s) = c})
      /\ HeaderOf(c, call).remained = Cardinality({s \in CallSpan(call) : CoreOf(s) = c})
  BY <1>1, <1>2, <1>3, <1>7, ParityCount DEF HeaderOf
<1> QED
  BY <1>5, <1>6, <1>8

\* A core has seen a header: it is in the list, unless no page of it is this core's.
WithHeader(c, call, list) ==
    IF HeaderOf(c, call).remained = 0 THEN list ELSE Append(list, HeaderOf(c, call))
HeadersAfter(c, call, lists) ==
    [d \in Core |-> IF d = c THEN WithHeader(c, call, lists[c]) ELSE lists[d]]

LEMMA HeaderHandled ==
    ASSUME NEW c \in Core, NEW list \in Seq(Entries), NEW way, NEW due, NEW frontier,
           NEW rest, HeadersOK(c, list, way, due, frontier, rest),
           NEW way2, NEW e, NEW k \in Headers(c, way), Embeds(way2, way, e, k),
           way[k] \in HeaderCalls, NEW list2, list2 = WithHeader(c, way[k], list)
    PROVE  list2 \in Seq(Entries) /\ HeadersOK(c, list2, way2, due, frontier, rest)
<1> DEFINE h == HeaderOf(c, way[k])
           span == CallSpan(way[k])
           own == {s \in span : CoreOf(s) = c}
<1>1. h \in Entries /\ ListSpan(h) = span /\ IsFiniteSet(own) /\ h.remained = Cardinality(own)
  BY CallShape
<1>2. /\ \A j \in Headers(c, way2) :
              e[j] \in Headers(c, way) /\ e[j] # k /\ way2[j] = way[e[j]]
      /\ \A i, j \in Headers(c, way2) : e[i] = e[j] => i = j
      /\ \A i \in Headers(c, way) \ {k} : \E j \in Headers(c, way2) : e[j] = i /\ way2[j] = way[i]
  BY EmbeddedHeaders
<1>3. span \subseteq Slots(due)
  BY DEF HeadersOK, HeadersCount
<1>4. Remaining(c, span, due) = own
  BY <1>3 DEF Remaining
<1>5. h.addr_start = way[k].t_addr_start /\ h.o_addr = way[k].o_addr
  BY DEF HeaderOf
<1>6. \A j \in Headers(c, way2) :
          /\ CallSpan(way2[j]) \cap span = {}
          /\ CallSpan(way2[j]) \subseteq Slots(due)
          /\ OneSide(way2[j].t_addr_start, way2[j].o_addr, frontier, rest)
          /\ \A i \in DOMAIN list : ListSpan(list[i]) \cap CallSpan(way2[j]) = {}
          /\ \A i \in Headers(c, way2) : i # j => CallSpan(way2[i]) \cap CallSpan(way2[j]) = {}
  <2> SUFFICES ASSUME NEW j \in Headers(c, way2)
               PROVE  /\ CallSpan(way2[j]) \cap span = {}
                      /\ CallSpan(way2[j]) \subseteq Slots(due)
                      /\ OneSide(way2[j].t_addr_start, way2[j].o_addr, frontier, rest)
                      /\ \A i \in DOMAIN list : ListSpan(list[i]) \cap CallSpan(way2[j]) = {}
                      /\ \A i \in Headers(c, way2) :
                             i # j => CallSpan(way2[i]) \cap CallSpan(way2[j]) = {}
    OBVIOUS
  <2>1. e[j] \in Headers(c, way) /\ e[j] # k /\ way2[j] = way[e[j]]
    BY <1>2
  <2>2. CallSpan(way[e[j]]) \cap span = {}
    BY <2>1 DEF HeadersOK, HeadersApart
  <2>3. CallSpan(way[e[j]]) \subseteq Slots(due)
    BY <2>1 DEF HeadersOK, HeadersCount
  <2>4. OneSide(way[e[j]].t_addr_start, way[e[j]].o_addr, frontier, rest)
    BY <2>1 DEF HeadersOK, HeadersNear
  <2>5. \A i \in DOMAIN list : ListSpan(list[i]) \cap CallSpan(way[e[j]]) = {}
    BY <2>1 DEF HeadersOK, HeadersApart
  <2>6. ASSUME NEW i \in Headers(c, way2), i # j
        PROVE  CallSpan(way2[i]) \cap CallSpan(way2[j]) = {}
    <3>1. e[i] \in Headers(c, way) /\ e[i] # e[j] /\ way2[i] = way[e[i]]
      BY <1>2, <2>6
    <3>2. CallSpan(way[e[i]]) \cap CallSpan(way[e[j]]) = {}
      BY <2>1, <3>1 DEF HeadersOK, HeadersApart
    <3> QED
      BY <2>1, <3>1, <3>2
  <2> QED
    BY <2>1, <2>2, <2>3, <2>4, <2>5, <2>6
<1>7. \A i \in DOMAIN list : ListSpan(list[i]) \cap span = {}
  BY DEF HeadersOK, HeadersApart
<1>8. OneSide(h.addr_start, h.o_addr, frontier, rest)
  BY <1>5 DEF HeadersOK, HeadersNear
<1>9. \A d \in due : CoreOf(d[1]) = c =>
          \/ \E i \in DOMAIN list : Names(list[i].addr_start, list[i].o_addr, d)
          \/ \E j \in Headers(c, way2) : Names(way2[j].t_addr_start, way2[j].o_addr, d)
          \/ Names(h.addr_start, h.o_addr, d) /\ d[1] \in own
  <2> SUFFICES ASSUME NEW d \in due, CoreOf(d[1]) = c,
                      ~ \E i \in DOMAIN list : Names(list[i].addr_start, list[i].o_addr, d)
               PROVE  \/ \E j \in Headers(c, way2) : Names(way2[j].t_addr_start, way2[j].o_addr, d)
                      \/ Names(h.addr_start, h.o_addr, d) /\ d[1] \in own
    OBVIOUS
  <2>1. PICK i \in Headers(c, way) : Names(way[i].t_addr_start, way[i].o_addr, d)
    BY DEF HeadersOK, HeadersCover
  <2>2. CASE i = k
    <3>1. d[1] \in span
      BY <2>1, <2>2 DEF Names, CallSpan
    <3> QED
      BY <1>5, <2>1, <2>2, <3>1
  <2>3. CASE i # k
    BY <1>2, <2>1, <2>3
  <2> QED
    BY <2>2, <2>3
<1>10. \A i \in DOMAIN list :
           /\ list[i].remained # 0
           /\ list[i].remained = Cardinality(Remaining(c, ListSpan(list[i]), due))
           /\ OneSide(list[i].addr_start, list[i].o_addr, frontier, rest)
           /\ \A j \in DOMAIN list : i # j => ListSpan(list[i]) \cap ListSpan(list[j]) = {}
  BY DEF HeadersOK, HeadersCount, HeadersNear, HeadersApart
<1>11. list2 = IF h.remained = 0 THEN list ELSE Append(list, h)
  BY DEF WithHeader
<1> HIDE DEF h, span
<1>12. CASE h.remained = 0
  <2>1. list2 = list
    BY <1>11, <1>12
  <2>2. own = {}
    BY <1>1, <1>12, FS_EmptySet
  <2>3. HeadersApart(c, list, way2) /\ HeadersCount(c, list, way2, due)
        /\ HeadersNear(c, list, way2, frontier, rest)
    BY <1>6, <1>10 DEF HeadersApart, HeadersCount, HeadersNear
  <2>4. HeadersCover(c, list, way2, due)
    BY <1>9, <2>2 DEF HeadersCover
  <2> QED
    BY <2>1, <2>3, <2>4 DEF HeadersOK
<1>13. CASE h.remained # 0
  <2>1. list2 = Append(list, h)
    BY <1>11, <1>13
  <2>2. /\ list2 \in Seq(Entries) /\ Len(list2) = Len(list) + 1
        /\ \A i \in 1 .. Len(list) : list2[i] = list[i]
        /\ list2[Len(list) + 1] = h
    BY <1>1, <2>1, AppendProperties
  <2>3. Len(list) \in Nat /\ DOMAIN list = 1 .. Len(list) /\ DOMAIN list2 = 1 .. Len(list) + 1
    BY <2>2, LenProperties
  <2>4. DOMAIN list2 = DOMAIN list \cup {Len(list) + 1} /\ Len(list) + 1 \notin DOMAIN list
    BY <2>3
  <2> DEFINE m == Len(list) + 1
  <2>5. \A i \in DOMAIN list : list2[i] = list[i]
    BY <2>2, <2>3
  <2>6. list2[m] = h
    BY <2>2
  <2> HIDE DEF m
  <2>7. DOMAIN list2 = DOMAIN list \cup {m} /\ m \notin DOMAIN list
    BY <2>4 DEF m
  <2>8. HeadersApart(c, list2, way2)
    <3>1. \A i, j \in DOMAIN list2 : i # j => ListSpan(list2[i]) \cap ListSpan(list2[j]) = {}
      <4> SUFFICES ASSUME NEW i \in DOMAIN list2, NEW j \in DOMAIN list2, i # j
                   PROVE  ListSpan(list2[i]) \cap ListSpan(list2[j]) = {}
        OBVIOUS
      <4>1. CASE i \in DOMAIN list /\ j \in DOMAIN list
        <5>1. ListSpan(list[i]) \cap ListSpan(list[j]) = {}
          BY <1>10, <4>1
        <5> QED
          BY <2>5, <4>1, <5>1
      <4>2. CASE i = m /\ j \in DOMAIN list
        <5>1. ListSpan(list[j]) \cap span = {}
          BY <1>7, <4>2
        <5> QED
          BY <1>1, <2>5, <2>6, <4>2, <5>1
      <4>3. CASE j = m /\ i \in DOMAIN list
        <5>1. ListSpan(list[i]) \cap span = {}
          BY <1>7, <4>3
        <5> QED
          BY <1>1, <2>5, <2>6, <4>3, <5>1
      <4> QED
        BY <2>7, <4>1, <4>2, <4>3
    <3>2. ASSUME NEW i \in DOMAIN list2, NEW j \in Headers(c, way2)
          PROVE  ListSpan(list2[i]) \cap CallSpan(way2[j]) = {}
      <4>1. CASE i = m
        <5>1. CallSpan(way2[j]) \cap span = {}
          BY <1>6
        <5> QED
          BY <1>1, <2>6, <4>1, <5>1
      <4>2. CASE i \in DOMAIN list
        <5>1. ListSpan(list[i]) \cap CallSpan(way2[j]) = {}
          BY <1>6, <4>2
        <5> QED
          BY <2>5, <4>2, <5>1
      <4> QED
        BY <2>7, <4>1, <4>2
    <3> QED
      BY <1>6, <3>1, <3>2 DEF HeadersApart
  <2>9. HeadersCover(c, list2, way2, due)
    <3> SUFFICES ASSUME NEW d \in due, CoreOf(d[1]) = c,
                        ~ \E j \in Headers(c, way2) :
                              Names(way2[j].t_addr_start, way2[j].o_addr, d)
                 PROVE  \E i \in DOMAIN list2 : Names(list2[i].addr_start, list2[i].o_addr, d)
      BY DEF HeadersCover
    <3>1. CASE Names(h.addr_start, h.o_addr, d)
      BY <2>6, <2>7, <3>1
    <3>2. CASE \E i \in DOMAIN list : Names(list[i].addr_start, list[i].o_addr, d)
      BY <2>5, <2>7, <3>2
    <3> QED
      BY <1>9, <3>1, <3>2
  <2>10. HeadersCount(c, list2, way2, due)
    <3>1. ASSUME NEW i \in DOMAIN list2
          PROVE  /\ list2[i].remained # 0
                 /\ list2[i].remained = Cardinality(Remaining(c, ListSpan(list2[i]), due))
      <4>1. CASE i = m
        BY <1>1, <1>4, <1>13, <2>6, <4>1
      <4>2. CASE i \in DOMAIN list
        BY <1>10, <2>5, <4>2
      <4> QED
        BY <2>7, <4>1, <4>2
    <3> QED
      BY <1>6, <3>1 DEF HeadersCount
  <2>11. HeadersNear(c, list2, way2, frontier, rest)
    <3>1. ASSUME NEW i \in DOMAIN list2
          PROVE  OneSide(list2[i].addr_start, list2[i].o_addr, frontier, rest)
      BY <1>8, <1>10, <2>5, <2>6, <2>7
    <3> QED
      BY <1>6, <3>1 DEF HeadersNear
  <2> QED
    BY <2>2, <2>8, <2>9, <2>10, <2>11 DEF HeadersOK
<1> QED
  BY <1>12, <1>13

\* A write begins: its header is on its way, with all of its pages behind it.
LEMMA HeaderSent ==
    ASSUME NEW c \in Core, NEW list \in Seq(Entries), NEW way, NEW due, NEW frontier,
           NEW rest, HeadersOK(c, list, way, due, frontier, rest),
           NEW way2, NEW m, Headers(c, way2) = Headers(c, way) \cup {m}, m \notin Headers(c, way),
           \A j \in Headers(c, way) : way2[j] = way[j],
           NEW call, way2[m] = call, NEW new,
           \A d \in new : Names(call.t_addr_start, call.o_addr, d),
           CallSpan(call) = Slots(new),
           NEW frontier2, NEW rest2,
           OneSide(call.t_addr_start, call.o_addr, frontier2, rest2),
           \A i \in DOMAIN list : /\ ListSpan(list[i]) \cap CallSpan(call) = {}
                                 /\ OneSide(list[i].addr_start, list[i].o_addr, frontier2, rest2),
           \A j \in Headers(c, way) :
               /\ CallSpan(way[j]) \cap CallSpan(call) = {}
               /\ OneSide(way[j].t_addr_start, way[j].o_addr, frontier2, rest2)
    PROVE  HeadersOK(c, list, way2, due \cup new, frontier2, rest2)
<1> DEFINE due2 == due \cup new
<1>1. Slots(due2) = Slots(due) \cup CallSpan(call)
  BY DEF Slots
<1>2. \A i \in DOMAIN list :
          Remaining(c, ListSpan(list[i]), due2) = Remaining(c, ListSpan(list[i]), due)
  <2>1. ASSUME NEW i \in DOMAIN list
        PROVE  Remaining(c, ListSpan(list[i]), due2) = Remaining(c, ListSpan(list[i]), due)
    <3>1. ListSpan(list[i]) \cap CallSpan(call) = {}
      OBVIOUS
    <3> HIDE DEF due2
    <3> QED
      BY <1>1, <3>1 DEF Remaining
  <2> QED
    BY <2>1
<1>3. \A d \in due2 : d \in due \/ d \in new
  OBVIOUS
<1> HIDE DEF due2
<1>4. HeadersApart(c, list, way2)
  <2>1. \A i, j \in DOMAIN list : i # j => ListSpan(list[i]) \cap ListSpan(list[j]) = {}
    BY DEF HeadersOK, HeadersApart
  <2>2. \A i, j \in Headers(c, way) : i # j => CallSpan(way[i]) \cap CallSpan(way[j]) = {}
    BY DEF HeadersOK, HeadersApart
  <2>3. ASSUME NEW i \in Headers(c, way2), NEW j \in Headers(c, way2), i # j
        PROVE  CallSpan(way2[i]) \cap CallSpan(way2[j]) = {}
    <3>1. CASE i = m
      <4>1. way2[j] = way[j] /\ CallSpan(way[j]) \cap CallSpan(call) = {}
        BY <2>3, <3>1
      <4> QED
        BY <3>1, <4>1
    <3>2. CASE j = m
      <4>1. way2[i] = way[i] /\ CallSpan(way[i]) \cap CallSpan(call) = {}
        BY <2>3, <3>2
      <4> QED
        BY <3>2, <4>1
    <3>3. CASE i # m /\ j # m
      <4>1. /\ way2[i] = way[i] /\ way2[j] = way[j]
            /\ CallSpan(way[i]) \cap CallSpan(way[j]) = {}
        BY <2>2, <2>3, <3>3
      <4> QED
        BY <4>1
    <3> QED
      BY <3>1, <3>2, <3>3
  <2>4. ASSUME NEW i \in DOMAIN list, NEW j \in Headers(c, way2)
        PROVE  ListSpan(list[i]) \cap CallSpan(way2[j]) = {}
    <3>1. CASE j = m
      BY <3>1
    <3>2. CASE j # m
      <4>1. way2[j] = way[j] /\ ListSpan(list[i]) \cap CallSpan(way[j]) = {}
        BY <3>2 DEF HeadersOK, HeadersApart
      <4> QED
        BY <4>1
    <3> QED
      BY <3>1, <3>2
  <2> QED
    BY <2>1, <2>3, <2>4 DEF HeadersApart
<1>5. HeadersCover(c, list, way2, due2)
  <2> SUFFICES ASSUME NEW d \in due2, CoreOf(d[1]) = c,
                      ~ \E i \in DOMAIN list : Names(list[i].addr_start, list[i].o_addr, d)
               PROVE  \E j \in Headers(c, way2) : Names(way2[j].t_addr_start, way2[j].o_addr, d)
    BY DEF HeadersCover
  <2>1. CASE d \in due
    <3>1. PICK j \in Headers(c, way) : Names(way[j].t_addr_start, way[j].o_addr, d)
      BY <2>1 DEF HeadersOK, HeadersCover
    <3> QED
      BY <3>1
  <2>2. CASE d \in new
    BY <2>2
  <2> QED
    BY <1>3, <2>1, <2>2
<1>6. HeadersCount(c, list, way2, due2)
  <2>1. \A i \in DOMAIN list :
            /\ list[i].remained # 0
            /\ list[i].remained = Cardinality(Remaining(c, ListSpan(list[i]), due2))
    BY <1>2 DEF HeadersOK, HeadersCount
  <2>2. \A j \in Headers(c, way) : CallSpan(way[j]) \subseteq Slots(due)
    BY DEF HeadersOK, HeadersCount
  <2>3. ASSUME NEW j \in Headers(c, way2)
        PROVE  CallSpan(way2[j]) \subseteq Slots(due2)
    <3>1. CASE j = m
      BY <1>1, <3>1
    <3>2. CASE j # m
      <4>1. way2[j] = way[j] /\ CallSpan(way[j]) \subseteq Slots(due)
        BY <2>2, <3>2
      <4> QED
        BY <1>1, <4>1
    <3> QED
      BY <3>1, <3>2
  <2> QED
    BY <2>1, <2>3 DEF HeadersCount
<1>7. HeadersNear(c, list, way2, frontier2, rest2)
  BY DEF HeadersNear
<1> QED
  BY <1>4, <1>5, <1>6, <1>7 DEF HeadersOK, due2

\* A page of the write at the frontier has been queued, or the write has ended.
LEMMA FrontierStays ==
    ASSUME NEW c, NEW list \in Seq(Entries), NEW way, NEW due, NEW frontier \in Int,
           NEW rest \in Int, HeadersOK(c, list, way, due, frontier, rest),
           \A j \in Headers(c, way) : way[j] \in HeaderCalls,
           NEW rest2 \in Int, rest2 <= rest
    PROVE  HeadersOK(c, list, way, due, frontier, rest2)
<1>1. ASSUME NEW start \in Nat, NEW o_addr \in Seq(Pages), OneSide(start, o_addr, frontier, rest)
      PROVE  OneSide(start, o_addr, frontier, rest2)
  <2>1. Len(o_addr) \in Nat
    BY LenProperties
  <2> QED
    BY <1>1, <2>1 DEF OneSide
<1>2. \A i \in DOMAIN list : OneSide(list[i].addr_start, list[i].o_addr, frontier, rest2)
  BY <1>1, EntryShape DEF HeadersOK, HeadersNear
<1>3. ASSUME NEW j \in Headers(c, way)
      PROVE  OneSide(way[j].t_addr_start, way[j].o_addr, frontier, rest2)
  <2>1. way[j].t_addr_start \in Nat /\ way[j].o_addr \in Seq(Pages)
    <3>1. way[j] \in HeaderCalls
      OBVIOUS
    <3> QED
      BY <3>1, Constants DEF HeaderCalls
  <2>2. OneSide(way[j].t_addr_start, way[j].o_addr, frontier, rest)
    BY DEF HeadersOK, HeadersNear
  <2> QED
    BY <1>1, <2>1, <2>2
<1> QED
  BY <1>2, <1>3 DEF HeadersOK, HeadersNear

\* A core has no more headers than there is data for them in the queue, and the
\* one of the write at the frontier.
LEMMA ListBounded ==
    ASSUME NEW c, NEW list \in Seq(Entries), NEW way, NEW due, NEW frontier \in Int,
           NEW rest \in Int, HeadersOK(c, list, way, due, frontier, rest),
           NEW D, D \subseteq Nat, IsFiniteSet(D),
           Slots(due) \subseteq D \cup (frontier - rest .. frontier - 1)
    PROVE  Len(list) <= Cardinality(D) + 1
<1>1. /\ Len(list) \in Nat /\ DOMAIN list = 1 .. Len(list)
      /\ \A i \in DOMAIN list :
             /\ list[i].addr_start \in Nat /\ Len(list[i].o_addr) \in Nat
             /\ IsFiniteSet(ListSpan(list[i])) /\ ListSpan(list[i]) \in SUBSET Nat
  BY EntryShape
<1>2. \A i, j \in DOMAIN list : i # j => ListSpan(list[i]) \cap ListSpan(list[j]) = {}
  BY DEF HeadersOK, HeadersApart
<1>3. ASSUME NEW i \in DOMAIN list
      PROVE  frontier - 1 \in ListSpan(list[i]) \/ \E s \in D : s \in ListSpan(list[i])
  <2> DEFINE R == Remaining(c, ListSpan(list[i]), due)
  <2>1. list[i].remained # 0 /\ list[i].remained = Cardinality(R)
    BY DEF HeadersOK, HeadersCount
  <2>2. R # {}
    BY <2>1, FS_EmptySet
  <2>3. PICK s : s \in ListSpan(list[i]) /\ s \in Slots(due)
    BY <2>2 DEF Remaining
  <2>4. CASE s \in D
    BY <2>3, <2>4
  <2>5. CASE s \notin D
    <3>1. s \in frontier - rest .. frontier - 1
      BY <2>3, <2>5
    <3>2. OneSide(list[i].addr_start, list[i].o_addr, frontier, rest)
      BY DEF HeadersOK, HeadersNear
    <3>3. s >= list[i].addr_start /\ s <= list[i].addr_start + Len(list[i].o_addr) - 1 /\ s \in Int
      BY <2>3 DEF ListSpan, Span
    <3>4. list[i].addr_start + Len(list[i].o_addr) = frontier
      BY <1>1, <3>1, <3>2, <3>3 DEF OneSide
    <3> QED
      BY <1>1, <3>3, <3>4 DEF ListSpan, Span
  <2> QED
    BY <2>4, <2>5
<1> DEFINE E == D \cup {frontier - 1}
           f == [i \in DOMAIN list |-> CHOOSE s \in E : s \in ListSpan(list[i])]
<1>4. \A i \in DOMAIN list : f[i] \in E /\ f[i] \in ListSpan(list[i])
  <2>1. ASSUME NEW i \in DOMAIN list
        PROVE  f[i] \in E /\ f[i] \in ListSpan(list[i])
    <3>1. \E s \in E : s \in ListSpan(list[i])
      BY <1>3
    <3>2. f[i] = CHOOSE s \in E : s \in ListSpan(list[i])
      OBVIOUS
    <3> HIDE DEF E, f
    <3> QED
      BY <3>1, <3>2
  <2> QED
    BY <2>1
<1>5. IsFiniteSet(E) /\ Cardinality(E) <= Cardinality(D) + 1 /\ Cardinality(D) \in Nat
      /\ Cardinality(E) \in Nat
  <2>1. IsFiniteSet(E) /\ Cardinality(E) =
            IF frontier - 1 \in D THEN Cardinality(D) ELSE Cardinality(D) + 1
    BY FS_AddElement
  <2>2. Cardinality(D) \in Nat
    BY FS_CardinalityType
  <2> HIDE DEF E
  <2> QED
    BY <2>1, <2>2
<1>6. f \in [DOMAIN list -> E]
  BY <1>4
<1>7. \A i, j \in DOMAIN list : f[i] = f[j] => i = j
  BY <1>2, <1>4
<1>8. Cardinality(DOMAIN list) = Len(list)
  <2>1. Cardinality(1 .. Len(list)) = IF 1 > Len(list) THEN 0 ELSE Len(list) - 1 + 1
    BY <1>1, FS_Interval
  <2> QED
    BY <1>1, <2>1
<1> HIDE DEF E, f
<1>9. Cardinality(DOMAIN list) <= Cardinality(E)
  BY <1>5, <1>6, <1>7, InjectionBounded
<1> QED
  BY <1>1, <1>5, <1>8, <1>9
-----------------------------------------------------------------------------
(***************************************************************************)
(* Remap commands.                                                         *)
(***************************************************************************)
Pair == [t_addr : Slot, o_addr : LPN]
RemapCalls == [cmd : {"remap"}, core : Core, entry : 0 .. TwriteEntries - 1,
               pairs : Seq(Pair)]
Maps == [twrites : [Core -> Seq(Entries)], log : [Slot -> Contents],
         home : [LPN -> Contents], stopped : BOOLEAN]

\* A remap command is served pair by pair.
LEMMA RemapSteps ==
    ASSUME NEW call, call.pairs \in Seq(Pair), NEW a
    PROVE  \E f :
               /\ f[0] = a
               /\ \A n \in 1 .. Len(call.pairs) :
                      f[n] = RemapPair(call.core, f[n - 1], call.pairs[n])
               /\ RemapCommand(a, call) = f[Len(call.pairs)]
<1> DEFINE L == Len(call.pairs)
           Steps(g, m) == g = [n \in 0 .. m |-> IF n = 0 THEN a
                                 ELSE RemapPair(call.core, g[n - 1], call.pairs[n])]
           S == {m \in Nat : \E g : Steps(g, m)}
<1>1. L \in Nat
  BY LenProperties
<1>2. 0 \in S
  <2>1. Steps([n \in 0 .. 0 |-> a], 0)
    OBVIOUS
  <2> QED
    BY <2>1
<1>3. ASSUME NEW m \in Nat, m \in S
      PROVE  m + 1 \in S
  <2>1. PICK g : Steps(g, m)
    BY <1>3
  <2> DEFINE h == [n \in 0 .. m + 1 |-> IF n <= m THEN g[n]
                      ELSE RemapPair(call.core, g[m], call.pairs[m + 1])]
  <2>2. \A n \in 0 .. m + 1 : h[n] = IF n = 0 THEN a
                                     ELSE RemapPair(call.core, h[n - 1], call.pairs[n])
    <3> SUFFICES ASSUME NEW n \in 0 .. m + 1
                 PROVE  h[n] = IF n = 0 THEN a
                               ELSE RemapPair(call.core, h[n - 1], call.pairs[n])
      OBVIOUS
    <3>1. CASE n = 0
      BY <2>1, <3>1
    <3>2. CASE n # 0 /\ n <= m
      <4>1. h[n] = g[n] /\ h[n - 1] = g[n - 1] /\ n \in 0 .. m
        BY <3>2
      <4>2. g[n] = RemapPair(call.core, g[n - 1], call.pairs[n])
        BY <2>1, <3>2, <4>1
      <4> QED
        BY <3>2, <4>1, <4>2
    <3>3. CASE n = m + 1
      <4>1. h[n] = RemapPair(call.core, g[m], call.pairs[m + 1]) /\ h[n - 1] = g[m] /\ n # 0
        BY <3>3
      <4> QED
        BY <3>3, <4>1
    <3> QED
      BY <3>1, <3>2, <3>3
  <2>3. Steps(h, m + 1)
    <3> DEFINE k == [n \in 0 .. m + 1 |-> IF n = 0 THEN a
                        ELSE RemapPair(call.core, h[n - 1], call.pairs[n])]
    <3>1. DOMAIN h = 0 .. m + 1 /\ DOMAIN k = 0 .. m + 1
      OBVIOUS
    <3>2. \A n \in 0 .. m + 1 : h[n] = k[n]
      BY <2>2
    <3>3. h = [n \in 0 .. m + 1 |-> h[n]] /\ k = [n \in 0 .. m + 1 |-> k[n]]
      OBVIOUS
    <3> QED
      BY <3>1, <3>2, <3>3
  <2> HIDE DEF h, Steps
  <2> QED
    BY <2>3
<1> HIDE DEF S
<1>4. L \in S
  BY <1>1, <1>2, <1>3, NatSetInduction
<1>5. PICK g0 : Steps(g0, L)
  BY <1>4 DEF S
<1> DEFINE f == CHOOSE g : Steps(g, L)
<1>6. Steps(f, L)
  BY <1>5
<1>7. RemapCommand(a, call) = f[L]
  BY DEF RemapCommand
<1> HIDE DEF f
<1>8. f[0] = a /\ \A n \in 1 .. L : f[n] = RemapPair(call.core, f[n - 1], call.pairs[n])
  BY <1>1, <1>6
<1> QED
  BY <1>7, <1>8

\* The i-th pair of a remap command is for a slot of the command's core.
OwnPair(call, i) == i \in DOMAIN call.pairs /\ CoreOf(call.pairs[i].t_addr) = call.core

\* What a core does with the first n pairs of a command: it moves the content of each
\* slot of its own to the slot's page.
Remapped(r, a, call, n) ==
    /\ r \in Maps /\ r.twrites = a.twrites /\ r.stopped = FALSE
    /\ \A i \in 1 .. n : OwnPair(call, i) =>
           /\ r.log[call.pairs[i].t_addr] = VC_MAX
           /\ r.home[call.pairs[i].o_addr] = a.log[call.pairs[i].t_addr]
    /\ \A s \in Slot : (\A i \in 1 .. n : OwnPair(call, i) => call.pairs[i].t_addr # s)
           => r.log[s] = a.log[s]
    /\ \A l \in LPN : (\A i \in 1 .. n : OwnPair(call, i) => call.pairs[i].o_addr # l)
           => r.home[l] = a.home[l]

LEMMA RemapEffect ==
    ASSUME OwnCoreId = TRUE, NEW a \in Maps, a.stopped = FALSE, NEW call, call.core \in Core,
           call.pairs \in Seq(Pair),
           \A i, j \in DOMAIN call.pairs : OwnPair(call, i) /\ OwnPair(call, j) /\ i # j =>
               /\ call.pairs[i].t_addr # call.pairs[j].t_addr
               /\ call.pairs[i].o_addr # call.pairs[j].o_addr,
           \A i \in DOMAIN call.pairs : OwnPair(call, i) => a.log[call.pairs[i].t_addr] # VC_MAX
    PROVE  Remapped(RemapCommand(a, call), a, call, Len(call.pairs))
<1> DEFINE L == Len(call.pairs)
           p(i) == call.pairs[i]
<1>1. L \in Nat /\ DOMAIN call.pairs = 1 .. L
      /\ \A i \in 1 .. L : p(i) \in Pair /\ p(i).t_addr \in Slot /\ p(i).o_addr \in LPN
  <2>1. L \in Nat /\ DOMAIN call.pairs = 1 .. L
    BY LenProperties
  <2>2. \A i \in 1 .. L : p(i) \in Pair
    BY <2>1
  <2> QED
    BY <2>1, <2>2 DEF Pair
<1>6. PICK f : /\ f[0] = a
               /\ \A n \in 1 .. Len(call.pairs) :
                      f[n] = RemapPair(call.core, f[n - 1], call.pairs[n])
               /\ RemapCommand(a, call) = f[Len(call.pairs)]
  <2> HIDE DEF L, p
  <2> QED
    BY RemapSteps
<1>2. /\ f[0] = a
      /\ \A n \in 1 .. L : f[n] = RemapPair(call.core, f[n - 1], p(n))
      /\ RemapCommand(a, call) = f[L]
  BY <1>6
<1> DEFINE S == {n \in Nat : n <= L => Remapped(f[n], a, call, n)}
<1>3. 0 \in S
  <2>1. 1 .. 0 = {}
    OBVIOUS
  <2>2. Remapped(a, a, call, 0)
    BY <2>1 DEF Remapped
  <2> QED
    BY <1>2, <2>2
<1>4. ASSUME NEW n \in Nat, n \in S
      PROVE  n + 1 \in S
  <2> SUFFICES ASSUME n + 1 <= L
               PROVE  Remapped(f[n + 1], a, call, n + 1)
    OBVIOUS
  <2> DEFINE r == f[n]
             q == f[n + 1]
             m == n + 1
             t == p(m).t_addr
             o == p(m).o_addr
  <2>1. Remapped(r, a, call, n)
    BY <1>1, <1>4
  <2>2. m \in 1 .. L /\ m - 1 = n /\ 1 .. m = (1 .. n) \cup {m} /\ m \notin 1 .. n
    BY <1>1
  <2>3. q = RemapPair(call.core, r, p(m))
    BY <1>2, <2>2
  <2>4. ThisCore(call.core) = call.core
    BY DEF ThisCore, COREID, Core
  <2>5. t \in Slot /\ o \in LPN
    BY <1>1, <2>2
  <2>6. p(m).t_addr % NUM_FTL_CORE = ThisCore(call.core) <=> OwnPair(call, m)
    BY <1>1, <2>2, <2>4 DEF OwnPair, CoreOf
  <2> HIDE DEF r, q, m, S
  <2>7. CASE ~OwnPair(call, m)
    <3>1. q = r
      BY <2>3, <2>6, <2>7 DEF RemapPair
    <3>2. Remapped(r, a, call, m)
      BY <2>1, <2>2, <2>7 DEF Remapped
    <3> QED
      BY <3>1, <3>2 DEF q, m
  <2>8. CASE OwnPair(call, m)
    <3>1. r.log[t] = a.log[t] /\ a.log[t] # VC_MAX
      <4>1. \A i \in 1 .. n : OwnPair(call, i) => p(i).t_addr # t
        BY <1>1, <2>2, <2>8
      <4> QED
        BY <1>1, <2>1, <2>2, <2>5, <2>8, <4>1 DEF Remapped
    <3>2. q = [r EXCEPT !.log[t] = VC_MAX, !.home[o] = r.log[t],
                        !.stopped = @ \/ r.log[t] = VC_MAX]
      BY <2>3, <2>6, <2>8 DEF RemapPair
    <3>3. r \in Maps /\ r.twrites = a.twrites /\ r.stopped = FALSE
      BY <2>1 DEF Remapped
    <3>4. r.log \in [Slot -> Contents] /\ r.home \in [LPN -> Contents] /\ VC_MAX \in Contents
      BY <3>3 DEF Maps, Contents
    <3> DEFINE log2 == [r.log EXCEPT ![t] = VC_MAX]
               home2 == [r.home EXCEPT ![o] = r.log[t]]
    <3>5. q.twrites = r.twrites /\ q.log = log2 /\ q.home = home2
      BY <3>2, <3>3 DEF Maps
    <3>6. q.stopped = FALSE
      BY <3>1, <3>2, <3>3 DEF Maps
    <3>7. log2 \in [Slot -> Contents] /\ home2 \in [LPN -> Contents]
      BY <2>5, <3>4
    <3>8. q \in Maps
      BY <3>2, <3>3, <3>5, <3>6, <3>7 DEF Maps
    <3>9. ASSUME NEW i \in 1 .. m, OwnPair(call, i)
          PROVE  q.log[p(i).t_addr] = VC_MAX /\ q.home[p(i).o_addr] = a.log[p(i).t_addr]
      <4>1. CASE i = m
        BY <2>5, <3>1, <3>4, <3>5, <4>1
      <4>2. CASE i # m
        <5>1. i \in 1 .. n /\ p(i).t_addr # t /\ p(i).o_addr # o
              /\ p(i).t_addr \in Slot /\ p(i).o_addr \in LPN
          BY <1>1, <2>2, <2>8, <3>9, <4>2
        <5>2. r.log[p(i).t_addr] = VC_MAX /\ r.home[p(i).o_addr] = a.log[p(i).t_addr]
          BY <2>1, <3>9, <5>1 DEF Remapped
        <5> QED
          BY <3>4, <3>5, <5>1, <5>2
      <4> QED
        BY <4>1, <4>2
    <3>10. ASSUME NEW s \in Slot, \A i \in 1 .. m : OwnPair(call, i) => p(i).t_addr # s
           PROVE  q.log[s] = a.log[s]
      <4>1. s # t
        BY <2>2, <2>8, <3>10
      <4>2. \A i \in 1 .. n : OwnPair(call, i) => p(i).t_addr # s
        BY <2>2, <3>10
      <4>3. r.log[s] = a.log[s]
        BY <2>1, <4>2 DEF Remapped
      <4> QED
        BY <3>4, <3>5, <4>1, <4>3
    <3>11. ASSUME NEW l \in LPN, \A i \in 1 .. m : OwnPair(call, i) => p(i).o_addr # l
           PROVE  q.home[l] = a.home[l]
      <4>1. l # o
        BY <2>2, <2>8, <3>11
      <4>2. \A i \in 1 .. n : OwnPair(call, i) => p(i).o_addr # l
        BY <2>2, <3>11
      <4>3. r.home[l] = a.home[l]
        BY <2>1, <4>2 DEF Remapped
      <4> QED
        BY <3>4, <3>5, <4>1, <4>3
    <3>12. Remapped(q, a, call, m)
      BY <3>3, <3>5, <3>6, <3>8, <3>9, <3>10, <3>11 DEF Remapped
    <3> QED
      BY <3>12 DEF q, m
  <2> QED
    BY <2>7, <2>8
<1>5. L \in S
  <2> HIDE DEF S
  <2> QED
    BY <1>1, <1>3, <1>4, NatSetInduction
<1> QED
  BY <1>1, <1>2, <1>5

\* The i-th pair of the j-th call under way is one that a core is to apply.
Owns(way, j, i) == j \in DOMAIN way /\ way[j].cmd = "remap" /\ OwnPair(way[j], i)

\* No two of them are for one slot or for one page.
RemapsApart(way) ==
    \A j, k, i, m : Owns(way, j, i) /\ Owns(way, k, m) /\ (j # k \/ i # m) =>
        /\ way[j].pairs[i].t_addr # way[k].pairs[m].t_addr
        /\ way[j].pairs[i].o_addr # way[k].pairs[m].o_addr

\* The slot of each holds a copy of its page.
RemapsHold(way, log) ==
    \A j, i : Owns(way, j, i) => log[way[j].pairs[i].t_addr] \in Content(way[j].pairs[i].o_addr)

\* The host has forgotten its slot and its page, unless data sent after it is still
\* under way to the slot, or from the page.
RemapsPast(way, due, map, red) ==
    \A j, i : Owns(way, j, i) =>
        /\ map[way[j].pairs[i].t_addr] # NoMap => way[j].pairs[i].t_addr \in Slots(due)
        /\ red[way[j].pairs[i].o_addr] # NoSlot => red[way[j].pairs[i].o_addr] \in Slots(due)

LEMMA EmbeddedRemaps ==
    ASSUME NEW way, NEW way2, NEW e, NEW k, Embeds(way2, way, e, k)
    PROVE  /\ \A j, i : Owns(way2, j, i) => Owns(way, e[j], i) /\ e[j] # k /\ way2[j] = way[e[j]]
           /\ \A j, m, i, n : Owns(way2, j, i) /\ Owns(way2, m, n) /\ e[j] = e[m] => j = m
           /\ \A j, i : Owns(way, j, i) /\ j # k =>
                  \E m : Owns(way2, m, i) /\ e[m] = j /\ way2[m] = way[j]
<1>1. ASSUME NEW j, NEW i, Owns(way2, j, i)
      PROVE  Owns(way, e[j], i) /\ e[j] # k /\ way2[j] = way[e[j]]
  <2>1. j \in DOMAIN way2 /\ way2[j].cmd = "remap" /\ OwnPair(way2[j], i)
    BY <1>1 DEF Owns
  <2>2. e[j] \in DOMAIN way /\ e[j] # k /\ way2[j] = way[e[j]]
    BY <2>1 DEF Embeds
  <2> QED
    BY <2>1, <2>2 DEF Owns
<1>2. \A j, m, i, n : Owns(way2, j, i) /\ Owns(way2, m, n) /\ e[j] = e[m] => j = m
  BY DEF Embeds, Owns
<1>3. ASSUME NEW j, NEW i, Owns(way, j, i), j # k
      PROVE  \E m : Owns(way2, m, i) /\ e[m] = j /\ way2[m] = way[j]
  <2>1. j \in DOMAIN way /\ way[j].cmd = "remap" /\ OwnPair(way[j], i)
    BY <1>3 DEF Owns
  <2>2. PICK m \in DOMAIN way2 : e[m] = j
    BY <1>3, <2>1 DEF Embeds
  <2>3. way2[m] = way[j]
    BY <2>1, <2>2 DEF Embeds
  <2> QED
    BY <2>1, <2>2, <2>3 DEF Owns
<1> QED
  BY <1>1, <1>2, <1>3

\* Taking a call from the queue leaves the others as they are.
LEMMA RemapsStayApart ==
    ASSUME NEW way, NEW way2, NEW e, NEW k, Embeds(way2, way, e, k), RemapsApart(way)
    PROVE  RemapsApart(way2)
<1> SUFFICES ASSUME NEW j, NEW m, NEW i, NEW n, Owns(way2, j, i), Owns(way2, m, n),
                    j # m \/ i # n
             PROVE  /\ way2[j].pairs[i].t_addr # way2[m].pairs[n].t_addr
                    /\ way2[j].pairs[i].o_addr # way2[m].pairs[n].o_addr
  BY DEF RemapsApart
<1>1. Owns(way, e[j], i) /\ Owns(way, e[m], n) /\ way2[j] = way[e[j]] /\ way2[m] = way[e[m]]
  BY EmbeddedRemaps
<1>2. e[j] # e[m] \/ i # n
  BY EmbeddedRemaps
<1> QED
  BY <1>1, <1>2 DEF RemapsApart

LEMMA RemapsStayHeld ==
    ASSUME NEW way, NEW way2, NEW e, NEW k, Embeds(way2, way, e, k),
           NEW log, RemapsHold(way, log), NEW log2,
           \A j, i : Owns(way, j, i) /\ j # k =>
               log2[way[j].pairs[i].t_addr] = log[way[j].pairs[i].t_addr]
    PROVE  RemapsHold(way2, log2)
<1> SUFFICES ASSUME NEW j, NEW i, Owns(way2, j, i)
             PROVE  log2[way2[j].pairs[i].t_addr] \in Content(way2[j].pairs[i].o_addr)
  BY DEF RemapsHold
<1>1. Owns(way, e[j], i) /\ e[j] # k /\ way2[j] = way[e[j]]
  BY EmbeddedRemaps
<1>2. log2[way[e[j]].pairs[i].t_addr] = log[way[e[j]].pairs[i].t_addr]
  BY <1>1
<1>3. log[way[e[j]].pairs[i].t_addr] \in Content(way[e[j]].pairs[i].o_addr)
  BY <1>1 DEF RemapsHold
<1> QED
  BY <1>1, <1>2, <1>3

LEMMA RemapsStayPast ==
    ASSUME NEW way, NEW way2, NEW e, NEW k, Embeds(way2, way, e, k),
           NEW due, NEW map, NEW red, RemapsPast(way, due, map, red)
    PROVE  RemapsPast(way2, due, map, red)
<1> SUFFICES ASSUME NEW j, NEW i, Owns(way2, j, i)
             PROVE  /\ map[way2[j].pairs[i].t_addr] # NoMap =>
                           way2[j].pairs[i].t_addr \in Slots(due)
                    /\ red[way2[j].pairs[i].o_addr] # NoSlot =>
                           red[way2[j].pairs[i].o_addr] \in Slots(due)
  BY DEF RemapsPast
<1>1. Owns(way, e[j], i) /\ way2[j] = way[e[j]]
  BY EmbeddedRemaps
<1> QED
  BY <1>1 DEF RemapsPast

\* way2 is way with the command of pairs for both cores behind it.
Sends(way2, way, m, pairs) ==
    /\ DOMAIN way2 = DOMAIN way \cup {m[0], m[1]}
    /\ m[0] # m[1] /\ m[0] \notin DOMAIN way /\ m[1] \notin DOMAIN way
    /\ \A j \in DOMAIN way : way2[j] = way[j]
    /\ \A c \in Core :
           /\ way2[m[c]].cmd = "remap" /\ way2[m[c]].core = c
           /\ way2[m[c]].pairs = pairs

LEMMA SentRemaps ==
    ASSUME NEW way, NEW way2, NEW m, NEW pairs, Sends(way2, way, m, pairs),
           NEW j, NEW i, Owns(way2, j, i)
    PROVE  \/ Owns(way, j, i) /\ way2[j] = way[j]
           \/ /\ i \in DOMAIN pairs /\ way2[j].pairs = pairs
              /\ j = m[CoreOf(pairs[i].t_addr)] /\ CoreOf(pairs[i].t_addr) \in Core
<1>1. j \in DOMAIN way2 /\ way2[j].cmd = "remap" /\ OwnPair(way2[j], i)
  BY DEF Owns
<1>2. CASE j \in DOMAIN way
  <2>1. way2[j] = way[j]
    BY <1>2 DEF Sends
  <2> QED
    BY <1>1, <1>2, <2>1 DEF Owns
<1>3. CASE j \notin DOMAIN way
  <2>1. PICK c \in Core : j = m[c]
    BY <1>1, <1>3 DEF Sends, Core
  <2>2. way2[j].core = c /\ way2[j].pairs = pairs
    BY <2>1 DEF Sends
  <2>3. i \in DOMAIN pairs /\ CoreOf(pairs[i].t_addr) = c
    BY <1>1, <2>2 DEF OwnPair
  <2> QED
    BY <2>1, <2>2, <2>3
<1> QED
  BY <1>2, <1>3

LEMMA RemapsSentApart ==
    ASSUME NEW way, NEW way2, NEW m, NEW pairs, Sends(way2, way, m, pairs), RemapsApart(way),
           \A i, n \in DOMAIN pairs : i # n =>
               pairs[i].t_addr # pairs[n].t_addr /\ pairs[i].o_addr # pairs[n].o_addr,
           \A j, i : \A n \in DOMAIN pairs : Owns(way, j, i) =>
               /\ way[j].pairs[i].t_addr # pairs[n].t_addr
               /\ way[j].pairs[i].o_addr # pairs[n].o_addr
    PROVE  RemapsApart(way2)
<1> SUFFICES ASSUME NEW j, NEW k, NEW i, NEW n, Owns(way2, j, i), Owns(way2, k, n),
                    j # k \/ i # n
             PROVE  /\ way2[j].pairs[i].t_addr # way2[k].pairs[n].t_addr
                    /\ way2[j].pairs[i].o_addr # way2[k].pairs[n].o_addr
  BY DEF RemapsApart
<1>1. \/ Owns(way, j, i) /\ way2[j] = way[j]
      \/ i \in DOMAIN pairs /\ way2[j].pairs = pairs /\ j = m[CoreOf(pairs[i].t_addr)]
  BY SentRemaps
<1>2. \/ Owns(way, k, n) /\ way2[k] = way[k]
      \/ n \in DOMAIN pairs /\ way2[k].pairs = pairs /\ k = m[CoreOf(pairs[n].t_addr)]
  BY SentRemaps
<1>3. CASE (Owns(way, j, i) /\ way2[j] = way[j]) /\ (Owns(way, k, n) /\ way2[k] = way[k])
  BY <1>3 DEF RemapsApart
<1>4. CASE (Owns(way, j, i) /\ way2[j] = way[j]) /\ (n \in DOMAIN pairs /\ way2[k].pairs = pairs)
  BY <1>4
<1>5. CASE (i \in DOMAIN pairs /\ way2[j].pairs = pairs) /\ (Owns(way, k, n) /\ way2[k] = way[k])
  <2>1. /\ way[k].pairs[n].t_addr # pairs[i].t_addr
        /\ way[k].pairs[n].o_addr # pairs[i].o_addr
    BY <1>5
  <2> QED
    BY <1>5, <2>1
<1>6. CASE /\ i \in DOMAIN pairs /\ way2[j].pairs = pairs /\ j = m[CoreOf(pairs[i].t_addr)]
           /\ n \in DOMAIN pairs /\ way2[k].pairs = pairs /\ k = m[CoreOf(pairs[n].t_addr)]
  <2>1. i # n
    BY <1>6
  <2> QED
    BY <1>6, <2>1
<1> QED
  BY <1>1, <1>2, <1>3, <1>4, <1>5, <1>6

LEMMA RemapsSentHeld ==
    ASSUME NEW way, NEW way2, NEW m, NEW pairs, Sends(way2, way, m, pairs),
           NEW log, RemapsHold(way, log),
           \A n \in DOMAIN pairs : log[pairs[n].t_addr] \in Content(pairs[n].o_addr)
    PROVE  RemapsHold(way2, log)
<1> SUFFICES ASSUME NEW j, NEW i, Owns(way2, j, i)
             PROVE  log[way2[j].pairs[i].t_addr] \in Content(way2[j].pairs[i].o_addr)
  BY DEF RemapsHold
<1>1. \/ Owns(way, j, i) /\ way2[j] = way[j]
      \/ i \in DOMAIN pairs /\ way2[j].pairs = pairs
  BY SentRemaps
<1> QED
  BY <1>1 DEF RemapsHold

LEMMA RemapsSentPast ==
    ASSUME NEW way, NEW way2, NEW m, NEW pairs, Sends(way2, way, m, pairs),
           NEW due, NEW map, NEW red, RemapsPast(way, due, map, red), NEW map2, NEW red2,
           \A n \in DOMAIN pairs : map2[pairs[n].t_addr] = NoMap /\ red2[pairs[n].o_addr] = NoSlot,
           \A j, i : Owns(way, j, i) =>
               LET p == way[j].pairs[i]
               IN  /\ map2[p.t_addr] \in {map[p.t_addr], NoMap}
                   /\ red2[p.o_addr] \in {red[p.o_addr], NoSlot}
    PROVE  RemapsPast(way2, due, map2, red2)
<1> SUFFICES ASSUME NEW j, NEW i, Owns(way2, j, i)
             PROVE  /\ map2[way2[j].pairs[i].t_addr] # NoMap =>
                           way2[j].pairs[i].t_addr \in Slots(due)
                    /\ red2[way2[j].pairs[i].o_addr] # NoSlot =>
                           red2[way2[j].pairs[i].o_addr] \in Slots(due)
  BY DEF RemapsPast
<1>1. CASE Owns(way, j, i) /\ way2[j] = way[j]
  <2>1. /\ map[way[j].pairs[i].t_addr] # NoMap => way[j].pairs[i].t_addr \in Slots(due)
        /\ red[way[j].pairs[i].o_addr] # NoSlot => red[way[j].pairs[i].o_addr] \in Slots(due)
    BY <1>1 DEF RemapsPast
  <2>2. /\ map2[way[j].pairs[i].t_addr] \in {map[way[j].pairs[i].t_addr], NoMap}
        /\ red2[way[j].pairs[i].o_addr] \in {red[way[j].pairs[i].o_addr], NoSlot}
    BY <1>1
  <2> QED
    BY <1>1, <2>1, <2>2
<1>2. CASE i \in DOMAIN pairs /\ way2[j].pairs = pairs
  BY <1>2
<1> QED
  BY <1>1, <1>2, SentRemaps

\* A step that sends other calls.
LEMMA HeadersUnchanged ==
    ASSUME NEW c, NEW list, NEW way, NEW due, NEW frontier, NEW rest,
           HeadersOK(c, list, way, due, frontier, rest), NEW way2,
           Headers(c, way2) = Headers(c, way), \A j \in Headers(c, way) : way2[j] = way[j]
    PROVE  HeadersOK(c, list, way2, due, frontier, rest)
<1> DEFINE H == Headers(c, way)
<1>1. Headers(c, way2) = H /\ \A j \in H : way2[j] = way[j]
  OBVIOUS
<1>2. Headers(c, way) = H
  OBVIOUS
<1> HIDE DEF H
<1>3. HeadersApart(c, list, way2)
  BY <1>1, <1>2 DEF HeadersOK, HeadersApart
<1>4. HeadersCover(c, list, way2, due)
  BY <1>1, <1>2 DEF HeadersOK, HeadersCover
<1>5. HeadersCount(c, list, way2, due)
  BY <1>1, <1>2 DEF HeadersOK, HeadersCount
<1>6. HeadersNear(c, list, way2, frontier, rest)
  BY <1>1, <1>2 DEF HeadersOK, HeadersNear
<1> QED
  BY <1>3, <1>4, <1>5, <1>6 DEF HeadersOK

SameRemaps(way2, way) == \A j, i : Owns(way2, j, i) => Owns(way, j, i) /\ way2[j] = way[j]

LEMMA RemapsUnchanged ==
    ASSUME NEW way, NEW way2, SameRemaps(way2, way), NEW log, NEW due, NEW map, NEW red,
           RemapsApart(way), RemapsHold(way, log), RemapsPast(way, due, map, red),
           NEW due2, Slots(due) \subseteq Slots(due2), NEW map2, NEW red2,
           \A j, i : Owns(way, j, i) =>
               LET p == way[j].pairs[i]
               IN  /\ map2[p.t_addr] \in {map[p.t_addr], NoMap} \/ p.t_addr \in Slots(due2)
                   /\ red2[p.o_addr] \in {red[p.o_addr], NoSlot}
                          \/ red2[p.o_addr] \in Slots(due2)
    PROVE  RemapsApart(way2) /\ RemapsHold(way2, log) /\ RemapsPast(way2, due2, map2, red2)
<1>1. \A j, i : Owns(way2, j, i) => Owns(way, j, i) /\ way2[j] = way[j]
  BY DEF SameRemaps
<1>2. RemapsApart(way2)
  BY <1>1 DEF RemapsApart
<1>3. RemapsHold(way2, log)
  BY <1>1 DEF RemapsHold
<1>4. RemapsPast(way2, due2, map2, red2)
  <2> SUFFICES ASSUME NEW j, NEW i, Owns(way2, j, i)
               PROVE  /\ map2[way2[j].pairs[i].t_addr] # NoMap =>
                             way2[j].pairs[i].t_addr \in Slots(due2)
                      /\ red2[way2[j].pairs[i].o_addr] # NoSlot =>
                             red2[way2[j].pairs[i].o_addr] \in Slots(due2)
    BY DEF RemapsPast
  <2>1. Owns(way, j, i) /\ way2[j] = way[j]
    BY <1>1
  <2>2. /\ map[way[j].pairs[i].t_addr] # NoMap => way[j].pairs[i].t_addr \in Slots(due)
        /\ red[way[j].pairs[i].o_addr] # NoSlot => red[way[j].pairs[i].o_addr] \in Slots(due)
    BY <2>1 DEF RemapsPast
  <2>3. LET p == way[j].pairs[i]
        IN  /\ map2[p.t_addr] \in {map[p.t_addr], NoMap} \/ p.t_addr \in Slots(due2)
            /\ red2[p.o_addr] \in {red[p.o_addr], NoSlot}
                   \/ red2[p.o_addr] \in Slots(due2)
    BY <2>1
  <2> QED
    BY <2>1, <2>2, <2>3
<1> QED
  BY <1>2, <1>3, <1>4
-----------------------------------------------------------------------------
(***************************************************************************)
(* The calls between the host and the cores.                               *)
(***************************************************************************)
HostData == [cmd : {"data"}, t_addr : Slot, o_addr : Pages]
FTLData == [cmd : {"data"}, t_addr : Slot, content : Contents \ {VC_MAX}]

\* What HIL_WriteLPN is being called with.
IsSent(call) ==
    \/ /\ pc = "twrite" /\ page = 1
       /\ call \in HeaderCalls
       /\ call.t_addr_start = twrite_header.t_addr_start
       /\ call.o_addr = twrite_header.o_addr
    \/ /\ pc = "twrite" /\ page > 1 /\ Len(sent) = 1
       /\ call \in HostData
       /\ call.t_addr = TwriteSlot - 1
       /\ call.o_addr = twrite_header.o_addr[page - 1]
       /\ buff \in IF call.o_addr = RSP_INVALID_LPN THEN {Padding} ELSE Content(call.o_addr)
    \/ pc \in {"remap", "ready"} /\ call \in RemapCalls

QueueOK ==
    /\ pending \in Seq(HeaderCalls \cup RemapCalls \cup FTLData)
    /\ sent \in Seq(HeaderCalls \cup RemapCalls \cup HostData)
    /\ \A i \in DOMAIN sent : IsSent(sent[i])
    /\ SentData = {} => buff = VC_MAX
    /\ draining \in BOOLEAN
    /\ IF draining THEN Len(pending) \in 1 .. BUFF_THRESHOLD
                   ELSE Len(pending) < BUFF_THRESHOLD

\* The calls that no core has served, those of the queue first.
Way == [i \in 1 .. Len(pending) + Len(sent) |->
            IF i <= Len(pending) THEN pending[i] ELSE sent[i - Len(pending)]]

\* The end of what is written to the log, or is being written to it, and the number
\* of its pages that are still to be queued.
Frontier == IF pc = "twrite" THEN twrite_header.t_addr_start + Len(twrite_header.o_addr)
            ELSE rw_log_new_idx
Rest == IF pc = "twrite"
        THEN Len(twrite_header.o_addr) - page + 1 + (IF SentData = {} THEN 0 ELSE 1)
        ELSE 0
Unsent == Frontier - Rest .. Frontier - 1
PageAt(s) == twrite_header.o_addr[s - twrite_header.t_addr_start + 1]

\* The data under way: which slot, for which page.
Data == {i \in DOMAIN pending : pending[i].cmd = "data"}
Due == {<<pending[i].t_addr, pending[i].content.o_addr>> : i \in Data}
         \cup {<<s, PageAt(s)>> : s \in Unsent}

\* No slot is written twice before its data has arrived.
DataOnce ==
    /\ \A i, j \in Data : pending[i].t_addr = pending[j].t_addr => i = j
    /\ \A i \in Data : pending[i].t_addr \notin Unsent

\* While calls are still queued, their data is not far behind the frontier.
DataNear ==
    ~draining => \A i \in Data :
        LET s == pending[i].t_addr
            calls == Len(pending) - i + 1 + Rest
        IN  IF s < Frontier THEN Frontier - s <= calls
            ELSE Frontier + LogSize - s <= calls + MinLogging - 1

\* What is being remapped is far behind it.
FarWindow ==
    pc = "remap" =>
        (IF Linear THEN 0 ELSE LogSize) + rw_log_new_idx - remap_end
            >= RemapThreshold - RemapSize + 2

HeadersInv == \A c \in Core : HeadersOK(c, atl.twrites[c], Way, Due, Frontier, Rest)

\* A remap being sent is of a slot and a page that the host has just forgotten.
RemapsSent ==
    \A j \in DOMAIN sent : sent[j].cmd = "remap" => \A i \in DOMAIN sent[j].pairs :
        LET p == sent[j].pairs[i]
        IN  /\ map_entries[p.t_addr] = NoMap
            /\ redirection_map[p.o_addr] = NoSlot
            /\ p.t_addr \notin Slots(Due)
RemapsInv ==
    /\ RemapsApart(Way)
    /\ RemapsHold(Way, atl.log)
    /\ RemapsPast(Way, Due, map_entries, redirection_map)
    /\ RemapsSent

\* The pairs of the command under construction.
CommandHolds ==
    \A i \in DOMAIN remap_entry :
        LET p == remap_entry[i]
        IN  /\ p.t_addr \notin Slots(Due)
            /\ atl.log[p.t_addr] \in Content(p.o_addr)
            /\ \A j \in DOMAIN remap_entry : i # j => remap_entry[j].t_addr # p.t_addr

\* A VALID slot has its page's data under way, or holds it.
LogHolds ==
    \A s \in Slot : IsValid(s) =>
        \/ <<s, map_entries[s].o_addr>> \in Due
        \/ s \notin Slots(Due) /\ atl.log[s] \in Content(map_entries[s].o_addr)

ATLOK == atl \in Maps /\ atl.stopped = FALSE

HostInv == TypeInv /\ LogInv /\ WindowInv /\ LeadsToPage
CallInv == QueueOK /\ DataOnce /\ DataNear /\ FarWindow
CoreInv == ATLOK /\ HeadersInv /\ RemapsInv /\ CommandHolds /\ LogHolds /\ HomeHoldsOwnPage
SysInv == HostInv /\ CallInv /\ CoreInv
-----------------------------------------------------------------------------
LEMMA CallKinds ==
    ASSUME NEW call
    PROVE  /\ call \in HeaderCalls => call.cmd = "header"
           /\ call \in RemapCalls => /\ call.cmd = "remap" /\ call.core \in Core
                                     /\ call.entry \in 0 .. TwriteEntries - 1
                                     /\ call.pairs \in Seq(Pair)
           /\ call \in HostData => /\ call.cmd = "data" /\ call.t_addr \in Slot
                                   /\ call.o_addr \in Pages
           /\ call \in FTLData => /\ call.cmd = "data" /\ call.t_addr \in Slot
                                  /\ call.content \in Contents /\ call.content # VC_MAX
<1>1. call \in HeaderCalls => call.cmd = "header"
  BY DEF HeaderCalls
<1>2. call \in RemapCalls => /\ call.cmd = "remap" /\ call.core \in Core
                             /\ call.entry \in 0 .. TwriteEntries - 1
                             /\ call.pairs \in Seq(Pair)
  BY DEF RemapCalls
<1>3. call \in HostData => /\ call.cmd = "data" /\ call.t_addr \in Slot
                           /\ call.o_addr \in Pages
  BY DEF HostData
<1>4. call \in FTLData => /\ call.cmd = "data" /\ call.t_addr \in Slot
                          /\ call.content \in Contents /\ call.content # VC_MAX
  BY DEF FTLData
<1> QED
  BY <1>1, <1>2, <1>3, <1>4

\* The content of a page names it.
LEMMA ContentShape ==
    ASSUME NEW content \in Contents, content # VC_MAX
    PROVE  /\ content.o_addr \in Pages
           /\ content.o_addr # RSP_INVALID_LPN => content \in Content(content.o_addr)
<1>1. CASE content = Padding
  BY <1>1 DEF Padding, Pages
<1>2. CASE \E l \in LPN : content \in Content(l)
  <2>1. PICK l \in LPN : content \in Content(l)
    BY <1>2
  <2>2. content.o_addr = l
    BY <2>1 DEF Content
  <2> QED
    BY <2>1, <2>2 DEF Pages
<1> QED
  BY <1>1, <1>2 DEF Contents

LEMMA PagesAreContents ==
    ASSUME NEW l \in LPN
    PROVE  Content(l) \subseteq Contents \ {VC_MAX} /\ \A x \in Content(l) : x.o_addr = l
<1>1. Content(l) \subseteq Contents
  BY DEF Contents
<1>2. VC_MAX \notin Content(l)
  BY BlankIsNoContent
<1>3. \A x \in Content(l) : x.o_addr = l
  BY DEF Content
<1> QED
  BY <1>1, <1>2, <1>3

LEMMA QueueShape ==
    ASSUME QueueOK
    PROVE  /\ Len(pending) \in Nat /\ DOMAIN pending = 1 .. Len(pending)
           /\ Len(sent) \in Nat /\ DOMAIN sent = 1 .. Len(sent)
           /\ \A i \in DOMAIN pending :
                  /\ pending[i] \in HeaderCalls \cup RemapCalls \cup FTLData
                  /\ pending[i].cmd = "header" <=> pending[i] \in HeaderCalls
                  /\ pending[i].cmd = "remap" <=> pending[i] \in RemapCalls
                  /\ pending[i].cmd = "data" <=> pending[i] \in FTLData
           /\ \A i \in DOMAIN sent :
                  /\ sent[i] \in HeaderCalls \cup RemapCalls \cup HostData
                  /\ sent[i].cmd = "header" <=> sent[i] \in HeaderCalls
                  /\ sent[i].cmd = "remap" <=> sent[i] \in RemapCalls
                  /\ sent[i].cmd = "data" <=> sent[i] \in HostData
<1>1. /\ pending \in Seq(HeaderCalls \cup RemapCalls \cup FTLData)
      /\ sent \in Seq(HeaderCalls \cup RemapCalls \cup HostData)
  BY DEF QueueOK
<1>2. Len(pending) \in Nat /\ DOMAIN pending = 1 .. Len(pending)
      /\ Len(sent) \in Nat /\ DOMAIN sent = 1 .. Len(sent)
  BY <1>1, LenProperties
<1>3. ASSUME NEW i \in DOMAIN pending
      PROVE  /\ pending[i] \in HeaderCalls \cup RemapCalls \cup FTLData
             /\ pending[i].cmd = "header" <=> pending[i] \in HeaderCalls
             /\ pending[i].cmd = "remap" <=> pending[i] \in RemapCalls
             /\ pending[i].cmd = "data" <=> pending[i] \in FTLData
  <2>1. pending[i] \in HeaderCalls \cup RemapCalls \cup FTLData
    BY <1>1, <1>2
  <2> QED
    BY <2>1, CallKinds
<1>4. ASSUME NEW i \in DOMAIN sent
      PROVE  /\ sent[i] \in HeaderCalls \cup RemapCalls \cup HostData
             /\ sent[i].cmd = "header" <=> sent[i] \in HeaderCalls
             /\ sent[i].cmd = "remap" <=> sent[i] \in RemapCalls
             /\ sent[i].cmd = "data" <=> sent[i] \in HostData
  <2>1. sent[i] \in HeaderCalls \cup RemapCalls \cup HostData
    BY <1>1, <1>2
  <2> QED
    BY <2>1, CallKinds
<1> QED
  BY <1>2, <1>3, <1>4

LEMMA WayShape ==
    ASSUME QueueOK
    PROVE  /\ DOMAIN Way = 1 .. Len(pending) + Len(sent)
           /\ \A i \in DOMAIN pending : i \in DOMAIN Way /\ Way[i] = pending[i]
           /\ \A i \in DOMAIN sent :
                  Len(pending) + i \in DOMAIN Way /\ Way[Len(pending) + i] = sent[i]
           /\ \A j \in DOMAIN Way :
                  j \in DOMAIN pending \/ j - Len(pending) \in DOMAIN sent
<1>1. /\ Len(pending) \in Nat /\ DOMAIN pending = 1 .. Len(pending)
      /\ Len(sent) \in Nat /\ DOMAIN sent = 1 .. Len(sent)
  BY QueueShape
<1> QED
  BY <1>1 DEF Way

LEMMA InSlots ==
    ASSUME NEW due, NEW s, NEW o, <<s, o>> \in due
    PROVE  s \in Slots(due)
<1>1. <<s, o>>[1] = s
  OBVIOUS
<1> QED
  BY <1>1 DEF Slots

\* Data under way, one page each.
LEMMA DueShape ==
    ASSUME TypeInv, QueueOK, DataOnce
    PROVE  /\ \A i \in Data : /\ pending[i].t_addr \in Slot
                              /\ pending[i].content \in Contents \ {VC_MAX}
                              /\ <<pending[i].t_addr, pending[i].content.o_addr>> \in Due
           /\ \A i \in Data : \A d \in Due : d[1] = pending[i].t_addr =>
                  d = <<pending[i].t_addr, pending[i].content.o_addr>>
           /\ \A s \in Unsent : \A d \in Due : d[1] = s => d = <<s, PageAt(s)>>
           /\ Slots(Due) = {pending[i].t_addr : i \in Data} \cup Unsent
<1>1. \A i \in Data : /\ pending[i].t_addr \in Slot
                      /\ pending[i].content \in Contents \ {VC_MAX}
                      /\ <<pending[i].t_addr, pending[i].content.o_addr>> \in Due
  <2>1. \A i \in Data : pending[i] \in FTLData
    BY QueueShape DEF Data
  <2> QED
    BY <2>1, CallKinds DEF Due
<1>2. ASSUME NEW d \in Due
      PROVE  \/ \E i \in Data : d = <<pending[i].t_addr, pending[i].content.o_addr>>
             \/ \E s \in Unsent : d = <<s, PageAt(s)>>
  BY DEF Due
<1>3. \A i \in Data : \A d \in Due : d[1] = pending[i].t_addr =>
          d = <<pending[i].t_addr, pending[i].content.o_addr>>
  BY <1>2 DEF DataOnce
<1>4. \A s \in Unsent : \A d \in Due : d[1] = s => d = <<s, PageAt(s)>>
  BY <1>2 DEF DataOnce
<1>5. Slots(Due) = {pending[i].t_addr : i \in Data} \cup Unsent
  <2>1. \A d \in Due : d[1] \in {pending[i].t_addr : i \in Data} \cup Unsent
    BY <1>2
  <2>2. \A i \in Data : pending[i].t_addr \in Slots(Due)
    BY <1>1, InSlots
  <2>3. \A s \in Unsent : s \in Slots(Due)
    <3>1. \A s \in Unsent : <<s, PageAt(s)>> \in Due
      BY DEF Due
    <3> QED
      BY <3>1, InSlots
  <2> QED
    BY <2>1, <2>2, <2>3 DEF Slots
<1> QED
  BY <1>1, <1>3, <1>4, <1>5

\* Outside a write, what is under way is in the queue, and not far behind the end of
\* the log.
LEMMA QuietDue ==
    ASSUME SysInv, QueueFits, pc # "twrite", ~draining
    PROVE  /\ Rest = 0 /\ Unsent = {} /\ Frontier = rw_log_new_idx
           /\ rw_log_new_idx \in 0 .. LogSize
           /\ \A s \in Slots(Due) :
                  /\ s \in Slot
                  /\ s < rw_log_new_idx => rw_log_new_idx - s <= BUFF_THRESHOLD - 1
                  /\ s >= rw_log_new_idx =>
                         rw_log_new_idx + LogSize - s <= BUFF_THRESHOLD + MinLogging - 2
<1>1. TypeInv /\ QueueOK /\ DataOnce /\ DataNear
  BY DEF SysInv, HostInv, CallInv
<1>2. Rest = 0 /\ Frontier = rw_log_new_idx /\ rw_log_new_idx \in 0 .. LogSize
  BY <1>1 DEF Rest, Frontier, TypeInv, TypeOK
<1>3. Unsent = {}
  BY <1>2 DEF Unsent
<1>4. Len(pending) \in Nat /\ DOMAIN pending = 1 .. Len(pending) /\ Len(pending) < BUFF_THRESHOLD
      /\ BUFF_THRESHOLD \in Nat
  BY <1>1, QueueShape DEF QueueOK, QueueFits
<1>5. ASSUME NEW s \in Slots(Due)
      PROVE  /\ s \in Slot
             /\ s < rw_log_new_idx => rw_log_new_idx - s <= BUFF_THRESHOLD - 1
             /\ s >= rw_log_new_idx =>
                    rw_log_new_idx + LogSize - s <= BUFF_THRESHOLD + MinLogging - 2
  <2>1. PICK i \in Data : s = pending[i].t_addr
    BY <1>1, <1>3, DueShape
  <2>2. s \in Slot /\ i \in 1 .. Len(pending)
    BY <1>1, <1>4, <2>1, DueShape DEF Data
  <2>3. IF s < Frontier THEN Frontier - s <= Len(pending) - i + 1 + Rest
        ELSE Frontier + LogSize - s <= Len(pending) - i + 1 + Rest + MinLogging - 1
    BY <1>1, <2>1 DEF DataNear
  <2>4. s \in Int
    BY <2>2, Constants DEF Slot
  <2>5. s < rw_log_new_idx => rw_log_new_idx - s <= BUFF_THRESHOLD - 1
    BY <1>2, <1>4, <2>2, <2>3, <2>4, Constants
  <2>6. s >= rw_log_new_idx =>
            rw_log_new_idx + LogSize - s <= BUFF_THRESHOLD + MinLogging - 2
    BY <1>2, <1>4, <2>2, <2>3, <2>4, Constants
  <2> QED
    BY <2>2, <2>5, <2>6
<1> QED
  BY <1>2, <1>3, <1>5

\* The host's invariants do not see the calls that it makes.
LEMMA HostInvSent ==
    ASSUME HostInv,
           UNCHANGED <<pc, map_entries, redirection_map, rw_log_start_idx, rw_log_new_idx,
                       header_entry_num, remap_entry_num, twrite_header, page,
                       remap_entry, remap_cnt, remap_end>>
    PROVE  HostInv'
<1>1. /\ pc' = pc /\ map_entries' = map_entries /\ redirection_map' = redirection_map
      /\ rw_log_start_idx' = rw_log_start_idx /\ rw_log_new_idx' = rw_log_new_idx
      /\ header_entry_num' = header_entry_num /\ remap_entry_num' = remap_entry_num
      /\ twrite_header' = twrite_header /\ page' = page /\ remap_entry' = remap_entry
      /\ remap_cnt' = remap_cnt /\ remap_end' = remap_end
  OBVIOUS
<1>2. TypeInv' <=> TypeInv
  BY <1>1, Zenon DEF TypeInv, TypeOK, PageInError, TwriteOAddr
<1>3. ValidIsRedirected' <=> ValidIsRedirected
  BY <1>1, Zenon DEF ValidIsRedirected, IsValid, TwriteSlot
<1>4. RemappingIsPending' <=> RemappingIsPending
  BY <1>1, Zenon DEF RemappingIsPending
<1>5. PendingEntries' <=> PendingEntries
  BY <1>1, Zenon DEF PendingEntries
<1>6. PendingInRemap' <=> PendingInRemap
  BY <1>1, Zenon DEF PendingInRemap
<1>7. WindowCount' <=> WindowCount
  BY <1>1, Zenon DEF WindowCount, ValidIn, IsValid
<1>8. WindowInv' <=> WindowInv
  BY <1>1, Zenon DEF WindowInv, LiveInWindow, NoPackingError, WriteStopsShort,
     WindowBeforeEnd, IsValid, InUse, BeingPacked, Linear, TwriteSlot
<1>9. LeadsToPage' <=> LeadsToPage
  BY <1>1, Zenon DEF LeadsToPage
<1> QED
  BY <1>2, <1>3, <1>4, <1>5, <1>6, <1>7, <1>8, <1>9 DEF HostInv, LogInv

LEMMA HostInvStep ==
    ASSUME HostInv, [GuardedNext]_hostvars
    PROVE  HostInv'
<1>1. TypeInv'
  BY TypeInvStep DEF HostInv, GuardedNext
<1>2. LogInv'
  BY LogInvStep DEF HostInv, GuardedNext
<1>3. WindowInv'
  BY WindowInvStep DEF HostInv
<1>4. LeadsToPage'
  BY LeadsToPageStep DEF HostInv
<1> QED
  BY <1>1, <1>2, <1>3, <1>4 DEF HostInv
-----------------------------------------------------------------------------
(***************************************************************************)
(* A write begins: SHRD_host.cpp, do_twrite.                               *)
(***************************************************************************)
\* A write of o_addr begins at addr.
Begins(addr, o_addr) ==
    /\ pc = "ready" /\ pc' = "twrite" /\ page' = 1 /\ ~NoRoom
    /\ addr = TwriteAddr /\ rw_log_new_idx' = addr
    /\ o_addr \in Seq(Pages) /\ Len(o_addr) \in Nat /\ Len(o_addr) <= NumTwriteEntry
    /\ addr \in 0 .. LogSize /\ addr + Len(o_addr) <= LogSize
    /\ twrite_header' = [t_addr_start |-> addr, o_addr |-> o_addr]
    /\ sent' = <<HeaderCmd(0, o_addr), HeaderCmd(1, o_addr)>>
    /\ UNCHANGED <<map_entries, redirection_map, rw_log_start_idx,
                   remap_entry_num, remap_entry, remap_cnt, remap_end>>

LEMMA BeginTwriteIs ==
    ASSUME TypeInv, BeginTwrite
    PROVE  \E o_addr : Begins(TwriteAddr, o_addr)
<1>1. PICK o_addr \in Packings(TwriteAddr, MaxPacked) :
          /\ twrite_header' = [t_addr_start |-> TwriteAddr, o_addr |-> o_addr]
          /\ sent' = <<HeaderCmd(0, o_addr), HeaderCmd(1, o_addr)>>
  BY DEF BeginTwrite
<1>2. pc = "ready" /\ pc' = "twrite" /\ page' = 1 /\ ~NoRoom /\ rw_log_new_idx' = TwriteAddr
      /\ UNCHANGED <<map_entries, redirection_map, rw_log_start_idx,
                     remap_entry_num, remap_entry, remap_cnt, remap_end>>
  BY DEF BeginTwrite
<1>3. /\ o_addr \in Seq(LPN \cup {RSP_INVALID_LPN})
      /\ TwriteAddr \in 0 .. LogSize /\ TwriteAddr + Len(o_addr) <= LogSize
  BY <1>2, PackingFits DEF TypeInv
<1>4. Len(o_addr) \in Nat
  BY <1>3, LenProperties
<1>5. Len(o_addr) <= NumTwriteEntry
  <2> DEFINE max == MaxPacked
  <2>1. max \in Int
    BY <1>2, Constants DEF MaxPacked, MinOf, TypeInv, TypeOK, Slot
  <2>4. MinOf(max, NumTwriteEntry) \in Int /\ MinOf(max, NumTwriteEntry) <= NumTwriteEntry
    BY <2>1, Constants DEF MinOf
  <2> HIDE DEF max
  <2>2. PICK n \in 0 .. MinOf(max, NumTwriteEntry) :
            o_addr \in [1 .. n -> LPN \cup {RSP_INVALID_LPN}]
    BY <1>1 DEF Packings, max
  <2>3. n \in Nat /\ Len(o_addr) = n
    BY <1>3, <2>2, <2>4, LenProperties
  <2> QED
    BY <2>2, <2>3, <2>4, Constants
<1> QED
  BY <1>1, <1>2, <1>3, <1>4, <1>5 DEF Begins, Pages

\* The two headers of the write are under way, and its pages are due.
LEMMA BegunCalls ==
    ASSUME TypeInv, QueueOK, sent = <<>>, UNCHANGED pending, NEW addr, NEW o_addr,
           Begins(addr, o_addr)
    PROVE  /\ Len(sent') = 2 /\ sent'[1] = HeaderCmd(0, o_addr) /\ sent'[2] = HeaderCmd(1, o_addr)
           /\ \A c \in Core : /\ HeaderCmd(c, o_addr) \in HeaderCalls
                              /\ HeaderCmd(c, o_addr).core = c
                              /\ HeaderCmd(c, o_addr).t_addr_start = addr
                              /\ HeaderCmd(c, o_addr).o_addr = o_addr
           /\ sent' \in Seq(HeaderCalls) /\ SentData' = {}
           /\ Frontier' = addr + Len(o_addr) /\ Rest' = Len(o_addr)
           /\ Unsent' = Span(addr, o_addr)
           /\ \A s \in Unsent' : PageAt(s)' = o_addr[s - addr + 1]
<1>1. header_entry_num \in 0 .. TwriteEntries - 1 /\ addr \in 0 .. LogSize
      /\ o_addr \in Seq(Pages) /\ Len(o_addr) \in Nat /\ addr = TwriteAddr
  BY DEF TypeInv, TypeOK, Begins
<1>2. ASSUME NEW c \in Core
      PROVE  /\ HeaderCmd(c, o_addr) \in HeaderCalls
             /\ HeaderCmd(c, o_addr).core = c
             /\ HeaderCmd(c, o_addr).t_addr_start = addr
             /\ HeaderCmd(c, o_addr).o_addr = o_addr
  BY <1>1 DEF HeaderCmd, HeaderCalls
<1> DEFINE a == HeaderCmd(0, o_addr)
           b == HeaderCmd(1, o_addr)
<1>3. a \in HeaderCalls /\ b \in HeaderCalls
  BY <1>2 DEF Core
<1>4. sent' = <<a, b>>
  BY DEF Begins
<1> HIDE DEF a, b
<1>5. Len(sent') = 2 /\ sent'[1] = a /\ sent'[2] = b /\ sent' \in Seq(HeaderCalls)
      /\ DOMAIN sent' = 1 .. 2
  BY <1>3, <1>4
<1>6. SentData' = {}
  <2>1. \A i \in DOMAIN sent' : sent'[i].cmd # "data"
    BY <1>3, <1>5, CallKinds
  <2> QED
    BY <2>1 DEF SentData
<1>7. /\ twrite_header'.t_addr_start = addr /\ twrite_header'.o_addr = o_addr
      /\ pc' = "twrite" /\ page' = 1
  BY DEF Begins
<1>8. Frontier' = addr + Len(o_addr)
  BY <1>7 DEF Frontier
<1>9. Rest' = Len(o_addr)
  BY <1>1, <1>6, <1>7 DEF Rest
<1>10. Unsent' = Span(addr, o_addr)
  BY <1>1, <1>8, <1>9 DEF Unsent, Span
<1>11. \A s \in Unsent' : PageAt(s)' = o_addr[s - addr + 1]
  BY <1>7 DEF PageAt
<1> QED
  BY <1>2, <1>5, <1>6, <1>8, <1>9, <1>10, <1>11 DEF a, b

\* Nothing under way is near the slots of the write.
LEMMA BegunFar ==
    ASSUME SysInv, QueueFits, ~draining, NEW addr, NEW o_addr, Begins(addr, o_addr),
           NEW s \in Slots(Due)
    PROVE  /\ s \in Nat /\ rw_log_new_idx \in Nat
           /\ \/ s < addr /\ addr = rw_log_new_idx
              \/ s >= addr + 2 * NumTwriteEntry - 1
<1>1. /\ rw_log_new_idx \in 0 .. LogSize /\ s \in Slot
      /\ s < rw_log_new_idx => rw_log_new_idx - s <= BUFF_THRESHOLD - 1
      /\ s >= rw_log_new_idx =>
             rw_log_new_idx + LogSize - s <= BUFF_THRESHOLD + MinLogging - 2
  BY QuietDue DEF Begins
<1>2. s \in Nat /\ rw_log_new_idx \in Nat
  BY <1>1, Constants DEF Slot
<1>3. /\ BUFF_THRESHOLD + MinLogging + 2 * NumTwriteEntry <= LogSize + 3
      /\ BUFF_THRESHOLD \in Nat
  BY DEF QueueFits
<1>4. CASE addr = rw_log_new_idx
  BY <1>1, <1>2, <1>3, <1>4, Constants
<1>5. CASE addr = 0 /\ LogSize - rw_log_new_idx < MinLogging
  BY <1>1, <1>2, <1>3, <1>5, Constants
<1>6. addr = rw_log_new_idx \/ (addr = 0 /\ LogSize - rw_log_new_idx < MinLogging)
  BY DEF Begins, TwriteAddr, RoomAfterWrap
<1> QED
  BY <1>2, <1>4, <1>5, <1>6

LEMMA BegunApart ==
    ASSUME SysInv, QueueFits, ~draining, NEW addr, NEW o_addr, Begins(addr, o_addr)
    PROVE  Slots(Due) \cap Span(addr, o_addr) = {}
<1> SUFFICES ASSUME NEW s \in Slots(Due), s \in Span(addr, o_addr)
             PROVE  FALSE
  OBVIOUS
<1>1. /\ s \in Nat /\ rw_log_new_idx \in Nat
      /\ \/ s < addr /\ addr = rw_log_new_idx
         \/ s >= addr + 2 * NumTwriteEntry - 1
  BY BegunFar
<1>2. addr \in Nat /\ Len(o_addr) \in Nat /\ Len(o_addr) <= NumTwriteEntry
  BY Constants DEF Begins
<1> QED
  BY <1>1, <1>2, Constants DEF Span

LEMMA BegunAside ==
    ASSUME SysInv, QueueFits, ~draining, NEW addr, NEW o_addr, Begins(addr, o_addr),
           NEW start \in Nat, NEW q \in Seq(Pages), OneSide(start, q, Frontier, Rest),
           Len(q) = 0 \/ \E s \in Span(start, q) : s \in Slots(Due)
    PROVE  /\ Span(start, q) \cap Span(addr, o_addr) = {}
           /\ OneSide(start, q, addr + Len(o_addr), Len(o_addr))
<1>1. Len(q) \in Nat
  BY LenProperties
<1>2. addr \in Nat /\ Len(o_addr) \in Nat /\ Len(o_addr) <= NumTwriteEntry
  BY Constants DEF Begins
<1>3. Rest = 0 /\ Frontier = rw_log_new_idx
  BY QuietDue DEF Begins
<1>4. CASE Len(q) = 0
  BY <1>1, <1>2, <1>4, Constants DEF Span, OneSide
<1>5. ASSUME NEW s \in Span(start, q), s \in Slots(Due)
      PROVE  /\ Span(start, q) \cap Span(addr, o_addr) = {}
             /\ OneSide(start, q, addr + Len(o_addr), Len(o_addr))
  <2>1. /\ s \in Nat /\ rw_log_new_idx \in Nat
        /\ \/ s < addr /\ addr = rw_log_new_idx
           \/ s >= addr + 2 * NumTwriteEntry - 1
    BY <1>5, BegunFar
  <2>2. /\ Len(q) <= NumTwriteEntry /\ start <= s /\ s < start + Len(q)
        /\ Len(q) = 0 \/ start + Len(q) <= rw_log_new_idx \/ start >= rw_log_new_idx
    BY <1>1, <1>3, <1>5, <2>1 DEF OneSide, Span
  <2>3. start + Len(q) <= addr \/ start >= addr + Len(o_addr)
    <3>1. CASE s < addr /\ addr = rw_log_new_idx
      BY <1>1, <2>1, <2>2, <3>1
    <3>2. CASE s >= addr + 2 * NumTwriteEntry - 1
      BY <1>1, <1>2, <2>1, <2>2, <3>2, Constants
    <3> QED
      BY <2>1, <3>1, <3>2
  <2>4. OneSide(start, q, addr + Len(o_addr), Len(o_addr))
    BY <1>1, <1>2, <2>2, <2>3 DEF OneSide
  <2>5. Span(start, q) \cap Span(addr, o_addr) = {}
    BY <1>1, <1>2, <2>3 DEF Span
  <2> QED
    BY <2>4, <2>5
<1> QED
  BY <1>4, <1>5

LEMMA BegunDue ==
    ASSUME SysInv, QueueFits, ~draining, sent = <<>>, UNCHANGED pending,
           NEW addr, NEW o_addr, Begins(addr, o_addr)
    PROVE  /\ Data' = Data /\ Due' = Due \cup {<<s, o_addr[s - addr + 1]>> : s \in Span(addr, o_addr)}
           /\ Slots(Due') = Slots(Due) \cup Span(addr, o_addr)
<1>1. TypeInv /\ QueueOK /\ DataOnce
  BY DEF SysInv, HostInv, CallInv
<1>2. Unsent = {}
  BY QuietDue DEF Begins
<1>3. Unsent' = Span(addr, o_addr) /\ \A s \in Unsent' : PageAt(s)' = o_addr[s - addr + 1]
  BY <1>1, BegunCalls
<1> DEFINE new == {<<s, o_addr[s - addr + 1]>> : s \in Span(addr, o_addr)}
           old == {<<pending[i].t_addr, pending[i].content.o_addr>> : i \in Data}
<1>4. Data' = Data
  BY DEF Data
<1>5. Due = old
  BY <1>2 DEF Due
<1>6. Due' = old \cup {<<s, PageAt(s)'>> : s \in Unsent'}
  BY <1>4 DEF Due
<1>7. {<<s, PageAt(s)'>> : s \in Unsent'} = new
  BY <1>3
<1>8. Slots(new) = Span(addr, o_addr)
  <2>1. \A s \in Span(addr, o_addr) : s \in Slots(new)
    <3>1. \A s \in Span(addr, o_addr) : <<s, o_addr[s - addr + 1]>> \in new
      OBVIOUS
    <3> HIDE DEF new
    <3> QED
      BY <3>1, InSlots
  <2>2. \A d \in new : d[1] \in Span(addr, o_addr)
    OBVIOUS
  <2> QED
    BY <2>1, <2>2 DEF Slots
<1> HIDE DEF new, old
<1>9. Due' = Due \cup new
  BY <1>5, <1>6, <1>7
<1>10. Slots(Due \cup new) = Slots(Due) \cup Slots(new)
  BY DEF Slots
<1> QED
  BY <1>4, <1>8, <1>9, <1>10 DEF new

\* What the host sends when nothing was being sent.
LEMMA SentWay ==
    ASSUME QueueOK, sent = <<>>, UNCHANGED pending, NEW S, sent' \in Seq(S)
    PROVE  /\ Len(pending) \in Nat /\ DOMAIN Way = 1 .. Len(pending) /\ Way = pending
           /\ Len(sent') \in Nat /\ DOMAIN sent' = 1 .. Len(sent')
           /\ DOMAIN Way' = 1 .. Len(pending) + Len(sent')
           /\ \A j \in DOMAIN Way : Way'[j] = Way[j]
           /\ \A i \in DOMAIN sent' :
                  /\ Len(pending) + i \notin DOMAIN Way
                  /\ Way'[Len(pending) + i] = sent'[i]
<1>1. /\ Len(pending) \in Nat /\ DOMAIN pending = 1 .. Len(pending)
      /\ Len(sent') \in Nat /\ DOMAIN sent' = 1 .. Len(sent') /\ Len(sent) = 0
  BY QueueShape, LenProperties
<1>2. DOMAIN Way = 1 .. Len(pending) /\ \A j \in 1 .. Len(pending) : Way[j] = pending[j]
  BY <1>1 DEF Way
<1>3. DOMAIN Way' = 1 .. Len(pending) + Len(sent')
      /\ \A j \in 1 .. Len(pending) + Len(sent') :
             Way'[j] = IF j <= Len(pending) THEN pending[j] ELSE sent'[j - Len(pending)]
  BY <1>1 DEF Way
<1>4. Way = pending
  <2>1. /\ pending \in Seq(HeaderCalls \cup RemapCalls \cup FTLData)
        /\ Way = [j \in 1 .. Len(pending) |-> IF j <= Len(pending) THEN pending[j]
                                               ELSE sent[j - Len(pending)]]
    BY <1>1 DEF QueueOK, Way
  <2>2. pending = [j \in 1 .. Len(pending) |-> pending[j]]
    BY <1>1, <2>1
  <2> QED
    BY <1>1, <2>1, <2>2
<1>5. \A j \in DOMAIN Way : Way'[j] = Way[j]
  BY <1>1, <1>2, <1>3
<1>6. \A i \in DOMAIN sent' : /\ Len(pending) + i \notin DOMAIN Way
                             /\ Way'[Len(pending) + i] = sent'[i]
  <2> SUFFICES ASSUME NEW i \in DOMAIN sent'
               PROVE  /\ Len(pending) + i \notin DOMAIN Way
                      /\ Way'[Len(pending) + i] = sent'[i]
    OBVIOUS
  <2>1. i \in Nat /\ i >= 1 /\ i <= Len(sent')
    BY <1>1
  <2>2. /\ Len(pending) + i \in 1 .. Len(pending) + Len(sent')
        /\ ~(Len(pending) + i <= Len(pending)) /\ Len(pending) + i - Len(pending) = i
    BY <1>1, <2>1
  <2>3. PICK k \in 1 .. Len(pending) + Len(sent') : k = Len(pending) + i
    BY <2>2
  <2>4. Way'[k] = sent'[k - Len(pending)]
    BY <1>3, <2>2, <2>3
  <2>5. Way'[Len(pending) + i] = sent'[i]
    BY <2>2, <2>3, <2>4
  <2>6. Len(pending) + i \notin DOMAIN Way
    BY <1>1, <1>2, <2>2
  <2> QED
    BY <2>5, <2>6
<1> QED
  BY <1>1, <1>2, <1>3, <1>4, <1>5, <1>6

LEMMA BegunHeaders ==
    ASSUME SysInv, QueueFits, ~draining, sent = <<>>, UNCHANGED <<pending, atl>>,
           NEW addr, NEW o_addr, Begins(addr, o_addr)
    PROVE  HeadersInv'
<1>1. TypeInv /\ QueueOK /\ DataOnce /\ HeadersInv /\ ATLOK
  BY DEF SysInv, HostInv, CallInv, CoreInv
<1> SUFFICES ASSUME NEW c \in Core
             PROVE  HeadersOK(c, atl.twrites[c], Way', Due', Frontier', Rest')
  BY DEF HeadersInv
<1> DEFINE list == atl.twrites[c]
           m == Len(pending) + 1 + c
           call == HeaderCmd(c, o_addr)
           new == {<<s, o_addr[s - addr + 1]>> : s \in Span(addr, o_addr)}
<1>2. /\ Len(sent') = 2 /\ sent'[1] = HeaderCmd(0, o_addr) /\ sent'[2] = HeaderCmd(1, o_addr)
      /\ \A b \in Core : /\ HeaderCmd(b, o_addr) \in HeaderCalls
                         /\ HeaderCmd(b, o_addr).core = b
      /\ call.t_addr_start = addr /\ call.o_addr = o_addr
      /\ sent' \in Seq(HeaderCalls)
      /\ Frontier' = addr + Len(o_addr) /\ Rest' = Len(o_addr)
  BY <1>1, BegunCalls
<1>3. list \in Seq(Entries)
  BY <1>1 DEF ATLOK, Maps
<1>4. HeadersOK(c, list, Way, Due, Frontier, Rest)
  BY <1>1 DEF HeadersInv
<1>5. /\ Due' = Due \cup new /\ Slots(Due') = Slots(Due) \cup Span(addr, o_addr)
      /\ Slots(Due) \cap Span(addr, o_addr) = {}
  BY BegunDue, BegunApart
<1>6. /\ Len(pending) \in Nat /\ DOMAIN Way = 1 .. Len(pending)
      /\ DOMAIN Way' = 1 .. Len(pending) + 2
      /\ \A j \in DOMAIN Way : Way'[j] = Way[j]
      /\ Way'[Len(pending) + 1] = HeaderCmd(0, o_addr)
      /\ Way'[Len(pending) + 2] = HeaderCmd(1, o_addr)
  BY <1>1, <1>2, SentWay
<1>7. call.cmd = "header" /\ call.core = c
  BY <1>2, CallKinds
<1>8. Headers(c, Way') = Headers(c, Way) \cup {m} /\ m \notin Headers(c, Way) /\ Way'[m] = call
  <2>1. HeaderCmd(0, o_addr).core = 0 /\ HeaderCmd(1, o_addr).core = 1
        /\ HeaderCmd(0, o_addr).cmd = "header" /\ HeaderCmd(1, o_addr).cmd = "header"
    BY <1>2, CallKinds DEF Core
  <2>2. c = 0 \/ c = 1
    BY DEF Core
  <2>3. DOMAIN Way' = DOMAIN Way \cup {Len(pending) + 1, Len(pending) + 2}
        /\ Len(pending) + 1 \notin DOMAIN Way /\ Len(pending) + 2 \notin DOMAIN Way
    BY <1>6
  <2> DEFINE a == HeaderCmd(0, o_addr)
             b == HeaderCmd(1, o_addr)
  <2>4. \A j \in DOMAIN Way' : Way'[j].cmd = "header" /\ Way'[j].core = c <=>
            j \in Headers(c, Way) \/ j = m
    <3> SUFFICES ASSUME NEW j \in DOMAIN Way'
                 PROVE  Way'[j].cmd = "header" /\ Way'[j].core = c <=>
                            j \in Headers(c, Way) \/ j = m
      OBVIOUS
    <3>1. CASE j \in DOMAIN Way
      <4>1. Way'[j] = Way[j] /\ j # m
        BY <1>6, <2>2, <2>3, <3>1
      <4> QED
        BY <3>1, <4>1 DEF Headers
    <3>2. CASE j = Len(pending) + 1
      <4>1. Way'[j] = a /\ j \notin Headers(c, Way) /\ (j = m <=> c = 0)
        BY <1>6, <2>2, <2>3, <3>2 DEF Headers
      <4> HIDE DEF a, b, m
      <4> QED
        BY <2>1, <2>2, <4>1 DEF a
    <3>3. CASE j = Len(pending) + 2
      <4>1. Way'[j] = b /\ j \notin Headers(c, Way) /\ (j = m <=> c = 1)
        BY <1>6, <2>2, <2>3, <3>3 DEF Headers
      <4> HIDE DEF a, b, m
      <4> QED
        BY <2>1, <2>2, <4>1 DEF b
    <3> QED
      BY <2>3, <3>1, <3>2, <3>3
  <2>5. m \in DOMAIN Way' /\ m \notin DOMAIN Way
    BY <2>2, <2>3
  <2>6. Headers(c, Way') = Headers(c, Way) \cup {m}
    <3> HIDE DEF m
    <3>1. \A j \in Headers(c, Way) : j \in DOMAIN Way'
      BY <2>3 DEF Headers
    <3>2. \A j : j \in Headers(c, Way') <=> j \in DOMAIN Way' /\ Way'[j].cmd = "header" /\ Way'[j].core = c
      BY DEF Headers
    <3> QED
      BY <2>4, <2>5, <3>1, <3>2
  <2>7. Way'[m] = call
    BY <1>6, <2>2
  <2> QED
    BY <2>5, <2>6, <2>7 DEF Headers
<1>9. \A d \in new : Names(addr, o_addr, d)
  BY DEF Names
<1>10. Slots(new) = Span(addr, o_addr)
  <2>1. \A s \in Span(addr, o_addr) : <<s, o_addr[s - addr + 1]>> \in new
    OBVIOUS
  <2>2. \A d \in new : d[1] \in Span(addr, o_addr)
    OBVIOUS
  <2> HIDE DEF new
  <2>3. \A s \in Span(addr, o_addr) : s \in Slots(new)
    BY <2>1, InSlots
  <2> QED
    BY <2>2, <2>3 DEF Slots
<1>11. \A i \in DOMAIN list :
           /\ ListSpan(list[i]) \cap Span(addr, o_addr) = {}
           /\ OneSide(list[i].addr_start, list[i].o_addr, addr + Len(o_addr), Len(o_addr))
  <2> SUFFICES ASSUME NEW i \in DOMAIN list
               PROVE  /\ ListSpan(list[i]) \cap Span(addr, o_addr) = {}
                      /\ OneSide(list[i].addr_start, list[i].o_addr, addr + Len(o_addr), Len(o_addr))
    OBVIOUS
  <2>1. list[i].addr_start \in Nat /\ list[i].o_addr \in Seq(Pages)
    BY <1>3, EntryShape
  <2>2. OneSide(list[i].addr_start, list[i].o_addr, Frontier, Rest)
    BY <1>4 DEF HeadersOK, HeadersNear
  <2>3. \E s \in ListSpan(list[i]) : s \in Slots(Due)
    <3>1. /\ list[i].remained # 0
          /\ list[i].remained = Cardinality(Remaining(c, ListSpan(list[i]), Due))
      BY <1>4 DEF HeadersOK, HeadersCount
    <3>2. Remaining(c, ListSpan(list[i]), Due) # {}
      BY <3>1, FS_EmptySet
    <3> QED
      BY <3>2 DEF Remaining
  <2> HIDE DEF list
  <2> QED
    BY <2>1, <2>2, <2>3, BegunAside DEF ListSpan
<1>12. \A j \in Headers(c, Way) :
           /\ CallSpan(Way[j]) \cap Span(addr, o_addr) = {}
           /\ OneSide(Way[j].t_addr_start, Way[j].o_addr, addr + Len(o_addr), Len(o_addr))
  <2> SUFFICES ASSUME NEW j \in Headers(c, Way)
               PROVE  /\ CallSpan(Way[j]) \cap Span(addr, o_addr) = {}
                      /\ OneSide(Way[j].t_addr_start, Way[j].o_addr, addr + Len(o_addr), Len(o_addr))
    OBVIOUS
  <2>1. Way[j] \in HeaderCalls
    <3>1. j \in DOMAIN pending /\ Way[j] = pending[j] /\ Way[j].cmd = "header"
      BY <1>1, <1>2, SentWay DEF Headers
    <3> QED
      BY <1>1, <3>1, QueueShape
  <2>2. Way[j].t_addr_start \in Nat /\ Way[j].o_addr \in Seq(Pages)
    BY <2>1, Constants DEF HeaderCalls
  <2>3. OneSide(Way[j].t_addr_start, Way[j].o_addr, Frontier, Rest)
    BY <1>4 DEF HeadersOK, HeadersNear
  <2>4. CallSpan(Way[j]) \subseteq Slots(Due)
    BY <1>4 DEF HeadersOK, HeadersCount
  <2>5. Len(Way[j].o_addr) = 0 \/ \E s \in CallSpan(Way[j]) : s \in Slots(Due)
    <3>1. Len(Way[j].o_addr) \in Nat
      BY <2>2, LenProperties
    <3>2. Len(Way[j].o_addr) # 0 => Way[j].t_addr_start \in CallSpan(Way[j])
      BY <2>2, <3>1 DEF CallSpan, Span
    <3> QED
      BY <2>4, <3>2
  <2> QED
    BY <2>2, <2>3, <2>5, BegunAside DEF CallSpan
<1>13. OneSide(addr, o_addr, addr + Len(o_addr), Len(o_addr))
  BY DEF OneSide, Begins
<1>14. CallSpan(call) = Span(addr, o_addr)
  BY <1>2 DEF CallSpan
<1>15. \A j \in Headers(c, Way) : Way'[j] = Way[j]
  BY <1>6 DEF Headers
<1> HIDE DEF list, m, call, new
<1>16. HeadersOK(c, list, Way', Due \cup new, addr + Len(o_addr), Len(o_addr))
  BY <1>2, <1>3, <1>4, <1>8, <1>9, <1>10, <1>11, <1>12, <1>13, <1>14, <1>15, HeaderSent
<1> QED
  BY <1>2, <1>5, <1>16 DEF list

LEMMA BegunRemaps ==
    ASSUME SysInv, QueueFits, ~draining, sent = <<>>, UNCHANGED <<pending, atl>>,
           NEW addr, NEW o_addr, Begins(addr, o_addr)
    PROVE  RemapsInv'
<1>1. TypeInv /\ QueueOK /\ RemapsInv
  BY DEF SysInv, HostInv, CallInv, CoreInv
<1>2. /\ \A c \in Core : HeaderCmd(c, o_addr) \in HeaderCalls
      /\ Len(sent') = 2 /\ sent'[1] = HeaderCmd(0, o_addr) /\ sent'[2] = HeaderCmd(1, o_addr)
      /\ sent' \in Seq(HeaderCalls)
  BY <1>1, BegunCalls
<1>3. /\ DOMAIN sent' = 1 .. 2 /\ Len(pending) \in Nat /\ DOMAIN Way = 1 .. Len(pending)
      /\ DOMAIN Way' = 1 .. Len(pending) + 2
      /\ \A j \in DOMAIN Way : Way'[j] = Way[j]
      /\ Way'[Len(pending) + 1] = HeaderCmd(0, o_addr)
      /\ Way'[Len(pending) + 2] = HeaderCmd(1, o_addr)
  BY <1>1, <1>2, SentWay
<1>4. \A i \in DOMAIN sent' : sent'[i].cmd = "header"
  BY <1>2, <1>3, CallKinds DEF Core
<1>5. \A j \in DOMAIN Way' : j \in DOMAIN Way \/ Way'[j].cmd = "header"
  <2>1. \A j \in DOMAIN Way' : j \in DOMAIN Way \/ j = Len(pending) + 1 \/ j = Len(pending) + 2
    BY <1>3
  <2>2. HeaderCmd(0, o_addr).cmd = "header" /\ HeaderCmd(1, o_addr).cmd = "header"
    BY <1>2, CallKinds DEF Core
  <2> QED
    BY <1>3, <2>1, <2>2
<1>6. SameRemaps(Way', Way)
  <2> SUFFICES ASSUME NEW j, NEW i, Owns(Way', j, i)
               PROVE  Owns(Way, j, i) /\ Way'[j] = Way[j]
    BY DEF SameRemaps
  <2>1. j \in DOMAIN Way' /\ Way'[j].cmd = "remap" /\ OwnPair(Way'[j], i)
    BY DEF Owns
  <2>2. j \in DOMAIN Way
    BY <1>5, <2>1
  <2>3. Way'[j] = Way[j]
    BY <1>3, <2>2
  <2> QED
    BY <2>1, <2>2, <2>3 DEF Owns
<1>7. Slots(Due) \subseteq Slots(Due')
  BY BegunDue
<1>8. map_entries' = map_entries /\ redirection_map' = redirection_map
  BY DEF Begins
<1>9. RemapsApart(Way) /\ RemapsHold(Way, atl.log)
      /\ RemapsPast(Way, Due, map_entries, redirection_map)
  BY <1>1 DEF RemapsInv
<1>10. RemapsApart(Way') /\ RemapsHold(Way', atl.log)
       /\ RemapsPast(Way', Due', map_entries', redirection_map')
  <2>1. \A j, i : Owns(Way, j, i) =>
            LET p == Way[j].pairs[i]
            IN  /\ map_entries'[p.t_addr] \in {map_entries[p.t_addr], NoMap}
                       \/ p.t_addr \in Slots(Due')
                /\ redirection_map'[p.o_addr] \in {redirection_map[p.o_addr], NoSlot}
                       \/ redirection_map'[p.o_addr] \in Slots(Due')
    BY <1>8
  <2> DEFINE way2 == Way'
             due2 == Due'
             map2 == map_entries'
             red2 == redirection_map'
  <2>2. SameRemaps(way2, Way)
    BY <1>6
  <2>3. Slots(Due) \subseteq Slots(due2)
    BY <1>7
  <2> HIDE DEF way2, due2, map2, red2
  <2>4. \A j, i : Owns(Way, j, i) =>
            LET p == Way[j].pairs[i]
            IN  /\ map2[p.t_addr] \in {map_entries[p.t_addr], NoMap}
                       \/ p.t_addr \in Slots(due2)
                /\ red2[p.o_addr] \in {redirection_map[p.o_addr], NoSlot}
                       \/ red2[p.o_addr] \in Slots(due2)
    BY <2>1, Zenon DEF due2, map2, red2
  <2>5. RemapsApart(way2) /\ RemapsHold(way2, atl.log) /\ RemapsPast(way2, due2, map2, red2)
    BY <1>9, <2>2, <2>3, <2>4, RemapsUnchanged
  <2> QED
    BY <2>5, Zenon DEF way2, due2, map2, red2
<1>11. RemapsSent'
  BY <1>4 DEF RemapsSent
<1> QED
  BY <1>10, <1>11 DEF RemapsInv

LEMMA BegunLog ==
    ASSUME SysInv, QueueFits, HostInv', ~draining, sent = <<>>, UNCHANGED <<pending, atl>>,
           NEW addr, NEW o_addr, Begins(addr, o_addr)
    PROVE  LogHolds'
<1>1. TypeInv /\ QueueOK /\ DataOnce /\ LogHolds /\ TypeInv' /\ WindowInv'
  BY DEF SysInv, HostInv, CallInv, CoreInv
<1>2. /\ Due \subseteq Due' /\ Slots(Due') = Slots(Due) \cup Span(addr, o_addr)
  BY BegunDue
<1>3. /\ map_entries' = map_entries /\ rw_log_new_idx' = addr /\ pc' = "twrite" /\ page' = 1
      /\ twrite_header'.t_addr_start = addr /\ twrite_header'.o_addr = o_addr
      /\ addr \in 0 .. LogSize /\ Len(o_addr) \in Nat /\ addr + Len(o_addr) <= LogSize
      /\ rw_log_start_idx' \in Slot
  BY <1>1 DEF Begins, TypeInv, TypeOK
<1>4. ASSUME NEW s \in Slot, IsValid(s)'
      PROVE  s \notin Span(addr, o_addr)
  <2>1. InUse(s)' \/ BeingPacked(s)'
    BY <1>1, <1>4 DEF WindowInv, LiveInWindow
  <2>2. ~BeingPacked(s)'
    <3>1. TwriteSlot' = addr
      BY <1>3 DEF TwriteSlot
    <3> QED
      BY <1>3, <1>4, <3>1, Constants DEF BeingPacked, Slot
  <2>3. CASE Linear'
    <3>1. s < addr
      BY <1>3, <1>4, <2>1, <2>2, <2>3 DEF InUse, Slot
    <3> QED
      BY <1>3, <3>1, Constants DEF Span, Slot
  <2>4. CASE ~Linear'
    <3>1. s >= rw_log_start_idx' \/ s < addr
      BY <1>3, <2>1, <2>2, <2>4 DEF InUse
    <3>2. addr + Len(o_addr) < rw_log_start_idx'
      BY <1>1, <1>3, <2>4 DEF WindowInv, WriteStopsShort
    <3> QED
      BY <1>3, <3>1, <3>2, Constants DEF Span, Slot
  <2> QED
    BY <2>3, <2>4
<1> SUFFICES ASSUME NEW s \in Slot, IsValid(s)'
             PROVE  \/ <<s, map_entries'[s].o_addr>> \in Due'
                    \/ s \notin Slots(Due') /\ atl'.log[s] \in Content(map_entries'[s].o_addr)
  BY DEF LogHolds
<1>5. IsValid(s)
  BY <1>3 DEF IsValid
<1>6. \/ <<s, map_entries[s].o_addr>> \in Due
      \/ s \notin Slots(Due) /\ atl.log[s] \in Content(map_entries[s].o_addr)
  BY <1>1, <1>5 DEF LogHolds
<1>7. s \notin Span(addr, o_addr)
  BY <1>4
<1> QED
  BY <1>2, <1>3, <1>6, <1>7

LEMMA BegunCallInv ==
    ASSUME SysInv, QueueFits, ~draining, sent = <<>>, UNCHANGED <<pending, draining>>,
           buff' = VC_MAX, NEW addr, NEW o_addr, Begins(addr, o_addr)
    PROVE  CallInv'
<1>1. TypeInv /\ QueueOK /\ DataOnce /\ DataNear
  BY DEF SysInv, HostInv, CallInv
<1>2. /\ Len(sent') = 2 /\ sent'[1] = HeaderCmd(0, o_addr) /\ sent'[2] = HeaderCmd(1, o_addr)
      /\ \A c \in Core : /\ HeaderCmd(c, o_addr) \in HeaderCalls
                         /\ HeaderCmd(c, o_addr).t_addr_start = addr
                         /\ HeaderCmd(c, o_addr).o_addr = o_addr
      /\ sent' \in Seq(HeaderCalls)
      /\ Frontier' = addr + Len(o_addr) /\ Rest' = Len(o_addr)
      /\ Unsent' = Span(addr, o_addr)
  BY <1>1, BegunCalls
<1>3. Data' = Data /\ Slots(Due) \cap Span(addr, o_addr) = {}
  BY BegunDue, BegunApart
<1>4. QueueOK'
  <2>1. \A i \in DOMAIN sent' : sent'[i] = HeaderCmd(0, o_addr) \/ sent'[i] = HeaderCmd(1, o_addr)
    <3>1. DOMAIN sent' = 1 .. 2
      BY <1>2, LenProperties
    <3> QED
      BY <1>2, <3>1
  <2>2. \A i \in DOMAIN sent' : IsSent(sent[i])'
    <3>1. pc' = "twrite" /\ page' = 1 /\ twrite_header'.t_addr_start = addr
          /\ twrite_header'.o_addr = o_addr
      BY DEF Begins
    <3> SUFFICES ASSUME NEW i \in DOMAIN sent'
                 PROVE  IsSent(sent[i])'
      OBVIOUS
    <3>2. /\ sent'[i] \in HeaderCalls /\ sent'[i].t_addr_start = addr
          /\ sent'[i].o_addr = o_addr
      BY <1>2, <2>1 DEF Core
    <3> QED
      BY <3>1, <3>2 DEF IsSent
  <2>3. sent' \in Seq(HeaderCalls \cup RemapCalls \cup HostData)
    BY <1>2
  <2>4. pending' = pending /\ draining' = draining /\ buff' = VC_MAX
    OBVIOUS
  <2> QED
    BY <1>1, <2>2, <2>3, <2>4 DEF QueueOK
<1>5. DataOnce'
  <2>1. \A i \in Data : pending[i].t_addr \in Slots(Due)
    BY <1>1, DueShape
  <2>2. \A i \in Data : pending[i].t_addr \notin Unsent'
    BY <1>2, <1>3, <2>1
  <2> QED
    BY <1>1, <1>3, <2>2 DEF DataOnce
<1>6. DataNear'
  <2> SUFFICES ASSUME NEW i \in Data
               PROVE  LET s == pending[i].t_addr
                          calls == Len(pending) - i + 1 + Rest'
                      IN  IF s < Frontier' THEN Frontier' - s <= calls
                          ELSE Frontier' + LogSize - s <= calls + MinLogging - 1
    BY <1>3 DEF DataNear
  <2> DEFINE s == pending[i].t_addr
             n == Len(o_addr)
             k == Len(pending) - i + 1
  <2>1. Rest = 0 /\ Frontier = rw_log_new_idx /\ rw_log_new_idx \in 0 .. LogSize
    BY QuietDue DEF Begins
  <2>2. s \in Slot /\ s \in Nat
    <3>1. s \in Slot
      BY <1>1, DueShape
    <3> QED
      BY <3>1, Constants DEF Slot
  <2>3. i \in 1 .. Len(pending) /\ Len(pending) \in Nat
    BY <1>1, QueueShape DEF Data
  <2>4. IF s < rw_log_new_idx THEN rw_log_new_idx - s <= k
        ELSE rw_log_new_idx + LogSize - s <= k + MinLogging - 1
    <3>1. IF s < Frontier THEN Frontier - s <= k + Rest
          ELSE Frontier + LogSize - s <= k + Rest + MinLogging - 1
      BY <1>1 DEF DataNear
    <3> QED
      BY <2>1, <2>3, <3>1
  <2>5. n \in Nat /\ addr \in 0 .. LogSize
        /\ (addr = rw_log_new_idx \/ (addr = 0 /\ LogSize - rw_log_new_idx < MinLogging))
    BY DEF Begins, TwriteAddr, RoomAfterWrap
  <2>6. k \in Nat /\ k >= 1
    BY <2>3
  <2>9. Frontier' = addr + n /\ Rest' = n
    BY <1>2
  <2> HIDE DEF s, n, k
  <2>7. CASE addr = rw_log_new_idx
    <3>1. IF s < addr + n THEN addr + n - s <= k + n
          ELSE addr + n + LogSize - s <= k + n + MinLogging - 1
      BY <2>1, <2>2, <2>4, <2>5, <2>6, <2>7, Constants
    <3> QED
      BY <2>2, <2>3, <2>5, <2>9, <3>1 DEF s, k
  <2>8. CASE addr = 0 /\ LogSize - rw_log_new_idx < MinLogging
    <3>1. IF s < addr + n THEN addr + n - s <= k + n
          ELSE addr + n + LogSize - s <= k + n + MinLogging - 1
      BY <2>1, <2>2, <2>4, <2>5, <2>6, <2>8, Constants
    <3> QED
      BY <2>2, <2>3, <2>5, <2>9, <3>1 DEF s, k
  <2> QED
    BY <2>5, <2>7, <2>8
<1>7. FarWindow'
  BY DEF FarWindow, Begins
<1> QED
  BY <1>4, <1>5, <1>6, <1>7 DEF CallInv

LEMMA BeginTwriteStep ==
    ASSUME SysInv, QueueFits, HostInv', Host, BeginTwrite
    PROVE  SysInv'
<1>1. TypeInv /\ QueueOK /\ LogInv /\ ATLOK /\ HomeHoldsOwnPage
  BY DEF SysInv, HostInv, CallInv, CoreInv
<1>2. PICK o_addr : Begins(TwriteAddr, o_addr)
  BY <1>1, BeginTwriteIs
<1>3. sent = <<>> /\ ~draining /\ UNCHANGED <<atl, pending, draining>>
  BY DEF Host
<1>4. SentData' = {}
  BY <1>1, <1>2, <1>3, BegunCalls
<1>5. buff' = VC_MAX
  BY <1>4 DEF Host
<1> DEFINE addr == TwriteAddr
<1>6. Begins(addr, o_addr)
  BY <1>2
<1> HIDE DEF addr
<1>7. CallInv'
  BY <1>3, <1>5, <1>6, BegunCallInv
<1>8. HeadersInv'
  BY <1>3, <1>6, BegunHeaders
<1>9. RemapsInv'
  BY <1>3, <1>6, BegunRemaps
<1>10. LogHolds'
  BY <1>3, <1>6, BegunLog
<1>11. CommandHolds'
  <2>1. remap_entry = <<>> /\ remap_entry' = remap_entry
    BY <1>1, <1>6 DEF LogInv, PendingInRemap, Begins
  <2> QED
    BY <2>1 DEF CommandHolds
<1>12. ATLOK' /\ HomeHoldsOwnPage'
  BY <1>1, <1>3 DEF ATLOK, HomeHoldsOwnPage
<1> QED
  BY <1>7, <1>8, <1>9, <1>10, <1>11, <1>12 DEF SysInv, CoreInv
-----------------------------------------------------------------------------
(***************************************************************************)
(* A page of the write is sent: do_twrite's data loop.                     *)
(***************************************************************************)
LEMMA OwnsShape ==
    ASSUME QueueOK, NEW j, NEW i, Owns(Way, j, i)
    PROVE  /\ j \in DOMAIN Way /\ Way[j] \in RemapCalls /\ i \in DOMAIN Way[j].pairs
           /\ Way[j].pairs[i] \in Pair
           /\ Way[j].pairs[i].t_addr \in Slot /\ Way[j].pairs[i].o_addr \in LPN
           /\ CoreOf(Way[j].pairs[i].t_addr) = Way[j].core
<1>1. /\ j \in DOMAIN Way /\ Way[j].cmd = "remap" /\ i \in DOMAIN Way[j].pairs
      /\ CoreOf(Way[j].pairs[i].t_addr) = Way[j].core
  BY DEF Owns, OwnPair
<1>2. Way[j] \in RemapCalls
  <2>1. CASE j \in DOMAIN pending
    BY <1>1, <2>1, WayShape, QueueShape
  <2>2. CASE j - Len(pending) \in DOMAIN sent
    <3> DEFINE m == j - Len(pending)
    <3>1. Len(pending) \in Nat /\ DOMAIN Way = 1 .. Len(pending) + Len(sent) /\ Len(sent) \in Nat
      BY WayShape, QueueShape
    <3>2. Len(pending) + m = j
      BY <1>1, <3>1
    <3> HIDE DEF m
    <3>3. m \in DOMAIN sent
      BY <2>2 DEF m
    <3>4. Way[j] = sent[m]
      BY <3>2, <3>3, WayShape
    <3> QED
      BY <1>1, <3>3, <3>4, QueueShape
  <2> QED
    BY <1>1, <2>1, <2>2, WayShape
<1>3. Way[j].pairs \in Seq(Pair)
  BY <1>2, CallKinds
<1>4. Way[j].pairs[i] \in Pair
  BY <1>1, <1>3, LenProperties
<1> QED
  BY <1>1, <1>2, <1>4 DEF Pair

\* The next page of the write is sent.
PageGoes ==
    /\ pc = "twrite" /\ page <= Len(twrite_header.o_addr)
    /\ sent = <<>> /\ sent' = <<DataCmd>> /\ page' = page + 1
    /\ UNCHANGED <<pc, rw_log_start_idx, rw_log_new_idx, twrite_header,
                   remap_entry, pending, draining, atl>>
    /\ buff' \in IF TwriteOAddr = RSP_INVALID_LPN THEN {Padding} ELSE Content(TwriteOAddr)

LEMMA PageGoesIs ==
    ASSUME Host, WritePadding \/ WritePage
    PROVE  PageGoes /\ SentData' = {1}
<1>1. sent' = <<DataCmd>>
  BY DEF WritePadding, WritePage
<1>2. DataCmd.cmd = "data" /\ DataCmd.o_addr = TwriteOAddr
  BY DEF DataCmd
<1> DEFINE a == DataCmd
<1> HIDE DEF a
<1>3. sent' = <<a>> /\ a.cmd = "data" /\ a.o_addr = TwriteOAddr
  BY <1>1, <1>2 DEF a
<1>4. DOMAIN sent' = {1} /\ sent'[1] = a
  BY <1>3
<1>5. SentData' = {1}
  BY <1>3, <1>4 DEF SentData
<1>6. buff' \in IF TwriteOAddr = RSP_INVALID_LPN THEN {Padding} ELSE Content(TwriteOAddr)
  BY <1>3, <1>4, <1>5 DEF Host
<1> QED
  BY <1>1, <1>5, <1>6 DEF Host, WritePadding, WritePage, PageGoes

\* What is due stays as it is: the page has only left the host's loop.
LEMMA PageDue ==
    ASSUME TypeInv, QueueOK, PageGoes, SentData' = {1}
    PROVE  /\ Frontier' = Frontier /\ Rest' = Rest /\ Unsent' = Unsent /\ Data' = Data
           /\ Due' = Due /\ Rest = Len(twrite_header.o_addr) - page + 1
           /\ TwriteSlot \in Slot /\ TwriteSlot \in Unsent /\ PageAt(TwriteSlot) = TwriteOAddr
           /\ <<TwriteSlot, TwriteOAddr>> \in Due
           /\ DataCmd \in HostData /\ TwriteSlot' = TwriteSlot + 1 /\ TwriteSlot \in Int
<1> DEFINE n == Len(twrite_header.o_addr)
           start == twrite_header.t_addr_start
<1>1. /\ n \in Nat /\ start \in Nat /\ start + n <= LogSize /\ page \in 1 .. n
      /\ twrite_header.o_addr \in Seq(Pages)
  <2>1. twrite_header.o_addr \in Seq(Pages) /\ start \in 0 .. LogSize /\ start + n <= LogSize
        /\ page \in 1 .. n + 1
    BY DEF TypeInv, TypeOK, Pages
  <2>2. n \in Nat
    BY <2>1, LenProperties
  <2> QED
    BY <2>1, <2>2, Constants DEF PageGoes
<1>2. SentData = {}
  BY DEF SentData, PageGoes
<1>3. Frontier' = Frontier /\ Frontier = start + n
  BY DEF Frontier, PageGoes
<1>4. Rest = n - page + 1
  BY <1>1, <1>2 DEF Rest, PageGoes
<1>5. Rest' = n - (page + 1) + 1 + 1
  BY DEF Rest, PageGoes
<1>6. Rest' = Rest
  BY <1>1, <1>4, <1>5
<1>7. Unsent' = Unsent
  BY <1>3, <1>6 DEF Unsent
<1>8. Data' = Data
  BY DEF Data, PageGoes
<1>9. pending' = pending /\ twrite_header' = twrite_header
  BY DEF PageGoes
<1>10. Due' = Due
  BY <1>7, <1>8, <1>9 DEF Due, PageAt
<1>11. TwriteSlot = start + page - 1 /\ TwriteSlot' = start + (page + 1) - 1
  BY DEF TwriteSlot, PageGoes
<1>12. TwriteSlot \in Unsent
  <2> HIDE DEF n, start
  <2>1. start + n - (n - page + 1) = start + page - 1 /\ start + page - 1 \in Int
        /\ start + n - 1 \in Int /\ start + page - 1 <= start + n - 1
    BY <1>1
  <2>2. Frontier - Rest = start + page - 1 /\ Frontier - 1 = start + n - 1
    BY <1>1, <1>3, <1>4
  <2>3. Unsent = start + page - 1 .. start + n - 1
    BY <2>2, Zenon DEF Unsent
  <2> QED
    BY <1>11, <2>1, <2>3
<1>13. PageAt(TwriteSlot) = TwriteOAddr
  <2>1. TwriteSlot - start + 1 = page
    BY <1>1, <1>11
  <2> QED
    BY <2>1 DEF PageAt, TwriteOAddr
<1>14. <<TwriteSlot, TwriteOAddr>> \in Due
  <2>1. <<TwriteSlot, PageAt(TwriteSlot)>> \in Due
    BY <1>12 DEF Due
  <2> QED
    BY <1>13, <2>1
<1>15. TwriteSlot \in Slot
  BY <1>1, <1>11, Constants DEF Slot
<1>16. TwriteOAddr \in Pages
  BY <1>1 DEF TwriteOAddr
<1>17. DataCmd \in HostData
  BY <1>15, <1>16 DEF DataCmd, HostData
<1>18. TwriteSlot' = TwriteSlot + 1 /\ TwriteSlot \in Int
  BY <1>1, <1>11
<1> QED
  BY <1>3, <1>4, <1>6, <1>7, <1>8, <1>10, <1>12, <1>13, <1>14, <1>15, <1>17, <1>18

LEMMA PageCallInv ==
    ASSUME HostInv, CallInv, PageGoes, SentData' = {1}
    PROVE  CallInv'
<1>1. TypeInv /\ QueueOK /\ DataOnce /\ DataNear
  BY DEF HostInv, CallInv
<1>2. /\ Frontier' = Frontier /\ Rest' = Rest /\ Unsent' = Unsent /\ Data' = Data
      /\ DataCmd \in HostData /\ TwriteSlot' = TwriteSlot + 1 /\ TwriteSlot \in Int
  BY <1>1, PageDue
<1>3. /\ pending' = pending /\ draining' = draining /\ pc' = pc /\ pc = "twrite"
      /\ sent' = <<DataCmd>> /\ twrite_header' = twrite_header /\ page' = page + 1
      /\ page \in Nat /\ page >= 1
  BY <1>1 DEF PageGoes, TypeInv, TypeOK
<1>4. QueueOK'
  <2> DEFINE a == DataCmd
  <2>1. a.t_addr = TwriteSlot /\ a.o_addr = TwriteOAddr
    BY DEF DataCmd
  <2>2. sent' = <<a>> /\ a \in HostData
    BY <1>2, <1>3
  <2> HIDE DEF a
  <2>3. sent' \in Seq(HostData) /\ Len(sent') = 1 /\ sent'[1] = a /\ DOMAIN sent' = {1}
    BY <2>2
  <2>4. IsSent(sent[1])'
    <3>1. pc' = "twrite" /\ page' > 1 /\ Len(sent') = 1
      BY <1>3, <2>3
    <3>2. sent'[1] \in HostData /\ sent'[1].t_addr = TwriteSlot' - 1
      BY <1>2, <2>1, <2>2, <2>3
    <3>3. sent'[1].o_addr = twrite_header'.o_addr[page' - 1]
      <4>1. page' - 1 = page
        BY <1>3
      <4> QED
        BY <1>3, <2>1, <2>3, <4>1 DEF TwriteOAddr
    <3>4. buff' \in IF sent'[1].o_addr = RSP_INVALID_LPN THEN {Padding} ELSE Content(sent'[1].o_addr)
      BY <2>1, <2>3 DEF PageGoes
    <3> QED
      BY <3>1, <3>2, <3>3, <3>4 DEF IsSent
  <2>5. sent' \in Seq(HeaderCalls \cup RemapCalls \cup HostData)
    BY <2>3
  <2> QED
    BY <1>1, <1>3, <2>3, <2>4, <2>5 DEF QueueOK
<1>5. DataOnce'
  BY <1>1, <1>2, <1>3 DEF DataOnce
<1>6. DataNear'
  BY <1>1, <1>2, <1>3 DEF DataNear
<1>7. FarWindow'
  BY <1>3 DEF FarWindow
<1> QED
  BY <1>4, <1>5, <1>6, <1>7 DEF CallInv

\* The page is no header and no remap.
LEMMA PageWay ==
    ASSUME HostInv, CallInv, PageGoes, SentData' = {1}
    PROVE  /\ \A c : /\ Headers(c, Way') = Headers(c, Way)
                     /\ \A j \in Headers(c, Way) : Way'[j] = Way[j]
           /\ SameRemaps(Way', Way)
<1>1. TypeInv /\ QueueOK
  BY DEF HostInv, CallInv
<1> DEFINE a == DataCmd
<1>2. sent = <<>> /\ pending' = pending /\ sent' = <<a>> /\ a \in HostData
  BY <1>1, PageDue DEF PageGoes
<1>3. a.cmd = "data"
  BY DEF DataCmd
<1> HIDE DEF a
<1>4. sent' \in Seq({a}) /\ Len(sent') = 1 /\ sent'[1] = a /\ DOMAIN sent' = 1 .. 1
  BY <1>2
<1>5. /\ Len(pending) \in Nat /\ DOMAIN Way = 1 .. Len(pending)
      /\ DOMAIN Way' = 1 .. Len(pending) + 1
      /\ \A j \in DOMAIN Way : Way'[j] = Way[j]
      /\ Way'[Len(pending) + 1] = a
  BY <1>1, <1>2, <1>4, SentWay
<1>6. \A j \in DOMAIN Way' : (j \in DOMAIN Way /\ Way'[j] = Way[j]) \/ Way'[j].cmd = "data"
  <2>1. \A j \in DOMAIN Way' : j \in DOMAIN Way \/ j = Len(pending) + 1
    BY <1>5
  <2> QED
    BY <1>3, <1>5, <2>1
<1>7. DOMAIN Way \subseteq DOMAIN Way'
  BY <1>5
<1>8. ASSUME NEW c
      PROVE  /\ Headers(c, Way') = Headers(c, Way)
             /\ \A j \in Headers(c, Way) : Way'[j] = Way[j]
  BY <1>5, <1>6, <1>7 DEF Headers
<1>9. SameRemaps(Way', Way)
  BY <1>6 DEF SameRemaps, Owns
<1> QED
  BY <1>8, <1>9

LEMMA PageHeaders ==
    ASSUME SysInv, PageGoes, SentData' = {1}
    PROVE  HeadersInv'
<1>1. HostInv /\ CallInv /\ TypeInv /\ QueueOK /\ HeadersInv
  BY DEF SysInv, HostInv, CallInv, CoreInv
<1> SUFFICES ASSUME NEW c \in Core
             PROVE  HeadersOK(c, atl'.twrites[c], Way', Due', Frontier', Rest')
  BY DEF HeadersInv
<1>2. /\ Frontier' = Frontier /\ Rest' = Rest /\ Due' = Due /\ atl' = atl
  BY <1>1, PageDue DEF PageGoes
<1>3. HeadersOK(c, atl.twrites[c], Way, Due, Frontier, Rest)
  BY <1>1 DEF HeadersInv
<1>4. /\ Headers(c, Way') = Headers(c, Way)
      /\ \A j \in Headers(c, Way) : Way'[j] = Way[j]
  BY <1>1, PageWay
<1>5. HeadersOK(c, atl.twrites[c], Way', Due, Frontier, Rest)
  BY <1>3, <1>4, HeadersUnchanged
<1> QED
  BY <1>2, <1>5

\* The maps change at the page's own slot, or forget.
LEMMA PageRemaps ==
    ASSUME SysInv, PageGoes, SentData' = {1},
           \A t \in Slot : map_entries'[t] \in {map_entries[t], NoMap} \/ t = TwriteSlot,
           \A l \in LPN : redirection_map'[l] \in {redirection_map[l], NoSlot, TwriteSlot}
    PROVE  RemapsInv'
<1>1. HostInv /\ CallInv /\ TypeInv /\ QueueOK /\ RemapsInv
  BY DEF SysInv, HostInv, CallInv, CoreInv
<1>2. Due' = Due /\ atl' = atl /\ TwriteSlot \in Slots(Due) /\ DataCmd \in HostData
  <2>1. <<TwriteSlot, TwriteOAddr>> \in Due /\ Due' = Due /\ DataCmd \in HostData
    BY <1>1, PageDue
  <2>2. TwriteSlot \in Slots(Due)
    BY <2>1, InSlots
  <2> QED
    BY <2>1, <2>2 DEF PageGoes
<1>3. SameRemaps(Way', Way)
  BY <1>1, PageWay
<1> DEFINE map2 == map_entries'
           red2 == redirection_map'
           way2 == Way'
<1>4. \A j, i : Owns(Way, j, i) =>
          LET p == Way[j].pairs[i]
          IN  /\ map2[p.t_addr] \in {map_entries[p.t_addr], NoMap} \/ p.t_addr \in Slots(Due)
              /\ red2[p.o_addr] \in {redirection_map[p.o_addr], NoSlot}
                     \/ red2[p.o_addr] \in Slots(Due)
  <2> SUFFICES ASSUME NEW j, NEW i, Owns(Way, j, i)
               PROVE  LET p == Way[j].pairs[i]
                      IN  /\ map2[p.t_addr] \in {map_entries[p.t_addr], NoMap}
                                 \/ p.t_addr \in Slots(Due)
                          /\ red2[p.o_addr] \in {redirection_map[p.o_addr], NoSlot}
                                 \/ red2[p.o_addr] \in Slots(Due)
    OBVIOUS
  <2>1. Way[j].pairs[i].t_addr \in Slot /\ Way[j].pairs[i].o_addr \in LPN
    BY <1>1, OwnsShape
  <2> QED
    BY <1>2, <2>1
<1>5. SameRemaps(way2, Way)
  BY <1>3
<1>6. RemapsApart(Way) /\ RemapsHold(Way, atl.log)
      /\ RemapsPast(Way, Due, map_entries, redirection_map)
  BY <1>1 DEF RemapsInv
<1> HIDE DEF map2, red2, way2
<1>7. RemapsApart(way2) /\ RemapsHold(way2, atl.log) /\ RemapsPast(way2, Due, map2, red2)
  BY <1>4, <1>5, <1>6, RemapsUnchanged
<1>8. RemapsApart(Way') /\ RemapsHold(Way', atl'.log)
      /\ RemapsPast(Way', Due', map_entries', redirection_map')
  BY <1>2, <1>7, Zenon DEF map2, red2, way2
<1>9. RemapsSent'
  <2> DEFINE a == DataCmd
  <2>1. sent' = <<a>> /\ a.cmd = "data"
    BY <1>2, CallKinds DEF PageGoes
  <2> HIDE DEF a
  <2>2. \A j \in DOMAIN sent' : sent'[j].cmd = "data"
    BY <2>1
  <2> QED
    BY <2>2 DEF RemapsSent
<1> QED
  BY <1>8, <1>9 DEF RemapsInv

\* What both page steps leave to show.
LEMMA PageStep ==
    ASSUME SysInv, HostInv', PageGoes, SentData' = {1},
           \A t \in Slot : map_entries'[t] \in {map_entries[t], NoMap}
                               \/ (t = TwriteSlot /\ map_entries'[t].o_addr = TwriteOAddr),
           \A l \in LPN : redirection_map'[l] \in {redirection_map[l], NoSlot, TwriteSlot}
    PROVE  SysInv'
<1>1. HostInv /\ CallInv /\ TypeInv /\ QueueOK /\ LogInv /\ ATLOK /\ HomeHoldsOwnPage /\ LogHolds
  BY DEF SysInv, HostInv, CallInv, CoreInv
<1>2. CallInv'
  BY <1>1, PageCallInv
<1>3. HeadersInv'
  BY PageHeaders
<1>4. RemapsInv'
  BY PageRemaps
<1>5. CommandHolds'
  <2>1. remap_entry' = <<>>
    BY <1>1 DEF LogInv, PendingInRemap, PageGoes
  <2> QED
    BY <2>1 DEF CommandHolds
<1>6. Due' = Due /\ atl' = atl /\ <<TwriteSlot, TwriteOAddr>> \in Due
  BY <1>1, PageDue DEF PageGoes
<1>7. LogHolds'
  <2> SUFFICES ASSUME NEW s \in Slot, map_entries'[s].flags = "VALID"
               PROVE  \/ <<s, map_entries'[s].o_addr>> \in Due
                      \/ s \notin Slots(Due) /\ atl.log[s] \in Content(map_entries'[s].o_addr)
    BY <1>6 DEF LogHolds, IsValid
  <2>1. CASE s = TwriteSlot /\ map_entries'[s].o_addr = TwriteOAddr
    BY <1>6, <2>1
  <2>2. CASE map_entries'[s] = map_entries[s]
    BY <1>1, <2>2 DEF LogHolds, IsValid
  <2>3. map_entries'[s] # NoMap
    BY DEF NoMap
  <2> QED
    BY <2>1, <2>2, <2>3
<1>8. ATLOK' /\ HomeHoldsOwnPage'
  BY <1>1, <1>6 DEF ATLOK, HomeHoldsOwnPage
<1> QED
  BY <1>2, <1>3, <1>4, <1>5, <1>7, <1>8 DEF SysInv, CoreInv

LEMMA RedirectIs ==
    ASSUME TypeOK, NEW s \in Slot, NEW l \in LPN, Redirect(s, l)
    PROVE  /\ \A t \in Slot : map_entries'[t] \in {map_entries[t], NoMap}
                                  \/ (t = s /\ map_entries'[t].o_addr = l)
           /\ \A k \in LPN : redirection_map'[k] = IF k = l THEN s ELSE redirection_map[k]
<1>1. /\ map_entries \in [Slot -> MapEntry] /\ redirection_map \in [LPN -> Slot \cup {NoSlot}]
  BY DEF TypeOK
<1> DEFINE set == [map_entries EXCEPT ![s] = ValidMap(l)]
<1>2. /\ map_entries' = IF redirection_map[l] = NoSlot THEN set
                        ELSE [set EXCEPT ![redirection_map[l]] = NoMap]
      /\ redirection_map' = [redirection_map EXCEPT ![l] = s]
  BY DEF Redirect
<1>3. DOMAIN set = Slot /\ \A t \in Slot : set[t] = IF t = s THEN ValidMap(l) ELSE map_entries[t]
  BY <1>1
<1>4. \A t \in Slot : map_entries'[t] \in {set[t], NoMap}
  <2> HIDE DEF set
  <2> QED
    BY <1>1, <1>2, <1>3
<1> HIDE DEF set
<1>5. ValidMap(l).o_addr = l
  BY DEF ValidMap
<1> QED
  BY <1>1, <1>2, <1>3, <1>4, <1>5

LEMMA WritePageStep ==
    ASSUME SysInv, HostInv', Host, WritePadding \/ WritePage
    PROVE  SysInv'
<1>1. PageGoes /\ SentData' = {1}
  BY PageGoesIs
<1>2. TypeInv /\ QueueOK /\ TypeOK
  BY DEF SysInv, HostInv, CallInv, TypeInv
<1>3. TwriteSlot \in Slot
  BY <1>1, <1>2, PageDue
<1>4. CASE WritePadding
  BY <1>1, <1>4, PageStep DEF WritePadding
<1>5. CASE WritePage
  <2>1. TwriteOAddr \in Pages /\ TwriteOAddr # RSP_INVALID_LPN
    <3>1. DataCmd \in HostData
      BY <1>1, <1>2, PageDue
    <3>2. DataCmd.o_addr = TwriteOAddr
      BY DEF DataCmd
    <3> QED
      BY <1>5, <3>1, <3>2, CallKinds DEF WritePage
  <2>2. TwriteOAddr \in LPN
    BY <2>1 DEF Pages
  <2>3. Redirect(TwriteSlot, TwriteOAddr)
    BY <1>5 DEF WritePage
  <2>4. /\ \A t \in Slot : map_entries'[t] \in {map_entries[t], NoMap}
                               \/ (t = TwriteSlot /\ map_entries'[t].o_addr = TwriteOAddr)
        /\ \A l \in LPN : redirection_map'[l] \in {redirection_map[l], NoSlot, TwriteSlot}
    BY <1>2, <1>3, <2>2, <2>3, RedirectIs
  <2> QED
    BY <1>1, <2>4, PageStep
<1> QED
  BY <1>4, <1>5
-----------------------------------------------------------------------------
(***************************************************************************)
(* The steps that send nothing.                                            *)
(***************************************************************************)
LEMMA QuietDueStays ==
    ASSUME TypeInv, Frontier' = Frontier, Rest = 0, Rest' = 0, pending' = pending
    PROVE  Unsent = {} /\ Unsent' = {} /\ Data' = Data /\ Due' = Due
<1>1. Frontier \in Int
  <2>1. CASE pc = "twrite"
    <3>1. twrite_header.t_addr_start \in 0 .. LogSize /\ Len(twrite_header.o_addr) \in Nat
      BY LenProperties DEF TypeInv, TypeOK
    <3> QED
      BY <2>1, <3>1, Constants DEF Frontier
  <2>2. CASE pc # "twrite"
    BY <2>2, Constants DEF Frontier, TypeInv, TypeOK
  <2> QED
    BY <2>1, <2>2
<1>2. Unsent = Frontier .. Frontier - 1 /\ Unsent' = Frontier .. Frontier - 1
  BY <1>1 DEF Unsent
<1>3. Unsent = {} /\ Unsent' = {}
  BY <1>1, <1>2
<1>4. Data' = Data
  BY DEF Data
<1>5. Due' = Due
  BY <1>3, <1>4 DEF Due
<1> QED
  BY <1>3, <1>4, <1>5

LEMMA QuietStep ==
    ASSUME SysInv, HostInv', Host, sent' = <<>>,
           Frontier' = Frontier, Rest = 0, Rest' = 0, FarWindow', CommandHolds',
           \A t \in Slot : /\ map_entries'[t] # NoMap => map_entries[t] # NoMap
                           /\ map_entries'[t].flags = "VALID" =>
                                  map_entries'[t] = map_entries[t],
           redirection_map' = redirection_map
    PROVE  SysInv'
<1>1. /\ TypeInv /\ QueueOK /\ DataOnce /\ DataNear /\ ATLOK /\ HeadersInv /\ RemapsInv
      /\ LogHolds /\ HomeHoldsOwnPage
  BY DEF SysInv, HostInv, CallInv, CoreInv
<1>2. sent = <<>> /\ ~draining /\ UNCHANGED <<atl, pending, draining>>
  BY DEF Host
<1>3. Unsent = {} /\ Unsent' = {} /\ Data' = Data /\ Due' = Due
  BY <1>1, <1>2, QuietDueStays
<1>4. Data' = Data /\ Due' = Due
  BY <1>3
<1>5. Due' = Due
  BY <1>3
<1>6. Way' = Way
  BY <1>2 DEF Way
<1>7. SentData' = {}
  BY DEF SentData
<1>8. buff' = VC_MAX
  BY <1>7 DEF Host
<1>9. QueueOK'
  <2>1. sent' \in Seq(HeaderCalls \cup RemapCalls \cup HostData) /\ DOMAIN sent' = {}
    OBVIOUS
  <2>2. \A i \in DOMAIN sent' : IsSent(sent[i])'
    BY <2>1
  <2> QED
    BY <1>1, <1>2, <1>8, <2>1, <2>2 DEF QueueOK
<1>10. DataOnce'
  BY <1>1, <1>2, <1>3, <1>4 DEF DataOnce
<1>11. DataNear'
  BY <1>1, <1>2, <1>4 DEF DataNear
<1>12. HeadersInv'
  BY <1>1, <1>2, <1>5, <1>6 DEF HeadersInv
<1>13. RemapsInv'
  <2> DEFINE map2 == map_entries'
  <2>1. RemapsApart(Way) /\ RemapsHold(Way, atl.log)
        /\ RemapsPast(Way, Due, map_entries, redirection_map)
    BY <1>1 DEF RemapsInv
  <2>2. RemapsPast(Way, Due, map2, redirection_map)
    <3> SUFFICES ASSUME NEW j, NEW i, Owns(Way, j, i)
                 PROVE  /\ map2[Way[j].pairs[i].t_addr] # NoMap =>
                               Way[j].pairs[i].t_addr \in Slots(Due)
                        /\ redirection_map[Way[j].pairs[i].o_addr] # NoSlot =>
                               redirection_map[Way[j].pairs[i].o_addr] \in Slots(Due)
      BY DEF RemapsPast
    <3>1. Way[j].pairs[i].t_addr \in Slot
      BY <1>1, OwnsShape
    <3>2. map2[Way[j].pairs[i].t_addr] # NoMap => map_entries[Way[j].pairs[i].t_addr] # NoMap
      BY <3>1
    <3> HIDE DEF map2
    <3> QED
      BY <2>1, <3>2 DEF RemapsPast
  <2>3. RemapsSent'
    <3>1. DOMAIN sent' = {}
      OBVIOUS
    <3> QED
      BY <3>1 DEF RemapsSent
  <2> HIDE DEF map2
  <2>4. RemapsPast(Way', Due', map_entries', redirection_map')
    BY <1>5, <1>6, <2>2 DEF map2
  <2> QED
    BY <1>2, <1>6, <2>1, <2>3, <2>4 DEF RemapsInv
<1>14. LogHolds'
  <2> SUFFICES ASSUME NEW s \in Slot, map_entries'[s].flags = "VALID"
               PROVE  \/ <<s, map_entries'[s].o_addr>> \in Due
                      \/ s \notin Slots(Due) /\ atl.log[s] \in Content(map_entries'[s].o_addr)
    BY <1>2, <1>5 DEF LogHolds, IsValid
  <2>1. map_entries'[s] = map_entries[s]
    OBVIOUS
  <2> QED
    BY <1>1, <2>1 DEF LogHolds, IsValid
<1>15. ATLOK' /\ HomeHoldsOwnPage'
  BY <1>1, <1>2 DEF ATLOK, HomeHoldsOwnPage
<1> QED
  BY <1>9, <1>10, <1>11, <1>12, <1>13, <1>14, <1>15 DEF SysInv, CallInv, CoreInv

\* No command is under construction after the step.
LEMMA NothingToHold ==
    ASSUME HostInv', pc' # "remap"
    PROVE  FarWindow' /\ CommandHolds'
<1>1. remap_entry' = <<>>
  BY DEF HostInv, LogInv, PendingInRemap
<1> QED
  BY <1>1 DEF FarWindow, CommandHolds

LEMMA EndTwriteStep ==
    ASSUME SysInv, HostInv', Host, EndTwrite
    PROVE  SysInv'
<1>1. TypeInv
  BY DEF SysInv, HostInv
<1>2. /\ pc = "twrite" /\ page > Len(twrite_header.o_addr) /\ pc' = "ready" /\ sent' = <<>>
      /\ rw_log_new_idx' = twrite_header.t_addr_start + Len(twrite_header.o_addr)
      /\ map_entries' = map_entries /\ redirection_map' = redirection_map
  BY DEF EndTwrite
<1>3. Len(twrite_header.o_addr) \in Nat /\ page = Len(twrite_header.o_addr) + 1
  <2>1. /\ twrite_header.o_addr \in Seq(LPN \cup {RSP_INVALID_LPN})
        /\ page \in 1 .. Len(twrite_header.o_addr) + 1
    BY <1>1 DEF TypeInv, TypeOK
  <2>2. Len(twrite_header.o_addr) \in Nat
    BY <2>1, LenProperties
  <2> QED
    BY <1>2, <2>1, <2>2
<1>4. SentData = {}
  BY DEF SentData, Host
<1>5. Rest = 0
  BY <1>2, <1>3, <1>4 DEF Rest
<1>6. Rest' = 0 /\ Frontier' = Frontier
  BY <1>2 DEF Rest, Frontier
<1>7. FarWindow' /\ CommandHolds'
  BY <1>2, NothingToHold
<1> QED
  BY <1>2, <1>5, <1>6, <1>7, QuietStep

LEMMA RefusedStep ==
    ASSUME SysInv, HostInv', Host, Refused \/ RemapNothing
    PROVE  SysInv'
<1>1. /\ pc # "twrite" /\ pc' # "twrite" /\ pc' # "remap" /\ sent' = <<>>
      /\ rw_log_new_idx' = rw_log_new_idx
      /\ map_entries' = map_entries /\ redirection_map' = redirection_map
  BY DEF Refused, RemapRefused, ResumeRefused, RemapNothing
<1>2. Rest = 0 /\ Rest' = 0 /\ Frontier' = Frontier
  BY <1>1 DEF Rest, Frontier
<1>3. FarWindow' /\ CommandHolds'
  BY <1>1, NothingToHold
<1> QED
  BY <1>1, <1>2, <1>3, QuietStep

LEMMA BeginRemapStep ==
    ASSUME SysInv, HostInv', Host, BeginRemap
    PROVE  SysInv'
<1>1. /\ pc = "ready" /\ pc' = "remap" /\ sent' = <<>> /\ remap_entry' = <<>>
      /\ UsedSize > RemapThreshold
      /\ rw_log_new_idx' = rw_log_new_idx /\ rw_log_start_idx' = rw_log_start_idx
      /\ remap_end' = rw_log_start_idx + RemapWindowSize - 1
      /\ map_entries' = map_entries /\ redirection_map' = redirection_map
  BY DEF BeginRemap
<1>2. Rest = 0 /\ Rest' = 0 /\ Frontier' = Frontier
  BY <1>1 DEF Rest, Frontier
<1>3. CommandHolds'
  BY <1>1 DEF CommandHolds
<1>4. FarWindow'
  <2>1. TypeOK
    BY DEF SysInv, HostInv, TypeInv
  <2>2. rw_log_start_idx \in Nat /\ rw_log_new_idx \in Nat
    BY <2>1, Constants DEF TypeOK, Slot
  <2>3. RemapWindowSize \in Nat
    BY <1>1, <2>1, WindowInLog
  <2>4. RemapWindowSize <= RemapSize
    BY <2>2, Constants DEF RemapWindowSize, MinOf, UsedSize, Linear
  <2>5. Linear' <=> Linear
    BY <1>1 DEF Linear
  <2>6. CASE Linear
    <3>1. rw_log_new_idx - rw_log_start_idx > RemapThreshold
      BY <1>1, <2>6 DEF UsedSize
    <3>2. 0 + rw_log_new_idx - (rw_log_start_idx + RemapWindowSize - 1) >= RemapThreshold - RemapSize + 2
      BY <2>2, <2>3, <2>4, <3>1, Constants
    <3> QED
      BY <1>1, <2>5, <2>6, <3>2 DEF FarWindow
  <2>7. CASE ~Linear
    <3>1. LogSize - rw_log_start_idx + rw_log_new_idx > RemapThreshold
      BY <1>1, <2>7 DEF UsedSize
    <3>2. LogSize + rw_log_new_idx - (rw_log_start_idx + RemapWindowSize - 1) >= RemapThreshold - RemapSize + 2
      BY <2>2, <2>3, <2>4, <3>1, Constants
    <3> QED
      BY <1>1, <2>5, <2>7, <3>2 DEF FarWindow
  <2> QED
    BY <2>6, <2>7
<1> QED
  BY <1>1, <1>2, <1>3, <1>4, QuietStep

\* What is being remapped is not under way: it is too far behind the end of the log.
LEMMA RemappedIsFar ==
    ASSUME SysInv, QueueFits, ~draining, pc = "remap", NEW s \in Slot,
           s \in rw_log_start_idx .. remap_end
    PROVE  s \notin Slots(Due)
<1> SUFFICES ASSUME s \in Slots(Due)
             PROVE  FALSE
  OBVIOUS
<1>1. /\ rw_log_new_idx \in 0 .. LogSize
      /\ s < rw_log_new_idx => rw_log_new_idx - s <= BUFF_THRESHOLD - 1
      /\ s >= rw_log_new_idx =>
             rw_log_new_idx + LogSize - s <= BUFF_THRESHOLD + MinLogging - 2
  BY QuietDue
<1>2. rw_log_start_idx \in Nat /\ remap_end \in Nat /\ s \in Nat /\ rw_log_new_idx \in Nat
      /\ s <= remap_end /\ s >= rw_log_start_idx
  BY <1>1, Constants DEF SysInv, HostInv, TypeInv, TypeOK, Slot
<1>3. WindowBeforeEnd /\ FarWindow
  BY DEF SysInv, HostInv, WindowInv, CallInv
<1>4. BUFF_THRESHOLD + MinLogging <= RemapThreshold - RemapSize + 3 /\ BUFF_THRESHOLD \in Nat
  BY DEF QueueFits
<1>5. CASE Linear
  <2>1. /\ remap_end < rw_log_new_idx
        /\ 0 + rw_log_new_idx - remap_end >= RemapThreshold - RemapSize + 2
    BY <1>3, <1>5 DEF WindowBeforeEnd, FarWindow
  <2> QED
    BY <1>1, <1>2, <1>4, <2>1, Constants
<1>6. CASE ~Linear
  <2>1. /\ rw_log_new_idx < rw_log_start_idx
        /\ LogSize + rw_log_new_idx - remap_end >= RemapThreshold - RemapSize + 2
    BY <1>2, <1>3, <1>6 DEF FarWindow, Linear
  <2> QED
    BY <1>1, <1>2, <1>4, <2>1, Constants
<1> QED
  BY <1>5, <1>6

LEMMA RemapCollectStep ==
    ASSUME SysInv, QueueFits, HostInv', Host, RemapCollect
    PROVE  SysInv'
<1>1. /\ TypeInv /\ TypeOK /\ LogInv /\ CommandHolds /\ LogHolds /\ LeadsToPage /\ FarWindow
  BY DEF SysInv, HostInv, CoreInv, CallInv, TypeInv
<1>2. /\ pc = "remap" /\ pc' = "remap" /\ sent' = <<>> /\ redirection_map' = redirection_map
      /\ rw_log_new_idx' = rw_log_new_idx /\ rw_log_start_idx' = rw_log_start_idx
      /\ remap_end' = remap_end
  BY DEF RemapCollect
<1>3. PICK l \in LPN :
          /\ NextRemappable(l)
          /\ remap_entry' = Append(remap_entry, [t_addr |-> redirection_map[l],
                                 o_addr |-> map_entries[redirection_map[l]].o_addr])
          /\ map_entries' = [map_entries EXCEPT ![redirection_map[l]] =
                                 RemappingMap(map_entries[redirection_map[l]].o_addr)]
  BY DEF RemapCollect
<1> DEFINE s == redirection_map[l]
           p == [t_addr |-> s, o_addr |-> l]
<1>4. s # NoSlot /\ IsValid(s) /\ s \in rw_log_start_idx .. remap_end
  BY <1>3 DEF NextRemappable, Remappable
<1>5. s \in Slot /\ map_entries[s].o_addr = l
  <2>1. s \in Slot \cup {NoSlot}
    BY <1>1 DEF TypeOK
  <2>2. s \in Slot
    BY <1>4, <2>1
  <2>3. map_entries[s].o_addr = l
    BY <1>1, <1>4, LeadsToOwnEntry
  <2> QED
    BY <2>2, <2>3
<1>6. ~draining /\ sent = <<>> /\ UNCHANGED <<atl, pending, draining>>
  BY DEF Host
<1>7. s \notin Slots(Due)
  BY <1>2, <1>4, <1>5, <1>6, RemappedIsFar
<1>8. atl.log[s] \in Content(l)
  <2>1. <<s, l>> \notin Due
    BY <1>7, InSlots
  <2> QED
    BY <1>1, <1>4, <1>5, <2>1 DEF LogHolds
<1>9. /\ map_entries' = [map_entries EXCEPT ![s] = RemappingMap(l)]
      /\ remap_entry' = Append(remap_entry, p)
  BY <1>3, <1>5
<1> HIDE DEF s
<1>10. Rest = 0 /\ Rest' = 0 /\ Frontier' = Frontier
  BY <1>2 DEF Rest, Frontier
<1>11. Due' = Due
  BY <1>1, <1>6, <1>10, QuietDueStays
<1>12. p.t_addr = s /\ p.o_addr = l /\ p \in Pair
  BY <1>5 DEF Pair
<1> HIDE DEF p
<1>13. /\ remap_entry \in Seq(Pair) /\ remap_entry' \in Seq(Pair)
       /\ DOMAIN remap_entry = 1 .. Len(remap_entry) /\ Len(remap_entry) \in Nat
       /\ DOMAIN remap_entry' = 1 .. Len(remap_entry) + 1
       /\ \A i \in 1 .. Len(remap_entry) : remap_entry'[i] = remap_entry[i]
       /\ remap_entry'[Len(remap_entry) + 1] = p
  <2>1. remap_entry \in Seq(Pair)
    BY <1>1 DEF TypeOK, Pair
  <2> QED
    BY <1>9, <1>12, <2>1, AppendProperties, LenProperties
<1>14. \A i \in DOMAIN remap_entry : remap_entry[i].t_addr # s
  <2> SUFFICES ASSUME NEW i \in DOMAIN remap_entry, remap_entry[i].t_addr = s
               PROVE  FALSE
    OBVIOUS
  <2>1. map_entries[s] = RemappingMap(remap_entry[i].o_addr)
    BY <1>1 DEF LogInv, PendingEntries
  <2> QED
    BY <1>4, <2>1 DEF IsValid, RemappingMap
<1>15. CommandHolds'
  <2> SUFFICES ASSUME NEW i \in DOMAIN remap_entry'
               PROVE  /\ remap_entry'[i].t_addr \notin Slots(Due)
                      /\ atl.log[remap_entry'[i].t_addr] \in Content(remap_entry'[i].o_addr)
                      /\ \A j \in DOMAIN remap_entry' : i # j =>
                             remap_entry'[j].t_addr # remap_entry'[i].t_addr
    BY <1>6, <1>11 DEF CommandHolds
  <2>1. CASE i \in DOMAIN remap_entry
    <3>1. /\ remap_entry'[i] = remap_entry[i]
          /\ remap_entry[i].t_addr \notin Slots(Due)
          /\ atl.log[remap_entry[i].t_addr] \in Content(remap_entry[i].o_addr)
          /\ \A j \in DOMAIN remap_entry : i # j => remap_entry[j].t_addr # remap_entry[i].t_addr
      BY <1>1, <1>13, <2>1 DEF CommandHolds
    <3>2. ASSUME NEW j \in DOMAIN remap_entry', i # j
          PROVE  remap_entry'[j].t_addr # remap_entry'[i].t_addr
      <4>1. CASE j \in DOMAIN remap_entry
        BY <1>13, <3>1, <3>2, <4>1
      <4>2. CASE j = Len(remap_entry) + 1
        BY <1>12, <1>13, <1>14, <2>1, <3>1, <4>2
      <4> QED
        BY <1>13, <4>1, <4>2
    <3> QED
      BY <3>1, <3>2
  <2>2. CASE i = Len(remap_entry) + 1
    <3>1. remap_entry'[i] = p
      BY <1>13, <2>2
    <3>2. ASSUME NEW j \in DOMAIN remap_entry', i # j
          PROVE  remap_entry'[j].t_addr # s
      <4>1. j \in DOMAIN remap_entry
        BY <1>13, <2>2, <3>2
      <4> QED
        BY <1>13, <1>14, <4>1
    <3> QED
      BY <1>7, <1>8, <1>12, <3>1, <3>2
  <2> QED
    BY <1>13, <2>1, <2>2
<1>16. FarWindow'
  BY <1>1, <1>2 DEF FarWindow, Linear
<1>17. ASSUME NEW t \in Slot
       PROVE  /\ map_entries'[t] # NoMap => map_entries[t] # NoMap
              /\ map_entries'[t].flags = "VALID" => map_entries'[t] = map_entries[t]
  <2>1. map_entries \in [Slot -> MapEntry]
    BY <1>1 DEF TypeOK
  <2>2. CASE t = s
    <3>1. map_entries'[t] = RemappingMap(l) /\ map_entries[t].flags = "VALID"
      BY <1>4, <1>5, <1>9, <2>1, <2>2 DEF IsValid
    <3> QED
      BY <3>1 DEF RemappingMap, NoMap
  <2>3. CASE t # s
    BY <1>9, <2>1, <2>3
  <2> QED
    BY <2>2, <2>3
<1> QED
  BY <1>2, <1>10, <1>15, <1>16, <1>17, QuietStep
-----------------------------------------------------------------------------
(***************************************************************************)
(* A remap command is sent: __do_remap.                                    *)
(***************************************************************************)
LEMMA RemapStart ==
    ASSUME SysInv, Host, RemapSendFull \/ RemapSendLast
    PROVE  /\ SendRemap /\ pc = "remap" /\ pc' \in {"remap", "ready"}
           /\ sent = <<>> /\ ~draining /\ UNCHANGED <<atl, pending, draining>>
           /\ remap_entry \in Seq(Pair) /\ remap_entry' = <<>>
           /\ \A c \in Core : /\ RemapCmd(c) \in RemapCalls /\ RemapCmd(c).cmd = "remap"
                              /\ RemapCmd(c).core = c /\ RemapCmd(c).pairs = remap_entry
           /\ sent' \in Seq(RemapCalls) /\ Len(sent') = 2 /\ DOMAIN sent' = 1 .. 2
           /\ sent'[1] = RemapCmd(0) /\ sent'[2] = RemapCmd(1)
           /\ SentData' = {} /\ buff' = VC_MAX
           /\ rw_log_new_idx' = rw_log_new_idx
           /\ Rest = 0 /\ Rest' = 0 /\ Frontier' = Frontier
           /\ Unsent = {} /\ Unsent' = {} /\ Data' = Data /\ Due' = Due
<1>1. TypeInv /\ TypeOK
  BY DEF SysInv, HostInv, TypeInv
<1>2. /\ SendRemap /\ pc = "remap" /\ pc' \in {"remap", "ready"}
      /\ rw_log_new_idx' = rw_log_new_idx
  BY DEF RemapSendFull, RemapSendLast, FreeWindow
<1>3. sent = <<>> /\ ~draining /\ UNCHANGED <<atl, pending, draining>>
  BY DEF Host
<1>4. remap_entry \in Seq(Pair) /\ remap_entry_num \in 0 .. TwriteEntries - 1
  BY <1>1 DEF TypeOK, Pair
<1>5. \A c \in Core : /\ RemapCmd(c) \in RemapCalls /\ RemapCmd(c).cmd = "remap"
                      /\ RemapCmd(c).core = c /\ RemapCmd(c).pairs = remap_entry
  BY <1>4 DEF RemapCmd, RemapCalls
<1> DEFINE a == RemapCmd(0)
           b == RemapCmd(1)
<1>6. sent' = <<a, b>> /\ remap_entry' = <<>>
  BY <1>2 DEF SendRemap
<1>7. a \in RemapCalls /\ b \in RemapCalls
  BY <1>5 DEF Core
<1> HIDE DEF a, b
<1>8. sent' \in Seq(RemapCalls) /\ Len(sent') = 2 /\ DOMAIN sent' = 1 .. 2
      /\ sent'[1] = a /\ sent'[2] = b
  BY <1>6, <1>7
<1>9. SentData' = {}
  <2>1. \A i \in DOMAIN sent' : sent'[i].cmd # "data"
    BY <1>7, <1>8, CallKinds
  <2> QED
    BY <2>1 DEF SentData
<1>10. buff' = VC_MAX
  BY <1>9 DEF Host
<1>11. Rest = 0 /\ Rest' = 0 /\ Frontier' = Frontier
  BY <1>2 DEF Rest, Frontier
<1>12. Unsent = {} /\ Unsent' = {} /\ Data' = Data /\ Due' = Due
  BY <1>1, <1>3, <1>11, QuietDueStays
<1>13. sent'[1] = RemapCmd(0) /\ sent'[2] = RemapCmd(1)
  BY <1>8 DEF a, b
<1> QED
  BY <1>2, <1>3, <1>4, <1>5, <1>6, <1>8, <1>9, <1>10, <1>11, <1>12, <1>13

\* The command is under way to both cores.
LEMMA RemapWay ==
    ASSUME SysInv, Host, RemapSendFull \/ RemapSendLast
    PROVE  /\ Sends(Way', Way, [c \in Core |-> Len(pending) + 1 + c], remap_entry)
           /\ \A c : /\ Headers(c, Way') = Headers(c, Way)
                     /\ \A j \in Headers(c, Way) : Way'[j] = Way[j]
<1>1. QueueOK
  BY DEF SysInv, CallInv
<1> DEFINE a == RemapCmd(0)
           b == RemapCmd(1)
           n == Len(pending)
           m == [c \in Core |-> n + 1 + c]
<1>2. /\ sent = <<>> /\ pending' = pending /\ sent' \in Seq(RemapCalls) /\ Len(sent') = 2
      /\ DOMAIN sent' = 1 .. 2 /\ sent'[1] = a /\ sent'[2] = b
      /\ a.cmd = "remap" /\ a.core = 0 /\ a.pairs = remap_entry
      /\ b.cmd = "remap" /\ b.core = 1 /\ b.pairs = remap_entry
  <2>1. \A c \in Core : RemapCmd(c).cmd = "remap" /\ RemapCmd(c).core = c /\ RemapCmd(c).pairs = remap_entry
    BY RemapStart
  <2>2. 0 \in Core /\ 1 \in Core
    BY DEF Core
  <2> QED
    BY <2>1, <2>2, RemapStart
<1>3. /\ n \in Nat /\ DOMAIN Way = 1 .. n /\ DOMAIN Way' = 1 .. n + 2
      /\ \A j \in DOMAIN Way : Way'[j] = Way[j]
      /\ Way'[n + 1] = a /\ Way'[n + 2] = b
  BY <1>1, <1>2, SentWay
<1> HIDE DEF a, b, n
<1>4. m[0] = n + 1 /\ m[1] = n + 2
  BY <1>3 DEF Core
<1>5. DOMAIN Way' = DOMAIN Way \cup {m[0], m[1]} /\ m[0] # m[1]
      /\ m[0] \notin DOMAIN Way /\ m[1] \notin DOMAIN Way
  BY <1>3, <1>4
<1>6. Way'[m[0]] = a /\ Way'[m[1]] = b
  BY <1>3, <1>4
<1> HIDE DEF m
<1>7. Sends(Way', Way, m, remap_entry)
  <2>1. \A c \in Core : /\ Way'[m[c]].cmd = "remap" /\ Way'[m[c]].core = c
                        /\ Way'[m[c]].pairs = remap_entry
    <3>1. \A c \in Core : c = 0 \/ c = 1
      BY DEF Core
    <3> QED
      BY <1>2, <1>6, <3>1
  <2> QED
    BY <1>3, <1>5, <2>1 DEF Sends
<1>8. ASSUME NEW c
      PROVE  /\ Headers(c, Way') = Headers(c, Way)
             /\ \A j \in Headers(c, Way) : Way'[j] = Way[j]
  <2>1. \A j \in DOMAIN Way' : (j \in DOMAIN Way /\ Way'[j] = Way[j]) \/ Way'[j].cmd = "remap"
    BY <1>2, <1>3, <1>5, <1>6
  <2>2. DOMAIN Way \subseteq DOMAIN Way'
    BY <1>5
  <2> QED
    BY <1>3, <2>1, <2>2 DEF Headers
<1> QED
  BY <1>7, <1>8 DEF m, n

LEMMA RemapRemaps ==
    ASSUME SysInv, Host, RemapSendFull \/ RemapSendLast
    PROVE  RemapsInv'
<1>1. TypeOK /\ LogInv /\ CommandHolds /\ QueueOK /\ RemapsInv
  BY DEF SysInv, HostInv, CallInv, CoreInv, TypeInv
<1> DEFINE pairs == remap_entry
           way2 == Way'
           map2 == map_entries'
           red2 == redirection_map'
<1>2. PICK m : Sends(way2, Way, m, pairs)
  BY RemapWay
<1>3. Due' = Due /\ atl' = atl
  BY RemapStart
<1>4. \A n \in DOMAIN pairs :
          /\ pairs[n] \in Pair /\ pairs[n].t_addr \in Slot /\ pairs[n].o_addr \in LPN
          /\ pairs[n].t_addr \notin Slots(Due)
          /\ atl.log[pairs[n].t_addr] \in Content(pairs[n].o_addr)
          /\ redirection_map[pairs[n].o_addr] = pairs[n].t_addr
          /\ map_entries[pairs[n].t_addr] = RemappingMap(pairs[n].o_addr)
  <2> SUFFICES ASSUME NEW n \in DOMAIN pairs
               PROVE  /\ pairs[n] \in Pair /\ pairs[n].t_addr \in Slot /\ pairs[n].o_addr \in LPN
                      /\ pairs[n].t_addr \notin Slots(Due)
                      /\ atl.log[pairs[n].t_addr] \in Content(pairs[n].o_addr)
                      /\ redirection_map[pairs[n].o_addr] = pairs[n].t_addr
                      /\ map_entries[pairs[n].t_addr] = RemappingMap(pairs[n].o_addr)
    OBVIOUS
  <2>1. pairs[n] \in Pair
    BY RemapStart, LenProperties
  <2> QED
    BY <1>1, <2>1 DEF CommandHolds, LogInv, PendingEntries, Pair
<1>5. \A i, n \in DOMAIN pairs : i # n =>
          pairs[i].t_addr # pairs[n].t_addr /\ pairs[i].o_addr # pairs[n].o_addr
  <2> SUFFICES ASSUME NEW i \in DOMAIN pairs, NEW n \in DOMAIN pairs, i # n
               PROVE  pairs[i].t_addr # pairs[n].t_addr /\ pairs[i].o_addr # pairs[n].o_addr
    OBVIOUS
  <2>1. pairs[i].t_addr # pairs[n].t_addr
    BY <1>1 DEF CommandHolds
  <2> HIDE DEF pairs
  <2>2. redirection_map[pairs[i].o_addr] = pairs[i].t_addr
        /\ redirection_map[pairs[n].o_addr] = pairs[n].t_addr
    BY <1>4
  <2> QED
    BY <2>1, <2>2
<1>6. \A s \in Slot : map2[s] = IF \E i \in DOMAIN pairs : pairs[i].t_addr = s
                                THEN NoMap ELSE map_entries[s]
  BY RemapStart DEF SendRemap
<1>7. \A l \in LPN : red2[l] = IF \E i \in DOMAIN pairs : pairs[i].o_addr = l
                               THEN NoSlot ELSE redirection_map[l]
  BY RemapStart DEF SendRemap
<1>8. RemapsApart(Way) /\ RemapsHold(Way, atl.log)
      /\ RemapsPast(Way, Due, map_entries, redirection_map)
  BY <1>1 DEF RemapsInv
<1>9. \A j, i : Owns(Way, j, i) => Way[j].pairs[i].t_addr \in Slot /\ Way[j].pairs[i].o_addr \in LPN
  BY <1>1, OwnsShape
<1> HIDE DEF pairs, way2, map2, red2
<1>10. RemapsApart(way2)
  <2>1. ASSUME NEW j, NEW i, NEW n \in DOMAIN pairs, Owns(Way, j, i)
        PROVE  /\ Way[j].pairs[i].t_addr # pairs[n].t_addr
               /\ Way[j].pairs[i].o_addr # pairs[n].o_addr
    <3>1. /\ map_entries[Way[j].pairs[i].t_addr] # NoMap => Way[j].pairs[i].t_addr \in Slots(Due)
          /\ redirection_map[Way[j].pairs[i].o_addr] # NoSlot =>
                 redirection_map[Way[j].pairs[i].o_addr] \in Slots(Due)
      BY <1>8, <2>1 DEF RemapsPast
    <3>2. map_entries[pairs[n].t_addr] # NoMap
      <4>1. map_entries[pairs[n].t_addr] = RemappingMap(pairs[n].o_addr)
        BY <1>4
      <4>2. RemappingMap(pairs[n].o_addr) # NoMap
        BY DEF RemappingMap, NoMap
      <4> QED
        BY <4>1, <4>2
    <3>3. redirection_map[pairs[n].o_addr] # NoSlot
      BY <1>4, Constants DEF Slot, NoSlot
    <3> QED
      BY <1>4, <3>1, <3>2, <3>3
  <2> QED
    BY <1>2, <1>5, <1>8, <2>1, RemapsSentApart
<1>11. RemapsHold(way2, atl.log)
  BY <1>2, <1>4, <1>8, RemapsSentHeld
<1>12. \A n \in DOMAIN pairs : map2[pairs[n].t_addr] = NoMap /\ red2[pairs[n].o_addr] = NoSlot
  BY <1>4, <1>6, <1>7
<1>13. RemapsPast(way2, Due, map2, red2)
  <2>1. \A j, i : Owns(Way, j, i) =>
            LET p == Way[j].pairs[i]
            IN  /\ map2[p.t_addr] \in {map_entries[p.t_addr], NoMap}
                /\ red2[p.o_addr] \in {redirection_map[p.o_addr], NoSlot}
    BY <1>6, <1>7, <1>9
  <2> QED
    BY <1>2, <1>8, <1>12, <2>1, RemapsSentPast
<1>14. RemapsSent'
  <2>1. \A j \in DOMAIN sent' : sent'[j].pairs = pairs
    <3>1. /\ DOMAIN sent' = 1 .. 2 /\ sent'[1] = RemapCmd(0) /\ sent'[2] = RemapCmd(1)
          /\ RemapCmd(0).pairs = pairs /\ RemapCmd(1).pairs = pairs
      <4>1. 0 \in Core /\ 1 \in Core
        BY DEF Core
      <4> QED
        BY <4>1, RemapStart DEF pairs
    <3> QED
      BY <3>1
  <2> SUFFICES ASSUME NEW i \in DOMAIN pairs
               PROVE  /\ map_entries'[pairs[i].t_addr] = NoMap
                      /\ redirection_map'[pairs[i].o_addr] = NoSlot
                      /\ pairs[i].t_addr \notin Slots(Due)
    BY <1>3, <2>1 DEF RemapsSent
  <2> QED
    BY <1>4, <1>12 DEF map2, red2
<1> QED
  BY <1>3, <1>10, <1>11, <1>13, <1>14 DEF RemapsInv, way2, map2, red2

LEMMA SendRemapStep ==
    ASSUME SysInv, HostInv', Host, RemapSendFull \/ RemapSendLast
    PROVE  SysInv'
<1>1. /\ TypeInv /\ TypeOK /\ LogInv /\ QueueOK /\ DataOnce /\ DataNear /\ FarWindow
      /\ ATLOK /\ HeadersInv /\ LogHolds /\ HomeHoldsOwnPage
  BY DEF SysInv, HostInv, CallInv, CoreInv, TypeInv
<1>2. /\ atl' = atl /\ pending' = pending /\ draining' = draining
      /\ Rest' = Rest /\ Frontier' = Frontier /\ Unsent' = Unsent /\ Data' = Data /\ Due' = Due
      /\ buff' = VC_MAX /\ SendRemap /\ pc = "remap" /\ pc' \in {"remap", "ready"}
  BY RemapStart
<1>3. QueueOK'
  <2>1. sent' \in Seq(HeaderCalls \cup RemapCalls \cup HostData)
    BY RemapStart
  <2>2. \A i \in DOMAIN sent' : sent'[i] \in RemapCalls
    BY RemapStart DEF Core
  <2>3. \A i \in DOMAIN sent' : IsSent(sent[i])'
    BY <1>2, <2>2 DEF IsSent
  <2> QED
    BY <1>1, <1>2, <2>1, <2>3 DEF QueueOK
<1>4. DataOnce'
  BY <1>1, <1>2 DEF DataOnce
<1>5. DataNear'
  BY <1>1, <1>2 DEF DataNear
<1>6. FarWindow'
  <2>1. CASE RemapSendFull
    BY <1>1, <1>2, <2>1 DEF RemapSendFull, FarWindow, Linear
  <2>2. CASE RemapSendLast
    BY <2>2 DEF RemapSendLast, FreeWindow, FarWindow
  <2> QED
    BY <2>1, <2>2
<1>7. HeadersInv'
  <2> SUFFICES ASSUME NEW c \in Core
               PROVE  HeadersOK(c, atl.twrites[c], Way', Due, Frontier, Rest)
    BY <1>2 DEF HeadersInv
  <2>1. HeadersOK(c, atl.twrites[c], Way, Due, Frontier, Rest)
    BY <1>1 DEF HeadersInv
  <2>2. /\ Headers(c, Way') = Headers(c, Way)
        /\ \A j \in Headers(c, Way) : Way'[j] = Way[j]
    BY RemapWay
  <2> QED
    BY <2>1, <2>2, HeadersUnchanged
<1>8. RemapsInv'
  BY RemapRemaps
<1>9. CommandHolds'
  BY RemapStart DEF CommandHolds
<1>10. LogHolds'
  <2>1. \A s \in Slot : map_entries'[s].flags = "VALID" => map_entries'[s] = map_entries[s]
    BY <1>1, <1>2, SendKeepsAgreement
  <2> SUFFICES ASSUME NEW s \in Slot, map_entries'[s].flags = "VALID"
               PROVE  \/ <<s, map_entries'[s].o_addr>> \in Due
                      \/ s \notin Slots(Due) /\ atl.log[s] \in Content(map_entries'[s].o_addr)
    BY <1>2 DEF LogHolds, IsValid
  <2>2. map_entries'[s] = map_entries[s]
    BY <2>1
  <2> QED
    BY <1>1, <2>2 DEF LogHolds, IsValid
<1>11. ATLOK' /\ HomeHoldsOwnPage'
  BY <1>1, <1>2 DEF ATLOK, HomeHoldsOwnPage
<1> QED
  BY <1>3, <1>4, <1>5, <1>6, <1>7, <1>8, <1>9, <1>10, <1>11 DEF SysInv, CallInv, CoreInv
-----------------------------------------------------------------------------
(***************************************************************************)
(* The HIL takes a call: HILWrapper.cpp, HIL_WriteLPN.                     *)
(***************************************************************************)
Queued == IF SentData = {} THEN Head(sent)
          ELSE [cmd |-> "data", t_addr |-> sent[1].t_addr, content |-> buff]

LEMMA HostKeeps ==
    ASSUME HIL_WriteLPN
    PROVE  /\ sent # <<>> /\ ~draining /\ pending' = Append(pending, Queued)
           /\ sent' = Tail(sent) /\ buff' = VC_MAX /\ atl' = atl
           /\ draining' = (Len(pending) + 1 >= BUFF_THRESHOLD)
           /\ pc' = pc /\ twrite_header' = twrite_header /\ page' = page
           /\ rw_log_new_idx' = rw_log_new_idx /\ rw_log_start_idx' = rw_log_start_idx
           /\ map_entries' = map_entries /\ redirection_map' = redirection_map
           /\ remap_entry' = remap_entry /\ remap_end' = remap_end
           /\ UNCHANGED <<pc, map_entries, redirection_map, rw_log_start_idx, rw_log_new_idx,
                          header_entry_num, remap_entry_num, twrite_header, page,
                          remap_entry, remap_cnt, remap_end>>
  BY DEF HIL_WriteLPN, Queued

\* Either only commands are sent, or one page.
LEMMA SentCommands ==
    ASSUME QueueOK, SentData = {}
    PROVE  \A i \in DOMAIN sent : /\ sent[i].cmd # "data"
                                  /\ sent[i] \in HeaderCalls \cup RemapCalls
<1>1. \A i \in DOMAIN sent : sent[i].cmd # "data"
  BY DEF SentData
<1>2. \A i \in DOMAIN sent : sent[i] \in HeaderCalls \cup RemapCalls \cup HostData
  BY QueueShape
<1> QED
  BY <1>1, <1>2, CallKinds

LEMMA SentPage ==
    ASSUME QueueOK, SentData # {}
    PROVE  /\ pc = "twrite" /\ page > 1 /\ Len(sent) = 1 /\ SentData = {1} /\ DOMAIN sent = {1}
           /\ sent[1] \in HostData /\ sent[1].cmd = "data" /\ sent[1].t_addr = TwriteSlot - 1
           /\ sent[1].o_addr = twrite_header.o_addr[page - 1]
           /\ buff \in Contents \ {VC_MAX} /\ buff.o_addr = sent[1].o_addr
           /\ buff.o_addr # RSP_INVALID_LPN => buff \in Content(buff.o_addr)
<1>1. PICK i \in DOMAIN sent : sent[i].cmd = "data"
  BY DEF SentData
<1>2. sent[i] \in HostData /\ DOMAIN sent = 1 .. Len(sent)
  BY <1>1, QueueShape
<1>3. sent[i] \notin HeaderCalls /\ sent[i] \notin RemapCalls
  BY <1>1, CallKinds
<1>4. IsSent(sent[i])
  BY DEF QueueOK
<1>5. /\ pc = "twrite" /\ page > 1 /\ Len(sent) = 1
      /\ sent[i].t_addr = TwriteSlot - 1
      /\ sent[i].o_addr = twrite_header.o_addr[page - 1]
      /\ buff \in IF sent[i].o_addr = RSP_INVALID_LPN THEN {Padding} ELSE Content(sent[i].o_addr)
  BY <1>3, <1>4 DEF IsSent
<1>6. i = 1 /\ DOMAIN sent = {1}
  BY <1>2, <1>5
<1>7. SentData = {1}
  BY <1>1, <1>6 DEF SentData
<1>8. sent[1].o_addr \in Pages
  BY <1>2, <1>6, CallKinds
<1>9. CASE sent[1].o_addr = RSP_INVALID_LPN
  <2>1. buff = Padding
    BY <1>5, <1>6, <1>9
  <2>2. Padding \in Contents /\ Padding # VC_MAX /\ Padding.o_addr = RSP_INVALID_LPN
    BY BlankIsNoContent DEF Contents, Padding
  <2> QED
    BY <1>1, <1>2, <1>5, <1>6, <1>7, <1>9, <2>1, <2>2
<1>10. CASE sent[1].o_addr # RSP_INVALID_LPN
  <2>1. sent[1].o_addr \in LPN
    BY <1>8, <1>10 DEF Pages
  <2>2. buff \in Content(sent[1].o_addr)
    BY <1>5, <1>6, <1>10
  <2>3. buff \in Contents \ {VC_MAX} /\ buff.o_addr = sent[1].o_addr
    BY <2>1, <2>2, PagesAreContents
  <2> QED
    BY <1>1, <1>2, <1>5, <1>6, <1>7, <2>2, <2>3
<1> QED
  BY <1>9, <1>10

LEMMA QueuedIs ==
    ASSUME QueueOK, sent # <<>>
    PROVE  /\ Queued \in HeaderCalls \cup RemapCalls \cup FTLData
           /\ SentData = {} => Queued = sent[1] /\ Queued.cmd # "data"
           /\ SentData # {} => /\ Queued.cmd = "data" /\ Queued.t_addr = sent[1].t_addr
                               /\ Queued.content = buff
<1>1. DOMAIN sent = 1 .. Len(sent) /\ Len(sent) \in Nat
  BY QueueShape
<1>2. Len(sent) # 0
  <2>1. sent \in Seq(HeaderCalls \cup RemapCalls \cup HostData)
    BY DEF QueueOK
  <2> QED
    BY <2>1, EmptySeq
<1>3. 1 \in DOMAIN sent /\ Head(sent) = sent[1]
  BY <1>1, <1>2
<1>4. CASE SentData = {}
  BY <1>3, <1>4, SentCommands DEF Queued
<1>5. CASE SentData # {}
  <2>1. sent[1].t_addr \in Slot /\ buff \in Contents \ {VC_MAX}
    BY <1>5, SentPage, CallKinds
  <2> QED
    BY <1>5, <2>1 DEF Queued, FTLData
<1> QED
  BY <1>4, <1>5

LEMMA QueuedShape ==
    ASSUME QueueOK, HIL_WriteLPN
    PROVE  /\ Len(pending) \in Nat /\ Len(pending') = Len(pending) + 1
           /\ pending' \in Seq(HeaderCalls \cup RemapCalls \cup FTLData)
           /\ DOMAIN pending = 1 .. Len(pending) /\ DOMAIN pending' = 1 .. Len(pending) + 1
           /\ \A i \in DOMAIN pending : pending'[i] = pending[i]
           /\ pending'[Len(pending) + 1] = Queued
           /\ Len(sent) \in Nat \ {0} /\ Len(sent') = Len(sent) - 1
           /\ sent' \in Seq(HeaderCalls \cup RemapCalls \cup HostData)
           /\ DOMAIN sent' = 1 .. Len(sent) - 1 /\ DOMAIN sent = 1 .. Len(sent)
           /\ \A i \in DOMAIN sent' : sent'[i] = sent[i + 1]
<1>1. /\ pending \in Seq(HeaderCalls \cup RemapCalls \cup FTLData)
      /\ sent \in Seq(HeaderCalls \cup RemapCalls \cup HostData)
      /\ sent # <<>> /\ pending' = Append(pending, Queued) /\ sent' = Tail(sent)
  BY HostKeeps DEF QueueOK
<1>2. Queued \in HeaderCalls \cup RemapCalls \cup FTLData
  BY <1>1, QueuedIs
<1> DEFINE x == Queued
           A == HeaderCalls \cup RemapCalls \cup FTLData
           B == HeaderCalls \cup RemapCalls \cup HostData
<1>3. pending \in Seq(A) /\ sent \in Seq(B) /\ sent # <<>> /\ x \in A
      /\ pending' = Append(pending, x) /\ sent' = Tail(sent)
  BY <1>1, <1>2
<1> HIDE DEF A, B, x
<1>4. /\ Len(pending) \in Nat /\ Len(pending') = Len(pending) + 1 /\ pending' \in Seq(A)
      /\ DOMAIN pending = 1 .. Len(pending) /\ DOMAIN pending' = 1 .. Len(pending) + 1
      /\ \A i \in DOMAIN pending : pending'[i] = pending[i]
      /\ pending'[Len(pending) + 1] = x
  BY <1>3
<1>5. /\ Len(sent) \in Nat \ {0} /\ Len(sent') = Len(sent) - 1 /\ sent' \in Seq(B)
      /\ DOMAIN sent' = 1 .. Len(sent) - 1 /\ DOMAIN sent = 1 .. Len(sent)
      /\ \A i \in DOMAIN sent' : sent'[i] = sent[i + 1]
  BY <1>3
<1> QED
  BY <1>4, <1>5 DEF A, B, x

LEMMA QueuedWay ==
    ASSUME QueueOK, HIL_WriteLPN
    PROVE  /\ DOMAIN Way' = DOMAIN Way
           /\ \A j \in DOMAIN Way : \/ Way'[j] = Way[j]
                                    \/ Way'[j].cmd = "data" /\ Way[j].cmd = "data"
<1> DEFINE n == Len(pending)
           m == Len(sent)
<1>1. /\ n \in Nat /\ Len(pending') = n + 1 /\ m \in Nat \ {0} /\ Len(sent') = m - 1
      /\ DOMAIN pending = 1 .. n /\ DOMAIN sent' = 1 .. m - 1
      /\ \A i \in 1 .. n : pending'[i] = pending[i]
      /\ pending'[n + 1] = Queued
      /\ \A i \in 1 .. m - 1 : sent'[i] = sent[i + 1]
  BY QueuedShape
<1>2. DOMAIN Way = 1 .. n + m /\ DOMAIN Way' = 1 .. n + 1 + (m - 1)
  BY <1>1 DEF Way
<1>3. DOMAIN Way' = DOMAIN Way
  BY <1>1, <1>2
<1>4. ASSUME NEW j \in 1 .. n + m
      PROVE  /\ Way[j] = IF j <= n THEN pending[j] ELSE sent[j - n]
             /\ Way'[j] = IF j <= n + 1 THEN pending'[j] ELSE sent'[j - (n + 1)]
  BY <1>1, <1>2, <1>3, <1>4 DEF Way
<1>5. ASSUME NEW j \in 1 .. n + m
      PROVE  \/ Way'[j] = Way[j]
             \/ Way'[j].cmd = "data" /\ Way[j].cmd = "data"
  <2>1. CASE j <= n
    BY <1>1, <1>4, <2>1
  <2>2. CASE j = n + 1
    <3>1. Way[j] = sent[1] /\ Way'[j] = Queued
      BY <1>1, <1>4, <2>2
    <3>2. sent # <<>>
      BY HostKeeps
    <3> QED
      BY <3>1, <3>2, QueuedIs, SentPage
  <2>3. CASE j > n + 1
    <3>1. j - (n + 1) \in 1 .. m - 1 /\ j - (n + 1) + 1 = j - n /\ ~(j <= n) /\ ~(j <= n + 1)
      BY <1>1, <1>5, <2>3
    <3> QED
      BY <1>1, <1>4, <3>1
  <2> QED
    BY <1>1, <1>5, <2>1, <2>2, <2>3
<1> QED
  BY <1>2, <1>3, <1>5

\* A command is not among the data.
LEMMA QueuedCommand ==
    ASSUME TypeInv, QueueOK, HIL_WriteLPN, SentData = {}
    PROVE  /\ Frontier' = Frontier /\ Rest' = Rest /\ Unsent' = Unsent /\ Data' = Data
           /\ Due' = Due /\ SentData' = {} /\ \A i \in Data : pending'[i] = pending[i]
           /\ \A i \in DOMAIN sent' : IsSent(sent[i])'
<1>1. /\ pc' = pc /\ twrite_header' = twrite_header /\ page' = page
      /\ rw_log_new_idx' = rw_log_new_idx /\ sent # <<>>
  BY HostKeeps
<1>2. /\ DOMAIN pending = 1 .. Len(pending) /\ DOMAIN pending' = 1 .. Len(pending) + 1
      /\ Len(pending) \in Nat
      /\ \A i \in DOMAIN pending : pending'[i] = pending[i]
      /\ pending'[Len(pending) + 1] = Queued
  BY QueuedShape
<1>3. Queued.cmd # "data"
  BY <1>1, QueuedIs
<1>4. Data' = Data
  BY <1>2, <1>3 DEF Data
<1>5. /\ DOMAIN sent' = 1 .. Len(sent) - 1 /\ DOMAIN sent = 1 .. Len(sent)
      /\ Len(sent) \in Nat \ {0} /\ \A i \in DOMAIN sent' : sent'[i] = sent[i + 1]
  BY QueuedShape
<1>6. ASSUME NEW i \in DOMAIN sent'
      PROVE  sent'[i].cmd # "data" /\ IsSent(sent[i])'
  <2>1. i + 1 \in DOMAIN sent /\ sent'[i] = sent[i + 1]
    BY <1>5
  <2>2. sent[i + 1].cmd # "data" /\ IsSent(sent[i + 1])
    BY <2>1, SentCommands DEF QueueOK
  <2>3. sent[i + 1] \notin HostData
    BY <2>2, CallKinds
  <2> QED
    BY <1>1, <2>1, <2>2, <2>3 DEF IsSent
<1>7. SentData' = {}
  BY <1>6 DEF SentData
<1>8. Frontier' = Frontier
  BY <1>1 DEF Frontier
<1>9. Rest' = Rest
  BY <1>1, <1>7 DEF Rest
<1>10. Unsent' = Unsent
  BY <1>8, <1>9 DEF Unsent
<1>11. \A i \in Data : pending'[i] = pending[i]
  BY <1>2 DEF Data
<1>12. Due' = Due
  BY <1>1, <1>4, <1>10, <1>11 DEF Due, PageAt
<1> QED
  BY <1>4, <1>6, <1>7, <1>8, <1>9, <1>10, <1>11, <1>12

\* A page was due before, as one of those that are still to be queued.
LEMMA QueuedPage ==
    ASSUME TypeInv, QueueOK, HIL_WriteLPN, SentData # {}
    PROVE  /\ Frontier' = Frontier /\ Frontier \in Int /\ Rest \in Nat /\ Rest' = Rest - 1
           /\ Frontier - Rest = TwriteSlot - 1
           /\ TwriteSlot - 1 \in Unsent /\ Unsent' = Unsent \ {TwriteSlot - 1}
           /\ Data' = Data \cup {Len(pending) + 1} /\ Len(pending) + 1 \notin Data
           /\ \A i \in Data : pending'[i] = pending[i]
           /\ Due' = Due /\ sent' = <<>> /\ SentData' = {}
           /\ pending'[Len(pending) + 1].t_addr = TwriteSlot - 1
           /\ TwriteSlot - 1 \in Slot
<1> DEFINE L == Len(twrite_header.o_addr)
           start == twrite_header.t_addr_start
           n == Len(pending)
           s == TwriteSlot - 1
<1>1. /\ pc' = pc /\ twrite_header' = twrite_header /\ page' = page /\ sent # <<>>
  BY HostKeeps
<1>2. /\ DOMAIN pending = 1 .. n /\ DOMAIN pending' = 1 .. n + 1 /\ n \in Nat
      /\ \A i \in DOMAIN pending : pending'[i] = pending[i]
      /\ pending'[n + 1] = Queued
  BY QueuedShape
<1>3. /\ pc = "twrite" /\ page > 1 /\ Len(sent) = 1 /\ sent[1].t_addr = s
      /\ sent[1] \in HostData
      /\ buff.o_addr = twrite_header.o_addr[page - 1]
  BY SentPage
<1>4. Queued.cmd = "data" /\ Queued.t_addr = s /\ Queued.content = buff
  BY <1>1, <1>3, QueuedIs
<1>5. sent' = <<>>
  <2>1. Len(sent') = 0 /\ sent' \in Seq(HeaderCalls \cup RemapCalls \cup HostData)
    BY <1>3, QueuedShape
  <2> QED
    BY <2>1, EmptySeq
<1>6. SentData' = {}
  BY <1>5 DEF SentData
<1>7. L \in Nat /\ start \in Nat /\ start + L <= LogSize /\ page \in 1 .. L + 1
  <2>1. twrite_header.o_addr \in Seq(Pages) /\ start \in 0 .. LogSize /\ start + L <= LogSize
        /\ page \in 1 .. L + 1
    BY <1>3 DEF TypeInv, TypeOK, Pages
  <2>2. L \in Nat
    BY <2>1, LenProperties
  <2> QED
    BY <2>1, <2>2, Constants
<1>8. Frontier' = Frontier /\ Frontier = start + L
  BY <1>1, <1>3 DEF Frontier
<1>9. Rest = L - page + 1 + 1 /\ Rest' = L - page + 1 + 0
  BY <1>1, <1>3, <1>6 DEF Rest
<1>10. s = start + page - 1 - 1
  BY <1>7 DEF TwriteSlot
<1> HIDE DEF L, start, s, n
<1>11. /\ Frontier \in Int /\ Rest \in Nat /\ Rest' = Rest - 1 /\ Frontier - Rest = s
       /\ s \in Int /\ s <= Frontier - 1 /\ Frontier - Rest' = s + 1
  BY <1>3, <1>7, <1>8, <1>9, <1>10
<1>12. Unsent = s .. Frontier - 1
  BY <1>11 DEF Unsent
<1>13. Unsent' = s + 1 .. Frontier - 1
  BY <1>8, <1>11 DEF Unsent
<1>14. s \in Unsent /\ Unsent' = Unsent \ {s}
  BY <1>11, <1>12, <1>13
<1>15. Data' = Data \cup {n + 1} /\ n + 1 \notin Data
  BY <1>2, <1>4 DEF Data
<1>16. PageAt(s) = twrite_header.o_addr[page - 1]
  <2>1. s - start + 1 = page - 1
    BY <1>3, <1>7, <1>10
  <2> QED
    BY <2>1 DEF PageAt, start
<1>17. \A i \in Data : pending'[i] = pending[i]
  BY <1>2 DEF Data
<1>18. Due' = Due
  <2> DEFINE D == {<<pending[i].t_addr, pending[i].content.o_addr>> : i \in Data}
             U == {<<t, PageAt(t)>> : t \in Unsent}
             x == <<s, PageAt(s)>>
  <2>1. Due = D \cup U
    BY DEF Due
  <2>2. Due' = {<<pending'[i].t_addr, pending'[i].content.o_addr>> : i \in Data'}
                 \cup {<<t, PageAt(t)>> : t \in Unsent'}
    BY <1>1 DEF Due, PageAt
  <2>3. <<pending'[n + 1].t_addr, pending'[n + 1].content.o_addr>> = x
    BY <1>2, <1>3, <1>4, <1>16
  <2>4. {<<pending'[i].t_addr, pending'[i].content.o_addr>> : i \in Data'} = D \cup {x}
    <3>1. \A i \in Data : <<pending'[i].t_addr, pending'[i].content.o_addr>>
                              = <<pending[i].t_addr, pending[i].content.o_addr>>
      BY <1>17
    <3> HIDE DEF x
    <3> QED
      BY <1>15, <2>3, <3>1
  <2>5. {<<t, PageAt(t)>> : t \in Unsent'} \cup {x} = U
    BY <1>14
  <2> HIDE DEF D, U, x
  <2> QED
    BY <2>1, <2>2, <2>4, <2>5
<1>19. s \in Slot
  BY <1>3, CallKinds
<1> QED
  BY <1>2, <1>4, <1>5, <1>6, <1>8, <1>11, <1>14, <1>15, <1>17, <1>18, <1>19 DEF s, n

LEMMA RestFrontier ==
    ASSUME TypeInv
    PROVE  Rest \in Int /\ Frontier \in Int
<1>1. CASE pc = "twrite"
  <2>1. /\ twrite_header.t_addr_start \in 0 .. LogSize
        /\ twrite_header.o_addr \in Seq(LPN \cup {RSP_INVALID_LPN})
        /\ page \in 1 .. Len(twrite_header.o_addr) + 1
    BY <1>1 DEF TypeInv, TypeOK
  <2>2. Len(twrite_header.o_addr) \in Nat
    BY <2>1, LenProperties
  <2> QED
    BY <1>1, <2>1, <2>2, Constants DEF Rest, Frontier
<1>2. CASE pc # "twrite"
  BY <1>2, Constants DEF Rest, Frontier, TypeInv, TypeOK
<1> QED
  BY <1>1, <1>2

LEMMA WayHeaders ==
    ASSUME QueueOK, NEW c, NEW j \in Headers(c, Way)
    PROVE  Way[j] \in HeaderCalls
<1>1. j \in DOMAIN Way /\ Way[j].cmd = "header"
  BY DEF Headers
<1>2. CASE j \in DOMAIN pending
  BY <1>1, <1>2, WayShape, QueueShape
<1>3. CASE j - Len(pending) \in DOMAIN sent
  <2> DEFINE m == j - Len(pending)
  <2>1. Len(pending) \in Nat /\ DOMAIN Way = 1 .. Len(pending) + Len(sent) /\ Len(sent) \in Nat
    BY WayShape, QueueShape
  <2>2. Len(pending) + m = j
    BY <1>1, <2>1
  <2> HIDE DEF m
  <2>3. m \in DOMAIN sent
    BY <1>3 DEF m
  <2>4. Way[j] = sent[m]
    BY <2>2, <2>3, WayShape
  <2> QED
    BY <1>1, <2>3, <2>4, QueueShape
<1> QED
  BY <1>1, <1>2, <1>3, WayShape

LEMMA QueuedCallInv ==
    ASSUME QueueFits, HostInv, CallInv, HIL_WriteLPN
    PROVE  CallInv'
<1>1. TypeInv /\ QueueOK /\ DataOnce /\ DataNear /\ FarWindow
  BY DEF HostInv, CallInv
<1> DEFINE n == Len(pending)
<1>2. /\ n \in Nat /\ Len(pending') = n + 1 /\ DOMAIN pending = 1 .. n
      /\ pending' \in Seq(HeaderCalls \cup RemapCalls \cup FTLData)
      /\ sent' \in Seq(HeaderCalls \cup RemapCalls \cup HostData)
      /\ draining' = (n + 1 >= BUFF_THRESHOLD) /\ ~draining /\ buff' = VC_MAX
  BY <1>1, QueuedShape, HostKeeps
<1>3. n < BUFF_THRESHOLD /\ BUFF_THRESHOLD \in Nat
  BY <1>1, <1>2 DEF QueueOK, QueueFits
<1>4. QueueOK'
  <2>1. \A i \in DOMAIN sent' : IsSent(sent[i])'
    <3>1. CASE SentData = {}
      BY <1>1, <3>1, QueuedCommand
    <3>2. CASE SentData # {}
      <4>1. DOMAIN sent' = {}
        BY <1>1, <3>2, QueuedPage
      <4> QED
        BY <4>1
    <3> QED
      BY <3>1, <3>2
  <2>2. draining' \in BOOLEAN
    BY <1>2
  <2>3. IF draining' THEN Len(pending') \in 1 .. BUFF_THRESHOLD
                     ELSE Len(pending') < BUFF_THRESHOLD
    <3>1. Len(pending') \in Nat /\ Len(pending') >= 1 /\ Len(pending') <= BUFF_THRESHOLD
      BY <1>2, <1>3
    <3>2. draining' <=> Len(pending') >= BUFF_THRESHOLD
      BY <1>2
    <3> QED
      BY <1>3, <3>1, <3>2
  <2> QED
    BY <1>2, <2>1, <2>2, <2>3 DEF QueueOK
<1>5. DataOnce'
  <2>1. CASE SentData = {}
    BY <1>1, <2>1, QueuedCommand DEF DataOnce
  <2>2. CASE SentData # {}
    <3> DEFINE s == TwriteSlot - 1
    <3>1. /\ s \in Unsent /\ Unsent' = Unsent \ {s} /\ Data' = Data \cup {n + 1}
          /\ pending'[n + 1].t_addr = s
          /\ \A i \in Data : pending'[i] = pending[i]
      BY <1>1, <2>2, QueuedPage
    <3>2. /\ \A i, j \in Data : pending[i].t_addr = pending[j].t_addr => i = j
          /\ \A i \in Data : pending[i].t_addr \notin Unsent
      BY <1>1 DEF DataOnce
    <3> HIDE DEF s, n
    <3>3. \A i \in Data' : \/ i = n + 1 /\ pending'[i].t_addr = s
                           \/ i \in Data /\ pending'[i].t_addr = pending[i].t_addr
      BY <3>1
    <3>4. \A i \in Data' : pending'[i].t_addr \notin Unsent'
      BY <3>1, <3>2, <3>3
    <3>5. \A i, j \in Data' : pending'[i].t_addr = pending'[j].t_addr => i = j
      BY <3>1, <3>2, <3>3
    <3> QED
      BY <3>4, <3>5 DEF DataOnce
  <2> QED
    BY <2>1, <2>2
<1>6. DataNear'
  <2> SUFFICES ASSUME ~draining', NEW i \in Data'
               PROVE  LET s == pending'[i].t_addr
                          calls == Len(pending') - i + 1 + Rest'
                      IN  IF s < Frontier' THEN Frontier' - s <= calls
                          ELSE Frontier' + LogSize - s <= calls + MinLogging - 1
    BY DEF DataNear
  <2>1. ASSUME NEW k \in Data
        PROVE  LET s == pending[k].t_addr
                   calls == n - k + 1 + Rest
               IN  IF s < Frontier THEN Frontier - s <= calls
                   ELSE Frontier + LogSize - s <= calls + MinLogging - 1
    BY <1>1, <1>2 DEF DataNear
  <2>2. \A k \in Data : pending[k].t_addr \in Int /\ k \in Int
    <3>1. \A k \in Data : pending[k].t_addr \in Slot /\ k \in 1 .. n
      BY <1>1, <1>2, DueShape DEF Data
    <3> QED
      BY <1>2, <3>1, Constants DEF Slot
  <2>3. CASE SentData = {}
    <3>1. /\ i \in Data /\ pending'[i].t_addr = pending[i].t_addr /\ Frontier' = Frontier
          /\ Rest' = Rest
      BY <1>1, <2>3, QueuedCommand
    <3>2. Rest \in Int /\ Frontier \in Int
      BY <1>1, RestFrontier
    <3> DEFINE t == pending[i].t_addr
    <3>3. t \in Int /\ i \in Int
      BY <2>2, <3>1
    <3>4. IF t < Frontier THEN Frontier - t <= n - i + 1 + Rest
          ELSE Frontier + LogSize - t <= n - i + 1 + Rest + MinLogging - 1
      BY <2>1, <3>1
    <3> HIDE DEF t, n
    <3>5. IF t < Frontier THEN Frontier - t <= (n + 1) - i + 1 + Rest
          ELSE Frontier + LogSize - t <= (n + 1) - i + 1 + Rest + MinLogging - 1
      BY <1>2, <3>2, <3>3, <3>4, Constants
    <3>6. pending'[i].t_addr = t /\ Len(pending') = n + 1
      BY <1>2, <3>1 DEF t
    <3> QED
      BY <3>1, <3>5, <3>6
  <2>4. CASE SentData # {}
    <3> DEFINE s == TwriteSlot - 1
    <3>1. /\ Frontier' = Frontier /\ Frontier \in Int /\ Rest \in Nat /\ Rest' = Rest - 1
          /\ Frontier - Rest = s /\ Data' = Data \cup {n + 1} /\ s \in Slot /\ s \in Unsent
          /\ pending'[n + 1].t_addr = s /\ \A k \in Data : pending'[k] = pending[k]
      BY <1>1, <2>4, QueuedPage
    <3>2. s \in Int
      BY <3>1, Constants DEF Slot
    <3> HIDE DEF s, n
    <3>3. s <= Frontier - 1
      BY <3>1, <3>2 DEF Unsent
    <3>4. CASE i \in Data
      <4> DEFINE t == pending[i].t_addr
      <4>1. t \in Int /\ i \in Int /\ pending'[i].t_addr = t
        BY <2>2, <3>1, <3>4
      <4>2. IF t < Frontier THEN Frontier - t <= n - i + 1 + Rest
            ELSE Frontier + LogSize - t <= n - i + 1 + Rest + MinLogging - 1
        BY <2>1, <3>4
      <4> HIDE DEF t
      <4>3. n + 1 - i + 1 + (Rest - 1) = n - i + 1 + Rest
        BY <1>2, <3>1, <4>1
      <4> QED
        BY <1>2, <3>1, <4>1, <4>2, <4>3
    <3>5. CASE i = n + 1
      <4>1. n + 1 - i + 1 + (Rest - 1) = Rest /\ Frontier - s = Rest
        BY <1>2, <3>1, <3>2, <3>5
      <4>2. s < Frontier /\ Frontier - s <= n + 1 - i + 1 + (Rest - 1)
        BY <3>1, <3>2, <3>3, <4>1
      <4> QED
        BY <1>2, <3>1, <3>5, <4>2
    <3> QED
      BY <3>1, <3>4, <3>5
  <2> QED
    BY <2>3, <2>4
<1>7. FarWindow'
  BY <1>1, HostKeeps DEF FarWindow, Linear
<1> QED
  BY <1>4, <1>5, <1>6, <1>7 DEF CallInv

LEMMA QueuedHeaders ==
    ASSUME SysInv, HIL_WriteLPN
    PROVE  HeadersInv'
<1>1. TypeInv /\ QueueOK /\ HeadersInv /\ ATLOK
  BY DEF SysInv, HostInv, CallInv, CoreInv
<1> SUFFICES ASSUME NEW c \in Core
             PROVE  HeadersOK(c, atl'.twrites[c], Way', Due', Frontier', Rest')
  BY DEF HeadersInv
<1>2. /\ Frontier' = Frontier /\ Due' = Due /\ atl' = atl
      /\ Frontier \in Int /\ Rest \in Int /\ Rest' \in Int /\ Rest' <= Rest
  <2>1. CASE SentData = {}
    <3>1. Rest \in Int /\ Frontier \in Int
      BY <1>1, RestFrontier
    <3> QED
      BY <1>1, <2>1, <3>1, QueuedCommand, HostKeeps
  <2>2. CASE SentData # {}
    <3>1. /\ Frontier' = Frontier /\ Due' = Due
          /\ Frontier \in Int /\ Rest \in Nat /\ Rest' = Rest - 1
      BY <1>1, <2>2, QueuedPage
    <3> QED
      BY <3>1, HostKeeps
  <2> QED
    BY <2>1, <2>2
<1>3. HeadersOK(c, atl.twrites[c], Way, Due, Frontier, Rest)
  BY <1>1 DEF HeadersInv
<1>4. /\ Headers(c, Way') = Headers(c, Way)
      /\ \A j \in Headers(c, Way) : Way'[j] = Way[j]
  <2>1. /\ DOMAIN Way' = DOMAIN Way
        /\ \A j \in DOMAIN Way : \/ Way'[j] = Way[j]
                                 \/ Way'[j].cmd = "data" /\ Way[j].cmd = "data"
    BY <1>1, QueuedWay
  <2> QED
    BY <2>1 DEF Headers
<1>5. HeadersOK(c, atl.twrites[c], Way', Due, Frontier, Rest)
  BY <1>3, <1>4, HeadersUnchanged
<1>6. atl.twrites[c] \in Seq(Entries)
  BY <1>1 DEF ATLOK, Maps
<1>7. \A j \in Headers(c, Way') : Way'[j] \in HeaderCalls
  BY <1>1, <1>4, WayHeaders
<1>8. HeadersOK(c, atl.twrites[c], Way', Due, Frontier, Rest')
  <2> DEFINE way2 == Way'
             rest2 == Rest'
  <2> HIDE DEF way2, rest2
  <2>1. /\ HeadersOK(c, atl.twrites[c], way2, Due, Frontier, Rest)
        /\ \A j \in Headers(c, way2) : way2[j] \in HeaderCalls
        /\ rest2 \in Int /\ rest2 <= Rest
    BY <1>2, <1>5, <1>7 DEF way2, rest2
  <2>2. HeadersOK(c, atl.twrites[c], way2, Due, Frontier, rest2)
    BY <1>2, <1>6, <2>1, FrontierStays
  <2> QED
    BY <2>2 DEF way2, rest2
<1> QED
  BY <1>2, <1>8

LEMMA QueuedRemaps ==
    ASSUME SysInv, HIL_WriteLPN
    PROVE  RemapsInv'
<1>1. TypeInv /\ QueueOK /\ RemapsInv
  BY DEF SysInv, HostInv, CallInv, CoreInv
<1>2. /\ Due' = Due /\ atl' = atl /\ map_entries' = map_entries
      /\ redirection_map' = redirection_map
  BY <1>1, QueuedCommand, QueuedPage, HostKeeps
<1> DEFINE way2 == Way'
<1>3. SameRemaps(way2, Way)
  <2>1. /\ DOMAIN Way' = DOMAIN Way
        /\ \A j \in DOMAIN Way : \/ Way'[j] = Way[j]
                                 \/ Way'[j].cmd = "data" /\ Way[j].cmd = "data"
    BY <1>1, QueuedWay
  <2> QED
    BY <2>1 DEF SameRemaps, Owns
<1>4. RemapsApart(Way) /\ RemapsHold(Way, atl.log)
      /\ RemapsPast(Way, Due, map_entries, redirection_map)
  BY <1>1 DEF RemapsInv
<1> HIDE DEF way2
<1>5. RemapsApart(way2) /\ RemapsHold(way2, atl.log)
      /\ RemapsPast(way2, Due, map_entries, redirection_map)
  BY <1>3, <1>4, RemapsUnchanged
<1>6. RemapsSent'
  <2>1. \A j \in DOMAIN sent' : j + 1 \in DOMAIN sent /\ sent'[j] = sent[j + 1]
    BY <1>1, QueuedShape
  <2> QED
    BY <1>1, <1>2, <2>1 DEF RemapsInv, RemapsSent
<1> QED
  BY <1>2, <1>5, <1>6 DEF RemapsInv, way2

LEMMA QueueStep ==
    ASSUME SysInv, QueueFits, HIL_WriteLPN
    PROVE  SysInv'
<1>1. /\ HostInv /\ TypeInv /\ CallInv /\ QueueOK /\ ATLOK /\ CommandHolds /\ LogHolds
      /\ HomeHoldsOwnPage
  BY DEF SysInv, HostInv, CallInv, CoreInv
<1>2. HostInv'
  BY <1>1, HostKeeps, HostInvSent
<1>3. CallInv'
  BY <1>1, QueuedCallInv
<1>4. HeadersInv' /\ RemapsInv'
  BY QueuedHeaders, QueuedRemaps
<1>5. /\ Due' = Due /\ atl' = atl /\ map_entries' = map_entries
      /\ remap_entry' = remap_entry
  BY <1>1, QueuedCommand, QueuedPage, HostKeeps
<1>6. CommandHolds'
  BY <1>1, <1>5 DEF CommandHolds
<1>7. LogHolds'
  BY <1>1, <1>5 DEF LogHolds, IsValid
<1>8. ATLOK' /\ HomeHoldsOwnPage'
  BY <1>1, <1>5 DEF ATLOK, HomeHoldsOwnPage
<1> QED
  BY <1>2, <1>3, <1>4, <1>6, <1>7, <1>8 DEF SysInv, CoreInv
-----------------------------------------------------------------------------
(***************************************************************************)
(* RSP_WritePage serves a call: commands first, then the data.             *)
(***************************************************************************)
\* Where a call of the queue was before the k-th was taken out.
Before(k, i) == IF i < k THEN i ELSE i + 1

Serves(k) ==
    /\ k \in 1 .. Len(pending) /\ Len(pending) \in Nat
    /\ draining /\ draining' = (Len(pending) > 1)
    /\ atl' = Handle(atl, pending[k])
    /\ pending[k].cmd = "data" => \A i \in DOMAIN pending : pending[i].cmd = "data"
    /\ pending' \in Seq(HeaderCalls \cup RemapCalls \cup FTLData)
    /\ DOMAIN pending = 1 .. Len(pending) /\ DOMAIN pending' = 1 .. Len(pending) - 1
    /\ Len(pending') = Len(pending) - 1
    /\ \A i \in 1 .. Len(pending) - 1 : pending'[i] = pending[Before(k, i)]
    /\ UNCHANGED <<hostvars, buff>>

LEMMA ServesCall ==
    ASSUME QueueOK, RSP_WritePage
    PROVE  \E k : Serves(k)
<1> DEFINE n == Len(pending)
           k == NextCall
           A == HeaderCalls \cup RemapCalls \cup FTLData
<1>1. /\ draining /\ draining' = (n > 1) /\ atl' = Handle(atl, pending[k])
      /\ pending' = Without(pending, k) /\ UNCHANGED <<hostvars, buff>>
  BY DEF RSP_WritePage, Without
<1>2. n \in Nat /\ n >= 1 /\ DOMAIN pending = 1 .. n /\ pending \in Seq(A)
  <2>1. n \in Nat /\ DOMAIN pending = 1 .. n
    BY QueueShape
  <2>2. n \in 1 .. BUFF_THRESHOLD
    BY <1>1 DEF QueueOK
  <2> QED
    BY <2>1, <2>2 DEF QueueOK
<1>3. /\ k \in 1 .. n
      /\ pending[k].cmd = "data" => \A i \in DOMAIN pending : pending[i].cmd = "data"
  <2>1. CASE Urgent = {}
    BY <1>2, <2>1 DEF NextCall, Urgent
  <2>2. CASE Urgent # {}
    <3>1. Urgent \subseteq Nat
      BY <1>2 DEF Urgent
    <3>2. \E i \in Urgent : \A j \in Urgent : i <= j
      BY <2>2, <3>1, LeastNatural
    <3>3. NextCall \in Urgent
      BY <2>2, <3>2 DEF NextCall
    <3> QED
      BY <1>2, <3>3 DEF Urgent
  <2> QED
    BY <2>1, <2>2
<1> HIDE DEF A, n, k
<1>4. /\ pending' \in Seq(A) /\ Len(pending') = n - 1
      /\ \A i \in 1 .. n - 1 : pending'[i] = pending[Before(k, i)]
  <2>1. k \in 1 .. Len(pending)
    BY <1>3 DEF n
  <2>2. /\ Without(pending, k) \in Seq(A) /\ Len(Without(pending, k)) = Len(pending) - 1
        /\ \A i \in 1 .. Len(pending) - 1 :
               Without(pending, k)[i] = pending[IF i < k THEN i ELSE i + 1]
    BY <1>2, <2>1, WithoutIs
  <2> QED
    BY <1>1, <2>2 DEF n, Before
<1>5. DOMAIN pending' = 1 .. n - 1
  BY <1>4, LenProperties
<1> QED
  BY <1>1, <1>2, <1>3, <1>4, <1>5 DEF Serves, A, n, k

LEMMA BeforeIs ==
    ASSUME NEW k, Serves(k)
    PROVE  /\ \A i \in DOMAIN pending' :
                  /\ Before(k, i) \in DOMAIN pending /\ Before(k, i) # k
                  /\ pending'[i] = pending[Before(k, i)]
           /\ \A i, j \in DOMAIN pending' : Before(k, i) = Before(k, j) => i = j
           /\ \A i \in DOMAIN pending \ {k} : \E j \in DOMAIN pending' : Before(k, j) = i
<1> DEFINE n == Len(pending)
<1>1. /\ n \in Nat /\ k \in 1 .. n /\ DOMAIN pending = 1 .. n /\ DOMAIN pending' = 1 .. n - 1
      /\ \A i \in 1 .. n - 1 : pending'[i] = pending[Before(k, i)]
  BY DEF Serves
<1> HIDE DEF n
<1>2. \A i \in 1 .. n - 1 : Before(k, i) \in 1 .. n /\ Before(k, i) # k
  BY <1>1 DEF Before
<1>3. \A i, j \in 1 .. n - 1 : Before(k, i) = Before(k, j) => i = j
  BY <1>1 DEF Before
<1>4. ASSUME NEW i \in 1 .. n, i # k
      PROVE  \E j \in 1 .. n - 1 : Before(k, j) = i
  <2>1. CASE i < k
    BY <1>1, <2>1 DEF Before
  <2>2. CASE i > k
    <3>1. i - 1 \in 1 .. n - 1 /\ ~(i - 1 < k) /\ i - 1 + 1 = i
      BY <1>1, <1>4, <2>2
    <3>2. Before(k, i - 1) = i
      BY <3>1 DEF Before
    <3> QED
      BY <3>1, <3>2
  <2> QED
    BY <1>1, <1>4, <2>1, <2>2
<1> QED
  BY <1>1, <1>2, <1>3, <1>4

\* The host does not notice; what is still to be queued stays.
LEMMA ServedHost ==
    ASSUME NEW k, Serves(k)
    PROVE  /\ UNCHANGED <<pc, map_entries, redirection_map, rw_log_start_idx, rw_log_new_idx,
                          header_entry_num, remap_entry_num, twrite_header, page,
                          remap_entry, remap_cnt, remap_end>>
           /\ sent' = sent /\ buff' = buff /\ SentData' = SentData
           /\ Frontier' = Frontier /\ Rest' = Rest /\ Unsent' = Unsent
           /\ \A s \in Unsent : PageAt(s)' = PageAt(s)
<1>1. /\ UNCHANGED <<pc, map_entries, redirection_map, rw_log_start_idx, rw_log_new_idx,
                     header_entry_num, remap_entry_num, twrite_header, page,
                     remap_entry, remap_cnt, remap_end>>
      /\ sent' = sent /\ buff' = buff
  BY DEF Serves, hostvars
<1>2. SentData' = SentData
  BY <1>1 DEF SentData
<1>3. Frontier' = Frontier /\ Rest' = Rest
  BY <1>1, <1>2 DEF Frontier, Rest
<1>4. Unsent' = Unsent
  BY <1>3 DEF Unsent
<1> QED
  BY <1>1, <1>2, <1>3, <1>4 DEF PageAt

LEMMA ServedCallInv ==
    ASSUME QueueFits, TypeInv, CallInv, NEW k, Serves(k)
    PROVE  CallInv'
<1>1. QueueOK /\ DataOnce /\ FarWindow
  BY DEF CallInv
<1>2. /\ pc' = pc /\ twrite_header' = twrite_header /\ page' = page /\ sent' = sent
      /\ buff' = buff /\ SentData' = SentData /\ Unsent' = Unsent
      /\ rw_log_new_idx' = rw_log_new_idx /\ remap_end' = remap_end
      /\ rw_log_start_idx' = rw_log_start_idx
  BY ServedHost
<1>3. QueueOK'
  <2>1. \A i \in DOMAIN sent' : IsSent(sent[i])'
    BY <1>1, <1>2 DEF QueueOK, IsSent, TwriteSlot
  <2>2. draining' \in BOOLEAN
    <3>1. draining' = (Len(pending) > 1)
      BY DEF Serves
    <3> QED
      BY <3>1
  <2>3. IF draining' THEN Len(pending') \in 1 .. BUFF_THRESHOLD
                     ELSE Len(pending') < BUFF_THRESHOLD
    <3>1. BUFF_THRESHOLD \in Nat \ {0} /\ Len(pending) \in 1 .. BUFF_THRESHOLD
      BY <1>1 DEF QueueFits, QueueOK, Serves
    <3>2. Len(pending') = Len(pending) - 1 /\ (draining' <=> Len(pending) > 1)
      BY DEF Serves
    <3> QED
      BY <3>1, <3>2
  <2>4. sent' \in Seq(HeaderCalls \cup RemapCalls \cup HostData) /\ (SentData' = {} => buff' = VC_MAX)
    BY <1>1, <1>2 DEF QueueOK
  <2>5. pending' \in Seq(HeaderCalls \cup RemapCalls \cup FTLData)
    BY DEF Serves
  <2> QED
    BY <2>1, <2>2, <2>3, <2>4, <2>5 DEF QueueOK
<1>4. \A i \in Data' : Before(k, i) \in Data /\ pending'[i] = pending[Before(k, i)]
  BY BeforeIs DEF Data
<1>5. DataOnce'
  <2>1. \A i, j \in Data' : pending'[i].t_addr = pending'[j].t_addr => i = j
    <3> SUFFICES ASSUME NEW i \in Data', NEW j \in Data', pending'[i].t_addr = pending'[j].t_addr
                 PROVE  i = j
      OBVIOUS
    <3>1. Before(k, i) = Before(k, j)
      BY <1>1, <1>4 DEF DataOnce
    <3>2. i \in DOMAIN pending' /\ j \in DOMAIN pending'
      BY DEF Data
    <3> QED
      BY <3>1, <3>2, BeforeIs
  <2>2. \A i \in Data' : pending'[i].t_addr \notin Unsent'
    BY <1>1, <1>2, <1>4 DEF DataOnce
  <2> QED
    BY <2>1, <2>2 DEF DataOnce
<1>6. DataNear'
  <2>1. CASE draining'
    BY <2>1 DEF DataNear
  <2>2. CASE ~draining'
    <3>1. Len(pending) \in Nat /\ ~(Len(pending) > 1) /\ DOMAIN pending' = 1 .. Len(pending) - 1
      BY <2>2 DEF Serves
    <3>2. Data' = {}
      BY <3>1 DEF Data
    <3> QED
      BY <3>2 DEF DataNear
  <2> QED
    BY <2>1, <2>2
<1>7. FarWindow'
  BY <1>1, <1>2 DEF FarWindow, Linear
<1> QED
  BY <1>3, <1>5, <1>6, <1>7 DEF CallInv

\* How the calls on their way are after the j-th is served.
LEMMA ServedWay ==
    ASSUME QueueOK, NEW k, Serves(k)
    PROVE  /\ k \in DOMAIN Way /\ Way[k] = pending[k]
           /\ \E e : Embeds(Way', Way, e, k)
           /\ \A j \in DOMAIN Way' : \E i \in DOMAIN Way : Way'[j] = Way[i]
<1> DEFINE n == Len(pending)
           m == Len(sent)
           e == [j \in 1 .. n - 1 + m |-> Before(k, j)]
<1>1. /\ n \in Nat /\ k \in 1 .. n /\ DOMAIN pending = 1 .. n /\ Len(pending') = n - 1
      /\ \A i \in 1 .. n - 1 : pending'[i] = pending[Before(k, i)]
      /\ sent' = sent /\ m \in Nat
  BY QueueShape, ServedHost DEF Serves
<1>2. DOMAIN Way = 1 .. n + m /\ DOMAIN Way' = 1 .. n - 1 + m
  BY <1>1 DEF Way
<1>3. k \in DOMAIN Way /\ Way[k] = pending[k]
  BY <1>1, WayShape
<1>4. \A j \in 1 .. n + m : Way[j] = IF j <= n THEN pending[j] ELSE sent[j - n]
  BY <1>2 DEF Way
<1>5. \A j \in 1 .. n - 1 + m : Way'[j] = IF j <= n - 1 THEN pending'[j] ELSE sent[j - (n - 1)]
  BY <1>1, <1>2 DEF Way
<1> HIDE DEF n, m
<1>6. \A j \in 1 .. n - 1 + m : /\ Before(k, j) \in 1 .. n + m /\ Before(k, j) # k
                               /\ Way'[j] = Way[Before(k, j)]
  <2> SUFFICES ASSUME NEW j \in 1 .. n - 1 + m
               PROVE  /\ Before(k, j) \in 1 .. n + m /\ Before(k, j) # k
                      /\ Way'[j] = Way[Before(k, j)]
    OBVIOUS
  <2>1. Before(k, j) \in 1 .. n + m /\ Before(k, j) # k
    BY <1>1 DEF Before
  <2>2. CASE j <= n - 1
    <3>1. j \in 1 .. n - 1 /\ Before(k, j) <= n
      BY <1>1, <2>2 DEF Before
    <3>2. Way'[j] = pending[Before(k, j)]
      BY <1>1, <1>5, <2>2, <3>1
    <3>3. Way[Before(k, j)] = pending[Before(k, j)]
      BY <1>4, <2>1, <3>1
    <3> QED
      BY <2>1, <3>2, <3>3
  <2>3. CASE j > n - 1
    <3>1. Before(k, j) = j + 1 /\ ~(j + 1 <= n) /\ ~(j <= n - 1) /\ (j + 1) - n = j - (n - 1)
      BY <1>1, <2>3 DEF Before
    <3>2. Way'[j] = sent[j - (n - 1)]
      BY <1>5, <3>1
    <3>3. Way[j + 1] = sent[(j + 1) - n]
      BY <1>4, <2>1, <3>1
    <3> QED
      BY <2>1, <3>1, <3>2, <3>3
  <2> QED
    BY <1>1, <2>2, <2>3
<1>7. \A i, j \in 1 .. n - 1 + m : Before(k, i) = Before(k, j) => i = j
  BY <1>1 DEF Before
<1>8. ASSUME NEW i \in 1 .. n + m, i # k
      PROVE  \E j \in 1 .. n - 1 + m : Before(k, j) = i
  <2>1. CASE i < k
    BY <1>1, <2>1 DEF Before
  <2>2. CASE i > k
    <3>1. i - 1 \in 1 .. n - 1 + m /\ ~(i - 1 < k) /\ i - 1 + 1 = i
      BY <1>1, <1>8, <2>2
    <3>2. Before(k, i - 1) = i
      BY <3>1 DEF Before
    <3> QED
      BY <3>1, <3>2
  <2> QED
    BY <1>1, <1>8, <2>1, <2>2
<1>9. Embeds(Way', Way, e, k)
  BY <1>2, <1>6, <1>7, <1>8 DEF Embeds
<1>10. \A j \in DOMAIN Way' : \E i \in DOMAIN Way : Way'[j] = Way[i]
  BY <1>2, <1>6
<1> QED
  BY <1>3, <1>9, <1>10

\* Of the data under way, only what is served has arrived.
LEMMA ServedDue ==
    ASSUME TypeInv, QueueOK, DataOnce, NEW k, Serves(k)
    PROVE  IF pending[k].cmd = "data"
           THEN /\ k \in Data
                /\ Due' = Due \ {<<pending[k].t_addr, pending[k].content.o_addr>>}
           ELSE Due' = Due
<1>1. /\ Unsent' = Unsent /\ \A s \in Unsent : PageAt(s)' = PageAt(s)
  BY ServedHost
<1>2. k \in DOMAIN pending
  BY DEF Serves
<1> DEFINE D(i) == <<pending[i].t_addr, pending[i].content.o_addr>>
           U(s) == <<s, PageAt(s)>>
<1>3. Due = {D(i) : i \in Data} \cup {U(s) : s \in Unsent}
  BY DEF Due
<1>4. \A i \in Data' : /\ Before(k, i) \in Data /\ Before(k, i) # k
                       /\ <<pending'[i].t_addr, pending'[i].content.o_addr>> = D(Before(k, i))
  BY BeforeIs DEF Data
<1>5. \A i \in Data \ {k} : \E j \in Data' :
          i = Before(k, j) /\ <<pending'[j].t_addr, pending'[j].content.o_addr>> = D(i)
  <2> SUFFICES ASSUME NEW i \in Data, i # k
               PROVE  \E j \in Data' :
                  i = Before(k, j) /\ <<pending'[j].t_addr, pending'[j].content.o_addr>> = D(i)
    OBVIOUS
  <2>1. i \in DOMAIN pending /\ pending[i].cmd = "data"
    BY DEF Data
  <2>2. PICK j \in DOMAIN pending' : Before(k, j) = i
    BY <2>1, BeforeIs
  <2>3. pending'[j] = pending[i]
    BY <2>2, BeforeIs
  <2>4. j \in Data'
    BY <2>1, <2>3 DEF Data
  <2> QED
    BY <2>2, <2>3, <2>4
<1>6. Due' = {<<pending'[i].t_addr, pending'[i].content.o_addr>> : i \in Data'}
                \cup {U(s) : s \in Unsent}
  <2>1. {<<s, PageAt(s)>>' : s \in Unsent'} = {U(s) : s \in Unsent}
    BY <1>1
  <2> QED
    BY <2>1 DEF Due
<1>7. Due' = {D(i) : i \in Data \ {k}} \cup {U(s) : s \in Unsent}
  <2>1. {<<pending'[i].t_addr, pending'[i].content.o_addr>> : i \in Data'} = {D(i) : i \in Data \ {k}}
    <3> HIDE DEF D
    <3>1. \A i \in Data' : <<pending'[i].t_addr, pending'[i].content.o_addr>> \in {D(x) : x \in Data \ {k}}
      BY <1>4
    <3>2. \A i \in Data \ {k} : D(i) \in {<<pending'[j].t_addr, pending'[j].content.o_addr>> : j \in Data'}
      BY <1>5
    <3> QED
      BY <3>1, <3>2
  <2> QED
    BY <1>6, <2>1
<1>8. CASE pending[k].cmd = "data"
  <2>1. k \in Data
    BY <1>2, <1>8 DEF Data
  <2>2. \A i \in Data \ {k} : D(i) # D(k)
    <3>1. \A i \in Data \ {k} : pending[i].t_addr # pending[k].t_addr
      BY <2>1 DEF DataOnce
    <3> QED
      BY <3>1
  <2>3. \A s \in Unsent : U(s) # D(k)
    BY <2>1 DEF DataOnce
  <2>4. Due' = Due \ {D(k)}
    <3> HIDE DEF D, U
    <3> QED
      BY <1>3, <1>7, <2>1, <2>2, <2>3
  <2> QED
    BY <1>8, <2>1, <2>4
<1>9. CASE pending[k].cmd # "data"
  <2>1. k \notin Data
    BY <1>9 DEF Data
  <2>2. Data \ {k} = Data
    BY <2>1
  <2> HIDE DEF D, U
  <2> QED
    BY <1>3, <1>7, <1>9, <2>2
<1> QED
  BY <1>8, <1>9

-----------------------------------------------------------------------------
(***************************************************************************)
(* A header reaches its core.                                              *)
(***************************************************************************)
\* There is less data in the queue than there are calls, if one of them is a command.
LEMMA DataBounded ==
    ASSUME TypeInv, QueueOK, DataOnce, NEW k, k \in DOMAIN pending, pending[k].cmd # "data"
    PROVE  LET D == {pending[i].t_addr : i \in Data}
           IN  D \subseteq Nat /\ IsFiniteSet(D) /\ Cardinality(D) <= Len(pending) - 1
<1> DEFINE n == Len(pending)
           D == {pending[i].t_addr : i \in Data}
           T == (1 .. n) \ {k}
           f == [s \in D |-> CHOOSE i \in Data : pending[i].t_addr = s]
<1>1. n \in Nat /\ DOMAIN pending = 1 .. n /\ k \in 1 .. n
  BY QueueShape
<1>2. Data \subseteq T
  BY <1>1 DEF Data
<1> DEFINE N == 1 .. n
<1>3. IsFiniteSet(N) /\ Cardinality(N) = n /\ k \in N /\ T = N \ {k}
  <2>1. IsFiniteSet(1 .. n) /\ Cardinality(1 .. n) = IF 1 > n THEN 0 ELSE n - 1 + 1
    BY <1>1, FS_Interval, 1 \in Int, n \in Int
  <2> QED
    BY <1>1, <2>1
<1>4. IsFiniteSet(T) /\ Cardinality(T) = n - 1
  <2> HIDE DEF N, n
  <2> QED
    BY <1>3, FS_RemoveElement
<1>5. \A s \in D : f[s] \in Data /\ pending[f[s]].t_addr = s
  OBVIOUS
<1>6. f \in [D -> T]
  BY <1>2, <1>5
<1>7. D \subseteq Nat
  <2>1. \A i \in Data : pending[i].t_addr \in Slot
    BY DueShape
  <2> QED
    BY <2>1, Constants DEF Slot
<1> HIDE DEF D, T, f
<1>8. \A x, y \in D : f[x] = f[y] => x = y
  BY <1>5
<1>9. IsFiniteSet(D) /\ Cardinality(D) <= Cardinality(T)
  BY <1>4, <1>6, <1>8, InjectionBounded
<1> QED
  BY <1>4, <1>7, <1>9 DEF D, n

\* A core has room for the header of each write under way.
LEMMA RoomForHeader ==
    ASSUME SysInv, QueueFits, NEW k, k \in DOMAIN pending, pending[k].cmd # "data", NEW c \in Core
    PROVE  atl.twrites[c] \in Seq(Entries) /\ Len(atl.twrites[c]) < 2 * NumMaxTwrite
<1>1. TypeInv /\ QueueOK /\ DataOnce /\ ATLOK /\ HeadersInv
  BY DEF SysInv, HostInv, CallInv, CoreInv
<1> DEFINE list == atl.twrites[c]
           D == {pending[i].t_addr : i \in Data}
<1>2. list \in Seq(Entries)
  BY <1>1 DEF ATLOK, Maps
<1>3. HeadersOK(c, list, Way, Due, Frontier, Rest)
  BY <1>1 DEF HeadersInv
<1>4. Rest \in Int /\ Frontier \in Int
  BY <1>1, RestFrontier
<1>5. D \subseteq Nat /\ IsFiniteSet(D) /\ Cardinality(D) <= Len(pending) - 1
  BY <1>1, DataBounded
<1>6. Slots(Due) \subseteq D \cup (Frontier - Rest .. Frontier - 1)
  BY <1>1, DueShape DEF Unsent
<1> HIDE DEF list, D
<1>7. Len(list) <= Cardinality(D) + 1
  BY <1>2, <1>3, <1>4, <1>5, <1>6, ListBounded
<1>8. Len(pending) \in Nat /\ Len(pending) <= BUFF_THRESHOLD
  BY <1>1, QueueShape DEF QueueOK, QueueFits
<1>9. BUFF_THRESHOLD \in Nat /\ BUFF_THRESHOLD < 2 * NumMaxTwrite /\ NumMaxTwrite \in Nat
  <2>1. TwriteEntries \in Nat
    BY Constants
  <2> QED
    BY <2>1 DEF QueueFits
<1>10. Cardinality(D) \in Nat /\ Len(list) \in Nat
  BY <1>2, <1>5, FS_CardinalityType, LenProperties
<1>11. Len(list) < 2 * NumMaxTwrite
  BY <1>5, <1>7, <1>8, <1>9, <1>10
<1> QED
  BY <1>2, <1>11 DEF list

\* What the header makes of the core.
LEMMA HeaderIs ==
    ASSUME OwnCoreId, NEW c \in Core, NEW call \in HeaderCalls, call.core = c,
           NEW a \in Maps, a.stopped = FALSE, Len(a.twrites[c]) # 2 * NumMaxTwrite,
           TwriteEntries \in Nat, NumMaxTwrite = TwriteEntries, NumMaxRemap \in Nat
    PROVE  Handle(a, call) = [a EXCEPT !.twrites = HeadersAfter(c, call, a.twrites)]
<1>1. call.cmd = "header" /\ call.entry \in 0 .. TwriteEntries - 1
  BY DEF HeaderCalls
<1>2. Handle(a, call) = TwriteHeader(a, call)
  <2>1. CmdIndex(call) = call.entry
    BY <1>1 DEF CmdIndex
  <2>2. ~(call.entry >= NumMaxTwrite + NumMaxRemap) /\ ~(call.entry >= NumMaxTwrite)
    BY <1>1
  <2>3. ~((call.cmd = "remap") # (call.entry >= NumMaxTwrite))
    BY <1>1, <2>2
  <2> QED
    BY <1>1, <2>1, <2>2, <2>3 DEF Handle
<1>3. ThisCore(c) = c
  BY DEF ThisCore, COREID, Core
<1>4. Remained(c, call.t_addr_start, Len(call.o_addr)) = HeaderOf(c, call).remained
  BY <1>3 DEF Remained, HeaderOf, Half, NUM_FTL_CORE
<1>5. [addr_start |-> call.t_addr_start, o_addr |-> call.o_addr,
       remained |-> HeaderOf(c, call).remained] = HeaderOf(c, call)
  BY DEF HeaderOf
<1> DEFINE h == HeaderOf(c, call)
           list == WithHeader(c, call, a.twrites[c])
           t2 == HeadersAfter(c, call, a.twrites)
<1>6. Handle(a, call) = IF h.remained = 0 THEN a ELSE [a EXCEPT !.twrites[c] = Append(@, h)]
  BY <1>2, <1>4, <1>5 DEF TwriteHeader
<1>7. a.twrites = [d \in Core |-> a.twrites[d]] /\ a \in Maps
  BY DEF Maps
<1>8. t2 = [d \in Core |-> IF d = c THEN list ELSE a.twrites[d]]
  BY DEF HeadersAfter
<1>9. list = IF h.remained = 0 THEN a.twrites[c] ELSE Append(a.twrites[c], h)
  BY DEF WithHeader
<1> HIDE DEF h, list, t2
<1>10. CASE h.remained = 0
  <2>1. t2 = a.twrites
    BY <1>7, <1>8, <1>9, <1>10
  <2>2. a = [a EXCEPT !.twrites = a.twrites]
    BY <1>7 DEF Maps
  <2> QED
    BY <1>6, <1>10, <2>1, <2>2 DEF t2
<1>11. CASE h.remained # 0
  <2>1. [a.twrites EXCEPT ![c] = Append(@, h)] = t2
    BY <1>7, <1>8, <1>9, <1>11
  <2>2. Handle(a, call) = [a EXCEPT !.twrites = [a.twrites EXCEPT ![c] = Append(@, h)]]
    BY <1>6, <1>7, <1>11
  <2> QED
    BY <2>1, <2>2 DEF t2
<1> QED
  BY <1>10, <1>11

\* The host's remaps do not see what the queue serves.
LEMMA ServedRemapsSent ==
    ASSUME RemapsSent, NEW k, Serves(k), Slots(Due') \subseteq Slots(Due)
    PROVE  RemapsSent'
<1>1. sent' = sent /\ map_entries' = map_entries /\ redirection_map' = redirection_map
  BY ServedHost
<1> DEFINE due2 == Due'
<1>2. Slots(due2) \subseteq Slots(Due)
  OBVIOUS
<1> HIDE DEF due2
<1>3. \A j \in DOMAIN sent' : sent'[j].cmd = "remap" => \A i \in DOMAIN sent'[j].pairs :
          /\ map_entries'[sent'[j].pairs[i].t_addr] = NoMap
          /\ redirection_map'[sent'[j].pairs[i].o_addr] = NoSlot
          /\ sent'[j].pairs[i].t_addr \notin Slots(due2)
  BY <1>1, <1>2 DEF RemapsSent
<1> QED
  BY <1>3 DEF RemapsSent, due2

LEMMA HeaderDone ==
    ASSUME SysInv, QueueFits, NEW k, Serves(k), pending[k].cmd = "header",
           NEW c, c = pending[k].core
    PROVE  /\ pending[k] \in HeaderCalls /\ c \in Core
           /\ atl \in Maps /\ atl.stopped = FALSE /\ atl.twrites[c] \in Seq(Entries)
           /\ atl' = [atl EXCEPT !.twrites = HeadersAfter(c, pending[k], atl.twrites)]
<1>1. QueueOK /\ ATLOK
  BY DEF SysInv, CallInv, CoreInv
<1>2. k \in DOMAIN pending /\ atl' = Handle(atl, pending[k])
  BY DEF Serves
<1> DEFINE call == pending[k]
<1>3. call \in HeaderCalls /\ c \in Core
  <2>1. call \in HeaderCalls
    BY <1>1, <1>2, QueueShape
  <2> QED
    BY <2>1 DEF HeaderCalls
<1>4. /\ atl \in Maps /\ atl.stopped = FALSE /\ atl.twrites[c] \in Seq(Entries)
      /\ Len(atl.twrites[c]) # 2 * NumMaxTwrite
  <2>1. atl.twrites[c] \in Seq(Entries) /\ Len(atl.twrites[c]) < 2 * NumMaxTwrite
    BY <1>2, <1>3, RoomForHeader
  <2>2. Len(atl.twrites[c]) \in Nat /\ NumMaxTwrite \in Nat
    BY <2>1, LenProperties, Constants DEF QueueFits
  <2> QED
    BY <1>1, <2>1, <2>2 DEF ATLOK
<1>5. atl' = [atl EXCEPT !.twrites = HeadersAfter(c, call, atl.twrites)]
  <2>1. TwriteEntries \in Nat /\ NumMaxTwrite = TwriteEntries /\ NumMaxRemap \in Nat /\ OwnCoreId
    BY Constants DEF QueueFits
  <2>2. call.core = c /\ atl' = Handle(atl, call)
    BY <1>2
  <2> HIDE DEF call
  <2>3. Handle(atl, call) = [atl EXCEPT !.twrites = HeadersAfter(c, call, atl.twrites)]
    BY <1>3, <1>4, <2>1, <2>2, HeaderIs
  <2> QED
    BY <2>2, <2>3
<1> QED
  BY <1>3, <1>4, <1>5

LEMMA ServedHeader ==
    ASSUME SysInv, QueueFits, NEW k, Serves(k), pending[k].cmd = "header"
    PROVE  CoreInv'
<1>1. /\ TypeInv /\ QueueOK /\ DataOnce /\ ATLOK /\ HeadersInv /\ RemapsInv /\ CommandHolds
      /\ LogHolds /\ HomeHoldsOwnPage
  BY DEF SysInv, HostInv, CallInv, CoreInv
<1>2. /\ map_entries' = map_entries /\ redirection_map' = redirection_map
      /\ remap_entry' = remap_entry /\ Frontier' = Frontier /\ Rest' = Rest /\ sent' = sent
  BY ServedHost
<1> DEFINE call == pending[k]
           c == call.core
<1>3. /\ call \in HeaderCalls /\ c \in Core
      /\ atl \in Maps /\ atl.stopped = FALSE /\ atl.twrites[c] \in Seq(Entries)
      /\ atl' = [atl EXCEPT !.twrites = HeadersAfter(c, call, atl.twrites)]
  BY HeaderDone
<1>4. Due' = Due
  BY <1>1, ServedDue
<1>5. /\ k \in DOMAIN Way /\ Way[k] = call
  BY <1>1, ServedWay
<1>6. PICK e : Embeds(Way', Way, e, k)
  BY <1>1, ServedWay
<1> DEFINE t2 == HeadersAfter(c, call, atl.twrites)
           list2 == WithHeader(c, call, atl.twrites[c])
<1>7. /\ list2 \in Seq(Entries) /\ HeadersOK(c, list2, Way', Due, Frontier, Rest)
  <2>1. k \in Headers(c, Way) /\ Way[k] \in HeaderCalls
    BY <1>3, <1>5 DEF Headers
  <2>2. HeadersOK(c, atl.twrites[c], Way, Due, Frontier, Rest)
    BY <1>1, <1>3 DEF HeadersInv
  <2>3. list2 = WithHeader(c, Way[k], atl.twrites[c])
    BY <1>5
  <2> DEFINE way2 == Way'
             list == atl.twrites[c]
  <2>4. list \in Seq(Entries) /\ Embeds(way2, Way, e, k) /\ HeadersOK(c, list, Way, Due, Frontier, Rest)
        /\ list2 = WithHeader(c, Way[k], list)
    BY <1>3, <1>6, <2>2, <2>3
  <2> HIDE DEF way2, list, list2, c, call
  <2>5. list2 \in Seq(Entries) /\ HeadersOK(c, list2, way2, Due, Frontier, Rest)
    BY <1>3, <2>1, <2>4, HeaderHandled
  <2> QED
    BY <2>5 DEF way2
<1>8. t2 = [d \in Core |-> IF d = c THEN list2 ELSE atl.twrites[d]]
  BY DEF HeadersAfter
<1> HIDE DEF t2, list2, call, c
<1>9. /\ atl'.twrites = t2 /\ atl'.log = atl.log /\ atl'.home = atl.home /\ ATLOK'
  <2>1. \A d \in Core : atl.twrites[d] \in Seq(Entries)
    BY <1>3 DEF Maps
  <2>2. t2 \in [Core -> Seq(Entries)]
    BY <1>7, <1>8, <2>1
  <2> QED
    BY <1>3, <2>2 DEF ATLOK, Maps, t2
<1>10. ASSUME NEW d \in Core
       PROVE  HeadersOK(d, atl'.twrites[d], Way', Due', Frontier', Rest')
  <2>1. CASE d = c
    BY <1>2, <1>4, <1>7, <1>9, <1>8, <2>1
  <2>2. CASE d # c
    <3>1. k \notin Headers(d, Way)
      BY <1>5, <2>2 DEF Headers, c
    <3>2. HeadersOK(d, atl.twrites[d], Way, Due, Frontier, Rest)
      BY <1>1 DEF HeadersInv
    <3> DEFINE way2 == Way'
               list == atl.twrites[d]
    <3>3. Embeds(way2, Way, e, k) /\ HeadersOK(d, list, Way, Due, Frontier, Rest)
      BY <1>6, <3>2
    <3> HIDE DEF way2, list
    <3>4. HeadersOK(d, list, way2, Due, Frontier, Rest)
      BY <3>1, <3>3, HeadersStay
    <3>5. atl'.twrites[d] = atl.twrites[d]
      BY <1>9, <1>8, <2>2
    <3> QED
      BY <1>2, <1>4, <3>4, <3>5 DEF way2, list
  <2> QED
    BY <2>1, <2>2
<1>11. HeadersInv'
  BY <1>10 DEF HeadersInv
<1>12. RemapsInv'
  <2>1. RemapsApart(Way) /\ RemapsHold(Way, atl.log) /\ RemapsSent
        /\ RemapsPast(Way, Due, map_entries, redirection_map)
    BY <1>1 DEF RemapsInv
  <2> DEFINE way2 == Way'
             log == atl.log
  <2>2. Embeds(way2, Way, e, k) /\ RemapsHold(Way, log)
    BY <1>6, <2>1
  <2> HIDE DEF way2, log
  <2>3. RemapsApart(way2)
    BY <2>1, <2>2, RemapsStayApart
  <2>4. RemapsHold(way2, log)
    BY <2>2, RemapsStayHeld
  <2>5. RemapsPast(way2, Due, map_entries, redirection_map)
    BY <2>1, <2>2, RemapsStayPast
  <2>6. RemapsSent'
    BY <1>4, <2>1, ServedRemapsSent
  <2> QED
    BY <1>2, <1>4, <1>9, <2>3, <2>4, <2>5, <2>6 DEF RemapsInv, way2, log
<1>13. CommandHolds'
  BY <1>1, <1>2, <1>4, <1>9 DEF CommandHolds
<1>14. LogHolds'
  BY <1>1, <1>2, <1>4, <1>9 DEF LogHolds, IsValid
<1>15. HomeHoldsOwnPage'
  BY <1>1, <1>9 DEF HomeHoldsOwnPage
<1> QED
  BY <1>9, <1>11, <1>12, <1>14, <1>15, <1>13 DEF CoreInv

-----------------------------------------------------------------------------
(***************************************************************************)
(* A remap command reaches its core.                                       *)
(***************************************************************************)
LEMMA RemapIs ==
    ASSUME NEW call \in RemapCalls, NEW a, a.stopped = FALSE,
           TwriteEntries \in Nat, NumMaxTwrite = TwriteEntries,
           NumMaxRemap \in Nat, NumMaxRemap >= TwriteEntries
    PROVE  Handle(a, call) = RemapCommand(a, call)
<1>1. call.cmd = "remap" /\ call.entry \in 0 .. TwriteEntries - 1
  BY CallKinds
<1>2. CmdIndex(call) = TwriteEntries + call.entry
  BY <1>1 DEF CmdIndex
<1>3. ~(TwriteEntries + call.entry >= NumMaxTwrite + NumMaxRemap)
      /\ TwriteEntries + call.entry >= NumMaxTwrite
  BY <1>1
<1>4. ~((call.cmd = "remap") # (TwriteEntries + call.entry >= NumMaxTwrite))
  BY <1>1, <1>3
<1> QED
  BY <1>1, <1>2, <1>3, <1>4 DEF Handle

\* The core moves what the command's slots hold to their pages.
LEMMA RemapDone ==
    ASSUME SysInv, QueueFits, NEW k, Serves(k), pending[k].cmd = "remap"
    PROVE  /\ pending[k].core \in Core /\ pending[k].pairs \in Seq(Pair)
           /\ DOMAIN pending[k].pairs = 1 .. Len(pending[k].pairs)
           /\ \A i : OwnPair(pending[k], i) <=> Owns(Way, k, i)
           /\ Remapped(atl', atl, pending[k], Len(pending[k].pairs))
<1>1. QueueOK /\ ATLOK /\ RemapsInv
  BY DEF SysInv, CallInv, CoreInv
<1>2. k \in DOMAIN pending /\ atl' = Handle(atl, pending[k])
  BY DEF Serves
<1>3. k \in DOMAIN Way /\ Way[k] = pending[k]
  BY <1>1, ServedWay
<1> DEFINE call == pending[k]
<1>4. call \in RemapCalls
  BY <1>1, <1>2, QueueShape
<1>5. call.core \in Core /\ call.pairs \in Seq(Pair)
  BY <1>4, CallKinds
<1>6. DOMAIN call.pairs = 1 .. Len(call.pairs)
  BY <1>5, LenProperties
<1>7. \A i : OwnPair(call, i) <=> Owns(Way, k, i)
  BY <1>3 DEF Owns
<1>8. atl \in Maps /\ atl.stopped = FALSE
  BY <1>1 DEF ATLOK
<1>9. atl' = RemapCommand(atl, call)
  <2>1. TwriteEntries \in Nat /\ NumMaxTwrite = TwriteEntries
        /\ NumMaxRemap \in Nat /\ NumMaxRemap >= TwriteEntries
    BY Constants DEF QueueFits
  <2>2. atl' = Handle(atl, call)
    BY <1>2
  <2> HIDE DEF call
  <2>3. Handle(atl, call) = RemapCommand(atl, call)
    BY <1>4, <1>8, <2>1, RemapIs
  <2> QED
    BY <2>2, <2>3
<1>10. \A i, j \in DOMAIN call.pairs : OwnPair(call, i) /\ OwnPair(call, j) /\ i # j =>
           /\ call.pairs[i].t_addr # call.pairs[j].t_addr
           /\ call.pairs[i].o_addr # call.pairs[j].o_addr
  <2>1. RemapsApart(Way)
    BY <1>1 DEF RemapsInv
  <2> QED
    BY <1>3, <1>7, <2>1 DEF RemapsApart
<1>11. \A i \in DOMAIN call.pairs : OwnPair(call, i) => atl.log[call.pairs[i].t_addr] # VC_MAX
  <2> SUFFICES ASSUME NEW i \in DOMAIN call.pairs, OwnPair(call, i)
               PROVE  atl.log[call.pairs[i].t_addr] # VC_MAX
    OBVIOUS
  <2>1. Owns(Way, k, i) /\ RemapsHold(Way, atl.log)
    BY <1>1, <1>7 DEF RemapsInv
  <2>2. atl.log[call.pairs[i].t_addr] \in Content(call.pairs[i].o_addr)
    BY <1>3, <2>1 DEF RemapsHold
  <2>3. call.pairs[i].o_addr \in LPN
    BY <1>1, <1>3, <2>1, OwnsShape
  <2> QED
    BY <2>2, <2>3, PagesAreContents
<1>12. OwnCoreId = TRUE
  BY DEF QueueFits
<1> HIDE DEF call
<1>13. Remapped(RemapCommand(atl, call), atl, call, Len(call.pairs))
  BY <1>5, <1>8, <1>10, <1>11, <1>12, RemapEffect
<1>14. Remapped(atl', atl, call, Len(call.pairs))
  BY <1>9, <1>13
<1> QED
  BY <1>5, <1>6, <1>7, <1>14 DEF call

LEMMA ServedRemap ==
    ASSUME SysInv, QueueFits, NEW k, Serves(k), pending[k].cmd = "remap"
    PROVE  CoreInv'
<1>1. /\ TypeInv /\ QueueOK /\ DataOnce /\ ATLOK /\ HeadersInv /\ RemapsInv /\ CommandHolds
      /\ LogHolds /\ HomeHoldsOwnPage /\ PendingEntries
  BY DEF SysInv, HostInv, CallInv, CoreInv, LogInv
<1>2. /\ map_entries' = map_entries /\ redirection_map' = redirection_map
      /\ remap_entry' = remap_entry /\ Frontier' = Frontier /\ Rest' = Rest
  BY ServedHost
<1> DEFINE call == pending[k]
           log2 == atl'.log
           way2 == Way'
<1>3. /\ call.pairs \in Seq(Pair) /\ DOMAIN call.pairs = 1 .. Len(call.pairs)
      /\ \A i : OwnPair(call, i) <=> Owns(Way, k, i)
      /\ Remapped(atl', atl, call, Len(call.pairs))
  BY RemapDone
<1>4. Due' = Due
  BY <1>1, ServedDue
<1>5. k \in DOMAIN Way /\ Way[k] = call
  BY <1>1, ServedWay
<1>6. PICK e : Embeds(way2, Way, e, k)
  BY <1>1, ServedWay
<1>7. /\ atl' \in Maps /\ atl'.twrites = atl.twrites /\ atl'.stopped = FALSE
  BY <1>3 DEF Remapped
<1>8. ASSUME NEW s \in Slot, atl'.log[s] # atl.log[s]
      PROVE  \E i : Owns(Way, k, i) /\ call.pairs[i].t_addr = s
  BY <1>3, <1>8 DEF Remapped
<1>9. RemapsApart(Way) /\ RemapsHold(Way, atl.log) /\ RemapsSent
      /\ RemapsPast(Way, Due, map_entries, redirection_map)
  BY <1>1 DEF RemapsInv
<1>10. \A s \in Slot : map_entries[s] # NoMap /\ s \notin Slots(Due) => log2[s] = atl.log[s]
  <2> SUFFICES ASSUME NEW s \in Slot, map_entries[s] # NoMap, s \notin Slots(Due), log2[s] # atl.log[s]
               PROVE  FALSE
    OBVIOUS
  <2>1. PICK i : Owns(Way, k, i) /\ call.pairs[i].t_addr = s
    BY <1>8
  <2> QED
    BY <1>5, <1>9, <2>1 DEF RemapsPast
<1> HIDE DEF way2
<1>11. HeadersInv'
  <2> SUFFICES ASSUME NEW d \in Core
               PROVE  HeadersOK(d, atl.twrites[d], way2, Due, Frontier, Rest)
    BY <1>2, <1>4, <1>7 DEF HeadersInv, way2
  <2>1. k \notin Headers(d, Way)
    BY <1>5 DEF Headers
  <2> DEFINE list == atl.twrites[d]
  <2>2. HeadersOK(d, list, Way, Due, Frontier, Rest)
    BY <1>1 DEF HeadersInv
  <2> HIDE DEF list
  <2>3. HeadersOK(d, list, way2, Due, Frontier, Rest)
    BY <1>6, <2>1, <2>2, HeadersStay
  <2> QED
    BY <2>3 DEF list
<1>12. RemapsInv'
  <2>1. RemapsApart(way2)
    BY <1>6, <1>9, RemapsStayApart
  <2>2. RemapsPast(way2, Due, map_entries, redirection_map)
    BY <1>6, <1>9, RemapsStayPast
  <2>3. RemapsSent'
    BY <1>4, <1>9, ServedRemapsSent
  <2>4. \A j, i : Owns(Way, j, i) /\ j # k =>
            log2[Way[j].pairs[i].t_addr] = atl.log[Way[j].pairs[i].t_addr]
    <3> SUFFICES ASSUME NEW j, NEW i, Owns(Way, j, i), j # k
                 PROVE  log2[Way[j].pairs[i].t_addr] = atl.log[Way[j].pairs[i].t_addr]
      OBVIOUS
    <3> DEFINE s == Way[j].pairs[i].t_addr
    <3>1. s \in Slot
      BY <1>1, OwnsShape
    <3>2. \A m : Owns(Way, k, m) => call.pairs[m].t_addr # s
      BY <1>5, <1>9 DEF RemapsApart
    <3> HIDE DEF s
    <3>3. log2[s] = atl.log[s]
      BY <1>8, <3>1, <3>2
    <3> QED
      BY <3>3 DEF s
  <2> DEFINE log == atl.log
  <2>5. RemapsHold(Way, log) /\ \A j, i : Owns(Way, j, i) /\ j # k =>
            log2[Way[j].pairs[i].t_addr] = log[Way[j].pairs[i].t_addr]
    BY <1>9, <2>4
  <2> HIDE DEF log, log2
  <2>6. RemapsHold(way2, log2)
    BY <1>6, <2>5, RemapsStayHeld
  <2> QED
    BY <1>2, <1>4, <2>1, <2>2, <2>3, <2>6 DEF RemapsInv, way2, log2
<1>13. CommandHolds'
  <2> SUFFICES ASSUME NEW i \in DOMAIN remap_entry
               PROVE  LET p == remap_entry[i]
                      IN  /\ p.t_addr \notin Slots(Due)
                          /\ log2[p.t_addr] \in Content(p.o_addr)
                          /\ \A j \in DOMAIN remap_entry : i # j => remap_entry[j].t_addr # p.t_addr
    BY <1>2, <1>4 DEF CommandHolds
  <2> DEFINE p == remap_entry[i]
  <2>1. /\ p.t_addr \notin Slots(Due) /\ atl.log[p.t_addr] \in Content(p.o_addr)
        /\ \A j \in DOMAIN remap_entry : i # j => remap_entry[j].t_addr # p.t_addr
    BY <1>1 DEF CommandHolds
  <2>2. p.t_addr \in Slot
    <3>1. remap_entry \in Seq([t_addr : Slot, o_addr : LPN])
      BY <1>1 DEF TypeInv, TypeOK
    <3>2. remap_entry[i] \in [t_addr : Slot, o_addr : LPN]
      BY <3>1, LenProperties
    <3> QED
      BY <3>2
  <2>3. map_entries[p.t_addr] # NoMap
    <3>1. map_entries[p.t_addr] = RemappingMap(p.o_addr)
      BY <1>1 DEF PendingEntries
    <3>2. RemappingMap(p.o_addr).flags # NoMap.flags
      BY DEF RemappingMap, NoMap
    <3> QED
      BY <3>1, <3>2
  <2>4. log2[p.t_addr] = atl.log[p.t_addr]
    BY <1>10, <2>1, <2>2, <2>3
  <2> QED
    BY <2>1, <2>4
<1>14. LogHolds'
  <2> SUFFICES ASSUME NEW s \in Slot, IsValid(s)
               PROVE  \/ <<s, map_entries[s].o_addr>> \in Due
                      \/ s \notin Slots(Due) /\ log2[s] \in Content(map_entries[s].o_addr)
    BY <1>2, <1>4 DEF LogHolds, IsValid
  <2>1. map_entries[s] # NoMap
    BY DEF IsValid, NoMap
  <2> QED
    BY <1>1, <1>10, <2>1 DEF LogHolds
<1>15. HomeHoldsOwnPage'
  <2> SUFFICES ASSUME NEW l \in LPN
               PROVE  atl'.home[l] \in Content(l) \cup {VC_MAX}
    BY DEF HomeHoldsOwnPage
  <2>1. CASE \E i \in 1 .. Len(call.pairs) : OwnPair(call, i) /\ call.pairs[i].o_addr = l
    <3>1. PICK i \in 1 .. Len(call.pairs) : OwnPair(call, i) /\ call.pairs[i].o_addr = l
      BY <2>1
    <3>2. atl'.home[l] = atl.log[call.pairs[i].t_addr]
      BY <1>3, <3>1 DEF Remapped
    <3>3. atl.log[call.pairs[i].t_addr] \in Content(l)
      BY <1>3, <1>5, <1>9, <3>1 DEF RemapsHold
    <3> QED
      BY <3>2, <3>3
  <2>2. CASE \A i \in 1 .. Len(call.pairs) : OwnPair(call, i) => call.pairs[i].o_addr # l
    <3>1. atl'.home[l] = atl.home[l]
      BY <1>3, <2>2 DEF Remapped
    <3> QED
      BY <1>1, <3>1 DEF HomeHoldsOwnPage
  <2> QED
    BY <2>1, <2>2
<1> QED
  BY <1>7, <1>11, <1>12, <1>13, <1>14, <1>15 DEF CoreInv, ATLOK

-----------------------------------------------------------------------------
(***************************************************************************)
(* A page of the log reaches its core.                                     *)
(***************************************************************************)
\* The headers still on their way are for pages that are behind them.
LEMMA HeadersBehind ==
    ASSUME TypeInv, QueueOK, DataOnce, NEW k, Serves(k), pending[k].cmd = "data",
           NEW c, NEW j \in Headers(c, Way)
    PROVE  pending[k].t_addr \notin CallSpan(Way[j])
<1>1. j \in DOMAIN Way /\ Way[j].cmd = "header"
  BY DEF Headers
<1>2. j \notin DOMAIN pending
  <2>1. \A i \in DOMAIN pending : pending[i].cmd = "data"
    BY DEF Serves
  <2> QED
    BY <1>1, <2>1, WayShape
<1> DEFINE m == j - Len(pending)
<1>3. m \in DOMAIN sent
  BY <1>1, <1>2, WayShape
<1>4. Way[j] = sent[m]
  <2>1. Len(pending) \in Nat /\ DOMAIN Way = 1 .. Len(pending) + Len(sent) /\ Len(sent) \in Nat
    BY WayShape, QueueShape
  <2>2. Len(pending) + m = j
    BY <1>1, <2>1
  <2> HIDE DEF m
  <2> QED
    BY <1>3, <2>2, WayShape
<1> HIDE DEF m
<1>5. /\ pc = "twrite" /\ page = 1
      /\ sent[m].t_addr_start = twrite_header.t_addr_start
      /\ sent[m].o_addr = twrite_header.o_addr
  <2>1. IsSent(sent[m]) /\ sent[m].cmd = "header"
    BY <1>1, <1>3, <1>4 DEF QueueOK
  <2>2. sent[m] \notin HostData /\ sent[m] \notin RemapCalls
    BY <2>1, CallKinds
  <2> QED
    BY <2>1, <2>2 DEF IsSent
<1>6. SentData = {}
  <2> SUFFICES ASSUME NEW i \in DOMAIN sent, sent[i].cmd = "data"
               PROVE  FALSE
    BY DEF SentData
  <2>1. IsSent(sent[i])
    BY DEF QueueOK
  <2>2. sent[i] \notin HeaderCalls /\ sent[i] \notin RemapCalls
    BY CallKinds
  <2> QED
    BY <1>5, <2>1, <2>2 DEF IsSent
<1> DEFINE start == twrite_header.t_addr_start
           n == Len(twrite_header.o_addr)
<1>7. start \in Nat /\ n \in Nat
  <2>1. start \in 0 .. LogSize /\ twrite_header.o_addr \in Seq(LPN \cup {RSP_INVALID_LPN})
    BY DEF TypeInv, TypeOK
  <2> QED
    BY <2>1, LenProperties, Constants
<1>8. Rest = n - 1 + 1 + 0 /\ Frontier = start + n
  BY <1>5, <1>6 DEF Rest, Frontier
<1>9. CallSpan(Way[j]) = start .. start + n - 1
  BY <1>4, <1>5 DEF CallSpan, Span
<1>10. Unsent = CallSpan(Way[j])
  <2> HIDE DEF start, n
  <2>1. Unsent = (start + n) - (n - 1 + 1 + 0) .. (start + n) - 1
    BY <1>8 DEF Unsent
  <2>2. (start + n) - (n - 1 + 1 + 0) = start /\ (start + n) - 1 = start + n - 1
    BY <1>7
  <2> QED
    BY <1>9, <2>1, <2>2
<1>11. k \in Data
  BY DEF Data, Serves
<1> QED
  BY <1>10, <1>11 DEF DataOnce

\* What the core keeps of a page that it finds under o, in the log.
Arrives(content) == IF content.o_addr = RSP_INVALID_LPN THEN VC_MAX ELSE content

LEMMA DataIs ==
    ASSUME OwnCoreId, NEW a \in Maps, a.stopped = FALSE, NEW call \in FTLData,
           NEW s, s = call.t_addr, NEW c \in Core, c = CoreOf(s),
           NEW list \in Seq(Entries), list = a.twrites[c],
           NEW list2, Takes(list2, list, s, call.content.o_addr)
    PROVE  /\ Handle(a, call) = [a EXCEPT !.twrites[c] = list2,
                                         !.log[s] = Arrives(call.content)]
           /\ Arrives(call.content) \in Contents
<1>1. call.cmd = "data" /\ s \in Slot /\ call.content \in Contents
  BY CallKinds
<1>2. Handle(a, call) = TwriteData(a, call)
  BY <1>1 DEF Handle
<1>3. s \in Nat
  BY <1>1, Constants DEF Slot
<1>4. ThisCore(c) = c
  BY DEF ThisCore, COREID, Core
<1>5. Address(c, s) = s
  <2>1. Address(c, s) = (s \div 2) * 2 + c
    BY <1>4 DEF Address, NUM_FTL_CORE
  <2>2. c = s % 2
    BY DEF CoreOf, NUM_FTL_CORE
  <2>3. (s \div 2) * 2 + (s % 2) = s
    BY <1>3
  <2> QED
    BY <2>1, <2>2, <2>3
<1> DEFINE o == call.content.o_addr
<1> HIDE DEF o
<1>6. PICK i \in DOMAIN list :
          /\ i = FindTwrite(list, s) /\ list2 = Retire(list, i)
          /\ list[i].o_addr[s - list[i].addr_start + 1] = o
  BY DEF Takes, o
<1>7. i # 0
  BY <1>6, LenProperties
<1>8. s % NUM_FTL_CORE = c
  BY DEF CoreOf
<1>9. TwriteData(a, call) =
          LET j == FindTwrite(list, s)
          IN  IF j = 0 THEN Stop(a)
              ELSE LET oLPN == list[j].o_addr[s - list[j].addr_start + 1]
                   IN  [a EXCEPT !.twrites[c] = Retire(list, j),
                                 !.log[s] = IF oLPN = RSP_INVALID_LPN THEN VC_MAX ELSE call.content]
  BY <1>5, <1>8, Zenon DEF TwriteData
<1>10. TwriteData(a, call) =
           IF i = 0 THEN Stop(a)
           ELSE [a EXCEPT !.twrites[c] = list2,
                          !.log[s] = IF o = RSP_INVALID_LPN THEN VC_MAX ELSE call.content]
  BY <1>6, <1>9
<1>11. Arrives(call.content) = IF o = RSP_INVALID_LPN THEN VC_MAX ELSE call.content
  BY DEF Arrives, o
<1>12. Arrives(call.content) \in Contents
  BY <1>1, <1>11 DEF Contents
<1> QED
  BY <1>2, <1>7, <1>10, <1>11, <1>12

\* The page's header has it in its list, and names the page that was written.
LEMMA DataDone ==
    ASSUME SysInv, QueueFits, NEW k, Serves(k), pending[k].cmd = "data",
           NEW s, s = pending[k].t_addr, NEW o, o = pending[k].content.o_addr,
           NEW c, c = CoreOf(s), NEW due2, due2 = Due \ {<<s, o>>}
    PROVE  /\ s \in Slot /\ c \in Core /\ pending[k].content \in Contents \ {VC_MAX}
           /\ Handled(due2, Due, s, o)
           /\ Arrives(pending[k].content) \in Contents
           /\ \E list2 \in Seq(Entries) :
                  /\ atl' = [atl EXCEPT !.twrites[c] = list2, !.log[s] = Arrives(pending[k].content)]
                  /\ HeadersOK(c, list2, Way, due2, Frontier, Rest)
           /\ \A d \in Core \ {c} :
                  HeadersOK(d, atl.twrites[d], Way, due2, Frontier, Rest)
<1>1. TypeInv /\ QueueOK /\ DataOnce /\ ATLOK /\ HeadersInv
  BY DEF SysInv, HostInv, CallInv, CoreInv
<1>2. k \in DOMAIN pending /\ atl' = Handle(atl, pending[k])
  BY DEF Serves
<1>3. k \in Data /\ pending[k] \in FTLData
  BY <1>1, <1>2, QueueShape DEF Data
<1>4. s \in Slot /\ s \in Nat
  <2>1. s \in Slot
    BY <1>3, CallKinds
  <2> QED
    BY <2>1, Constants DEF Slot
<1>5. c \in Core
  BY <1>4 DEF CoreOf, NUM_FTL_CORE, Core
<1>6. /\ <<s, o>> \in Due /\ \A d \in Due : d[1] = s => d = <<s, o>>
      /\ pending[k].content \in Contents \ {VC_MAX}
  BY <1>1, <1>3, DueShape
<1>7. \A d \in Core : Behind(d, Way, s)
  BY <1>1, HeadersBehind DEF Behind
<1>8. Handled(due2, Due, s, o)
  BY <1>6 DEF Handled
<1> DEFINE list == atl.twrites[c]
<1>9. list \in Seq(Entries) /\ HeadersOK(c, list, Way, Due, Frontier, Rest)
  BY <1>1, <1>5 DEF ATLOK, Maps, HeadersInv
<1> HIDE DEF list
<1>10. PICK list2 : Takes(list2, list, s, o) /\ HeadersOK(c, list2, Way, due2, Frontier, Rest)
  <2>1. Behind(c, Way, s) /\ CoreOf(s) = c
    BY <1>5, <1>7
  <2> QED
    BY <1>4, <1>5, <1>8, <1>9, <2>1, DataHandled
<1>11. ASSUME NEW d \in Core \ {c}
       PROVE  HeadersOK(d, atl.twrites[d], Way, due2, Frontier, Rest)
  <2> DEFINE other == atl.twrites[d]
  <2>1. other \in Seq(Entries) /\ HeadersOK(d, other, Way, Due, Frontier, Rest) /\ d \in Core
    BY <1>1 DEF ATLOK, Maps, HeadersInv
  <2>2. CoreOf(s) # d /\ Behind(d, Way, s)
    BY <1>7
  <2> HIDE DEF other
  <2>3. HeadersOK(d, other, Way, due2, Frontier, Rest)
    BY <1>4, <1>8, <2>1, <2>2, DataElsewhere
  <2> QED
    BY <2>3 DEF other
<1> DEFINE call == pending[k]
           new == [atl EXCEPT !.twrites[c] = list2, !.log[s] = Arrives(call.content)]
<1>12. Handle(atl, call) = new /\ Arrives(call.content) \in Contents
  <2>1. OwnCoreId /\ atl \in Maps /\ atl.stopped = FALSE
    BY <1>1 DEF QueueFits, ATLOK
  <2>2. /\ call \in FTLData /\ s = call.t_addr /\ c = CoreOf(s) /\ list = atl.twrites[c]
        /\ Takes(list2, list, s, call.content.o_addr)
    BY <1>3, <1>10 DEF list
  <2> HIDE DEF call
  <2> QED
    BY <1>5, <1>9, <2>1, <2>2, DataIs
<1>13. list2 \in Seq(Entries) /\ atl' = new
  <2>1. list2 \in Seq(Entries)
    BY <1>10 DEF Takes
  <2> QED
    BY <1>2, <1>12, <2>1
<1> QED
  BY <1>4, <1>5, <1>6, <1>8, <1>10, <1>11, <1>12, <1>13, Zenon

\* The remaps still on their way are of slots and pages that the host has forgotten.
LEMMA RemapsBehind ==
    ASSUME QueueOK, RemapsSent, NEW k, Serves(k), pending[k].cmd = "data",
           NEW j, NEW i, Owns(Way, j, i), NEW t, t = Way[j].pairs[i].t_addr,
           NEW l, l = Way[j].pairs[i].o_addr
    PROVE  /\ t \in Slot /\ map_entries[t] = NoMap /\ redirection_map[l] = NoSlot
           /\ t \notin Slots(Due)
<1>1. j \in DOMAIN Way /\ Way[j].cmd = "remap" /\ i \in DOMAIN Way[j].pairs /\ t \in Slot
  BY OwnsShape DEF Owns
<1>2. j \notin DOMAIN pending
  <2>1. \A m \in DOMAIN pending : pending[m].cmd = "data"
    BY DEF Serves
  <2> QED
    BY <1>1, <2>1, WayShape
<1> DEFINE m == j - Len(pending)
<1>3. m \in DOMAIN sent
  BY <1>1, <1>2, WayShape
<1>4. Way[j] = sent[m]
  <2>1. Len(pending) \in Nat /\ DOMAIN Way = 1 .. Len(pending) + Len(sent) /\ Len(sent) \in Nat
    BY WayShape, QueueShape
  <2>2. Len(pending) + m = j
    BY <1>1, <2>1
  <2> HIDE DEF m
  <2> QED
    BY <1>3, <2>2, WayShape
<1> HIDE DEF m
<1> QED
  BY <1>1, <1>3, <1>4 DEF RemapsSent

LEMMA ServedDataRemaps ==
    ASSUME SysInv, NEW k, Serves(k), pending[k].cmd = "data",
           Slots(Due') \subseteq Slots(Due),
           \A t \in Slot : t \notin Slots(Due) => atl'.log[t] = atl.log[t]
    PROVE  RemapsInv'
<1>1. /\ QueueOK /\ RemapsApart(Way) /\ RemapsHold(Way, atl.log) /\ RemapsSent
      /\ RemapsPast(Way, Due, map_entries, redirection_map)
  BY DEF SysInv, CallInv, CoreInv, RemapsInv
<1>2. map_entries' = map_entries /\ redirection_map' = redirection_map
  BY ServedHost
<1>3. RemapsSent'
  BY <1>1, ServedRemapsSent
<1> DEFINE way2 == Way'
           log2 == atl'.log
           log == atl.log
           due2 == Due'
<1>4. PICK e : Embeds(way2, Way, e, k)
  BY <1>1, ServedWay
<1>5. \A j, i : Owns(Way, j, i) =>
          log2[Way[j].pairs[i].t_addr] = log[Way[j].pairs[i].t_addr]
  BY <1>1, RemapsBehind
<1>6. RemapsPast(Way, due2, map_entries, redirection_map)
  <2> SUFFICES ASSUME NEW j, NEW i, Owns(Way, j, i)
               PROVE  /\ map_entries[Way[j].pairs[i].t_addr] = NoMap
                      /\ redirection_map[Way[j].pairs[i].o_addr] = NoSlot
    BY Zenon DEF RemapsPast
  <2> QED
    BY <1>1, RemapsBehind
<1>7. RemapsHold(Way, log)
  BY <1>1
<1> HIDE DEF way2, log2, log, due2
<1>8. RemapsApart(way2)
  BY <1>1, <1>4, RemapsStayApart
<1>9. RemapsHold(way2, log2)
  BY <1>4, <1>5, <1>7, RemapsStayHeld
<1>10. RemapsPast(way2, due2, map_entries, redirection_map)
  BY <1>4, <1>6, RemapsStayPast
<1> QED
  BY <1>2, <1>3, <1>8, <1>9, <1>10 DEF RemapsInv, way2, log2, due2

LEMMA ServedData ==
    ASSUME SysInv, QueueFits, NEW k, Serves(k), pending[k].cmd = "data"
    PROVE  CoreInv'
<1>1. /\ TypeInv /\ QueueOK /\ DataOnce /\ ATLOK /\ CommandHolds /\ LogHolds /\ HomeHoldsOwnPage
      /\ PendingEntries
  BY DEF SysInv, HostInv, CallInv, CoreInv, LogInv
<1>2. /\ map_entries' = map_entries /\ redirection_map' = redirection_map
      /\ remap_entry' = remap_entry /\ Frontier' = Frontier /\ Rest' = Rest
  BY ServedHost
<1> DEFINE call == pending[k]
           s == call.t_addr
           o == call.content.o_addr
           c == CoreOf(s)
           due2 == Due \ {<<s, o>>}
           new == Arrives(call.content)
<1>3. Due' = due2
  BY <1>1, ServedDue
<1>4. /\ s \in Slot /\ c \in Core /\ call.content \in Contents \ {VC_MAX}
      /\ Handled(due2, Due, s, o) /\ new \in Contents
      /\ \E list2 \in Seq(Entries) :
             /\ atl' = [atl EXCEPT !.twrites[c] = list2, !.log[s] = new]
             /\ HeadersOK(c, list2, Way, due2, Frontier, Rest)
      /\ \A d \in Core \ {c} : HeadersOK(d, atl.twrites[d], Way, due2, Frontier, Rest)
  BY DataDone
<1>5. PICK list2 \in Seq(Entries) :
          /\ atl' = [atl EXCEPT !.twrites[c] = list2, !.log[s] = new]
          /\ HeadersOK(c, list2, Way, due2, Frontier, Rest)
  BY <1>4
<1>6. PICK e : Embeds(Way', Way, e, k)
  BY <1>1, ServedWay
<1>7. \A d \in Core : k \notin Headers(d, Way)
  <2>1. Way[k] = call
    BY <1>1, ServedWay
  <2> QED
    BY <2>1 DEF Headers
<1>8. o # RSP_INVALID_LPN => new = call.content /\ call.content \in Content(o)
  BY <1>4, ContentShape DEF Arrives
<1>9. /\ s \in Slots(Due) /\ Slots(due2) = Slots(Due) \ {s}
      /\ \A d \in Due : d[1] = s => d = <<s, o>>
  <2>1. Handled(due2, Due, s, o)
    BY <1>4
  <2> HIDE DEF due2, s, o
  <2>2. s \in Slots(Due) /\ Slots(due2) = Slots(Due) \ {s}
    BY <2>1, SlotsShrink
  <2>3. \A d \in Due : d[1] = s => d = <<s, o>>
    BY <2>1 DEF Handled
  <2> QED
    BY <2>2, <2>3
<1>20. \A d \in Due : d = <<s, o>> \/ d \in due2
  OBVIOUS
<1> HIDE DEF call, s, o, c, due2, new
<1>10. /\ atl'.twrites = [atl.twrites EXCEPT ![c] = list2]
       /\ atl'.log = [atl.log EXCEPT ![s] = new]
       /\ atl'.home = atl.home /\ ATLOK'
       /\ atl.twrites \in [Core -> Seq(Entries)] /\ atl.log \in [Slot -> Contents]
  <2>1. /\ atl.twrites \in [Core -> Seq(Entries)] /\ atl.log \in [Slot -> Contents]
        /\ atl.home \in [LPN -> Contents] /\ atl.stopped = FALSE /\ atl \in Maps
    BY <1>1 DEF ATLOK, Maps
  <2>2. /\ [atl.twrites EXCEPT ![c] = list2] \in [Core -> Seq(Entries)]
        /\ [atl.log EXCEPT ![s] = new] \in [Slot -> Contents]
    BY <1>4, <2>1
  <2>3. atl' = [atl EXCEPT !.twrites = [atl.twrites EXCEPT ![c] = list2],
                           !.log = [atl.log EXCEPT ![s] = new]]
    BY <1>5, <2>1 DEF Maps
  <2> QED
    BY <2>1, <2>2, <2>3 DEF ATLOK, Maps
<1>11. \A t \in Slot : atl'.log[t] = IF t = s THEN new ELSE atl.log[t]
  BY <1>10
<1>12. HeadersInv'
  <2> SUFFICES ASSUME NEW d \in Core
               PROVE  HeadersOK(d, atl'.twrites[d], Way', due2, Frontier, Rest)
    BY <1>2, <1>3 DEF HeadersInv
  <2> DEFINE way2 == Way'
             list == atl'.twrites[d]
  <2>1. HeadersOK(d, list, Way, due2, Frontier, Rest)
    <3>1. CASE d = c
      <4>1. list = list2
        BY <1>4, <1>10, <3>1
      <4> QED
        BY <1>5, <3>1, <4>1
    <3>2. CASE d # c
      <4>1. list = atl.twrites[d]
        BY <1>10, <3>2
      <4> QED
        BY <1>4, <3>2, <4>1
    <3> QED
      BY <3>1, <3>2
  <2>2. Embeds(way2, Way, e, k) /\ k \notin Headers(d, Way)
    BY <1>6, <1>7
  <2> HIDE DEF way2, list
  <2>3. HeadersOK(d, list, way2, due2, Frontier, Rest)
    BY <2>1, <2>2, HeadersStay
  <2> QED
    BY <2>3 DEF way2, list
<1>13. RemapsInv'
  <2>1. Slots(Due') \subseteq Slots(Due)
    BY <1>3, <1>9
  <2>2. \A t \in Slot : t \notin Slots(Due) => atl'.log[t] = atl.log[t]
    BY <1>9, <1>11
  <2> QED
    BY <2>1, <2>2, ServedDataRemaps
<1>14. CommandHolds'
  <2> SUFFICES ASSUME NEW i \in DOMAIN remap_entry
               PROVE  LET p == remap_entry[i]
                      IN  /\ p.t_addr \notin Slots(due2)
                          /\ atl'.log[p.t_addr] \in Content(p.o_addr)
                          /\ \A j \in DOMAIN remap_entry : i # j => remap_entry[j].t_addr # p.t_addr
    BY <1>2, <1>3 DEF CommandHolds
  <2> DEFINE p == remap_entry[i]
  <2>1. /\ p.t_addr \notin Slots(Due) /\ atl.log[p.t_addr] \in Content(p.o_addr)
        /\ \A j \in DOMAIN remap_entry : i # j => remap_entry[j].t_addr # p.t_addr
    BY <1>1 DEF CommandHolds
  <2>2. p.t_addr \in Slot
    <3>1. remap_entry \in Seq([t_addr : Slot, o_addr : LPN])
      BY <1>1 DEF TypeInv, TypeOK
    <3>2. remap_entry[i] \in [t_addr : Slot, o_addr : LPN]
      BY <3>1, LenProperties
    <3> QED
      BY <3>2
  <2>3. atl'.log[p.t_addr] = atl.log[p.t_addr]
    BY <1>9, <1>11, <2>1, <2>2
  <2> QED
    BY <1>9, <2>1, <2>3
<1>15. LogHolds'
  <2> SUFFICES ASSUME NEW t \in Slot, IsValid(t)
               PROVE  \/ <<t, map_entries[t].o_addr>> \in due2
                      \/ t \notin Slots(due2) /\ atl'.log[t] \in Content(map_entries[t].o_addr)
    BY <1>2, <1>3 DEF LogHolds, IsValid
  <2> DEFINE l == map_entries[t].o_addr
  <2>1. <<t, l>> \in Due \/ (t \notin Slots(Due) /\ atl.log[t] \in Content(l))
    BY <1>1 DEF LogHolds
  <2>2. l \in LPN
    <3>1. map_entries[t] \in MapEntry
      BY <1>1 DEF TypeInv, TypeOK
    <3> QED
      BY <3>1 DEF IsValid, MapEntry, NoMap, ValidMap, RemappingMap
  <2> HIDE DEF l
  <2>3. CASE <<t, l>> \in Due /\ t = s
    <3>1. l = o
      BY <1>9, <2>3
    <3>2. l # RSP_INVALID_LPN
      BY <2>2, Constants
    <3> QED
      BY <1>8, <1>9, <1>11, <2>3, <3>1, <3>2 DEF l
  <2>4. CASE <<t, l>> \in Due /\ t # s
    <3>1. <<t, l>> \in due2
      BY <1>20, <2>4
    <3> QED
      BY <3>1 DEF l
  <2>5. CASE t \notin Slots(Due) /\ atl.log[t] \in Content(l)
    BY <1>9, <1>11, <2>5 DEF l
  <2> QED
    BY <2>1, <2>3, <2>4, <2>5
<1>16. HomeHoldsOwnPage'
  BY <1>1, <1>10 DEF HomeHoldsOwnPage
<1> QED
  BY <1>10, <1>12, <1>13, <1>14, <1>15, <1>16 DEF CoreInv

LEMMA ServeStep ==
    ASSUME SysInv, QueueFits, RSP_WritePage
    PROVE  SysInv'
<1>1. HostInv /\ TypeInv /\ CallInv /\ QueueOK
  BY DEF SysInv, HostInv, CallInv
<1>2. PICK k : Serves(k)
  BY <1>1, ServesCall
<1>3. HostInv'
  BY <1>1, <1>2, ServedHost, HostInvSent
<1>4. CallInv'
  BY <1>1, <1>2, ServedCallInv
<1>5. pending[k].cmd = "header" \/ pending[k].cmd = "remap" \/ pending[k].cmd = "data"
  <2>1. k \in DOMAIN pending
    BY <1>2 DEF Serves
  <2> QED
    BY <1>1, <2>1, QueueShape
<1>6. CoreInv'
  BY <1>2, <1>5, ServedHeader, ServedRemap, ServedData
<1> QED
  BY <1>3, <1>4, <1>6 DEF SysInv
-----------------------------------------------------------------------------
(***************************************************************************)
(* The invariant of the whole stack.                                       *)
(***************************************************************************)
LEMMA SysInvInit == QueueFits /\ SysInit => SysInv
<1> SUFFICES ASSUME QueueFits, SysInit
             PROVE  SysInv
  OBVIOUS
<1>1. /\ Init /\ buff = VC_MAX /\ atl = ATLInit(Slot, LPN) /\ pending = <<>> /\ draining = FALSE
      /\ pc = "ready" /\ sent = <<>> /\ remap_entry = <<>> /\ map_entries = [s \in Slot |-> NoMap]
  BY DEF SysInit, Init
<1>2. HostInv
  BY <1>1, TypeInvInit, LogInvInit, WindowInvInit, LeadsToPageInit DEF HostInv
<1>3. DOMAIN pending = {} /\ DOMAIN sent = {} /\ Len(pending) = 0 /\ Len(sent) = 0
  BY <1>1
<1>4. /\ SentData = {} /\ Data = {} /\ DOMAIN Way = {} /\ Frontier \in Nat /\ Unsent = {}
  <2>1. SentData = {} /\ Data = {}
    BY <1>3 DEF SentData, Data
  <2>2. DOMAIN Way = {}
    BY <1>3 DEF Way
  <2>3. Frontier = 0 /\ Rest = 0
    BY <1>1 DEF Frontier, Rest, Init
  <2> QED
    BY <2>1, <2>2, <2>3 DEF Unsent
<1>5. Due = {} /\ Slots(Due) = {}
  BY <1>4 DEF Due, Slots
<1>6. QueueOK
  <2>1. /\ <<>> \in Seq(HeaderCalls \cup RemapCalls \cup FTLData)
        /\ <<>> \in Seq(HeaderCalls \cup RemapCalls \cup HostData)
    OBVIOUS
  <2>2. Len(pending) < BUFF_THRESHOLD
    BY <1>3 DEF QueueFits
  <2> QED
    BY <1>1, <1>3, <2>1, <2>2 DEF QueueOK
<1>7. CallInv
  BY <1>1, <1>4, <1>6 DEF CallInv, DataOnce, DataNear, FarWindow
<1>8. /\ atl.twrites = [core \in Core |-> <<>>] /\ atl.log = [s \in Slot |-> VC_MAX]
      /\ atl.home = [l \in LPN |-> VC_MAX] /\ atl.stopped = FALSE
  BY <1>1 DEF ATLInit
<1>9. ATLOK
  <2>1. atl = [twrites |-> [core \in Core |-> <<>>], log |-> [s \in Slot |-> VC_MAX],
               home |-> [l \in LPN |-> VC_MAX], stopped |-> FALSE]
    BY <1>1 DEF ATLInit
  <2>2. VC_MAX \in Contents /\ <<>> \in Seq(Entries)
    BY DEF Contents
  <2> QED
    BY <2>1, <2>2 DEF ATLOK, Maps
<1>10. HeadersInv
  <2> SUFFICES ASSUME NEW c \in Core
               PROVE  HeadersOK(c, <<>>, Way, Due, Frontier, Rest)
    BY <1>8 DEF HeadersInv
  <2>1. Headers(c, Way) = {} /\ DOMAIN <<>> = {}
    BY <1>4 DEF Headers
  <2> QED
    BY <1>5, <2>1 DEF HeadersOK, HeadersApart, HeadersCover, HeadersCount, HeadersNear
<1>11. RemapsInv
  <2>1. \A j, i : ~Owns(Way, j, i)
    BY <1>4 DEF Owns
  <2> QED
    BY <1>3, <2>1 DEF RemapsInv, RemapsApart, RemapsHold, RemapsPast, RemapsSent
<1>12. CommandHolds /\ LogHolds
  <2>1. DOMAIN remap_entry = {}
    BY <1>1
  <2>2. \A s \in Slot : ~IsValid(s)
    BY <1>1 DEF IsValid, NoMap
  <2> QED
    BY <2>1, <2>2 DEF CommandHolds, LogHolds
<1>13. HomeHoldsOwnPage
  BY <1>8 DEF HomeHoldsOwnPage
<1> QED
  BY <1>2, <1>7, <1>9, <1>10, <1>11, <1>12, <1>13 DEF SysInv, CoreInv

LEMMA HostStep ==
    ASSUME SysInv, QueueFits, Host, ~SkipsLiveEntry, ~FillsToStart
    PROVE  SysInv'
<1>1. HostInv /\ WindowInv
  BY DEF SysInv, HostInv
<1>2. Next
  BY DEF Host
<1>3. HostInv'
  BY <1>1, <1>2, HostInvStep DEF GuardedNext
<1>4. ~PackingError /\ ~ResumePacking
  BY <1>1, SlotIsFree DEF HostInv, TypeInv, PackingError, ResumePacking, WindowInv, NoPackingError
<1>5. CASE BeginTwrite
  BY <1>3, <1>5, BeginTwriteStep
<1>6. CASE WritePadding \/ WritePage
  BY <1>3, <1>6, WritePageStep
<1>7. CASE EndTwrite
  BY <1>3, <1>7, EndTwriteStep
<1>8. CASE Refused \/ RemapNothing
  BY <1>3, <1>8, RefusedStep
<1>9. CASE BeginRemap
  BY <1>3, <1>9, BeginRemapStep
<1>10. CASE RemapCollect
  BY <1>3, <1>10, RemapCollectStep
<1>11. CASE RemapSendFull \/ RemapSendLast
  BY <1>3, <1>11, SendRemapStep
<1> QED
  BY <1>2, <1>4, <1>5, <1>6, <1>7, <1>8, <1>9, <1>10, <1>11 DEF Next, Twrite, Remap

LEMMA SysInvStutters ==
    ASSUME SysInv, UNCHANGED sysvars
    PROVE  SysInv'
<1>1. /\ pc' = pc /\ map_entries' = map_entries /\ redirection_map' = redirection_map
      /\ rw_log_start_idx' = rw_log_start_idx /\ rw_log_new_idx' = rw_log_new_idx
      /\ header_entry_num' = header_entry_num /\ remap_entry_num' = remap_entry_num
      /\ twrite_header' = twrite_header /\ page' = page /\ remap_entry' = remap_entry
      /\ remap_cnt' = remap_cnt /\ remap_end' = remap_end /\ sent' = sent
      /\ atl' = atl /\ buff' = buff /\ pending' = pending /\ draining' = draining
  BY DEF sysvars, hostvars
<1>2. HostInv'
  BY <1>1, HostInvSent DEF SysInv
<1>3. SentData' = SentData /\ Data' = Data /\ Way' = Way
  BY <1>1 DEF SentData, Data, Way
<1>4. Frontier' = Frontier /\ Rest' = Rest
  BY <1>1, <1>3 DEF Frontier, Rest
<1>5. Unsent' = Unsent
  BY <1>4 DEF Unsent
<1>6. Due' = Due
  BY <1>1, <1>3, <1>5 DEF Due, PageAt
<1>7. QueueOK'
  <2>1. \A i \in DOMAIN sent : IsSent(sent[i])' <=> IsSent(sent[i])
    BY <1>1, Zenon DEF IsSent, TwriteSlot
  <2> QED
    BY <1>1, <1>3, <2>1 DEF QueueOK, SysInv, CallInv
<1>8. DataOnce' /\ DataNear' /\ FarWindow'
  BY <1>1, <1>3, <1>4, <1>5 DEF DataOnce, DataNear, FarWindow, Linear, SysInv, CallInv
<1>9. HeadersInv' /\ RemapsSent' /\ RemapsInv'
  BY <1>1, <1>3, <1>4, <1>6 DEF HeadersInv, RemapsInv, RemapsSent, SysInv, CoreInv
<1>10. ATLOK' /\ CommandHolds' /\ LogHolds' /\ HomeHoldsOwnPage'
  BY <1>1, <1>6 DEF ATLOK, CommandHolds, LogHolds, HomeHoldsOwnPage, IsValid, SysInv, CoreInv
<1> QED
  BY <1>2, <1>7, <1>8, <1>9, <1>10 DEF SysInv, CallInv, CoreInv

LEMMA SysInvStep ==
    ASSUME QueueFits, SysInv, [SysNext /\ ~SkipsLiveEntry /\ ~FillsToStart]_sysvars
    PROVE  SysInv'
BY HostStep, QueueStep, ServeStep, SysInvStutters DEF SysNext

LEMMA SysInvariant == QueueFits /\ GuardedSysSpec => []SysInv
<1> SUFFICES ASSUME QueueFits
             PROVE  GuardedSysSpec => []SysInv
  OBVIOUS
<1> QED
  BY SysInvInit, SysInvStep, PTL DEF GuardedSysSpec

\* The data not yet queued, by the host's state.
LEMMA UnsentIs ==
    ASSUME TypeOK, QueueOK, NEW s \in Int
    PROVE  IsUnsent(s) <=> s \in Unsent
<1> DEFINE start == twrite_header.t_addr_start
           n == Len(twrite_header.o_addr)
<1>1. /\ start \in Nat /\ n \in Nat /\ page \in Nat /\ page >= 1 /\ page <= n + 1
  <2>1. start \in 0 .. LogSize /\ twrite_header.o_addr \in Seq(LPN \cup {RSP_INVALID_LPN})
        /\ page \in 1 .. n + 1
    BY DEF TypeOK
  <2> QED
    BY <2>1, LenProperties, Constants
<1>2. \A i \in SentData : pc = "twrite" /\ page > 1 /\ sent[i].t_addr = TwriteSlot - 1
  <2> SUFFICES ASSUME NEW i \in DOMAIN sent, sent[i].cmd = "data"
               PROVE  pc = "twrite" /\ page > 1 /\ sent[i].t_addr = TwriteSlot - 1
    BY DEF SentData
  <2>1. IsSent(sent[i])
    BY DEF QueueOK
  <2>2. sent[i] \notin HeaderCalls /\ sent[i] \notin RemapCalls
    BY CallKinds
  <2> QED
    BY <2>1, <2>2 DEF IsSent
<1>3. TwriteSlot = start + page - 1
  BY DEF TwriteSlot
<1>4. CASE pc # "twrite"
  <2>1. SentData = {}
    BY <1>2, <1>4
  <2>2. Rest = 0
    BY <1>4 DEF Rest
  <2>3. Frontier \in Int
    BY <1>4 DEF Frontier, TypeOK
  <2>4. Unsent = {}
    BY <2>2, <2>3 DEF Unsent
  <2> QED
    BY <1>4, <2>1, <2>4 DEF IsUnsent
<1>5. CASE pc = "twrite" /\ SentData = {}
  <2>1. Rest = n - page + 1 + 0 /\ Frontier = start + n
    BY <1>5 DEF Rest, Frontier
  <2> HIDE DEF start, n
  <2>2. Unsent = (start + n) - (n - page + 1 + 0) .. (start + n) - 1
    BY <2>1 DEF Unsent
  <2>3. IsUnsent(s) <=> s \in TwriteSlot .. start + n - 1
    BY <1>5 DEF IsUnsent, start, n
  <2> QED
    BY <1>1, <1>3, <2>2, <2>3
<1>6. CASE pc = "twrite" /\ SentData # {}
  <2>1. Rest = n - page + 1 + 1 /\ Frontier = start + n
    BY <1>6 DEF Rest, Frontier
  <2>2. IsUnsent(s) <=> s \in TwriteSlot .. start + n - 1 \/ s = TwriteSlot - 1
    BY <1>2, <1>6 DEF IsUnsent
  <2>3. page > 1
    BY <1>2, <1>6
  <2> HIDE DEF start, n
  <2>4. Unsent = (start + n) - (n - page + 1 + 1) .. (start + n) - 1
    BY <2>1 DEF Unsent
  <2> QED
    BY <1>1, <1>3, <2>2, <2>3, <2>4
<1> QED
  BY <1>4, <1>5, <1>6

\* Every variable of the stack keeps to its range, the cores' lists of headers too (nodes of
\* TWRITE_HDR_LIST, ATLWrapper.cpp:806-815, 1311).
THEOREM SysTypeCorrect == QueueFits /\ GuardedSysSpec => []SysTypeOK
<1> SUFFICES ASSUME QueueFits
             PROVE  GuardedSysSpec => []SysTypeOK
  OBVIOUS
<1>1. SysInv => SysTypeOK
  <2> SUFFICES ASSUME SysInv
               PROVE  SysTypeOK
    OBVIOUS
  <2>1. TypeOK /\ QueueOK /\ ATLOK /\ HeadersInv
    BY DEF SysInv, HostInv, TypeInv, CallInv, CoreInv
  <2>2. buff \in Contents
    <3>1. CASE SentData = {}
      BY <2>1, <3>1 DEF QueueOK, Contents
    <3>2. CASE SentData # {}
      <4>1. PICK i \in DOMAIN sent : sent[i].cmd = "data"
        BY <3>2 DEF SentData
      <4>2. IsSent(sent[i])
        BY <2>1, <4>1 DEF QueueOK
      <4>3. sent[i] \notin HeaderCalls /\ sent[i] \notin RemapCalls
        BY <4>1, CallKinds
      <4>4. /\ sent[i].o_addr \in Pages
            /\ buff \in IF sent[i].o_addr = RSP_INVALID_LPN THEN {Padding} ELSE Content(sent[i].o_addr)
        BY <4>2, <4>3, CallKinds DEF IsSent
      <4> QED
        BY <4>4 DEF Pages, Contents
    <3> QED
      BY <3>1, <3>2
  <2>3. /\ atl.twrites \in [Core -> Seq(Entries)] /\ atl.log \in [Slot -> Contents]
        /\ atl.home \in [LPN -> Contents] /\ atl.stopped \in BOOLEAN
    BY <2>1 DEF ATLOK, Maps
  <2> DEFINE E == [addr_start : Nat, remained : Nat \ {0}, o_addr : Seq(LPN \cup {RSP_INVALID_LPN})]
  <2>4. ASSUME NEW c \in Core
        PROVE  atl.twrites[c] \in Seq(E)
    <3> DEFINE list == atl.twrites[c]
    <3>1. list \in Seq(Entries) /\ \A i \in DOMAIN list : list[i].remained # 0
      BY <2>1, <2>3 DEF HeadersInv, HeadersOK, HeadersCount
    <3> HIDE DEF list
    <3>2. Len(list) \in Nat /\ DOMAIN list = 1 .. Len(list) /\ \A i \in DOMAIN list : list[i] \in Entries
      BY <3>1, LenProperties
    <3>3. \A i \in DOMAIN list : list[i] \in E
      BY <3>1, <3>2 DEF Entries, Pages
    <3>4. list = [i \in 1 .. Len(list) |-> list[i]]
      BY <3>1, <3>2
    <3> HIDE DEF E
    <3>5. list \in Seq(E)
      BY <3>2, <3>3, <3>4
    <3> QED
      BY <3>5 DEF list
  <2> HIDE DEF E
  <2>5. atl.twrites \in [Core -> Seq(E)]
    <3>1. atl.twrites = [c \in Core |-> atl.twrites[c]]
      BY <2>3
    <3> QED
      BY <2>4, <3>1
  <2>6. draining \in BOOLEAN /\ Len(pending) <= BUFF_THRESHOLD
    BY <2>1 DEF QueueOK, QueueFits
  <2> QED
    BY <2>1, <2>2, <2>3, <2>5, <2>6 DEF SysTypeOK, E
<1> QED
  BY <1>1, SysInvariant, PTL

\* No assertion of the handlers fires (ATLWrapper.cpp:834, 876, 1086 and 1233, and the
\* null entry at 1309), though commands overtake data.
THEOREM NoCoreStops == QueueFits /\ GuardedSysSpec => []NoAssert
<1>1. SysInv => NoAssert
  BY DEF SysInv, CoreInv, ATLOK, NoAssert
<1> QED
  BY <1>1, SysInvariant, PTL

\* A home address holds nothing yet or its own page's pattern (SHRD_host.cpp:392-457).
THEOREM HomeKeepsItsPage == QueueFits /\ GuardedSysSpec => []HomeHoldsOwnPage
<1>1. SysInv => HomeHoldsOwnPage
  BY DEF SysInv, CoreInv
<1> QED
  BY <1>1, SysInvariant, PTL

\* A header counts the pages of its write that are still to come (ATLWrapper.cpp:806-815,
\* 897-907 and 1294-1314).
THEOREM HeadersCountPages == QueueFits /\ GuardedSysSpec => []RemainedIsOutstanding
<1>1. SysInv => RemainedIsOutstanding
  <2> SUFFICES ASSUME SysInv, NEW c \in Core, NEW i \in DOMAIN atl.twrites[c]
               PROVE  LET entry == atl.twrites[c][i]
                      IN  entry.remained =
                              Cardinality({s \in entry.addr_start ..
                                                 entry.addr_start + Len(entry.o_addr) - 1 :
                                              s % NUM_FTL_CORE = c /\ (IsPending(s) \/ IsUnsent(s))})
    BY DEF RemainedIsOutstanding
  <2>1. /\ TypeInv /\ TypeOK /\ QueueOK /\ DataOnce
        /\ HeadersOK(c, atl.twrites[c], Way, Due, Frontier, Rest)
    BY DEF SysInv, HostInv, TypeInv, CallInv, CoreInv, HeadersInv
  <2> DEFINE entry == atl.twrites[c][i]
  <2>2. entry.remained = Cardinality(Remaining(c, ListSpan(entry), Due))
    BY <2>1 DEF HeadersOK, HeadersCount
  <2>3. \A s : IsPending(s) <=> s \in {pending[j].t_addr : j \in Data}
    BY DEF IsPending, Data
  <2>4. \A s \in Int : IsUnsent(s) <=> s \in Unsent
    BY <2>1, UnsentIs
  <2>5. Slots(Due) = {pending[j].t_addr : j \in Data} \cup Unsent
    BY <2>1, DueShape
  <2>6. ListSpan(entry) = entry.addr_start .. entry.addr_start + Len(entry.o_addr) - 1
    BY DEF ListSpan, Span
  <2>7. ListSpan(entry) \subseteq Int
    BY <2>6
  <2> HIDE DEF entry
  <2>8. Remaining(c, ListSpan(entry), Due) =
            {s \in ListSpan(entry) : s % NUM_FTL_CORE = c /\ (IsPending(s) \/ IsUnsent(s))}
    BY <2>3, <2>4, <2>5, <2>7 DEF Remaining, CoreOf
  <2> QED
    BY <2>2, <2>6, <2>8 DEF entry
<1> QED
  BY <1>1, SysInvariant, PTL

-----------------------------------------------------------------------------
(***************************************************************************)
(* What a read of a page gives, and that a step changes it for one page at *)
(* most, to a content of that page.                                        *)
(***************************************************************************)
\* The contents on their way to the log.
Flight == {<<pending[i].t_addr, pending[i].content>> : i \in Data}
            \cup {<<sent[i].t_addr, buff>> : i \in SentData}

\* x is what log slot s holds, or will; and what home address l does.
Logged(s, x, flight, log) == <<s, x>> \in flight \/ (s \notin Slots(flight) /\ x = log[s])
Homed(l, x, way, log, home) ==
    \/ \E j, i : Owns(way, j, i) /\ way[j].pairs[i].o_addr = l /\ x = log[way[j].pairs[i].t_addr]
    \/ (\A j, i : Owns(way, j, i) => way[j].pairs[i].o_addr # l) /\ x = home[l]
Reads(l, x) ==
    IF redirection_map[l] # NoSlot THEN Logged(redirection_map[l], x, Flight, atl.log)
    ELSE Homed(l, x, Way, atl.log, atl.home)

\* A page being sent is still due.
LEMMA SentIsDue ==
    ASSUME TypeInv, QueueOK, SentData # {}
    PROVE  /\ SentData = {1} /\ sent[1].t_addr \in Unsent
           /\ <<sent[1].t_addr, buff.o_addr>> \in Due
<1> DEFINE start == twrite_header.t_addr_start
           n == Len(twrite_header.o_addr)
           s == sent[1].t_addr
<1>1. /\ SentData = {1} /\ pc = "twrite" /\ page > 1 /\ s = TwriteSlot - 1
      /\ buff.o_addr = twrite_header.o_addr[page - 1]
  BY SentPage
<1>2. /\ start \in Nat /\ n \in Nat /\ page \in Nat /\ page <= n + 1
  <2>1. start \in 0 .. LogSize /\ twrite_header.o_addr \in Seq(LPN \cup {RSP_INVALID_LPN})
        /\ page \in 1 .. n + 1
    BY DEF TypeInv, TypeOK
  <2> QED
    BY <2>1, LenProperties, Constants
<1>3. s = (start + page - 1) - 1
  BY <1>1 DEF TwriteSlot
<1>4. s \in Int /\ s - start + 1 = page - 1
  <2> HIDE DEF s, start
  <2> QED
    BY <1>2, <1>3
<1>5. s \in Unsent
  <2>1. IsUnsent(s)
    BY <1>1 DEF IsUnsent
  <2> QED
    BY <1>4, <2>1, UnsentIs DEF TypeInv
<1>6. PageAt(s) = twrite_header.o_addr[page - 1]
  BY <1>4 DEF PageAt
<1>7. <<s, PageAt(s)>> \in Due
  BY <1>5 DEF Due
<1> QED
  BY <1>1, <1>5, <1>6, <1>7

LEMMA FlightShape ==
    ASSUME TypeInv, QueueOK, DataOnce
    PROVE  /\ \A d \in Flight : \E s, x : d = <<s, x>>
           /\ \A s, x : <<s, x>> \in Flight => <<s, x.o_addr>> \in Due /\ s \in Slots(Due)
           /\ Slots(Flight) \subseteq Slots(Due)
           /\ \A s, x, y : <<s, x>> \in Flight /\ <<s, y>> \in Flight => x = y
<1>1. \A d \in Flight : \E s, x : d = <<s, x>>
  BY DEF Flight
<1>2. ASSUME NEW s, NEW x, <<s, x>> \in Flight
      PROVE  \/ \E i \in Data : s = pending[i].t_addr /\ x = pending[i].content
             \/ SentData # {} /\ s = sent[1].t_addr /\ x = buff
  <2>1. CASE \E i \in Data : <<s, x>> = <<pending[i].t_addr, pending[i].content>>
    BY <2>1
  <2>2. CASE \E i \in SentData : <<s, x>> = <<sent[i].t_addr, buff>>
    BY <2>2, SentIsDue
  <2> QED
    BY <1>2, <2>1, <2>2 DEF Flight
<1>3. ASSUME NEW s, NEW x, <<s, x>> \in Flight
      PROVE  <<s, x.o_addr>> \in Due /\ s \in Slots(Due)
  <2>1. <<s, x.o_addr>> \in Due
    BY <1>2, <1>3, SentIsDue, DueShape
  <2> QED
    BY <2>1, InSlots
<1>4. Slots(Flight) \subseteq Slots(Due)
  <2> SUFFICES ASSUME NEW d \in Flight
               PROVE  d[1] \in Slots(Due)
    BY DEF Slots
  <2>1. PICK s, x : d = <<s, x>>
    BY <1>1
  <2>2. d[1] = s
    BY <2>1
  <2> QED
    BY <1>3, <2>1, <2>2
<1>5. ASSUME NEW s, NEW x, NEW y, <<s, x>> \in Flight, <<s, y>> \in Flight
      PROVE  x = y
  <2>1. \A i \in Data : SentData # {} => pending[i].t_addr # sent[1].t_addr
    BY SentIsDue DEF DataOnce
  <2> QED
    BY <1>2, <1>5, <2>1 DEF DataOnce
<1> QED
  BY <1>1, <1>3, <1>4, <1>5

LEMMA LoggedIs ==
    ASSUME TypeInv, QueueOK, DataOnce, NEW s
    PROVE  /\ \A x : Logged(s, x, Flight, atl.log) => LogContent(s) = x
           /\ \E x : Logged(s, x, Flight, atl.log)
<1>1. ASSUME NEW i \in SentData, sent[i].t_addr = s
      PROVE  <<s, buff>> \in Flight /\ LogContent(s) = buff
  BY <1>1 DEF Flight, LogContent
<1>2. ASSUME NEW i \in Data, pending[i].t_addr = s, \A j \in SentData : sent[j].t_addr # s
      PROVE  <<s, pending[i].content>> \in Flight /\ LogContent(s) = pending[i].content
  <2>1. <<s, pending[i].content>> \in Flight
    BY <1>2 DEF Flight
  <2>2. i \in DOMAIN pending /\ pending[i].cmd = "data" /\ IsPending(s)
    BY <1>2 DEF Data, IsPending
  <2> DEFINE C == {pending[j] : j \in DOMAIN pending}
             P(call) == call.cmd = "data" /\ call.t_addr = s
  <2>3. \A call \in C : P(call) => call = pending[i]
    BY <1>2 DEF Data, DataOnce
  <2>4. pending[i] \in C /\ P(pending[i])
    BY <1>2, <2>2
  <2>5. LogContent(s) = (CHOOSE call \in C : P(call)).content
    BY <1>2, <2>2 DEF LogContent
  <2> HIDE DEF C
  <2>6. (CHOOSE call \in C : P(call)) = pending[i]
    BY <2>3, <2>4
  <2> QED
    BY <2>1, <2>5, <2>6
<1>3. ASSUME \A j \in SentData : sent[j].t_addr # s, \A i \in Data : pending[i].t_addr # s
      PROVE  s \notin Slots(Flight) /\ LogContent(s) = atl.log[s]
  <2>1. s \notin Slots(Flight)
    BY <1>3 DEF Slots, Flight
  <2>2. ~IsPending(s)
    BY <1>3 DEF IsPending, Data
  <2> QED
    BY <1>3, <2>1, <2>2 DEF LogContent
<1>4. PICK y : Logged(s, y, Flight, atl.log) /\ LogContent(s) = y
               /\ (<<s, y>> \in Flight \/ s \notin Slots(Flight))
  BY <1>1, <1>2, <1>3 DEF Logged
<1>5. ASSUME NEW x, Logged(s, x, Flight, atl.log)
      PROVE  x = y
  <2>1. <<s, x>> \in Flight => s \in Slots(Flight)
    BY InSlots
  <2>2. <<s, x>> \in Flight /\ <<s, y>> \in Flight => x = y
    BY FlightShape
  <2>3. <<s, y>> \in Flight => s \in Slots(Flight)
    BY InSlots
  <2> QED
    BY <1>4, <1>5, <2>1, <2>2, <2>3 DEF Logged
<1> QED
  BY <1>4, <1>5

\* The remaps under way, by their calls.
LEMMA RemapsOnWay ==
    ASSUME QueueOK
    PROVE  /\ \A j, i : Owns(Way, j, i) => Way[j].pairs[i] \in PendingRemaps
           /\ \A p \in PendingRemaps : \E j, i : Owns(Way, j, i) /\ Way[j].pairs[i] = p
<1> DEFINE A == {pending[i] : i \in DOMAIN pending} \cup {sent[i] : i \in DOMAIN sent}
<1>1. \A j \in DOMAIN Way : Way[j] \in A
  <2> SUFFICES ASSUME NEW j \in DOMAIN Way
               PROVE  Way[j] \in A
    OBVIOUS
  <2>1. CASE j \in DOMAIN pending
    BY <2>1, WayShape
  <2>2. CASE j - Len(pending) \in DOMAIN sent
    <3> DEFINE m == j - Len(pending)
    <3>1. Len(pending) \in Nat /\ DOMAIN Way = 1 .. Len(pending) + Len(sent) /\ Len(sent) \in Nat
      BY WayShape, QueueShape
    <3>2. Len(pending) + m = j
      BY <3>1
    <3> HIDE DEF m
    <3>3. m \in DOMAIN sent
      BY <2>2 DEF m
    <3>4. Way[j] = sent[m]
      BY <3>2, <3>3, WayShape
    <3> QED
      BY <3>3, <3>4
  <2> QED
    BY <2>1, <2>2, WayShape
<1>2. \A call \in A : \E j \in DOMAIN Way : Way[j] = call
  BY WayShape
<1> HIDE DEF A
<1>3. PendingRemaps = UNION {Owned(call) : call \in {c \in A : c.cmd = "remap"}}
  BY DEF PendingRemaps, A
<1>4. \A call : Owned(call) = {call.pairs[i] : i \in {i \in DOMAIN call.pairs : OwnPair(call, i)}}
  BY DEF Owned, OwnPair, CoreOf
<1>5. ASSUME NEW j, NEW i, Owns(Way, j, i)
      PROVE  Way[j].pairs[i] \in PendingRemaps
  <2>1. Way[j] \in A /\ Way[j].cmd = "remap" /\ OwnPair(Way[j], i) /\ i \in DOMAIN Way[j].pairs
    BY <1>1, <1>5 DEF Owns, OwnPair
  <2>2. Way[j].pairs[i] \in Owned(Way[j])
    BY <1>4, <2>1
  <2> QED
    BY <1>3, <2>1, <2>2
<1>6. ASSUME NEW p \in PendingRemaps
      PROVE  \E j, i : Owns(Way, j, i) /\ Way[j].pairs[i] = p
  <2>1. PICK call \in A : call.cmd = "remap" /\ p \in Owned(call)
    BY <1>3
  <2>2. PICK i \in DOMAIN call.pairs : OwnPair(call, i) /\ p = call.pairs[i]
    BY <1>4, <2>1
  <2>3. PICK j \in DOMAIN Way : Way[j] = call
    BY <1>2
  <2> QED
    BY <2>1, <2>2, <2>3 DEF Owns
<1> QED
  BY <1>5, <1>6

LEMMA HomedIs ==
    ASSUME QueueOK, RemapsApart(Way), NEW l, redirection_map[l] = NoSlot
    PROVE  /\ \A x : Homed(l, x, Way, atl.log, atl.home) => Newest(l) = x
           /\ \E x : Homed(l, x, Way, atl.log, atl.home)
<1>1. ASSUME NEW j, NEW i, Owns(Way, j, i), Way[j].pairs[i].o_addr = l
      PROVE  Newest(l) = atl.log[Way[j].pairs[i].t_addr]
  <2> DEFINE p == Way[j].pairs[i]
             P(pair) == pair.o_addr = l
  <2>1. p \in PendingRemaps /\ P(p)
    BY <1>1, RemapsOnWay
  <2>2. \A pair \in PendingRemaps : P(pair) => pair = p
    <3> SUFFICES ASSUME NEW pair \in PendingRemaps, P(pair)
                 PROVE  pair = p
      OBVIOUS
    <3>1. PICK k, m : Owns(Way, k, m) /\ Way[k].pairs[m] = pair
      BY RemapsOnWay
    <3>2. ~(j # k \/ i # m)
      BY <1>1, <3>1 DEF RemapsApart
    <3> QED
      BY <3>1, <3>2
  <2>3. Newest(l) = atl.log[(CHOOSE pair \in PendingRemaps : P(pair)).t_addr]
    BY <2>1 DEF Newest
  <2> HIDE DEF p
  <2>4. (CHOOSE pair \in PendingRemaps : P(pair)) = p
    BY <2>1, <2>2
  <2> QED
    BY <2>3, <2>4 DEF p
<1>2. ASSUME \A j, i : Owns(Way, j, i) => Way[j].pairs[i].o_addr # l
      PROVE  Newest(l) = atl.home[l]
  <2>1. \A pair \in PendingRemaps : pair.o_addr # l
    BY <1>2, RemapsOnWay
  <2> QED
    BY <2>1 DEF Newest
<1>3. \E x : Homed(l, x, Way, atl.log, atl.home)
  BY DEF Homed
<1> QED
  BY <1>1, <1>2, <1>3 DEF Homed

\* What a page reads is its newest copy.
ReadsNewest == \A l \in LPN : \A x : Reads(l, x) => Newest(l) = x

LEMMA ReadsTheNewest == SysInv => ReadsNewest
<1> SUFFICES ASSUME SysInv, NEW l \in LPN, NEW x, Reads(l, x)
             PROVE  Newest(l) = x
  BY DEF ReadsNewest
<1>1. TypeInv /\ QueueOK /\ DataOnce /\ RemapsApart(Way)
  BY DEF SysInv, HostInv, CallInv, CoreInv, RemapsInv
<1>2. CASE redirection_map[l] # NoSlot
  <2>1. Logged(redirection_map[l], x, Flight, atl.log)
    BY <1>2 DEF Reads
  <2>2. LogContent(redirection_map[l]) = x
    BY <1>1, <2>1, LoggedIs
  <2> QED
    BY <1>2, <2>2 DEF Newest
<1>3. CASE redirection_map[l] = NoSlot
  BY <1>1, <1>3, HomedIs DEF Reads
<1> QED
  BY <1>2, <1>3

LEMMA ReadsTheNewestNext == SysInv' => ReadsNewest'
BY ReadsTheNewest, PTL

LEMMA EachReads ==
    ASSUME SysInv, NEW l \in LPN
    PROVE  \E x : Reads(l, x)
<1>1. TypeInv /\ QueueOK /\ DataOnce /\ RemapsApart(Way)
  BY DEF SysInv, HostInv, CallInv, CoreInv, RemapsInv
<1>2. CASE redirection_map[l] # NoSlot
  BY <1>1, <1>2, LoggedIs DEF Reads
<1>3. CASE redirection_map[l] = NoSlot
  BY <1>1, <1>3, HomedIs DEF Reads
<1> QED
  BY <1>2, <1>3

\* The same remaps are under way, and their slots hold what they held.
Carries(way2, way, log2, log) ==
    /\ \A j, i : Owns(way, j, i) =>
           \E m : /\ Owns(way2, m, i) /\ way2[m] = way[j]
                  /\ log2[way[j].pairs[i].t_addr] = log[way[j].pairs[i].t_addr]
    /\ \A j, i : Owns(way2, j, i) => \E m : Owns(way, m, i) /\ way[m] = way2[j]

LEMMA HomedCarried ==
    ASSUME NEW way, NEW way2, NEW log, NEW log2, Carries(way2, way, log2, log),
           NEW l, NEW home, NEW home2, home2[l] = home[l],
           NEW x, Homed(l, x, way, log, home)
    PROVE  Homed(l, x, way2, log2, home2)
<1>1. CASE \E j, i : Owns(way, j, i) /\ way[j].pairs[i].o_addr = l
                     /\ x = log[way[j].pairs[i].t_addr]
  <2>1. PICK j, i : Owns(way, j, i) /\ way[j].pairs[i].o_addr = l
                    /\ x = log[way[j].pairs[i].t_addr]
    BY <1>1
  <2>2. PICK m : /\ Owns(way2, m, i) /\ way2[m] = way[j]
                 /\ log2[way[j].pairs[i].t_addr] = log[way[j].pairs[i].t_addr]
    BY <2>1 DEF Carries
  <2> QED
    BY <2>1, <2>2 DEF Homed
<1>2. CASE (\A j, i : Owns(way, j, i) => way[j].pairs[i].o_addr # l) /\ x = home[l]
  <2>1. \A j, i : Owns(way2, j, i) => way2[j].pairs[i].o_addr # l
    <3> SUFFICES ASSUME NEW j, NEW i, Owns(way2, j, i)
                 PROVE  way2[j].pairs[i].o_addr # l
      OBVIOUS
    <3>1. PICK m : Owns(way, m, i) /\ way[m] = way2[j]
      BY DEF Carries
    <3> QED
      BY <1>2, <3>1
  <2> QED
    BY <1>2, <2>1 DEF Homed
<1> QED
  BY <1>1, <1>2 DEF Homed

\* What leaves a page's reads as they are.
LEMMA StillReads ==
    ASSUME NEW l, NEW x, Reads(l, x), redirection_map'[l] = redirection_map[l],
           redirection_map[l] # NoSlot =>
               (Logged(redirection_map[l], x, Flight, atl.log)
                   => Logged(redirection_map[l], x, Flight', atl'.log)),
           Carries(Way', Way, atl'.log, atl.log), atl'.home[l] = atl.home[l]
    PROVE  Reads(l, x)'
<1>1. CASE redirection_map[l] # NoSlot
  BY <1>1 DEF Reads
<1>2. CASE redirection_map[l] = NoSlot
  <2>1. Homed(l, x, Way, atl.log, atl.home)
    BY <1>2 DEF Reads
  <2> DEFINE way2 == Way'
             log2 == atl'.log
             home2 == atl'.home
             log == atl.log
             home == atl.home
  <2>2. Carries(way2, Way, log2, log) /\ home2[l] = home[l] /\ Homed(l, x, Way, log, home)
    BY <2>1
  <2> HIDE DEF way2, log2, home2, log, home
  <2>3. Homed(l, x, way2, log2, home2)
    BY <2>2, HomedCarried
  <2>4. redirection_map'[l] = NoSlot
    BY <1>2
  <2> QED
    BY <2>3, <2>4 DEF Reads, way2, log2, home2
<1> QED
  BY <1>1, <1>2

\* The host's calls that are no remaps.
LEMMA HostCarries ==
    ASSUME QueueOK, Host, NEW S, sent' \in Seq(S),
           \A i \in DOMAIN sent' : sent'[i].cmd # "remap"
    PROVE  Carries(Way', Way, atl'.log, atl.log) /\ atl' = atl
<1>1. sent = <<>> /\ pending' = pending /\ atl' = atl
  BY DEF Host
<1>2. /\ Len(pending) \in Nat /\ DOMAIN Way = 1 .. Len(pending)
      /\ Len(sent') \in Nat /\ DOMAIN sent' = 1 .. Len(sent')
      /\ DOMAIN Way' = 1 .. Len(pending) + Len(sent')
      /\ \A j \in DOMAIN Way : Way'[j] = Way[j]
      /\ \A i \in DOMAIN sent' : Way'[Len(pending) + i] = sent'[i]
  BY <1>1, SentWay
<1>3. \A j \in DOMAIN Way' : j \in DOMAIN Way \/ Way'[j].cmd # "remap"
  <2> SUFFICES ASSUME NEW j \in DOMAIN Way', j \notin DOMAIN Way
               PROVE  Way'[j].cmd # "remap"
    OBVIOUS
  <2> DEFINE i == j - Len(pending)
  <2>1. i \in DOMAIN sent' /\ Len(pending) + i = j
    BY <1>2
  <2> HIDE DEF i
  <2> QED
    BY <1>2, <2>1
<1>4. DOMAIN Way \subseteq DOMAIN Way'
  BY <1>2
<1> DEFINE way2 == Way'
<1>5. \A j, i : Owns(way2, j, i) <=> Owns(Way, j, i)
  BY <1>2, <1>3, <1>4 DEF Owns
<1>6. \A j, i : Owns(Way, j, i) => way2[j] = Way[j]
  BY <1>2 DEF Owns
<1> HIDE DEF way2
<1>7. Carries(way2, Way, atl.log, atl.log)
  BY <1>5, <1>6 DEF Carries
<1> QED
  BY <1>1, <1>7 DEF way2

LEMMA HostFlight ==
    ASSUME Host
    PROVE  Flight' = Flight \cup {<<sent'[i].t_addr, buff'>> : i \in SentData'}
<1>1. sent = <<>> /\ pending' = pending /\ Data' = Data /\ SentData = {}
  BY DEF Host, Data, SentData
<1> QED
  BY <1>1 DEF Flight

\* The host's steps that send no data and forget nothing.
LEMMA QuietReads ==
    ASSUME SysInv, Host, NEW S, sent' \in Seq(S),
           \A i \in DOMAIN sent' : sent'[i].cmd = "header",
           redirection_map' = redirection_map, NEW l, NEW x, Reads(l, x)
    PROVE  Reads(l, x)'
<1>1. QueueOK
  BY DEF SysInv, CallInv
<1>2. Carries(Way', Way, atl'.log, atl.log) /\ atl' = atl
  BY <1>1, HostCarries
<1>3. Flight' = Flight
  <2>1. SentData' = {}
    BY DEF SentData
  <2> QED
    BY <2>1, HostFlight
<1> QED
  BY <1>2, <1>3, StillReads

LEMMA BegunReads ==
    ASSUME SysInv, Host, BeginTwrite, NEW l, NEW x, Reads(l, x)
    PROVE  Reads(l, x)'
<1>1. TypeInv /\ QueueOK
  BY DEF SysInv, HostInv, CallInv
<1>2. PICK o_addr : Begins(TwriteAddr, o_addr)
  BY <1>1, BeginTwriteIs
<1>3. sent = <<>> /\ UNCHANGED pending
  BY DEF Host
<1> DEFINE addr == TwriteAddr
<1>4. Begins(addr, o_addr)
  BY <1>2
<1> HIDE DEF addr
<1>5. sent' \in Seq(HeaderCalls)
  BY <1>1, <1>3, <1>4, BegunCalls
<1>6. \A i \in DOMAIN sent' : sent'[i].cmd = "header"
  BY <1>5, LenProperties, CallKinds
<1>7. redirection_map' = redirection_map
  BY <1>4 DEF Begins
<1> QED
  BY <1>5, <1>6, <1>7, QuietReads

LEMMA SilentReads ==
    ASSUME SysInv, Host, NEW l, NEW x, Reads(l, x),
           \/ EndTwrite \/ Refused \/ RemapNothing
           \/ BeginRemap \/ RemapCollect
    PROVE  Reads(l, x)'
<1>1. sent' = <<>> /\ redirection_map' = redirection_map
  BY DEF EndTwrite, Refused, RemapRefused, ResumeRefused, RemapNothing, BeginRemap, RemapCollect
<1>2. sent' \in Seq({}) /\ \A i \in DOMAIN sent' : sent'[i].cmd = "header"
  BY <1>1
<1> QED
  BY <1>1, <1>2, QuietReads

\* A page on its way to one slot is no matter of another.
LEMMA LoggedBeside ==
    ASSUME NEW s, NEW x, NEW flight, NEW log, NEW t, NEW y, s # t
    PROVE  Logged(s, x, flight, log) <=> Logged(s, x, flight \cup {<<t, y>>}, log)
<1>1. <<s, x>> # <<t, y>>
  OBVIOUS
<1>2. s \in Slots(flight \cup {<<t, y>>}) <=> s \in Slots(flight)
  <2>1. <<t, y>>[1] = t
    OBVIOUS
  <2>2. \A d : d \in flight \cup {<<t, y>>} /\ d[1] = s => d \in flight
    BY <2>1
  <2> QED
    BY <2>2 DEF Slots
<1> QED
  BY <1>1, <1>2 DEF Logged

\* No page is redirected to the slot that the next page goes to.
LEMMA NothingAtSlot ==
    ASSUME SysInv, PageGoes, NEW l \in LPN, redirection_map[l] # NoSlot
    PROVE  redirection_map[l] # TwriteSlot
<1>1. TypeInv /\ TypeOK /\ WindowInv /\ LogInv /\ LeadsToPage
  BY DEF SysInv, HostInv, TypeInv
<1>2. TwriteSlot \in Slot /\ ~IsValid(TwriteSlot)
  BY <1>1, SlotIsFree DEF PageGoes
<1>3. remap_entry = <<>>
  BY <1>1 DEF PageGoes, LogInv, PendingInRemap
<1>4. map_entries[TwriteSlot].flags # "REMAPPING"
  BY <1>1, <1>2, <1>3 DEF LogInv, RemappingIsPending
<1>5. map_entries[redirection_map[l]].flags \in {"VALID", "REMAPPING"}
  BY <1>1, LeadsToOwnEntry
<1> QED
  BY <1>2, <1>4, <1>5 DEF IsValid

LEMMA PageSent ==
    ASSUME SysInv, Host, WritePadding \/ WritePage
    PROVE  /\ PageGoes
           /\ Carries(Way', Way, atl'.log, atl.log) /\ atl' = atl
           /\ Flight' = Flight \cup {<<TwriteSlot, buff'>>}
<1>1. TypeInv /\ QueueOK
  BY DEF SysInv, HostInv, CallInv
<1>2. PageGoes /\ SentData' = {1}
  BY PageGoesIs
<1>3. DataCmd \in HostData
  BY <1>1, <1>2, PageDue
<1>4. sent' = <<DataCmd>> /\ DataCmd.cmd = "data" /\ DataCmd.t_addr = TwriteSlot
  BY <1>2 DEF PageGoes, DataCmd
<1>5. /\ sent' \in Seq(HostData) /\ sent'[1].t_addr = TwriteSlot
      /\ \A i \in DOMAIN sent' : sent'[i].cmd # "remap"
  <2> DEFINE a == DataCmd
  <2>1. sent' = <<a>> /\ a.cmd = "data" /\ a.t_addr = TwriteSlot /\ a \in HostData
    BY <1>3, <1>4
  <2> HIDE DEF a
  <2> QED
    BY <2>1
<1>6. Carries(Way', Way, atl'.log, atl.log) /\ atl' = atl
  BY <1>1, <1>5, HostCarries
<1>7. Flight' = Flight \cup {<<TwriteSlot, buff'>>}
  BY <1>2, <1>5, HostFlight
<1> QED
  BY <1>2, <1>6, <1>7

LEMMA PageReads ==
    ASSUME SysInv, Host, WritePadding \/ WritePage, NEW l \in LPN, NEW x, Reads(l, x),
           redirection_map'[l] = redirection_map[l]
    PROVE  Reads(l, x)'
<1>1. /\ PageGoes
      /\ Carries(Way', Way, atl'.log, atl.log) /\ atl' = atl
      /\ Flight' = Flight \cup {<<TwriteSlot, buff'>>}
  BY PageSent
<1>2. ASSUME redirection_map[l] # NoSlot, Logged(redirection_map[l], x, Flight, atl.log)
      PROVE  Logged(redirection_map[l], x, Flight', atl'.log)
  <2>1. redirection_map[l] # TwriteSlot
    BY <1>1, <1>2, NothingAtSlot
  <2> QED
    BY <1>1, <1>2, <2>1, LoggedBeside
<1> QED
  BY <1>1, <1>2, StillReads

\* The page being written reads what is sent.
LEMMA WrittenReads ==
    ASSUME SysInv, Host, WritePage
    PROVE  /\ TwriteOAddr \in LPN /\ buff' \in Content(TwriteOAddr)
           /\ \A l \in LPN \ {TwriteOAddr} : redirection_map'[l] = redirection_map[l]
           /\ \A l, x : l = TwriteOAddr /\ x = buff' => Reads(l, x)'
<1>1. TypeInv /\ TypeOK /\ QueueOK
  BY DEF SysInv, HostInv, CallInv, TypeInv
<1>2. /\ PageGoes /\ SentData' = {1}
      /\ Flight' = Flight \cup {<<TwriteSlot, buff'>>}
  BY PageSent, PageGoesIs
<1>3. TwriteSlot \in Slot /\ DataCmd \in HostData /\ TwriteSlot # NoSlot
  BY <1>1, <1>2, PageDue DEF Slot, NoSlot
<1>4. TwriteOAddr \in LPN
  <2>1. DataCmd.o_addr = TwriteOAddr
    BY DEF DataCmd
  <2>2. TwriteOAddr \in Pages /\ TwriteOAddr # RSP_INVALID_LPN
    BY <1>3, <2>1, CallKinds DEF WritePage
  <2> QED
    BY <2>2 DEF Pages
<1>5. buff' \in Content(TwriteOAddr)
  BY <1>2 DEF PageGoes, WritePage
<1>6. \A k \in LPN : redirection_map'[k] = IF k = TwriteOAddr THEN TwriteSlot ELSE redirection_map[k]
  BY <1>1, <1>3, <1>4, RedirectIs DEF WritePage
<1>7. ASSUME NEW l, l = TwriteOAddr, NEW x, x = buff'
      PROVE  Reads(l, x)'
  <2>1. redirection_map'[l] = TwriteSlot /\ redirection_map'[l] # NoSlot
    BY <1>3, <1>4, <1>6, <1>7
  <2>2. <<redirection_map'[l], x>> \in Flight'
    BY <1>2, <1>7, <2>1
  <2>3. Logged(redirection_map'[l], x, Flight', atl'.log)
    BY <2>2 DEF Logged
  <2> QED
    BY <2>1, <2>3 DEF Reads
<1> QED
  BY <1>4, <1>5, <1>6, <1>7

\* A remap that is sent stands for the log copies it takes, and for no other page.
LEMMA HomedBySent ==
    ASSUME NEW way, NEW way2, NEW m, NEW pairs, Sends(way2, way, m, pairs),
           NEW i \in DOMAIN pairs, CoreOf(pairs[i].t_addr) \in Core,
           NEW l, l = pairs[i].o_addr, NEW log, NEW x, x = log[pairs[i].t_addr], NEW home
    PROVE  Homed(l, x, way2, log, home)
<1>1. PICK c \in Core : c = CoreOf(pairs[i].t_addr)
  OBVIOUS
<1>2. m[c] \in DOMAIN way2
  BY DEF Sends, Core, NUM_FTL_CORE
<1>3. way2[m[c]].cmd = "remap" /\ way2[m[c]].core = c /\ way2[m[c]].pairs = pairs
  BY DEF Sends
<1>4. Owns(way2, m[c], i)
  BY <1>1, <1>2, <1>3 DEF Owns, OwnPair
<1> QED
  BY <1>3, <1>4 DEF Homed

LEMMA HomedDespiteSent ==
    ASSUME NEW way, NEW way2, NEW m, NEW pairs, Sends(way2, way, m, pairs),
           NEW l, \A i \in DOMAIN pairs : pairs[i].o_addr # l,
           NEW log, NEW home, NEW x, Homed(l, x, way, log, home)
    PROVE  Homed(l, x, way2, log, home)
<1>1. CASE \E j, i : Owns(way, j, i) /\ way[j].pairs[i].o_addr = l
                     /\ x = log[way[j].pairs[i].t_addr]
  <2>1. PICK j, i : Owns(way, j, i) /\ way[j].pairs[i].o_addr = l
                    /\ x = log[way[j].pairs[i].t_addr]
    BY <1>1
  <2>2. way2[j] = way[j] /\ j \in DOMAIN way2
    BY <2>1 DEF Sends, Owns
  <2>3. Owns(way2, j, i)
    BY <2>1, <2>2 DEF Owns
  <2> QED
    BY <2>1, <2>2, <2>3 DEF Homed
<1>2. CASE (\A j, i : Owns(way, j, i) => way[j].pairs[i].o_addr # l) /\ x = home[l]
  <2>1. ASSUME NEW j, NEW i, Owns(way2, j, i)
        PROVE  way2[j].pairs[i].o_addr # l
    <3>1. \/ Owns(way, j, i) /\ way2[j] = way[j]
          \/ i \in DOMAIN pairs /\ way2[j].pairs = pairs
      BY <2>1, SentRemaps
    <3> QED
      BY <1>2, <3>1
  <2> QED
    BY <1>2, <2>1 DEF Homed
<1> QED
  BY <1>1, <1>2 DEF Homed

LEMMA RemapSent ==
    ASSUME SysInv, Host, RemapSendFull \/ RemapSendLast
    PROVE  /\ Sends(Way', Way, [c \in Core |-> Len(pending) + 1 + c], remap_entry)
           /\ Flight' = Flight /\ atl' = atl
           /\ \A l \in LPN : redirection_map'[l] =
                  IF \E i \in DOMAIN remap_entry : remap_entry[i].o_addr = l
                  THEN NoSlot ELSE redirection_map[l]
<1>1. SendRemap /\ SentData' = {} /\ atl' = atl
  BY RemapStart
<1>2. Flight' = Flight
  BY <1>1, HostFlight
<1> QED
  BY <1>1, <1>2, RemapWay DEF SendRemap

\* A page of the command under construction reads its log copy.
LEMMA CommandReads ==
    ASSUME SysInv, NEW i \in DOMAIN remap_entry, NEW l, l = remap_entry[i].o_addr,
           NEW x, Reads(l, x)
    PROVE  CoreOf(remap_entry[i].t_addr) \in Core /\ x = atl.log[remap_entry[i].t_addr]
<1> DEFINE t == remap_entry[i].t_addr
<1>1. TypeInv /\ TypeOK /\ QueueOK /\ DataOnce /\ LogInv /\ CommandHolds
  BY DEF SysInv, HostInv, CallInv, CoreInv, TypeInv
<1>2. redirection_map[l] = t
  BY <1>1 DEF LogInv, PendingEntries
<1>3. t \in Slot
  <2>1. remap_entry \in Seq([t_addr : Slot, o_addr : LPN])
    BY <1>1 DEF TypeOK
  <2>2. remap_entry[i] \in [t_addr : Slot, o_addr : LPN]
    BY <2>1, LenProperties
  <2> QED
    BY <2>2
<1>4. t # NoSlot /\ CoreOf(t) \in Core
  BY <1>3, Constants DEF Slot, NoSlot, CoreOf, Core, NUM_FTL_CORE
<1>5. t \notin Slots(Due)
  BY <1>1 DEF CommandHolds
<1> HIDE DEF t
<1>6. Logged(t, x, Flight, atl.log)
  BY <1>2, <1>4 DEF Reads
<1>7. t \notin Slots(Flight)
  BY <1>1, <1>5, FlightShape
<1>8. <<t, x>> \notin Flight
  BY <1>7, InSlots
<1>9. x = atl.log[t]
  BY <1>6, <1>8 DEF Logged
<1> QED
  BY <1>4, <1>9 DEF t

LEMMA RemapSentReads ==
    ASSUME SysInv, Host, RemapSendFull \/ RemapSendLast, NEW l \in LPN, NEW x, Reads(l, x)
    PROVE  Reads(l, x)'
<1> DEFINE m == [c \in Core |-> Len(pending) + 1 + c]
           way2 == Way'
           pairs == remap_entry
           log == atl.log
           home == atl.home
<1>1. /\ Sends(way2, Way, m, pairs) /\ Flight' = Flight /\ atl' = atl
      /\ redirection_map'[l] = IF \E i \in DOMAIN pairs : pairs[i].o_addr = l
                               THEN NoSlot ELSE redirection_map[l]
  BY RemapSent
<1>2. \A i \in DOMAIN pairs : pairs[i].o_addr = l =>
          CoreOf(pairs[i].t_addr) \in Core /\ x = log[pairs[i].t_addr]
  BY CommandReads
<1>3. redirection_map[l] = NoSlot => Homed(l, x, Way, log, home)
  BY DEF Reads
<1> HIDE DEF m, way2, pairs, log, home
<1>4. CASE \E i \in DOMAIN pairs : pairs[i].o_addr = l
  <2>1. PICK i \in DOMAIN pairs : pairs[i].o_addr = l
    BY <1>4
  <2>2. Homed(l, x, way2, log, home)
    BY <1>1, <1>2, <2>1, HomedBySent
  <2> QED
    BY <1>1, <1>4, <2>2 DEF Reads, way2, log, home
<1>5. CASE \A i \in DOMAIN pairs : pairs[i].o_addr # l
  <2>1. redirection_map'[l] = redirection_map[l]
    BY <1>1, <1>5
  <2>2. CASE redirection_map[l] # NoSlot
    BY <1>1, <2>1, <2>2 DEF Reads
  <2>3. CASE redirection_map[l] = NoSlot
    <3>1. Homed(l, x, way2, log, home)
      BY <1>1, <1>3, <1>5, <2>3, HomedDespiteSent
    <3> QED
      BY <1>1, <2>1, <2>3, <3>1 DEF Reads, way2, log, home
  <2> QED
    BY <2>2, <2>3
<1> QED
  BY <1>4, <1>5

LEMMA QueuedFlight ==
    ASSUME TypeInv, QueueOK, HIL_WriteLPN
    PROVE  Flight' = Flight
<1>1. CASE SentData = {}
  <2>1. /\ Data' = Data /\ SentData' = {} /\ \A i \in Data : pending'[i] = pending[i]
    BY <1>1, QueuedCommand
  <2> QED
    BY <1>1, <2>1 DEF Flight
<1>2. CASE SentData # {}
  <2> DEFINE n == Len(pending) + 1
             t == sent[1].t_addr
  <2>1. /\ Data' = Data \cup {n} /\ n \notin Data /\ SentData' = {}
        /\ \A i \in Data : pending'[i] = pending[i]
    BY <1>2, QueuedPage
  <2>2. SentData = {1}
    BY <1>2, SentPage
  <2>3. pending'[n].t_addr = t /\ pending'[n].content = buff
    BY <1>2, QueuedShape, QueuedIs DEF HIL_WriteLPN
  <2> HIDE DEF n, t
  <2>4. Flight = {<<pending[i].t_addr, pending[i].content>> : i \in Data} \cup {<<t, buff>>}
    BY <2>2 DEF Flight, t
  <2>5. Flight' = {<<pending'[i].t_addr, pending'[i].content>> : i \in Data'}
    BY <2>1 DEF Flight
  <2> QED
    BY <2>1, <2>3, <2>4, <2>5
<1> QED
  BY <1>1, <1>2

LEMMA QueuedReads ==
    ASSUME SysInv, HIL_WriteLPN, NEW l, NEW x, Reads(l, x)
    PROVE  Reads(l, x)'
<1>1. TypeInv /\ QueueOK
  BY DEF SysInv, HostInv, CallInv
<1>2. Flight' = Flight
  BY <1>1, QueuedFlight
<1>3. atl' = atl /\ redirection_map' = redirection_map
  BY HostKeeps
<1> DEFINE way2 == Way'
<1>4. /\ DOMAIN way2 = DOMAIN Way
      /\ \A j \in DOMAIN Way : \/ way2[j] = Way[j]
                               \/ way2[j].cmd = "data" /\ Way[j].cmd = "data"
  BY <1>1, QueuedWay
<1> HIDE DEF way2
<1>5. \A j, i : Owns(way2, j, i) <=> Owns(Way, j, i)
  BY <1>4 DEF Owns
<1>6. \A j, i : Owns(Way, j, i) => way2[j] = Way[j]
  BY <1>4 DEF Owns
<1>7. Carries(way2, Way, atl.log, atl.log)
  BY <1>5, <1>6 DEF Carries
<1>8. Carries(Way', Way, atl'.log, atl.log)
  BY <1>3, <1>7 DEF way2
<1> QED
  BY <1>2, <1>3, <1>8, StillReads

\* A core serves a call that is no remap: those under way stay.
LEMMA ServedCarries ==
    ASSUME QueueOK, NEW k, Serves(k), pending[k].cmd # "remap",
           \A j, i : Owns(Way, j, i) =>
               atl'.log[Way[j].pairs[i].t_addr] = atl.log[Way[j].pairs[i].t_addr]
    PROVE  Carries(Way', Way, atl'.log, atl.log)
<1> DEFINE way2 == Way'
           log2 == atl'.log
           log == atl.log
<1>1. Way[k] = pending[k]
  BY ServedWay
<1>2. PICK e : Embeds(way2, Way, e, k)
  BY ServedWay
<1>3. \A j, i : Owns(Way, j, i) => log2[Way[j].pairs[i].t_addr] = log[Way[j].pairs[i].t_addr]
  OBVIOUS
<1>4. \A j, i : Owns(Way, j, i) => j # k
  BY <1>1 DEF Owns
<1> HIDE DEF way2, log2, log
<1>5. /\ \A j, i : Owns(way2, j, i) => Owns(Way, e[j], i) /\ e[j] # k /\ way2[j] = Way[e[j]]
      /\ \A j, i : Owns(Way, j, i) /\ j # k =>
             \E m : Owns(way2, m, i) /\ e[m] = j /\ way2[m] = Way[j]
  BY <1>2, EmbeddedRemaps
<1>6. Carries(way2, Way, log2, log)
  BY <1>3, <1>4, <1>5 DEF Carries
<1> QED
  BY <1>6 DEF way2, log2, log

\* What a core serves leaves the flight: its page, if it is one.
LEMMA ServedFlight ==
    ASSUME TypeInv, QueueOK, DataOnce, NEW k, Serves(k)
    PROVE  /\ pending[k].cmd # "data" => Flight' = Flight
           /\ pending[k].cmd = "data" =>
                /\ <<pending[k].t_addr, pending[k].content>> \in Flight
                /\ Flight' = Flight \ {<<pending[k].t_addr, pending[k].content>>}
<1>1. sent' = sent /\ buff' = buff /\ SentData' = SentData
  BY ServedHost
<1>2. /\ \A i \in DOMAIN pending' :
             /\ Before(k, i) \in DOMAIN pending /\ Before(k, i) # k
             /\ pending'[i] = pending[Before(k, i)]
      /\ \A i \in DOMAIN pending \ {k} : \E j \in DOMAIN pending' : Before(k, j) = i
  BY BeforeIs
<1> DEFINE pending2 == pending'
           Data2 == Data'
<1>3. Data2 = {i \in DOMAIN pending2 : pending2[i].cmd = "data"}
  BY DEF Data
<1>4. /\ \A i \in DOMAIN pending2 :
             /\ Before(k, i) \in DOMAIN pending /\ Before(k, i) # k
             /\ pending2[i] = pending[Before(k, i)]
      /\ \A i \in DOMAIN pending \ {k} : \E j \in DOMAIN pending2 : Before(k, j) = i
  BY <1>2
<1>5. Flight' = {<<pending2[i].t_addr, pending2[i].content>> : i \in Data2}
                    \cup {<<sent[i].t_addr, buff>> : i \in SentData}
  BY <1>1 DEF Flight
<1> HIDE DEF pending2, Data2
<1>6. {<<pending2[i].t_addr, pending2[i].content>> : i \in Data2} =
          {<<pending[i].t_addr, pending[i].content>> : i \in Data \ {k}}
  <2>1. \A i \in Data2 : Before(k, i) \in Data \ {k} /\ pending2[i] = pending[Before(k, i)]
    BY <1>3, <1>4 DEF Data
  <2>2. \A i \in Data \ {k} : \E j \in Data2 : pending2[j] = pending[i]
    BY <1>3, <1>4 DEF Data
  <2> QED
    BY <2>1, <2>2
<1>7. ASSUME pending[k].cmd # "data"
      PROVE  Flight' = Flight
  <2>1. Data \ {k} = Data
    BY <1>7 DEF Data
  <2> QED
    BY <1>5, <1>6, <2>1 DEF Flight
<1>8. ASSUME pending[k].cmd = "data"
      PROVE  /\ <<pending[k].t_addr, pending[k].content>> \in Flight
             /\ Flight' = Flight \ {<<pending[k].t_addr, pending[k].content>>}
  <2> DEFINE s == pending[k].t_addr
  <2>1. k \in Data
    BY <1>8 DEF Data, Serves
  <2>2. s \notin Unsent /\ \A i \in Data \ {k} : pending[i].t_addr # s
    BY <2>1 DEF DataOnce
  <2>3. \A i \in SentData : sent[i].t_addr # s
    BY <2>2, SentIsDue
  <2> QED
    BY <1>5, <1>6, <2>1, <2>2, <2>3 DEF Flight
<1> QED
  BY <1>7, <1>8

LEMMA ServedHeaderReads ==
    ASSUME SysInv, QueueFits, NEW k, Serves(k), pending[k].cmd = "header",
           NEW l, NEW x, Reads(l, x)
    PROVE  Reads(l, x)'
<1>1. TypeInv /\ QueueOK /\ DataOnce
  BY DEF SysInv, HostInv, CallInv
<1> DEFINE c == pending[k].core
<1>2. \E t2 : atl' = [atl EXCEPT !.twrites = t2] /\ atl \in Maps
  BY HeaderDone
<1>3. atl'.log = atl.log /\ atl'.home = atl.home
  BY <1>2 DEF Maps
<1>4. Flight' = Flight
  BY <1>1, ServedFlight
<1>5. redirection_map' = redirection_map
  BY ServedHost
<1>6. Carries(Way', Way, atl'.log, atl.log)
  BY <1>1, <1>3, ServedCarries
<1> QED
  BY <1>3, <1>4, <1>5, <1>6, StillReads

\* A slot that a page is redirected to and whose data is due has been sent.
LEMMA RedirectedIsSent ==
    ASSUME SysInv, NEW l \in LPN, NEW s, s = redirection_map[l], s \in Slots(Due), s # NoSlot
    PROVE  s \in Slots(Flight) /\ IsValid(s) /\ <<s, l>> \in Due
<1>1. /\ TypeInv /\ TypeOK /\ QueueOK /\ DataOnce /\ LogInv /\ WindowInv /\ LeadsToPage
      /\ CommandHolds /\ LogHolds
  BY DEF SysInv, HostInv, CallInv, CoreInv, TypeInv
<1>2. s \in Slot
  BY <1>1 DEF TypeOK
<1>3. map_entries[s].o_addr = l /\ map_entries[s].flags \in {"VALID", "REMAPPING"}
  BY <1>1, LeadsToOwnEntry
<1>4. map_entries[s].flags # "REMAPPING"
  <2> SUFFICES ASSUME map_entries[s].flags = "REMAPPING"
               PROVE  FALSE
    OBVIOUS
  <2>1. PICK i \in DOMAIN remap_entry : remap_entry[i].t_addr = s
    BY <1>1, <1>2 DEF LogInv, RemappingIsPending
  <2> QED
    BY <1>1, <2>1 DEF CommandHolds
<1>5. IsValid(s) /\ <<s, l>> \in Due
  <2>1. IsValid(s)
    BY <1>3, <1>4 DEF IsValid
  <2> QED
    BY <1>1, <1>2, <1>3, <2>1 DEF LogHolds
<1>6. CASE \E i \in Data : pending[i].t_addr = s
  <2>1. PICK i \in Data : pending[i].t_addr = s
    BY <1>6
  <2>2. <<s, pending[i].content>> \in Flight
    BY <2>1 DEF Flight
  <2> QED
    BY <1>5, <2>2, InSlots
<1>7. CASE \E i \in SentData : sent[i].t_addr = s
  <2>1. <<s, buff>> \in Flight
    BY <1>7 DEF Flight
  <2> QED
    BY <1>5, <2>1, InSlots
<1>8. CASE pc = "twrite" /\ s \in TwriteSlot .. twrite_header.t_addr_start + Len(twrite_header.o_addr) - 1
  <2> DEFINE n == Len(twrite_header.o_addr)
  <2>1. /\ twrite_header.t_addr_start = rw_log_new_idx
        /\ ~Linear => rw_log_new_idx + n < rw_log_start_idx
        /\ page \in Nat /\ page >= 1 /\ n \in Nat
        /\ rw_log_new_idx \in Nat /\ rw_log_start_idx \in Nat
    BY <1>1, <1>8 DEF TypeOK, WindowInv, WriteStopsShort, Slot
  <2>2. TwriteSlot \in Int /\ TwriteSlot >= rw_log_new_idx
    BY <2>1 DEF TwriteSlot
  <2>3. s \in Int /\ s >= TwriteSlot /\ s < rw_log_new_idx + n
    BY <1>8, <2>1, <2>2
  <2> HIDE DEF n
  <2>4. ~InUse(s)
    BY <2>1, <2>2, <2>3 DEF InUse, Linear
  <2>5. ~BeingPacked(s)
    BY <2>2, <2>3 DEF BeingPacked
  <2> QED
    BY <1>1, <1>2, <1>5, <2>4, <2>5 DEF WindowInv, LiveInWindow
<1>9. s \in Unsent => IsUnsent(s)
  <2>1. s \in Int
    BY <1>2 DEF Slot
  <2> QED
    BY <1>1, <2>1, UnsentIs
<1>10. Slots(Due) = {pending[i].t_addr : i \in Data} \cup Unsent
  BY <1>1, DueShape
<1> QED
  BY <1>6, <1>7, <1>8, <1>9, <1>10 DEF IsUnsent

LEMMA LoggedRemap ==
    ASSUME SysInv, QueueFits, NEW k, Serves(k), pending[k].cmd = "remap",
           NEW l \in LPN, NEW s, s = redirection_map[l], s # NoSlot, NEW x,
           Logged(s, x, Flight, atl.log)
    PROVE  Logged(s, x, Flight, atl'.log)
<1>1. TypeInv /\ TypeOK /\ QueueOK /\ LeadsToPage /\ RemapsInv
  BY DEF SysInv, HostInv, CallInv, CoreInv, TypeInv
<1>2. /\ \A i : OwnPair(pending[k], i) <=> Owns(Way, k, i)
      /\ Remapped(atl', atl, pending[k], Len(pending[k].pairs))
  BY RemapDone
<1>3. Way[k] = pending[k]
  BY <1>1, ServedWay
<1>4. s \in Slot
  BY <1>1 DEF TypeOK
<1>5. map_entries[s] # NoMap
  BY <1>1, LeadsToOwnEntry DEF NoMap
<1>6. ASSUME s \notin Slots(Flight)
      PROVE  atl'.log[s] = atl.log[s]
  <2>1. s \notin Slots(Due)
    BY <1>6, RedirectedIsSent
  <2>2. \A i : Owns(Way, k, i) => pending[k].pairs[i].t_addr # s
    BY <1>1, <1>3, <1>5, <2>1 DEF RemapsInv, RemapsPast
  <2> QED
    BY <1>2, <1>4, <2>2 DEF Remapped
<1> QED
  BY <1>6 DEF Logged

\* A remap that is served takes its copies home.
LEMMA HomedServed ==
    ASSUME NEW way, NEW way2, NEW e, NEW k, Embeds(way2, way, e, k), RemapsApart(way),
           NEW log, NEW log2, NEW home, NEW home2, NEW l, NEW x,
           \A i : Owns(way, k, i) /\ way[k].pairs[i].o_addr = l =>
               home2[l] = log[way[k].pairs[i].t_addr],
           \A j, i : Owns(way, j, i) /\ j # k =>
               log2[way[j].pairs[i].t_addr] = log[way[j].pairs[i].t_addr],
           (\A i : Owns(way, k, i) => way[k].pairs[i].o_addr # l) => home2[l] = home[l],
           Homed(l, x, way, log, home)
    PROVE  Homed(l, x, way2, log2, home2)
<1>1. /\ \A j, i : Owns(way2, j, i) => Owns(way, e[j], i) /\ e[j] # k /\ way2[j] = way[e[j]]
      /\ \A j, i : Owns(way, j, i) /\ j # k =>
             \E m : Owns(way2, m, i) /\ e[m] = j /\ way2[m] = way[j]
  BY EmbeddedRemaps
<1>2. CASE \E i : Owns(way, k, i) /\ way[k].pairs[i].o_addr = l
  <2>1. PICK i : Owns(way, k, i) /\ way[k].pairs[i].o_addr = l
    BY <1>2
  <2>2. \A j, m : Owns(way, j, m) /\ way[j].pairs[m].o_addr = l => j = k /\ m = i
    BY <2>1 DEF RemapsApart
  <2>3. x = home2[l]
    BY <2>1, <2>2 DEF Homed
  <2>4. \A j, m : Owns(way2, j, m) => way2[j].pairs[m].o_addr # l
    BY <1>1, <2>2
  <2> QED
    BY <2>3, <2>4 DEF Homed
<1>3. CASE /\ \A i : Owns(way, k, i) => way[k].pairs[i].o_addr # l
           /\ \E j, i : Owns(way, j, i) /\ way[j].pairs[i].o_addr = l
                        /\ x = log[way[j].pairs[i].t_addr]
  <2>1. PICK j, i : Owns(way, j, i) /\ way[j].pairs[i].o_addr = l
                    /\ x = log[way[j].pairs[i].t_addr]
    BY <1>3
  <2>2. j # k
    BY <1>3, <2>1
  <2>3. PICK m : Owns(way2, m, i) /\ way2[m] = way[j]
    BY <1>1, <2>1, <2>2
  <2>4. log2[way[j].pairs[i].t_addr] = log[way[j].pairs[i].t_addr]
    BY <2>1, <2>2
  <2> QED
    BY <2>1, <2>3, <2>4 DEF Homed
<1>4. CASE (\A j, i : Owns(way, j, i) => way[j].pairs[i].o_addr # l) /\ x = home[l]
  <2>1. \A j, m : Owns(way2, j, m) => way2[j].pairs[m].o_addr # l
    BY <1>1, <1>4
  <2> QED
    BY <1>4, <2>1 DEF Homed
<1> QED
  BY <1>2, <1>3, <1>4 DEF Homed

LEMMA ServedRemapReads ==
    ASSUME SysInv, QueueFits, NEW k, Serves(k), pending[k].cmd = "remap",
           NEW l \in LPN, NEW x, Reads(l, x)
    PROVE  Reads(l, x)'
<1>1. TypeInv /\ QueueOK /\ DataOnce /\ RemapsApart(Way)
  BY DEF SysInv, HostInv, CallInv, CoreInv, RemapsInv
<1>2. Flight' = Flight
  BY <1>1, ServedFlight
<1>3. redirection_map' = redirection_map
  BY ServedHost
<1> DEFINE call == pending[k]
           way2 == Way'
           log2 == atl'.log
           home2 == atl'.home
           log == atl.log
           home == atl.home
<1>4. /\ \A i : OwnPair(call, i) <=> Owns(Way, k, i)
      /\ DOMAIN call.pairs = 1 .. Len(call.pairs)
      /\ Remapped(atl', atl, call, Len(call.pairs))
  BY RemapDone
<1>5. Way[k] = call
  BY <1>1, ServedWay
<1>6. PICK e : Embeds(way2, Way, e, k)
  BY <1>1, ServedWay
<1>7. \A i : Owns(Way, k, i) => i \in 1 .. Len(call.pairs) /\ OwnPair(call, i)
  BY <1>4 DEF OwnPair
<1>8. \A i : Owns(Way, k, i) /\ Way[k].pairs[i].o_addr = l =>
          home2[l] = log[Way[k].pairs[i].t_addr]
  BY <1>4, <1>5, <1>7 DEF Remapped
<1>9. (\A i : Owns(Way, k, i) => Way[k].pairs[i].o_addr # l) => home2[l] = home[l]
  BY <1>4, <1>5 DEF Remapped
<1>10. ASSUME NEW j, NEW i, Owns(Way, j, i), j # k
       PROVE  log2[Way[j].pairs[i].t_addr] = log[Way[j].pairs[i].t_addr]
  <2>1. Way[j].pairs[i].t_addr \in Slot
    BY <1>1, <1>10, OwnsShape
  <2>2. \A m : Owns(Way, k, m) => call.pairs[m].t_addr # Way[j].pairs[i].t_addr
    BY <1>1, <1>5, <1>10 DEF RemapsApart
  <2> QED
    BY <1>4, <2>1, <2>2 DEF Remapped
<1>11. CASE redirection_map[l] # NoSlot
  <2>1. Logged(redirection_map[l], x, Flight, atl.log)
    BY <1>11 DEF Reads
  <2>2. Logged(redirection_map[l], x, Flight, atl'.log)
    BY <1>11, <2>1, LoggedRemap
  <2> QED
    BY <1>2, <1>3, <1>11, <2>2 DEF Reads
<1>12. CASE redirection_map[l] = NoSlot
  <2>1. Homed(l, x, Way, log, home)
    BY <1>12 DEF Reads
  <2> HIDE DEF way2, log2, home2, log, home
  <2>2. Homed(l, x, way2, log2, home2)
    BY <1>1, <1>6, <1>8, <1>9, <1>10, <2>1, HomedServed
  <2> QED
    BY <1>3, <1>12, <2>2 DEF Reads, way2, log2, home2
<1> QED
  BY <1>11, <1>12

\* The page that a core takes from the flight is the one its slot then holds.
LEMMA LoggedData ==
    ASSUME SysInv, QueueFits, NEW k, Serves(k), pending[k].cmd = "data",
           NEW t, t = pending[k].t_addr, NEW log2,
           log2 = [atl.log EXCEPT ![t] = Arrives(pending[k].content)],
           NEW l \in LPN, NEW s, s = redirection_map[l], s # NoSlot, NEW x,
           Logged(s, x, Flight, atl.log)
    PROVE  Logged(s, x, Flight', log2)
<1>1. TypeInv /\ TypeOK /\ QueueOK /\ DataOnce /\ ATLOK
  BY DEF SysInv, HostInv, CallInv, CoreInv, TypeInv
<1> DEFINE content == pending[k].content
           flight2 == Flight'
<1>2. <<t, content>> \in Flight /\ flight2 = Flight \ {<<t, content>>}
  BY <1>1, ServedFlight
<1> HIDE DEF flight2
<1>3. CASE s # t
  <2>1. \A y : <<s, y>> \in flight2 <=> <<s, y>> \in Flight
    BY <1>2, <1>3
  <2>2. s \in Slots(flight2) => s \in Slots(Flight)
    BY <1>2 DEF Slots
  <2>3. log2[s] = atl.log[s]
    BY <1>1, <1>3 DEF ATLOK, Maps
  <2> QED
    BY <2>1, <2>2, <2>3 DEF Logged, flight2
<1>4. CASE s = t
  <2>1. <<s, content.o_addr>> \in Due /\ s \in Slots(Due)
    BY <1>1, <1>2, <1>4, FlightShape
  <2>2. <<s, l>> \in Due
    BY <2>1, RedirectedIsSent
  <2>3. content.o_addr = l
    <3>1. k \in Data
      BY DEF Data, Serves
    <3>2. <<s, l>>[1] = pending[k].t_addr
      BY <1>4
    <3>3. <<s, l>> = <<pending[k].t_addr, content.o_addr>>
      BY <1>1, <2>2, <3>1, <3>2, DueShape
    <3> QED
      BY <3>3
  <2>4. Arrives(content) = content
    BY <2>3, Constants DEF Arrives
  <2>5. s \in Slots(Flight)
    BY <1>2, <1>4, InSlots
  <2>6. x = content
    <3>1. <<s, x>> \in Flight
      BY <2>5 DEF Logged
    <3> QED
      BY <1>1, <1>2, <1>4, <3>1, FlightShape
  <2>7. s \notin Slots(flight2)
    <3> SUFFICES ASSUME NEW d \in flight2, d[1] = s
                 PROVE  FALSE
      BY DEF Slots
    <3>1. PICK r, y : d = <<r, y>>
      BY <1>1, <1>2, FlightShape
    <3>2. <<s, y>> \in Flight
      BY <1>2, <3>1
    <3>3. y = content
      BY <1>1, <1>2, <1>4, <3>2, FlightShape
    <3> QED
      BY <1>2, <1>4, <3>1, <3>3
  <2>8. t \in Slot
    BY <1>1, <1>4 DEF TypeOK
  <2>9. log2[s] = content
    BY <1>1, <1>4, <2>4, <2>8 DEF ATLOK, Maps
  <2> QED
    BY <2>6, <2>7, <2>9 DEF Logged, flight2
<1> QED
  BY <1>3, <1>4

LEMMA ServedDataReads ==
    ASSUME SysInv, QueueFits, NEW k, Serves(k), pending[k].cmd = "data",
           NEW l \in LPN, NEW x, Reads(l, x)
    PROVE  Reads(l, x)'
<1>1. TypeInv /\ QueueOK /\ DataOnce /\ ATLOK /\ RemapsSent
  BY DEF SysInv, HostInv, CallInv, CoreInv, RemapsInv
<1> DEFINE t == pending[k].t_addr
           o == pending[k].content.o_addr
           c == CoreOf(t)
           due2 == Due \ {<<t, o>>}
           new == Arrives(pending[k].content)
<1>2. /\ c \in Core
      /\ \E list2 \in Seq(Entries) :
             /\ atl' = [atl EXCEPT !.twrites[c] = list2, !.log[t] = new]
             /\ HeadersOK(c, list2, Way, due2, Frontier, Rest)
  BY DataDone
<1>3. atl'.log = [atl.log EXCEPT ![t] = new] /\ atl'.home = atl.home
  BY <1>1, <1>2 DEF ATLOK, Maps
<1>4. redirection_map' = redirection_map
  BY ServedHost
<1>5. t \in Slots(Due)
  <2>1. <<t, pending[k].content>> \in Flight
    BY <1>1, ServedFlight
  <2> QED
    BY <1>1, <2>1, FlightShape
<1>6. ASSUME NEW j, NEW i, Owns(Way, j, i)
      PROVE  atl'.log[Way[j].pairs[i].t_addr] = atl.log[Way[j].pairs[i].t_addr]
  <2>1. Way[j].pairs[i].t_addr \in Slot /\ Way[j].pairs[i].t_addr \notin Slots(Due)
    BY <1>1, <1>6, RemapsBehind
  <2> HIDE DEF t, new
  <2> QED
    BY <1>1, <1>3, <1>5, <2>1 DEF ATLOK, Maps
<1>7. Carries(Way', Way, atl'.log, atl.log)
  BY <1>1, <1>6, ServedCarries
<1>8. ASSUME redirection_map[l] # NoSlot, Logged(redirection_map[l], x, Flight, atl.log)
      PROVE  Logged(redirection_map[l], x, Flight', atl'.log)
  BY <1>3, <1>8, LoggedData
<1> HIDE DEF t, new
<1> QED
  BY <1>3, <1>4, <1>7, <1>8, StillReads

LEMMA ServedReads ==
    ASSUME SysInv, QueueFits, RSP_WritePage, NEW l \in LPN, NEW x, Reads(l, x)
    PROVE  Reads(l, x)'
<1>1. QueueOK
  BY DEF SysInv, CallInv
<1>2. PICK k : Serves(k)
  BY <1>1, ServesCall
<1>3. pending[k].cmd \in {"header", "remap", "data"}
  BY <1>1, <1>2, QueueShape DEF Serves
<1> QED
  BY <1>2, <1>3, ServedHeaderReads, ServedRemapReads, ServedDataReads

-----------------------------------------------------------------------------
(***************************************************************************)
(* Host, queue and cores are the page store.                               *)
(***************************************************************************)
store == [l \in LPN |-> Newest(l)]

LEMMA StoreStays ==
    ASSUME SysInv, SysInv', \A l \in LPN : \A x : Reads(l, x) => Reads(l, x)'
    PROVE  store' = store
<1>1. ReadsNewest /\ ReadsNewest'
  BY ReadsTheNewest, ReadsTheNewestNext
<1>2. ASSUME NEW l \in LPN
      PROVE  Newest(l)' = Newest(l)
  <2>1. PICK x : Reads(l, x)
    BY EachReads
  <2>2. Newest(l) = x
    BY <1>1, <2>1 DEF ReadsNewest
  <2>3. Reads(l, x)'
    BY <2>1
  <2>4. Newest(l)' = x
    BY <1>1, <2>3 DEF ReadsNewest
  <2> QED
    BY <2>2, <2>4
<1> QED
  BY <1>2 DEF store

LEMMA StoreWritten ==
    ASSUME SysInv, SysInv', NEW o \in LPN, NEW y,
           \A l \in LPN \ {o} : \A x : Reads(l, x) => Reads(l, x)',
           Reads(o, y)'
    PROVE  store' = [store EXCEPT ![o] = y]
<1>1. ReadsNewest /\ ReadsNewest'
  BY ReadsTheNewest, ReadsTheNewestNext
<1>2. ASSUME NEW l \in LPN \ {o}
      PROVE  Newest(l)' = Newest(l)
  <2>1. PICK x : Reads(l, x)
    BY EachReads
  <2>2. Newest(l) = x
    BY <1>1, <2>1 DEF ReadsNewest
  <2>3. Reads(l, x)'
    BY <2>1
  <2>4. Newest(l)' = x
    BY <1>1, <2>3 DEF ReadsNewest
  <2> QED
    BY <2>2, <2>4
<1>3. Newest(o)' = y
  BY <1>1 DEF ReadsNewest
<1> QED
  BY <1>2, <1>3 DEF store

LEMMA HostStores ==
    ASSUME SysInv, SysInv', Host
    PROVE  store' = store \/ \E l \in LPN : \E c \in Content(l) : store' = [store EXCEPT ![l] = c]
<1>1. Next /\ pc # "packing_error" /\ (pc = "twrite" /\ page <= Len(twrite_header.o_addr) => ~IsValid(TwriteSlot))
  BY SlotIsFree DEF Host, SysInv, HostInv, TypeInv, WindowInv, NoPackingError
<1>2. ~PackingError /\ ~ResumePacking
  BY <1>1 DEF PackingError, ResumePacking
<1>3. CASE BeginTwrite
  BY <1>3, BegunReads, StoreStays
<1>4. CASE EndTwrite \/ Refused \/ RemapNothing \/ BeginRemap \/ RemapCollect
  BY <1>4, SilentReads, StoreStays
<1>5. CASE WritePadding
  BY <1>5, PageReads, StoreStays DEF WritePadding
<1>6. CASE WritePage
  <2>1. /\ TwriteOAddr \in LPN /\ buff' \in Content(TwriteOAddr)
        /\ \A l \in LPN \ {TwriteOAddr} : redirection_map'[l] = redirection_map[l]
        /\ \A l, x : l = TwriteOAddr /\ x = buff' => Reads(l, x)'
    BY <1>6, WrittenReads
  <2>2. PICK o \in LPN : o = TwriteOAddr
    BY <2>1
  <2>3. PICK y : y = buff'
    OBVIOUS
  <2>4. y \in Content(o) /\ Reads(o, y)' /\ \A l \in LPN \ {o} : redirection_map'[l] = redirection_map[l]
    BY <2>1, <2>2, <2>3
  <2>5. \A l \in LPN \ {o} : \A x : Reads(l, x) => Reads(l, x)'
    BY <1>6, <2>4, PageReads
  <2>6. store' = [store EXCEPT ![o] = y]
    BY <2>4, <2>5, StoreWritten
  <2> QED
    BY <2>4, <2>6
<1>7. CASE RemapSendFull \/ RemapSendLast
  BY <1>7, RemapSentReads, StoreStays
<1> QED
  BY <1>1, <1>2, <1>3, <1>4, <1>5, <1>6, <1>7 DEF Next, Twrite, Remap

LEMMA StoreStutters ==
    ASSUME UNCHANGED sysvars
    PROVE  store' = store
<1>1. redirection_map' = redirection_map /\ sent' = sent /\ atl' = atl /\ buff' = buff /\ pending' = pending
  BY DEF sysvars, hostvars
<1>2. SentData' = SentData /\ PendingRemaps' = PendingRemaps
  BY <1>1 DEF SentData, PendingRemaps
<1>3. \A s : LogContent(s)' = LogContent(s)
  BY <1>1, <1>2 DEF LogContent, IsPending
<1>4. \A l : Newest(l)' = Newest(l)
  BY <1>1, <1>2, <1>3 DEF Newest
<1> QED
  BY <1>4 DEF store

LEMMA StoreStep ==
    ASSUME SysInv, SysInv', QueueFits, [SysNext /\ ~SkipsLiveEntry /\ ~FillsToStart]_sysvars
    PROVE  store' = store \/ \E l \in LPN : \E c \in Content(l) : store' = [store EXCEPT ![l] = c]
<1>1. CASE Host
  BY <1>1, HostStores
<1>2. CASE HIL_WriteLPN
  BY <1>2, QueuedReads, StoreStays
<1>3. CASE RSP_WritePage
  BY <1>3, ServedReads, StoreStays
<1>4. CASE UNCHANGED sysvars
  BY <1>4, StoreStutters
<1> QED
  BY <1>1, <1>2, <1>3, <1>4 DEF SysNext

LEMMA StoreInit == SysInit => store = [l \in LPN |-> VC_MAX]
<1> SUFFICES ASSUME SysInit, NEW l \in LPN
             PROVE  Newest(l) = VC_MAX
  BY DEF store
<1>1. /\ redirection_map[l] = NoSlot /\ sent = <<>> /\ pending = <<>> /\ atl = ATLInit(Slot, LPN)
  BY DEF SysInit, Init
<1>2. PendingRemaps = {}
  BY <1>1 DEF PendingRemaps
<1>3. atl.home[l] = VC_MAX
  BY <1>1 DEF ATLInit
<1> QED
  BY <1>1, <1>2, <1>3 DEF Newest

\* Until the log breaks, log, redirection map, queue, remaps and FTL map together
\* are the page store: each page reads what was last written to it, although
\* commands overtake data, for every size of the log and of the queue that fits.
THEOREM SystemIsPageStore == QueueFits /\ GuardedSysSpec => ImplementsPageStore
<1> SUFFICES ASSUME QueueFits
             PROVE  GuardedSysSpec => ImplementsPageStore
  OBVIOUS
<1>1. SysInit => Abstract!Init
  BY StoreInit DEF Abstract!Init, store
<1>2. SysInv /\ SysInv' /\ [SysNext /\ ~SkipsLiveEntry /\ ~FillsToStart]_sysvars
          => [Abstract!Next]_store
  BY StoreStep DEF Abstract!Next, Abstract!Write, store
<1>3. GuardedSysSpec => []SysInv
  BY SysInvariant
<1> QED
  BY <1>1, <1>2, <1>3, PTL DEF GuardedSysSpec, ImplementsPageStore, Abstract!Spec, store
=============================================================================
