--------------------------- MODULE MapCacheProofs ---------------------------
(***************************************************************************)
(* The log of the collector's moves, for every number of banks, addresses, *)
(* pages of a block and pages of the collector's buffer.                   *)
(*                                                                         *)
(* LoggedOnce alone is not inductive: that no other bank logs an address   *)
(* when the collector of a bank moves it follows from where the logs lead. *)
(***************************************************************************)
EXTENDS MapCache, TLAPS

\* A logged address is where its entry says, in the bank that logs it.
LogIsPlace ==
    \A b \in Bank : \A off \in DOMAIN gc_map_log[b] :
        LET entry == gc_map_log[b][off]
        IN  entry \in [lpn : LPN, vpn : VPN] /\ entry.vpn = place[entry.lpn] /\ entry.vpn.bank = b

LogInv ==
    /\ DOMAIN gc_map_log = Bank
    /\ gc_page \in [Bank -> Page]
    /\ place \in [LPN -> VPN \cup {VC_MAX}]
    /\ flushing \in Bank \cup {NULL}
    /\ LogIsPlace
    /\ LoggedOnce

\* get_map_log finds the only bank that logs an address.
LEMMA FirstIsOnly ==
    ASSUME LogInv, NEW l, NEW b \in BanksLogging(l)
    PROVE  FirstLogging(l) = b
<1>1. BanksLogging(l) = {b}
  BY DEF LogInv, LoggedOnce, BanksLogging, Logged
<1>2. b <= b
  BY DEF BanksLogging, Bank
<1> QED
  BY <1>1, <1>2 DEF FirstLogging

\* set_vpn takes the address out of every log and leaves the other entries.
LEMMA SetUnlogs ==
    ASSUME LogInv, NEW l, NEW v, NEW flag, Set(l, v, flag)
    PROVE  /\ DOMAIN gc_map_log' = Bank
           /\ \A b \in Bank : \A off \in DOMAIN gc_map_log'[b] :
                /\ off \in DOMAIN gc_map_log[b]
                /\ gc_map_log'[b][off] = gc_map_log[b][off]
                /\ gc_map_log[b][off].lpn # l
<1>1. CASE BanksLogging(l) = {}
  BY <1>1 DEF Set, LogInv, BanksLogging, Logged
<1>2. CASE BanksLogging(l) # {}
  <2>1. PICK b \in BanksLogging(l) : FirstLogging(l) = b
    BY <1>2, FirstIsOnly
  <2>2. \A c \in BanksLogging(l) : c = b
    BY <2>1, FirstIsOnly
  <2>3. b \in Bank
    BY DEF BanksLogging
  <2>4. gc_map_log' = [gc_map_log EXCEPT ![b] = log_map_remove(gc_map_log[b], l)]
    BY <1>2, <2>1 DEF Set
  <2>5. DOMAIN gc_map_log' = Bank /\ gc_map_log'[b] = log_map_remove(gc_map_log[b], l)
    BY <2>3, <2>4 DEF LogInv
  <2>6. \A c \in Bank \ {b} : gc_map_log'[c] = gc_map_log[c] /\ Logged(c, l) = {}
    BY <2>2, <2>4 DEF LogInv, BanksLogging
  <2> QED
    BY <2>5, <2>6 DEF log_map_remove, Logged
<1> QED
  BY <1>1, <1>2

LEMMA SetKeepsInv ==
    ASSUME LogInv, NEW l \in LPN, NEW v, NEW flag, Set(l, v, flag),
           place' = place \/ (v \in VPN \cup {VC_MAX} /\ place' = [place EXCEPT ![l] = v])
    PROVE  LogInv'
<1> USE SetUnlogs
<1>1. place' \in [LPN -> VPN \cup {VC_MAX}]
  BY DEF LogInv
<1>2. \A x \in LPN \ {l} : place'[x] = place[x]
  BY DEF LogInv
<1>3. LogIsPlace'
  BY <1>2 DEF LogInv, LogIsPlace
<1>4. LoggedOnce'
  BY DEF LogInv, LoggedOnce
<1> QED
  BY <1>1, <1>3, <1>4 DEF LogInv, Set

LEMMA PageSize == PAGES_PER_BLK \in Nat \ {0} /\ SuperPage \in Nat \ {0} /\ Updated \subseteq LPN
BY MapConstants DEF MapConstants

\* What a buffer adds to the log of its bank.
LEMMA WriteLogs ==
    ASSUME LogInv, NEW b \in Bank, NEW buffer \in Buffers, write_gc_buffer(b, buffer)
    PROVE  /\ DOMAIN gc_map_log' = Bank
           /\ \A c \in Bank \ {b} : gc_map_log'[c] = gc_map_log[c]
           /\ \A off \in DOMAIN gc_map_log'[b] :
                \/ /\ off \in DOMAIN gc_map_log[b]
                   /\ gc_map_log'[b][off] = gc_map_log[b][off]
                   /\ \A i \in DOMAIN buffer : buffer[i] # gc_map_log[b][off].lpn
                \/ \E i \in DOMAIN buffer :
                        gc_map_log'[b][off] = [lpn |-> buffer[i], vpn |-> Moved(place[buffer[i]])]
           /\ \A o, q \in DOMAIN gc_map_log'[b] :
                gc_map_log'[b][o].lpn = gc_map_log'[b][q].lpn => o = q
<1> DEFINE first == ((gc_page[b] + 1) % PAGES_PER_BLK) * SuperPage
           new == first .. first + Len(buffer) - 1
           log == gc_map_log[b]
           kept == {off \in DOMAIN log \ new : \A i \in DOMAIN buffer : buffer[i] # log[off].lpn}
<1>1. first \in Int
  <2>1. gc_page[b] \in Int
    BY PageSize DEF LogInv, Page
  <2>2. (gc_page[b] + 1) % PAGES_PER_BLK \in Int
    BY <2>1, PageSize
  <2> QED
    BY <2>2, PageSize
<1>2. PICK k \in 1 .. SuperPage : buffer \in [1 .. k -> LPN]
  BY DEF Buffers
<1>3. k \in Nat /\ Len(buffer) = k /\ DOMAIN buffer = 1 .. k
  BY <1>2, PageSize
<1>4. \A i, j \in DOMAIN buffer : buffer[i] = buffer[j] => i = j
  BY DEF Buffers
<1>5. gc_map_log' = [gc_map_log EXCEPT ![b] = set_map_log(log, first, buffer)]
  BY DEF write_gc_buffer
<1>6. DOMAIN gc_map_log' = Bank /\ \A c \in Bank \ {b} : gc_map_log'[c] = gc_map_log[c]
  BY <1>5 DEF LogInv
<1>7. gc_map_log'[b] = set_map_log(log, first, buffer)
  BY <1>5 DEF LogInv
<1>8. DOMAIN gc_map_log'[b] = kept \cup new
  BY <1>7 DEF set_map_log
<1>9. \A off \in new : /\ off - first + 1 \in DOMAIN buffer
                       /\ gc_map_log'[b][off] = [lpn |-> buffer[off - first + 1],
                                                 vpn |-> Moved(place[buffer[off - first + 1]])]
  <2>1. \A off \in new : off - first + 1 \in DOMAIN buffer
    BY <1>1, <1>3
  <2> HIDE DEF first
  <2> QED
    BY <1>7, <2>1 DEF set_map_log
<1>10. \A off \in kept : gc_map_log'[b][off] = log[off]
  <2> HIDE DEF first
  <2> QED
    BY <1>7 DEF set_map_log
<1>11. \A off \in new : gc_map_log'[b][off].lpn = buffer[off - first + 1]
  <2> SUFFICES ASSUME NEW off \in new
               PROVE  gc_map_log'[b][off].lpn = buffer[off - first + 1]
    OBVIOUS
  <2> HIDE DEF first, new
  <2> DEFINE l == buffer[off - first + 1]
  <2>1. gc_map_log'[b][off] = [lpn |-> l, vpn |-> Moved(place[l])]
    BY <1>9
  <2> QED
    BY <2>1
<1>12. \A off \in kept : /\ off \in DOMAIN log
                         /\ \A i \in DOMAIN buffer : buffer[i] # log[off].lpn
  OBVIOUS
<1>13. \A o, q \in new : o - first + 1 = q - first + 1 => o = q
  <2> HIDE DEF first
  <2> QED
    BY <1>1, <1>3
<1> HIDE DEF first, new, kept, log
<1>14. ASSUME NEW o \in new, NEW q \in new, gc_map_log'[b][o].lpn = gc_map_log'[b][q].lpn
       PROVE  o = q
  <2>1. o - first + 1 \in DOMAIN buffer /\ q - first + 1 \in DOMAIN buffer
    BY <1>9
  <2>2. buffer[o - first + 1] = buffer[q - first + 1]
    BY <1>11, <1>14
  <2>3. o - first + 1 = q - first + 1
    BY <1>4, <2>1, <2>2
  <2> QED
    BY <1>13, <2>3
<1>15. ASSUME NEW o \in kept, NEW q \in kept, gc_map_log'[b][o].lpn = gc_map_log'[b][q].lpn
       PROVE  o = q
  BY <1>10, <1>12, <1>15 DEF LogInv, LoggedOnce, log
<1>16. ASSUME NEW o \in new, NEW q \in kept
       PROVE  gc_map_log'[b][o].lpn # gc_map_log'[b][q].lpn
  <2>1. o - first + 1 \in DOMAIN buffer
    BY <1>9
  <2>2. buffer[o - first + 1] # log[q].lpn
    BY <1>12, <2>1
  <2> QED
    BY <1>10, <1>11, <2>2
<1>17. \A o, q \in DOMAIN gc_map_log'[b] :
            gc_map_log'[b][o].lpn = gc_map_log'[b][q].lpn => o = q
  BY <1>8, <1>14, <1>15, <1>16
<1>18. \A off \in DOMAIN gc_map_log'[b] :
            \/ /\ off \in DOMAIN log
               /\ gc_map_log'[b][off] = log[off]
               /\ \A i \in DOMAIN buffer : buffer[i] # log[off].lpn
            \/ \E i \in DOMAIN buffer :
                    gc_map_log'[b][off] = [lpn |-> buffer[i], vpn |-> Moved(place[buffer[i]])]
  BY <1>8, <1>9, <1>10, <1>12
<1> QED
  BY <1>6, <1>17, <1>18 DEF log

LEMMA WriteKeepsInv ==
    ASSUME LogInv, NEW b \in Bank, NEW buffer \in Buffers, write_gc_buffer(b, buffer)
    PROVE  LogInv'
<1> DEFINE moved == {buffer[i] : i \in DOMAIN buffer}
<1> USE WriteLogs
<1>1. moved \subseteq LPN
  BY DEF Buffers
<1>2. \A l \in moved : place[l] \in VPN /\ place[l].bank = b
  BY <1>1 DEF write_gc_buffer, LogInv
<1>3. \A l \in moved : Moved(place[l]) \in VPN /\ Moved(place[l]).bank = b
  BY <1>2 DEF Moved, VPN
<1>4. /\ \A l \in moved : place'[l] = Moved(place[l])
      /\ \A l \in LPN \ moved : place'[l] = place[l]
  BY <1>1 DEF write_gc_buffer
<1>5. place' \in [LPN -> VPN \cup {VC_MAX}]
  <2>1. \A l \in LPN : place'[l] \in VPN \cup {VC_MAX}
    BY <1>3, <1>4 DEF LogInv
  <2> QED
    BY <2>1 DEF write_gc_buffer
<1>6. gc_page' \in [Bank -> Page] /\ flushing' \in Bank \cup {NULL}
  <2>1. (gc_page[b] + 1) % PAGES_PER_BLK \in Page
    BY PageSize DEF LogInv, Page
  <2> QED
    BY <2>1 DEF write_gc_buffer, LogInv
\* No other bank logs what this one moves.
<1>7. \A c \in Bank \ {b} : \A off \in DOMAIN gc_map_log[c] : gc_map_log[c][off].lpn \notin moved
  BY <1>2 DEF LogInv, LogIsPlace
<1>8. LogIsPlace'
  <2> SUFFICES ASSUME NEW c \in Bank, NEW off \in DOMAIN gc_map_log'[c]
               PROVE  LET entry == gc_map_log'[c][off]
                      IN  /\ entry \in [lpn : LPN, vpn : VPN]
                          /\ entry.vpn = place'[entry.lpn] /\ entry.vpn.bank = c
    BY DEF LogIsPlace
  <2>1. CASE c # b
    BY <2>1, <1>4, <1>7 DEF LogInv, LogIsPlace
  <2>2. CASE /\ c = b /\ off \in DOMAIN gc_map_log[b]
             /\ gc_map_log'[b][off] = gc_map_log[b][off]
             /\ \A i \in DOMAIN buffer : buffer[i] # gc_map_log[b][off].lpn
    BY <2>2, <1>4 DEF LogInv, LogIsPlace
  <2>3. ASSUME c = b, NEW i \in DOMAIN buffer,
               gc_map_log'[b][off] = [lpn |-> buffer[i], vpn |-> Moved(place[buffer[i]])]
        PROVE  LET entry == gc_map_log'[c][off]
               IN  /\ entry \in [lpn : LPN, vpn : VPN]
                   /\ entry.vpn = place'[entry.lpn] /\ entry.vpn.bank = c
    BY <2>3, <1>1, <1>3, <1>4
  <2>4. c = b =>
            \/ /\ off \in DOMAIN gc_map_log[b]
               /\ gc_map_log'[b][off] = gc_map_log[b][off]
               /\ \A i \in DOMAIN buffer : buffer[i] # gc_map_log[b][off].lpn
            \/ \E i \in DOMAIN buffer :
                    gc_map_log'[b][off] = [lpn |-> buffer[i], vpn |-> Moved(place[buffer[i]])]
    OBVIOUS
  <2> QED
    BY <2>1, <2>2, <2>3, <2>4
<1>9. LoggedOnce'
  <2> SUFFICES ASSUME NEW c \in Bank, NEW d \in Bank,
                      NEW o \in DOMAIN gc_map_log'[c], NEW q \in DOMAIN gc_map_log'[d],
                      gc_map_log'[c][o].lpn = gc_map_log'[d][q].lpn
               PROVE  c = d /\ o = q
    BY DEF LoggedOnce
  <2>1. CASE c = b /\ d = b
    BY <2>1
  <2>2. CASE c # b /\ d # b
    BY <2>2 DEF LogInv, LoggedOnce
  \* Of two banks the entries lead to different places.
  <2>3. CASE c # d
    BY <2>3, <1>8 DEF LogIsPlace
  <2> QED
    BY <2>1, <2>2, <2>3
<1> QED
  BY <1>5, <1>6, <1>8, <1>9 DEF LogInv

LEMMA LogInvInductive == Spec => []LogInv
<1>1. Init => LogInv
  BY PageSize DEF Init, LogInv, LogIsPlace, LoggedOnce, Page
<1>2. LogInv /\ [Next]_vars => LogInv'
  <2> SUFFICES ASSUME LogInv, [Next]_vars
               PROVE  LogInv'
    OBVIOUS
  <2> DEFINE Same == UNCHANGED <<gc_map_log, gc_page, flushing, place>>
  <2>1. ASSUME Same PROVE LogInv'
    BY <2>1 DEF LogInv, LogIsPlace, LoggedOnce
  <2>2. ASSUME NEW l \in LPN, NEW flag, get_vpn(l, flag) PROVE LogInv'
    BY <2>1, <2>2 DEF get_vpn
  <2>3. ASSUME NEW l \in Updated, NEW v \in VPN \cup {VC_MAX}, set_vpn(l, v) PROVE LogInv'
    BY <2>3, SetKeepsInv, PageSize DEF set_vpn
  <2>4. ASSUME NEW b \in Bank, NEW buffer \in Buffers, write_gc_buffer(b, buffer) PROVE LogInv'
    BY <2>4, WriteKeepsInv
  <2>5. CASE flush_map_log
    <3>1. PICK off \in DOMAIN gc_map_log[flushing] :
              Set(gc_map_log[flushing][off].lpn, gc_map_log[flushing][off].vpn, "GC")
      BY <2>5 DEF flush_map_log
    <3>2. gc_map_log[flushing][off].lpn \in LPN
      BY <2>5 DEF flush_map_log, LogInv, LogIsPlace
    <3> QED
      BY <2>5, <3>1, <3>2, SetKeepsInv DEF flush_map_log
  <2>6. ASSUME NEW b \in Bank, BlockIsFull(b) PROVE LogInv'
    BY <2>6 DEF BlockIsFull, LogInv, LogIsPlace, LoggedOnce
  <2>7. ASSUME NEW b \in Bank, NEW dirty, AssignBlock(b, dirty) PROVE LogInv'
    BY <2>1, <2>7 DEF AssignBlock
  <2>8. ASSUME NEW b \in Bank, NEW blk, FreeBlock(b, blk) PROVE LogInv'
    BY <2>1, <2>8 DEF FreeBlock
  <2>9. CASE UNCHANGED vars
    BY <2>1, <2>9 DEF vars
  <2> QED
    BY <2>2, <2>3, <2>4, <2>5, <2>6, <2>7, <2>8, <2>9 DEF Next
<1> QED
  BY <1>1, <1>2, PTL DEF Spec

\* An address is in the log of one bank at most, and once, whatever the number
\* of banks: set_vpn, which erases the entry that get_map_log finds first,
\* leaves none behind that would hide a later place (ATLWrapper.cpp:2034).
THEOREM LoggedAtMostOnce == Spec => []LoggedOnce
<1>1. LogInv => LoggedOnce
  BY DEF LogInv
<1> QED
  BY LogInvInductive, <1>1, PTL

\* The log never misleads get_vpn: an entry holds the place where the address
\* was put last (ATLWrapper.cpp:1995).
THEOREM LogLeadsToPlace == Spec => []LogIsPlace
<1>1. LogInv => LogIsPlace
  BY DEF LogInv
<1> QED
  BY LogInvInductive, <1>1, PTL
=============================================================================
