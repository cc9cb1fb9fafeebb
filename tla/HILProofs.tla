------------------------------- MODULE HILProofs ------------------------------
(***************************************************************************)
(* Theorems of the HIL for every number of buffers, banks and addresses,   *)
(* every threshold and every behaviour of the FTL that Outcome allows; at  *)
(* the end, that the HIL implements WriteQueue.                            *)
(***************************************************************************)
EXTENDS HIL, Lemmas
LOCAL INSTANCE SequencesExt

\* The assumptions on the constants, one by one.
LEMMA Constants ==
    /\ IsFiniteSet(Buffer)
    /\ BUFF_THRESHOLD \in Nat /\ BUFF_THRESHOLD > 0
    /\ MaxKept \in Nat /\ MaxKept > 0
    /\ NUM_PERBANK_QUEUE \in Nat /\ NUM_PERBANK_QUEUE > 0
    /\ Cardinality(Buffer) >= BUFF_THRESHOLD + 2 * MaxKept
    /\ Bank \subseteq Nat /\ URGENT \notin Bank /\ 0 \in Bank
<1>1. \A n \in {NUM_PERBANK_QUEUE, BUFF_THRESHOLD, NumPlane, MaxKept} : n \in Nat /\ n > 0
  BY HILConstants DEF HILConstants
<1>2. IsFiniteSet(Buffer) /\ Cardinality(Buffer) >= BUFF_THRESHOLD + 2 * MaxKept
  BY HILConstants DEF HILConstants
<1> QED
  BY <1>1, <1>2 DEF Bank, URGENT

\* An address of the host goes to a core and a bank, and is never the invalid one.
LEMMA Addressing ==
    ASSUME NEW l \in LPN
    PROVE  /\ CoreOf(l) \in Core /\ BankOf(l) \in Bank
           /\ InCore(l) \in {InCore(k) : k \in LPN} /\ InCore(l) # RSP_INVALID_LPN
<1>1. l \in Nat /\ RSP_INVALID_LPN \notin Nat
  BY HILConstants DEF HILConstants
<1>2. InCore(l) \in Nat /\ CoreOf(l) \in Core
  BY <1>1 DEF InCore, CoreOf, NUM_FTL_CORE, Core
<1>3. BankOf(l) \in Bank
  BY <1>2, Constants DEF BankOf, Bank
<1> QED
  BY <1>1, <1>2, <1>3

\* The bank the search stops at has a buffer.
LEMMA FirstBankHasBuffer ==
    ASSUME NEW core, NonEmpty(core) # {}
    PROVE  FirstBank(core) \in Bank /\ bank_queue[core][FirstBank(core)] # <<>>
<1>1. NonEmpty(core) \subseteq Nat
  BY DEF NonEmpty, Bank
<1>2. \E bank \in NonEmpty(core) : \A k \in NonEmpty(core) : bank <= k
  BY <1>1, LeastNatural
<1>3. FirstBank(core) \in NonEmpty(core)
  BY <1>2 DEF FirstBank
<1> QED
  BY <1>3 DEF NonEmpty

\* The lanes are the urgent and the bank queues.
LEMMA LaneQueues ==
    ASSUME TypeOK, NEW c \in Core
    PROVE  /\ \A k \in Lane : Queue(c, k) \in Seq(Buffer)
           /\ Queue(c, URGENT) = urgent_queue[c]
           /\ \A bank \in Bank : bank \in Lane /\ Queue(c, bank) = bank_queue[c][bank]
           /\ URGENT \in Lane
BY Constants DEF TypeOK, Queue, Lane
-----------------------------------------------------------------------------
(***************************************************************************)
(* The two ways a buffer moves: a free one is appended to a queue, and the *)
(* head of a queue is served, after which the buffers in done are free.    *)
(***************************************************************************)
OthersStay(c, k) ==
    \A d \in Core, l \in Lane : <<d, l>> # <<c, k>> => Queue(d, l)' = Queue(d, l)

Taken(c, k, b) ==
    /\ c \in Core /\ k \in Lane /\ b \in free_buff_queue
    /\ Queue(c, k)' = Append(Queue(c, k), b)
    /\ OthersStay(c, k)
    /\ free_buff_queue' = free_buff_queue \ {b}
    /\ waiting_buff_queue' = waiting_buff_queue

Served(c, k, b, done) ==
    /\ c \in Core /\ k \in Lane /\ Queue(c, k) # <<>>
    /\ b = Head(Queue(c, k))
    /\ Queue(c, k)' = Tail(Queue(c, k))
    /\ OthersStay(c, k)
    /\ done \subseteq waiting_buff_queue \cup {b}
    /\ free_buff_queue' = free_buff_queue \cup done
    /\ waiting_buff_queue' = (waiting_buff_queue \cup {b}) \ done
    /\ lpn' = [x \in Buffer |-> IF x \in done THEN NoLPN ELSE lpn[x]]

InSomeQueue(b) ==
    \E c \in Core, k \in Lane : \E i \in DOMAIN Queue(c, k) : Queue(c, k)[i] = b

\* A buffer is queued if it is somewhere in a lane.
LEMMA QueuedAt ==
    ASSUME NEW b
    PROVE  (b \in Queued <=> InSomeQueue(b)) /\ (b \in Queued' <=> InSomeQueue(b)')
<1>1. b \in Queued <=> InSomeQueue(b)
  <2>1. \A c \in Core, k \in Lane : Elements(Queue(c, k)) \subseteq Queued
    BY DEF Queued
  <2>2. b \in Queued => \E c \in Core, k \in Lane : b \in Elements(Queue(c, k))
    BY DEF Queued
  <2> QED
    BY <2>1, <2>2 DEF Elements, InSomeQueue
<1>2. b \in Queued' <=> InSomeQueue(b)'
  <2>1. \A c \in Core, k \in Lane : Elements(Queue(c, k))' \subseteq Queued'
    BY DEF Queued
  <2>2. b \in Queued' => \E c \in Core, k \in Lane : b \in Elements(Queue(c, k))'
    BY DEF Queued
  <2> QED
    BY <2>1, <2>2 DEF Elements, InSomeQueue
<1> QED
  BY <1>1, <1>2

\* Each action as what it does to the places of the buffers.
LEMMA WriteUrgentTakes ==
    ASSUME TypeOK, NEW l \in LPN, WriteUrgent(l)
    PROVE  \E b \in free_buff_queue :
               /\ Taken(CoreOf(l), URGENT, b)
               /\ lpn' = [lpn EXCEPT ![b][0] = InCore(l)]
<1>1. PICK b \in free_buff_queue :
          /\ free_buff_queue' = free_buff_queue \ {b}
          /\ lpn' = [lpn EXCEPT ![b][0] = InCore(l)]
          /\ urgent_queue' = [urgent_queue EXCEPT ![CoreOf(l)] = Append(@, b)]
  BY DEF WriteUrgent
<1>2. UNCHANGED <<waiting_buff_queue, bank_queue>>
  BY DEF WriteUrgent
<1>3. CoreOf(l) \in Core /\ URGENT \in Lane
  BY Addressing DEF Lane
<1>4. urgent_queue'[CoreOf(l)] = Append(urgent_queue[CoreOf(l)], b)
      /\ \A d \in Core : d # CoreOf(l) => urgent_queue'[d] = urgent_queue[d]
  BY <1>1, <1>3 DEF TypeOK
<1>5. OthersStay(CoreOf(l), URGENT)
  BY <1>2, <1>4 DEF OthersStay, Queue
<1>6. Queue(CoreOf(l), URGENT)' = Append(Queue(CoreOf(l), URGENT), b)
  BY <1>4 DEF Queue
<1> QED
  BY <1>1, <1>2, <1>3, <1>5, <1>6 DEF Taken

LEMMA WriteFirstHalfTakes ==
    ASSUME TypeOK, NEW l \in LPN, WriteFirstHalf(l)
    PROVE  \E b \in free_buff_queue :
               /\ Taken(CoreOf(l), BankOf(l), b)
               /\ lpn' = [lpn EXCEPT ![b][0] = InCore(l)]
               /\ partial' = [partial EXCEPT ![b] = TRUE]
<1>1. PICK b \in free_buff_queue :
          /\ free_buff_queue' = free_buff_queue \ {b}
          /\ lpn' = [lpn EXCEPT ![b][0] = InCore(l)]
          /\ partial' = [partial EXCEPT ![b] = TRUE]
          /\ bank_queue' = [bank_queue EXCEPT ![CoreOf(l)][BankOf(l)] = Append(@, b)]
  BY DEF WriteFirstHalf
<1>2. UNCHANGED <<waiting_buff_queue, urgent_queue>>
  BY DEF WriteFirstHalf
<1>3. CoreOf(l) \in Core /\ BankOf(l) \in Bank /\ BankOf(l) \in Lane /\ BankOf(l) # URGENT
  BY Addressing, Constants DEF Lane
<1>4. /\ bank_queue'[CoreOf(l)][BankOf(l)] = Append(bank_queue[CoreOf(l)][BankOf(l)], b)
      /\ \A d \in Core, k \in Bank :
            d # CoreOf(l) \/ k # BankOf(l) => bank_queue'[d][k] = bank_queue[d][k]
  BY <1>1, <1>3 DEF TypeOK
<1>5. OthersStay(CoreOf(l), BankOf(l))
  BY <1>2, <1>4 DEF OthersStay, Queue, Lane
<1>6. Queue(CoreOf(l), BankOf(l))' = Append(Queue(CoreOf(l), BankOf(l)), b)
  BY <1>3, <1>4 DEF Queue
<1> QED
  BY <1>1, <1>2, <1>3, <1>5, <1>6 DEF Taken

LEMMA ServeUrgentServes ==
    ASSUME TypeOK, BuffersConserved, ServeUrgent
    PROVE  \E c \in Core, b \in Buffer :
               /\ c = core_iter /\ urgent_queue[c] # <<>> /\ b = Head(urgent_queue[c])
               /\ Served(c, URGENT, b, {b})
<1>1. PICK c \in Core : c = core_iter
  BY DEF TypeOK
<1>2. urgent_queue[c] # <<>> /\ urgent_queue[c] \in Seq(Buffer)
  BY <1>1 DEF ServeUrgent, TypeOK
<1>3. PICK b \in Buffer : b = Head(urgent_queue[c]) /\ b = urgent_queue[c][1]
  BY <1>2
<1>4. /\ urgent_queue' = [urgent_queue EXCEPT ![c] = Tail(@)]
      /\ lpn' = [lpn EXCEPT ![b] = NoLPN]
      /\ free_buff_queue' = free_buff_queue \cup {b}
      /\ UNCHANGED <<waiting_buff_queue, bank_queue>>
  BY <1>1, <1>3 DEF ServeUrgent, FreeUrgent
<1>5. urgent_queue'[c] = Tail(urgent_queue[c])
      /\ \A d \in Core : d # c => urgent_queue'[d] = urgent_queue[d]
  BY <1>4 DEF TypeOK
<1>6. OthersStay(c, URGENT)
  BY <1>4, <1>5 DEF OthersStay, Queue
<1>7. /\ Queue(c, URGENT) = urgent_queue[c]
      /\ Queue(c, URGENT)' = Tail(urgent_queue[c])
  BY <1>5 DEF Queue
<1>8. b \notin waiting_buff_queue
  <2>1. 1 \in DOMAIN Queue(c, URGENT) /\ Queue(c, URGENT)[1] = b
    BY <1>2, <1>3, <1>7
  <2>2. b \in Queued
    BY <2>1, QueuedAt DEF InSomeQueue, Lane
  <2> QED
    BY <2>2 DEF BuffersConserved
<1>9. lpn' = [x \in Buffer |-> IF x \in {b} THEN NoLPN ELSE lpn[x]]
  BY <1>4 DEF TypeOK
<1>10. waiting_buff_queue' = (waiting_buff_queue \cup {b}) \ {b}
  BY <1>4, <1>8
<1>11. Served(c, URGENT, b, {b})
  <2>1. /\ c \in Core /\ URGENT \in Lane /\ Queue(c, URGENT) # <<>>
        /\ b = Head(Queue(c, URGENT)) /\ {b} \subseteq waiting_buff_queue \cup {b}
    BY <1>2, <1>3, <1>7 DEF Lane
  <2> QED
    BY <2>1, <1>4, <1>6, <1>7, <1>9, <1>10, Zenon DEF Served
<1> QED
  BY <1>1, <1>2, <1>3, <1>11

\* What the HIL sees of RSP_WritePage, and which buffers it ends up with.
LEMMA ServeNormalServes ==
    ASSUME TypeOK, waiting_buff_queue = kept[0] \cup kept[1], ServeNormal
    PROVE  \E c \in Core, bank \in Bank, b \in Buffer :
               /\ c = core_iter /\ bank = FirstBank(c)
               /\ bank_queue[c][bank] # <<>> /\ b = Head(bank_queue[c][bank])
               /\ bank_queue' = [bank_queue EXCEPT ![c][bank] = Tail(@)]
               /\ on_going_normal_request' = on_going_normal_request - Requests(b)
               /\ \E o \in Outcome(c, b) :
                    /\ Served(c, bank, b, Freed(o, b))
                    /\ kept' = [kept EXCEPT ![c] = (@ \cup {b}) \ Freed(o, b)]
<1>1. PICK c \in Core : c = core_iter
  BY DEF TypeOK
<1>2. FirstBank(c) \in Bank /\ bank_queue[c][FirstBank(c)] # <<>>
  BY <1>1, FirstBankHasBuffer DEF ServeNormal
<1>3. PICK bank \in Bank : bank = FirstBank(c)
  BY <1>2
<1>4. PICK b \in Buffer : b = Head(bank_queue[c][bank])
  BY <1>2, <1>3 DEF TypeOK
<1>5. /\ bank_queue' = [bank_queue EXCEPT ![c][bank] = Tail(@)]
      /\ on_going_normal_request' = on_going_normal_request - Requests(b)
      /\ UNCHANGED urgent_queue
  BY <1>1, <1>3, <1>4 DEF ServeNormal
<1>6. PICK o \in Outcome(c, b) :
          /\ waiting_buff_queue' = (waiting_buff_queue \cup {b}) \ Freed(o, b)
          /\ free_buff_queue' = free_buff_queue \cup Freed(o, b)
          /\ lpn' = [x \in Buffer |-> IF x \in Freed(o, b) THEN NoLPN ELSE lpn[x]]
          /\ kept' = [kept EXCEPT ![c] = (@ \cup {b}) \ Freed(o, b)]
  <2> DEFINE Step(d, x) ==
          \E o \in Outcome(d, x) :
              /\ waiting_buff_queue' = (waiting_buff_queue \cup {x}) \ Freed(o, x)
              /\ free_buff_queue' = free_buff_queue \cup Freed(o, x)
              /\ lpn' = [y \in Buffer |-> IF y \in Freed(o, x) THEN NoLPN ELSE lpn[y]]
              /\ kept' = [kept EXCEPT ![d] = (@ \cup {x}) \ Freed(o, x)]
  <2>1. Step(core_iter, Head(bank_queue[core_iter][FirstBank(core_iter)]))
    BY DEF ServeNormal
  <2> HIDE DEF Step
  <2>2. Step(c, b)
    BY <2>1, <1>1, <1>3, <1>4
  <2> QED
    BY <2>2 DEF Step
<1>7. bank \in Lane /\ bank # URGENT
  BY Constants DEF Lane
<1>8. /\ bank_queue'[c][bank] = Tail(bank_queue[c][bank])
      /\ \A d \in Core, k \in Bank :
            d # c \/ k # bank => bank_queue'[d][k] = bank_queue[d][k]
  BY <1>5 DEF TypeOK
<1>9. OthersStay(c, bank)
  BY <1>5, <1>8 DEF OthersStay, Queue, Lane
<1>10. /\ Queue(c, bank) = bank_queue[c][bank]
       /\ Queue(c, bank)' = Tail(bank_queue[c][bank])
  BY <1>7, <1>8 DEF Queue
<1>11. Freed(o, b) \subseteq waiting_buff_queue \cup {b}
  BY <1>6 DEF Freed, Outcome, Core
<1>12. Served(c, bank, b, Freed(o, b))
  BY <1>2, <1>3, <1>4, <1>6, <1>7, <1>9, <1>10, <1>11 DEF Served
<1> QED
  BY <1>1, <1>2, <1>3, <1>4, <1>5, <1>6, <1>12
-----------------------------------------------------------------------------
(***************************************************************************)
(* Where the buffers are after such a step.                                *)
(***************************************************************************)
LEMMA TakenPlaces ==
    ASSUME TypeOK, NEW c, NEW k, NEW b, Taken(c, k, b),
           NEW d \in Core, NEW l \in Lane
    PROVE  /\ \A i \in DOMAIN Queue(d, l) :
                 i \in DOMAIN Queue(d, l)' /\ Queue(d, l)'[i] = Queue(d, l)[i]
           /\ \A i \in DOMAIN Queue(d, l)' :
                 \/ i \in DOMAIN Queue(d, l)
                 \/ /\ d = c /\ l = k /\ Queue(d, l)'[i] = b
                    /\ i = Len(Queue(c, k)) + 1
<1>1. CASE d = c /\ l = k
  <2>1. Queue(d, l) \in Seq(Buffer) /\ b \in Buffer
    BY LaneQueues DEF Taken, TypeOK
  <2>2. Queue(d, l)' = Append(Queue(d, l), b)
    BY <1>1 DEF Taken
  <2> QED
    BY <1>1, <2>1, <2>2
<1>2. CASE ~(d = c /\ l = k)
  BY <1>2 DEF Taken, OthersStay
<1> QED
  BY <1>1, <1>2

\* A buffer taken from the free ones is again in one place.
LEMMA TakenConserves ==
    ASSUME TypeOK, BuffersConserved, NEW c, NEW k, NEW b, Taken(c, k, b)
    PROVE  BuffersConserved' /\ Queued' = Queued \cup {b} /\ b \notin Queued
<1>1. b \in free_buff_queue /\ b \notin Queued
  BY DEF Taken, BuffersConserved
<1>2. \A d \in Core, l \in Lane : \A i \in DOMAIN Queue(d, l) : Queue(d, l)[i] # b
  BY <1>1, QueuedAt DEF InSomeQueue
<1>3. \E i \in DOMAIN Queue(c, k)' : Queue(c, k)'[i] = b
  <2>1. Queue(c, k) \in Seq(Buffer) /\ Queue(c, k)' = Append(Queue(c, k), b)
    BY LaneQueues DEF Taken
  <2> QED
    BY <2>1
<1>4. Queued' = Queued \cup {b}
  <2>1. \A x : x \in Queued' => x \in Queued \cup {b}
    BY TakenPlaces, QueuedAt DEF InSomeQueue
  <2>2. \A x : x \in Queued => x \in Queued'
    BY TakenPlaces, QueuedAt DEF InSomeQueue
  <2>3. b \in Queued'
    BY <1>3, QueuedAt DEF InSomeQueue, Taken
  <2> QED
    BY <2>1, <2>2, <2>3
<1>5. /\ (free_buff_queue \cup waiting_buff_queue \cup Queued)' = Buffer
      /\ (free_buff_queue \cap waiting_buff_queue)' = {}
      /\ (Queued \cap (free_buff_queue \cup waiting_buff_queue))' = {}
  BY <1>1, <1>4 DEF Taken, BuffersConserved
<1>6. \A d, e \in Core, l, m \in Lane :
          \A i \in DOMAIN Queue(d, l)', j \in DOMAIN Queue(e, m)' :
              Queue(d, l)'[i] = Queue(e, m)'[j] => d = e /\ l = m /\ i = j
  BY <1>2, TakenPlaces DEF BuffersConserved
<1> QED
  BY <1>1, <1>4, <1>5, <1>6 DEF BuffersConserved

\* Where the buffers are after one was served.
LEMMA ServedPlaces ==
    ASSUME TypeOK, NEW c, NEW k, NEW b, NEW done, Served(c, k, b, done),
           NEW d \in Core, NEW l \in Lane
    PROVE  /\ d = c /\ l = k =>
                /\ Queue(d, l) \in Seq(Buffer) /\ Queue(d, l)[1] = b
                /\ Len(Queue(d, l)) \in Nat \ {0}
                /\ DOMAIN Queue(d, l) = 1 .. Len(Queue(d, l))
                /\ DOMAIN Queue(d, l)' = 1 .. Len(Queue(d, l)) - 1
                /\ \A i \in 1 .. Len(Queue(d, l)) - 1 : Queue(d, l)'[i] = Queue(d, l)[i + 1]
           /\ d # c \/ l # k => Queue(d, l)' = Queue(d, l)
<1>1. CASE d = c /\ l = k
  <2>1. Queue(d, l) \in Seq(Buffer) /\ Queue(d, l) # <<>>
    BY <1>1, LaneQueues DEF Served
  <2>2. Queue(d, l)' = Tail(Queue(d, l)) /\ b = Head(Queue(d, l))
    BY <1>1 DEF Served
  <2> QED
    BY <1>1, <2>1, <2>2
<1>2. CASE ~(d = c /\ l = k)
  BY <1>2 DEF Served, OthersStay
<1> QED
  BY <1>1, <1>2

\* A buffer that is served is again in one place.
LEMMA ServedConserves ==
    ASSUME TypeOK, BuffersConserved,
           NEW c, NEW k, NEW b, NEW done, Served(c, k, b, done)
    PROVE  BuffersConserved' /\ Queued' = Queued \ {b} /\ b \in Queued
<1>1. c \in Core /\ k \in Lane
  BY DEF Served
<1> DEFINE q == Queue(c, k)
<1>2. /\ q \in Seq(Buffer) /\ q[1] = b /\ Len(q) \in Nat \ {0}
      /\ DOMAIN q = 1 .. Len(q) /\ DOMAIN Queue(c, k)' = 1 .. Len(q) - 1
      /\ \A i \in 1 .. Len(q) - 1 : Queue(c, k)'[i] = q[i + 1]
  BY <1>1, ServedPlaces
<1>3. \A d \in Core, l \in Lane : d # c \/ l # k => Queue(d, l)' = Queue(d, l)
  BY ServedPlaces
<1>4. 1 \in DOMAIN q
  BY <1>2
<1>5. \A d \in Core, l \in Lane : \A i \in DOMAIN Queue(d, l)' :
          \E j \in DOMAIN Queue(d, l) :
              /\ Queue(d, l)'[i] = Queue(d, l)[j] /\ Queue(d, l)[j] # b
              /\ IF d = c /\ l = k THEN j = i + 1 ELSE j = i
  <2> SUFFICES ASSUME NEW d \in Core, NEW l \in Lane, NEW i \in DOMAIN Queue(d, l)'
               PROVE  \E j \in DOMAIN Queue(d, l) :
                          /\ Queue(d, l)'[i] = Queue(d, l)[j] /\ Queue(d, l)[j] # b
                          /\ IF d = c /\ l = k THEN j = i + 1 ELSE j = i
    OBVIOUS
  <2>1. CASE d = c /\ l = k
    <3>1. i \in 1 .. Len(q) - 1 /\ i + 1 \in DOMAIN q /\ i + 1 # 1
      BY <1>2, <2>1
    <3>2. q[i + 1] # b
      BY <1>1, <1>2, <1>4, <3>1 DEF BuffersConserved
    <3> QED
      BY <1>2, <2>1, <3>1, <3>2
  <2>2. CASE ~(d = c /\ l = k)
    <3>1. Queue(d, l)' = Queue(d, l)
      BY <1>3, <2>2
    <3>2. Queue(d, l)[i] # b
      BY <1>1, <1>2, <1>4, <2>2, <3>1 DEF BuffersConserved
    <3> QED
      BY <2>2, <3>1, <3>2
  <2> QED
    BY <2>1, <2>2
<1>6. b \in Queued
  BY <1>1, <1>2, <1>4, QueuedAt DEF InSomeQueue
<1>7. Queued' = Queued \ {b}
  <2>1. ASSUME NEW x \in Queued'
        PROVE  x \in Queued \ {b}
    <3>1. PICK d \in Core, l \in Lane : \E i \in DOMAIN Queue(d, l)' : Queue(d, l)'[i] = x
      BY QueuedAt DEF InSomeQueue
    <3> QED
      BY <1>5, <3>1, QueuedAt DEF InSomeQueue
  <2>2. ASSUME NEW x \in Queued, x # b
        PROVE  x \in Queued'
    <3>1. PICK d \in Core, l \in Lane : \E i \in DOMAIN Queue(d, l) : Queue(d, l)[i] = x
      BY QueuedAt DEF InSomeQueue
    <3>2. PICK i \in DOMAIN Queue(d, l) : Queue(d, l)[i] = x
      BY <3>1
    <3>3. CASE d = c /\ l = k
      <4>1. i # 1 /\ i \in 1 .. Len(q)
        BY <1>2, <2>2, <3>2, <3>3
      <4>2. i - 1 \in DOMAIN Queue(c, k)' /\ Queue(c, k)'[i - 1] = x
        BY <1>2, <3>2, <3>3, <4>1
      <4> QED
        BY <1>1, <4>2, QueuedAt DEF InSomeQueue
    <3>4. CASE ~(d = c /\ l = k)
      BY <1>3, <3>2, <3>4, QueuedAt DEF InSomeQueue
    <3> QED
      BY <3>3, <3>4
  <2> QED
    BY <2>1, <2>2
<1>8. /\ (free_buff_queue \cup waiting_buff_queue \cup Queued)' = Buffer
      /\ (free_buff_queue \cap waiting_buff_queue)' = {}
      /\ (Queued \cap (free_buff_queue \cup waiting_buff_queue))' = {}
  BY <1>6, <1>7 DEF Served, BuffersConserved
<1>9. \A d, e \in Core, l, m \in Lane :
          \A i \in DOMAIN Queue(d, l)', j \in DOMAIN Queue(e, m)' :
              Queue(d, l)'[i] = Queue(e, m)'[j] => d = e /\ l = m /\ i = j
  <2> SUFFICES ASSUME NEW d \in Core, NEW e \in Core, NEW l \in Lane, NEW m \in Lane,
                      NEW i \in DOMAIN Queue(d, l)', NEW j \in DOMAIN Queue(e, m)',
                      Queue(d, l)'[i] = Queue(e, m)'[j]
               PROVE  d = e /\ l = m /\ i = j
    OBVIOUS
  <2>1. PICK x \in DOMAIN Queue(d, l) :
            /\ Queue(d, l)'[i] = Queue(d, l)[x]
            /\ IF d = c /\ l = k THEN x = i + 1 ELSE x = i
    BY <1>5
  <2>2. PICK y \in DOMAIN Queue(e, m) :
            /\ Queue(e, m)'[j] = Queue(e, m)[y]
            /\ IF e = c /\ m = k THEN y = j + 1 ELSE y = j
    BY <1>5
  <2>3. d = e /\ l = m /\ x = y
    <3>1. Queue(d, l)[x] = Queue(e, m)[y]
      BY <2>1, <2>2
    <3> QED
      BY <3>1 DEF BuffersConserved
  <2>4. d = c /\ l = k => i \in Nat /\ j \in Nat
    BY <1>2, <2>3
  <2> QED
    BY <2>1, <2>2, <2>3, <2>4
<1> QED
  BY <1>6, <1>7, <1>8, <1>9 DEF BuffersConserved
-----------------------------------------------------------------------------
(***************************************************************************)
(* The buffers in the bank queues, and the requests in them.               *)
(***************************************************************************)
InSomeBank(b) ==
    \E c \in Core, k \in Bank : \E i \in DOMAIN bank_queue[c][k] : bank_queue[c][k][i] = b

\* The same for the bank queues alone.
LEMMA BankQueuedAt ==
    ASSUME NEW b
    PROVE  (b \in QueuedInBanks <=> InSomeBank(b)) /\ (b \in QueuedInBanks' <=> InSomeBank(b)')
<1>1. b \in QueuedInBanks <=> InSomeBank(b)
  <2>1. \A c \in Core, k \in Bank : Elements(bank_queue[c][k]) \subseteq QueuedInBanks
    BY DEF QueuedInBanks
  <2>2. b \in QueuedInBanks => \E c \in Core, k \in Bank : b \in Elements(bank_queue[c][k])
    BY DEF QueuedInBanks
  <2> QED
    BY <2>1, <2>2 DEF Elements, InSomeBank
<1>2. b \in QueuedInBanks' <=> InSomeBank(b)'
  <2>1. \A c \in Core, k \in Bank : Elements(bank_queue[c][k])' \subseteq QueuedInBanks'
    BY DEF QueuedInBanks
  <2>2. b \in QueuedInBanks' => \E c \in Core, k \in Bank : b \in Elements(bank_queue[c][k])'
    BY DEF QueuedInBanks
  <2> QED
    BY <2>1, <2>2 DEF Elements, InSomeBank
<1> QED
  BY <1>1, <1>2

LEMMA BanksAreLanes ==
    ASSUME NEW c \in Core, NEW k \in Bank
    PROVE  k \in Lane /\ Queue(c, k) = bank_queue[c][k] /\ Queue(c, k)' = bank_queue'[c][k]
BY Constants DEF Queue, Lane

\* The buffers of the bank queues are in no other place.
LEMMA BankBuffers ==
    ASSUME TypeOK, BuffersConserved
    PROVE  /\ QueuedInBanks \subseteq Queued /\ Queued \subseteq Buffer
           /\ QueuedInBanks \cap (free_buff_queue \cup waiting_buff_queue) = {}
           /\ \A c \in Core : \A i \in DOMAIN urgent_queue[c] :
                 urgent_queue[c][i] \notin QueuedInBanks
<1>1. QueuedInBanks \subseteq Queued
  BY BankQueuedAt, QueuedAt, BanksAreLanes DEF InSomeBank, InSomeQueue
<1>2. ASSUME NEW c \in Core, NEW i \in DOMAIN urgent_queue[c],
             urgent_queue[c][i] \in QueuedInBanks
      PROVE  FALSE
  <2>1. PICK d \in Core, k \in Bank : \E j \in DOMAIN bank_queue[d][k] :
            bank_queue[d][k][j] = urgent_queue[c][i]
    BY <1>2, BankQueuedAt DEF InSomeBank
  <2>2. /\ Queue(c, URGENT) = urgent_queue[c] /\ URGENT \in Lane
        /\ Queue(d, k) = bank_queue[d][k] /\ k \in Lane /\ k # URGENT
    BY Constants DEF Queue, Lane
  <2> QED
    BY <2>1, <2>2 DEF BuffersConserved
<1> QED
  BY <1>1, <1>2 DEF BuffersConserved

\* Which buffers the bank queues hold after each action.
LEMMA TakenInBank ==
    ASSUME TypeOK, BuffersConserved, NEW c, NEW k \in Bank, NEW b, Taken(c, k, b)
    PROVE  QueuedInBanks' = QueuedInBanks \cup {b} /\ b \notin QueuedInBanks
<1>1. b \notin QueuedInBanks
  BY TakenConserves, BankBuffers
<1>2. ASSUME NEW x \in QueuedInBanks'
      PROVE  x \in QueuedInBanks \cup {b}
  <2>1. PICK d \in Core, l \in Bank : \E i \in DOMAIN Queue(d, l)' : Queue(d, l)'[i] = x
    BY BankQueuedAt, BanksAreLanes DEF InSomeBank
  <2>2. x = b \/ \E i \in DOMAIN Queue(d, l) : Queue(d, l)[i] = x
    BY <2>1, BanksAreLanes, TakenPlaces
  <2> QED
    BY <2>2, BankQueuedAt, BanksAreLanes DEF InSomeBank
<1>3. ASSUME NEW x \in QueuedInBanks
      PROVE  x \in QueuedInBanks'
  <2>1. PICK d \in Core, l \in Bank : \E i \in DOMAIN Queue(d, l) : Queue(d, l)[i] = x
    BY BankQueuedAt, BanksAreLanes DEF InSomeBank
  <2>2. \E i \in DOMAIN Queue(d, l)' : Queue(d, l)'[i] = x
    BY <2>1, BanksAreLanes, TakenPlaces
  <2> QED
    BY <2>2, BankQueuedAt, BanksAreLanes DEF InSomeBank
<1>4. b \in QueuedInBanks'
  <2>1. /\ c \in Core /\ Queue(c, k) \in Seq(Buffer)
        /\ Queue(c, k)' = Append(Queue(c, k), b)
    BY LaneQueues DEF Taken
  <2>2. \E i \in DOMAIN Queue(c, k)' : Queue(c, k)'[i] = b
    BY <2>1
  <2> QED
    BY <2>1, <2>2, BankQueuedAt, BanksAreLanes DEF InSomeBank
<1> QED
  BY <1>1, <1>2, <1>3, <1>4

LEMMA ServedInBank ==
    ASSUME TypeOK, BuffersConserved,
           NEW c, NEW k \in Bank, NEW b, NEW done, Served(c, k, b, done)
    PROVE  QueuedInBanks' = QueuedInBanks \ {b} /\ b \in QueuedInBanks
<1>1. c \in Core /\ k \in Lane
  BY DEF Served
<1> DEFINE q == Queue(c, k)
<1>2. /\ q \in Seq(Buffer) /\ q[1] = b /\ Len(q) \in Nat \ {0}
      /\ DOMAIN q = 1 .. Len(q) /\ DOMAIN Queue(c, k)' = 1 .. Len(q) - 1
      /\ \A i \in 1 .. Len(q) - 1 : Queue(c, k)'[i] = q[i + 1]
  BY <1>1, ServedPlaces
<1>3. b \in QueuedInBanks
  <2>1. 1 \in DOMAIN Queue(c, k) /\ Queue(c, k)[1] = b
    BY <1>2
  <2> QED
    BY <1>1, <2>1, BankQueuedAt, BanksAreLanes DEF InSomeBank
<1>4. ASSUME NEW x \in QueuedInBanks'
      PROVE  x \in QueuedInBanks \ {b}
  <2>1. PICK d \in Core, l \in Bank : \E i \in DOMAIN Queue(d, l)' : Queue(d, l)'[i] = x
    BY BankQueuedAt, BanksAreLanes DEF InSomeBank
  <2>2. l \in Lane
    BY BanksAreLanes
  <2>3. \E i \in DOMAIN Queue(d, l) : Queue(d, l)[i] = x
    <3>1. CASE d = c /\ l = k
      BY <1>2, <2>1, <3>1
    <3>2. CASE ~(d = c /\ l = k)
      BY <2>1, <2>2, <3>2, ServedPlaces
    <3> QED
      BY <3>1, <3>2
  <2>4. x # b
    <3>1. x \in Queued'
      BY <2>1, <2>2, QueuedAt DEF InSomeQueue
    <3> QED
      BY <3>1, ServedConserves
  <2> QED
    BY <2>3, <2>4, BankQueuedAt, BanksAreLanes DEF InSomeBank
<1>5. ASSUME NEW x \in QueuedInBanks, x # b
      PROVE  x \in QueuedInBanks'
  <2>1. PICK d \in Core, l \in Bank : \E i \in DOMAIN Queue(d, l) : Queue(d, l)[i] = x
    BY BankQueuedAt, BanksAreLanes DEF InSomeBank
  <2>2. PICK i \in DOMAIN Queue(d, l) : Queue(d, l)[i] = x
    BY <2>1
  <2>3. \E j \in DOMAIN Queue(d, l)' : Queue(d, l)'[j] = x
    <3>1. CASE d = c /\ l = k
      <4>1. i # 1 /\ i \in 1 .. Len(q)
        BY <1>2, <1>5, <2>2, <3>1
      <4>2. i - 1 \in DOMAIN Queue(c, k)' /\ Queue(c, k)'[i - 1] = x
        BY <1>2, <2>2, <3>1, <4>1
      <4> QED
        BY <3>1, <4>2
    <3>2. CASE ~(d = c /\ l = k)
      BY <2>1, <3>2, ServedPlaces, BanksAreLanes
    <3> QED
      BY <3>1, <3>2
  <2> QED
    BY <2>3, BankQueuedAt, BanksAreLanes DEF InSomeBank
<1> QED
  BY <1>3, <1>4, <1>5

\* A filled half is one of the filled halves.
LEMMA HalfFilled ==
    ASSUME NEW b, NEW h
    PROVE  /\ <<b, h>> \in FilledHalves <=>
                 b \in QueuedInBanks /\ h \in Half /\ lpn[b][h] # RSP_INVALID_LPN
           /\ <<b, h>> \in FilledHalves' <=>
                 b \in QueuedInBanks' /\ h \in Half /\ lpn'[b][h] # RSP_INVALID_LPN
BY DEF FilledHalves

\* A set of halves is known by its pairs.
LEMMA HalvesArePairs ==
    /\ \A h \in FilledHalves : \E b \in QueuedInBanks, x \in Half : h = <<b, x>>
    /\ \A h \in FilledHalves' : \E b \in QueuedInBanks', x \in Half : h = <<b, x>>
BY DEF FilledHalves

\* There are finitely many of them, two to a buffer.
LEMMA FilledHalvesFinite ==
    ASSUME TypeOK, BuffersConserved
    PROVE  IsFiniteSet(FilledHalves) /\ Cardinality(FilledHalves) \in Nat
<1>1. IsFiniteSet(Half)
  <2>1. Half = 0 .. 1
    BY DEF Half
  <2>2. 0 \in Int /\ 1 \in Int
    OBVIOUS
  <2> QED
    BY <2>1, <2>2, FS_Interval
<1>2. IsFiniteSet(Buffer \X Half)
  BY <1>1, Constants, FS_Product
<1>3. FilledHalves \in SUBSET (Buffer \X Half)
  BY BankBuffers DEF FilledHalves
<1>4. IsFiniteSet(FilledHalves)
  BY <1>2, <1>3, FS_Subset
<1> QED
  BY <1>4, FS_CardinalityType

\* The requests of a buffer are its filled halves.
LEMMA RequestsOf ==
    ASSUME NEW b, lpn[b][0] # RSP_INVALID_LPN
    PROVE  Requests(b) = IF lpn[b][1] = RSP_INVALID_LPN THEN 1 ELSE 2
<1> DEFINE S == {half \in Half : lpn[b][half] # RSP_INVALID_LPN}
<1>1. CASE lpn[b][1] = RSP_INVALID_LPN
  <2>1. S = {0}
    BY <1>1 DEF Half
  <2>2. Cardinality({0}) = 1
    BY FS_Singleton
  <2> QED
    BY <1>1, <2>1, <2>2 DEF Requests
<1>2. CASE lpn[b][1] # RSP_INVALID_LPN
  <2>1. S = {0} \cup {1} /\ 1 \notin {0}
    BY <1>2 DEF Half
  <2>2. IsFiniteSet({0}) /\ Cardinality({0}) = 1
    BY FS_Singleton
  <2>3. Cardinality({0} \cup {1}) = 2
    BY <2>1, <2>2, FS_AddElement
  <2> QED
    BY <1>2, <2>1, <2>3 DEF Requests
<1> QED
  BY <1>1, <1>2

\* The requests of a bank buffer that is served are not in the queues any more.
LEMMA ServedRequests ==
    ASSUME TypeOK, BuffersConserved, PartialIsYoungest,
           NEW c, NEW k \in Bank, NEW b, NEW done, Served(c, k, b, done)
    PROVE  /\ lpn[b][0] # RSP_INVALID_LPN /\ Requests(b) \in {1, 2}
           /\ Cardinality(FilledHalves') = Cardinality(FilledHalves) - Requests(b)
           /\ Cardinality(FilledHalves') \in Nat
<1>1. /\ c \in Core /\ done \subseteq waiting_buff_queue \cup {b}
      /\ lpn' = [x \in Buffer |-> IF x \in done THEN NoLPN ELSE lpn[x]]
  BY DEF Served
<1>2. bank_queue[c][k][1] = b /\ 1 \in DOMAIN bank_queue[c][k]
  BY <1>1, ServedPlaces, BanksAreLanes
<1>3. lpn[b][0] # RSP_INVALID_LPN
  BY <1>1, <1>2 DEF PartialIsYoungest
<1>4. Requests(b) = IF lpn[b][1] = RSP_INVALID_LPN THEN 1 ELSE 2
  BY <1>3, RequestsOf
<1>5. QueuedInBanks' = QueuedInBanks \ {b} /\ b \in QueuedInBanks
  BY ServedInBank
<1>6. \A x \in QueuedInBanks' : x \notin done /\ x \in Buffer
  BY <1>1, <1>5, BankBuffers
<1>7. \A x \in QueuedInBanks' : lpn'[x] = lpn[x]
  BY <1>1, <1>6
<1>8. FilledHalves' = (FilledHalves \ {<<b, 0>>}) \ {<<b, 1>>}
  <2>1. ASSUME NEW h \in FilledHalves'
        PROVE  h \in (FilledHalves \ {<<b, 0>>}) \ {<<b, 1>>}
    <3>1. PICK x \in QueuedInBanks', y \in Half : h = <<x, y>>
      BY HalvesArePairs
    <3>2. lpn'[x][y] # RSP_INVALID_LPN
      BY <2>1, <3>1, HalfFilled
    <3>3. x # b /\ x \in QueuedInBanks
      BY <1>5
    <3>4. <<x, y>> \in FilledHalves
      BY <1>7, <3>2, <3>3, HalfFilled
    <3> QED
      BY <3>1, <3>3, <3>4
  <2>2. ASSUME NEW h \in FilledHalves, h # <<b, 0>>, h # <<b, 1>>
        PROVE  h \in FilledHalves'
    <3>1. PICK x \in QueuedInBanks, y \in Half : h = <<x, y>>
      BY HalvesArePairs
    <3>2. x # b
      BY <2>2, <3>1 DEF Half
    <3>3. x \in QueuedInBanks' /\ lpn'[x][y] = lpn[x][y]
      BY <1>5, <1>7, <3>2
    <3>4. lpn[x][y] # RSP_INVALID_LPN
      BY <2>2, <3>1, HalfFilled
    <3> QED
      BY <3>1, <3>3, <3>4, HalfFilled
  <2> QED
    BY <2>1, <2>2
<1>9. <<b, 0>> \in FilledHalves /\ (<<b, 1>> \in FilledHalves <=> lpn[b][1] # RSP_INVALID_LPN)
  BY <1>3, <1>5, HalfFilled DEF Half
<1>10. IsFiniteSet(FilledHalves) /\ Cardinality(FilledHalves) \in Nat
  BY FilledHalvesFinite
<1> DEFINE Rest == FilledHalves \ {<<b, 0>>}
<1>11. IsFiniteSet(Rest) /\ Cardinality(Rest) = Cardinality(FilledHalves) - 1
  BY <1>9, <1>10, FS_RemoveElement
<1>12. <<b, 1>> \in Rest <=> lpn[b][1] # RSP_INVALID_LPN
  BY <1>9
<1> HIDE DEF Rest
<1>13. Cardinality(Rest \ {<<b, 1>>}) =
           IF <<b, 1>> \in Rest THEN Cardinality(Rest) - 1 ELSE Cardinality(Rest)
  BY <1>11, FS_RemoveElement
<1>14. FilledHalves' = Rest \ {<<b, 1>>}
  BY <1>8 DEF Rest
<1>15. Cardinality(FilledHalves') = Cardinality(FilledHalves) - Requests(b)
  BY <1>4, <1>10, <1>11, <1>12, <1>13, <1>14
<1>16. Cardinality(FilledHalves') \in Nat
  BY <1>11, <1>14, FS_RemoveElement, FS_CardinalityType
<1> QED
  BY <1>3, <1>4, <1>15, <1>16

\* A write adds one half.
LEMMA HalfAdded ==
    ASSUME TypeOK, BuffersConserved, NEW b, NEW h \in Half, NEW v, v # RSP_INVALID_LPN,
           lpn' = [lpn EXCEPT ![b][h] = v], b \in Buffer,
           QueuedInBanks' = QueuedInBanks \cup {b}, <<b, h>> \notin FilledHalves,
           b \in QueuedInBanks \/ \A x \in Half : lpn[b][x] = RSP_INVALID_LPN
    PROVE  Cardinality(FilledHalves') = Cardinality(FilledHalves) + 1
<1>1. /\ lpn'[b][h] = v
      /\ \A x \in Buffer, y \in Half : x # b \/ y # h => lpn'[x][y] = lpn[x][y]
  BY DEF TypeOK
<1>2. QueuedInBanks \subseteq Buffer
  BY BankBuffers
<1>3. FilledHalves' = FilledHalves \cup {<<b, h>>}
  <2>1. ASSUME NEW f \in FilledHalves'
        PROVE  f \in FilledHalves \cup {<<b, h>>}
    <3>1. PICK x \in QueuedInBanks', y \in Half : f = <<x, y>>
      BY HalvesArePairs
    <3>2. lpn'[x][y] # RSP_INVALID_LPN
      BY <2>1, <3>1, HalfFilled
    <3>3. ASSUME x # b \/ y # h
          PROVE  x \in QueuedInBanks /\ lpn[x][y] # RSP_INVALID_LPN
      BY <1>1, <1>2, <3>2, <3>3
    <3> QED
      BY <3>1, <3>3, HalfFilled
  <2>2. ASSUME NEW f \in FilledHalves
        PROVE  f \in FilledHalves'
    <3>1. PICK x \in QueuedInBanks, y \in Half : f = <<x, y>>
      BY HalvesArePairs
    <3>2. lpn[x][y] # RSP_INVALID_LPN
      BY <2>2, <3>1, HalfFilled
    <3>3. lpn'[x][y] # RSP_INVALID_LPN
      BY <1>1, <1>2, <3>2
    <3> QED
      BY <3>1, <3>3, HalfFilled
  <2>3. <<b, h>> \in FilledHalves'
    BY <1>1, HalfFilled
  <2> QED
    BY <2>1, <2>2, <2>3
<1> QED
  BY <1>3, FilledHalvesFinite, FS_AddElement

\* A change outside the bank queues adds none.
LEMMA HalvesStay ==
    ASSUME TypeOK, BuffersConserved, UNCHANGED bank_queue,
           \A b \in QueuedInBanks : lpn'[b] = lpn[b]
    PROVE  QueuedInBanks' = QueuedInBanks /\ FilledHalves' = FilledHalves
<1>1. QueuedInBanks' = QueuedInBanks
  BY DEF QueuedInBanks
<1> QED
  BY <1>1 DEF FilledHalves
-----------------------------------------------------------------------------
(***************************************************************************)
(* The inductive invariant.  Besides the properties it says what waits for *)
(* a flash program, that a free buffer is clean (HIL_buff_init), that the  *)
(* loop is entered at the threshold, and that the writes are served only   *)
(* when no command is left.                                                *)
(***************************************************************************)
KeptWaits ==
    /\ waiting_buff_queue = kept[0] \cup kept[1]
    /\ kept[0] \cap kept[1] = {}
    /\ \A core \in Core : Cardinality(kept[core]) <= MaxKept

FreeIsClean == \A b \in free_buff_queue : lpn[b] = NoLPN

BelowThreshold ==
    /\ on_going_urgent_request + on_going_normal_request <= BUFF_THRESHOLD
    /\ pc \in {"idle", "read", "read_urgent", "read_page"} =>
          on_going_urgent_request + on_going_normal_request < BUFF_THRESHOLD

NormalAlone == pc = "drain_normal" => on_going_urgent_request = 0

HILInv ==
    /\ TypeOK /\ BuffersConserved /\ CountersMatch /\ PartialIsYoungest
    /\ KeptWaits /\ FreeIsClean /\ BelowThreshold /\ NormalAlone

\* The bounds of the counters in the type invariant.
LEMMA CounterBounds ==
    ASSUME on_going_urgent_request' \in Nat, on_going_normal_request' \in Nat,
           BelowThreshold'
    PROVE  /\ on_going_urgent_request' \in 0 .. BUFF_THRESHOLD
           /\ on_going_normal_request' \in 0 .. BUFF_THRESHOLD
<1>1. on_going_urgent_request' + on_going_normal_request' <= BUFF_THRESHOLD
  BY DEF BelowThreshold
<1>2. \A m, n, t \in Nat : m + n <= t => m \in 0 .. t /\ n \in 0 .. t
  OBVIOUS
<1> QED
  BY <1>1, <1>2, Constants

\* The lengths of the urgent queues, added up.
LEMMA UrgentSum ==
    ASSUME TypeOK, NEW c \in Core, NEW d \in Int,
           Len(urgent_queue'[c]) = Len(urgent_queue[c]) + d,
           \A e \in Core : e # c => urgent_queue'[e] = urgent_queue[e]
    PROVE  Len(urgent_queue'[0]) + Len(urgent_queue'[1])
               = Len(urgent_queue[0]) + Len(urgent_queue[1]) + d
<1>1. PICK m \in Nat, n \in Nat : m = Len(urgent_queue[0]) /\ n = Len(urgent_queue[1])
  BY DEF TypeOK, Core
<1>2. PICK x, y : x = Len(urgent_queue'[0]) /\ y = Len(urgent_queue'[1])
  OBVIOUS
<1>3. (x = m + d /\ y = n) \/ (x = m /\ y = n + d)
  BY <1>1, <1>2 DEF Core
<1>4. x + y = m + n + d
  BY <1>3
<1> QED
  BY <1>1, <1>2, <1>4

\* Each action keeps the invariant: a command is queued (lines 150-172).
LEMMA WriteUrgentKeeps ==
    ASSUME HILInv, NEW l \in LPN, WriteUrgent(l)
    PROVE  HILInv'
<1>1. /\ TypeOK /\ BuffersConserved /\ CountersMatch /\ PartialIsYoungest
      /\ KeptWaits /\ FreeIsClean /\ BelowThreshold /\ NormalAlone
  BY DEF HILInv
<1>2. PICK b \in free_buff_queue :
          Taken(CoreOf(l), URGENT, b) /\ lpn' = [lpn EXCEPT ![b][0] = InCore(l)]
  BY <1>1, WriteUrgentTakes
<1>3. /\ free_buff_queue' = free_buff_queue \ {b}
      /\ UNCHANGED <<waiting_buff_queue, bank_queue, partial, on_going_normal_request,
                     core_iter, kept>>
      /\ on_going_urgent_request' = on_going_urgent_request + 1
      /\ pc = "idle"
      /\ CheckThreshold(on_going_urgent_request + on_going_normal_request + 1)
  BY <1>2 DEF Taken, WriteUrgent
<1>4. b \in Buffer /\ CoreOf(l) \in Core /\ InCore(l) \in {InCore(x) : x \in LPN}
  BY <1>1, Addressing DEF TypeOK
<1>5. /\ on_going_urgent_request \in Nat /\ on_going_normal_request \in Nat
      /\ BUFF_THRESHOLD \in Nat
  BY <1>1, Constants DEF TypeOK
<1>6. BuffersConserved'
  BY <1>1, <1>2, TakenConserves
<1>7. \A x \in QueuedInBanks : x # b /\ lpn'[x] = lpn[x]
  BY <1>1, <1>2, <1>4, BankBuffers DEF TypeOK
<1>8. FilledHalves' = FilledHalves
  BY <1>1, <1>3, <1>7, HalvesStay
<1>9. CountersMatch'
  <2>1. /\ Queue(CoreOf(l), URGENT)' = Append(Queue(CoreOf(l), URGENT), b)
        /\ \A d \in Core : d # CoreOf(l) => Queue(d, URGENT)' = Queue(d, URGENT)
    BY <1>2 DEF Taken, OthersStay, Lane
  <2>2. /\ urgent_queue'[CoreOf(l)] = Append(urgent_queue[CoreOf(l)], b)
        /\ \A d \in Core : d # CoreOf(l) => urgent_queue'[d] = urgent_queue[d]
    BY <2>1 DEF Queue
  <2>3. /\ Len(urgent_queue'[CoreOf(l)]) = Len(urgent_queue[CoreOf(l)]) + 1
        /\ \A d \in Core : Len(urgent_queue[d]) \in Nat
    BY <1>1, <1>4, <2>2 DEF TypeOK
  <2>4. Len(urgent_queue'[0]) + Len(urgent_queue'[1])
            = Len(urgent_queue[0]) + Len(urgent_queue[1]) + 1
    <3>1. TypeOK /\ CoreOf(l) \in Core /\ 1 \in Int
      BY <1>1, <1>4
    <3> QED
      BY <2>2, <2>3, <3>1, UrgentSum, Zenon
  <2> QED
    BY <1>1, <1>3, <1>8, <2>4 DEF CountersMatch
<1>10. PartialIsYoungest'
  <2>1. \A c \in Core, k \in Bank : \A i \in DOMAIN bank_queue[c][k] :
            lpn'[bank_queue[c][k][i]] = lpn[bank_queue[c][k][i]]
    BY <1>7, BankQueuedAt DEF InSomeBank
  <2> QED
    BY <1>1, <1>3, <2>1 DEF PartialIsYoungest
<1>11. KeptWaits'
  BY <1>1, <1>3 DEF KeptWaits
<1>12. FreeIsClean'
  BY <1>1, <1>2, <1>3 DEF FreeIsClean, TypeOK
<1>13. BelowThreshold' /\ NormalAlone'
  BY <1>1, <1>3, <1>5 DEF BelowThreshold, NormalAlone, CheckThreshold
<1>14. TypeOK'
  <2>1. urgent_queue' \in [Core -> Seq(Buffer)]
    BY <1>1, <1>4 DEF TypeOK, WriteUrgent
  <2>2. lpn' \in [Buffer -> [Half -> {InCore(x) : x \in LPN} \cup {RSP_INVALID_LPN}]]
    BY <1>1, <1>2, <1>4 DEF TypeOK, Half
  <2>3. /\ on_going_urgent_request' \in 0 .. BUFF_THRESHOLD
        /\ on_going_normal_request' \in 0 .. BUFF_THRESHOLD
    BY <1>3, <1>5, <1>13, CounterBounds
  <2>4. pc' \in {"idle", "drain"}
    BY <1>3 DEF CheckThreshold
  <2> QED
    BY <1>1, <1>3, <2>1, <2>2, <2>3, <2>4 DEF TypeOK
<1> QED
  BY <1>6, <1>9, <1>10, <1>11, <1>12, <1>13, <1>14 DEF HILInv

\* A write fills the second half (lines 178-188).
LEMMA WriteSecondHalfKeeps ==
    ASSUME HILInv, NEW l \in LPN, WriteSecondHalf(l)
    PROVE  HILInv'
<1> DEFINE c == CoreOf(l)
           k == BankOf(l)
           q == bank_queue[c][k]
           b == Last(q)
<1>1. /\ TypeOK /\ BuffersConserved /\ CountersMatch /\ PartialIsYoungest
      /\ KeptWaits /\ FreeIsClean /\ BelowThreshold /\ NormalAlone
  BY DEF HILInv
<1>2. /\ q # <<>> /\ partial[b]
      /\ lpn' = [lpn EXCEPT ![b][1] = InCore(l)]
      /\ partial' = [partial EXCEPT ![b] = FALSE]
      /\ UNCHANGED <<queues, on_going_urgent_request, core_iter, kept>>
      /\ on_going_normal_request' = on_going_normal_request + 1
      /\ pc = "idle"
      /\ CheckThreshold(on_going_urgent_request + on_going_normal_request + 1)
  BY DEF WriteSecondHalf, HasPartial
<1>3. /\ c \in Core /\ k \in Bank
      /\ InCore(l) \in {InCore(x) : x \in LPN} /\ InCore(l) # RSP_INVALID_LPN
  BY Addressing
<1> HIDE DEF c, k
<1>4. /\ Len(q) \in DOMAIN q /\ q[Len(q)] = b /\ b \in Buffer
  BY <1>1, <1>2, <1>3 DEF TypeOK, Last
<1> HIDE DEF b
<1>5. /\ on_going_urgent_request \in Nat /\ on_going_normal_request \in Nat
      /\ BUFF_THRESHOLD \in Nat
  BY <1>1, Constants DEF TypeOK
<1>6. BuffersConserved'
  BY <1>1, <1>2 DEF BuffersConserved, queues, Queued, Queue
<1>7. b \in QueuedInBanks /\ QueuedInBanks' = QueuedInBanks
  <2>1. b \in QueuedInBanks
    BY <1>3, <1>4, BankQueuedAt DEF InSomeBank
  <2> QED
    BY <1>2, <2>1 DEF QueuedInBanks, queues
<1>8. lpn[b][1] = RSP_INVALID_LPN /\ lpn[b][0] # RSP_INVALID_LPN
  BY <1>1, <1>2, <1>3, <1>4 DEF PartialIsYoungest
<1>9. CountersMatch'
  <2>1. <<b, 1>> \notin FilledHalves
    BY <1>8, HalfFilled
  <2>2. Cardinality(FilledHalves') = Cardinality(FilledHalves) + 1
    BY <1>1, <1>2, <1>3, <1>4, <1>7, <2>1, HalfAdded DEF Half
  <2> QED
    BY <1>1, <1>2, <2>2 DEF CountersMatch, queues
<1>10. PartialIsYoungest'
  <2> SUFFICES ASSUME NEW d \in Core, NEW m \in Bank, NEW i \in DOMAIN bank_queue[d][m],
                      NEW x, x = bank_queue[d][m][i]
               PROVE  /\ lpn'[x][0] # RSP_INVALID_LPN
                      /\ partial'[x] <=> lpn'[x][1] = RSP_INVALID_LPN
                      /\ partial'[x] => i = Len(bank_queue[d][m])
    BY <1>2 DEF PartialIsYoungest, queues
  <2>1. /\ x \in Buffer
        /\ lpn[x][0] # RSP_INVALID_LPN
        /\ partial[x] <=> lpn[x][1] = RSP_INVALID_LPN
        /\ partial[x] => i = Len(bank_queue[d][m])
    BY <1>1 DEF PartialIsYoungest, TypeOK
  <2>2. CASE x = b
    BY <1>1, <1>2, <1>3, <1>8, <2>1, <2>2 DEF TypeOK, Half
  <2>3. CASE x # b
    BY <1>1, <1>2, <2>1, <2>3 DEF TypeOK
  <2> QED
    BY <2>2, <2>3
<1>11. KeptWaits'
  BY <1>1, <1>2 DEF KeptWaits, queues
<1>12. FreeIsClean'
  <2>1. b \notin free_buff_queue
    BY <1>1, <1>7, BankBuffers
  <2> QED
    BY <1>1, <1>2, <2>1 DEF FreeIsClean, TypeOK, queues
<1>13. BelowThreshold' /\ NormalAlone'
  BY <1>1, <1>2, <1>5 DEF BelowThreshold, NormalAlone, CheckThreshold
<1>14. TypeOK'
  <2>1. lpn' \in [Buffer -> [Half -> {InCore(x) : x \in LPN} \cup {RSP_INVALID_LPN}]]
    BY <1>1, <1>2, <1>3 DEF TypeOK, Half
  <2>2. /\ on_going_urgent_request' \in 0 .. BUFF_THRESHOLD
        /\ on_going_normal_request' \in 0 .. BUFF_THRESHOLD
    BY <1>2, <1>5, <1>13, CounterBounds
  <2>3. pc' \in {"idle", "drain"}
    BY <1>2 DEF CheckThreshold
  <2>4. partial' \in [Buffer -> BOOLEAN]
    BY <1>1, <1>2 DEF TypeOK
  <2> QED
    BY <1>1, <1>2, <2>1, <2>2, <2>3, <2>4 DEF TypeOK, queues
<1> QED
  BY <1>6, <1>9, <1>10, <1>11, <1>12, <1>13, <1>14 DEF HILInv

\* A write begins a buffer (lines 190-204).
LEMMA WriteFirstHalfKeeps ==
    ASSUME HILInv, NEW l \in LPN, WriteFirstHalf(l)
    PROVE  HILInv'
<1> DEFINE c == CoreOf(l)
           k == BankOf(l)
           q == bank_queue[c][k]
<1>1. /\ TypeOK /\ BuffersConserved /\ CountersMatch /\ PartialIsYoungest
      /\ KeptWaits /\ FreeIsClean /\ BelowThreshold /\ NormalAlone
  BY DEF HILInv
<1>2. PICK b \in free_buff_queue :
          /\ Taken(c, k, b)
          /\ lpn' = [lpn EXCEPT ![b][0] = InCore(l)]
          /\ partial' = [partial EXCEPT ![b] = TRUE]
  BY <1>1, WriteFirstHalfTakes
<1>3. /\ free_buff_queue' = free_buff_queue \ {b}
      /\ UNCHANGED <<waiting_buff_queue, urgent_queue, on_going_urgent_request,
                     core_iter, kept>>
      /\ on_going_normal_request' = on_going_normal_request + 1
      /\ pc = "idle" /\ ~HasPartial(q)
      /\ CheckThreshold(on_going_urgent_request + on_going_normal_request + 1)
  BY <1>2 DEF Taken, WriteFirstHalf
<1>4. /\ b \in Buffer /\ c \in Core /\ k \in Bank
      /\ InCore(l) \in {InCore(x) : x \in LPN} /\ InCore(l) # RSP_INVALID_LPN
  BY <1>1, Addressing DEF TypeOK
<1>5. /\ on_going_urgent_request \in Nat /\ on_going_normal_request \in Nat
      /\ BUFF_THRESHOLD \in Nat
  BY <1>1, Constants DEF TypeOK
<1> HIDE DEF c, k
<1>6. BuffersConserved'
  BY <1>1, <1>2, TakenConserves
<1>7. QueuedInBanks' = QueuedInBanks \cup {b} /\ b \notin QueuedInBanks
  BY <1>1, <1>2, <1>4, TakenInBank
<1>8. lpn[b] = NoLPN /\ \A x \in Half : lpn[b][x] = RSP_INVALID_LPN
  BY <1>1, <1>2 DEF FreeIsClean, NoLPN
<1>9. CountersMatch'
  <2>1. <<b, 0>> \notin FilledHalves
    BY <1>7, HalfFilled
  <2>2. Cardinality(FilledHalves') = Cardinality(FilledHalves) + 1
    BY <1>1, <1>2, <1>4, <1>7, <1>8, <2>1, HalfAdded DEF Half
  <2> QED
    BY <1>1, <1>3, <2>2 DEF CountersMatch
<1>10. /\ lpn'[b][0] = InCore(l) /\ lpn'[b][1] = RSP_INVALID_LPN /\ partial'[b]
       /\ \A x \in Buffer : x # b => lpn'[x] = lpn[x] /\ partial'[x] = partial[x]
  BY <1>1, <1>2, <1>4, <1>8 DEF TypeOK, Half
<1>11. PartialIsYoungest'
  <2> SUFFICES ASSUME NEW d \in Core, NEW m \in Bank, NEW i \in DOMAIN bank_queue'[d][m],
                      NEW x, x = bank_queue'[d][m][i]
               PROVE  /\ lpn'[x][0] # RSP_INVALID_LPN
                      /\ partial'[x] <=> lpn'[x][1] = RSP_INVALID_LPN
                      /\ partial'[x] => i = Len(bank_queue'[d][m])
    BY DEF PartialIsYoungest
  <2>1. \/ i \in DOMAIN bank_queue[d][m]
        \/ d = c /\ m = k /\ x = b /\ i = Len(q) + 1
    BY <1>1, <1>2, BanksAreLanes, TakenPlaces
  <2>2. /\ q \in Seq(Buffer)
        /\ bank_queue'[c][k] = Append(q, b)
        /\ Len(bank_queue'[c][k]) = Len(q) + 1
    <3>1. q \in Seq(Buffer)
      BY <1>1, <1>4 DEF TypeOK
    <3>2. bank_queue'[c][k] = Append(q, b)
      BY <1>2, <1>4, BanksAreLanes DEF Taken
    <3> HIDE DEF q
    <3> QED
      BY <1>4, <3>1, <3>2
  <2>3. CASE i \in DOMAIN bank_queue[d][m]
    <3>1. x = bank_queue[d][m][i]
      BY <1>1, <1>2, <2>3, BanksAreLanes, TakenPlaces
    <3>2. x \in QueuedInBanks /\ x # b /\ x \in Buffer
      BY <1>1, <1>7, <2>3, <3>1, BankQueuedAt, BankBuffers DEF InSomeBank
    <3>3. /\ lpn[x][0] # RSP_INVALID_LPN
          /\ partial[x] <=> lpn[x][1] = RSP_INVALID_LPN
          /\ partial[x] => i = Len(bank_queue[d][m])
      BY <1>1, <2>3, <3>1 DEF PartialIsYoungest
    <3>4. CASE d = c /\ m = k
      <4>1. ~partial[x]
        <5>1. i = Len(q) => x = Last(q) /\ q # <<>>
          BY <2>2, <2>3, <3>1, <3>4 DEF Last
        <5> QED
          BY <1>3, <3>3, <3>4, <5>1 DEF HasPartial
      <4> QED
        BY <1>10, <3>2, <3>3, <4>1
    <3>5. CASE ~(d = c /\ m = k)
      <4>1. bank_queue'[d][m] = bank_queue[d][m]
        BY <1>2, <3>5, BanksAreLanes DEF Taken, OthersStay
      <4> QED
        BY <1>10, <3>2, <3>3, <4>1
    <3> QED
      BY <3>4, <3>5
  <2>4. CASE d = c /\ m = k /\ x = b /\ i = Len(q) + 1
    BY <1>4, <1>10, <2>2, <2>4
  <2> QED
    BY <2>1, <2>3, <2>4
<1>12. KeptWaits'
  BY <1>1, <1>3 DEF KeptWaits
<1>13. FreeIsClean'
  BY <1>1, <1>3, <1>10 DEF FreeIsClean, TypeOK
<1>14. BelowThreshold' /\ NormalAlone'
  BY <1>1, <1>3, <1>5 DEF BelowThreshold, NormalAlone, CheckThreshold
<1>15. TypeOK'
  <2>1. bank_queue' \in [Core -> [Bank -> Seq(Buffer)]]
    <3>1. PICK x \in free_buff_queue :
              bank_queue' = [bank_queue EXCEPT ![c][k] = Append(@, x)]
      BY DEF WriteFirstHalf, c, k
    <3>2. q \in Seq(Buffer) /\ x \in Buffer
      BY <1>1, <1>4 DEF TypeOK
    <3>3. Append(q, x) \in Seq(Buffer)
      BY <3>2
    <3> QED
      BY <1>1, <1>4, <3>1, <3>3 DEF TypeOK
  <2>2. lpn' \in [Buffer -> [Half -> {InCore(x) : x \in LPN} \cup {RSP_INVALID_LPN}]]
    BY <1>1, <1>2, <1>4 DEF TypeOK, Half
  <2>3. /\ on_going_urgent_request' \in 0 .. BUFF_THRESHOLD
        /\ on_going_normal_request' \in 0 .. BUFF_THRESHOLD
    BY <1>3, <1>5, <1>14, CounterBounds
  <2>4. pc' \in {"idle", "drain"}
    BY <1>3 DEF CheckThreshold
  <2>5. partial' \in [Buffer -> BOOLEAN]
    BY <1>1, <1>2 DEF TypeOK
  <2> QED
    BY <1>1, <1>3, <2>1, <2>2, <2>3, <2>4, <2>5 DEF TypeOK
<1> QED
  BY <1>6, <1>9, <1>11, <1>12, <1>13, <1>14, <1>15 DEF HILInv

\* The oldest command of a core is served (lines 221-260, 313-352).
LEMMA ServeUrgentKeeps ==
    ASSUME HILInv, ServeUrgent
    PROVE  HILInv'
<1>1. /\ TypeOK /\ BuffersConserved /\ CountersMatch /\ PartialIsYoungest
      /\ KeptWaits /\ FreeIsClean /\ BelowThreshold /\ NormalAlone
  BY DEF HILInv
<1>2. PICK c \in Core, b \in Buffer :
          /\ c = core_iter /\ urgent_queue[c] # <<>> /\ b = Head(urgent_queue[c])
          /\ Served(c, URGENT, b, {b})
  BY <1>1, ServeUrgentServes
<1>3. /\ free_buff_queue' = free_buff_queue \cup {b}
      /\ lpn' = [lpn EXCEPT ![b] = NoLPN]
      /\ urgent_queue' = [urgent_queue EXCEPT ![c] = Tail(@)]
      /\ UNCHANGED <<waiting_buff_queue, bank_queue, partial, on_going_normal_request, kept>>
      /\ on_going_urgent_request' = on_going_urgent_request - 1
      /\ pc \in {"drain_urgent", "read_urgent"}
      /\ NextCore
  BY <1>2 DEF ServeUrgent, FreeUrgent
<1>4. /\ on_going_urgent_request \in Nat /\ on_going_normal_request \in Nat
      /\ BUFF_THRESHOLD \in Nat
  BY <1>1, Constants DEF TypeOK
<1>5. BuffersConserved'
  BY <1>1, <1>2, ServedConserves
<1>6. \A x \in QueuedInBanks : x # b /\ lpn'[x] = lpn[x]
  <2>1. 1 \in DOMAIN urgent_queue[c] /\ urgent_queue[c][1] = b
    BY <1>1, <1>2 DEF TypeOK
  <2> QED
    BY <1>1, <1>3, <2>1, BankBuffers DEF TypeOK
<1>7. FilledHalves' = FilledHalves
  BY <1>1, <1>3, <1>6, HalvesStay
<1>8. /\ Len(urgent_queue'[c]) = Len(urgent_queue[c]) + (-1)
      /\ \A d \in Core : d # c => urgent_queue'[d] = urgent_queue[d]
      /\ urgent_queue' \in [Core -> Seq(Buffer)]
  <2>1. /\ urgent_queue'[c] = Tail(urgent_queue[c])
        /\ \A d \in Core : d # c => urgent_queue'[d] = urgent_queue[d]
    BY <1>1, <1>3 DEF TypeOK
  <2>2. urgent_queue[c] \in Seq(Buffer)
    BY <1>1 DEF TypeOK
  <2>3. /\ Len(Tail(urgent_queue[c])) = Len(urgent_queue[c]) + (-1)
        /\ Tail(urgent_queue[c]) \in Seq(Buffer)
    BY <1>2, <2>2
  <2> QED
    BY <1>1, <1>3, <2>1, <2>3 DEF TypeOK
<1>9. CountersMatch' /\ on_going_urgent_request' \in Nat
  <2>1. -1 \in Int
    OBVIOUS
  <2>2. Len(urgent_queue'[0]) + Len(urgent_queue'[1])
            = Len(urgent_queue[0]) + Len(urgent_queue[1]) + (-1)
    BY <1>1, <1>8, <2>1, UrgentSum, Zenon
  <2>3. PICK s \in Nat : s = Len(urgent_queue[0]) + Len(urgent_queue[1])
    BY <1>1, <1>4 DEF CountersMatch
  <2>4. s + (-1) = s - 1
    OBVIOUS
  <2>5. on_going_urgent_request' = Len(urgent_queue'[0]) + Len(urgent_queue'[1])
    BY <1>1, <1>3, <2>2, <2>3, <2>4 DEF CountersMatch
  <2>6. Len(urgent_queue'[0]) \in Nat /\ Len(urgent_queue'[1]) \in Nat
    BY <1>8 DEF Core
  <2>7. on_going_urgent_request' \in Nat
    <3>1. PICK m \in Nat, n \in Nat : m = Len(urgent_queue'[0]) /\ n = Len(urgent_queue'[1])
      BY <2>6
    <3>2. m + n \in Nat
      OBVIOUS
    <3> QED
      BY <2>5, <3>1, <3>2
  <2> QED
    BY <1>1, <1>3, <1>7, <2>5, <2>7 DEF CountersMatch
<1>10. PartialIsYoungest'
  <2>1. \A d \in Core, k \in Bank : \A i \in DOMAIN bank_queue[d][k] :
            lpn'[bank_queue[d][k][i]] = lpn[bank_queue[d][k][i]]
    BY <1>6, BankQueuedAt DEF InSomeBank
  <2> QED
    BY <1>1, <1>3, <2>1 DEF PartialIsYoungest
<1>11. KeptWaits'
  BY <1>1, <1>3 DEF KeptWaits
<1>12. FreeIsClean'
  BY <1>1, <1>3 DEF FreeIsClean, TypeOK
<1>13. BelowThreshold' /\ NormalAlone'
  BY <1>1, <1>3, <1>4 DEF BelowThreshold, NormalAlone, NextCore, Draining
<1>14. TypeOK'
  <2>1. lpn' \in [Buffer -> [Half -> {InCore(x) : x \in LPN} \cup {RSP_INVALID_LPN}]]
    BY <1>1, <1>3 DEF TypeOK, NoLPN
  <2>2. /\ on_going_urgent_request' \in 0 .. BUFF_THRESHOLD
        /\ on_going_normal_request' \in 0 .. BUFF_THRESHOLD
    BY <1>3, <1>4, <1>9, <1>13, CounterBounds
  <2>3. core_iter' \in Core /\ pc' \in {"drain", "drain_urgent", "read", "read_urgent"}
    BY <1>1, <1>3 DEF NextCore, TypeOK, Core
  <2> QED
    BY <1>1, <1>3, <1>8, <2>1, <2>2, <2>3 DEF TypeOK
<1> QED
  BY <1>5, <1>9, <1>10, <1>11, <1>12, <1>13, <1>14 DEF HILInv

\* The oldest buffer of a bank is served (lines 262-296).
LEMMA ServeNormalKeeps ==
    ASSUME HILInv, ServeNormal
    PROVE  HILInv'
<1>1. /\ TypeOK /\ BuffersConserved /\ CountersMatch /\ PartialIsYoungest
      /\ KeptWaits /\ FreeIsClean /\ BelowThreshold /\ NormalAlone
  BY DEF HILInv
<1>2. PICK c \in Core, k \in Bank, b \in Buffer :
          /\ c = core_iter /\ k = FirstBank(c)
          /\ bank_queue[c][k] # <<>> /\ b = Head(bank_queue[c][k])
          /\ bank_queue' = [bank_queue EXCEPT ![c][k] = Tail(@)]
          /\ on_going_normal_request' = on_going_normal_request - Requests(b)
          /\ \E o \in Outcome(c, b) :
               /\ Served(c, k, b, Freed(o, b))
               /\ kept' = [kept EXCEPT ![c] = (@ \cup {b}) \ Freed(o, b)]
  BY <1>1, ServeNormalServes DEF KeptWaits
<1>3. PICK o \in Outcome(c, b) :
          /\ Served(c, k, b, Freed(o, b))
          /\ kept' = [kept EXCEPT ![c] = (@ \cup {b}) \ Freed(o, b)]
  BY <1>2
<1>4. PICK done : done = Freed(o, b)
  OBVIOUS
<1>5. /\ Served(c, k, b, done)
      /\ free_buff_queue' = free_buff_queue \cup done
      /\ waiting_buff_queue' = (waiting_buff_queue \cup {b}) \ done
      /\ done \subseteq waiting_buff_queue \cup {b}
      /\ lpn' = [x \in Buffer |-> IF x \in done THEN NoLPN ELSE lpn[x]]
      /\ kept' = [kept EXCEPT ![c] = (@ \cup {b}) \ done]
  BY <1>3, <1>4 DEF Served
<1>6. /\ UNCHANGED <<urgent_queue, partial, on_going_urgent_request>>
      /\ pc = "drain_normal" /\ NextCore
  BY DEF ServeNormal
<1>7. /\ on_going_urgent_request \in Nat /\ on_going_normal_request \in Nat
      /\ BUFF_THRESHOLD \in Nat
  BY <1>1, Constants DEF TypeOK
<1>8. BuffersConserved'
  BY <1>1, <1>5, ServedConserves
<1>9. /\ QueuedInBanks' = QueuedInBanks \ {b} /\ b \in QueuedInBanks
      /\ QueuedInBanks \subseteq Buffer
      /\ b \notin waiting_buff_queue
      /\ QueuedInBanks \cap waiting_buff_queue = {}
  BY <1>1, <1>5, ServedInBank, BankBuffers
<1>10. /\ Requests(b) \in {1, 2}
       /\ Cardinality(FilledHalves') = Cardinality(FilledHalves) - Requests(b)
       /\ Cardinality(FilledHalves') \in Nat
  BY <1>1, <1>5, ServedRequests
<1>11. on_going_normal_request' = Cardinality(FilledHalves')
  BY <1>1, <1>2, <1>10 DEF CountersMatch
<1>12. KeptWaits'
  <2>1. o \in [keep : BOOLEAN, freed : SUBSET (kept[c] \cup {b})]
    BY DEF Outcome
  <2>2. /\ b \in o.freed => o.keep
        /\ Cardinality((kept[c] \cup (IF o.keep THEN {b} ELSE {})) \ o.freed) <= MaxKept
    BY DEF Outcome
  <2>3. /\ kept'[c] = (kept[c] \cup {b}) \ done
        /\ \A d \in Core : d # c => kept'[d] = kept[d]
    BY <1>1, <1>5 DEF TypeOK
  <2>4. done \subseteq kept[c] \cup {b} /\ b \notin kept[0] /\ b \notin kept[1]
    BY <1>1, <1>4, <1>9, <2>1 DEF Freed, KeptWaits
  <2>5. kept'[c] = (kept[c] \cup (IF o.keep THEN {b} ELSE {})) \ o.freed
    <3>1. b \notin kept[c]
      BY <2>4 DEF Core
    <3> QED
      BY <1>4, <2>1, <2>2, <2>3, <3>1 DEF Freed
  <2>6. \A d \in Core : Cardinality(kept'[d]) <= MaxKept
    BY <1>1, <2>2, <2>3, <2>5 DEF KeptWaits
  <2>7. kept'[0] \cap kept'[1] = {} /\ waiting_buff_queue' = kept'[0] \cup kept'[1]
    <3>1. CASE c = 0
      BY <1>1, <1>5, <2>3, <2>4, <3>1 DEF KeptWaits, Core
    <3>2. CASE c = 1
      BY <1>1, <1>5, <2>3, <2>4, <3>2 DEF KeptWaits, Core
    <3> QED
      BY <3>1, <3>2 DEF Core
  <2> QED
    BY <2>6, <2>7 DEF KeptWaits
<1>13. PartialIsYoungest'
  <2> SUFFICES ASSUME NEW d \in Core, NEW m \in Bank, NEW i \in DOMAIN bank_queue'[d][m],
                      NEW x, x = bank_queue'[d][m][i]
               PROVE  /\ lpn'[x][0] # RSP_INVALID_LPN
                      /\ partial'[x] <=> lpn'[x][1] = RSP_INVALID_LPN
                      /\ partial'[x] => i = Len(bank_queue'[d][m])
    BY DEF PartialIsYoungest
  <2>1. x \in QueuedInBanks'
    BY BankQueuedAt DEF InSomeBank
  <2>2. x \in Buffer /\ x \notin done /\ lpn'[x] = lpn[x] /\ partial'[x] = partial[x]
    BY <1>5, <1>6, <1>9, <2>1
  <2>3. CASE d = c /\ m = k
    <3>1. PICK n \in Nat : n = Len(bank_queue[c][k])
      BY <1>1 DEF TypeOK
    <3>2. /\ bank_queue[c][k] \in Seq(Buffer)
          /\ i \in 1 .. n - 1 /\ x = bank_queue[c][k][i + 1]
          /\ Len(bank_queue'[c][k]) = n - 1
      BY <1>1, <1>2, <2>3, <3>1 DEF TypeOK
    <3>3. i + 1 \in DOMAIN bank_queue[c][k]
      BY <3>1, <3>2
    <3>4. /\ lpn[x][0] # RSP_INVALID_LPN
          /\ partial[x] <=> lpn[x][1] = RSP_INVALID_LPN
          /\ partial[x] => i + 1 = n
      BY <1>1, <3>1, <3>2, <3>3 DEF PartialIsYoungest
    <3>5. i + 1 = n => i = n - 1
      BY <3>1, <3>2
    <3> QED
      BY <2>2, <2>3, <3>2, <3>4, <3>5
  <2>4. CASE ~(d = c /\ m = k)
    <3>1. bank_queue'[d][m] = bank_queue[d][m]
      BY <1>1, <1>2, <2>4 DEF TypeOK
    <3> QED
      BY <1>1, <2>2, <3>1 DEF PartialIsYoungest
  <2> QED
    BY <2>3, <2>4
<1>14. FreeIsClean'
  BY <1>1, <1>5 DEF FreeIsClean, TypeOK
<1>15. /\ on_going_normal_request' \in Nat
       /\ on_going_urgent_request + on_going_normal_request' <= BUFF_THRESHOLD
  <2>1. PICK m \in Nat, n \in Nat, r \in {1, 2} :
            m = on_going_urgent_request /\ n = on_going_normal_request /\ r = Requests(b)
    BY <1>7, <1>10
  <2>2. m + n <= BUFF_THRESHOLD => m + (n - r) <= BUFF_THRESHOLD
    BY <1>7
  <2>3. on_going_normal_request' = n - r
    BY <1>2, <2>1
  <2> QED
    BY <1>1, <1>10, <1>11, <2>1, <2>2, <2>3 DEF BelowThreshold
<1>16. BelowThreshold' /\ NormalAlone'
  <2>1. pc' \in {"drain", "drain_normal"}
    BY <1>6 DEF NextCore, Draining
  <2> QED
    BY <1>1, <1>6, <1>15, <2>1 DEF BelowThreshold, NormalAlone
<1>17. TypeOK'
  <2>1. lpn' \in [Buffer -> [Half -> {InCore(x) : x \in LPN} \cup {RSP_INVALID_LPN}]]
    BY <1>1, <1>5 DEF TypeOK, NoLPN
  <2>2. /\ on_going_urgent_request' \in 0 .. BUFF_THRESHOLD
        /\ on_going_normal_request' \in 0 .. BUFF_THRESHOLD
    BY <1>6, <1>7, <1>15, <1>16, CounterBounds
  <2>3. core_iter' \in Core /\ pc' \in {"drain", "drain_normal"}
    BY <1>1, <1>6 DEF NextCore, TypeOK, Core, Draining
  <2>4. bank_queue' \in [Core -> [Bank -> Seq(Buffer)]]
    <3>1. Tail(bank_queue[c][k]) \in Seq(Buffer)
      BY <1>1, <1>2 DEF TypeOK
    <3> QED
      BY <1>1, <1>2, <3>1 DEF TypeOK
  <2>5. /\ free_buff_queue' \subseteq Buffer /\ waiting_buff_queue' \subseteq Buffer
        /\ kept' \in [Core -> SUBSET Buffer]
    BY <1>1, <1>5 DEF TypeOK
  <2> QED
    BY <1>1, <1>6, <2>1, <2>2, <2>3, <2>4, <2>5 DEF TypeOK
<1> QED
  BY <1>1, <1>6, <1>8, <1>11, <1>12, <1>13, <1>14, <1>16, <1>17 DEF HILInv, CountersMatch

\* The steps that move no buffer.
LEMMA OtherStepsKeep ==
    ASSUME HILInv,
           BeginRead \/ BeginIteration \/ NoneUrgent \/ NoneNormal \/ ReadPage
               \/ UNCHANGED hilvars
    PROVE  HILInv'
<1>1. /\ TypeOK /\ BuffersConserved /\ CountersMatch /\ PartialIsYoungest
      /\ KeptWaits /\ FreeIsClean /\ BelowThreshold /\ NormalAlone
  BY DEF HILInv
<1>2. UNCHANGED <<free_buff_queue, waiting_buff_queue, urgent_queue, bank_queue, lpn, partial,
                  on_going_urgent_request, on_going_normal_request, kept>>
  BY DEF BeginRead, BeginIteration, NoneUrgent, NoneNormal, ReadPage, hilvars, queues, counters
<1>3. /\ on_going_urgent_request \in Nat /\ on_going_normal_request \in Nat
      /\ BUFF_THRESHOLD \in Nat /\ BUFF_THRESHOLD > 0
  BY <1>1, Constants DEF TypeOK
<1>4. BuffersConserved'
  BY <1>1, <1>2 DEF BuffersConserved, Queued, Queue
<1>5. CountersMatch'
  BY <1>1, <1>2 DEF CountersMatch, FilledHalves, QueuedInBanks
<1>6. PartialIsYoungest' /\ KeptWaits' /\ FreeIsClean'
  BY <1>1, <1>2 DEF PartialIsYoungest, KeptWaits, FreeIsClean
<1>7. BelowThreshold' /\ NormalAlone'
  BY <1>1, <1>2, <1>3 DEF BelowThreshold, NormalAlone, BeginRead, BeginIteration, NoneUrgent,
        NoneNormal, ReadPage, hilvars, NextCore, Draining, Reading, UrgentPending
<1>8. TypeOK'
  <2>1. /\ core_iter' \in Core
        /\ pc' \in {"idle", "drain", "drain_urgent", "drain_normal", "read", "read_urgent",
                    "read_page"}
    BY <1>1 DEF TypeOK, Core, BeginRead, BeginIteration, NoneUrgent, NoneNormal, ReadPage,
          hilvars, NextCore, Draining, Reading
  <2> QED
    BY <1>1, <1>2, <2>1 DEF TypeOK
<1> QED
  BY <1>4, <1>5, <1>6, <1>7, <1>8 DEF HILInv

\* The invariant holds at the start, with every buffer free.
LEMMA InitKeeps ==
    ASSUME Init
    PROVE  HILInv
<1>1. BUFF_THRESHOLD \in Nat /\ BUFF_THRESHOLD > 0 /\ MaxKept \in Nat
  BY Constants
<1>2. TypeOK
  BY <1>1 DEF Init, TypeOK, NoLPN, Core
<1>3. \A c \in Core, k \in Lane : Queue(c, k) = <<>>
  BY DEF Init, Queue, Lane
<1>4. Queued = {} /\ QueuedInBanks = {}
  <2>1. \A b : ~InSomeQueue(b)
    BY <1>3 DEF InSomeQueue
  <2>2. \A b : ~InSomeBank(b)
    BY DEF InSomeBank, Init
  <2> QED
    BY <2>1, <2>2, QueuedAt, BankQueuedAt
<1>5. BuffersConserved
  BY <1>3, <1>4 DEF Init, BuffersConserved
<1>6. CountersMatch
  <2>1. FilledHalves = {}
    BY <1>4 DEF FilledHalves
  <2> QED
    BY <2>1, FS_EmptySet DEF Init, CountersMatch, Core
<1>7. PartialIsYoungest
  BY DEF Init, PartialIsYoungest
<1>8. KeptWaits
  BY <1>1, FS_EmptySet DEF Init, KeptWaits, Core
<1>9. FreeIsClean /\ NormalAlone
  BY DEF Init, FreeIsClean, NormalAlone
<1>10. BelowThreshold
  BY <1>1 DEF Init, BelowThreshold
<1> QED
  BY <1>2, <1>5, <1>6, <1>7, <1>8, <1>9, <1>10 DEF HILInv

\* Every step keeps the invariant.
LEMMA NextKeeps ==
    ASSUME HILInv, [Next]_hilvars
    PROVE  HILInv'
<1>1. ASSUME NEW l \in LPN, WriteUrgent(l)
      PROVE  HILInv'
  BY <1>1, WriteUrgentKeeps
<1>2. ASSUME NEW l \in LPN, WriteSecondHalf(l)
      PROVE  HILInv'
  BY <1>2, WriteSecondHalfKeeps
<1>3. ASSUME NEW l \in LPN, WriteFirstHalf(l)
      PROVE  HILInv'
  BY <1>3, WriteFirstHalfKeeps
<1>4. CASE ServeUrgent
  BY <1>4, ServeUrgentKeeps
<1>5. CASE ServeNormal
  BY <1>5, ServeNormalKeeps
<1>6. CASE BeginRead \/ BeginIteration \/ NoneUrgent \/ NoneNormal \/ ReadPage
               \/ UNCHANGED hilvars
  BY <1>6, OtherStepsKeep
<1> QED
  BY <1>1, <1>2, <1>3, <1>4, <1>5, <1>6 DEF Next, Call, Loop

\* The invariant above, from which the theorems below follow.
THEOREM HILInvariant == Spec => []HILInv
<1>1. Init => HILInv
  BY InitKeeps
<1>2. HILInv /\ [Next]_hilvars => HILInv'
  BY NextKeeps
<1> QED
  BY <1>1, <1>2, PTL DEF Spec

\* The queues, the counters and the halves stay in their ranges: no counter of the
\* loop (lines 204-299) goes below 0 or above BUFF_THRESHOLD.
THEOREM TypeCorrect == Spec => []TypeOK
<1>1. HILInv => TypeOK
  BY DEF HILInv
<1> QED
  BY <1>1, HILInvariant, PTL

\* Whatever calls come and whichever buffers the FTL keeps and frees, each of the
\* NUM_BUFF buffers is in one place (lines 22-58, 122-141, 160-201, 224-296).
THEOREM NoBufferIsLost == Spec => []BuffersConserved
<1>1. HILInv => BuffersConserved
  BY DEF HILInv
<1> QED
  BY <1>1, HILInvariant, PTL

\* The counters the loop stops on are those of the queues, so that it leaves none
\* behind and takes none from an empty queue (lines 167, 204, 239, 259, 280-284).
THEOREM CountersAreTrue == Spec => []CountersMatch
<1>1. HILInv => CountersMatch
  BY DEF HILInv
<1> QED
  BY <1>1, HILInvariant, PTL

\* The partial flag, which HIL_buff_init does not reset, is never read stale: only a
\* bank's youngest buffer is half full, and the flag says so (lines 178-201).
THEOREM PartialIsTrue == Spec => []PartialIsYoungest
<1>1. HILInv => PartialIsYoungest
  BY DEF HILInv
<1> QED
  BY <1>1, HILInvariant, PTL

\* What waits is at most what the FTL's write buffers keep; what is queued is at
\* most the requests below the threshold.
LEMMA PoolSuffices ==
    ASSUME HILInv
    PROVE  BufferAtHand
<1> SUFFICES ASSUME pc \in {"idle", "read_page"}, free_buff_queue = {}
             PROVE  FALSE
  BY DEF BufferAtHand
<1> DEFINE urgent(c) == Elements(urgent_queue[c])
<1>1. /\ TypeOK /\ BuffersConserved /\ CountersMatch /\ PartialIsYoungest
      /\ KeptWaits /\ FreeIsClean /\ BelowThreshold /\ NormalAlone
  BY DEF HILInv
<1>2. 0 \in Core /\ 1 \in Core
  BY DEF Core
<1>3. /\ IsFiniteSet(urgent(0)) /\ Cardinality(urgent(0)) <= Len(urgent_queue[0])
      /\ IsFiniteSet(urgent(1)) /\ Cardinality(urgent(1)) <= Len(urgent_queue[1])
  <2>1. ASSUME NEW q \in Seq(Buffer)
        PROVE  IsFiniteSet(Elements(q)) /\ Cardinality(Elements(q)) <= Len(q)
    BY ElementsBounded, Zenon DEF Elements
  <2> QED
    BY <1>1, <1>2, <2>1 DEF TypeOK
<1>4. IsFiniteSet(QueuedInBanks) /\ Cardinality(QueuedInBanks) <= Cardinality(FilledHalves)
  <2> DEFINE f == [b \in QueuedInBanks |-> <<b, 0>>]
  <2>1. \A b \in QueuedInBanks : <<b, 0>> \in FilledHalves
    <3>1. \A b \in QueuedInBanks : lpn[b][0] # RSP_INVALID_LPN
      BY <1>1, BankQueuedAt DEF InSomeBank, PartialIsYoungest
    <3> QED
      BY <3>1, HalfFilled DEF Half
  <2>2. f \in [QueuedInBanks -> FilledHalves]
    BY <2>1
  <2>3. \A x, y \in QueuedInBanks : f[x] = f[y] => x = y
    OBVIOUS
  <2>4. IsFiniteSet(FilledHalves)
    BY <1>1, FilledHalvesFinite
  <2> HIDE DEF f
  <2> QED
    BY <2>2, <2>3, <2>4, InjectionBounded
<1>5. /\ IsFiniteSet(kept[0]) /\ Cardinality(kept[0]) <= MaxKept
      /\ IsFiniteSet(kept[1]) /\ Cardinality(kept[1]) <= MaxKept
  <2>1. kept[0] \in SUBSET Buffer /\ kept[1] \in SUBSET Buffer
    BY <1>1, <1>2 DEF TypeOK
  <2> QED
    BY <1>1, <1>2, <2>1, Constants, FS_Subset DEF KeptWaits
<1>6. Buffer = (kept[0] \cup kept[1]) \cup ((urgent(0) \cup urgent(1)) \cup QueuedInBanks)
  <2>1. Queued \subseteq (urgent(0) \cup urgent(1)) \cup QueuedInBanks
    <3>1. ASSUME NEW x \in Queued
          PROVE  x \in (urgent(0) \cup urgent(1)) \cup QueuedInBanks
      <4>1. PICK c \in Core, k \in Lane : \E i \in DOMAIN Queue(c, k) : Queue(c, k)[i] = x
        BY QueuedAt DEF InSomeQueue
      <4>2. CASE k = URGENT
        BY <4>1, <4>2 DEF Queue, Elements, Core
      <4>3. CASE k \in Bank
        BY <4>1, <4>3, BanksAreLanes, BankQueuedAt DEF InSomeBank
      <4> QED
        BY <4>2, <4>3 DEF Lane
    <3> QED
      BY <3>1
  <2>2. (urgent(0) \cup urgent(1)) \cup QueuedInBanks \subseteq Buffer
    BY <1>1, <1>2, BankBuffers DEF TypeOK, Elements
  <2> QED
    BY <1>1, <2>1, <2>2 DEF BuffersConserved, KeptWaits, TypeOK
<1> HIDE DEF urgent
<1>7. PICK k0 \in Nat, k1 \in Nat, u0 \in Nat, u1 \in Nat, q \in Nat :
          /\ k0 = Cardinality(kept[0]) /\ k1 = Cardinality(kept[1])
          /\ u0 = Cardinality(urgent(0)) /\ u1 = Cardinality(urgent(1))
          /\ q = Cardinality(QueuedInBanks)
  BY <1>3, <1>4, <1>5, FS_CardinalityType
<1>8. Cardinality(Buffer) \in Nat /\ Cardinality(Buffer) <= (k0 + k1) + ((u0 + u1) + q)
  <2>1. PICK m \in Nat, n \in Nat, r \in Nat, t \in Nat :
            /\ m = Cardinality(kept[0] \cup kept[1])
            /\ n = Cardinality(urgent(0) \cup urgent(1))
            /\ r = Cardinality((urgent(0) \cup urgent(1)) \cup QueuedInBanks)
            /\ t = Cardinality(Buffer)
    BY <1>3, <1>4, <1>5, <1>6, UnionBounded
  <2>2. /\ m <= k0 + k1 /\ n <= u0 + u1 /\ r <= n + q
        /\ t <= m + r
    BY <1>3, <1>4, <1>5, <1>6, <1>7, <2>1, UnionBounded
  <2> QED
    BY <2>1, <2>2
<1>9. PICK a \in Nat, b \in Nat, h \in Nat :
          /\ a = Len(urgent_queue[0]) /\ b = Len(urgent_queue[1])
          /\ h = Cardinality(FilledHalves)
  BY <1>1, <1>2, FilledHalvesFinite DEF TypeOK
<1>10. (a + b) + h < BUFF_THRESHOLD
  BY <1>1, <1>9 DEF CountersMatch, BelowThreshold
<1>11. /\ k0 <= MaxKept /\ k1 <= MaxKept /\ u0 <= a /\ u1 <= b /\ q <= h
  BY <1>3, <1>4, <1>5, <1>7, <1>9
<1>12. /\ BUFF_THRESHOLD \in Nat /\ MaxKept \in Nat
       /\ Cardinality(Buffer) >= BUFF_THRESHOLD + 2 * MaxKept
  BY Constants
<1> QED
  BY <1>8, <1>10, <1>11, <1>12

\* A call of HIL_WriteLPN or HIL_ReadLPN finds a free buffer, whose absence lines 155
\* and 360 only assert: with NUM_BUFF >= BUFF_THRESHOLD + 2 * MaxKept buffers, what
\* waits for a flash program and for the threshold never exhausts the pool.
THEOREM NeverOutOfBuffers == Spec => []BufferAtHand
<1>1. HILInv => BufferAtHand
  BY PoolSuffices
<1> QED
  BY <1>1, HILInvariant, PTL
-----------------------------------------------------------------------------
(***************************************************************************)
(* The HIL implements WriteQueue: under the refinement mapping of HIL, in  *)
(* every reachable state, its steps are steps of the WriteQueue.  The      *)
(* lemmas say what each queue of requests is after a step of the HIL, from *)
(* the places of the buffers (BuffersConserved) and their filled halves    *)
(* (PartialIsYoungest); the order between commands and writes comes from   *)
(* the counters (CountersMatch, NormalAlone).                              *)
(***************************************************************************)

Commands(c) == CommandsOf(urgent_queue[c])
Writes(c, k) == WritesOf(bank_queue[c][k])

CommandsStay == \A c \in Core : Commands(c)' = Commands(c)
WritesStay == \A c \in Core, k \in Bank : Writes(c, k)' = Writes(c, k)

\* A step that leaves the requests alone is a stutter of the WriteQueue.
LEMMA AbstractStutters ==
    ASSUME CommandsStay, WritesStay
    PROVE  UNCHANGED Abstract!vars
BY DEF CommandsStay, WritesStay, Commands, Writes, Abstract!vars

\* What a call does to the requests is its Put: a command, then a write.
LEMMA AbstractPutsCommand ==
    ASSUME NEW l \in LPN, IsCommand(l), WritesStay,
           Commands(CoreOf(l))' = Append(Commands(CoreOf(l)), InCore(l)),
           \A c \in Core : c # CoreOf(l) => Commands(c)' = Commands(c)
    PROVE  Abstract!Next
<1>1. CoreOf(l) \in Core
  BY Addressing
<1>2. Abstract!Put(l)
  BY <1>1 DEF WritesStay, Commands, Writes, Abstract!Put
<1> QED
  BY <1>2 DEF Abstract!Next

LEMMA AbstractPutsWrite ==
    ASSUME NEW l \in LPN, ~IsCommand(l), CommandsStay,
           Writes(CoreOf(l), BankOf(l))' = Append(Writes(CoreOf(l), BankOf(l)), InCore(l)),
           \A c \in Core, k \in Bank :
               c # CoreOf(l) \/ k # BankOf(l) => Writes(c, k)' = Writes(c, k)
    PROVE  Abstract!Next
<1>1. CoreOf(l) \in Core /\ BankOf(l) \in Bank
  BY Addressing
<1>2. Abstract!Put(l)
  BY <1>1 DEF CommandsStay, Commands, Writes, Abstract!Put
<1> QED
  BY <1>2 DEF Abstract!Next

\* What an iteration does is one of its two ways to serve.
LEMMA AbstractServesCommand ==
    ASSUME NEW c \in Core, WritesStay, Commands(c) # <<>>,
           Commands(c)' = Tail(Commands(c)),
           \A d \in Core : d # c => Commands(d)' = Commands(d)
    PROVE  Abstract!Next
<1>1. Abstract!ServeCommand(c)
  BY DEF WritesStay, Commands, Writes, Abstract!ServeCommand
<1> QED
  BY <1>1 DEF Abstract!Next

LEMMA AbstractServesWrites ==
    ASSUME NEW c \in Core, NEW k \in Bank, NEW n \in {1, 2},
           CommandsStay, \A d \in Core : Commands(d) = <<>>,
           n <= Len(Writes(c, k)),
           Writes(c, k)' = SubSeq(Writes(c, k), n + 1, Len(Writes(c, k))),
           \A d \in Core, m \in Bank : d # c \/ m # k => Writes(d, m)' = Writes(d, m)
    PROVE  Abstract!Next
<1> DEFINE commands == [d \in Core |-> Commands(d)]
           writes == [d \in Core |-> [m \in Bank |-> Writes(d, m)]]
<1>1. \A d \in Core : commands[d] = <<>>
  OBVIOUS
<1>2. commands' = commands
  BY DEF CommandsStay
<1>3. writes' = [writes EXCEPT ![c][k] = SubSeq(@, n + 1, Len(@))]
  OBVIOUS
<1>4. n <= Len(writes[c][k])
  OBVIOUS
<1>5. Abstract!ServeWrites(c, k)
  BY <1>1, <1>2, <1>3, <1>4, Zenon DEF Commands, Writes, Abstract!ServeWrites
<1> QED
  BY <1>5 DEF Abstract!Next
-----------------------------------------------------------------------------
(***************************************************************************)
(* The requests of a queue, one by one.                                    *)
(***************************************************************************)
Value == {InCore(l) : l \in LPN} \cup {RSP_INVALID_LPN}

\* The commands of a core: as many as its urgent queue has buffers.
LEMMA CommandsShape ==
    ASSUME TypeOK, TypeOK', NEW c \in Core
    PROVE  /\ Commands(c) \in Seq(Value) /\ Len(Commands(c)) = Len(urgent_queue[c])
           /\ \A i \in 1 .. Len(urgent_queue[c]) :
                 Commands(c)[i] = lpn[urgent_queue[c][i]][0]
           /\ Commands(c)' \in Seq(Value) /\ Len(Commands(c)') = Len(urgent_queue'[c])
           /\ \A i \in 1 .. Len(urgent_queue'[c]) :
                 Commands(c)'[i] = lpn'[urgent_queue'[c][i]][0]
<1>1. ASSUME NEW q \in Seq(Buffer), NEW f \in [Buffer -> [Half -> Value]]
      PROVE  LET s == [i \in 1 .. Len(q) |-> f[q[i]][0]]
             IN  s \in Seq(Value) /\ Len(s) = Len(q)
  BY DEF Half
<1>2. /\ urgent_queue[c] \in Seq(Buffer) /\ urgent_queue'[c] \in Seq(Buffer)
      /\ lpn \in [Buffer -> [Half -> Value]] /\ lpn' \in [Buffer -> [Half -> Value]]
  BY DEF TypeOK, Value
<1> QED
  BY <1>1, <1>2 DEF Commands, CommandsOf

\* The buffer and the half of each write exist.
LEMMA WritesShape ==
    ASSUME NEW q \in Seq(Buffer), NEW half \in BOOLEAN, half => q # <<>>,
           NEW n, n = 2 * Len(q) - (IF half THEN 1 ELSE 0)
    PROVE  /\ n \in Nat
           /\ \A i \in 1 .. n : (i + 1) \div 2 \in 1 .. Len(q) /\ (i - 1) % 2 \in Half
<1>1. Len(q) \in Nat /\ (q # <<>> => Len(q) > 0)
  OBVIOUS
<1>2. n \in Nat /\ n <= 2 * Len(q)
  BY <1>1
<1>3. \A i \in 1 .. n : (i + 1) \div 2 \in 1 .. Len(q) /\ (i - 1) % 2 \in Half
  BY <1>1, <1>2 DEF Half
<1> QED
  BY <1>2, <1>3

\* The halves of a queue of buffers, in order: those of the i-th write.
LEMMA WritesAt ==
    ASSUME TypeOK, TypeOK', NEW c \in Core, NEW k \in Bank
    PROVE  LET q == bank_queue[c][k]
           IN  /\ NumWrites(q) \in Nat /\ Len(Writes(c, k)) = NumWrites(q)
               /\ Writes(c, k) \in Seq(Value)
               /\ \A i \in 1 .. NumWrites(q) :
                     Writes(c, k)[i] = lpn[q[(i + 1) \div 2]][(i - 1) % 2]
               /\ NumWrites(q)' \in Nat /\ Len(Writes(c, k)') = NumWrites(q)'
               /\ Writes(c, k)' \in Seq(Value)
               /\ \A i \in 1 .. NumWrites(q)' :
                     Writes(c, k)'[i] = lpn'[q'[(i + 1) \div 2]][(i - 1) % 2]
<1>1. /\ bank_queue[c][k] \in Seq(Buffer) /\ bank_queue'[c][k] \in Seq(Buffer)
      /\ lpn \in [Buffer -> [Half -> Value]] /\ lpn' \in [Buffer -> [Half -> Value]]
      /\ partial \in [Buffer -> BOOLEAN] /\ partial' \in [Buffer -> BOOLEAN]
  BY DEF TypeOK, Value
<1> DEFINE q == bank_queue[c][k]
<1>2. /\ NumWrites(q) \in Nat
      /\ \A i \in 1 .. NumWrites(q) : (i + 1) \div 2 \in 1 .. Len(q) /\ (i - 1) % 2 \in Half
  <2>1. /\ HasPartial(q) \in BOOLEAN /\ (HasPartial(q) => q # <<>>)
        /\ NumWrites(q) = 2 * Len(q) - (IF HasPartial(q) THEN 1 ELSE 0)
    BY DEF NumWrites, HasPartial
  <2> QED
    BY <1>1, <2>1, WritesShape
<1>3. /\ NumWrites(q)' \in Nat
      /\ \A i \in 1 .. NumWrites(q)' :
            (i + 1) \div 2 \in 1 .. Len(q') /\ (i - 1) % 2 \in Half
  <2>1. /\ HasPartial(q)' \in BOOLEAN /\ (HasPartial(q)' => q' # <<>>)
        /\ NumWrites(q)' = 2 * Len(q') - (IF HasPartial(q)' THEN 1 ELSE 0)
    BY DEF NumWrites, HasPartial
  <2> QED
    BY <1>1, <2>1, WritesShape
<1>4. /\ Writes(c, k) = [i \in 1 .. NumWrites(q) |-> lpn[q[(i + 1) \div 2]][(i - 1) % 2]]
      /\ Writes(c, k)' = [i \in 1 .. NumWrites(q)' |-> lpn'[q'[(i + 1) \div 2]][(i - 1) % 2]]
  BY DEF Writes, WritesOf
<1>5. \A i \in 1 .. NumWrites(q) : lpn[q[(i + 1) \div 2]][(i - 1) % 2] \in Value
  BY <1>1, <1>2
<1>6. \A i \in 1 .. NumWrites(q)' : lpn'[q'[(i + 1) \div 2]][(i - 1) % 2] \in Value
  BY <1>1, <1>3
<1>7. Writes(c, k) \in Seq(Value) /\ Len(Writes(c, k)) = NumWrites(q)
  BY <1>2, <1>4, <1>5
<1>8. Writes(c, k)' \in Seq(Value) /\ Len(Writes(c, k)') = NumWrites(q)'
  BY <1>3, <1>4, <1>6
<1> QED
  BY <1>2, <1>3, <1>4, <1>7, <1>8

\* How many writes a bank holds, before and after a step.
LEMMA WritesNumber ==
    ASSUME TypeOK, TypeOK', NEW c \in Core, NEW k \in Bank
    PROVE  LET q == bank_queue[c][k]
           IN  /\ Len(q) \in Nat /\ (HasPartial(q) => Len(q) > 0)
               /\ NumWrites(q) = IF HasPartial(q) THEN 2 * Len(q) - 1 ELSE 2 * Len(q)
               /\ Len(q)' \in Nat /\ (HasPartial(q)' => Len(q)' > 0)
               /\ NumWrites(q)' = IF HasPartial(q)' THEN 2 * Len(q)' - 1 ELSE 2 * Len(q)'
<1>1. bank_queue[c][k] \in Seq(Buffer) /\ bank_queue'[c][k] \in Seq(Buffer)
  BY DEF TypeOK
<1> QED
  BY <1>1 DEF NumWrites, HasPartial

\* A queue whose buffers keep their addresses and flags keeps its requests.
LEMMA CommandsStayAt ==
    ASSUME TypeOK, TypeOK', NEW c \in Core, urgent_queue'[c] = urgent_queue[c],
           \A i \in DOMAIN urgent_queue[c] :
               lpn'[urgent_queue[c][i]] = lpn[urgent_queue[c][i]]
    PROVE  Commands(c)' = Commands(c)
BY DEF TypeOK, Commands, CommandsOf

LEMMA WritesStayAt ==
    ASSUME TypeOK, TypeOK', NEW c \in Core, NEW k \in Bank,
           bank_queue'[c][k] = bank_queue[c][k],
           \A i \in DOMAIN bank_queue[c][k] :
               /\ lpn'[bank_queue[c][k][i]] = lpn[bank_queue[c][k][i]]
               /\ partial'[bank_queue[c][k][i]] = partial[bank_queue[c][k][i]]
    PROVE  Writes(c, k)' = Writes(c, k)
<1> DEFINE q == bank_queue[c][k]
<1>1. q \in Seq(Buffer) /\ bank_queue'[c][k] = q
  BY DEF TypeOK
<1>2. HasPartial(q)' <=> HasPartial(q)
  <2>1. q # <<>> => Len(q) \in DOMAIN q
    BY <1>1
  <2> QED
    BY <1>1, <2>1 DEF HasPartial, Last
<1>3. NumWrites(q)' = NumWrites(q)
  BY <1>1, <1>2 DEF NumWrites
<1>4. /\ NumWrites(q) \in Nat /\ Len(Writes(c, k)) = NumWrites(q)
      /\ Writes(c, k) \in Seq(Value)
      /\ \A i \in 1 .. NumWrites(q) :
            Writes(c, k)[i] = lpn[q[(i + 1) \div 2]][(i - 1) % 2]
      /\ Len(Writes(c, k)') = NumWrites(q)'
      /\ Writes(c, k)' \in Seq(Value)
      /\ \A i \in 1 .. NumWrites(q)' :
            Writes(c, k)'[i] = lpn'[q'[(i + 1) \div 2]][(i - 1) % 2]
  BY WritesAt
<1>5. \A i \in 1 .. NumWrites(q) : (i + 1) \div 2 \in DOMAIN q
  <2>1. /\ Len(q) \in Nat
        /\ NumWrites(q) = IF HasPartial(q) THEN 2 * Len(q) - 1 ELSE 2 * Len(q)
    BY WritesNumber
  <2> QED
    BY <1>1, <2>1
<1>6. ASSUME NEW i \in 1 .. NumWrites(q)
      PROVE  Writes(c, k)'[i] = Writes(c, k)[i]
  <2>1. PICK h : h = (i + 1) \div 2
    OBVIOUS
  <2>2. Writes(c, k)[i] = lpn[q[h]][(i - 1) % 2]
    BY <1>4, <2>1
  <2>3. Writes(c, k)'[i] = lpn'[q[h]][(i - 1) % 2]
    BY <1>1, <1>3, <1>4, <2>1
  <2>4. lpn'[q[h]] = lpn[q[h]]
    BY <1>5, <2>1
  <2> QED
    BY <2>2, <2>3, <2>4
<1>7. /\ Len(Writes(c, k)') = Len(Writes(c, k))
      /\ \A i \in 1 .. Len(Writes(c, k)') : Writes(c, k)'[i] = Writes(c, k)[i]
  BY <1>3, <1>4, <1>6
<1>8. Writes(c, k) \in Seq(Value) /\ Writes(c, k)' \in Seq(Value)
  BY <1>4
<1> QED
  BY <1>7, <1>8, SeqEqual, Zenon

\* What a queue holds after each action: a command behind the others.
LEMMA CommandsAfterPut ==
    ASSUME TypeOK, TypeOK', NEW c \in Core, NEW b \in Buffer,
           urgent_queue'[c] = Append(urgent_queue[c], b),
           \A i \in DOMAIN urgent_queue[c] :
               lpn'[urgent_queue[c][i]] = lpn[urgent_queue[c][i]]
    PROVE  Commands(c)' = Append(Commands(c), lpn'[b][0])
<1> DEFINE q == urgent_queue[c]
<1>1. PICK n \in Nat : n = Len(q)
  BY DEF TypeOK
<1>2. q \in Seq(Buffer) /\ DOMAIN q = 1 .. n
  BY <1>1 DEF TypeOK
<1>3. /\ Len(q') = n + 1 /\ q'[n + 1] = b
      /\ \A i \in 1 .. n : q'[i] = q[i]
  BY <1>1, <1>2
<1>4. /\ Commands(c) \in Seq(Value) /\ Len(Commands(c)) = n
      /\ \A i \in 1 .. n : Commands(c)[i] = lpn[q[i]][0]
      /\ Commands(c)' \in Seq(Value) /\ Len(Commands(c)') = n + 1
      /\ \A i \in 1 .. n + 1 : Commands(c)'[i] = lpn'[q'[i]][0]
  BY <1>1, <1>3, CommandsShape
<1>5. \A i \in 1 .. n : Commands(c)'[i] = Commands(c)[i]
  BY <1>2, <1>3, <1>4
<1>6. Commands(c)'[n + 1] = lpn'[b][0] /\ lpn'[b][0] \in Value
  BY <1>3, <1>4 DEF TypeOK, Half, Value
<1> QED
  BY <1>4, <1>5, <1>6, AppendIs

\* The oldest command is taken.
LEMMA CommandsAfterServe ==
    ASSUME TypeOK, TypeOK', NEW c \in Core, urgent_queue[c] # <<>>,
           urgent_queue'[c] = Tail(urgent_queue[c]),
           \A i \in DOMAIN urgent_queue[c] :
               i # 1 => lpn'[urgent_queue[c][i]] = lpn[urgent_queue[c][i]]
    PROVE  Commands(c) # <<>> /\ Commands(c)' = Tail(Commands(c))
<1> DEFINE q == urgent_queue[c]
<1>1. PICK n \in Nat : n = Len(q)
  BY DEF TypeOK
<1>2. q \in Seq(Buffer) /\ DOMAIN q = 1 .. n /\ n # 0
  BY <1>1 DEF TypeOK
<1>3. Len(q') = n - 1 /\ \A i \in 1 .. n - 1 : q'[i] = q[i + 1]
  BY <1>1, <1>2
<1>4. /\ Commands(c) \in Seq(Value) /\ Len(Commands(c)) = n
      /\ \A i \in 1 .. n : Commands(c)[i] = lpn[q[i]][0]
      /\ Commands(c)' \in Seq(Value) /\ Len(Commands(c)') = n - 1
      /\ \A i \in 1 .. n - 1 : Commands(c)'[i] = lpn'[q'[i]][0]
  BY <1>1, <1>3, CommandsShape
<1>5. ASSUME NEW i \in 1 .. n - 1
      PROVE  Commands(c)'[i] = Commands(c)[i + 1]
  <2>1. i + 1 \in 1 .. n /\ i + 1 # 1
    BY <1>2
  <2>2. Commands(c)'[i] = lpn'[q[i + 1]][0] /\ Commands(c)[i + 1] = lpn[q[i + 1]][0]
    BY <1>3, <1>4, <2>1
  <2>3. lpn'[q[i + 1]] = lpn[q[i + 1]]
    BY <1>2, <2>1
  <2> QED
    BY <2>2, <2>3
<1>6. Commands(c) # <<>>
  BY <1>2, <1>4
<1>7. Commands(c)' = SubSeq(Commands(c), 2, n)
  BY <1>2, <1>4, <1>5, SubSeqIs
<1> QED
  BY <1>4, <1>6, <1>7, TailIsSubSeq

\* The first half of a new buffer.
LEMMA WritesAfterFirst ==
    ASSUME TypeOK, TypeOK', NEW c \in Core, NEW k \in Bank, NEW b \in Buffer,
           bank_queue'[c][k] = Append(bank_queue[c][k], b),
           ~HasPartial(bank_queue[c][k]), partial'[b],
           \A i \in DOMAIN bank_queue[c][k] :
               lpn'[bank_queue[c][k][i]] = lpn[bank_queue[c][k][i]]
    PROVE  Writes(c, k)' = Append(Writes(c, k), lpn'[b][0])
<1>1. PICK q, r, f, g, w, x :
          /\ q = bank_queue[c][k] /\ r = bank_queue'[c][k] /\ f = lpn /\ g = lpn'
          /\ w = Writes(c, k) /\ x = Writes(c, k)'
  OBVIOUS
<1>2. PICK n \in Nat : n = Len(q)
  BY <1>1 DEF TypeOK
<1>3. q \in Seq(Buffer) /\ DOMAIN q = 1 .. n
  BY <1>1, <1>2 DEF TypeOK
<1>4. /\ Len(r) = n + 1 /\ r[n + 1] = b /\ r # <<>>
      /\ \A i \in 1 .. n : r[i] = q[i]
  BY <1>1, <1>2, <1>3
<1>5. \A i \in 1 .. n : g[q[i]] = f[q[i]]
  BY <1>1, <1>3
<1>6. HasPartial(bank_queue[c][k])'
  BY <1>1, <1>4 DEF HasPartial, Last
<1>7. NumWrites(bank_queue[c][k]) = 2 * n /\ NumWrites(bank_queue[c][k])' = 2 * n + 1
  <2>1. NumWrites(bank_queue[c][k]) = 2 * n
    BY <1>1, <1>2 DEF NumWrites
  <2>2. NumWrites(bank_queue[c][k])' = 2 * (n + 1) - 1
    BY <1>1, <1>4, <1>6 DEF NumWrites
  <2> QED
    BY <2>1, <2>2
<1>8. /\ w \in Seq(Value) /\ Len(w) = 2 * n
      /\ \A i \in 1 .. 2 * n : w[i] = f[q[(i + 1) \div 2]][(i - 1) % 2]
      /\ x \in Seq(Value) /\ Len(x) = 2 * n + 1
      /\ \A i \in 1 .. 2 * n + 1 : x[i] = g[r[(i + 1) \div 2]][(i - 1) % 2]
  BY <1>1, <1>7, WritesAt
<1>9. ASSUME NEW i \in 1 .. 2 * n
      PROVE  x[i] = w[i]
  <2>1. PICK h, e : h = (i + 1) \div 2 /\ e = (i - 1) % 2
    OBVIOUS
  <2>2. h \in 1 .. n /\ i \in 1 .. 2 * n + 1
    BY <2>1
  <2>3. w[i] = f[q[h]][e] /\ x[i] = g[r[h]][e]
    BY <1>8, <2>1, <2>2
  <2> QED
    BY <1>4, <1>5, <2>2, <2>3
<1>10. x[2 * n + 1] = g[b][0]
  <2>1. PICK i : i = 2 * n + 1
    OBVIOUS
  <2>2. i \in 1 .. 2 * n + 1 /\ (i + 1) \div 2 = n + 1 /\ (i - 1) % 2 = 0
    BY <2>1
  <2>3. x[i] = g[r[n + 1]][0]
    BY <1>8, <2>2
  <2> QED
    BY <1>4, <2>1, <2>3
<1>11. PICK v \in Value : v = g[b][0]
  <2>1. g[b][0] \in Value
    BY <1>1 DEF TypeOK, Half, Value
  <2> QED
    BY <2>1
<1>12. /\ Len(x) = Len(w) + 1 /\ x[Len(w) + 1] = v
       /\ \A i \in 1 .. Len(w) : x[i] = w[i]
  <2>1. PICK d : d = 2 * n
    OBVIOUS
  <2>2. /\ Len(w) = d /\ Len(x) = d + 1 /\ x[d + 1] = v
        /\ \A i \in 1 .. d : x[i] = w[i]
    BY <1>8, <1>9, <1>10, <1>11, <2>1
  <2> QED
    BY <2>2
<1>13. x = Append(w, v)
  BY <1>8, <1>12, AppendIs
<1> QED
  BY <1>1, <1>11, <1>13

\* The second half of the youngest one.
LEMMA WritesAfterSecond ==
    ASSUME TypeOK, TypeOK', NEW c \in Core, NEW k \in Bank, NEW v \in Value,
           HasPartial(bank_queue[c][k]),
           bank_queue'[c][k] = bank_queue[c][k],
           LET b == Last(bank_queue[c][k])
           IN  lpn'[b][0] = lpn[b][0] /\ lpn'[b][1] = v /\ ~partial'[b],
           \A i \in DOMAIN bank_queue[c][k] :
               i # Len(bank_queue[c][k])
                   => lpn'[bank_queue[c][k][i]] = lpn[bank_queue[c][k][i]]
    PROVE  Writes(c, k)' = Append(Writes(c, k), v)
<1>1. PICK q, b, f, g, w, x :
          /\ q = bank_queue[c][k] /\ b = Last(q) /\ f = lpn /\ g = lpn'
          /\ w = Writes(c, k) /\ x = Writes(c, k)'
  OBVIOUS
<1>2. PICK n \in Nat : n = Len(q)
  BY <1>1 DEF TypeOK
<1>3. q \in Seq(Buffer) /\ DOMAIN q = 1 .. n /\ n # 0 /\ q[n] = b
  BY <1>1, <1>2 DEF TypeOK, HasPartial, Last
<1>4. /\ bank_queue'[c][k] = q /\ g[b][0] = f[b][0] /\ g[b][1] = v /\ ~partial'[b]
      /\ \A i \in 1 .. n : i # n => g[q[i]] = f[q[i]]
  BY <1>1, <1>2, <1>3
<1>5. ~HasPartial(bank_queue[c][k])'
  BY <1>1, <1>4 DEF HasPartial
<1>6. /\ NumWrites(bank_queue[c][k]) = 2 * n - 1
      /\ NumWrites(bank_queue[c][k])' = 2 * n
  <2>1. NumWrites(bank_queue[c][k]) = 2 * n - 1
    BY <1>1, <1>2 DEF NumWrites
  <2>2. NumWrites(bank_queue[c][k])' = 2 * n
    BY <1>1, <1>2, <1>4, <1>5 DEF NumWrites
  <2> QED
    BY <2>1, <2>2
<1>7. /\ w \in Seq(Value) /\ Len(w) = 2 * n - 1
      /\ \A i \in 1 .. 2 * n - 1 : w[i] = f[q[(i + 1) \div 2]][(i - 1) % 2]
      /\ x \in Seq(Value) /\ Len(x) = 2 * n
      /\ \A i \in 1 .. 2 * n : x[i] = g[q[(i + 1) \div 2]][(i - 1) % 2]
  <2>1. PICK m, l : /\ m = NumWrites(bank_queue[c][k]) /\ l = NumWrites(bank_queue[c][k])'
                    /\ m = 2 * n - 1 /\ l = 2 * n
    BY <1>6
  <2>2. /\ w \in Seq(Value) /\ Len(w) = m
        /\ \A i \in 1 .. m : w[i] = f[q[(i + 1) \div 2]][(i - 1) % 2]
        /\ x \in Seq(Value) /\ Len(x) = l
        /\ \A i \in 1 .. l : x[i] = g[q[(i + 1) \div 2]][(i - 1) % 2]
    <3>1. PICK r : r = bank_queue'[c][k]
      OBVIOUS
    <3>2. /\ w \in Seq(Value) /\ Len(w) = m
          /\ \A i \in 1 .. m : w[i] = f[q[(i + 1) \div 2]][(i - 1) % 2]
          /\ x \in Seq(Value) /\ Len(x) = l
          /\ \A i \in 1 .. l : x[i] = g[r[(i + 1) \div 2]][(i - 1) % 2]
      BY <1>1, <2>1, <3>1, WritesAt
    <3> QED
      BY <1>4, <3>1, <3>2
  <2> QED
    BY <2>1, <2>2
<1>8. ASSUME NEW i \in 1 .. 2 * n - 1
      PROVE  x[i] = w[i]
  <2>1. PICK h, r : h = (i + 1) \div 2 /\ r = (i - 1) % 2
    OBVIOUS
  <2>2. h \in 1 .. n /\ i \in 1 .. 2 * n /\ r \in {0, 1}
    <3>1. i \in Nat \ {0} /\ i <= 2 * n - 1
      BY <1>3
    <3>2. h \in Nat \ {0} /\ r \in {0, 1} /\ i = 2 * h - 1 + r
      BY <2>1, <3>1, HalvesInOrder
    <3> QED
      BY <3>1, <3>2
  <2>3. h # n \/ r = 0
    <3>1. i = 2 * h - 1 + r
      BY <2>1, HalvesInOrder
    <3> QED
      BY <2>2, <3>1
  <2>4. g[q[h]][r] = f[q[h]][r]
    BY <1>3, <1>4, <2>2, <2>3
  <2>5. w[i] = f[q[h]][r] /\ x[i] = g[q[h]][r]
    BY <1>7, <2>1, <2>2
  <2> QED
    BY <2>4, <2>5
<1>9. x[2 * n] = v
  <2>1. PICK i : i = 2 * n
    OBVIOUS
  <2>2. i \in 1 .. 2 * n /\ (i + 1) \div 2 = n /\ (i - 1) % 2 = 1
    <3>1. i \in 1 .. 2 * n /\ i \in Nat \ {0}
      BY <1>3, <2>1
    <3>2. (i + 1) \div 2 = n
      BY <1>3, <2>1
    <3>3. (i - 1) % 2 = 1
      BY <1>3, <2>1, <3>1, <3>2, HalvesInOrder
    <3> QED
      BY <3>1, <3>2, <3>3
  <2>3. x[i] = g[q[n]][1]
    BY <1>7, <2>2
  <2> QED
    BY <1>3, <1>4, <2>1, <2>3
<1>10. /\ 2 * n - 1 \in Nat /\ Len(x) = Len(w) + 1
       /\ \A i \in 1 .. Len(w) : x[i] = w[i]
       /\ x[Len(w) + 1] = v
  <2>1. 2 * n - 1 \in Nat /\ 2 * n = (2 * n - 1) + 1
    BY <1>3
  <2> QED
    BY <1>7, <1>8, <1>9, <2>1
<1>11. x = Append(w, v)
  BY <1>7, <1>10, AppendIs
<1> QED
  BY <1>1, <1>11

\* The oldest buffer is served with its one or two halves.
LEMMA WritesAfterServe ==
    ASSUME TypeOK, TypeOK', NEW c \in Core, NEW k \in Bank,
           bank_queue[c][k] # <<>>,
           bank_queue'[c][k] = Tail(bank_queue[c][k]),
           partial' = partial,
           \A i \in DOMAIN bank_queue[c][k] :
               i # 1 => lpn'[bank_queue[c][k][i]] = lpn[bank_queue[c][k][i]]
    PROVE  \E n \in {1, 2} :
               /\ n <= Len(Writes(c, k))
               /\ Writes(c, k)' = SubSeq(Writes(c, k), n + 1, Len(Writes(c, k)))
<1>1. PICK q, r, f, g, p, w, x :
          /\ q = bank_queue[c][k] /\ r = bank_queue'[c][k] /\ f = lpn /\ g = lpn'
          /\ p = partial /\ w = Writes(c, k) /\ x = Writes(c, k)'
  OBVIOUS
<1>2. PICK n \in Nat : n = Len(q)
  BY <1>1 DEF TypeOK
<1>3. q \in Seq(Buffer) /\ q # <<>> /\ DOMAIN q = 1 .. n /\ n # 0
  BY <1>1, <1>2 DEF TypeOK
<1>4. r = Tail(q) /\ Len(r) = n - 1 /\ \A i \in 1 .. n - 1 : r[i] = q[i + 1]
  BY <1>1, <1>2, <1>3
<1>5. \A i \in 1 .. n : i # 1 => g[q[i]] = f[q[i]]
  BY <1>1, <1>3
<1>6. PICK m, l : m = NumWrites(bank_queue[c][k]) /\ l = NumWrites(bank_queue[c][k])'
  OBVIOUS
<1>7. /\ m \in Nat /\ w \in Seq(Value) /\ Len(w) = m
      /\ \A i \in 1 .. m : w[i] = f[q[(i + 1) \div 2]][(i - 1) % 2]
      /\ l \in Nat /\ x \in Seq(Value) /\ Len(x) = l
      /\ \A i \in 1 .. l : x[i] = g[r[(i + 1) \div 2]][(i - 1) % 2]
  BY <1>1, <1>6, WritesAt
<1>8. m = IF p[q[n]] THEN 2 * n - 1 ELSE 2 * n
  BY <1>1, <1>2, <1>3, <1>6 DEF NumWrites, HasPartial, Last
<1>9. l = IF n # 1 /\ p[q[n]] THEN 2 * (n - 1) - 1 ELSE 2 * (n - 1)
  <2>1. l = 2 * Len(r) - (IF r # <<>> /\ p[r[Len(r)]] THEN 1 ELSE 0)
    BY <1>1, <1>6 DEF NumWrites, HasPartial, Last
  <2>2. n = 1 => r = <<>>
    BY <1>2, <1>3, <1>4
  <2>3. n # 1 => r # <<>> /\ n - 1 \in 1 .. n - 1 /\ r[n - 1] = q[n]
    <3>1. n # 1 => n - 1 \in 1 .. n - 1 /\ (n - 1) + 1 = n
      BY <1>3
    <3>2. n # 1 => Len(r) # 0
      BY <1>4
    <3> QED
      BY <1>4, <3>1, <3>2
  <2> QED
    BY <1>4, <2>1, <2>2, <2>3
<1>10. CASE n = 1 /\ p[q[n]]
  <2>1. m = 1 /\ l = 0
    BY <1>8, <1>9, <1>10
  <2>2. x = SubSeq(w, 1 + 1, Len(w))
    <3>1. 1 \in Nat /\ 1 <= Len(w) /\ Len(x) = Len(w) - 1 /\ \A i \in 1 .. Len(x) : x[i] = w[i + 1]
      BY <1>7, <2>1
    <3> QED
      BY <1>7, <3>1, SubSeqIs
  <2> QED
    BY <1>1, <1>7, <2>1, <2>2
<1>11. CASE ~(n = 1 /\ p[q[n]])
  <2>1. m = l + 2 /\ l <= 2 * (n - 1)
    BY <1>3, <1>8, <1>9, <1>11
  <2>2. ASSUME NEW i \in 1 .. l
        PROVE  x[i] = w[i + 2]
    <3>1. PICK h, e : h = (i + 1) \div 2 /\ e = (i - 1) % 2
      OBVIOUS
    <3>2. i \in Nat \ {0} /\ i <= l
      BY <1>7
    <3>3. h \in 1 .. n - 1
      <4>1. h \in Nat \ {0} /\ e \in {0, 1} /\ i = 2 * h - 1 + e
        BY <3>1, <3>2, HalvesInOrder
      <4>2. i <= 2 * (n - 1)
        BY <1>7, <2>1, <3>2
      <4> QED
        BY <4>1, <4>2
    <3>4. PICK j : j = i + 2
      OBVIOUS
    <3>5. j \in 1 .. m /\ (j + 1) \div 2 = h + 1 /\ (j - 1) % 2 = e
      <4>1. (i + 3) \div 2 = h + 1 /\ (i + 1) % 2 = e
        BY <3>1, <3>2, HalvesInOrder
      <4>2. j + 1 = i + 3 /\ j - 1 = i + 1 /\ j \in 1 .. m
        BY <1>7, <2>1, <3>2, <3>4
      <4> QED
        BY <4>1, <4>2
    <3>6. w[j] = f[q[h + 1]][e]
      BY <1>7, <3>5
    <3>7. x[i] = g[r[h]][e]
      BY <1>7, <3>1
    <3>8. r[h] = q[h + 1] /\ h + 1 \in 1 .. n /\ h + 1 # 1
      BY <1>4, <3>3
    <3> QED
      BY <1>5, <3>4, <3>6, <3>7, <3>8
  <2>3. /\ 2 \in Nat /\ 2 <= Len(w) /\ Len(x) = Len(w) - 2
        /\ \A i \in 1 .. Len(x) : x[i] = w[i + 2]
    BY <1>7, <2>1, <2>2
  <2>4. x = SubSeq(w, 2 + 1, Len(w))
    BY <1>7, <2>3, SubSeqIs
  <2> QED
    BY <1>1, <2>3, <2>4
<1> QED
  BY <1>10, <1>11
-----------------------------------------------------------------------------
(***************************************************************************)
(* Every step of the HIL is one of the WriteQueue or leaves it unchanged.  *)
(***************************************************************************)
\* Which buffers are in which queues.
LEMMA QueuedBuffers ==
    ASSUME HILInv, NEW c \in Core
    PROVE  /\ \A i \in DOMAIN urgent_queue[c] :
                 /\ urgent_queue[c][i] \in Buffer
                 /\ urgent_queue[c][i] \notin free_buff_queue \cup waiting_buff_queue
                 /\ urgent_queue[c][i] \notin QueuedInBanks
                 /\ \A d \in Core : \A j \in DOMAIN urgent_queue[d] :
                       urgent_queue[c][i] = urgent_queue[d][j] => c = d /\ i = j
           /\ \A k \in Bank : \A i \in DOMAIN bank_queue[c][k] :
                 /\ bank_queue[c][k][i] \in QueuedInBanks
                 /\ bank_queue[c][k][i] \notin free_buff_queue \cup waiting_buff_queue
                 /\ bank_queue[c][k][i] \in Buffer
                 /\ \A d \in Core, m \in Bank : \A j \in DOMAIN bank_queue[d][m] :
                       bank_queue[c][k][i] = bank_queue[d][m][j] => c = d /\ k = m /\ i = j
<1>1. TypeOK /\ BuffersConserved
  BY DEF HILInv
<1>2. ASSUME NEW i \in DOMAIN urgent_queue[c]
      PROVE  /\ urgent_queue[c][i] \in Queued
             /\ urgent_queue[c][i] \notin QueuedInBanks
             /\ \A d \in Core : \A j \in DOMAIN urgent_queue[d] :
                   urgent_queue[c][i] = urgent_queue[d][j] => c = d /\ i = j
  <2>1. /\ URGENT \in Lane
        /\ \A d \in Core : Queue(d, URGENT) = urgent_queue[d]
    BY <1>1, LaneQueues
  <2> QED
    BY <1>1, <2>1, QueuedAt, BankBuffers DEF InSomeQueue, BuffersConserved
<1>3. ASSUME NEW k \in Bank, NEW i \in DOMAIN bank_queue[c][k]
      PROVE  /\ bank_queue[c][k][i] \in QueuedInBanks
             /\ \A d \in Core, m \in Bank : \A j \in DOMAIN bank_queue[d][m] :
                   bank_queue[c][k][i] = bank_queue[d][m][j] => c = d /\ k = m /\ i = j
  <2>1. \A d \in Core, m \in Bank : m \in Lane /\ Queue(d, m) = bank_queue[d][m]
    BY BanksAreLanes
  <2>2. bank_queue[c][k][i] \in QueuedInBanks
    BY BankQueuedAt DEF InSomeBank
  <2> QED
    BY <1>1, <2>1, <2>2 DEF BuffersConserved
<1>4. /\ QueuedInBanks \subseteq Buffer /\ Queued \subseteq Buffer
      /\ QueuedInBanks \cap (free_buff_queue \cup waiting_buff_queue) = {}
      /\ Queued \cap (free_buff_queue \cup waiting_buff_queue) = {}
  BY <1>1, BankBuffers DEF BuffersConserved
<1> QED
  BY <1>2, <1>3, <1>4

\* Each action is a step of the WriteQueue: a command is queued (lines 150-172).
LEMMA WriteUrgentRefines ==
    ASSUME HILInv, HILInv', NEW l \in LPN, WriteUrgent(l)
    PROVE  Abstract!Next
<1>1. TypeOK /\ TypeOK'
  BY DEF HILInv
<1>2. PICK b \in free_buff_queue :
          Taken(CoreOf(l), URGENT, b) /\ lpn' = [lpn EXCEPT ![b][0] = InCore(l)]
  BY <1>1, WriteUrgentTakes
<1>3. PICK c \in Core : c = CoreOf(l)
  BY Addressing
<1>4. /\ b \in Buffer /\ lpn'[b][0] = InCore(l)
      /\ \A x \in Buffer : x # b => lpn'[x] = lpn[x]
  BY <1>1, <1>2 DEF TypeOK, Half
<1>5. /\ urgent_queue'[c] = Append(urgent_queue[c], b)
      /\ \A d \in Core : d # c => urgent_queue'[d] = urgent_queue[d]
  <2>1. /\ Queue(c, URGENT)' = Append(Queue(c, URGENT), b)
        /\ \A d \in Core : d # c => Queue(d, URGENT)' = Queue(d, URGENT)
    BY <1>2, <1>3 DEF Taken, OthersStay, Lane
  <2> QED
    BY <2>1 DEF Queue
<1>6. bank_queue' = bank_queue /\ partial' = partial /\ IsCommand(l)
  BY DEF WriteUrgent
<1>7. WritesStay
  <2> SUFFICES ASSUME NEW d \in Core, NEW k \in Bank
               PROVE  Writes(d, k)' = Writes(d, k)
    BY DEF WritesStay
  <2>1. \A i \in DOMAIN bank_queue[d][k] :
            lpn'[bank_queue[d][k][i]] = lpn[bank_queue[d][k][i]]
    BY <1>2, <1>4, QueuedBuffers
  <2> QED
    BY <1>1, <1>6, <2>1, WritesStayAt
<1>8. \A d \in Core : \A i \in DOMAIN urgent_queue[d] :
          lpn'[urgent_queue[d][i]] = lpn[urgent_queue[d][i]]
  BY <1>2, <1>4, QueuedBuffers
<1>9. Commands(c)' = Append(Commands(c), InCore(l))
  BY <1>1, <1>4, <1>5, <1>8, CommandsAfterPut
<1>10. \A d \in Core : d # c => Commands(d)' = Commands(d)
  BY <1>1, <1>5, <1>8, CommandsStayAt
<1> QED
  BY <1>3, <1>6, <1>7, <1>9, <1>10, AbstractPutsCommand

\* A write begins a buffer (lines 190-204).
LEMMA WriteFirstHalfRefines ==
    ASSUME HILInv, HILInv', NEW l \in LPN, WriteFirstHalf(l)
    PROVE  Abstract!Next
<1>1. TypeOK /\ TypeOK'
  BY DEF HILInv
<1>2. PICK b \in free_buff_queue :
          /\ Taken(CoreOf(l), BankOf(l), b)
          /\ lpn' = [lpn EXCEPT ![b][0] = InCore(l)]
          /\ partial' = [partial EXCEPT ![b] = TRUE]
  BY <1>1, WriteFirstHalfTakes
<1>3. PICK c \in Core, k \in Bank : c = CoreOf(l) /\ k = BankOf(l)
  BY Addressing
<1>4. /\ b \in Buffer /\ lpn'[b][0] = InCore(l) /\ partial'[b]
      /\ \A x \in Buffer : x # b => lpn'[x] = lpn[x] /\ partial'[x] = partial[x]
  BY <1>1, <1>2 DEF TypeOK, Half
<1>5. /\ bank_queue'[c][k] = Append(bank_queue[c][k], b)
      /\ \A d \in Core, m \in Bank : d # c \/ m # k => bank_queue'[d][m] = bank_queue[d][m]
  BY <1>2, <1>3, BanksAreLanes DEF Taken, OthersStay
<1>6. urgent_queue' = urgent_queue /\ ~IsCommand(l) /\ ~HasPartial(bank_queue[c][k])
  BY <1>3 DEF WriteFirstHalf
<1>7. CommandsStay
  <2> SUFFICES ASSUME NEW d \in Core
               PROVE  Commands(d)' = Commands(d)
    BY DEF CommandsStay
  <2>1. \A i \in DOMAIN urgent_queue[d] :
            lpn'[urgent_queue[d][i]] = lpn[urgent_queue[d][i]]
    BY <1>2, <1>4, QueuedBuffers
  <2> QED
    BY <1>1, <1>6, <2>1, CommandsStayAt
<1>8. \A d \in Core, m \in Bank : \A i \in DOMAIN bank_queue[d][m] :
          /\ lpn'[bank_queue[d][m][i]] = lpn[bank_queue[d][m][i]]
          /\ partial'[bank_queue[d][m][i]] = partial[bank_queue[d][m][i]]
  <2> TAKE d \in Core, m \in Bank
  <2> TAKE i \in DOMAIN bank_queue[d][m]
  <2>1. bank_queue[d][m][i] \in Buffer /\ bank_queue[d][m][i] \notin free_buff_queue
    BY QueuedBuffers
  <2> QED
    BY <1>2, <1>4, <2>1
<1>9. Writes(c, k)' = Append(Writes(c, k), InCore(l))
  BY <1>1, <1>4, <1>5, <1>6, <1>8, WritesAfterFirst
<1>10. \A d \in Core, m \in Bank : d # c \/ m # k => Writes(d, m)' = Writes(d, m)
  BY <1>1, <1>5, <1>8, WritesStayAt
<1> QED
  BY <1>3, <1>6, <1>7, <1>9, <1>10, AbstractPutsWrite

\* A write fills the second half (lines 178-188).
LEMMA WriteSecondHalfRefines ==
    ASSUME HILInv, HILInv', NEW l \in LPN, WriteSecondHalf(l)
    PROVE  Abstract!Next
<1>1. TypeOK /\ TypeOK'
  BY DEF HILInv
<1>2. PICK c \in Core, k \in Bank : c = CoreOf(l) /\ k = BankOf(l)
  BY Addressing
<1>3. PICK b : b = Last(bank_queue[c][k])
  OBVIOUS
<1>4. /\ ~IsCommand(l) /\ HasPartial(bank_queue[c][k])
      /\ lpn' = [lpn EXCEPT ![b][1] = InCore(l)]
      /\ partial' = [partial EXCEPT ![b] = FALSE]
      /\ urgent_queue' = urgent_queue /\ bank_queue' = bank_queue
  BY <1>2, <1>3 DEF WriteSecondHalf, queues
<1>5. PICK n : n = Len(bank_queue[c][k]) /\ n \in DOMAIN bank_queue[c][k]
               /\ b = bank_queue[c][k][n]
  BY <1>1, <1>3, <1>4 DEF TypeOK, HasPartial, Last
<1>6. b \in Buffer /\ b \in QueuedInBanks
  BY <1>5, QueuedBuffers
<1>7. /\ lpn'[b][0] = lpn[b][0] /\ lpn'[b][1] = InCore(l) /\ ~partial'[b]
      /\ \A x \in Buffer : x # b => lpn'[x] = lpn[x] /\ partial'[x] = partial[x]
  BY <1>1, <1>4, <1>6 DEF TypeOK, Half
<1>8. CommandsStay
  <2> SUFFICES ASSUME NEW d \in Core
               PROVE  Commands(d)' = Commands(d)
    BY DEF CommandsStay
  <2>1. \A i \in DOMAIN urgent_queue[d] :
            lpn'[urgent_queue[d][i]] = lpn[urgent_queue[d][i]]
    BY <1>6, <1>7, QueuedBuffers
  <2> QED
    BY <1>1, <1>4, <2>1, CommandsStayAt
<1>9. \A d \in Core, m \in Bank : \A i \in DOMAIN bank_queue[d][m] :
          d # c \/ m # k \/ i # n =>
              /\ lpn'[bank_queue[d][m][i]] = lpn[bank_queue[d][m][i]]
              /\ partial'[bank_queue[d][m][i]] = partial[bank_queue[d][m][i]]
  BY <1>5, <1>7, QueuedBuffers
<1>10. InCore(l) \in Value
  BY DEF Value
<1>11. Writes(c, k)' = Append(Writes(c, k), InCore(l))
  <2>1. LET x == Last(bank_queue[c][k])
        IN  lpn'[x][0] = lpn[x][0] /\ lpn'[x][1] = InCore(l) /\ ~partial'[x]
    BY <1>3, <1>7
  <2>2. \A i \in DOMAIN bank_queue[c][k] :
            i # Len(bank_queue[c][k])
                => lpn'[bank_queue[c][k][i]] = lpn[bank_queue[c][k][i]]
    BY <1>5, <1>9
  <2>3. bank_queue'[c][k] = bank_queue[c][k] /\ HasPartial(bank_queue[c][k])
    BY <1>4
  <2>4. PICK v \in Value : v = InCore(l)
    BY <1>10
  <2>5. Writes(c, k)' = Append(Writes(c, k), v)
    BY <1>1, <2>1, <2>2, <2>3, <2>4, WritesAfterSecond
  <2> QED
    BY <2>4, <2>5
<1>12. \A d \in Core, m \in Bank : d # c \/ m # k => Writes(d, m)' = Writes(d, m)
  BY <1>1, <1>4, <1>9, WritesStayAt
<1> QED
  BY <1>2, <1>4, <1>8, <1>11, <1>12, AbstractPutsWrite

\* The oldest command of a core is served (lines 221-260, 313-352).
LEMMA ServeUrgentRefines ==
    ASSUME HILInv, HILInv', ServeUrgent
    PROVE  Abstract!Next
<1>1. TypeOK /\ TypeOK' /\ BuffersConserved
  BY DEF HILInv
<1>2. PICK c \in Core, b \in Buffer :
          /\ c = core_iter /\ urgent_queue[c] # <<>> /\ b = Head(urgent_queue[c])
          /\ Served(c, URGENT, b, {b})
  BY <1>1, ServeUrgentServes
<1>3. /\ urgent_queue' = [urgent_queue EXCEPT ![c] = Tail(@)]
      /\ lpn' = [lpn EXCEPT ![b] = NoLPN]
      /\ bank_queue' = bank_queue /\ partial' = partial
  BY <1>2 DEF ServeUrgent, FreeUrgent
<1>4. 1 \in DOMAIN urgent_queue[c] /\ urgent_queue[c][1] = b
  BY <1>1, <1>2 DEF TypeOK
<1>5. \A x \in Buffer : x # b => lpn'[x] = lpn[x]
  BY <1>1, <1>3 DEF TypeOK
<1>6. WritesStay
  <2> SUFFICES ASSUME NEW d \in Core, NEW k \in Bank
               PROVE  Writes(d, k)' = Writes(d, k)
    BY DEF WritesStay
  <2>1. \A i \in DOMAIN bank_queue[d][k] :
            lpn'[bank_queue[d][k][i]] = lpn[bank_queue[d][k][i]]
    BY <1>4, <1>5, QueuedBuffers
  <2> QED
    BY <1>1, <1>3, <2>1, WritesStayAt
<1>7. \A d \in Core : \A i \in DOMAIN urgent_queue[d] :
          d # c \/ i # 1 => lpn'[urgent_queue[d][i]] = lpn[urgent_queue[d][i]]
  BY <1>4, <1>5, QueuedBuffers
<1>8. /\ urgent_queue'[c] = Tail(urgent_queue[c])
      /\ \A d \in Core : d # c => urgent_queue'[d] = urgent_queue[d]
  BY <1>1, <1>3 DEF TypeOK
<1>9. Commands(c) # <<>> /\ Commands(c)' = Tail(Commands(c))
  BY <1>1, <1>2, <1>7, <1>8, CommandsAfterServe
<1>10. \A d \in Core : d # c => Commands(d)' = Commands(d)
  BY <1>1, <1>7, <1>8, CommandsStayAt
<1> QED
  BY <1>6, <1>9, <1>10, AbstractServesCommand

\* NormalAlone and CountersMatch: no command waits while the writes are served.
LEMMA NoCommandWaits ==
    ASSUME HILInv, pc = "drain_normal"
    PROVE  \A c \in Core : urgent_queue[c] = <<>> /\ Commands(c) = <<>>
<1>1. /\ on_going_urgent_request = 0 /\ TypeOK
      /\ on_going_urgent_request = Len(urgent_queue[0]) + Len(urgent_queue[1])
  BY DEF HILInv, NormalAlone, CountersMatch
<1>2. PICK m \in Nat, n \in Nat : m = Len(urgent_queue[0]) /\ n = Len(urgent_queue[1])
  BY <1>1 DEF TypeOK, Core
<1>3. m + n = 0
  BY <1>1, <1>2
<1>4. m = 0 /\ n = 0
  BY <1>3
<1>5. \A c \in Core : urgent_queue[c] \in Seq(Buffer) /\ Len(urgent_queue[c]) = 0
  BY <1>1, <1>2, <1>4 DEF Core, TypeOK
<1>6. \A c \in Core : urgent_queue[c] = <<>>
  BY <1>5
<1> QED
  BY <1>6 DEF Commands, CommandsOf

\* The oldest buffer of a bank is served (lines 262-296).
LEMMA ServeNormalRefines ==
    ASSUME HILInv, HILInv', ServeNormal
    PROVE  Abstract!Next
<1>1. TypeOK /\ TypeOK' /\ BuffersConserved /\ KeptWaits
  BY DEF HILInv
<1>2. PICK c \in Core, k \in Bank, b \in Buffer :
          /\ bank_queue[c][k] # <<>> /\ b = Head(bank_queue[c][k])
          /\ bank_queue' = [bank_queue EXCEPT ![c][k] = Tail(@)]
          /\ \E o \in Outcome(c, b) : Served(c, k, b, Freed(o, b))
  BY <1>1, ServeNormalServes DEF KeptWaits
<1>3. PICK done : /\ done \subseteq waiting_buff_queue \cup {b}
                  /\ lpn' = [x \in Buffer |-> IF x \in done THEN NoLPN ELSE lpn[x]]
  BY <1>2 DEF Served
<1>4. urgent_queue' = urgent_queue /\ partial' = partial /\ pc = "drain_normal"
  BY DEF ServeNormal
<1>5. 1 \in DOMAIN bank_queue[c][k] /\ bank_queue[c][k][1] = b
  BY <1>1, <1>2 DEF TypeOK
<1>6. \A x \in Buffer : x # b /\ x \notin waiting_buff_queue => lpn'[x] = lpn[x]
  BY <1>3
<1>7. CommandsStay
  <2> SUFFICES ASSUME NEW d \in Core
               PROVE  Commands(d)' = Commands(d)
    BY DEF CommandsStay
  <2>1. \A i \in DOMAIN urgent_queue[d] :
            lpn'[urgent_queue[d][i]] = lpn[urgent_queue[d][i]]
    BY <1>5, <1>6, QueuedBuffers
  <2> QED
    BY <1>1, <1>4, <2>1, CommandsStayAt
<1>8. \A d \in Core, m \in Bank : \A i \in DOMAIN bank_queue[d][m] :
          d # c \/ m # k \/ i # 1 => lpn'[bank_queue[d][m][i]] = lpn[bank_queue[d][m][i]]
  BY <1>5, <1>6, QueuedBuffers
<1>9. /\ bank_queue'[c][k] = Tail(bank_queue[c][k])
      /\ \A d \in Core, m \in Bank : d # c \/ m # k => bank_queue'[d][m] = bank_queue[d][m]
  BY <1>1, <1>2 DEF TypeOK
<1>10. PICK n \in {1, 2} :
           /\ n <= Len(Writes(c, k))
           /\ Writes(c, k)' = SubSeq(Writes(c, k), n + 1, Len(Writes(c, k)))
  BY <1>1, <1>2, <1>4, <1>8, <1>9, WritesAfterServe
<1>11. \A d \in Core, m \in Bank : d # c \/ m # k => Writes(d, m)' = Writes(d, m)
  BY <1>1, <1>4, <1>8, <1>9, WritesStayAt
<1>12. \A d \in Core : Commands(d) = <<>>
  BY <1>4, NoCommandWaits
<1> QED
  BY <1>7, <1>10, <1>11, <1>12, AbstractServesWrites

\* The steps that move no request.
LEMMA OtherStepsStutter ==
    ASSUME BeginRead \/ BeginIteration \/ NoneUrgent \/ NoneNormal \/ ReadPage
               \/ UNCHANGED hilvars
    PROVE  UNCHANGED Abstract!vars
<1>1. UNCHANGED <<urgent_queue, bank_queue, lpn, partial>>
  BY DEF BeginRead, BeginIteration, NoneUrgent, NoneNormal, ReadPage, hilvars, queues, counters
<1>2. CommandsStay /\ WritesStay
  BY <1>1 DEF CommandsStay, WritesStay, Commands, Writes, CommandsOf, WritesOf, NumWrites,
        HasPartial
<1> QED
  BY <1>2, AbstractStutters

\* Nothing is queued at the start.
LEMMA InitRefines ==
    ASSUME Init
    PROVE  Abstract!Init
<1>1. \A c \in Core : CommandsOf(urgent_queue[c]) = <<>>
  BY DEF Init, CommandsOf
<1>2. \A c \in Core, k \in Bank : WritesOf(bank_queue[c][k]) = <<>>
  BY DEF Init, WritesOf, NumWrites, HasPartial
<1> QED
  BY <1>1, <1>2 DEF Abstract!Init

\* The HIL serves the requests once each and in order, the commands of both cores
\* before any write: for every mix of calls and whatever the FTL keeps, each of its
\* steps (lines 142-299) is one of the WriteQueue or changes none of its queues.
THEOREM HILImplementsWriteQueue == Spec => ImplementsWriteQueue
<1>1. Init => Abstract!Init
  BY InitRefines
<1>2. HILInv /\ HILInv' /\ [Next]_hilvars => [Abstract!Next]_(Abstract!vars)
  <2> SUFFICES ASSUME HILInv, HILInv', [Next]_hilvars
               PROVE  Abstract!Next \/ UNCHANGED Abstract!vars
    OBVIOUS
  <2>1. ASSUME NEW l \in LPN, WriteUrgent(l) \/ WriteSecondHalf(l) \/ WriteFirstHalf(l)
        PROVE  Abstract!Next
    BY <2>1, WriteUrgentRefines, WriteSecondHalfRefines, WriteFirstHalfRefines
  <2>2. CASE ServeUrgent \/ ServeNormal
    BY <2>2, ServeUrgentRefines, ServeNormalRefines
  <2>3. CASE BeginRead \/ BeginIteration \/ NoneUrgent \/ NoneNormal \/ ReadPage
                 \/ UNCHANGED hilvars
    BY <2>3, OtherStepsStutter
  <2> QED
    BY <2>1, <2>2, <2>3 DEF Next, Call, Loop
<1> QED
  BY <1>1, <1>2, HILInvariant, PTL DEF Spec, ImplementsWriteQueue, Abstract!Spec
===============================================================================
