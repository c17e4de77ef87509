----------------------------- MODULE LoggerProofs -----------------------------
(***************************************************************************)
(* Proofs about LockFreeQueue and the Logger that uses it, for every number *)
(* of threads that log, every size of the ring of at least two slots, every *)
(* batch and file size: the ring is a bounded FIFO queue, no entry is lost, *)
(* doubled or overtaken on its way into the files other than in the three   *)
(* ways the code knows, and shutdown() writes a batch of what it finds.     *)
(***************************************************************************)
EXTENDS Logger, TLAPS

Seqs == INSTANCE SequenceTheorems

\* A thread has claimed its position and not yet published the slot.
Holding(t) == pc[t] \in {"move", "publish"}

Inside(n) == n \in Nat /\ dequeuePos <= n /\ n < enqueuePos

\* A position between the two is held by the producer that claimed it or was
\* published with a value; the slot of a later position is not ahead of it.
SlotInv ==
  /\ dequeuePos <= enqueuePos /\ enqueuePos <= dequeuePos + Size
  /\ \A n \in Nat : Inside(n) =>
       \/ sequence[Index(n)] = n /\ \E p \in Producers : Holding(p) /\ pos[p] = n
       \/ /\ sequence[Index(n)] = n + 1 /\ data[Index(n)] \in Values
          /\ \A p \in Producers : Holding(p) => pos[p] # n
  /\ \A n \in Nat : enqueuePos <= n /\ n < dequeuePos + Size => sequence[Index(n)] <= n

\* What a producer knows: a position that is still the shared one when it is
\* claimed is free, and nobody else touches the slot until it is published.
WriterOk(p) ==
  /\ pos[p] <= enqueuePos
  /\ pc[p] # "idle" => item[p] \in Values
  /\ pc[p] = "cas" /\ pos[p] = enqueuePos => sequence[Index(pos[p])] = pos[p]
  /\ Holding(p) => Inside(pos[p]) /\ sequence[Index(pos[p])] = pos[p]
  /\ pc[p] = "publish" => data[Index(pos[p])] = item[p]

\* The same for a consumer, whose slot no producer can claim for the next round.
ReaderOk(c) ==
  /\ pos[c] <= dequeuePos
  /\ pc[c] = "cas" /\ pos[c] = dequeuePos => sequence[Index(pos[c])] = pos[c] + 1
  /\ Holding(c) => /\ pos[c] < dequeuePos /\ enqueuePos <= pos[c] + Size
                   /\ sequence[Index(pos[c])] = pos[c] + 1
  /\ pc[c] = "move" => data[Index(pos[c])] \in Values
  /\ pc[c] \in {"publish", "done"} => item[c] \in Values
  /\ pc[c] \notin {"publish", "done"} => item[c] = None

\* A position has one holder on each side.
OneHolder ==
  /\ \A p, q \in Producers : Holding(p) /\ Holding(q) /\ pos[p] = pos[q] => p = q
  /\ \A c, d \in Consumers : Holding(c) /\ Holding(d) /\ pos[c] = pos[d] => c = d

QInv ==
  /\ QueueTypeOK /\ SlotInv /\ OneHolder
  /\ \A p \in Producers : WriterOk(p)
  /\ \A c \in Consumers : ReaderOk(c)

----------------------------------------------------------------------------
(* What the logger adds *)

Hand == InHand[Worker]

\* An entry of p that is neither in the queue nor refused yet.
Pending(p) == pc[p] \in {"load", "cas", "failed"}

\* written to w, held in h or queued in c.
Members(w, h, c) == Range(w) \cup ({h} \ {None}) \cup Range(c)

InLog == Members(written, Hand, Content)

\* The background thread is alone: the position it has is the shared one.
WorkerInv ==
  /\ pc[Worker] # "idle" => stage \in {"process", "last"} /\ count < MaxBatch
  /\ pc[Worker] \in {"load", "cas"} => pos[Worker] = dequeuePos
  /\ stage = "check" => count = 0
  /\ running => stage \in {"check", "process"}

\* What was written comes before what the thread holds and that before what is
\* in the queue, each in order.
Ordered(w, h, c) ==
  /\ \A i, j \in 1..Len(w) : i < j => Before(w[i], w[j])
  /\ \A i \in 1..Len(w) : \A k \in 1..Len(c) : Before(w[i], c[k])
  /\ \A j, k \in 1..Len(c) : j < k => Before(c[j], c[k])
  /\ h # None => /\ \A i \in 1..Len(w) : Before(w[i], h)
                 /\ \A k \in 1..Len(c) : Before(h, c[k])

OrderInv == Ordered(written, Hand, Content)

\* Every entry logged is somewhere, and the pending one of a thread is newer
\* than all of its that are in the log.
EntryInv ==
  /\ \A p \in Producers : pc[p] # "idle" => item[p] = <<p, logged[p]>>
  /\ \A e \in InLog :
       /\ e \in Values /\ e[2] <= logged[e[1]]
       /\ Pending(e[1]) => e[2] < logged[e[1]]
  /\ \A p \in Producers : \A n \in 1..logged[p] :
       <<p, n>> \in InLog \/ <<p, n>> \in dropped \/ (n = logged[p] /\ Pending(p))

\* What shutdown owes for certain: the part that one batch takes.
Due == {owed[k] : k \in {i \in 1..Len(owed) : i <= MaxBatch}}

\* What shutdown owes is still in front of everything else, published, and fits
\* into the batch that will be the last.
OwedInv ==
  /\ running => Due = {}
  /\ Due \subseteq InLog
  /\ \A k \in 1..Len(Content) : Content[k] \in Due =>
       /\ \A j \in 1..k : sequence[Index(dequeuePos + j - 1)] = dequeuePos + j
       /\ stage # "exited" /\ ~(stage = "last" /\ pc[Worker] = "failed")
       /\ stage # "last" => k <= MaxBatch
       /\ stage = "last" => k + count + (IF Hand = None THEN 0 ELSE 1) <= MaxBatch

FlowInv == TypeOK /\ QInv /\ WorkerInv /\ OrderInv /\ EntryInv /\ OwedInv

\* What the files have, whatever was renamed, replaced or not opened: nothing
\* that was written is unaccounted for, and the files are in order.
FileInv ==
  /\ Range(written) = Filed \cup unfiled \cup overwritten
  /\ InOrder(logFile) /\ \A n \in Names : InOrder(archives[n])
  /\ \A n \in Names : \A a \in Range(archives[n]), b \in Range(logFile) : Before(a, b)
  /\ \A m, n \in Names : m # n => Range(archives[m]) \cap Range(archives[n]) = {}
  /\ fileOpen => unfiled = {}

IndInv == FlowInv /\ FileInv

----------------------------------------------------------------------------
(* Positions and slots *)

LEMMA Division ==
  ASSUME NEW n \in Nat
  PROVE  /\ n \div Size \in Nat /\ n % Size \in 0..Size - 1
         /\ n = Size * (n \div Size) + (n % Size)
BY SizeAssumption

LEMMA Multiples ==
  ASSUME NEW a \in Int, NEW b \in Int, a < b
  PROVE  Size * a + Size <= Size * b
<1>1. b - a - 1 \in Nat
  OBVIOUS
<1>2. Size * (b - a - 1) >= 0
  BY <1>1, SizeAssumption
<1>3. Size * b = Size * a + Size + Size * (b - a - 1)
  BY SizeAssumption
<1> QED
  BY <1>2, <1>3, SizeAssumption

LEMMA IndexType == \A n \in Nat : Index(n) \in 0..Size - 1
BY Division DEF Index

\* Positions less than a round apart have different slots ...
LEMMA IndexDiffers ==
  \A m, n \in Nat : m # n /\ m < n + Size /\ n < m + Size => Index(m) # Index(n)
<1>1. ASSUME NEW m \in Nat, NEW n \in Nat, m < n, n < m + Size PROVE m % Size # n % Size
  <2> SUFFICES ASSUME m % Size = n % Size PROVE FALSE
    OBVIOUS
  <2> DEFINE q == m \div Size
             r == n \div Size
  <2>1. /\ q \in Nat /\ r \in Nat /\ m % Size \in Nat
        /\ m = Size * q + (m % Size) /\ n = Size * r + (n % Size)
    BY Division
  <2> HIDE DEF q, r
  <2>2. Size * q \in Int /\ Size * r \in Int
    BY <2>1, SizeAssumption
  <2>3. Size * q < Size * r /\ Size * r < Size * q + Size
    BY <1>1, <2>1, <2>2, SizeAssumption
  <2>4. CASE q < r
    BY <2>1, <2>2, <2>3, <2>4, Multiples, SizeAssumption
  <2>5. CASE r < q
    BY <2>1, <2>2, <2>3, <2>5, Multiples, SizeAssumption
  <2>6. CASE q = r
    BY <2>2, <2>3, <2>6
  <2> QED
    BY <2>1, <2>4, <2>5, <2>6
<1>2. \A m, n \in Nat : m < n /\ n < m + Size => Index(m) # Index(n)
  BY <1>1 DEF Index
<1> QED
  BY <1>2

\* ... and a round later it is the same one.
LEMMA IndexWraps == \A n \in Nat : Index(n + Size) = Index(n)
<1> SUFFICES ASSUME NEW n \in Nat PROVE (n + Size) % Size = n % Size
  BY DEF Index
<1> DEFINE q == n \div Size
           r == (n + Size) \div Size
<1>1. /\ q \in Nat /\ r \in Nat /\ n % Size \in 0..Size - 1 /\ (n + Size) % Size \in 0..Size - 1
      /\ n = Size * q + (n % Size) /\ n + Size = Size * r + ((n + Size) % Size)
  BY Division, SizeAssumption
<1> HIDE DEF q, r
<1>2. Size * q \in Int /\ Size * r \in Int /\ Size * (q + 1) = Size * q + Size
  BY <1>1, SizeAssumption
<1>3. CASE q + 1 < r
  BY <1>1, <1>2, <1>3, Multiples, SizeAssumption
<1>4. CASE r < q + 1
  BY <1>1, <1>2, <1>4, Multiples, SizeAssumption
<1>5. CASE q + 1 = r
  BY <1>1, <1>2, <1>5, SizeAssumption
<1> QED
  BY <1>1, <1>3, <1>4, <1>5

----------------------------------------------------------------------------
(* The content of the queue *)

LEMMA ContentFacts ==
  ASSUME QInv
  PROVE  /\ Len(Content) = enqueuePos - dequeuePos /\ Len(Content) \in Nat
         /\ DOMAIN Content = 1..Len(Content)
         /\ \A i \in 1..Len(Content) : Content[i] = ValueAt(dequeuePos + i - 1)
<1>1. enqueuePos \in Nat /\ dequeuePos \in Nat /\ dequeuePos <= enqueuePos
  BY DEF QInv, QueueTypeOK, SlotInv
<1>2. enqueuePos - dequeuePos \in Nat
  BY <1>1
<1> QED
  BY <1>2 DEF Content

\* The same positions with the same values.
LEMMA ContentSame ==
  ASSUME QInv, UNCHANGED <<enqueuePos, dequeuePos>>,
         \A n \in Nat : Inside(n) => ValueAt(n)' = ValueAt(n)
  PROVE  Content' = Content
<1>1. enqueuePos \in Nat /\ dequeuePos \in Nat
  BY DEF QInv, QueueTypeOK
<1>2. \A i \in 1..(enqueuePos - dequeuePos) :
        dequeuePos + i - 1 \in Nat /\ Inside(dequeuePos + i - 1)
  BY <1>1 DEF Inside
<1>3. \A i \in 1..(enqueuePos - dequeuePos) :
        ValueAt(dequeuePos + i - 1)' = ValueAt(dequeuePos + i - 1)
  BY <1>2
<1> QED
  BY <1>3 DEF Content

LEMMA ChooseOne ==
  ASSUME NEW S, NEW x, \A y : y \in S <=> y = x
  PROVE  S # {} /\ (CHOOSE y \in S : TRUE) = x
OBVIOUS

\* The value at a position is its holder's or the slot's.
LEMMA ValueFacts ==
  ASSUME OneHolder, NEW n \in Nat
  PROVE  /\ \A p \in Producers : Holding(p) /\ pos[p] = n => ValueAt(n) = item[p]
         /\ (\A p \in Producers : Holding(p) => pos[p] # n) => ValueAt(n) = data[Index(n)]
<1>1. ASSUME NEW p \in Producers, Holding(p), pos[p] = n PROVE ValueAt(n) = item[p]
  <2>1. \A q : q \in Claimed(n) <=> q = p
    BY <1>1 DEF Claimed, OneHolder, Holding
  <2> QED
    BY <2>1, ChooseOne DEF ValueAt
<1>2. ASSUME \A p \in Producers : Holding(p) => pos[p] # n PROVE ValueAt(n) = data[Index(n)]
  <2>1. Claimed(n) = {}
    BY <1>2 DEF Claimed, Holding
  <2> QED
    BY <2>1 DEF ValueAt
<1> QED
  BY <1>1, <1>2

\* The same one step later.
LEMMA ValueFactsNext ==
  ASSUME OneHolder', NEW n \in Nat
  PROVE  /\ \A p \in Producers : Holding(p)' /\ pos'[p] = n => ValueAt(n)' = item'[p]
         /\ (\A p \in Producers : Holding(p)' => pos'[p] # n) => ValueAt(n)' = data'[Index(n)]
<1>1. ASSUME NEW p \in Producers, Holding(p)', pos'[p] = n PROVE ValueAt(n)' = item'[p]
  <2>1. \A q : q \in Claimed(n)' <=> q = p
    BY <1>1 DEF Claimed, OneHolder, Holding
  <2> QED
    BY <2>1, ChooseOne DEF ValueAt
<1>2. ASSUME \A p \in Producers : Holding(p)' => pos'[p] # n PROVE ValueAt(n)' = data'[Index(n)]
  <2>1. Claimed(n)' = {}
    BY <1>2 DEF Claimed, Holding
  <2> QED
    BY <2>1 DEF ValueAt, Index
<1> QED
  BY <1>1, <1>2

----------------------------------------------------------------------------
(* Steps of the queue *)

\* A thread that holds no position, before or after, moves no slot.
LEMMA QuietStep ==
  ASSUME QInv, NEW t \in Threads, UNCHANGED <<enqueuePos, dequeuePos, sequence, data>>,
         QueueTypeOK', ~Holding(t), ~Holding(t)',
         \A u \in Threads : u # t => pc'[u] = pc[u] /\ pos'[u] = pos[u] /\ item'[u] = item[u],
         t \in Producers => WriterOk(t)',
         t \in Consumers => ReaderOk(t)'
  PROVE  QInv' /\ Content' = Content
<1>0. QueueTypeOK /\ SlotInv /\ OneHolder
      /\ (\A p \in Producers : WriterOk(p)) /\ (\A c \in Consumers : ReaderOk(c))
  BY DEF QInv
<1>1. /\ \A u \in Threads : Holding(u)' <=> Holding(u)
      /\ \A u \in Threads : Holding(u) => pos'[u] = pos[u] /\ item'[u] = item[u]
  BY DEF Holding
<1>2. Producers \subseteq Threads /\ Consumers \subseteq Threads
  BY DEF Threads
<1>3. \A n : Inside(n)' <=> Inside(n)
  BY DEF Inside
<1>4. SlotInv'
  <2>1. ASSUME NEW n \in Nat, Inside(n)
        PROVE  \/ sequence[Index(n)] = n /\ \E p \in Producers : Holding(p)' /\ pos'[p] = n
               \/ /\ sequence[Index(n)] = n + 1 /\ data[Index(n)] \in Values
                  /\ \A p \in Producers : Holding(p)' => pos'[p] # n
    <3>1. (\E p \in Producers : Holding(p) /\ pos[p] = n)
            => \E p \in Producers : Holding(p)' /\ pos'[p] = n
      BY <1>1, <1>2
    <3>2. (\A p \in Producers : Holding(p) => pos[p] # n)
            => \A p \in Producers : Holding(p)' => pos'[p] # n
      BY <1>1, <1>2
    <3> QED
      BY <1>0, <2>1, <3>1, <3>2 DEF SlotInv
  <2> QED
    BY <1>0, <1>3, <2>1 DEF SlotInv, Index
<1>5. OneHolder'
  BY <1>0, <1>1, <1>2 DEF OneHolder
<1>6. \A p \in Producers : WriterOk(p)'
  <2> SUFFICES ASSUME NEW p \in Producers, p # t PROVE WriterOk(p)'
    OBVIOUS
  <2> QED
    BY <1>0, <1>2, <1>3 DEF WriterOk, Holding, Inside, Index
<1>7. \A c \in Consumers : ReaderOk(c)'
  <2> SUFFICES ASSUME NEW c \in Consumers, c # t PROVE ReaderOk(c)'
    OBVIOUS
  <2> QED
    BY <1>0, <1>2 DEF ReaderOk, Holding, Index
<1>8. QInv'
  BY <1>4, <1>5, <1>6, <1>7 DEF QInv
<1>9. ASSUME NEW n \in Nat, Inside(n) PROVE ValueAt(n)' = ValueAt(n)
  <2>1. CASE \E p \in Producers : Holding(p) /\ pos[p] = n
    <3>1. PICK p \in Producers : Holding(p) /\ pos[p] = n
      BY <2>1
    <3>2. Holding(p)' /\ pos'[p] = n /\ item'[p] = item[p]
      BY <1>1, <1>2, <3>1
    <3> QED
      BY <1>0, <1>5, <3>1, <3>2, ValueFacts, ValueFactsNext
  <2>2. CASE \A p \in Producers : Holding(p) => pos[p] # n
    <3>1. \A p \in Producers : Holding(p)' => pos'[p] # n
      BY <1>1, <1>2, <2>2
    <3> QED
      BY <1>0, <1>5, <2>2, <3>1, ValueFacts, ValueFactsNext
  <2> QED
    BY <2>1, <2>2
<1>10. Content' = Content
  BY <1>9, ContentSame
<1> QED
  BY <1>8, <1>10

\* What a thread may do before it has claimed anything: a call loads the shared
\* position, a slot is looked at, a position turns out to be stale.
LEMMA CallEnqueueInv ==
  ASSUME QInv, NEW p \in Producers, NEW v \in Values, CallEnqueue(p, v)
  PROVE  QInv' /\ Content' = Content /\ InHand' = InHand
<1>0. QueueTypeOK /\ p \in Threads /\ p \notin Consumers
  BY ThreadAssumption DEF QInv, Threads
<1>1. /\ pc[p] = "idle" /\ pc' = [pc EXCEPT ![p] = "load"] /\ item' = [item EXCEPT ![p] = v]
      /\ pos' = [pos EXCEPT ![p] = enqueuePos]
      /\ UNCHANGED <<enqueuePos, dequeuePos, sequence, data>>
  BY DEF CallEnqueue, Goto, slotVars
<1>2. QueueTypeOK'
  BY <1>0, <1>1 DEF QueueTypeOK
<1>3. /\ pc'[p] = "load" /\ item'[p] = v /\ pos'[p] = enqueuePos
      /\ \A u \in Threads : u # p => pc'[u] = pc[u] /\ pos'[u] = pos[u] /\ item'[u] = item[u]
  BY <1>0, <1>1 DEF QueueTypeOK
<1>4. WriterOk(p)' /\ ~Holding(p) /\ ~Holding(p)'
  BY <1>0, <1>1, <1>3 DEF WriterOk, Holding, QueueTypeOK
<1>5. InHand' = InHand
  BY <1>0, <1>1, <1>3 DEF InHand, Threads, Index
<1> QED
  BY <1>0, <1>1, <1>2, <1>3, <1>4, <1>5, QuietStep

LEMMA CallDequeueInv ==
  ASSUME QInv, NEW c \in Consumers, CallDequeue(c)
  PROVE  QInv' /\ Content' = Content /\ InHand' = InHand
<1>0. QueueTypeOK /\ c \in Threads /\ c \notin Producers /\ ReaderOk(c)
  BY ThreadAssumption DEF QInv, Threads
<1>1. /\ pc[c] = "idle" /\ pc' = [pc EXCEPT ![c] = "load"]
      /\ pos' = [pos EXCEPT ![c] = dequeuePos]
      /\ UNCHANGED <<enqueuePos, dequeuePos, sequence, data, item>>
  BY DEF CallDequeue, Goto, slotVars
<1>2. QueueTypeOK'
  BY <1>0, <1>1 DEF QueueTypeOK
<1>3. /\ pc'[c] = "load" /\ pos'[c] = dequeuePos
      /\ \A u \in Threads : u # c => pc'[u] = pc[u] /\ pos'[u] = pos[u]
  BY <1>0, <1>1 DEF QueueTypeOK
<1>4. ReaderOk(c)' /\ ~Holding(c) /\ ~Holding(c)'
  BY <1>0, <1>1, <1>3 DEF ReaderOk, Holding, QueueTypeOK
<1>5. InHand' = InHand
  <2>1. \A d \in Consumers : (pc'[d] = "move" <=> pc[d] = "move")
                             /\ (pc[d] = "move" => pos'[d] = pos[d])
    BY <1>1, <1>3 DEF Threads
  <2> QED
    BY <1>1, <2>1 DEF InHand, Index
<1> QED
  BY <1>0, <1>1, <1>2, <1>3, <1>4, <1>5, QuietStep

\* A step of the loop before the claim: Load, or a compare-exchange that fails.
LEMMA SeekStep ==
  ASSUME QInv, NEW t \in Threads, Load(t) \/ (Cas(t) /\ ~Claims(t))
  PROVE  QInv' /\ Content' = Content /\ InHand' = InHand
<1>0. QueueTypeOK /\ (t \in Producers => WriterOk(t)) /\ (t \in Consumers => ReaderOk(t))
  BY DEF QInv
<1>1. /\ UNCHANGED <<enqueuePos, dequeuePos, sequence, data, item>>
      /\ pc[t] \in {"load", "cas"}
      /\ \/ pc' = [pc EXCEPT ![t] = "cas"] /\ pos' = pos /\ sequence[Index(pos[t])] - Turn(t) = 0
         \/ pc' = [pc EXCEPT ![t] = "failed"] /\ pos' = pos
         \/ pc' = pc /\ pc[t] = "load" /\ pos' = [pos EXCEPT ![t] = Shared(t)]
         \/ pc' = [pc EXCEPT ![t] = "load"] /\ pos' = [pos EXCEPT ![t] = Shared(t)]
  BY DEF Load, Cas, Goto, slotVars
<1>2. Shared(t) \in Nat
  BY <1>0 DEF Shared, QueueTypeOK
<1>3. pos' \in [Threads -> Nat] /\ pc' \in [Threads -> {"idle", "load", "cas", "move", "publish",
                                                        "done", "failed"}]
  BY <1>0, <1>1, <1>2 DEF QueueTypeOK
<1>4. QueueTypeOK'
  BY <1>0, <1>1, <1>3 DEF QueueTypeOK
<1>5. /\ \A u \in Threads : u # t => pc'[u] = pc[u] /\ pos'[u] = pos[u]
      /\ \/ pc'[t] = "cas" /\ pos'[t] = pos[t] /\ sequence[Index(pos[t])] = Turn(t)
         \/ pc'[t] = "failed" /\ pos'[t] = pos[t]
         \/ pc'[t] = "load" /\ pos'[t] = Shared(t)
  <2>0. pos[t] \in Nat /\ Index(pos[t]) \in 0..Size - 1
    BY <1>0, IndexType DEF QueueTypeOK
  <2>1. sequence[Index(pos[t])] \in Nat /\ Turn(t) \in Nat
    BY <1>0, <2>0 DEF QueueTypeOK, Turn
  <2> QED
    BY <1>0, <1>1, <2>1 DEF QueueTypeOK
<1>6. ~Holding(t) /\ ~Holding(t)'
  BY <1>1, <1>5 DEF Holding
<1>7. t \in Producers => WriterOk(t)'
  <2> SUFFICES ASSUME t \in Producers PROVE WriterOk(t)'
    OBVIOUS
  <2>1. Turn(t) = pos[t] /\ Shared(t) = enqueuePos
    BY DEF Turn, Shared
  <2> QED
    BY <1>0, <1>1, <1>2, <1>5, <1>6, <2>1 DEF WriterOk, Index
<1>8. t \in Consumers => ReaderOk(t)'
  <2> SUFFICES ASSUME t \in Consumers PROVE ReaderOk(t)'
    OBVIOUS
  <2>1. Turn(t) = pos[t] + 1 /\ Shared(t) = dequeuePos
    BY ThreadAssumption DEF Turn, Shared
  <2> QED
    BY <1>0, <1>1, <1>2, <1>5, <1>6, <2>1 DEF ReaderOk, Index
<1>9. InHand' = InHand
  <2>1. \A d \in Consumers : (pc'[d] = "move" <=> pc[d] = "move")
                             /\ (pc[d] = "move" => pos'[d] = pos[d])
    BY <1>1, <1>5 DEF Threads
  <2> QED
    BY <1>1, <2>1 DEF InHand, Index
<1> QED
  BY <1>1, <1>4, <1>5, <1>6, <1>7, <1>8, <1>9, QuietStep

\* A producer claims the position it has seen.
LEMMA ClaimWriteInv ==
  ASSUME QInv, NEW p \in Producers, Cas(p), Claims(p)
  PROVE  /\ QInv' /\ InHand' = InHand /\ Len(Content) < Size
         /\ enqueuePos' = enqueuePos + 1 /\ dequeuePos' = dequeuePos
         /\ \A n \in Nat : n = enqueuePos => ValueAt(n)' = item[p]
         /\ \A n \in Nat : Inside(n) => ValueAt(n)' = ValueAt(n)
<1>0. QueueTypeOK /\ SlotInv /\ OneHolder /\ WriterOk(p) /\ p \in Threads
      /\ (\A q \in Producers : WriterOk(q)) /\ (\A c \in Consumers : ReaderOk(c))
  BY DEF QInv, Threads
<1>1. /\ pc[p] = "cas" /\ pos[p] = enqueuePos /\ pc' = [pc EXCEPT ![p] = "move"]
      /\ enqueuePos' = enqueuePos + 1
      /\ UNCHANGED <<dequeuePos, pos, sequence, data, item>>
  <2>1. pos[p] = enqueuePos
    BY DEF Claims, Shared
  <2> QED
    BY <2>1 DEF Cas, Goto, slotVars
<1>2. enqueuePos \in Nat /\ dequeuePos \in Nat /\ QueueTypeOK'
  BY <1>0, <1>1 DEF QueueTypeOK
<1>3. pc'[p] = "move" /\ \A u \in Threads : u # p => pc'[u] = pc[u]
  BY <1>0, <1>1 DEF QueueTypeOK
<1>4. sequence[Index(enqueuePos)] = enqueuePos
  BY <1>0, <1>1 DEF WriterOk
<1>5. enqueuePos < dequeuePos + Size
  <2> SUFFICES ASSUME enqueuePos = dequeuePos + Size PROVE FALSE
    BY <1>0, <1>2, SizeAssumption DEF SlotInv
  <2>1. Index(enqueuePos) = Index(dequeuePos)
    BY <1>2, IndexWraps
  <2>2. Inside(dequeuePos)
    BY <1>2, SizeAssumption DEF Inside
  <2>3. sequence[Index(dequeuePos)] \in {dequeuePos, dequeuePos + 1}
    BY <1>0, <1>2, <2>2 DEF SlotInv
  <2> QED
    BY <1>2, <1>4, <2>1, <2>3, SizeAssumption
<1>6. /\ Holding(p)' /\ ~Holding(p)
      /\ \A u \in Threads : u # p => (Holding(u)' <=> Holding(u))
  BY <1>1, <1>3 DEF Holding
<1>7. Producers \subseteq Threads /\ Consumers \subseteq Threads /\ p \notin Consumers
  BY ThreadAssumption DEF Threads
<1>8. \A n \in Nat : Inside(n)' <=> Inside(n) \/ n = enqueuePos
  BY <1>0, <1>1, <1>2 DEF Inside, SlotInv
<1>9. \A q \in Producers : Holding(q) => pos[q] < enqueuePos
  BY <1>0 DEF WriterOk, Inside
<1>10. SlotInv'
  <2>1. ASSUME NEW n \in Nat, Inside(n)'
        PROVE  \/ sequence[Index(n)] = n /\ \E q \in Producers : Holding(q)' /\ pos[q] = n
               \/ /\ sequence[Index(n)] = n + 1 /\ data[Index(n)] \in Values
                  /\ \A q \in Producers : Holding(q)' => pos[q] # n
    <3>1. CASE n = enqueuePos
      BY <1>1, <1>4, <1>6, <3>1
    <3>2. CASE n # enqueuePos
      <4>1. Inside(n)
        BY <1>8, <2>1, <3>2
      <4>2. (\E q \in Producers : Holding(q) /\ pos[q] = n)
              => \E q \in Producers : Holding(q)' /\ pos[q] = n
        BY <1>6, <1>7
      <4>3. (\A q \in Producers : Holding(q) => pos[q] # n)
              => \A q \in Producers : Holding(q)' => pos[q] # n
        BY <1>1, <1>6, <1>7, <3>2
      <4> QED
        BY <1>0, <4>1, <4>2, <4>3 DEF SlotInv
    <3> QED
      BY <3>1, <3>2
  <2>2. enqueuePos' <= dequeuePos' + Size /\ dequeuePos' <= enqueuePos'
    BY <1>0, <1>1, <1>2, <1>5, SizeAssumption DEF SlotInv
  <2>3. \A n \in Nat : enqueuePos' <= n /\ n < dequeuePos' + Size => sequence[Index(n)] <= n
    BY <1>0, <1>1, <1>2 DEF SlotInv
  <2> QED
    BY <1>1, <2>1, <2>2, <2>3 DEF SlotInv, Index
<1>11. OneHolder'
  BY <1>0, <1>1, <1>2, <1>6, <1>7, <1>9 DEF OneHolder
<1>12. \A q \in Producers : WriterOk(q)'
  <2> SUFFICES ASSUME NEW q \in Producers PROVE WriterOk(q)'
    OBVIOUS
  <2>0. WriterOk(q) /\ pos[q] \in Nat
    BY <1>0, <1>7 DEF QueueTypeOK
  <2>1. CASE q = p
    BY <1>1, <1>2, <1>3, <1>4, <1>8, <2>0, <2>1 DEF WriterOk, Index
  <2>2. CASE q # p
    <3>1. pc'[q] = pc[q] /\ (Holding(q)' <=> Holding(q)) /\ pos[q] <= enqueuePos
      BY <1>3, <1>6, <1>7, <2>0, <2>2 DEF WriterOk
    <3>2. Inside(pos[q]) => Inside(pos[q])'
      BY <1>1, <1>8, <2>0
    <3>3. pos[q] # enqueuePos' /\ pos[q] <= enqueuePos'
      BY <1>1, <1>2, <2>0, <3>1
    <3> QED
      BY <1>1, <2>0, <3>1, <3>2, <3>3 DEF WriterOk, Index
  <2> QED
    BY <2>1, <2>2
<1>13. \A c \in Consumers : ReaderOk(c)'
  <2> SUFFICES ASSUME NEW c \in Consumers PROVE ReaderOk(c)'
    OBVIOUS
  <2>0. ReaderOk(c) /\ pos[c] \in Nat /\ c # p
    BY <1>0, <1>7 DEF QueueTypeOK
  <2>1. pc'[c] = pc[c] /\ (Holding(c)' <=> Holding(c))
    BY <1>3, <1>6, <1>7, <2>0
  <2>2. Holding(c) => enqueuePos' <= pos[c] + Size
    <3> SUFFICES ASSUME Holding(c) PROVE enqueuePos # pos[c] + Size
      BY <1>1, <1>2, <2>0, SizeAssumption DEF ReaderOk
    <3>1. sequence[Index(pos[c])] = pos[c] + 1
      BY <2>0 DEF ReaderOk
    <3> QED
      BY <1>4, <2>0, <3>1, IndexWraps, SizeAssumption
  <2> QED
    BY <1>1, <2>0, <2>1, <2>2 DEF ReaderOk, Index
<1>14. QInv'
  BY <1>2, <1>10, <1>11, <1>12, <1>13 DEF QInv
<1>15. \A n \in Nat : n = enqueuePos => ValueAt(n)' = item[p]
  BY <1>1, <1>6, <1>11, ValueFactsNext
<1>16. ASSUME NEW n \in Nat, Inside(n) PROVE ValueAt(n)' = ValueAt(n)
  <2>0. n # enqueuePos
    BY <1>2, <1>16 DEF Inside
  <2>1. CASE \E q \in Producers : Holding(q) /\ pos[q] = n
    <3>1. PICK q \in Producers : Holding(q) /\ pos[q] = n
      BY <2>1
    <3>2. Holding(q)' /\ pos'[q] = n /\ item'[q] = item[q]
      BY <1>1, <1>6, <1>7, <3>1
    <3> QED
      BY <1>0, <1>11, <3>1, <3>2, ValueFacts, ValueFactsNext
  <2>2. CASE \A q \in Producers : Holding(q) => pos[q] # n
    <3>1. \A q \in Producers : Holding(q)' => pos'[q] # n
      BY <1>1, <1>6, <1>7, <2>0, <2>2
    <3> QED
      BY <1>0, <1>1, <1>11, <2>2, <3>1, ValueFacts, ValueFactsNext
  <2> QED
    BY <2>1, <2>2
<1>17. InHand' = InHand
  BY <1>1, <1>3, <1>7 DEF InHand, Index
<1>18. Len(Content) < Size
  BY <1>2, <1>5, ContentFacts, SizeAssumption
<1> QED
  BY <1>1, <1>14, <1>15, <1>16, <1>17, <1>18

\* A consumer claims the oldest position; its value is in the slot.
LEMMA ClaimReadInv ==
  ASSUME QInv, NEW c \in Consumers, Cas(c), Claims(c)
  PROVE  /\ QInv' /\ Inside(dequeuePos) /\ InHand[c] = None
         /\ InHand' = [InHand EXCEPT ![c] = ValueAt(dequeuePos)]
         /\ enqueuePos' = enqueuePos /\ dequeuePos' = dequeuePos + 1
         /\ ValueAt(dequeuePos) \in Values
         /\ \A n \in Nat : Inside(n) => ValueAt(n)' = ValueAt(n)
<1>0. QueueTypeOK /\ SlotInv /\ OneHolder /\ ReaderOk(c) /\ c \in Threads /\ c \notin Producers
      /\ (\A q \in Producers : WriterOk(q)) /\ (\A d \in Consumers : ReaderOk(d))
  BY ThreadAssumption DEF QInv, Threads
<1>1. /\ pc[c] = "cas" /\ pos[c] = dequeuePos /\ pc' = [pc EXCEPT ![c] = "move"]
      /\ dequeuePos' = dequeuePos + 1
      /\ UNCHANGED <<enqueuePos, pos, sequence, data, item>>
  <2>1. pos[c] = dequeuePos
    BY <1>0 DEF Claims, Shared
  <2> QED
    BY <1>0, <2>1 DEF Cas, Goto, slotVars
<1>2. enqueuePos \in Nat /\ dequeuePos \in Nat /\ QueueTypeOK'
  BY <1>0, <1>1 DEF QueueTypeOK
<1>3. pc'[c] = "move" /\ \A u \in Threads : u # c => pc'[u] = pc[u]
  BY <1>0, <1>1 DEF QueueTypeOK
<1>4. sequence[Index(dequeuePos)] = dequeuePos + 1
  BY <1>0, <1>1 DEF ReaderOk
<1>5. dequeuePos < enqueuePos /\ Inside(dequeuePos)
  <2> SUFFICES ASSUME enqueuePos = dequeuePos PROVE FALSE
    BY <1>0, <1>2 DEF SlotInv, Inside
  <2>1. sequence[Index(dequeuePos)] <= dequeuePos
    BY <1>0, <1>2, SizeAssumption DEF SlotInv
  <2> QED
    BY <1>2, <1>4, <2>1
<1>6. /\ Holding(c)' /\ ~Holding(c)
      /\ \A u \in Threads : u # c => (Holding(u)' <=> Holding(u))
  BY <1>1, <1>3 DEF Holding
<1>7. Producers \subseteq Threads /\ Consumers \subseteq Threads
  BY DEF Threads
<1>8. \A n \in Nat : Inside(n)' <=> Inside(n) /\ n # dequeuePos
  BY <1>0, <1>1, <1>2 DEF Inside, SlotInv
<1>9. data[Index(dequeuePos)] \in Values /\ \A p \in Producers : Holding(p) => pos[p] # dequeuePos
  BY <1>0, <1>2, <1>4, <1>5 DEF SlotInv
<1>10. ValueAt(dequeuePos) = data[Index(dequeuePos)]
  BY <1>0, <1>2, <1>9, ValueFacts
<1>11. \A p \in Producers : (Holding(p)' <=> Holding(p)) /\ pc'[p] = pc[p]
  BY <1>0, <1>3, <1>6, <1>7
<1>12. SlotInv'
  <2>1. ASSUME NEW n \in Nat, Inside(n)'
        PROVE  \/ sequence[Index(n)] = n /\ \E q \in Producers : Holding(q)' /\ pos[q] = n
               \/ /\ sequence[Index(n)] = n + 1 /\ data[Index(n)] \in Values
                  /\ \A q \in Producers : Holding(q)' => pos[q] # n
    <3>1. Inside(n)
      BY <1>8, <2>1
    <3> QED
      BY <1>0, <1>11, <3>1 DEF SlotInv
  <2>2. enqueuePos' <= dequeuePos' + Size /\ dequeuePos' <= enqueuePos'
    BY <1>0, <1>1, <1>2, <1>5, SizeAssumption DEF SlotInv
  <2>3. ASSUME NEW n \in Nat, enqueuePos <= n, n < dequeuePos + 1 + Size
        PROVE  sequence[Index(n)] <= n
    <3>1. CASE n < dequeuePos + Size
      BY <1>0, <2>3, <3>1 DEF SlotInv
    <3>2. CASE n = dequeuePos + Size
      BY <1>2, <1>4, <3>2, IndexWraps, SizeAssumption
    <3> QED
      BY <1>2, <2>3, <3>1, <3>2, SizeAssumption
  <2> QED
    BY <1>1, <2>1, <2>2, <2>3 DEF SlotInv, Index
<1>13. OneHolder'
  <2>1. \A d \in Consumers : Holding(d) => pos[d] # dequeuePos
    BY <1>0, <1>2 DEF ReaderOk
  <2> QED
    BY <1>0, <1>1, <1>6, <1>7, <1>11, <2>1 DEF OneHolder
<1>14. \A q \in Producers : WriterOk(q)'
  <2> SUFFICES ASSUME NEW q \in Producers PROVE WriterOk(q)'
    OBVIOUS
  <2>0. WriterOk(q) /\ pos[q] \in Nat
    BY <1>0, <1>7 DEF QueueTypeOK
  <2>1. Holding(q) /\ Inside(pos[q]) => Inside(pos[q])'
    BY <1>1, <1>8, <1>9, <2>0
  <2> QED
    BY <1>1, <1>11, <2>0, <2>1 DEF WriterOk, Index
<1>15. \A d \in Consumers : ReaderOk(d)'
  <2> SUFFICES ASSUME NEW d \in Consumers PROVE ReaderOk(d)'
    OBVIOUS
  <2>0. ReaderOk(d) /\ pos[d] \in Nat
    BY <1>0, <1>7 DEF QueueTypeOK
  <2>1. CASE d = c
    <3>1. pos[c] < dequeuePos' /\ enqueuePos <= pos[c] + Size /\ pos[c] # dequeuePos'
      BY <1>0, <1>1, <1>2 DEF SlotInv
    <3> QED
      BY <1>1, <1>2, <1>3, <1>4, <1>9, <2>0, <2>1, <3>1 DEF ReaderOk, Index
  <2>2. CASE d # c
    <3>1. pc'[d] = pc[d] /\ (Holding(d)' <=> Holding(d)) /\ pos[d] # dequeuePos'
          /\ pos[d] <= dequeuePos' /\ (pos[d] < dequeuePos => pos[d] < dequeuePos')
      BY <1>1, <1>2, <1>3, <1>6, <1>7, <2>0, <2>2 DEF ReaderOk
    <3> QED
      BY <1>1, <2>0, <3>1 DEF ReaderOk, Index
  <2> QED
    BY <2>1, <2>2
<1>16. QInv'
  BY <1>2, <1>12, <1>13, <1>14, <1>15 DEF QInv
<1>17. ASSUME NEW n \in Nat, Inside(n) PROVE ValueAt(n)' = ValueAt(n)
  <2>1. CASE \E q \in Producers : Holding(q) /\ pos[q] = n
    <3>1. PICK q \in Producers : Holding(q) /\ pos[q] = n
      BY <2>1
    <3>2. Holding(q)' /\ pos'[q] = n /\ item'[q] = item[q]
      BY <1>1, <1>11, <3>1
    <3> QED
      BY <1>0, <1>13, <3>1, <3>2, ValueFacts, ValueFactsNext
  <2>2. CASE \A q \in Producers : Holding(q) => pos[q] # n
    <3>1. \A q \in Producers : Holding(q)' => pos'[q] # n
      BY <1>1, <1>11, <2>2
    <3> QED
      BY <1>0, <1>1, <1>13, <2>2, <3>1, ValueFacts, ValueFactsNext
  <2> QED
    BY <2>1, <2>2
<1>18. InHand[c] = None
  BY <1>0, <1>1 DEF InHand, ReaderOk
<1>19. InHand' = [InHand EXCEPT ![c] = ValueAt(dequeuePos)]
  <2>1. InHand'[c] = data[Index(dequeuePos)]
    BY <1>1, <1>3 DEF InHand, Index
  <2>2. \A d \in Consumers : d # c => InHand'[d] = InHand[d]
    BY <1>1, <1>3, <1>7 DEF InHand, Index
  <2> QED
    BY <1>10, <2>1, <2>2 DEF InHand
<1> QED
  BY <1>1, <1>5, <1>9, <1>10, <1>16, <1>17, <1>18, <1>19

\* The slots of the positions in use do not overlap.
LEMMA SlotsApart ==
  ASSUME QInv
  PROVE  /\ \A m, n \in Nat : Inside(m) /\ Inside(n) /\ m # n => Index(m) # Index(n)
         /\ \A c \in Consumers : \A n \in Nat :
              Holding(c) /\ Inside(n) => Index(pos[c]) # Index(n)
<1>0. /\ SlotInv /\ enqueuePos \in Nat /\ dequeuePos \in Nat
      /\ \A c \in Consumers : ReaderOk(c) /\ pos[c] \in Nat
  BY DEF QInv, QueueTypeOK, Threads
<1>1. ASSUME NEW m \in Nat, NEW n \in Nat, Inside(m), Inside(n), m # n
      PROVE  Index(m) # Index(n)
  <2>1. m < n + Size /\ n < m + Size
    BY <1>0, <1>1, SizeAssumption DEF SlotInv, Inside
  <2> QED
    BY <1>1, <2>1, IndexDiffers
<1>2. ASSUME NEW c \in Consumers, NEW n \in Nat, Holding(c), Inside(n)
      PROVE  Index(pos[c]) # Index(n)
  <2>1. pos[c] \in Nat /\ pos[c] < n /\ n < pos[c] + Size
    BY <1>0, <1>2, SizeAssumption DEF ReaderOk, Inside
  <2>2. pos[c] < n + Size /\ pos[c] # n
    BY <2>1, SizeAssumption
  <2> QED
    BY <2>1, <2>2, IndexDiffers
<1> QED
  BY <1>1, <1>2

\* The value goes into the slot; it was in the queue already.
LEMMA MoveWriteInv ==
  ASSUME QInv, NEW p \in Producers, Move(p)
  PROVE  QInv' /\ Content' = Content /\ InHand' = InHand
<1> DEFINE m == pos[p]
<1>0. QueueTypeOK /\ SlotInv /\ OneHolder /\ WriterOk(p) /\ p \in Threads /\ p \notin Consumers
      /\ (\A q \in Producers : WriterOk(q)) /\ (\A c \in Consumers : ReaderOk(c))
  BY ThreadAssumption DEF QInv, Threads
<1>1. /\ pc[p] = "move" /\ pc' = [pc EXCEPT ![p] = "publish"]
      /\ data' = [data EXCEPT ![Index(m)] = item[p]]
      /\ UNCHANGED <<enqueuePos, dequeuePos, sequence, pos, item>>
  BY DEF Move, Goto
<1>2. m \in Nat /\ Index(m) \in 0..Size - 1 /\ Holding(p) /\ Inside(m)
  BY <1>0, <1>1, IndexType DEF QueueTypeOK, WriterOk, Holding
<1>3. QueueTypeOK'
  <2>1. data' \in [0..Size - 1 -> Values \cup {None}]
    BY <1>0, <1>1, <1>2 DEF QueueTypeOK
  <2> QED
    BY <1>0, <1>1, <2>1 DEF QueueTypeOK
<1>4. pc'[p] = "publish" /\ \A u \in Threads : u # p => pc'[u] = pc[u]
  BY <1>0, <1>1 DEF QueueTypeOK
<1>5. \A u \in Threads : Holding(u)' <=> Holding(u)
  BY <1>1, <1>4 DEF Holding
<1>6. Producers \subseteq Threads /\ Consumers \subseteq Threads
  BY DEF Threads
<1>7. data'[Index(m)] = item[p] /\ \A i \in 0..Size - 1 : i # Index(m) => data'[i] = data[i]
  BY <1>0, <1>1, <1>2 DEF QueueTypeOK
<1> HIDE DEF m
<1>8. \A n \in Nat : Inside(n) /\ n # m => data'[Index(n)] = data[Index(n)]
  BY <1>2, <1>7, SlotsApart, IndexType
<1>9. SlotInv'
  <2>1. ASSUME NEW n \in Nat, Inside(n)
        PROVE  \/ sequence[Index(n)] = n /\ \E q \in Producers : Holding(q)' /\ pos[q] = n
               \/ /\ sequence[Index(n)] = n + 1 /\ data'[Index(n)] \in Values
                  /\ \A q \in Producers : Holding(q)' => pos[q] # n
    <3>1. CASE n = m
      BY <1>0, <1>2, <1>5, <1>6, <3>1 DEF WriterOk, m
    <3>2. CASE n # m
      BY <1>0, <1>5, <1>6, <1>8, <2>1, <3>2 DEF SlotInv
    <3> QED
      BY <3>1, <3>2
  <2>2. \A n : Inside(n)' <=> Inside(n)
    BY <1>1 DEF Inside
  <2> QED
    BY <1>0, <1>1, <2>1, <2>2 DEF SlotInv, Index
<1>10. OneHolder'
  BY <1>0, <1>1, <1>5, <1>6 DEF OneHolder
<1>11. \A q \in Producers : WriterOk(q)'
  <2> SUFFICES ASSUME NEW q \in Producers PROVE WriterOk(q)'
    OBVIOUS
  <2>0. WriterOk(q) /\ pos[q] \in Nat
    BY <1>0, <1>6 DEF QueueTypeOK
  <2>1. CASE q = p
    BY <1>1, <1>2, <1>4, <1>7, <2>0, <2>1 DEF WriterOk, Index, Inside, Holding, m
  <2>2. CASE q # p
    <3>1. pc'[q] = pc[q] /\ (Holding(q)' <=> Holding(q))
      BY <1>4, <1>5, <1>6, <2>2
    <3>2. pc[q] = "publish" => data'[Index(pos[q])] = data[Index(pos[q])]
      <4> SUFFICES ASSUME pc[q] = "publish" PROVE data'[Index(pos[q])] = data[Index(pos[q])]
        OBVIOUS
      <4>1. Holding(q) /\ Inside(pos[q])
        BY <2>0 DEF Holding, WriterOk
      <4>2. pos[q] # m
        BY <1>0, <1>2, <2>2, <4>1 DEF OneHolder, m
      <4> QED
        BY <1>8, <2>0, <4>1, <4>2
    <3> QED
      BY <1>1, <2>0, <3>1, <3>2 DEF WriterOk, Index, Inside
  <2> QED
    BY <2>1, <2>2
<1>12. \A c \in Consumers : pc[c] = "move" => data'[Index(pos[c])] = data[Index(pos[c])]
  <2> SUFFICES ASSUME NEW c \in Consumers, pc[c] = "move"
               PROVE  data'[Index(pos[c])] = data[Index(pos[c])]
    OBVIOUS
  <2>1. Holding(c) /\ Index(pos[c]) \in 0..Size - 1
    BY <1>0, <1>6, IndexType DEF Holding, QueueTypeOK
  <2> QED
    BY <1>2, <1>7, <2>1, SlotsApart
<1>13. \A c \in Consumers : ReaderOk(c)'
  <2> SUFFICES ASSUME NEW c \in Consumers PROVE ReaderOk(c)'
    OBVIOUS
  <2>1. pc'[c] = pc[c] /\ (Holding(c)' <=> Holding(c))
    BY <1>0, <1>4, <1>5, <1>6
  <2>2. ReaderOk(c)
    BY <1>0
  <2> QED
    BY <1>1, <1>12, <2>1, <2>2 DEF ReaderOk, Index
<1>14. QInv'
  BY <1>3, <1>9, <1>10, <1>11, <1>13 DEF QInv
<1>15. InHand' = InHand
  <2>1. \A c \in Consumers : pc'[c] = pc[c]
    BY <1>0, <1>4, <1>6
  <2> QED
    BY <1>1, <1>12, <2>1 DEF InHand, Index
<1>16. ASSUME NEW n \in Nat, Inside(n) PROVE ValueAt(n)' = ValueAt(n)
  <2>1. CASE \E q \in Producers : Holding(q) /\ pos[q] = n
    <3>1. PICK q \in Producers : Holding(q) /\ pos[q] = n
      BY <2>1
    <3>2. Holding(q)' /\ pos'[q] = n /\ item'[q] = item[q]
      BY <1>1, <1>5, <1>6, <3>1
    <3> QED
      BY <1>0, <1>10, <3>1, <3>2, ValueFacts, ValueFactsNext
  <2>2. CASE \A q \in Producers : Holding(q) => pos[q] # n
    <3>1. \A q \in Producers : Holding(q)' => pos'[q] # n
      BY <1>1, <1>5, <1>6, <2>2
    <3>2. n # m
      BY <1>2, <2>2 DEF m
    <3> QED
      BY <1>0, <1>8, <1>10, <1>16, <2>2, <3>1, <3>2, ValueFacts, ValueFactsNext
  <2> QED
    BY <2>1, <2>2
<1>17. Content' = Content
  BY <1>1, <1>16, ContentSame
<1> QED
  BY <1>14, <1>15, <1>17

LEMMA MoveReadInv ==
  ASSUME QInv, NEW c \in Consumers, Move(c)
  PROVE  QInv' /\ Content' = Content /\ InHand' = InHand
<1>0. QueueTypeOK /\ SlotInv /\ OneHolder /\ ReaderOk(c) /\ c \in Threads /\ c \notin Producers
      /\ (\A q \in Producers : WriterOk(q)) /\ (\A d \in Consumers : ReaderOk(d))
  BY ThreadAssumption DEF QInv, Threads
<1>1. /\ pc[c] = "move" /\ pc' = [pc EXCEPT ![c] = "publish"]
      /\ item' = [item EXCEPT ![c] = data[Index(pos[c])]]
      /\ UNCHANGED <<enqueuePos, dequeuePos, sequence, data, pos>>
  BY <1>0 DEF Move, Goto
<1>2. data[Index(pos[c])] \in Values
  BY <1>0, <1>1 DEF ReaderOk
<1>3. QueueTypeOK'
  BY <1>0, <1>1, <1>2 DEF QueueTypeOK
<1>4. /\ pc'[c] = "publish" /\ item'[c] = data[Index(pos[c])]
      /\ \A u \in Threads : u # c => pc'[u] = pc[u] /\ item'[u] = item[u]
  BY <1>0, <1>1 DEF QueueTypeOK
<1>5. \A u \in Threads : Holding(u)' <=> Holding(u)
  BY <1>1, <1>4 DEF Holding
<1>6. Producers \subseteq Threads /\ Consumers \subseteq Threads
  BY DEF Threads
<1>7. \A n : Inside(n)' <=> Inside(n)
  BY <1>1 DEF Inside
<1>8. \A p \in Producers : pc'[p] = pc[p] /\ item'[p] = item[p] /\ (Holding(p)' <=> Holding(p))
  BY <1>0, <1>4, <1>5, <1>6
<1>9. SlotInv'
  BY <1>0, <1>1, <1>7, <1>8 DEF SlotInv, Index
<1>10. OneHolder'
  BY <1>0, <1>1, <1>5, <1>6 DEF OneHolder
<1>11. \A q \in Producers : WriterOk(q)'
  <2> SUFFICES ASSUME NEW q \in Producers PROVE WriterOk(q)'
    OBVIOUS
  <2>1. WriterOk(q) /\ pc'[q] = pc[q] /\ item'[q] = item[q] /\ (Holding(q)' <=> Holding(q))
    BY <1>0, <1>8
  <2> QED
    BY <1>1, <2>1 DEF WriterOk, Index, Inside
<1>12. \A d \in Consumers : ReaderOk(d)'
  <2> SUFFICES ASSUME NEW d \in Consumers PROVE ReaderOk(d)'
    OBVIOUS
  <2>1. CASE d = c
    BY <1>0, <1>1, <1>2, <1>4, <2>1 DEF ReaderOk, Index, Holding
  <2>2. CASE d # c
    <3>1. ReaderOk(d) /\ pc'[d] = pc[d] /\ item'[d] = item[d] /\ (Holding(d)' <=> Holding(d))
      BY <1>0, <1>4, <1>5, <1>6, <2>2
    <3> QED
      BY <1>1, <3>1 DEF ReaderOk, Index
  <2> QED
    BY <2>1, <2>2
<1>13. QInv'
  BY <1>3, <1>9, <1>10, <1>11, <1>12 DEF QInv
<1>14. InHand' = InHand
  BY <1>1, <1>4, <1>6 DEF InHand, Index
<1>15. ASSUME NEW n \in Nat, Inside(n) PROVE ValueAt(n)' = ValueAt(n)
  <2>1. CASE \E q \in Producers : Holding(q) /\ pos[q] = n
    <3>1. PICK q \in Producers : Holding(q) /\ pos[q] = n
      BY <2>1
    <3>2. Holding(q)' /\ pos'[q] = n /\ item'[q] = item[q]
      BY <1>1, <1>8, <3>1
    <3> QED
      BY <1>0, <1>10, <3>1, <3>2, ValueFacts, ValueFactsNext
  <2>2. CASE \A q \in Producers : Holding(q) => pos[q] # n
    <3>1. \A q \in Producers : Holding(q)' => pos'[q] # n
      BY <1>1, <1>8, <2>2
    <3> QED
      BY <1>0, <1>1, <1>10, <2>2, <3>1, ValueFacts, ValueFactsNext
  <2> QED
    BY <2>1, <2>2
<1> QED
  BY <1>1, <1>13, <1>14, <1>15, ContentSame

\* The slot is handed to the readers ...
LEMMA PublishWriteInv ==
  ASSUME QInv, NEW p \in Producers, Publish(p)
  PROVE  /\ QInv' /\ Content' = Content /\ InHand' = InHand
         /\ \A n \in Nat : Inside(n) /\ sequence[Index(n)] = n + 1 => sequence'[Index(n)] = n + 1
<1> DEFINE m == pos[p]
<1>0. QueueTypeOK /\ SlotInv /\ OneHolder /\ WriterOk(p) /\ p \in Threads /\ p \notin Consumers
      /\ (\A q \in Producers : WriterOk(q)) /\ (\A c \in Consumers : ReaderOk(c))
  BY ThreadAssumption DEF QInv, Threads
<1>1. /\ pc[p] = "publish" /\ pc' = [pc EXCEPT ![p] = "done"]
      /\ sequence' = [sequence EXCEPT ![Index(m)] = m + 1]
      /\ UNCHANGED <<enqueuePos, dequeuePos, data, pos, item>>
  BY DEF Publish, Goto, NextTurn
<1>2. /\ m \in Nat /\ Index(m) \in 0..Size - 1 /\ Holding(p) /\ Inside(m)
      /\ sequence[Index(m)] = m /\ data[Index(m)] = item[p] /\ item[p] \in Values
      /\ enqueuePos \in Nat /\ dequeuePos \in Nat
  BY <1>0, <1>1, IndexType DEF QueueTypeOK, WriterOk, Holding
<1>3. QueueTypeOK'
  <2>1. sequence' \in [0..Size - 1 -> Nat]
    BY <1>0, <1>1, <1>2 DEF QueueTypeOK
  <2> QED
    BY <1>0, <1>1, <2>1 DEF QueueTypeOK
<1>4. pc'[p] = "done" /\ \A u \in Threads : u # p => pc'[u] = pc[u]
  BY <1>0, <1>1 DEF QueueTypeOK
<1>5. ~Holding(p)' /\ \A u \in Threads : u # p => (Holding(u)' <=> Holding(u))
  BY <1>1, <1>4 DEF Holding
<1>6. Producers \subseteq Threads /\ Consumers \subseteq Threads
  BY DEF Threads
<1>7. sequence'[Index(m)] = m + 1 /\ \A i \in 0..Size - 1 : i # Index(m) => sequence'[i] = sequence[i]
  BY <1>0, <1>1, <1>2 DEF QueueTypeOK
<1>8. \A q \in Producers : q # p /\ Holding(q) => pos[q] # m
  BY <1>0, <1>2 DEF OneHolder
<1> HIDE DEF m
<1>9. \A n \in Nat : Inside(n) /\ n # m => sequence'[Index(n)] = sequence[Index(n)]
  BY <1>2, <1>7, SlotsApart, IndexType
<1>10. SlotInv'
  <2>1. ASSUME NEW n \in Nat, Inside(n)
        PROVE  \/ sequence'[Index(n)] = n /\ \E q \in Producers : Holding(q)' /\ pos[q] = n
               \/ /\ sequence'[Index(n)] = n + 1 /\ data[Index(n)] \in Values
                  /\ \A q \in Producers : Holding(q)' => pos[q] # n
    <3>1. CASE n = m
      BY <1>2, <1>5, <1>6, <1>7, <1>8, <3>1
    <3>2. CASE n # m
      <4>1. (\E q \in Producers : Holding(q) /\ pos[q] = n)
              => \E q \in Producers : Holding(q)' /\ pos[q] = n
        BY <1>5, <1>6, <3>2 DEF m
      <4>2. (\A q \in Producers : Holding(q) => pos[q] # n)
              => \A q \in Producers : Holding(q)' => pos[q] # n
        BY <1>5, <1>6
      <4> QED
        BY <1>0, <1>9, <2>1, <3>2, <4>1, <4>2 DEF SlotInv
    <3> QED
      BY <3>1, <3>2
  <2>2. \A n : Inside(n)' <=> Inside(n)
    BY <1>1 DEF Inside
  <2>3. ASSUME NEW n \in Nat, enqueuePos <= n, n < dequeuePos + Size
        PROVE  sequence'[Index(n)] <= n
    <3>1. n # m /\ n < m + Size /\ m < n + Size
      BY <1>2, <2>3, SizeAssumption DEF Inside
    <3>2. Index(n) # Index(m) /\ Index(n) \in 0..Size - 1
      BY <1>2, <3>1, IndexDiffers, IndexType
    <3> QED
      BY <1>0, <1>7, <2>3, <3>2 DEF SlotInv
  <2> QED
    BY <1>0, <1>1, <2>1, <2>2, <2>3 DEF SlotInv, Index
<1>11. OneHolder'
  BY <1>0, <1>1, <1>5, <1>6 DEF OneHolder
<1>12. \A q \in Producers : WriterOk(q)'
  <2> SUFFICES ASSUME NEW q \in Producers PROVE WriterOk(q)'
    OBVIOUS
  <2>0. WriterOk(q) /\ pos[q] \in Nat /\ Index(pos[q]) \in 0..Size - 1
    BY <1>0, <1>6, IndexType DEF QueueTypeOK
  <2>1. CASE q = p
    BY <1>1, <1>4, <1>5, <2>0, <2>1 DEF WriterOk, Index
  <2>2. CASE q # p
    <3>1. pc'[q] = pc[q] /\ (Holding(q)' <=> Holding(q))
      BY <1>4, <1>5, <1>6, <2>2
    <3>2. sequence[Index(pos[q])] = pos[q] /\ pos[q] # m => sequence'[Index(pos[q])] = pos[q]
      BY <1>2, <1>7, <2>0
    <3>3. pos[q] = enqueuePos => pos[q] # m
      BY <1>2 DEF Inside
    <3>4. Holding(q) => pos[q] # m
      BY <1>8, <2>2
    <3> QED
      BY <1>1, <2>0, <3>1, <3>2, <3>3, <3>4 DEF WriterOk, Index, Inside
  <2> QED
    BY <2>1, <2>2
<1>13. \A c \in Consumers : ReaderOk(c)'
  <2> SUFFICES ASSUME NEW c \in Consumers PROVE ReaderOk(c)'
    OBVIOUS
  <2>0. ReaderOk(c) /\ pos[c] \in Nat /\ Index(pos[c]) \in 0..Size - 1
    BY <1>0, <1>6, IndexType DEF QueueTypeOK
  <2>1. pc'[c] = pc[c] /\ (Holding(c)' <=> Holding(c))
    BY <1>0, <1>4, <1>5, <1>6
  <2>2. Holding(c) => sequence'[Index(pos[c])] = sequence[Index(pos[c])]
    BY <1>2, <1>7, <2>0, SlotsApart
  <2>3. pc[c] = "cas" /\ pos[c] = dequeuePos => sequence'[Index(pos[c])] = pos[c] + 1
    <3> SUFFICES ASSUME pc[c] = "cas", pos[c] = dequeuePos
                 PROVE  sequence'[Index(pos[c])] = pos[c] + 1
      OBVIOUS
    <3>1. sequence[Index(pos[c])] = pos[c] + 1
      BY <2>0 DEF ReaderOk
    <3>2. pos[c] # m
      BY <1>2, <2>0, <3>1
    <3>3. pos[c] < m + Size /\ m < pos[c] + Size
      BY <1>0, <1>2, <2>0, SizeAssumption DEF Inside, SlotInv
    <3> QED
      BY <1>2, <1>7, <2>0, <3>1, <3>2, <3>3, IndexDiffers
  <2> QED
    BY <1>1, <2>0, <2>1, <2>2, <2>3 DEF ReaderOk, Index
<1>14. QInv'
  BY <1>3, <1>10, <1>11, <1>12, <1>13 DEF QInv
<1>15. InHand' = InHand
  BY <1>0, <1>1, <1>4, <1>6 DEF InHand, Index
<1>16. ASSUME NEW n \in Nat, Inside(n) PROVE ValueAt(n)' = ValueAt(n)
  <2>1. CASE n = m
    <3>1. ValueAt(n) = item[p]
      BY <1>0, <1>2, <2>1, ValueFacts DEF m
    <3>2. \A q \in Producers : Holding(q)' => pos'[q] # n
      BY <1>1, <1>5, <1>6, <1>8, <2>1
    <3> QED
      BY <1>1, <1>2, <1>11, <2>1, <3>1, <3>2, ValueFactsNext
  <2>2. CASE n # m /\ \E q \in Producers : Holding(q) /\ pos[q] = n
    <3>1. PICK q \in Producers : Holding(q) /\ pos[q] = n
      BY <2>2
    <3>2. Holding(q)' /\ pos'[q] = n /\ item'[q] = item[q]
      BY <1>1, <1>5, <1>6, <2>2, <3>1 DEF m
    <3> QED
      BY <1>0, <1>11, <3>1, <3>2, ValueFacts, ValueFactsNext
  <2>3. CASE \A q \in Producers : Holding(q) => pos[q] # n
    <3>1. \A q \in Producers : Holding(q)' => pos'[q] # n
      BY <1>1, <1>5, <1>6, <2>3
    <3> QED
      BY <1>0, <1>1, <1>11, <2>3, <3>1, ValueFacts, ValueFactsNext
  <2> QED
    BY <2>1, <2>2, <2>3
<1>17. \A n \in Nat : Inside(n) /\ sequence[Index(n)] = n + 1 => sequence'[Index(n)] = n + 1
  BY <1>2, <1>7, <1>9
<1> QED
  BY <1>1, <1>14, <1>15, <1>16, <1>17, ContentSame

\* ... and to the writers of the next round.
LEMMA PublishReadInv ==
  ASSUME QInv, NEW c \in Consumers, Publish(c)
  PROVE  /\ QInv' /\ Content' = Content /\ InHand' = InHand
         /\ \A n \in Nat : Inside(n) /\ sequence[Index(n)] = n + 1 => sequence'[Index(n)] = n + 1
<1> DEFINE m == pos[c]
<1>0. QueueTypeOK /\ SlotInv /\ OneHolder /\ ReaderOk(c) /\ c \in Threads /\ c \notin Producers
      /\ (\A q \in Producers : WriterOk(q)) /\ (\A d \in Consumers : ReaderOk(d))
  BY ThreadAssumption DEF QInv, Threads
<1>1. /\ pc[c] = "publish" /\ pc' = [pc EXCEPT ![c] = "done"]
      /\ sequence' = [sequence EXCEPT ![Index(m)] = m + Size]
      /\ UNCHANGED <<enqueuePos, dequeuePos, data, pos, item>>
  BY <1>0 DEF Publish, Goto, NextTurn
<1>2. /\ m \in Nat /\ Index(m) \in 0..Size - 1 /\ Holding(c)
      /\ m < dequeuePos /\ enqueuePos <= m + Size
      /\ sequence[Index(m)] = m + 1
      /\ enqueuePos \in Nat /\ dequeuePos \in Nat
  BY <1>0, <1>1, IndexType DEF QueueTypeOK, ReaderOk, Holding
<1>3. QueueTypeOK'
  <2>1. sequence' \in [0..Size - 1 -> Nat]
    BY <1>0, <1>1, <1>2, SizeAssumption DEF QueueTypeOK
  <2> QED
    BY <1>0, <1>1, <2>1 DEF QueueTypeOK
<1>4. pc'[c] = "done" /\ \A u \in Threads : u # c => pc'[u] = pc[u]
  BY <1>0, <1>1 DEF QueueTypeOK
<1>5. ~Holding(c)' /\ \A u \in Threads : u # c => (Holding(u)' <=> Holding(u))
  BY <1>1, <1>4 DEF Holding
<1>6. Producers \subseteq Threads /\ Consumers \subseteq Threads
  BY DEF Threads
<1>7. sequence'[Index(m)] = m + Size
      /\ \A i \in 0..Size - 1 : i # Index(m) => sequence'[i] = sequence[i]
  BY <1>0, <1>1, <1>2 DEF QueueTypeOK
<1>8. \A q \in Producers : pc'[q] = pc[q] /\ (Holding(q)' <=> Holding(q))
  BY <1>0, <1>4, <1>5, <1>6
<1>9. \A n \in Nat : Inside(n) => sequence'[Index(n)] = sequence[Index(n)]
  BY <1>2, <1>7, SlotsApart, IndexType
<1>x. \A d \in Consumers : d # c /\ Holding(d) => pos[d] # m
  BY <1>0, <1>2 DEF OneHolder
<1> HIDE DEF m
<1>10. SlotInv'
  <2>1. ASSUME NEW n \in Nat, Inside(n)
        PROVE  \/ sequence'[Index(n)] = n /\ \E q \in Producers : Holding(q)' /\ pos[q] = n
               \/ /\ sequence'[Index(n)] = n + 1 /\ data[Index(n)] \in Values
                  /\ \A q \in Producers : Holding(q)' => pos[q] # n
    BY <1>0, <1>8, <1>9, <2>1 DEF SlotInv
  <2>2. \A n : Inside(n)' <=> Inside(n)
    BY <1>1 DEF Inside
  <2>3. ASSUME NEW n \in Nat, enqueuePos <= n, n < dequeuePos + Size
        PROVE  sequence'[Index(n)] <= n
    <3>0. m + Size \in Nat /\ Index(m + Size) = Index(m) /\ Index(n) \in 0..Size - 1
      BY <1>2, IndexWraps, IndexType, SizeAssumption
    <3>1. CASE n = m + Size
      BY <1>2, <1>7, <3>0, <3>1, SizeAssumption
    <3>2. CASE n # m + Size
      <4>1. n < (m + Size) + Size /\ m + Size < n + Size
        BY <1>0, <1>2, <2>3, SizeAssumption DEF SlotInv
      <4>2. Index(n) # Index(m)
        BY <3>0, <3>2, <4>1, IndexDiffers
      <4> QED
        BY <1>0, <1>7, <2>3, <3>0, <4>2 DEF SlotInv
    <3> QED
      BY <3>1, <3>2
  <2> QED
    BY <1>0, <1>1, <2>1, <2>2, <2>3 DEF SlotInv, Index
<1>11. OneHolder'
  BY <1>0, <1>1, <1>5, <1>6 DEF OneHolder
<1>12. \A q \in Producers : WriterOk(q)'
  <2> SUFFICES ASSUME NEW q \in Producers PROVE WriterOk(q)'
    OBVIOUS
  <2>0. WriterOk(q) /\ pos[q] \in Nat /\ Index(pos[q]) \in 0..Size - 1
    BY <1>0, <1>6, IndexType DEF QueueTypeOK
  <2>1. pc[q] = "cas" /\ pos[q] = enqueuePos => sequence'[Index(pos[q])] = pos[q]
    <3> SUFFICES ASSUME pc[q] = "cas", pos[q] = enqueuePos
                 PROVE  sequence'[Index(pos[q])] = pos[q]
      OBVIOUS
    <3>1. sequence[Index(pos[q])] = pos[q]
      BY <2>0 DEF WriterOk
    <3>2. CASE pos[q] = m + Size
      BY <1>2, <2>0, <3>1, <3>2, IndexWraps, SizeAssumption
    <3>3. CASE pos[q] # m + Size
      <4>1. pos[q] # m /\ pos[q] < m + Size /\ m < pos[q] + Size
        BY <1>0, <1>2, <2>0, <3>3, SizeAssumption DEF SlotInv
      <4> QED
        BY <1>2, <1>7, <2>0, <3>1, <4>1, IndexDiffers
    <3> QED
      BY <3>2, <3>3
  <2>2. Holding(q) => sequence'[Index(pos[q])] = pos[q]
    BY <1>9, <2>0 DEF WriterOk
  <2>3. pc'[q] = pc[q] /\ (Holding(q)' <=> Holding(q))
    BY <1>8
  <2> QED
    BY <1>1, <2>0, <2>1, <2>2, <2>3 DEF WriterOk, Index, Inside
<1>13. \A d \in Consumers : ReaderOk(d)'
  <2> SUFFICES ASSUME NEW d \in Consumers PROVE ReaderOk(d)'
    OBVIOUS
  <2>0. ReaderOk(d) /\ pos[d] \in Nat /\ Index(pos[d]) \in 0..Size - 1
    BY <1>0, <1>6, IndexType DEF QueueTypeOK
  <2>1. CASE d = c
    BY <1>1, <1>4, <1>5, <2>0, <2>1 DEF ReaderOk, Index
  <2>2. CASE d # c
    <3>1. pc'[d] = pc[d] /\ (Holding(d)' <=> Holding(d))
      BY <1>4, <1>5, <1>6, <2>2
    <3>2. Holding(d) => sequence'[Index(pos[d])] = pos[d] + 1
      <4> SUFFICES ASSUME Holding(d) PROVE sequence'[Index(pos[d])] = pos[d] + 1
        OBVIOUS
      <4>1. /\ sequence[Index(pos[d])] = pos[d] + 1 /\ pos[d] # m
        BY <1>x, <2>0, <2>2 DEF ReaderOk
      <4> QED
        BY <1>2, <1>7, <2>0, <4>1
    <3>3. pc[d] = "cas" /\ pos[d] = dequeuePos => sequence'[Index(pos[d])] = pos[d] + 1
      BY <1>2, <1>7, <2>0 DEF ReaderOk
    <3> QED
      BY <1>1, <2>0, <3>1, <3>2, <3>3 DEF ReaderOk, Index
  <2> QED
    BY <2>1, <2>2
<1>14. QInv'
  BY <1>3, <1>10, <1>11, <1>12, <1>13 DEF QInv
<1>15. InHand' = InHand
  BY <1>0, <1>1, <1>4, <1>6 DEF InHand, Index
<1>16. ASSUME NEW n \in Nat, Inside(n) PROVE ValueAt(n)' = ValueAt(n)
  <2>1. CASE \E q \in Producers : Holding(q) /\ pos[q] = n
    <3>1. PICK q \in Producers : Holding(q) /\ pos[q] = n
      BY <2>1
    <3>2. Holding(q)' /\ pos'[q] = n /\ item'[q] = item[q]
      BY <1>1, <1>8, <3>1
    <3> QED
      BY <1>0, <1>11, <3>1, <3>2, ValueFacts, ValueFactsNext
  <2>2. CASE \A q \in Producers : Holding(q) => pos[q] # n
    <3>1. \A q \in Producers : Holding(q)' => pos'[q] # n
      BY <1>1, <1>8, <2>2
    <3> QED
      BY <1>0, <1>1, <1>11, <2>2, <3>1, ValueFacts, ValueFactsNext
  <2> QED
    BY <2>1, <2>2
<1>17. \A n \in Nat : Inside(n) /\ sequence[Index(n)] = n + 1 => sequence'[Index(n)] = n + 1
  BY <1>9
<1> QED
  BY <1>1, <1>14, <1>15, <1>16, <1>17, ContentSame

\* A call returns.
LEMMA ReturnInv ==
  ASSUME QInv, NEW t \in Threads, Return(t)
  PROVE  /\ QInv' /\ Content' = Content
         /\ t \in Producers => InHand' = InHand
         /\ t \in Consumers => /\ InHand[t] = item[t] /\ InHand' = [InHand EXCEPT ![t] = None]
                               /\ pc[t] = "done" => item[t] \in Values
                               /\ pc[t] = "failed" => item[t] = None
<1>0. QueueTypeOK /\ (t \in Producers => WriterOk(t)) /\ (t \in Consumers => ReaderOk(t))
  BY DEF QInv
<1>1. /\ pc[t] \in {"done", "failed"} /\ pc' = [pc EXCEPT ![t] = "idle"]
      /\ item' = [item EXCEPT ![t] = None]
      /\ UNCHANGED <<enqueuePos, dequeuePos, sequence, data, pos>>
  BY DEF Return, Goto, slotVars
<1>2. QueueTypeOK'
  BY <1>0, <1>1 DEF QueueTypeOK
<1>3. /\ pc'[t] = "idle" /\ item'[t] = None
      /\ \A u \in Threads : u # t => pc'[u] = pc[u] /\ item'[u] = item[u]
  BY <1>0, <1>1 DEF QueueTypeOK
<1>4. ~Holding(t) /\ ~Holding(t)'
  BY <1>1, <1>3 DEF Holding
<1>5. t \in Producers => WriterOk(t)'
  BY <1>0, <1>1, <1>3, <1>4 DEF WriterOk
<1>6. t \in Consumers => ReaderOk(t)'
  BY <1>0, <1>1, <1>3, <1>4 DEF ReaderOk
<1>7. QInv' /\ Content' = Content
  BY <1>1, <1>2, <1>3, <1>4, <1>5, <1>6, QuietStep
<1>8. t \in Producers => InHand' = InHand
  <2>1. t \in Producers => \A c \in Consumers : c # t /\ c \in Threads
    BY ThreadAssumption DEF Threads
  <2> QED
    BY <1>1, <1>3, <2>1 DEF InHand, Index
<1>9. t \in Consumers => InHand[t] = item[t] /\ InHand' = [InHand EXCEPT ![t] = None]
  <2> SUFFICES ASSUME t \in Consumers
               PROVE  InHand[t] = item[t] /\ InHand' = [InHand EXCEPT ![t] = None]
    OBVIOUS
  <2>1. InHand[t] = item[t] /\ InHand'[t] = None
    BY <1>1, <1>3 DEF InHand
  <2>2. \A d \in Consumers : d # t => InHand'[d] = InHand[d]
    BY <1>1, <1>3 DEF InHand, Index, Threads
  <2> QED
    BY <2>1, <2>2 DEF InHand
<1> QED
  BY <1>0, <1>1, <1>7, <1>8, <1>9 DEF ReaderOk

----------------------------------------------------------------------------
(* The ring is a FIFO queue *)

LEMMA ContentType ==
  ASSUME QInv
  PROVE  Content \in Seq(Values \cup {None})
<1>0. QueueTypeOK /\ SlotInv /\ OneHolder
  BY DEF QInv
<1>1. enqueuePos \in Nat /\ dequeuePos \in Nat /\ enqueuePos - dequeuePos \in Nat
  BY <1>0 DEF QueueTypeOK, SlotInv
<1>2. ASSUME NEW n \in Nat PROVE ValueAt(n) \in Values \cup {None}
  <2>1. CASE \E p \in Producers : Holding(p) /\ pos[p] = n
    BY <1>0, <2>1, ValueFacts DEF QueueTypeOK, Threads
  <2>2. CASE \A p \in Producers : Holding(p) => pos[p] # n
    <3>1. Index(n) \in 0..Size - 1
      BY IndexType
    <3> QED
      BY <1>0, <2>2, <3>1, ValueFacts DEF QueueTypeOK
  <2> QED
    BY <2>1, <2>2
<1>3. \A i \in 1..(enqueuePos - dequeuePos) :
        ValueAt(dequeuePos + i - 1) \in Values \cup {None}
  BY <1>1, <1>2
<1> QED
  BY <1>1, <1>3 DEF Content

LEMMA SeqIsFun ==
  ASSUME NEW S, NEW s \in Seq(S)
  PROVE  Len(s) \in Nat /\ DOMAIN s = 1..Len(s) /\ s = [i \in 1..Len(s) |-> s[i]]
<1>1. Len(s) \in Nat /\ s \in [1..Len(s) -> S]
  BY Seqs!LenProperties
<1> QED
  BY <1>1, Zenon

LEMMA AppendIs ==
  ASSUME NEW S, NEW s \in Seq(S), NEW v \in S
  PROVE  Append(s, v) = [i \in 1..(Len(s) + 1) |-> IF i = Len(s) + 1 THEN v ELSE s[i]]
<1> DEFINE a == Append(s, v)
<1>1. a \in Seq(S) /\ Len(a) = Len(s) + 1 /\ Len(s) \in Nat
        /\ (\A i \in 1..Len(s) : a[i] = s[i]) /\ a[Len(s) + 1] = v
  BY Seqs!AppendProperties, Seqs!LenProperties
<1> HIDE DEF a
<1>2. a = [i \in 1..(Len(s)+1) |-> a[i]]
  BY <1>1, SeqIsFun
<1>3. \A i \in 1..(Len(s)+1) : a[i] = IF i = Len(s) + 1 THEN v ELSE s[i]
  BY <1>1
<1> QED
  BY <1>2, <1>3 DEF a

LEMMA TailIs ==
  ASSUME NEW S, NEW s \in Seq(S), s # <<>>
  PROVE  Head(s) = s[1] /\ Tail(s) = [i \in 1..(Len(s) - 1) |-> s[i + 1]]
<1>1. /\ Head(s) = s[1] /\ Tail(s) \in Seq(S) /\ Len(Tail(s)) = Len(s)-1
      /\ \A i \in 1 .. Len(Tail(s)) : Tail(s)[i] = s[i+1]
  BY Seqs!HeadTailProperties, SMT
<1>2. Tail(s) = [i \in 1..(Len(s) - 1) |-> Tail(s)[i]]
  BY <1>1, SeqIsFun
<1> QED
  BY <1>1, <1>2
LEMMA ContentPut ==
  ASSUME QInv, NEW v \in Values, enqueuePos' = enqueuePos + 1, dequeuePos' = dequeuePos,
         \A n \in Nat : n = enqueuePos => ValueAt(n)' = v,
         \A n \in Nat : Inside(n) => ValueAt(n)' = ValueAt(n)
  PROVE  Content' = Append(Content, v)
<1>1. enqueuePos \in Nat /\ dequeuePos \in Nat /\ dequeuePos <= enqueuePos
  BY DEF QInv, QueueTypeOK, SlotInv
<1>2. PICK d \in Nat, k \in Nat : d = dequeuePos /\ d + k = enqueuePos
  <2>1. enqueuePos - dequeuePos \in Nat /\ dequeuePos + (enqueuePos - dequeuePos) = enqueuePos
    BY <1>1
  <2> QED
    BY <1>1, <2>1
<1>3. Content' = [i \in 1..(k + 1) |-> ValueAt(d + i - 1)']
  <2>1. enqueuePos' - dequeuePos' = k + 1 /\ dequeuePos' = d
    BY <1>1, <1>2
  <2> QED
    BY <2>1 DEF Content
<1>4. Content = [i \in 1..k |-> ValueAt(d + i - 1)] /\ Len(Content) = k
  <2>1. enqueuePos - dequeuePos = k
    BY <1>1, <1>2
  <2> QED
    BY <1>2, <2>1, ContentFacts DEF Content
<1>5. \A i \in 1..k : ValueAt(d + i - 1)' = ValueAt(d + i - 1)
  <2>1. \A i \in 1..k : d + i - 1 \in Nat /\ Inside(d + i - 1)
    BY <1>2 DEF Inside
  <2> QED
    BY <2>1
<1>6. ValueAt(d + (k + 1) - 1)' = v
  <2>1. d + (k + 1) - 1 \in Nat /\ d + (k + 1) - 1 = enqueuePos
    BY <1>2
  <2> QED
    BY <2>1
<1>7. Append(Content, v) = [i \in 1..(k + 1) |-> IF i = k + 1 THEN v ELSE Content[i]]
  <2>1. Append(Content, v) = [i \in 1..(Len(Content) + 1) |->
                               IF i = Len(Content) + 1 THEN v ELSE Content[i]]
    BY ContentType, AppendIs
  <2> QED
    BY <1>4, <2>1
<1>8. \A i \in 1..(k + 1) :
        ValueAt(d + i - 1)' = IF i = k + 1 THEN v ELSE Content[i]
  BY <1>2, <1>4, <1>5, <1>6
<1> QED
  BY <1>3, <1>7, <1>8

LEMMA ContentTake ==
  ASSUME QInv, Inside(dequeuePos), enqueuePos' = enqueuePos, dequeuePos' = dequeuePos + 1,
         \A n \in Nat : Inside(n) => ValueAt(n)' = ValueAt(n)
  PROVE  Content # <<>> /\ Head(Content) = ValueAt(dequeuePos) /\ Content' = Tail(Content)
<1>1. enqueuePos \in Nat /\ dequeuePos \in Nat /\ dequeuePos < enqueuePos
  BY DEF QInv, QueueTypeOK, Inside
<1>2. PICK d \in Nat, k \in Nat : d = dequeuePos /\ d + k = enqueuePos /\ k >= 1
  <2>1. enqueuePos - dequeuePos \in Nat /\ dequeuePos + (enqueuePos - dequeuePos) = enqueuePos
        /\ enqueuePos - dequeuePos >= 1
    BY <1>1
  <2> QED
    BY <1>1, <2>1
<1>3. Content' = [i \in 1..(k - 1) |-> ValueAt(d + 1 + i - 1)']
  <2>1. enqueuePos' - dequeuePos' = k - 1 /\ dequeuePos' = d + 1
    BY <1>1, <1>2
  <2> QED
    BY <2>1 DEF Content
<1>4. Content = [i \in 1..k |-> ValueAt(d + i - 1)] /\ Len(Content) = k
  <2>1. enqueuePos - dequeuePos = k
    BY <1>1, <1>2
  <2> QED
    BY <1>2, <2>1, ContentFacts DEF Content
<1>5. Content # <<>>
  BY <1>2, <1>4
<1>6. Head(Content) = Content[1] /\ Tail(Content) = [i \in 1..(k - 1) |-> Content[i + 1]]
  BY <1>4, <1>5, ContentType, TailIs
<1>7. Content[1] = ValueAt(dequeuePos)
  <2>1. d + 1 - 1 = dequeuePos /\ 1 \in 1..k
    BY <1>2
  <2> QED
    BY <1>4, <2>1
<1>8. ASSUME NEW i \in 1..(k - 1) PROVE ValueAt(d + 1 + i - 1)' = Content[i + 1]
  <2>1. d + 1 + i - 1 \in Nat /\ Inside(d + 1 + i - 1) /\ i + 1 \in 1..k
        /\ d + 1 + i - 1 = d + (i + 1) - 1
    BY <1>2 DEF Inside
  <2> QED
    BY <1>4, <2>1
<1> QED
  BY <1>3, <1>5, <1>6, <1>7, <1>8

\* A step of enqueue: the claim puts the value in, everything else is invisible.
LEMMA EnqueueStep ==
  ASSUME QInv, NEW p \in Producers, QueueStep(p)
  PROVE  /\ QInv' /\ InHand' = InHand /\ dequeuePos' = dequeuePos /\ item' = item
         /\ \/ Content' = Content /\ (Pending(p)' <=> Pending(p))
            \/ /\ pc[p] = "cas" /\ pc'[p] = "move" /\ Len(Content) < Size
               /\ Content' = Append(Content, item[p])
         /\ \A n \in Nat : Inside(n) /\ sequence[Index(n)] = n + 1 => sequence'[Index(n)] = n + 1
<1>0. p \in Threads /\ QueueTypeOK
  BY DEF Threads, QInv
<1>1. CASE Load(p) \/ (Cas(p) /\ ~Claims(p))
  <2>1. UNCHANGED <<dequeuePos, item, sequence>>
    BY <1>1 DEF Load, Cas, slotVars
  <2>2. Pending(p)' <=> Pending(p)
    BY <1>0, <1>1 DEF Load, Cas, Goto, Pending, QueueTypeOK
  <2> QED
    BY <1>0, <1>1, <2>1, <2>2, SeekStep
<1>2. CASE Cas(p) /\ Claims(p)
  <2>1. UNCHANGED <<dequeuePos, item, sequence>> /\ pc[p] = "cas" /\ pc'[p] = "move"
    BY <1>0, <1>2 DEF Cas, slotVars, Goto, QueueTypeOK
  <2>2. item[p] \in Values
    BY <2>1 DEF QInv, WriterOk
  <2> QED
    BY <1>2, <2>1, <2>2, ClaimWriteInv, ContentPut
<1>3. CASE Move(p)
  <2>1. UNCHANGED <<dequeuePos, item, sequence>>
    BY <1>3 DEF Move
  <2>2. Pending(p)' <=> Pending(p)
    BY <1>0, <1>3 DEF Move, Goto, Pending, QueueTypeOK
  <2> QED
    BY <1>3, <2>1, <2>2, MoveWriteInv
<1>4. CASE Publish(p)
  <2>1. UNCHANGED <<dequeuePos, item>>
    BY <1>4 DEF Publish
  <2>2. Pending(p)' <=> Pending(p)
    BY <1>0, <1>4 DEF Publish, Goto, Pending, QueueTypeOK
  <2> QED
    BY <1>4, <2>1, <2>2, PublishWriteInv
<1> QED
  BY <1>1, <1>2, <1>3, <1>4 DEF QueueStep

\* A step of dequeue: the claim takes the value out.
LEMMA DequeueStep ==
  ASSUME QInv, NEW c \in Consumers, QueueStep(c)
  PROVE  /\ QInv'
         /\ \/ Content' = Content /\ InHand' = InHand /\ dequeuePos' = dequeuePos
            \/ /\ pc[c] = "cas" /\ Content # <<>> /\ InHand[c] = None /\ Head(Content) \in Values
               /\ InHand' = [InHand EXCEPT ![c] = Head(Content)] /\ Content' = Tail(Content)
               /\ dequeuePos' = dequeuePos + 1 /\ pc'[c] = "move"
         /\ \A n \in Nat : Inside(n) /\ sequence[Index(n)] = n + 1 => sequence'[Index(n)] = n + 1
<1>0. c \in Threads /\ QueueTypeOK
  BY DEF Threads, QInv
<1>1. CASE Load(c) \/ (Cas(c) /\ ~Claims(c))
  <2>1. UNCHANGED <<dequeuePos, sequence>>
    BY <1>1 DEF Load, Cas, slotVars
  <2> QED
    BY <1>0, <1>1, <2>1, SeekStep
<1>2. CASE Cas(c) /\ Claims(c)
  <2>1. UNCHANGED sequence /\ pc[c] = "cas" /\ pc'[c] = "move"
    BY <1>0, <1>2 DEF Cas, slotVars, Goto, QueueTypeOK
  <2>2. /\ QInv' /\ Inside(dequeuePos) /\ InHand[c] = None
        /\ InHand' = [InHand EXCEPT ![c] = ValueAt(dequeuePos)]
        /\ enqueuePos' = enqueuePos /\ dequeuePos' = dequeuePos + 1
        /\ ValueAt(dequeuePos) \in Values
        /\ \A n \in Nat : Inside(n) => ValueAt(n)' = ValueAt(n)
    BY <1>2, ClaimReadInv
  <2>3. Content # <<>> /\ Head(Content) = ValueAt(dequeuePos) /\ Content' = Tail(Content)
    BY <2>2, ContentTake
  <2> QED
    BY <2>1, <2>2, <2>3
<1>3. CASE Move(c)
  <2>1. UNCHANGED <<dequeuePos, sequence>>
    BY <1>3 DEF Move
  <2> QED
    BY <1>3, <2>1, MoveReadInv
<1>4. CASE Publish(c)
  <2>1. UNCHANGED dequeuePos
    BY <1>4 DEF Publish
  <2> QED
    BY <1>4, <2>1, PublishReadInv
<1> QED
  BY <1>1, <1>2, <1>3, <1>4 DEF QueueStep

LEMMA QueueStart ==
  ASSUME QueueInit
  PROVE  QInv /\ Content = <<>> /\ InHand = [c \in Consumers |-> None]
<1>1. QueueTypeOK
  BY SizeAssumption DEF QueueInit, QueueTypeOK
<1>2. \A t \in Threads : pc[t] = "idle" /\ pos[t] = 0 /\ item[t] = None /\ ~Holding(t)
  BY DEF QueueInit, Holding
<1>3. \A n \in Nat : n < Size => sequence[Index(n)] = n
  <2>1. \A n \in Nat : n < Size => Index(n) = n /\ n \in 0..Size - 1
    BY SizeAssumption DEF Index
  <2> QED
    BY <2>1 DEF QueueInit
<1>4. SlotInv
  <2>1. enqueuePos = 0 /\ dequeuePos = 0
    BY DEF QueueInit
  <2>2. \A n \in Nat : ~Inside(n)
    BY <2>1 DEF Inside
  <2>3. \A n \in Nat : n < dequeuePos + Size => sequence[Index(n)] <= n
    BY <1>3, <2>1, SizeAssumption
  <2> QED
    BY <2>1, <2>2, <2>3, SizeAssumption DEF SlotInv
<1>5. \A p \in Producers : WriterOk(p)
  BY <1>2 DEF WriterOk, QueueInit, Threads
<1>6. \A c \in Consumers : ReaderOk(c)
  BY <1>2 DEF ReaderOk, QueueInit, Threads
<1>7. OneHolder
  BY <1>2 DEF OneHolder, Threads
<1>8. QInv
  BY <1>1, <1>4, <1>5, <1>6, <1>7 DEF QInv
<1>9. Content = <<>>
  <2>1. 1..(enqueuePos - dequeuePos) = {}
    BY DEF QueueInit
  <2>2. Content = [i \in {} |-> ValueAt(dequeuePos + i - 1)]
    BY <2>1 DEF Content
  <2> QED
    BY <2>2
<1>10. InHand = [c \in Consumers |-> None]
  BY <1>2 DEF InHand, Threads
<1> QED
  BY <1>8, <1>9, <1>10

\* A thread and the background thread's place in the sets of the queue.
LEMMA WorkerFacts ==
  /\ Worker \in Consumers /\ Worker \in Threads /\ Worker \notin Producers
  /\ \A c \in Consumers : c = Worker
  /\ \A p \in Producers : p \in Threads /\ p # Worker
BY WorkerAssumption, ThreadAssumption DEF Threads

\* A step that leaves the queue as it is.
LEMMA QueueSame ==
  ASSUME QInv, UNCHANGED queueVars
  PROVE  /\ QInv' /\ Content' = Content /\ InHand' = InHand
         /\ UNCHANGED <<enqueuePos, dequeuePos, sequence, data, pc, pos, item>>
<1>1. UNCHANGED <<enqueuePos, dequeuePos, sequence, data, pc, pos, item>>
  BY DEF queueVars, slotVars
<1>2. QInv'
  BY <1>1 DEF QInv, QueueTypeOK, SlotInv, OneHolder, WriterOk, ReaderOk, Holding, Inside, Index
<1>3. UNCHANGED <<Content, InHand>>
  BY <1>1 DEF Content, ValueAt, Claimed, InHand, Index
<1> QED
  BY <1>1, <1>2, <1>3

\* What an action of the logger does to the queue it sees.
LEMMA QueueSteps ==
  ASSUME QInv, logged \in [Producers -> 0..EntryCount], Next
  PROVE  /\ QInv' /\ logged' \in [Producers -> 0..EntryCount]
         /\ \/ UNCHANGED <<Content, InHand>>
            \/ \E v \in Values : Fifo!Put(v)
            \/ Fifo!Take(Worker) \/ Fifo!Use(Worker)
<1>1. CASE UNCHANGED queueVars /\ UNCHANGED logged
  BY <1>1, QueueSame
<1>2. ASSUME NEW p \in Producers, Log(p)
      PROVE  QInv' /\ logged' \in [Producers -> 0..EntryCount] /\ UNCHANGED <<Content, InHand>>
  <2>1. <<p, logged[p] + 1>> \in Values
    <3>1. logged[p] + 1 \in 1..EntryCount
      BY <1>2, EntryAssumption DEF Log
    <3> QED
      BY <3>1, EntryAssumption
  <2>2. CallEnqueue(p, <<p, logged[p] + 1>>)
    BY <1>2 DEF Log
  <2>3. logged' \in [Producers -> 0..EntryCount]
    BY <1>2, EntryAssumption DEF Log
  <2> QED
    BY <2>1, <2>2, <2>3, CallEnqueueInv
<1>3. ASSUME NEW p \in Producers, LogReturns(p)
      PROVE  QInv' /\ UNCHANGED logged /\ UNCHANGED <<Content, InHand>>
  <2>1. Return(p) /\ UNCHANGED logged
    BY <1>3 DEF LogReturns
  <2> QED
    BY <2>1, WorkerFacts, ReturnInv
<1>4. ASSUME NEW p \in Producers, Enqueue(p)
      PROVE  /\ QInv' /\ UNCHANGED logged
             /\ UNCHANGED <<Content, InHand>> \/ \E v \in Values : Fifo!Put(v)
  <2>1. QueueStep(p) /\ UNCHANGED logged
    BY <1>4 DEF Enqueue, loggerVars
  <2>2. pc[p] = "cas" => item[p] \in Values
    BY DEF QInv, WriterOk
  <2>3. CASE Content' = Content
    BY <2>1, <2>3, EnqueueStep
  <2>4. CASE Len(Content) < Size /\ pc[p] = "cas" /\ Content' = Append(Content, item[p])
    <3>1. QInv' /\ InHand' = InHand
      BY <2>1, EnqueueStep
    <3>2. Fifo!Put(item[p])
      BY <2>4, <3>1 DEF Fifo!Put
    <3> QED
      BY <2>1, <2>2, <2>4, <3>1, <3>2
  <2> QED
    BY <2>1, <2>3, <2>4, EnqueueStep
<1>5. CASE NextEntry
  <2>1. CallDequeue(Worker) /\ UNCHANGED logged
    BY <1>5 DEF NextEntry, loggerVars
  <2> QED
    BY <2>1, WorkerFacts, CallDequeueInv
<1>6. CASE Dequeue
  <2>1. QueueStep(Worker) /\ UNCHANGED logged
    BY <1>6 DEF Dequeue, loggerVars
  <2>2. CASE UNCHANGED <<Content, InHand>>
    BY <2>1, <2>2, WorkerFacts, DequeueStep
  <2>3. CASE /\ Content # <<>> /\ InHand[Worker] = None
             /\ InHand' = [InHand EXCEPT ![Worker] = Head(Content)] /\ Content' = Tail(Content)
    <3>1. Fifo!Take(Worker)
      BY <2>3 DEF Fifo!Take
    <3> QED
      BY <2>1, <3>1, WorkerFacts, DequeueStep
  <2> QED
    BY <2>1, <2>2, <2>3, WorkerFacts, DequeueStep
<1>7. CASE WriteEntry
  <2>1. Return(Worker) /\ pc[Worker] = "done" /\ UNCHANGED logged
    BY <1>7 DEF WriteEntry
  <2>2. /\ QInv' /\ Content' = Content /\ InHand[Worker] = item[Worker]
        /\ InHand' = [InHand EXCEPT ![Worker] = None] /\ item[Worker] \in Values
    BY <2>1, WorkerFacts, ReturnInv
  <2>3. Fifo!Use(Worker)
    BY <2>2, ValueAssumption DEF Fifo!Use
  <2> QED
    BY <2>1, <2>2, <2>3
<1>8. ASSUME Return(Worker), pc[Worker] = "failed", UNCHANGED logged
      PROVE  QInv' /\ UNCHANGED logged /\ UNCHANGED <<Content, InHand>>
  <2>1. /\ QInv' /\ Content' = Content /\ InHand[Worker] = None
        /\ InHand' = [InHand EXCEPT ![Worker] = None]
    BY <1>8, WorkerFacts, ReturnInv
  <2>2. InHand' = InHand
    BY <2>1, WorkerFacts DEF InHand
  <2> QED
    BY <1>8, <2>1, <2>2
<1>9. CASE CheckRunning \/ BatchEnds \/ Shutdown \/ Ended
  BY <1>1, <1>8, <1>9 DEF CheckRunning, BatchEnds, Shutdown, Ended, vars, loggerVars
<1> QED
  BY <1>2, <1>3, <1>4, <1>5, <1>6, <1>7, <1>9 DEF Next, WorkerStep, LogStep

\* The ring of LockFreeQueue is a bounded FIFO queue: a value is in it from the
\* claim of its position by enqueueImpl to the claim of the same position by
\* dequeue, whatever the threads do between a claim and the store that
\* publishes the slot.
THEOREM QueueIsAFifo == Spec => QueueIsFifo
<1> DEFINE I == QInv /\ logged \in [Producers -> 0..EntryCount]
<1>1. Init => I /\ Fifo!Init
  <2>1. Init => QueueInit /\ logged \in [Producers -> 0..EntryCount]
    BY EntryAssumption DEF Init
  <2> QED
    BY <2>1, QueueStart DEF Fifo!Init
<1>2. ASSUME I, [Next]_vars
      PROVE  I' /\ [Fifo!Next]_(Fifo!vars)
  <2>1. CASE Next
    BY <1>2, <2>1, QueueSteps, WorkerFacts DEF Fifo!Next, Fifo!vars
  <2>2. CASE UNCHANGED vars
    <3>1. UNCHANGED queueVars /\ UNCHANGED logged
      BY <2>2 DEF vars, loggerVars
    <3> QED
      BY <1>2, <3>1, QueueSame DEF Fifo!vars
  <2> QED
    BY <1>2, <2>1, <2>2
<1> QED
  BY <1>1, <1>2, PTL DEF Spec, QueueIsFifo, Fifo!Spec

----------------------------------------------------------------------------
(* Sequences of entries *)

LEMMA RangeIs ==
  ASSUME NEW S, NEW s \in Seq(S)
  PROVE  \A e : e \in Range(s) <=> \E i \in 1..Len(s) : e = s[i]
BY SeqIsFun DEF Range

LEMMA RangeAppend ==
  ASSUME NEW S, NEW s \in Seq(S), NEW v \in S
  PROVE  Range(Append(s, v)) = Range(s) \cup {v}
<1>1. /\ Append(s, v) \in Seq(S) /\ Len(Append(s, v)) = Len(s) + 1 /\ Len(s) \in Nat
      /\ \A i \in 1..Len(s) : Append(s, v)[i] = s[i]
      /\ Append(s, v)[Len(s) + 1] = v
  BY Seqs!AppendProperties, SeqIsFun
<1>2. \A e : e \in Range(Append(s, v)) <=> \E i \in 1..(Len(s) + 1) : e = Append(s, v)[i]
  <2>1. \A e : e \in Range(Append(s, v)) <=> \E i \in 1..Len(Append(s, v)) : e = Append(s, v)[i]
    BY <1>1, RangeIs, Zenon
  <2> QED
    BY <1>1, <2>1, Zenon
<1>3. \A e : e \in Range(s) <=> \E i \in 1..Len(s) : e = s[i]
  BY RangeIs
<1>4. \A i \in 1..(Len(s) + 1) : i \in 1..Len(s) \/ i = Len(s) + 1
  BY <1>1
<1>5. \A i \in 1..Len(s) : i \in 1..(Len(s) + 1)
  BY <1>1
<1>6. Len(s) + 1 \in 1..(Len(s) + 1)
  BY <1>1
<1>7. \A e : e \in Range(Append(s, v)) <=> e \in Range(s) \/ e = v
  <2>1. ASSUME NEW e, e \in Range(Append(s, v)) PROVE e \in Range(s) \/ e = v
    <3>1. PICK i \in 1..(Len(s) + 1) : e = Append(s, v)[i]
      BY <1>2, <2>1, Zenon
    <3>2. CASE i \in 1..Len(s)
      BY <1>1, <1>3, <3>1, <3>2
    <3>3. CASE i = Len(s) + 1
      BY <1>1, <3>1, <3>3
    <3> QED
      BY <1>4, <3>2, <3>3
  <2>2. ASSUME NEW e, e \in Range(s) \/ e = v PROVE e \in Range(Append(s, v))
    BY <1>1, <1>2, <1>3, <1>5, <1>6, <2>2, Zenon
  <2> QED
    BY <2>1, <2>2
<1> QED
  BY <1>7

LEMMA RangeTail ==
  ASSUME NEW S, NEW s \in Seq(S), s # <<>>
  PROVE  Range(s) = {Head(s)} \cup Range(Tail(s))
<1>1. /\ Head(s) = s[1] /\ Tail(s) \in Seq(S) /\ Len(Tail(s)) = Len(s) - 1
      /\ \A i \in 1..Len(Tail(s)) : Tail(s)[i] = s[i + 1]
  BY Seqs!HeadTailProperties, SMT
<1>2. Len(s) \in Nat /\ Len(s) >= 1
  <2>1. Len(Tail(s)) \in Nat /\ Len(s) \in Nat
    BY <1>1, SeqIsFun
  <2> QED
    BY <1>1, <2>1
<1>3. \A e : e \in Range(s) <=> \E i \in 1..Len(s) : e = s[i]
  BY RangeIs
<1>4. \A e : e \in Range(Tail(s)) <=> \E i \in 1..Len(Tail(s)) : e = Tail(s)[i]
  BY <1>1, RangeIs
<1>5. ASSUME NEW e, e \in Range(s) PROVE e = Head(s) \/ e \in Range(Tail(s))
  <2>1. PICK i \in 1..Len(s) : e = s[i]
    BY <1>3, <1>5
  <2>2. CASE i = 1
    BY <1>1, <2>1, <2>2
  <2>3. CASE i # 1
    <3>1. i - 1 \in 1..Len(Tail(s)) /\ (i - 1) + 1 = i
      BY <1>1, <1>2, <2>3
    <3> QED
      BY <1>1, <1>4, <2>1, <3>1
  <2> QED
    BY <2>2, <2>3
<1>6. ASSUME NEW e, e = Head(s) \/ e \in Range(Tail(s)) PROVE e \in Range(s)
  <2>1. CASE e = Head(s)
    <3>1. 1 \in 1..Len(s)
      BY <1>2
    <3> QED
      BY <1>1, <1>3, <2>1, <3>1
  <2>2. CASE e \in Range(Tail(s))
    <3>1. PICK i \in 1..Len(Tail(s)) : e = Tail(s)[i]
      BY <1>4, <2>2
    <3>2. i + 1 \in 1..Len(s)
      BY <1>1, <1>2
    <3> QED
      BY <1>1, <1>3, <3>1, <3>2
  <2> QED
    BY <1>6, <2>1, <2>2
<1> QED
  BY <1>5, <1>6

\* A value put into the queue that comes after every other keeps the order.
LEMMA OrderedPut ==
  ASSUME NEW S, NEW T, NEW w \in Seq(S), NEW c \in Seq(T), NEW h, NEW v \in T,
         Ordered(w, h, c), \A e \in Members(w, h, c) : Before(e, v)
  PROVE  Ordered(w, h, Append(c, v)) /\ Members(w, h, Append(c, v)) = Members(w, h, c) \cup {v}
<1> DEFINE d == Append(c, v)
<1>1. /\ d \in Seq(T) /\ Len(d) = Len(c) + 1 /\ Len(c) \in Nat /\ Len(w) \in Nat
      /\ \A i \in 1..Len(c) : d[i] = c[i]
      /\ d[Len(c) + 1] = v
  BY Seqs!AppendProperties, SeqIsFun
<1>2. Range(d) = Range(c) \cup {v}
  BY RangeAppend
<1> HIDE DEF d
<1>3. \A i \in 1..Len(w) : Before(w[i], v)
  BY RangeIs DEF Members
<1>4. \A i \in 1..Len(c) : Before(c[i], v)
  BY RangeIs DEF Members
<1>5. h # None => Before(h, v)
  BY DEF Members
<1>6. \A k \in 1..Len(d) : (k \in 1..Len(c) /\ d[k] = c[k]) \/ (k = Len(c) + 1 /\ d[k] = v)
  BY <1>1
<1>7. \A i \in 1..Len(w) : \A k \in 1..Len(d) : Before(w[i], d[k])
  BY <1>3, <1>6, Zenon DEF Ordered
<1>8. h # None => \A k \in 1..Len(d) : Before(h, d[k])
  BY <1>5, <1>6, Zenon DEF Ordered
<1>9. ASSUME NEW j \in 1..Len(d), NEW k \in 1..Len(d), j < k PROVE Before(d[j], d[k])
  <2>1. j \in 1..Len(c)
    BY <1>1, <1>9
  <2>2. d[j] = c[j]
    BY <1>1, <2>1
  <2> QED
    BY <1>4, <1>6, <1>9, <2>1, <2>2 DEF Ordered
<1>10. Ordered(w, h, d)
  BY <1>7, <1>8, <1>9 DEF Ordered
<1>11. Members(w, h, d) = Members(w, h, c) \cup {v}
  BY <1>2 DEF Members
<1> QED
  BY <1>10, <1>11 DEF d

\* The first value goes into the hand.
LEMMA OrderedTake ==
  ASSUME NEW S, NEW T, NEW w \in Seq(S), NEW c \in Seq(T), c # <<>>, Head(c) # None,
         Ordered(w, None, c)
  PROVE  /\ Ordered(w, Head(c), Tail(c))
         /\ Members(w, Head(c), Tail(c)) = Members(w, None, c)
<1> DEFINE d == Tail(c)
           h == Head(c)
<1>1. /\ h = c[1] /\ d \in Seq(T) /\ Len(d) = Len(c) - 1
      /\ \A i \in 1..Len(d) : d[i] = c[i + 1]
  BY Seqs!HeadTailProperties, SMT
<1>2. Len(c) \in Nat /\ Len(d) \in Nat /\ Len(w) \in Nat
  BY <1>1, SeqIsFun
<1>3. Range(c) = {h} \cup Range(d)
  BY RangeTail
<1>4. h # None
  OBVIOUS
<1> HIDE DEF d, h
<1>5. /\ 1 \in 1..Len(c)
      /\ \A k \in 1..Len(d) : k + 1 \in 1..Len(c) /\ 1 < k + 1
      /\ \A j, k \in 1..Len(d) : j < k => j + 1 < k + 1
  BY <1>1, <1>2
<1>6. /\ \A i \in 1..Len(w) : \A k \in 1..Len(c) : Before(w[i], c[k])
      /\ \A j, k \in 1..Len(c) : j < k => Before(c[j], c[k])
      /\ \A i, j \in 1..Len(w) : i < j => Before(w[i], w[j])
  BY DEF Ordered
<1>7. Ordered(w, h, d)
  <2>1. \A i \in 1..Len(w) : \A k \in 1..Len(d) : Before(w[i], d[k])
    BY <1>1, <1>5, <1>6, Zenon
  <2>2. \A j, k \in 1..Len(d) : j < k => Before(d[j], d[k])
    BY <1>1, <1>5, <1>6, Zenon
  <2>3. /\ \A i \in 1..Len(w) : Before(w[i], h)
        /\ \A k \in 1..Len(d) : Before(h, d[k])
    BY <1>1, <1>5, <1>6, Zenon
  <2> QED
    BY <1>6, <2>1, <2>2, <2>3, Zenon DEF Ordered
<1>8. Members(w, h, d) = Members(w, None, c)
  BY <1>3, <1>4 DEF Members
<1> QED
  BY <1>7, <1>8 DEF d, h

\* What the hand holds is written.
LEMMA OrderedUse ==
  ASSUME NEW S, NEW T, NEW w \in Seq(S), NEW c \in Seq(T), NEW h \in S, h # None,
         Ordered(w, h, c)
  PROVE  /\ Ordered(Append(w, h), None, c)
         /\ Members(Append(w, h), None, c) = Members(w, h, c)
<1> DEFINE d == Append(w, h)
<1>1. /\ d \in Seq(S) /\ Len(d) = Len(w) + 1 /\ Len(c) \in Nat /\ Len(w) \in Nat
      /\ \A i \in 1..Len(w) : d[i] = w[i]
      /\ d[Len(w) + 1] = h
  BY Seqs!AppendProperties, SeqIsFun
<1>2. Range(d) = Range(w) \cup {h}
  BY RangeAppend
<1> HIDE DEF d
<1>3. \A k \in 1..Len(d) : (k \in 1..Len(w) /\ d[k] = w[k]) \/ (k = Len(w) + 1 /\ d[k] = h)
  BY <1>1
<1>4. \A i \in 1..Len(d) : \A k \in 1..Len(c) : Before(d[i], c[k])
  BY <1>3, Zenon DEF Ordered
<1>5. ASSUME NEW j \in 1..Len(d), NEW k \in 1..Len(d), j < k PROVE Before(d[j], d[k])
  <2>1. j \in 1..Len(w)
    BY <1>1, <1>5
  <2>2. d[j] = w[j]
    BY <1>1, <2>1
  <2> QED
    BY <1>3, <1>5, <2>1, <2>2 DEF Ordered
<1>6. Ordered(d, None, c)
  BY <1>4, <1>5 DEF Ordered
<1>7. Members(d, None, c) = Members(w, h, c)
  BY <1>2 DEF Members
<1> QED
  BY <1>6, <1>7 DEF d

----------------------------------------------------------------------------
(* The parts of the invariant that a step leaves alone *)

LEMMA HandFacts ==
  ASSUME QInv
  PROVE  /\ pc[Worker] \in {"move", "publish", "done"} => Hand \in Values /\ Hand # None
         /\ pc[Worker] \notin {"move", "publish", "done"} => Hand = None
         /\ pc[Worker] # "move" => Hand = item[Worker]
<1>1. ReaderOk(Worker) /\ Worker \in Consumers
  BY WorkerFacts DEF QInv
<1>2. Hand = IF pc[Worker] = "move" THEN data[Index(pos[Worker])] ELSE item[Worker]
  BY <1>1 DEF Hand, InHand
<1>3. Hand \in Values => Hand # None
  BY ValueAssumption
<1> QED
  BY <1>1, <1>2, <1>3 DEF ReaderOk

LEMMA WrittenType ==
  ASSUME TypeOK
  PROVE  /\ written \in Seq(Values) /\ DOMAIN written = 1..Len(written)
         /\ Len(written) \in Nat
<1>1. written \in Seq(Values)
  BY DEF TypeOK
<1> QED
  BY <1>1, SeqIsFun

\* What a step of enqueue or dequeue does to the state of the threads.
LEMMA StepLocal ==
  ASSUME QueueTypeOK, NEW t \in Threads, QueueStep(t)
  PROVE  /\ \A u \in Threads : u # t => /\ pc'[u] = pc[u] /\ pos'[u] = pos[u]
                                        /\ item'[u] = item[u]
         /\ pc[t] \in {"load", "cas", "move", "publish"}
         /\ pc'[t] # "idle"
         /\ pc[t] \in {"move", "publish"} => pc'[t] \in {"publish", "done"}
         /\ pc'[t] \in {"load", "cas"} => pos'[t] = pos[t] \/ pos'[t] = Shared(t)
         /\ pc'[t] \in {"load", "cas"} => pc[t] \in {"load", "cas"}
         /\ pc'[t] = "failed" => pc[t] = "load" /\ sequence[Index(pos[t])] < Turn(t)
<1>1. CASE Load(t)
  <2>1. Index(pos[t]) \in 0..Size - 1
    BY IndexType DEF QueueTypeOK
  <2>2. sequence[Index(pos[t])] \in Nat /\ Turn(t) \in Nat
    BY <2>1 DEF QueueTypeOK, Turn
  <2> QED
    BY <1>1, <2>2 DEF Load, Goto, QueueTypeOK
<1>2. CASE Cas(t)
  BY <1>2 DEF Cas, Goto, QueueTypeOK
<1>3. CASE Move(t)
  BY <1>3 DEF Move, Goto, QueueTypeOK
<1>4. CASE Publish(t)
  BY <1>4 DEF Publish, Goto, QueueTypeOK
<1> QED
  BY <1>1, <1>2, <1>3, <1>4 DEF QueueStep

LEMMA WorkerKept ==
  ASSUME WorkerInv, pc'[Worker] = pc[Worker], pos'[Worker] = pos[Worker],
         UNCHANGED <<dequeuePos, stage, count, running>>
  PROVE  WorkerInv'
BY DEF WorkerInv

LEMMA TypeKept ==
  ASSUME TypeOK, QInv', UNCHANGED loggerVars
  PROVE  TypeOK'
BY DEF TypeOK, QInv, loggerVars, fileVars

LEMMA EntryKept ==
  ASSUME EntryInv, InLog' = InLog, logged' = logged, dropped \subseteq dropped',
         \A p \in Producers : pc'[p] # "idle" => pc[p] # "idle" /\ item'[p] = item[p],
         \A p \in Producers : (Pending(p)' <=> Pending(p))
                                \/ (pc'[p] = "idle" /\ pc[p] = "failed" /\ item[p] \in dropped')
  PROVE  EntryInv'
<1>1. \A p \in Producers : Pending(p)' => Pending(p)
  BY DEF Pending
<1>2. \A p \in Producers : pc'[p] # "idle" => item'[p] = <<p, logged'[p]>>
  BY DEF EntryInv
<1>3. \A e \in InLog' : /\ e \in Values /\ e[2] <= logged'[e[1]]
                        /\ Pending(e[1])' => e[2] < logged'[e[1]]
  <2>1. \A e \in Values : e[1] \in Producers
    BY EntryAssumption
  <2> QED
    BY <1>1, <2>1 DEF EntryInv
<1>4. ASSUME NEW p \in Producers, NEW n \in 1..logged'[p]
      PROVE  <<p, n>> \in InLog' \/ <<p, n>> \in dropped' \/ (n = logged'[p] /\ Pending(p)')
  <2>1. n \in 1..logged[p]
    OBVIOUS
  <2>2. <<p, n>> \in InLog \/ <<p, n>> \in dropped \/ (n = logged[p] /\ Pending(p))
    BY <2>1 DEF EntryInv
  <2>3. pc[p] = "failed" => item[p] = <<p, logged[p]>>
    BY DEF EntryInv
  <2> QED
    BY <2>2, <2>3
<1> QED
  BY <1>2, <1>3, <1>4 DEF EntryInv

LEMMA QueuedInside ==
  ASSUME QInv
  PROVE  \A k \in 1..Len(Content) : \A j \in 1..k :
           /\ dequeuePos + j - 1 \in Nat /\ Inside(dequeuePos + j - 1)
           /\ dequeuePos + j - 1 + 1 = dequeuePos + j
<1>1. /\ enqueuePos \in Nat /\ dequeuePos \in Nat /\ Len(Content) = enqueuePos - dequeuePos
      /\ Len(Content) \in Nat
  BY ContentFacts DEF QInv, QueueTypeOK
<1> QED
  BY <1>1 DEF Inside

LEMMA OwedKept ==
  ASSUME QInv, OwedInv, InLog' = InLog,
         UNCHANGED <<Content, Hand, dequeuePos, Due, stage, count, running>>,
         \A k \in 1..Len(Content) : Content[k] \in Due /\ stage = "last" => pc'[Worker] # "failed",
         \A n \in Nat : Inside(n) /\ sequence[Index(n)] = n + 1 => sequence'[Index(n)] = n + 1
  PROVE  OwedInv'
<1>1. ASSUME NEW k \in 1..Len(Content), Content[k] \in Due, NEW j \in 1..k
      PROVE  sequence'[Index(dequeuePos + j - 1)] = dequeuePos + j
  <2>1. /\ dequeuePos + j - 1 \in Nat /\ Inside(dequeuePos + j - 1)
        /\ dequeuePos + j - 1 + 1 = dequeuePos + j
    BY QueuedInside
  <2>2. sequence[Index(dequeuePos + j - 1)] = dequeuePos + j
    BY <1>1 DEF OwedInv
  <2> QED
    BY <2>1, <2>2
<1>2. \A k \in 1..Len(Content') : Content'[k] \in Due' => \A j \in 1..k :
        sequence'[Index(dequeuePos' + j - 1)] = dequeuePos' + j
  BY <1>1
<1>3. ASSUME NEW k \in 1..Len(Content'), Content'[k] \in Due'
      PROVE  /\ stage' # "exited" /\ ~(stage' = "last" /\ pc'[Worker] = "failed")
             /\ stage' # "last" => k <= MaxBatch
             /\ stage' = "last" => k + count' + (IF Hand' = None THEN 0 ELSE 1) <= MaxBatch
  BY <1>3 DEF OwedInv
<1>4. (running' => Due' = {}) /\ Due' \subseteq InLog'
  BY DEF OwedInv
<1> QED
  BY <1>2, <1>3, <1>4 DEF OwedInv, Index

\* Nothing that holds entries changes.
LEMMA LogSame ==
  ASSUME Content' = Content, InHand' = InHand, written' = written
  PROVE  written' = written /\ Hand' = Hand /\ InLog' = InLog /\ (OrderInv => OrderInv')
<1>1. written' = written /\ Hand' = Hand
  BY DEF Hand
<1> QED
  BY <1>1 DEF InLog, OrderInv

----------------------------------------------------------------------------
(* The threads that log *)

LEMMA LogInv ==
  ASSUME FlowInv, NEW p \in Producers, Log(p)
  PROVE  FlowInv'
<1>0. TypeOK /\ QInv /\ WorkerInv /\ OrderInv /\ EntryInv /\ OwedInv /\ QueueTypeOK
  BY DEF FlowInv, TypeOK
<1>1. /\ pc[p] = "idle" /\ pc' = [pc EXCEPT ![p] = "load"] /\ pos' = [pos EXCEPT ![p] = enqueuePos]
      /\ item' = [item EXCEPT ![p] = <<p, logged[p] + 1>>]
      /\ logged' = [logged EXCEPT ![p] = @ + 1] /\ logged[p] < EntryCount
      /\ UNCHANGED <<dequeuePos, sequence>>
      /\ UNCHANGED <<running, stage, count, fileVars, written, dropped, owed, Due>>
  BY DEF Log, CallEnqueue, Goto, slotVars, Due, fileVars
<1>2. logged \in [Producers -> 0..EntryCount] /\ logged[p] \in Nat /\ logged[p] + 1 \in 1..EntryCount
  <2>1. logged \in [Producers -> 0..EntryCount]
    BY <1>0 DEF TypeOK
  <2> QED
    BY <1>1, <2>1, EntryAssumption
<1>3. QInv' /\ Content' = Content /\ InHand' = InHand
  <2>1. <<p, logged[p] + 1>> \in Values /\ CallEnqueue(p, <<p, logged[p] + 1>>)
    BY <1>2, EntryAssumption DEF Log
  <2> QED
    BY <1>0, <2>1, CallEnqueueInv
<1>4. written' = written /\ Hand' = Hand /\ InLog' = InLog /\ OrderInv'
  BY <1>0, <1>1, <1>3, LogSame
<1>5. /\ pc'[p] = "load" /\ item'[p] = <<p, logged'[p]>> /\ logged'[p] = logged[p] + 1
      /\ \A u \in Threads : u # p => pc'[u] = pc[u] /\ pos'[u] = pos[u] /\ item'[u] = item[u]
      /\ \A q \in Producers : q # p => logged'[q] = logged[q]
  BY <1>0, <1>1, <1>2, WorkerFacts DEF QueueTypeOK
<1>6. TypeOK'
  <2>1. logged' \in [Producers -> 0..EntryCount]
    BY <1>1, <1>2
  <2> QED
    BY <1>0, <1>1, <1>3, <2>1 DEF TypeOK, QInv, fileVars
<1>7. WorkerInv'
  BY <1>0, <1>1, <1>5, WorkerFacts, WorkerKept
<1>8. OwedInv'
  BY <1>0, <1>1, <1>3, <1>4, <1>5, WorkerFacts, OwedKept DEF OwedInv
<1>9. EntryInv'
  <2>1. \A q \in Producers : pc'[q] # "idle" => item'[q] = <<q, logged'[q]>>
    BY <1>0, <1>5, WorkerFacts DEF EntryInv
  <2>2. ASSUME NEW e \in InLog'
        PROVE  /\ e \in Values /\ e[2] <= logged'[e[1]]
               /\ Pending(e[1])' => e[2] < logged'[e[1]]
    <3>1. e \in Values /\ e[2] <= logged[e[1]] /\ (Pending(e[1]) => e[2] < logged[e[1]])
      BY <1>0, <1>4 DEF EntryInv
    <3>2. e[1] \in Producers /\ e[2] \in Nat
      BY <3>1, EntryAssumption
    <3>3. CASE e[1] = p
      BY <1>2, <1>5, <3>1, <3>2, <3>3
    <3>4. CASE e[1] # p
      BY <1>5, <3>1, <3>2, <3>4, WorkerFacts DEF Pending
    <3> QED
      BY <3>3, <3>4
  <2>3. ASSUME NEW q \in Producers, NEW n \in 1..logged'[q]
        PROVE  <<q, n>> \in InLog' \/ <<q, n>> \in dropped' \/ (n = logged'[q] /\ Pending(q)')
    <3>1. CASE q = p /\ n = logged[p] + 1
      BY <1>5, <3>1 DEF Pending
    <3>2. CASE q = p /\ n # logged[p] + 1
      <4>1. n \in 1..logged[q] /\ ~Pending(q)
        BY <1>1, <1>2, <1>5, <3>2 DEF Pending
      <4> QED
        BY <1>0, <1>1, <1>4, <4>1 DEF EntryInv
    <3>3. CASE q # p
      <4>1. n \in 1..logged[q] /\ (Pending(q)' <=> Pending(q))
        BY <1>5, <3>3, WorkerFacts DEF Pending
      <4> QED
        BY <1>0, <1>1, <1>4, <1>5, <3>3, <4>1 DEF EntryInv
    <3> QED
      BY <3>1, <3>2, <3>3
  <2> QED
    BY <2>1, <2>2, <2>3 DEF EntryInv
<1> QED
  BY <1>3, <1>4, <1>6, <1>7, <1>8, <1>9 DEF FlowInv

LEMMA LogReturnsInv ==
  ASSUME FlowInv, NEW p \in Producers, LogReturns(p)
  PROVE  FlowInv'
<1>0. TypeOK /\ QInv /\ WorkerInv /\ OrderInv /\ EntryInv /\ OwedInv /\ QueueTypeOK
  BY DEF FlowInv, TypeOK
<1>1. /\ Return(p) /\ pc[p] \in {"done", "failed"} /\ pc' = [pc EXCEPT ![p] = "idle"]
      /\ item' = [item EXCEPT ![p] = None]
      /\ dropped' = (IF pc[p] = "failed" THEN dropped \cup {item[p]} ELSE dropped)
      /\ UNCHANGED <<dequeuePos, sequence, pos>>
      /\ UNCHANGED <<logged, running, stage, count, fileVars, written, owed, Due>>
  BY DEF LogReturns, Return, Goto, slotVars, Due, fileVars
<1>2. QInv' /\ Content' = Content /\ InHand' = InHand
  BY <1>0, <1>1, WorkerFacts, ReturnInv
<1>3. written' = written /\ Hand' = Hand /\ InLog' = InLog /\ OrderInv'
  BY <1>0, <1>1, <1>2, LogSame
<1>4. /\ pc'[p] = "idle"
      /\ \A u \in Threads : u # p => pc'[u] = pc[u] /\ item'[u] = item[u]
  BY <1>0, <1>1, WorkerFacts DEF QueueTypeOK
<1>5. TypeOK'
  <2>1. item[p] \in Values
    BY <1>0, <1>1 DEF QInv, WriterOk
  <2>2. dropped' \subseteq Values
    BY <1>0, <1>1, <2>1 DEF TypeOK
  <2> QED
    BY <1>0, <1>1, <1>2, <2>2 DEF TypeOK, QInv, fileVars
<1>6. WorkerInv'
  BY <1>0, <1>1, <1>4, WorkerFacts, WorkerKept
<1>7. OwedInv'
  BY <1>0, <1>1, <1>2, <1>3, <1>4, WorkerFacts, OwedKept DEF OwedInv
<1>8. EntryInv'
  <2>1. \A q \in Producers : pc'[q] # "idle" => pc[q] # "idle" /\ item'[q] = item[q]
    BY <1>4, WorkerFacts
  <2>2. \A q \in Producers : (Pending(q)' <=> Pending(q))
                               \/ (pc'[q] = "idle" /\ pc[q] = "failed" /\ item[q] \in dropped')
    BY <1>1, <1>4, WorkerFacts DEF Pending
  <2>3. dropped \subseteq dropped'
    BY <1>1
  <2> QED
    BY <1>0, <1>1, <1>3, <2>1, <2>2, <2>3, EntryKept
<1> QED
  BY <1>2, <1>3, <1>5, <1>6, <1>7, <1>8 DEF FlowInv

LEMMA EnqueueInv ==
  ASSUME FlowInv, NEW p \in Producers, Enqueue(p)
  PROVE  FlowInv'
<1>0. TypeOK /\ QInv /\ WorkerInv /\ OrderInv /\ EntryInv /\ OwedInv /\ QueueTypeOK
  BY DEF FlowInv, TypeOK
<1>1. /\ QueueStep(p) /\ UNCHANGED loggerVars
      /\ UNCHANGED <<logged, running, stage, count, fileVars, written, dropped, owed, Due>>
  BY DEF Enqueue, loggerVars, Due, fileVars
<1>2. /\ QInv' /\ InHand' = InHand /\ dequeuePos' = dequeuePos /\ item' = item
      /\ \/ Content' = Content /\ (Pending(p)' <=> Pending(p))
         \/ /\ pc[p] = "cas" /\ pc'[p] = "move" /\ Content' = Append(Content, item[p])
      /\ \A n \in Nat : Inside(n) /\ sequence[Index(n)] = n + 1 => sequence'[Index(n)] = n + 1
  BY <1>0, <1>1, EnqueueStep
<1>3. /\ \A u \in Threads : u # p => pc'[u] = pc[u] /\ pos'[u] = pos[u]
      /\ pc[p] # "idle"
  BY <1>0, <1>1, WorkerFacts, StepLocal
<1>4. TypeOK'
  BY <1>0, <1>1, <1>2, TypeKept
<1>5. WorkerInv'
  BY <1>0, <1>1, <1>2, <1>3, WorkerFacts, WorkerKept
<1>6. written' = written /\ Hand' = Hand
  BY <1>1, <1>2 DEF Hand
<1>7. CASE Content' = Content /\ (Pending(p)' <=> Pending(p))
  <2>1. InLog' = InLog /\ OrderInv'
    BY <1>0, <1>1, <1>2, <1>7, LogSame
  <2>2. OwedInv'
    BY <1>0, <1>1, <1>2, <1>3, <1>6, <1>7, <2>1, WorkerFacts, OwedKept DEF OwedInv
  <2>3. \A q \in Producers : Pending(q)' <=> Pending(q)
    BY <1>3, <1>7, WorkerFacts DEF Pending
  <2>4. \A q \in Producers : pc'[q] # "idle" => pc[q] # "idle" /\ item'[q] = item[q]
    BY <1>2, <1>3, WorkerFacts
  <2>5. EntryInv'
    BY <1>0, <1>1, <2>1, <2>3, <2>4, EntryKept
  <2> QED
    BY <1>2, <1>4, <1>5, <2>1, <2>2, <2>5 DEF FlowInv
<1>8. CASE pc[p] = "cas" /\ pc'[p] = "move" /\ Content' = Append(Content, item[p])
  <2> DEFINE v == item[p]
  <2>1. /\ Pending(p) /\ ~Pending(p)' /\ v = <<p, logged[p]>> /\ v \in Values
        /\ logged[p] \in Nat
    <3>1. item[p] = <<p, logged[p]>> /\ item[p] \in Values
      BY <1>0, <1>8 DEF EntryInv, QInv, WriterOk
    <3>2. logged[p] \in Nat
      BY <1>0 DEF TypeOK
    <3> QED
      BY <1>8, <3>1, <3>2 DEF Pending
  <2>2. ASSUME NEW e \in InLog PROVE Before(e, v)
    <3>1. /\ e \in Values /\ (Pending(e[1]) => e[2] < logged[e[1]])
      BY <1>0 DEF EntryInv
    <3>2. e[1] \in Producers /\ e[2] \in Nat
      BY <3>1, EntryAssumption
    <3>3. v[1] = p /\ v[2] = logged[p]
      BY <2>1
    <3>4. e[1] = p => e[2] < v[2]
      BY <2>1, <3>1, <3>3
    <3>5. e # v
      BY <3>2, <3>3, <3>4
    <3> QED
      BY <3>3, <3>4, <3>5 DEF Before
  <2>3. v \notin InLog
    BY <2>2 DEF Before
  <2>4. written \in Seq(Values) /\ Content \in Seq(Values \cup {None}) /\ v \in Values \cup {None}
    BY <1>0, <2>1, WrittenType, ContentType
  <2> HIDE DEF v
  <2>5. OrderInv' /\ InLog' = InLog \cup {v}
    <3>1. /\ Ordered(written, Hand, Append(Content, v))
          /\ Members(written, Hand, Append(Content, v)) = Members(written, Hand, Content) \cup {v}
      BY <1>0, <2>2, <2>4, OrderedPut DEF OrderInv, InLog
    <3>2. Content' = Append(Content, v)
      BY <1>8 DEF v
    <3> QED
      BY <1>6, <3>1, <3>2 DEF OrderInv, InLog
  <2>6. EntryInv'
    <3>1. \A q \in Producers : q # p => (Pending(q)' <=> Pending(q)) /\ (pc'[q] # "idle" <=> pc[q] # "idle")
      BY <1>3, WorkerFacts DEF Pending
    <3>2. \A q \in Producers : pc'[q] # "idle" => item'[q] = <<q, logged'[q]>>
      BY <1>0, <1>1, <1>2, <1>3, <3>1 DEF EntryInv
    <3>3. ASSUME NEW e \in InLog'
          PROVE  /\ e \in Values /\ e[2] <= logged'[e[1]]
                 /\ Pending(e[1])' => e[2] < logged'[e[1]]
      <4>1. CASE e = v
        BY <1>1, <2>1, <4>1
      <4>2. CASE e \in InLog
        <5>1. /\ e \in Values /\ e[2] <= logged[e[1]] /\ (Pending(e[1]) => e[2] < logged[e[1]])
          BY <1>0, <4>2 DEF EntryInv
        <5>2. e[1] \in Producers
          BY <5>1, EntryAssumption
        <5> QED
          BY <1>1, <2>1, <3>1, <5>1, <5>2
      <4> QED
        BY <2>5, <4>1, <4>2
    <3>4. ASSUME NEW q \in Producers, NEW n \in 1..logged'[q]
          PROVE  <<q, n>> \in InLog' \/ <<q, n>> \in dropped' \/ (n = logged'[q] /\ Pending(q)')
      <4>1. <<q, n>> \in InLog \/ <<q, n>> \in dropped \/ (n = logged[q] /\ Pending(q))
        BY <1>0, <1>1 DEF EntryInv
      <4> QED
        BY <1>1, <2>1, <2>5, <3>1, <4>1
    <3> QED
      BY <3>2, <3>3, <3>4 DEF EntryInv
  <2>7. OwedInv'
    <3>1. Len(Content) \in Nat /\ Len(Content') = Len(Content) + 1
          /\ (\A k \in 1..Len(Content) : Content'[k] = Content[k]) /\ Content'[Len(Content) + 1] = v
      <4>1. Content' = Append(Content, v)
        BY <1>8 DEF v
      <4>2. /\ Len(Append(Content, v)) = Len(Content) + 1
            /\ \A k \in 1..Len(Content) : Append(Content, v)[k] = Content[k]
            /\ Append(Content, v)[Len(Content) + 1] = v
        BY <2>4, Seqs!AppendProperties
      <4> QED
        BY <1>0, <4>1, <4>2, ContentFacts
    <3>2. v \notin Due
      BY <1>0, <2>3 DEF OwedInv
    <3>3. ASSUME NEW k \in 1..Len(Content'), Content'[k] \in Due'
          PROVE  k \in 1..Len(Content) /\ Content[k] \in Due
      BY <1>1, <3>1, <3>2, <3>3
    <3>4. ASSUME NEW k \in 1..Len(Content'), Content'[k] \in Due', NEW j \in 1..k
          PROVE  sequence'[Index(dequeuePos + j - 1)] = dequeuePos + j
      <4>1. /\ dequeuePos + j - 1 \in Nat /\ Inside(dequeuePos + j - 1)
            /\ dequeuePos + j - 1 + 1 = dequeuePos + j
        BY <1>0, <3>3, <3>4, QueuedInside
      <4>2. sequence[Index(dequeuePos + j - 1)] = dequeuePos + j
        BY <1>0, <3>3, <3>4 DEF OwedInv
      <4> QED
        BY <1>2, <4>1, <4>2
    <3>5. ASSUME NEW k \in 1..Len(Content'), Content'[k] \in Due'
          PROVE  /\ stage' # "exited" /\ ~(stage' = "last" /\ pc'[Worker] = "failed")
                 /\ stage' # "last" => k <= MaxBatch
                 /\ stage' = "last" => k + count' + (IF Hand' = None THEN 0 ELSE 1) <= MaxBatch
      BY <1>0, <1>1, <1>3, <1>6, <3>3, <3>5, WorkerFacts DEF OwedInv
    <3>6. (running' => Due' = {}) /\ Due' \subseteq InLog'
      BY <1>0, <1>1, <2>5 DEF OwedInv
    <3>7. \A k \in 1..Len(Content') : Content'[k] \in Due' => \A j \in 1..k :
            sequence'[Index(dequeuePos' + j - 1)] = dequeuePos' + j
      BY <1>2, <3>4
    <3> QED
      BY <3>5, <3>6, <3>7 DEF OwedInv, Index
  <2> QED
    BY <1>2, <1>4, <1>5, <2>5, <2>6, <2>7 DEF FlowInv
<1> QED
  BY <1>2, <1>7, <1>8

----------------------------------------------------------------------------
(* The background thread *)

LEMMA CheckRunningInv ==
  ASSUME FlowInv, CheckRunning
  PROVE  FlowInv'
<1>0. TypeOK /\ QInv /\ WorkerInv /\ OrderInv /\ EntryInv /\ OwedInv
  BY DEF FlowInv
<1>1. /\ stage = "check" /\ stage' = (IF running THEN "process" ELSE "last")
      /\ UNCHANGED queueVars
      /\ UNCHANGED <<logged, running, count, fileVars, written, dropped, owed, Due>>
  BY DEF CheckRunning, Stages, Due, fileVars
<1>2. /\ QInv' /\ Content' = Content /\ InHand' = InHand
      /\ UNCHANGED <<enqueuePos, dequeuePos, sequence, data, pc, pos, item>>
  BY <1>0, <1>1, QueueSame
<1>3. written' = written /\ Hand' = Hand /\ InLog' = InLog /\ OrderInv'
  BY <1>0, <1>1, <1>2, LogSame
<1>4. pc[Worker] = "idle" /\ count = 0 /\ Hand = None
  <2>1. pc[Worker] = "idle" /\ count = 0
    BY <1>0, <1>1 DEF WorkerInv
  <2> QED
    BY <1>0, <2>1, HandFacts
<1>5. TypeOK'
  BY <1>0, <1>1, <1>2 DEF TypeOK, QInv, fileVars
<1>6. WorkerInv'
  BY <1>0, <1>1, <1>2, <1>4 DEF WorkerInv
<1>7. EntryInv'
  BY <1>0, <1>1, <1>2, <1>3, EntryKept DEF Pending
<1>8. OwedInv'
  <2>1. ASSUME NEW k \in 1..Len(Content'), Content'[k] \in Due'
        PROVE  /\ stage' # "exited" /\ ~(stage' = "last" /\ pc'[Worker] = "failed")
               /\ stage' # "last" => k <= MaxBatch
               /\ stage' = "last" => k + count' + (IF Hand' = None THEN 0 ELSE 1) <= MaxBatch
    <3>1. k <= MaxBatch
      BY <1>0, <1>1, <1>2, <2>1 DEF OwedInv
    <3>2. k \in Int
      OBVIOUS
    <3> QED
      BY <1>1, <1>2, <1>3, <1>4, <3>1, <3>2
  <2>2. \A k \in 1..Len(Content') : Content'[k] \in Due' => \A j \in 1..k :
          sequence'[Index(dequeuePos' + j - 1)] = dequeuePos' + j
    BY <1>0, <1>1, <1>2 DEF OwedInv
  <2> QED
    BY <1>0, <1>1, <1>3, <2>1, <2>2 DEF OwedInv, Index
<1> QED
  BY <1>2, <1>3, <1>5, <1>6, <1>7, <1>8 DEF FlowInv

LEMMA NextEntryInv ==
  ASSUME FlowInv, NextEntry
  PROVE  FlowInv'
<1>0. TypeOK /\ QInv /\ WorkerInv /\ OrderInv /\ EntryInv /\ OwedInv /\ QueueTypeOK
  BY DEF FlowInv, TypeOK
<1>1. /\ stage \in {"process", "last"} /\ ~(count >= MaxBatch) /\ CallDequeue(Worker)
      /\ UNCHANGED loggerVars
      /\ UNCHANGED <<logged, running, stage, count, fileVars, written, dropped, owed, Due>>
  BY DEF NextEntry, loggerVars, BatchFull, Due, fileVars
<1>2. /\ pc' = [pc EXCEPT ![Worker] = "load"] /\ pos' = [pos EXCEPT ![Worker] = dequeuePos]
      /\ UNCHANGED <<dequeuePos, sequence, item>>
  BY <1>1 DEF CallDequeue, Goto, slotVars
<1>3. QInv' /\ Content' = Content /\ InHand' = InHand
  BY <1>0, <1>1, WorkerFacts, CallDequeueInv
<1>4. written' = written /\ Hand' = Hand /\ InLog' = InLog /\ OrderInv'
  BY <1>0, <1>1, <1>3, LogSame
<1>5. /\ pc'[Worker] = "load" /\ pos'[Worker] = dequeuePos
      /\ \A p \in Producers : pc'[p] = pc[p]
  BY <1>0, <1>2, WorkerFacts DEF QueueTypeOK
<1>6. TypeOK'
  BY <1>0, <1>1, <1>3, TypeKept
<1>7. WorkerInv'
  <2>1. count < MaxBatch
    BY <1>0, <1>1, LimitAssumption DEF TypeOK
  <2> QED
    BY <1>0, <1>1, <1>2, <1>5, <2>1 DEF WorkerInv
<1>8. EntryInv'
  BY <1>0, <1>1, <1>2, <1>4, <1>5, EntryKept DEF Pending
<1>9. OwedInv'
  BY <1>0, <1>1, <1>2, <1>3, <1>4, <1>5, OwedKept
<1> QED
  BY <1>3, <1>4, <1>6, <1>7, <1>8, <1>9 DEF FlowInv

LEMMA DequeueInv ==
  ASSUME FlowInv, Dequeue
  PROVE  FlowInv'
<1>0. TypeOK /\ QInv /\ WorkerInv /\ OrderInv /\ EntryInv /\ OwedInv /\ QueueTypeOK
  BY DEF FlowInv, TypeOK
<1>1. /\ QueueStep(Worker) /\ UNCHANGED loggerVars
      /\ UNCHANGED <<logged, running, stage, count, fileVars, written, dropped, owed, Due>>
  BY DEF Dequeue, loggerVars, Due, fileVars
<1>2. /\ QInv'
      /\ \/ Content' = Content /\ InHand' = InHand /\ dequeuePos' = dequeuePos
         \/ /\ pc[Worker] = "cas" /\ Content # <<>> /\ InHand[Worker] = None
            /\ Head(Content) \in Values
            /\ InHand' = [InHand EXCEPT ![Worker] = Head(Content)] /\ Content' = Tail(Content)
            /\ dequeuePos' = dequeuePos + 1 /\ pc'[Worker] = "move"
      /\ \A n \in Nat : Inside(n) /\ sequence[Index(n)] = n + 1 => sequence'[Index(n)] = n + 1
  BY <1>0, <1>1, WorkerFacts, DequeueStep
<1>3. /\ \A p \in Producers : pc'[p] = pc[p] /\ item'[p] = item[p]
      /\ pc[Worker] \in {"load", "cas", "move", "publish"}
      /\ pc'[Worker] \in {"load", "cas"} => pos'[Worker] = pos[Worker] \/ pos'[Worker] = dequeuePos
      /\ pc'[Worker] \in {"load", "cas"} => pc[Worker] \in {"load", "cas"}
      /\ pc'[Worker] = "failed" => /\ pc[Worker] = "load"
                                   /\ sequence[Index(pos[Worker])] < pos[Worker] + 1
  BY <1>0, <1>1, WorkerFacts, StepLocal DEF Shared, Turn
<1>4. TypeOK'
  BY <1>0, <1>1, <1>2, TypeKept
<1>5. stage \in {"process", "last"} /\ count < MaxBatch
  BY <1>0, <1>3 DEF WorkerInv
<1>6. CASE Content' = Content /\ InHand' = InHand /\ dequeuePos' = dequeuePos
  <2>1. written' = written /\ Hand' = Hand /\ InLog' = InLog /\ OrderInv'
    BY <1>0, <1>1, <1>6, LogSame
  <2>2. WorkerInv'
    BY <1>0, <1>1, <1>3, <1>5, <1>6 DEF WorkerInv
  <2>3. EntryInv'
    BY <1>0, <1>1, <1>3, <2>1, EntryKept DEF Pending
  <2>4. ASSUME NEW k \in 1..Len(Content), Content[k] \in Due PROVE pc'[Worker] # "failed"
    <3>1. \A j \in 1..k : sequence[Index(dequeuePos + j - 1)] = dequeuePos + j
      BY <1>0, <2>4 DEF OwedInv
    <3>2. 1 \in 1..k
      BY <1>0, ContentFacts
    <3>3. dequeuePos \in Nat /\ dequeuePos + 1 - 1 = dequeuePos
      BY <1>0 DEF QueueTypeOK
    <3>4. sequence[Index(dequeuePos)] = dequeuePos + 1
      BY <3>1, <3>2, <3>3
    <3>5. pc[Worker] = "load" => pos[Worker] = dequeuePos
      BY <1>0 DEF WorkerInv
    <3> QED
      BY <1>3, <3>3, <3>4, <3>5
  <2>5. OwedInv'
    BY <1>0, <1>1, <1>2, <1>6, <2>1, <2>4, OwedKept
  <2> QED
    BY <1>2, <1>4, <2>1, <2>2, <2>3, <2>5 DEF FlowInv
<1>7. CASE /\ pc[Worker] = "cas" /\ Content # <<>> /\ InHand[Worker] = None
           /\ Head(Content) \in Values
           /\ InHand' = [InHand EXCEPT ![Worker] = Head(Content)] /\ Content' = Tail(Content)
           /\ dequeuePos' = dequeuePos + 1 /\ pc'[Worker] = "move"
  <2>1. /\ written' = written /\ Hand = None /\ Hand' = Head(Content) /\ Hand' # None
    <3>1. InHand'[Worker] = Head(Content)
      BY <1>7, WorkerFacts DEF InHand
    <3> QED
      BY <1>1, <1>7, <3>1, ValueAssumption DEF Hand
  <2>2. written \in Seq(Values) /\ Content \in Seq(Values \cup {None})
    BY <1>0, WrittenType, ContentType
  <2>3. OrderInv' /\ InLog' = InLog
    <3>1. /\ Ordered(written, Head(Content), Tail(Content))
          /\ Members(written, Head(Content), Tail(Content)) = Members(written, None, Content)
      BY <1>0, <1>7, <2>1, <2>2, OrderedTake, ValueAssumption DEF OrderInv
    <3> QED
      BY <1>7, <2>1, <3>1 DEF OrderInv, InLog
  <2>4. WorkerInv'
    BY <1>0, <1>1, <1>5, <1>7 DEF WorkerInv
  <2>5. EntryInv'
    BY <1>0, <1>1, <1>3, <2>3, EntryKept DEF Pending
  <2>6. /\ Len(Content') = Len(Content) - 1 /\ Len(Content) \in Nat
        /\ \A k \in 1..Len(Content') : Content'[k] = Content[k + 1]
    <3>1. /\ Len(Tail(Content)) = Len(Content) - 1
          /\ \A k \in 1..Len(Tail(Content)) : Tail(Content)[k] = Content[k + 1]
      BY <1>7, <2>2, Seqs!HeadTailProperties
    <3> QED
      BY <1>0, <1>7, <3>1, ContentFacts
  <2>7. ASSUME NEW k \in 1..Len(Content'), Content'[k] \in Due'
        PROVE  k + 1 \in 1..Len(Content) /\ Content[k + 1] \in Due
    BY <1>1, <2>6, <2>7
  <2>8. ASSUME NEW k \in 1..Len(Content'), Content'[k] \in Due', NEW j \in 1..k
        PROVE  sequence'[Index(dequeuePos' + j - 1)] = dequeuePos' + j
    <3>0. k + 1 \in 1..Len(Content) /\ Content[k + 1] \in Due
      BY <2>7, <2>8
    <3>1. j + 1 \in 1..(k + 1) /\ dequeuePos \in Nat
      BY <1>0, <2>6 DEF QueueTypeOK
    <3>2. /\ dequeuePos + (j + 1) - 1 \in Nat /\ Inside(dequeuePos + (j + 1) - 1)
          /\ dequeuePos + (j + 1) - 1 + 1 = dequeuePos + (j + 1)
      BY <1>0, <3>0, <3>1, QueuedInside
    <3>3. sequence[Index(dequeuePos + (j + 1) - 1)] = dequeuePos + (j + 1)
      BY <1>0, <3>0, <3>1 DEF OwedInv
    <3>4. sequence'[Index(dequeuePos + (j + 1) - 1)] = dequeuePos + (j + 1)
      BY <1>2, <3>2, <3>3
    <3>5. dequeuePos' + j - 1 = dequeuePos + (j + 1) - 1 /\ dequeuePos' + j = dequeuePos + (j + 1)
      BY <1>7, <3>1
    <3> QED
      BY <3>4, <3>5
  <2>9. ASSUME NEW k \in 1..Len(Content'), Content'[k] \in Due'
        PROVE  /\ stage' # "exited" /\ ~(stage' = "last" /\ pc'[Worker] = "failed")
               /\ stage' # "last" => k <= MaxBatch
               /\ stage' = "last" => k + count' + (IF Hand' = None THEN 0 ELSE 1) <= MaxBatch
    <3>1. /\ stage # "exited"
          /\ stage # "last" => k + 1 <= MaxBatch
          /\ stage = "last" => k + 1 + count + (IF Hand = None THEN 0 ELSE 1) <= MaxBatch
      BY <1>0, <2>7, <2>9 DEF OwedInv
    <3>2. k \in Nat /\ count \in Nat /\ MaxBatch \in Nat
      BY <1>0, <2>6, LimitAssumption DEF TypeOK
    <3> QED
      BY <1>1, <1>7, <2>1, <3>1, <3>2
  <2>10. (running' => Due' = {}) /\ Due' \subseteq InLog'
    BY <1>0, <1>1, <2>3 DEF OwedInv
  <2>11. OwedInv'
    BY <2>8, <2>9, <2>10 DEF OwedInv, Index
  <2> QED
    BY <1>2, <1>4, <2>3, <2>4, <2>5, <2>11 DEF FlowInv
<1> QED
  BY <1>2, <1>6, <1>7

----------------------------------------------------------------------------
(* The files *)

LEMMA InOrderAppend ==
  ASSUME NEW s \in Seq(Values), NEW v \in Values, InOrder(s),
         \A a \in Range(s) : Before(a, v)
  PROVE  /\ Append(s, v) \in Seq(Values) /\ InOrder(Append(s, v))
         /\ Range(Append(s, v)) = Range(s) \cup {v}
<1> DEFINE f == Append(s, v)
<1>1. /\ f \in Seq(Values) /\ Len(f) = Len(s) + 1 /\ Len(s) \in Nat
      /\ \A i \in 1..Len(s) : f[i] = s[i]
      /\ f[Len(s) + 1] = v /\ DOMAIN s = 1..Len(s)
  BY Seqs!AppendProperties, SeqIsFun
<1>2. DOMAIN f = 1..(Len(s) + 1)
  BY <1>1, SeqIsFun
<1>3. Range(f) = Range(s) \cup {v}
  BY RangeAppend
<1> HIDE DEF f
<1>4. ASSUME NEW i \in DOMAIN f, NEW j \in DOMAIN f, i < j PROVE Before(f[i], f[j])
  <2>1. i \in 1..Len(s) /\ f[i] = s[i] /\ s[i] \in Range(s)
    BY <1>1, <1>2, <1>4 DEF Range
  <2>2. CASE j \in 1..Len(s)
    <3>1. f[j] = s[j] /\ i \in DOMAIN s /\ j \in DOMAIN s
      BY <1>1, <2>1, <2>2
    <3> QED
      BY <1>4, <2>1, <3>1 DEF InOrder
  <2>3. CASE j = Len(s) + 1
    BY <1>1, <2>1, <2>3
  <2> QED
    BY <1>1, <1>2, <2>2, <2>3
<1>5. InOrder(f)
  BY <1>4 DEF InOrder
<1> QED
  BY <1>1, <1>3, <1>5 DEF f

\* The types after an entry was filed.
LEMMA FileEntryTypes ==
  ASSUME TypeOK, NEW e \in Values, FileEntry(e)
  PROVE  /\ fileOpen' \in BOOLEAN /\ fileSize' \in 0..MaxFileSize
         /\ logFile' \in Seq(Values) /\ archives' \in [Names -> Seq(Values)]
         /\ unfiled' \subseteq Values /\ overwritten' \subseteq Values
<1> DEFINE f == Append(logFile, e)
<1>1. /\ fileOpen \in BOOLEAN /\ fileSize \in 0..MaxFileSize /\ logFile \in Seq(Values)
      /\ archives \in [Names -> Seq(Values)]
      /\ unfiled \subseteq Values /\ overwritten \subseteq Values
  BY DEF TypeOK
<1>2. f \in Seq(Values) /\ <<>> \in Seq(Values)
  BY <1>1, Seqs!AppendProperties
<1> HIDE DEF f
<1>3. \A n \in Names : Range(archives[n]) \subseteq Values
  BY <1>1, RangeIs
<1>4. CASE /\ fileSize + 1 < MaxFileSize
           /\ logFile' = f /\ fileSize' = fileSize + 1
           /\ UNCHANGED <<fileOpen, archives, unfiled, overwritten>>
  <2>1. fileSize + 1 \in 0..MaxFileSize
    BY <1>1, <1>4, LimitAssumption
  <2> QED
    BY <1>1, <1>2, <1>4, <2>1
<1>5. CASE Rotate(f) /\ UNCHANGED unfiled
  <2>1. fileOpen' \in BOOLEAN /\ fileSize' \in 0..MaxFileSize
    BY <1>5, LimitAssumption DEF Rotate
  <2>2. /\ logFile' \in Seq(Values) /\ archives' \in [Names -> Seq(Values)]
        /\ overwritten' \subseteq Values
    BY <1>1, <1>2, <1>3, <1>5 DEF Rotate, Archive
  <2> QED
    BY <1>1, <1>5, <2>1, <2>2
<1>6. CASE /\ unfiled' = unfiled \cup {e}
           /\ UNCHANGED <<fileOpen, fileSize, logFile, archives, overwritten>>
  BY <1>1, <1>6
<1> QED
  BY <1>4, <1>5, <1>6 DEF FileEntry, f

\* An entry newer than all before it keeps the files in order and accounted for.
LEMMA FileEntryInv ==
  ASSUME TypeOK, FileInv, NEW e \in Values, FileEntry(e), written' = Append(written, e),
         \A a \in Range(written) : Before(a, e)
  PROVE  FileInv'
<1> DEFINE f == Append(logFile, e)
<1>1. /\ logFile \in Seq(Values) /\ archives \in [Names -> Seq(Values)] /\ written \in Seq(Values)
  BY DEF TypeOK
<1>2. Filed \subseteq Range(written)
  BY DEF FileInv
<1>3. \A a \in Range(logFile) : Before(a, e)
  BY <1>2 DEF Filed
<1>4. \A n \in Names : \A a \in Range(archives[n]) : Before(a, e)
  BY <1>2 DEF Filed
<1>5. /\ f \in Seq(Values) /\ InOrder(f) /\ Range(f) = Range(logFile) \cup {e}
  BY <1>1, <1>3, InOrderAppend DEF FileInv
<1>6. Range(written') = Range(written) \cup {e}
  BY <1>1, RangeAppend
<1>7. \A n \in Names : \A a \in Range(archives[n]), b \in Range(f) : Before(a, b)
  BY <1>4, <1>5 DEF FileInv
<1>8. Range(<<>>) = {} /\ InOrder(<<>>)
  BY DEF Range, InOrder
<1> HIDE DEF f
<1>9. CASE /\ logFile' = f /\ UNCHANGED <<archives, unfiled, overwritten>>
           /\ fileOpen' => unfiled' = {}
  <2>1. Filed' = Filed \cup {e}
    BY <1>5, <1>9 DEF Filed
  <2>2. Range(written)' = Filed' \cup unfiled' \cup overwritten'
    BY <1>6, <1>9, <2>1 DEF FileInv
  <2>3. InOrder(logFile)' /\ \A n \in Names : InOrder(archives[n])'
    BY <1>5, <1>9 DEF FileInv
  <2> QED
    BY <1>7, <1>9, <2>2, <2>3 DEF FileInv
<1>10. CASE Archive(f) /\ logFile' = <<>> /\ UNCHANGED unfiled /\ fileOpen /\ fileOpen' \in BOOLEAN
  <2>1. PICK n \in Names : /\ archives' = [archives EXCEPT ![n] = f]
                           /\ overwritten' = overwritten \cup Range(archives[n])
    BY <1>10 DEF Archive
  <2>2. archives'[n] = f /\ \A m \in Names : m # n => archives'[m] = archives[m]
    BY <1>1, <2>1
  <2>3. Filed' \cup overwritten' = Filed \cup {e} \cup overwritten
    <3>1. Filed' = UNION {Range(archives'[m]) : m \in Names}
      BY <1>8, <1>10 DEF Filed
    <3>2. \A x : x \in Filed' <=> \E m \in Names : x \in Range(archives'[m])
      BY <3>1
    <3>3. \A x : x \in Filed' <=> x \in Range(f) \/ \E m \in Names : m # n /\ x \in Range(archives[m])
      BY <2>2, <3>2
    <3>4. \A x : x \in Filed <=> x \in Range(logFile) \/ \E m \in Names : x \in Range(archives[m])
      BY DEF Filed
    <3> QED
      BY <1>5, <2>1, <3>3, <3>4
  <2>4. Range(written)' = Filed' \cup unfiled' \cup overwritten'
    BY <1>6, <1>10, <2>3 DEF FileInv
  <2>5. InOrder(logFile)' /\ \A m \in Names : InOrder(archives[m])'
    <3>1. \A m \in Names : InOrder(archives'[m])
      BY <1>5, <2>2 DEF FileInv
    <3> QED
      BY <1>8, <1>10, <3>1 DEF InOrder
  <2>6. \A m \in Names : \A a \in Range(archives'[m]), b \in Range(logFile') : Before(a, b)
    BY <1>8, <1>10
  <2>7. ASSUME NEW m \in Names, NEW k \in Names, m # k
        PROVE  Range(archives'[m]) \cap Range(archives'[k]) = {}
    <3>1. \A l \in Names : l # n => Range(archives[l]) \cap Range(f) = {}
      BY <1>7 DEF Before
    <3>2. CASE m = n
      BY <2>2, <2>7, <3>1, <3>2
    <3>3. CASE k = n
      BY <2>2, <2>7, <3>1, <3>3
    <3>4. CASE m # n /\ k # n
      BY <2>2, <2>7, <3>4 DEF FileInv
    <3> QED
      BY <3>2, <3>3, <3>4
  <2>8. fileOpen' => unfiled' = {}
    BY <1>10 DEF FileInv
  <2> QED
    BY <2>4, <2>5, <2>6, <2>7, <2>8 DEF FileInv
<1>11. CASE /\ unfiled' = unfiled \cup {e} /\ ~fileOpen
            /\ UNCHANGED <<fileOpen, logFile, archives, overwritten>>
  <2>1. Filed' = Filed
    BY <1>11 DEF Filed
  <2> QED
    BY <1>6, <1>11, <2>1 DEF FileInv
<1>12. fileOpen => unfiled = {}
  BY DEF FileInv
<1>13. CASE fileOpen /\ logFile' = f /\ UNCHANGED <<fileOpen, archives, unfiled, overwritten>>
  BY <1>9, <1>12, <1>13
<1>14. CASE fileOpen /\ Rotate(f) /\ UNCHANGED unfiled
  BY <1>9, <1>10, <1>12, <1>14 DEF Rotate
<1> QED
  BY <1>11, <1>13, <1>14 DEF FileEntry, f

\* Everything else leaves the files alone.
LEMMA FileKept ==
  ASSUME FileInv, UNCHANGED fileVars
  PROVE  FileInv'
<1>1. UNCHANGED <<fileOpen, logFile, archives, written, unfiled, overwritten>>
  BY DEF fileVars
<1>2. Filed' = Filed
  BY <1>1 DEF Filed
<1> QED
  BY <1>1, <1>2 DEF FileInv

----------------------------------------------------------------------------
(* Writing and shutting down *)
LEMMA WriteEntryInv ==
  ASSUME FlowInv, WriteEntry
  PROVE  FlowInv'
<1>0. TypeOK /\ QInv /\ WorkerInv /\ OrderInv /\ EntryInv /\ OwedInv /\ QueueTypeOK
  BY DEF FlowInv, TypeOK
<1>1. /\ pc[Worker] = "done" /\ Return(Worker) /\ count' = count + 1
      /\ UNCHANGED <<logged, running, stage, dropped, owed, Due>>
  BY DEF WriteEntry, Due
<1>2. /\ pc' = [pc EXCEPT ![Worker] = "idle"] /\ item' = [item EXCEPT ![Worker] = None]
      /\ UNCHANGED <<dequeuePos, sequence, pos>>
  BY <1>1 DEF Return, Goto, slotVars
<1>3. /\ QInv' /\ Content' = Content /\ InHand[Worker] = item[Worker]
      /\ InHand' = [InHand EXCEPT ![Worker] = None] /\ item[Worker] \in Values
  BY <1>0, <1>1, WorkerFacts, ReturnInv
<1>4. /\ Hand = item[Worker] /\ Hand \in Values /\ Hand # None /\ Hand' = None
  <2>1. InHand'[Worker] = None
    BY <1>3, WorkerFacts DEF InHand
  <2> QED
    BY <1>3, <2>1, ValueAssumption DEF Hand
<1>5. /\ written' = Append(written, Hand) /\ written' \in Seq(Values)
      /\ fileOpen' \in BOOLEAN /\ fileSize' \in 0..MaxFileSize
      /\ logFile' \in Seq(Values) /\ archives' \in [Names -> Seq(Values)]
      /\ unfiled' \subseteq Values /\ overwritten' \subseteq Values
  <2>1. written' = Append(written, item[Worker]) /\ FileEntry(item[Worker])
    BY DEF WriteEntry
  <2>2. written' \in Seq(Values)
    BY <1>0, <1>3, <2>1, WrittenType, Seqs!AppendProperties
  <2> QED
    BY <1>0, <1>3, <1>4, <2>1, <2>2, FileEntryTypes
<1>6. OrderInv' /\ InLog' = InLog
  <2>1. written \in Seq(Values) /\ Content \in Seq(Values \cup {None})
    BY <1>0, WrittenType, ContentType
  <2>2. /\ Ordered(Append(written, Hand), None, Content)
        /\ Members(Append(written, Hand), None, Content) = Members(written, Hand, Content)
    BY <1>0, <1>4, <2>1, OrderedUse DEF OrderInv
  <2> QED
    BY <1>3, <1>4, <1>5, <2>2 DEF OrderInv, InLog
<1>7. /\ pc'[Worker] = "idle"
      /\ \A p \in Producers : pc'[p] = pc[p] /\ item'[p] = item[p]
  BY <1>0, <1>2, WorkerFacts DEF QueueTypeOK
<1>8. count < MaxBatch /\ stage \in {"process", "last"} /\ count \in Nat /\ count + 1 \in 0..MaxBatch
  <2>1. count < MaxBatch /\ stage \in {"process", "last"}
    BY <1>0, <1>1 DEF WorkerInv
  <2>2. count \in 0..MaxBatch
    BY <1>0 DEF TypeOK
  <2> QED
    BY <2>1, <2>2, LimitAssumption
<1>9. TypeOK'
  BY <1>0, <1>1, <1>3, <1>5, <1>8 DEF TypeOK, QInv, fileVars
<1>10. WorkerInv'
  BY <1>0, <1>1, <1>7, <1>8 DEF WorkerInv
<1>11. EntryInv'
  BY <1>0, <1>1, <1>6, <1>7, EntryKept DEF Pending
<1>12. OwedInv'
  <2>1. ASSUME NEW k \in 1..Len(Content'), Content'[k] \in Due'
        PROVE  /\ stage' # "exited" /\ ~(stage' = "last" /\ pc'[Worker] = "failed")
               /\ stage' # "last" => k <= MaxBatch
               /\ stage' = "last" => k + count' + (IF Hand' = None THEN 0 ELSE 1) <= MaxBatch
    <3>1. /\ stage # "last" => k <= MaxBatch
          /\ stage = "last" => k + count + 1 <= MaxBatch
      BY <1>0, <1>1, <1>3, <1>4, <2>1 DEF OwedInv
    <3>2. k \in Int
      OBVIOUS
    <3> QED
      BY <1>1, <1>4, <1>7, <1>8, <3>1, <3>2
  <2>2. \A k \in 1..Len(Content') : Content'[k] \in Due' => \A j \in 1..k :
          sequence'[Index(dequeuePos' + j - 1)] = dequeuePos' + j
    BY <1>0, <1>1, <1>2, <1>3 DEF OwedInv
  <2> QED
    BY <1>0, <1>1, <1>6, <2>1, <2>2 DEF OwedInv, Index
<1> QED
  BY <1>3, <1>6, <1>9, <1>10, <1>11, <1>12 DEF FlowInv

LEMMA BatchEndsInv ==
  ASSUME FlowInv, BatchEnds
  PROVE  FlowInv'
<1>0. TypeOK /\ QInv /\ WorkerInv /\ OrderInv /\ EntryInv /\ OwedInv /\ QueueTypeOK
  BY DEF FlowInv, TypeOK
<1>1. /\ stage \in {"process", "last"} /\ count' = 0
      /\ stage' = (IF stage = "process" THEN "check" ELSE "exited")
      /\ UNCHANGED <<logged, running, fileVars, written, dropped, owed, Due>>
  BY DEF BatchEnds, Stages, Due, fileVars
<1>2. /\ QInv' /\ Content' = Content /\ InHand' = InHand
      /\ UNCHANGED <<dequeuePos, sequence>> /\ pc'[Worker] = "idle" /\ Hand = None
      /\ pc[Worker] = "failed" \/ count >= MaxBatch
      /\ \A p \in Producers : pc'[p] = pc[p] /\ item'[p] = item[p]
  <2>1. CASE pc[Worker] = "failed" /\ Return(Worker)
    <3>1. /\ QInv' /\ Content' = Content /\ InHand[Worker] = None
          /\ InHand' = [InHand EXCEPT ![Worker] = None]
      BY <1>0, <2>1, WorkerFacts, ReturnInv
    <3>2. InHand' = InHand /\ Hand = None
      BY <3>1, WorkerFacts DEF InHand, Hand
    <3>3. /\ pc' = [pc EXCEPT ![Worker] = "idle"] /\ item' = [item EXCEPT ![Worker] = None]
          /\ UNCHANGED <<dequeuePos, sequence>>
      BY <2>1 DEF Return, Goto, slotVars
    <3>4. pc'[Worker] = "idle" /\ \A p \in Producers : pc'[p] = pc[p] /\ item'[p] = item[p]
      BY <1>0, <3>3, WorkerFacts DEF QueueTypeOK
    <3> QED
      BY <2>1, <3>1, <3>2, <3>3, <3>4
  <2>2. CASE pc[Worker] = "idle" /\ BatchFull /\ UNCHANGED queueVars
    BY <1>0, <2>2, QueueSame, HandFacts DEF BatchFull
  <2> QED
    BY <2>1, <2>2 DEF BatchEnds
<1>3. written' = written /\ Hand' = Hand /\ InLog' = InLog /\ OrderInv'
  BY <1>0, <1>1, <1>2, LogSame
<1>4. TypeOK'
  BY <1>0, <1>1, <1>2, LimitAssumption DEF TypeOK, QInv, fileVars
<1>5. WorkerInv'
  BY <1>0, <1>1, <1>2 DEF WorkerInv
<1>6. EntryInv'
  BY <1>0, <1>1, <1>2, <1>3, EntryKept DEF Pending
<1>7. OwedInv'
  <2>1. ASSUME NEW k \in 1..Len(Content'), Content'[k] \in Due'
        PROVE  stage' = "check" /\ k <= MaxBatch
    <3>1. k \in 1..Len(Content) /\ Content[k] \in Due
      BY <1>1, <1>2, <2>1
    <3>2. /\ ~(stage = "last" /\ pc[Worker] = "failed")
          /\ stage # "last" => k <= MaxBatch
          /\ stage = "last" => k + count <= MaxBatch
      <4>1. k + count + 0 = k + count
        BY <1>0 DEF TypeOK
      <4> QED
        BY <1>0, <1>2, <3>1, <4>1 DEF OwedInv
    <3>3. ~(count >= MaxBatch /\ k + count <= MaxBatch)
      BY <1>0, <3>1, LimitAssumption DEF TypeOK
    <3> QED
      BY <1>1, <1>2, <3>2, <3>3
  <2>2. \A k \in 1..Len(Content') : Content'[k] \in Due' => \A j \in 1..k :
          sequence'[Index(dequeuePos' + j - 1)] = dequeuePos' + j
    BY <1>0, <1>1, <1>2 DEF OwedInv
  <2> QED
    BY <1>0, <1>1, <1>3, <2>1, <2>2 DEF OwedInv, Index
<1> QED
  BY <1>2, <1>3, <1>4, <1>5, <1>6, <1>7 DEF FlowInv

\* When nobody is inside enqueue, every slot in use is published.
LEMMA ShutdownInv ==
  ASSUME FlowInv, Shutdown
  PROVE  FlowInv'
<1>0. TypeOK /\ QInv /\ WorkerInv /\ OrderInv /\ EntryInv /\ OwedInv
  BY DEF FlowInv
<1>1. /\ running /\ running' = FALSE /\ UNCHANGED queueVars
      /\ owed' = (IF \A p \in Producers : pc[p] = "idle" THEN Content ELSE <<>>)
      /\ UNCHANGED <<logged, stage, count, fileVars, written, dropped>>
  BY DEF Shutdown, fileVars
<1>2. /\ QInv' /\ Content' = Content /\ InHand' = InHand
      /\ UNCHANGED <<enqueuePos, dequeuePos, sequence, data, pc, pos, item>>
  BY <1>0, <1>1, QueueSame
<1>3. written' = written /\ Hand' = Hand /\ InLog' = InLog /\ OrderInv'
  BY <1>0, <1>1, <1>2, LogSame
<1>4. /\ Content \in Seq(Values \cup {None}) /\ Len(Content) \in Nat
      /\ \A k \in 1..Len(Content) : Content[k] \in InLog
  <2>1. Content \in Seq(Values \cup {None}) /\ Len(Content) \in Nat
    BY <1>0, ContentType, ContentFacts
  <2>2. \A k \in 1..Len(Content) : Content[k] \in Range(Content)
    BY <2>1, RangeIs
  <2> QED
    BY <2>1, <2>2 DEF InLog, Members
<1>4a. \A x \in Due' : /\ \A p \in Producers : pc[p] = "idle"
                       /\ \E i \in 1..Len(Content) : i <= MaxBatch /\ x = Content[i]
  <2>1. CASE \A p \in Producers : pc[p] = "idle"
    BY <1>1, <2>1 DEF Due
  <2>2. CASE ~(\A p \in Producers : pc[p] = "idle")
    <3>1. owed' = <<>> /\ Len(<<>>) = 0
      BY <1>1, <2>2
    <3>2. Due' = {}
      BY <3>1 DEF Due
    <3> QED
      BY <3>2
  <2> QED
    BY <2>1, <2>2
<1>4b. Due' \subseteq InLog'
  BY <1>3, <1>4, <1>4a
<1>5. TypeOK'
  <2>1. \A k \in 1..Len(Content) : Content[k] \in Values
    BY <1>0, <1>4 DEF EntryInv
  <2>2. Content \in Seq(Values)
    <3>1. Content = [k \in 1..Len(Content) |-> Content[k]]
      BY <1>4, SeqIsFun
    <3> QED
      BY <1>4, <2>1, <3>1, Seqs!IsASeq
  <2>3. owed' \in Seq(Values)
    BY <1>1, <2>2
  <2> QED
    BY <1>0, <1>1, <1>2, <2>3 DEF TypeOK, QInv, fileVars
<1>6. WorkerInv'
  BY <1>0, <1>1, <1>2 DEF WorkerInv
<1>7. EntryInv'
  BY <1>0, <1>1, <1>2, <1>3, EntryKept DEF Pending
<1>8. stage' \in {"check", "process"}
  BY <1>0, <1>1 DEF WorkerInv
<1>9. ASSUME NEW k \in 1..Len(Content'), Content'[k] \in Due'
      PROVE  /\ k <= MaxBatch
             /\ \A j \in 1..k : sequence'[Index(dequeuePos' + j - 1)] = dequeuePos' + j
  <2>1. \A p \in Producers : pc[p] = "idle"
    BY <1>9, <1>4a
  <2>2. PICK i \in 1..Len(Content) : i <= MaxBatch /\ Content[k] = Content[i]
    BY <1>2, <1>9, <1>4a
  <2>3. k <= MaxBatch
    <3>1. ~(i < k) /\ k \in 1..Len(Content)
      BY <1>0, <1>2, <1>4, <2>2 DEF OrderInv, Ordered, Before
    <3>2. ~(k < i)
      BY <1>0, <1>2, <1>4, <2>2, <3>1 DEF OrderInv, Ordered, Before
    <3> QED
      BY <2>2, <3>1, <3>2
  <2>4. ASSUME NEW j \in 1..k PROVE sequence[Index(dequeuePos + j - 1)] = dequeuePos + j
    <3>1. /\ dequeuePos + j - 1 \in Nat /\ Inside(dequeuePos + j - 1)
          /\ dequeuePos + j - 1 + 1 = dequeuePos + j
      BY <1>0, <1>2, QueuedInside
    <3>2. \A p \in Producers : ~Holding(p)
      BY <2>1 DEF Holding
    <3>3. sequence[Index(dequeuePos + j - 1)] = dequeuePos + j - 1 + 1
      BY <1>0, <3>1, <3>2 DEF QInv, SlotInv
    <3> QED
      BY <3>1, <3>3
  <2> QED
    BY <1>2, <2>3, <2>4
<1>10. OwedInv'
  BY <1>1, <1>4b, <1>8, <1>9 DEF OwedInv, Index
<1> QED
  BY <1>2, <1>3, <1>5, <1>6, <1>7, <1>10 DEF FlowInv

----------------------------------------------------------------------------
(* The theorems *)

LEMMA LoggerStart ==
  ASSUME Init
  PROVE  IndInv
<1>1. QInv /\ Content = <<>> /\ InHand = [c \in Consumers |-> None]
  BY QueueStart DEF Init
<1>2. TypeOK
  BY <1>1, EntryAssumption, LimitAssumption DEF Init, TypeOK, QInv
<1>3. \A t \in Threads : pc[t] = "idle"
  BY DEF Init, QueueInit
<1>4. Hand = None /\ written = <<>>
  BY <1>1, WorkerFacts DEF Hand, Init
<1>5. WorkerInv
  BY <1>3, WorkerFacts DEF WorkerInv, Init
<1>6. Len(<<>>) = 0 /\ Range(<<>>) = {}
  BY DEF Range
<1>7. OrderInv /\ InLog = {}
  BY <1>1, <1>4, <1>6 DEF OrderInv, Ordered, InLog, Members
<1>8. EntryInv
  BY <1>3, <1>7, WorkerFacts DEF EntryInv, Init
<1>9. OwedInv
  <2>1. Due = {}
    BY <1>6 DEF Due, Init
  <2> QED
    BY <1>1, <1>6, <2>1 DEF OwedInv, Init
<1>10. FileInv
  <2>1. /\ logFile = <<>> /\ written = <<>> /\ unfiled = {} /\ overwritten = {}
        /\ \A n \in Names : archives[n] = <<>>
    BY DEF Init
  <2>2. Filed = {} /\ InOrder(<<>>)
    BY <1>6, <2>1 DEF Filed, InOrder
  <2> QED
    BY <1>6, <2>1, <2>2 DEF FileInv
<1> QED
  BY <1>1, <1>2, <1>5, <1>7, <1>8, <1>9, <1>10 DEF FlowInv, IndInv

LEMMA FlowStep ==
  ASSUME FlowInv, [Next]_vars
  PROVE  FlowInv'
<1>1. CASE UNCHANGED vars
  <2>0. TypeOK /\ QInv /\ WorkerInv /\ OrderInv /\ EntryInv /\ OwedInv
    BY DEF FlowInv
  <2>1. UNCHANGED queueVars /\ UNCHANGED loggerVars
        /\ UNCHANGED <<logged, running, stage, count, fileVars, written, dropped, owed, Due>>
    BY <1>1 DEF vars, loggerVars, Due, fileVars
  <2>2. /\ QInv' /\ Content' = Content /\ InHand' = InHand
        /\ UNCHANGED <<enqueuePos, dequeuePos, sequence, data, pc, pos, item>>
    BY <2>0, <2>1, QueueSame
  <2>3. written' = written /\ Hand' = Hand /\ InLog' = InLog /\ OrderInv'
    BY <2>0, <2>1, <2>2, LogSame
  <2>4. TypeOK' /\ WorkerInv'
    BY <2>0, <2>1, <2>2, TypeKept, WorkerKept
  <2>5. EntryInv'
    BY <2>0, <2>1, <2>2, <2>3, EntryKept DEF Pending
  <2>6. OwedInv'
    BY <2>0, <2>1, <2>2, <2>3, OwedKept DEF OwedInv
  <2> QED
    BY <2>2, <2>3, <2>4, <2>5, <2>6 DEF FlowInv
<1>2. CASE Next
  BY <1>1, <1>2, LogInv, LogReturnsInv, EnqueueInv, CheckRunningInv, NextEntryInv, DequeueInv,
     WriteEntryInv, BatchEndsInv, ShutdownInv
  DEF Next, WorkerStep, LogStep, Ended
<1> QED
  BY <1>1, <1>2

LEMMA LoggerStep ==
  ASSUME IndInv, [Next]_vars
  PROVE  IndInv'
<1>1. FlowInv /\ FileInv /\ FlowInv'
  BY FlowStep DEF IndInv
<1>2. CASE WriteEntry
  <2>1. /\ pc[Worker] = "done" /\ TypeOK /\ QInv /\ OrderInv
        /\ written' = Append(written, item[Worker]) /\ FileEntry(item[Worker])
    BY <1>1, <1>2 DEF WriteEntry, FlowInv
  <2>2. Hand = item[Worker] /\ Hand \in Values /\ Hand # None
    BY <2>1, HandFacts
  <2>3. \A i \in 1..Len(written) : Before(written[i], Hand)
    BY <2>1, <2>2 DEF OrderInv, Ordered
  <2>4. \A a \in Range(written) : Before(a, Hand)
    BY <2>1, <2>3, WrittenType DEF Range
  <2>5. FileInv'
    BY <1>1, <2>1, <2>2, <2>4, FileEntryInv
  <2> QED
    BY <1>1, <2>5 DEF IndInv
<1>3. CASE ~WriteEntry
  <2>1. UNCHANGED fileVars
    BY <1>3 DEF Next, vars, loggerVars, WorkerStep, LogStep, Log, LogReturns, Enqueue, CheckRunning,
       NextEntry, Dequeue, BatchEnds, Shutdown, Ended
  <2> QED
    BY <1>1, <2>1, FileKept DEF IndInv
<1> QED
  BY <1>2, <1>3

\* The inductive invariant holds of every state of the logger.
THEOREM LoggerInvariance == Spec => []IndInv
BY LoggerStart, LoggerStep, PTL DEF Spec

\* No entry is lost, doubled or overtaken between log() and the files, over any
\* number of rounds of the ring, batches and rotations, other than by a queue
\* that is full, a file that is not open and an archive that replaces another.
THEOREM LogIsSound == Spec => []LogSound
<1>1. ASSUME IndInv PROVE LogSound
  <2>0. TypeOK /\ QInv /\ WorkerInv /\ OrderInv /\ EntryInv /\ FileInv
    BY <1>1 DEF IndInv, FlowInv
  <2>1. written \in Seq(Values) /\ DOMAIN written = 1..Len(written) /\ Len(written) \in Nat
    BY <2>0, WrittenType
  <2>2. FilesInOrder
    <3>1. InOrder(written)
      BY <2>0, <2>1 DEF OrderInv, Ordered, InOrder
    <3> QED
      BY <2>0, <3>1 DEF FileInv, FilesInOrder
  <2>3. ASSUME enqueuePos = dequeuePos, \A t \in Threads : pc[t] = "idle",
               NEW p \in Producers, NEW n \in 1..logged[p]
        PROVE  <<p, n>> \in Filed \cup dropped \cup unfiled \cup overwritten
    <3>1. Hand = None /\ ~Pending(p)
      BY <2>0, <2>3, HandFacts, WorkerFacts DEF Pending
    <3>2. Len(Content) = 0
      BY <2>0, <2>3, ContentFacts DEF QInv, QueueTypeOK
    <3>3. \A e : e \notin Range(Content)
      <4>1. \A e : e \in Range(Content) <=> \E i \in 1..Len(Content) : e = Content[i]
        BY <2>0, ContentType, RangeIs
      <4> QED
        BY <3>2, <4>1
    <3>4. InLog = Range(written)
      BY <3>1, <3>3 DEF InLog, Members
    <3>5. <<p, n>> \in Range(written) \/ <<p, n>> \in dropped
      BY <2>0, <3>1, <3>4 DEF EntryInv
    <3> QED
      BY <2>0, <3>5 DEF FileInv
  <2>4. fileOpen => unfiled = {}
    BY <2>0 DEF FileInv
  <2> QED
    BY <2>0, <2>2, <2>3, <2>4 DEF LogSound, EntriesAccounted
<1> QED
  BY <1>1, LoggerInvariance, PTL

\* When the background thread has ended, as much of what shutdown() found queued
\* as one batch takes has been written.
THEOREM ShutdownIsComplete == Spec => []ShutdownFlushes
<1>1. ASSUME IndInv PROVE ShutdownFlushes
  <2>0. TypeOK /\ QInv /\ WorkerInv /\ OwedInv /\ FileInv
    BY <1>1 DEF IndInv, FlowInv
  <2>1. SUFFICES ASSUME stage = "exited", NEW k \in 1..Len(owed), k <= MaxBatch
                 PROVE  owed[k] \in Filed \cup unfiled \cup overwritten
    BY DEF ShutdownFlushes
  <2>2. Hand = None
    <3>1. pc[Worker] = "idle"
      BY <2>0, <2>1 DEF WorkerInv
    <3> QED
      BY <2>0, <3>1, HandFacts
  <2>3. owed[k] \in Due
    BY <2>1 DEF Due
  <2>4. owed[k] \notin Range(Content)
    BY <2>0, <2>1, <2>3, ContentType, RangeIs DEF OwedInv
  <2>5. owed[k] \in InLog
    BY <2>0, <2>3 DEF OwedInv
  <2>6. owed[k] \in Range(written)
    BY <2>2, <2>4, <2>5 DEF InLog, Members
  <2> QED
    BY <2>0, <2>6 DEF FileInv
<1> QED
  BY <1>1, LoggerInvariance, PTL

=============================================================================
