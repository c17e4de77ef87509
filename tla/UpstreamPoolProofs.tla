------------------------- MODULE UpstreamPoolProofs -------------------------
(***************************************************************************)
(* Proofs about UpstreamPool for every finite set of acquisitions, every   *)
(* set of buckets and all limits: the counters of a bucket and the gauges  *)
(* of the worker count what they claim to, the limits of the route hold    *)
(* across the await inside acquire(), every open connection has one owner, *)
(* and a closed pool has left nothing behind.                              *)
(***************************************************************************)
EXTENDS UpstreamPool, FiniteSetTheorems, SequenceTheorems, TLAPS

OpenStates == {"connected", "lost"}
Open(b) == {c \in Requests : bucket[c] = b /\ conn[c] \in OpenStates}
Leased == {r \in Requests : req[r] = "leased"}
Parked(c) == \E b \in Buckets : \E i \in 1..Len(idle[b]) : idle[b][i] = c

\* What a request owns, and who owns the connection it opened.
ReqOk(r) ==
  /\ req[r] = "leased" => /\ bucket[r] \in Buckets /\ lease[r] \in Requests
                          /\ bucket[lease[r]] = bucket[r]
                          /\ conn[lease[r]] \in OpenStates
  /\ req[r] # "leased" => lease[r] = None
  /\ r \in Connecting => bucket[r] \in Buckets
  /\ req[r] = "new" => socket[r] = "none"
  /\ socket[r] = "held" <=> r \in Connecting
  /\ socket[r] = "released" <=> conn[r] # "none"
  /\ conn[r] \in OpenStates => Parked(r) \/ \E s \in Requests : lease[s] = r

\* What lies in a deque is connected, there once, and leased to nobody.
IdleOk(b) ==
  /\ \A i \in 1..Len(idle[b]) :
       /\ conn[idle[b][i]] = "connected" /\ bucket[idle[b][i]] = b
       /\ \A r \in Requests : lease[r] # idle[b][i]
  /\ \A i, j \in 1..Len(idle[b]) : idle[b][i] = idle[b][j] => i = j

OwnInv ==
  /\ \A r \in Requests : ReqOk(r)
  /\ \A r, s \in Requests : lease[r] = lease[s] /\ lease[r] # None => r = s
  /\ \A b \in Buckets : IdleOk(b)

\* The counters and the limits, with the connections that exist.
LeaseCount ==
  /\ \A b \in Buckets : leasedCount[b] = Cardinality(LeasesOf(b))
  /\ poolActive = Cardinality(Leased)
ConnectCount == \A b \in Buckets : connectingCount[b] = Cardinality(ConnectsOf(b))
IdleCount ==
  /\ IsFiniteSet(IdleEntries) /\ poolIdle = Cardinality(IdleEntries)
  /\ \A b \in Buckets : Len(idle[b]) <= MaxIdle
TotalCount ==
  \A b \in Buckets : /\ totalCount[b] = leasedCount[b] + Len(idle[b])
                     /\ totalCount[b] = Cardinality(Open(b))
                     /\ totalCount[b] + connectingCount[b] <= MaxConnections

CountInv == LeaseCount /\ ConnectCount /\ IdleCount /\ TotalCount

DrainInv ==
  /\ phase # "serving" => ~accepting
  /\ DrainReachesAll
  /\ phase = "closed" => SessionsDone /\ \A b \in Buckets : idle[b] = <<>>

IndInv == TypeOK /\ OwnInv /\ CountInv /\ DrainInv

----------------------------------------------------------------------------
(* Deques and the cardinalities of their entries *)

Entries(f) == UNION {{b} \X (1..Len(f[b])) : b \in Buckets}
EntriesBut(f, b) == UNION {{c} \X (1..Len(f[c])) : c \in Buckets \ {b}}

\* The entries of one deque can be told from those of the others.
LEMMA EntriesSplit ==
  ASSUME NEW f \in [Buckets -> Seq(Requests)], NEW b \in Buckets,
         IsFiniteSet(EntriesBut(f, b))
  PROVE  /\ IsFiniteSet(Entries(f))
         /\ Cardinality(EntriesBut(f, b)) \in Nat
         /\ Cardinality(Entries(f)) = Cardinality(EntriesBut(f, b)) + Len(f[b])
<1> DEFINE n == Len(f[b])
           B == {b} \X (1..n)
<1>1. n \in Nat
  OBVIOUS
<1>2. Entries(f) = EntriesBut(f, b) \cup B
  BY DEF Entries, EntriesBut
<1>3. EntriesBut(f, b) \cap B = {}
  BY DEF EntriesBut
<1>4. IsFiniteSet(1..n) /\ Cardinality(1..n) = n
  <2>1. ASSUME NEW m \in Nat PROVE IsFiniteSet(1..m) /\ Cardinality(1..m) = m
    BY FS_Interval
  <2> QED
    BY <1>1, <2>1
<1>5. IsFiniteSet({b}) /\ Cardinality({b}) = 1
  BY FS_Singleton
<1>6. IsFiniteSet(B) /\ Cardinality(B) = Cardinality({b}) * Cardinality(1..n)
  <2>1. ASSUME NEW S, NEW T, IsFiniteSet(S), IsFiniteSet(T)
        PROVE  IsFiniteSet(S \X T) /\ Cardinality(S \X T) = Cardinality(S) * Cardinality(T)
    BY <2>1, FS_Product
  <2> QED
    BY <1>4, <1>5, <2>1
<1>7. Cardinality(B) = n
  BY <1>1, <1>4, <1>5, <1>6
<1>8. Cardinality(EntriesBut(f, b)) \in Nat
  BY FS_CardinalityType
<1> HIDE DEF B, n
<1>9. /\ IsFiniteSet(Entries(f))
      /\ Cardinality(Entries(f)) = Cardinality(EntriesBut(f, b)) + Cardinality(B)
                                     - Cardinality(EntriesBut(f, b) \cap B)
  BY <1>2, <1>6, FS_Union
<1>10. Cardinality(EntriesBut(f, b) \cap B) = 0
  BY <1>3, FS_EmptySet
<1> QED
  BY <1>1, <1>7, <1>8, <1>9, <1>10 DEF n

\* A deque that changes takes as many entries away, or adds them, as its length
\* changes.
LEMMA EntriesChange ==
  ASSUME NEW f \in [Buckets -> Seq(Requests)], NEW g \in [Buckets -> Seq(Requests)],
         NEW b \in Buckets, IsFiniteSet(Entries(f)),
         \A c \in Buckets \ {b} : g[c] = f[c]
  PROVE  /\ IsFiniteSet(Entries(g))
         /\ Cardinality(Entries(f)) \in Nat /\ Cardinality(Entries(g)) \in Nat
         /\ Cardinality(Entries(g)) = Cardinality(Entries(f)) - Len(f[b]) + Len(g[b])
         /\ Cardinality(Entries(f)) >= Len(f[b])
<1>0. Len(f[b]) \in Nat /\ Len(g[b]) \in Nat
  OBVIOUS
<1>1. EntriesBut(f, b) \subseteq Entries(f)
  BY DEF Entries, EntriesBut
<1>2. IsFiniteSet(EntriesBut(f, b))
  BY <1>1, FS_Subset
<1>3. EntriesBut(g, b) = EntriesBut(f, b)
  BY DEF EntriesBut
<1>4. /\ Cardinality(EntriesBut(f, b)) \in Nat
      /\ Cardinality(Entries(f)) = Cardinality(EntriesBut(f, b)) + Len(f[b])
  BY <1>2, EntriesSplit
<1>5. /\ IsFiniteSet(Entries(g))
      /\ Cardinality(Entries(g)) = Cardinality(EntriesBut(f, b)) + Len(g[b])
  <2>1. IsFiniteSet(EntriesBut(g, b))
    BY <1>2, <1>3
  <2>2. /\ IsFiniteSet(Entries(g))
        /\ Cardinality(Entries(g)) = Cardinality(EntriesBut(g, b)) + Len(g[b])
    BY <2>1, EntriesSplit
  <2> QED
    BY <1>3, <2>2
<1> QED
  BY <1>0, <1>4, <1>5

\* The first entries of a deque in which every connection is there once.
LEMMA PrefixSize ==
  ASSUME NEW s \in Seq(Requests), NEW n \in 0..Len(s),
         \A i, j \in 1..Len(s) : s[i] = s[j] => i = j
  PROVE  /\ IsFiniteSet({s[i] : i \in 1..n})
         /\ Cardinality({s[i] : i \in 1..n}) = n
<1> DEFINE S == {s[i] : i \in 1..n}
           f == [i \in 1..n |-> s[i]]
<1>1. n \in Nat /\ \A i \in 1..n : i \in 1..Len(s)
  OBVIOUS
<1>2. f \in Injection(1..n, S)
  BY <1>1 DEF Injection, IsInjective
<1>3. f \in Surjection(1..n, S)
  BY DEF Surjection
<1>4. ExistsBijection(1..n, S)
  BY <1>2, <1>3 DEF ExistsBijection, Bijection
<1>5. IsFiniteSet(1..n) /\ Cardinality(1..n) = n
  BY <1>1, FS_Interval
<1> QED
  BY <1>4, <1>5, FS_Bijection

\* pruneIdle of a deque of connected connections erases what expired.
LEMMA PrunedIsRest ==
  ASSUME TypeOK, OwnInv, NEW b \in Buckets, NEW n \in 0..Len(idle[b])
  PROVE  Pruned(b, n) = SubSeq(idle[b], n + 1, Len(idle[b]))
<1> DEFINE L == Len(idle[b])
<1>0. idle[b] \in Seq(Requests) /\ L \in Nat /\ n \in Nat /\ n <= L
  BY DEF TypeOK
<1>1. Kept(b, n) = (n + 1)..L
  <2>1. \A i \in (n + 1)..L : i \in 1..L
    BY <1>0
  <2>2. \A i \in 1..L : conn[idle[b][i]] = "connected"
    BY DEF OwnInv, IdleOk
  <2> QED
    BY <2>1, <2>2 DEF Kept
<1>2. Cardinality(Kept(b, n)) = L - n
  <2>1. n + 1 \in Int /\ L \in Int
    BY <1>0
  <2>2. Cardinality((n + 1)..L) = IF n + 1 > L THEN 0 ELSE L - (n + 1) + 1
    BY <2>1, FS_Interval
  <2> QED
    BY <1>0, <1>1, <2>2
<1>3. ASSUME NEW i \in (n + 1)..L
      PROVE  Cardinality(Kept(b, n) \cap (1..i)) = i - n
  <2>1. Kept(b, n) \cap (1..i) = (n + 1)..i
    BY <1>0, <1>1
  <2>2. n + 1 \in Int /\ i \in Int /\ n + 1 <= i
    BY <1>0
  <2>3. Cardinality((n + 1)..i) = IF n + 1 > i THEN 0 ELSE i - (n + 1) + 1
    BY <2>2, FS_Interval
  <2>4. Cardinality(Kept(b, n) \cap (1..i)) = Cardinality((n + 1)..i)
    BY <2>1
  <2> QED
    BY <1>0, <2>2, <2>3, <2>4
<1>4. ASSUME NEW k \in 1..(L - n)
      PROVE  (CHOOSE i \in Kept(b, n) : Cardinality(Kept(b, n) \cap (1..i)) = k) = n + k
  <2>1. n + k \in (n + 1)..L /\ (n + k) - n = k
    BY <1>0
  <2>2. Cardinality(Kept(b, n) \cap (1..(n + k))) = k
    BY <1>3, <2>1
  <2>3. \A i \in Kept(b, n) : Cardinality(Kept(b, n) \cap (1..i)) = k => i = n + k
    <3>1. ASSUME NEW i \in (n + 1)..L, Cardinality(Kept(b, n) \cap (1..i)) = k
          PROVE  i = n + k
      <4>1. i - n = k
        BY <1>3, <3>1
      <4> QED
        BY <1>0, <4>1
    <3> QED
      BY <1>1, <3>1
  <2> QED
    BY <1>1, <2>1, <2>2, <2>3
<1>5. Pruned(b, n) = [k \in 1..(L - n) |-> idle[b][n + k]]
  <2> DEFINE F(k) == CHOOSE i \in Kept(b, n) : Cardinality(Kept(b, n) \cap (1..i)) = k
  <2>1. Pruned(b, n) = [k \in 1..Cardinality(Kept(b, n)) |-> idle[b][F(k)]]
    BY DEF Pruned
  <2>2. \A k \in 1..(L - n) : F(k) = n + k
    BY <1>4
  <2> HIDE DEF F
  <2> QED
    BY <1>2, <2>1, <2>2
<1>6. SubSeq(idle[b], n + 1, L) = [k \in 1..(L - n) |-> idle[b][n + k]]
  <2> DEFINE s == SubSeq(idle[b], n + 1, L)
  <2>1. /\ s \in Seq(Requests) /\ Len(s) = L - n
        /\ \A k \in 1..(L - n) : s[k] = idle[b][n + k]
    BY <1>0
  <2>2. s \in [1..Len(s) -> Requests]
    BY <2>1, LenProperties
  <2> HIDE DEF s
  <2>3. s = [k \in 1..(L - n) |-> idle[b][n + k]]
    BY <2>1, <2>2
  <2> QED
    BY <2>3 DEF s
<1> QED
  BY <1>5, <1>6

----------------------------------------------------------------------------
(* The counters *)

\* Sets of requests are finite, with one member more or less as they change.
LEMMA RequestSets ==
  ASSUME NEW S, S \subseteq Requests
  PROVE  /\ IsFiniteSet(S) /\ Cardinality(S) \in Nat
         /\ \A r : r \notin S => Cardinality(S \cup {r}) = Cardinality(S) + 1
         /\ \A r : r \in S => /\ Cardinality(S \ {r}) = Cardinality(S) - 1
                              /\ Cardinality(S) >= 1
<1>1. IsFiniteSet(S)
  BY RequestsAssumption, FS_Subset
<1>2. Cardinality(S) \in Nat
  BY <1>1, FS_CardinalityType
<1>3. ASSUME NEW r, r \notin S PROVE Cardinality(S \cup {r}) = Cardinality(S) + 1
  BY <1>1, <1>3, FS_AddElement
<1>4. ASSUME NEW r, r \in S PROVE Cardinality(S \ {r}) = Cardinality(S) - 1
  BY <1>1, <1>4, FS_RemoveElement
<1>5. ASSUME NEW r, r \in S PROVE Cardinality(S) >= 1
  BY <1>1, <1>2, <1>5, FS_EmptySet
<1> QED
  BY <1>1, <1>2, <1>3, <1>4, <1>5

\* No lease is handed out or given back.
LEMMA LeaseSame ==
  ASSUME LeaseCount, UNCHANGED <<leasedCount, poolActive>>,
         \A p \in Requests : /\ req'[p] = "leased" <=> req[p] = "leased"
                             /\ req[p] = "leased" => bucket'[p] = bucket[p]
  PROVE  LeaseCount'
<1>1. \A b \in Buckets : LeasesOf(b)' = LeasesOf(b)
  BY DEF LeasesOf
<1>2. Leased' = Leased
  BY DEF Leased
<1> QED
  BY <1>1, <1>2 DEF LeaseCount

\* A lease is handed out: leasedCount and the gauge go up with it.
LEMMA LeaseJoin ==
  ASSUME TypeOK, LeaseCount, NEW r \in Requests, NEW b \in Buckets,
         req[r] # "leased", req'[r] = "leased", bucket'[r] = b,
         \A p \in Requests \ {r} : req'[p] = req[p] /\ bucket'[p] = bucket[p],
         leasedCount' = [leasedCount EXCEPT ![b] = @ + 1], poolActive' = poolActive + 1
  PROVE  LeaseCount'
<1>1. LeasesOf(b)' = LeasesOf(b) \cup {r} /\ r \notin LeasesOf(b)
      /\ LeasesOf(b) \subseteq Requests
  BY DEF LeasesOf
<1>2. Leased' = Leased \cup {r} /\ r \notin Leased /\ Leased \subseteq Requests
  BY DEF Leased
<1>3. \A c \in Buckets \ {b} : LeasesOf(c)' = LeasesOf(c)
  BY DEF LeasesOf
<1>4. leasedCount'[b] = leasedCount[b] + 1
      /\ \A c \in Buckets \ {b} : leasedCount'[c] = leasedCount[c]
  BY DEF TypeOK
<1>5. Cardinality(LeasesOf(b)') = Cardinality(LeasesOf(b)) + 1
  BY <1>1, RequestSets
<1>6. Cardinality(Leased') = Cardinality(Leased) + 1
  BY <1>2, RequestSets
<1> QED
  BY <1>3, <1>4, <1>5, <1>6 DEF LeaseCount

\* A lease is given back: both go down with it, and were not zero.
LEMMA LeaseLeave ==
  ASSUME TypeOK, LeaseCount, NEW r \in Requests, bucket[r] \in Buckets,
         req[r] = "leased", req'[r] # "leased",
         \A p \in Requests \ {r} : req'[p] = req[p], UNCHANGED bucket,
         leasedCount' = [leasedCount EXCEPT ![bucket[r]] = @ - 1],
         poolActive' = poolActive - 1
  PROVE  LeaseCount' /\ leasedCount[bucket[r]] >= 1 /\ poolActive >= 1
<1> DEFINE b == bucket[r]
<1>1. {p \in Requests : req'[p] = "leased" /\ bucket[p] = b} = LeasesOf(b) \ {r}
      /\ r \in LeasesOf(b) /\ LeasesOf(b) \subseteq Requests
  BY DEF LeasesOf
<1>2. Leased' = Leased \ {r} /\ r \in Leased /\ Leased \subseteq Requests
  BY DEF Leased
<1>3. \A c \in Buckets \ {b} :
        {p \in Requests : req'[p] = "leased" /\ bucket[p] = c} = LeasesOf(c)
  BY DEF LeasesOf
<1>4. leasedCount'[b] = leasedCount[b] - 1
      /\ \A c \in Buckets \ {b} : leasedCount'[c] = leasedCount[c]
  BY DEF TypeOK
<1>5. /\ Cardinality({p \in Requests : req'[p] = "leased" /\ bucket[p] = b})
            = Cardinality(LeasesOf(b)) - 1
      /\ Cardinality(LeasesOf(b)) >= 1
  BY <1>1, RequestSets
<1>6. Cardinality(Leased') = Cardinality(Leased) - 1 /\ Cardinality(Leased) >= 1
  BY <1>2, RequestSets
<1>7. \A c \in Buckets :
        LeasesOf(c)' = {p \in Requests : req'[p] = "leased" /\ bucket[p] = c}
  BY DEF LeasesOf
<1>8. leasedCount[b] = Cardinality(LeasesOf(b)) /\ poolActive = Cardinality(Leased)
  BY DEF LeaseCount
<1>9. \A c \in Buckets : leasedCount'[c] = Cardinality(LeasesOf(c)')
  BY <1>3, <1>4, <1>5, <1>7, <1>8, SMTT(30) DEF LeaseCount
<1> QED
  BY <1>5, <1>6, <1>8, <1>9 DEF LeaseCount

\* No connect is started or ends.
LEMMA ConnectSame ==
  ASSUME ConnectCount, UNCHANGED connectingCount,
         \A p \in Requests : /\ p \in Connecting' <=> p \in Connecting
                             /\ p \in Connecting => bucket'[p] = bucket[p]
  PROVE  ConnectCount'
<1>1. \A b \in Buckets : ConnectsOf(b)' = ConnectsOf(b)
  BY DEF ConnectsOf, Connecting
<1> QED
  BY <1>1 DEF ConnectCount

\* A connect is started.
LEMMA ConnectJoin ==
  ASSUME TypeOK, ConnectCount, NEW r \in Requests, NEW b \in Buckets,
         r \notin Connecting, r \in Connecting', bucket'[r] = b,
         \A p \in Requests \ {r} : req'[p] = req[p] /\ bucket'[p] = bucket[p],
         connectingCount' = [connectingCount EXCEPT ![b] = @ + 1]
  PROVE  ConnectCount'
<1>1. ConnectsOf(b)' = ConnectsOf(b) \cup {r} /\ r \notin ConnectsOf(b)
      /\ ConnectsOf(b) \subseteq Requests
  BY DEF ConnectsOf, Connecting
<1>2. \A c \in Buckets \ {b} : ConnectsOf(c)' = ConnectsOf(c)
  BY DEF ConnectsOf, Connecting
<1>3. connectingCount'[b] = connectingCount[b] + 1
      /\ \A c \in Buckets \ {b} : connectingCount'[c] = connectingCount[c]
  BY DEF TypeOK
<1>4. Cardinality(ConnectsOf(b)') = Cardinality(ConnectsOf(b)) + 1
  BY <1>1, RequestSets
<1> QED
  BY <1>2, <1>3, <1>4 DEF ConnectCount

\* A connect ends: its reservation was counted.
LEMMA ConnectLeave ==
  ASSUME TypeOK, ConnectCount, NEW r \in Requests, bucket[r] \in Buckets,
         r \in Connecting, r \notin Connecting',
         \A p \in Requests \ {r} : req'[p] = req[p], UNCHANGED bucket,
         connectingCount' = [connectingCount EXCEPT ![bucket[r]] = @ - 1]
  PROVE  ConnectCount' /\ connectingCount[bucket[r]] >= 1
<1> DEFINE b == bucket[r]
           After(c) == {p \in Requests : req'[p] \in {"queued", "connecting"}
                                         /\ bucket[p] = c}
<1>1. After(b) = ConnectsOf(b) \ {r} /\ r \in ConnectsOf(b)
      /\ ConnectsOf(b) \subseteq Requests
  BY DEF ConnectsOf, Connecting
<1>2. \A c \in Buckets \ {b} : After(c) = ConnectsOf(c)
  BY DEF ConnectsOf, Connecting
<1>3. connectingCount'[b] = connectingCount[b] - 1
      /\ \A c \in Buckets \ {b} : connectingCount'[c] = connectingCount[c]
  BY DEF TypeOK
<1>4. \A c \in Buckets : ConnectsOf(c)' = After(c)
  BY DEF ConnectsOf, Connecting
<1> HIDE DEF After
<1>5. Cardinality(After(b)) = Cardinality(ConnectsOf(b)) - 1
      /\ Cardinality(ConnectsOf(b)) >= 1
  BY <1>1, RequestSets
<1>6. connectingCount[b] = Cardinality(ConnectsOf(b))
  BY DEF ConnectCount
<1>7. \A c \in Buckets : connectingCount'[c] = Cardinality(ConnectsOf(c)')
  BY <1>2, <1>3, <1>4, <1>5, <1>6 DEF ConnectCount
<1> QED
  BY <1>5, <1>6, <1>7 DEF ConnectCount

\* One deque changes, and the idle gauge with it.
LEMMA IdleChange ==
  ASSUME TypeOK, idle' \in [Buckets -> Seq(Requests)], IdleCount, NEW b \in Buckets,
         \A c \in Buckets \ {b} : idle'[c] = idle[c], Len(idle'[b]) <= MaxIdle,
         poolIdle' = poolIdle - Len(idle[b]) + Len(idle'[b])
  PROVE  IdleCount' /\ poolIdle' \in Nat
<1>1. idle \in [Buckets -> Seq(Requests)]
  BY DEF TypeOK
<1>2. IdleEntries = Entries(idle) /\ IdleEntries' = Entries(idle')
  BY DEF IdleEntries, Entries
<1>3. /\ IsFiniteSet(Entries(idle'))
      /\ Cardinality(Entries(idle')) \in Nat
      /\ Cardinality(Entries(idle')) = Cardinality(Entries(idle)) - Len(idle[b]) + Len(idle'[b])
  BY <1>1, <1>2, EntriesChange DEF IdleCount
<1> QED
  BY <1>2, <1>3 DEF IdleCount

----------------------------------------------------------------------------
(* Pruning *)

\* What the beginning of a deque is to the pool.
LEMMA PrefixFacts ==
  ASSUME TypeOK, OwnInv, NEW b \in Buckets, NEW n \in 0..Len(idle[b]),
         NEW E, \A c : c \in E <=> \E i \in 1..n : c = idle[b][i]
  PROVE  /\ E \subseteq Open(b) /\ Cardinality(E) = n
         /\ \A c \in Buckets \ {b} : E \cap Open(c) = {}
         /\ \A p \in Requests : lease[p] \notin E
         /\ \A c \in Buckets \ {b} : \A i \in 1..Len(idle[c]) : idle[c][i] \notin E
         /\ \A i \in n + 1..Len(idle[b]) : idle[b][i] \notin E
<1>1. idle[b] \in Seq(Requests) /\ Len(idle[b]) \in Nat /\ n \in Nat
  BY DEF TypeOK
<1>2. \A i \in 1..n : i \in 1..Len(idle[b]) /\ idle[b][i] \in Requests
  BY <1>1
<1>3. IdleOk(b)
  BY DEF OwnInv
<1>4. \A c \in E : conn[c] = "connected" /\ bucket[c] = b /\ c \in Requests
  BY <1>2, <1>3 DEF IdleOk
<1>5. Cardinality(E) = n
  <2>1. E = {idle[b][i] : i \in 1..n}
    OBVIOUS
  <2> QED
    BY <1>1, <1>3, <2>1, PrefixSize DEF IdleOk
<1>6. \A p \in Requests : lease[p] \notin E
  BY <1>2, <1>3 DEF IdleOk
<1>7. \A c \in Buckets \ {b} : \A i \in 1..Len(idle[c]) : idle[c][i] \notin E
  BY <1>4 DEF OwnInv, IdleOk
<1>8. \A i \in n + 1..Len(idle[b]) : idle[b][i] \notin E
  <2>1. \A i \in n + 1..Len(idle[b]) : i \in 1..Len(idle[b]) /\ \A j \in 1..n : i # j
    BY <1>1
  <2> QED
    BY <1>2, <1>3, <2>1 DEF IdleOk
<1> QED
  BY <1>4, <1>5, <1>6, <1>7, <1>8 DEF Open, OpenStates

\* Closing them leaves that many open connections fewer.
LEMMA EraseOpen ==
  ASSUME TypeOK, OwnInv, NEW b \in Buckets, NEW n \in 0..Len(idle[b]),
         NEW E, \A c : c \in E <=> \E i \in 1..n : c = idle[b][i], conn' = Destroy(E),
         \A p \in Requests : bucket'[p] = bucket[p] \/ conn[p] = "none"
  PROVE  /\ Cardinality(Open(b)') = Cardinality(Open(b)) - n
         /\ Cardinality(Open(b)) \in Nat /\ Cardinality(Open(b)') \in Nat
         /\ \A c \in Buckets \ {b} : Cardinality(Open(c)') = Cardinality(Open(c))
<1>1. /\ E \subseteq Open(b) /\ Cardinality(E) = n
      /\ \A c \in Buckets \ {b} : E \cap Open(c) = {}
  BY PrefixFacts, Zenon
<1>2. \A p \in Requests : conn'[p] = IF p \in E THEN "destroyed" ELSE conn[p]
  BY DEF Destroy
<1>3. Open(b)' = Open(b) \ E
  <2>1. \A p \in Requests : conn'[p] \in OpenStates => bucket'[p] = bucket[p]
    BY <1>2 DEF OpenStates
  <2>2. \A p \in Requests : conn[p] \in OpenStates => bucket'[p] = bucket[p]
    BY DEF OpenStates
  <2> QED
    BY <1>2, <2>1, <2>2 DEF Open, OpenStates
<1>4. \A c \in Buckets \ {b} : Open(c)' = Open(c)
  <2>1. \A p \in Requests : conn'[p] \in OpenStates => bucket'[p] = bucket[p]
    BY <1>2 DEF OpenStates
  <2>2. \A p \in Requests : conn[p] \in OpenStates => bucket'[p] = bucket[p]
    BY DEF OpenStates
  <2> QED
    BY <1>1, <1>2, <2>1, <2>2 DEF Open, OpenStates
<1>5. IsFiniteSet(Open(b)) /\ Cardinality(Open(b)) \in Nat
  BY RequestSets DEF Open
<1>6. Cardinality(Open(b) \ E) = Cardinality(Open(b)) - Cardinality(Open(b) \cap E)
      /\ IsFiniteSet(Open(b) \ E)
  BY <1>5, FS_Difference
<1>7. Open(b) \cap E = E
  BY <1>1
<1>8. Cardinality(Open(b)') \in Nat
  BY <1>3, <1>6, FS_CardinalityType
<1> QED
  BY <1>1, <1>3, <1>4, <1>5, <1>6, <1>7, <1>8

\* acquire before it has touched the pool for this request.
LEMMA NewFacts ==
  ASSUME OwnInv, NEW r \in Requests, req[r] = "new"
  PROVE  /\ conn[r] = "none" /\ socket[r] = "none" /\ lease[r] = None
         /\ r \notin Connecting
         /\ \A b \in Buckets : \A i \in 1..Len(idle[b]) : idle[b][i] # r
         /\ \A p \in Requests : lease[p] # r
<1>1. conn[r] = "none" /\ socket[r] = "none" /\ lease[r] = None /\ r \notin Connecting
  BY DEF OwnInv, ReqOk, Connecting
<1>2. \A b \in Buckets : \A i \in 1..Len(idle[b]) : idle[b][i] # r
  BY <1>1 DEF OwnInv, IdleOk
<1>3. \A p \in Requests : lease[p] # r
  BY <1>1, RequestsAssumption DEF OwnInv, ReqOk, OpenStates, None
<1> QED
  BY <1>1, <1>2, <1>3

\* A request for which the deque was emptied, whatever comes of it.
LEMMA PruneAllOwn ==
  ASSUME TypeOK, OwnInv, NEW r \in Requests, NEW b \in Buckets, req[r] = "new",
         PruneAll(b), UNCHANGED lease,
         \A p \in Requests \ {r} : /\ req'[p] = req[p] /\ socket'[p] = socket[p]
                                   /\ bucket'[p] = bucket[p],
         \/ req'[r] = "done" /\ socket'[r] \in {"none", "closed"}
         \/ req'[r] \in {"queued", "connecting"} /\ socket'[r] = "held" /\ bucket'[r] = b
  PROVE  OwnInv'
<1> DEFINE L == Len(idle[b])
           E == {idle[b][i] : i \in 1..L}
<1>type. /\ idle \in [Buckets -> Seq(Requests)] /\ idle[b] \in Seq(Requests) /\ L \in Nat
  BY DEF TypeOK
<1>0. Range(idle[b]) = E
  <2>1. DOMAIN idle[b] = 1..L
    BY <1>type
  <2> QED
    BY <2>1 DEF Range
<1>1. /\ idle'[b] = <<>> /\ \A c \in Buckets \ {b} : idle'[c] = idle[c]
  BY <1>type DEF PruneAll
<1>2. \A p \in Requests : conn'[p] = IF p \in E THEN "destroyed" ELSE conn[p]
  BY <1>0 DEF PruneAll, Destroy
<1>3. /\ \A p \in Requests : lease[p] \notin E
      /\ \A c \in Buckets \ {b} : \A i \in 1..Len(idle[c]) : idle[c][i] \notin E
      /\ \A p \in E : conn[p] = "connected"
  <2>1. L \in 0..L
    BY <1>type
  <2> QED
    BY <2>1, PrefixFacts DEF OwnInv, IdleOk
<1>new. /\ conn[r] = "none" /\ socket[r] = "none" /\ lease[r] = None
        /\ r \notin Connecting /\ \A p \in Requests : lease[p] # r
        /\ \A c \in Buckets : \A i \in 1..Len(idle[c]) : idle[c][i] # r
  BY NewFacts
<1>4. \A c \in Buckets : IdleOk(c)'
  <2> SUFFICES ASSUME NEW c \in Buckets PROVE IdleOk(c)'
    OBVIOUS
  <2>1. CASE c = b
    BY <1>1, <2>1 DEF IdleOk
  <2>2. CASE c # b
    <3>1. IdleOk(c) /\ idle'[c] = idle[c]
      BY <1>1, <2>2 DEF OwnInv
    <3>2. \A i \in 1..Len(idle[c]) : idle[c][i] \in Requests
      BY <1>type
    <3>3. \A i \in 1..Len(idle[c]) :
            conn'[idle[c][i]] = conn[idle[c][i]] /\ bucket'[idle[c][i]] = bucket[idle[c][i]]
      BY <1>2, <1>3, <1>new, <2>2, <3>2
    <3> QED
      BY <3>1, <3>3 DEF IdleOk
  <2> QED
    BY <2>1, <2>2
<1>5. ASSUME NEW p \in Requests PROVE ReqOk(p)'
  <2>0. ReqOk(p)
    BY DEF OwnInv
  <2>1. conn'[p] \in OpenStates => conn[p] \in OpenStates /\ p \notin E /\ p # r
    BY <1>2, <1>new DEF OpenStates
  <2>2. p \notin E /\ Parked(p) => Parked(p)'
    <3>1. ASSUME NEW c \in Buckets, NEW i \in 1..Len(idle[c]), idle[c][i] = p, p \notin E
          PROVE  Parked(p)'
      <4>1. c # b
        BY <3>1
      <4>2. i \in 1..Len(idle'[c]) /\ idle'[c][i] = p
        BY <1>1, <3>1, <4>1
      <4> QED
        BY <4>2 DEF Parked
    <3> QED
      BY <3>1 DEF Parked
  <2>3. conn'[p] \in OpenStates => Parked(p)' \/ \E q \in Requests : lease'[q] = p
    BY <2>0, <2>1, <2>2 DEF ReqOk
  <2>4. conn'[p] # "none" <=> conn[p] # "none"
    BY <1>2, <1>3
  <2>5. CASE p = r
    BY <1>new, <2>0, <2>3, <2>4, <2>5 DEF ReqOk, Connecting
  <2>6. CASE p # r
    <3>1. req[p] = "leased" => /\ conn'[lease[p]] = conn[lease[p]]
                               /\ bucket'[lease[p]] = bucket[lease[p]]
      BY <1>2, <1>3, <1>new, <2>0 DEF ReqOk
    <3>2. p \in Connecting' <=> p \in Connecting
      BY <2>6 DEF Connecting
    <3> QED
      BY <2>0, <2>3, <2>4, <2>6, <3>1, <3>2 DEF ReqOk
  <2> QED
    BY <2>5, <2>6
<1> QED
  BY <1>4, <1>5 DEF OwnInv

----------------------------------------------------------------------------
(* One lemma per action *)

\* The drain of GatewayServer::stop when the step is not one of it.
LEMMA DrainKept ==
  ASSUME DrainInv, UNCHANGED <<phase, accepting, cancelled>>, phase # "closed",
         \A p \in Requests : p \in Connecting' => p \in Connecting \/ phase = "serving"
  PROVE  DrainInv'
<1>1. Connecting' \subseteq Requests
  BY DEF Connecting
<1> QED
  BY <1>1 DEF DrainInv, DrainReachesAll

\* No connection is opened, closed or moved.
LEMMA TotalSame ==
  ASSUME TotalCount, UNCHANGED <<bucket, idle, totalCount, leasedCount, connectingCount>>,
         \A c \in Requests : conn'[c] \in OpenStates <=> conn[c] \in OpenStates
  PROVE  TotalCount'
<1>1. \A b \in Buckets : Open(b)' = Open(b)
  BY DEF Open
<1> QED
  BY <1>1 DEF TotalCount

LEMMA IdleSame ==
  ASSUME IdleCount, UNCHANGED <<idle, poolIdle>>
  PROVE  IdleCount'
<1>1. IdleEntries' = IdleEntries
  BY DEF IdleEntries
<1> QED
  BY <1>1 DEF IdleCount

LEMMA AcquireRefusedInv ==
  ASSUME IndInv, NEW r \in Requests, AcquireRefused(r), phase # "closed"
  PROVE  IndInv'
<1> USE DEF AcquireRefused, countVars, gauges
<1>0. TypeOK /\ OwnInv /\ CountInv /\ DrainInv
  BY DEF IndInv
<1>1. TypeOK'
  BY <1>0 DEF TypeOK, ReqStates
<1>2. \A p \in Requests : /\ req'[p] = "leased" <=> req[p] = "leased"
                          /\ p \in Connecting' <=> p \in Connecting
                          /\ req'[p] = "new" => req[p] = "new"
  BY <1>0 DEF TypeOK, Connecting
<1>3. OwnInv'
  <2>1. ASSUME NEW p \in Requests PROVE ReqOk(p)'
    <3>1. ReqOk(p)
      BY <1>0 DEF OwnInv
    <3>2. Parked(p)' <=> Parked(p)
      BY DEF Parked
    <3> QED
      BY <1>2, <3>1, <3>2 DEF ReqOk
  <2>2. ASSUME NEW b \in Buckets PROVE IdleOk(b)'
    BY <1>0 DEF OwnInv, IdleOk
  <2> QED
    BY <1>0, <2>1, <2>2 DEF OwnInv
<1>4. LeaseCount'
  BY <1>0, <1>2, LeaseSame DEF CountInv
<1>5. ConnectCount'
  BY <1>0, <1>2, ConnectSame DEF CountInv
<1>6. IdleCount' /\ TotalCount'
  BY <1>0, IdleSame, TotalSame DEF CountInv
<1>7. DrainInv'
  BY <1>0, <1>2, DrainKept
<1> QED
  BY <1>1, <1>3, <1>4, <1>5, <1>6, <1>7 DEF IndInv, CountInv

LEMMA FlushConnectInv ==
  ASSUME IndInv, NEW r \in Requests, FlushConnect(r)
  PROVE  IndInv'
<1> USE DEF FlushConnect, countVars, gauges
<1>0. TypeOK /\ OwnInv /\ CountInv /\ DrainInv
  BY DEF IndInv
<1>1. TypeOK'
  BY <1>0 DEF TypeOK, ReqStates
<1>2. \A p \in Requests : /\ req'[p] = "leased" <=> req[p] = "leased"
                          /\ p \in Connecting' <=> p \in Connecting
                          /\ req'[p] = "new" => req[p] = "new"
  BY <1>0 DEF TypeOK, Connecting
<1>3. OwnInv'
  <2>1. ASSUME NEW p \in Requests PROVE ReqOk(p)'
    <3>1. ReqOk(p)
      BY <1>0 DEF OwnInv
    <3>2. Parked(p)' <=> Parked(p)
      BY DEF Parked
    <3> QED
      BY <1>2, <3>1, <3>2 DEF ReqOk
  <2>2. ASSUME NEW b \in Buckets PROVE IdleOk(b)'
    BY <1>0 DEF OwnInv, IdleOk
  <2> QED
    BY <1>0, <2>1, <2>2 DEF OwnInv
<1>4. LeaseCount'
  BY <1>0, <1>2, LeaseSame DEF CountInv
<1>5. ConnectCount'
  BY <1>0, <1>2, ConnectSame DEF CountInv
<1>6. IdleCount' /\ TotalCount'
  BY <1>0, IdleSame, TotalSame DEF CountInv
<1>7. phase # "closed"
  BY <1>0 DEF DrainInv, SessionsDone
<1>8. DrainInv'
  BY <1>0, <1>2, <1>7, DrainKept
<1> QED
  BY <1>1, <1>3, <1>4, <1>5, <1>6, <1>8 DEF IndInv, CountInv

LEMMA ConnectionLostInv ==
  ASSUME IndInv, NEW r \in Requests, ConnectionLost(r)
  PROVE  IndInv'
<1> USE DEF ConnectionLost, countVars, gauges
<1>0. TypeOK /\ OwnInv /\ CountInv /\ DrainInv
  BY DEF IndInv
<1>1. lease[r] \in Requests
  BY <1>0 DEF OwnInv, ReqOk
<1>2. TypeOK'
  BY <1>0, <1>1 DEF TypeOK, ConnStates
<1>3. \A c \in Requests : /\ conn'[c] \in OpenStates <=> conn[c] \in OpenStates
                          /\ conn'[c] # "none" <=> conn[c] # "none"
                          /\ c # lease[r] => conn'[c] = conn[c]
  BY <1>0, <1>1 DEF TypeOK, OpenStates
<1>4. OwnInv'
  <2>1. ASSUME NEW p \in Requests PROVE ReqOk(p)'
    <3>1. ReqOk(p)
      BY <1>0 DEF OwnInv
    <3>2. Parked(p)' <=> Parked(p)
      BY DEF Parked
    <3>3. p \in Connecting' <=> p \in Connecting
      BY DEF Connecting
    <3> QED
      BY <1>3, <3>1, <3>2, <3>3 DEF ReqOk
  <2>2. ASSUME NEW b \in Buckets PROVE IdleOk(b)'
    <3>1. IdleOk(b)
      BY <1>0 DEF OwnInv
    <3>2. \A i \in 1..Len(idle[b]) : idle[b][i] \in Requests /\ idle[b][i] # lease[r]
      BY <1>0, <3>1 DEF TypeOK, IdleOk
    <3> QED
      BY <1>3, <3>1, <3>2 DEF IdleOk
  <2> QED
    BY <1>0, <2>1, <2>2 DEF OwnInv
<1>5. LeaseCount' /\ ConnectCount'
  BY <1>0, LeaseSame, ConnectSame DEF CountInv, Connecting
<1>6. IdleCount' /\ TotalCount'
  BY <1>0, <1>3, IdleSame, TotalSame DEF CountInv
<1>7. phase # "closed"
  BY <1>0 DEF DrainInv, SessionsDone
<1>8. DrainInv'
  BY <1>0, <1>7, DrainKept DEF Connecting
<1> QED
  BY <1>2, <1>4, <1>5, <1>6, <1>8 DEF IndInv, CountInv

LEMMA StopAcquiringInv ==
  ASSUME IndInv, StopAcquiring
  PROVE  IndInv'
<1> USE DEF StopAcquiring, countVars, gauges
<1>0. TypeOK /\ OwnInv /\ CountInv /\ DrainInv
  BY DEF IndInv
<1>1. TypeOK'
  BY <1>0 DEF TypeOK
<1>2. OwnInv'
  BY <1>0 DEF OwnInv, ReqOk, IdleOk, Connecting, Parked
<1>3. LeaseCount' /\ ConnectCount'
  BY <1>0, LeaseSame, ConnectSame DEF CountInv, Connecting
<1>4. IdleCount' /\ TotalCount'
  BY <1>0, IdleSame, TotalSame DEF CountInv
<1>5. DrainInv'
  BY DEF DrainInv, DrainReachesAll
<1> QED
  BY <1>1, <1>2, <1>3, <1>4, <1>5 DEF IndInv, CountInv

LEMMA PoolStutter ==
  ASSUME IndInv, UNCHANGED vars
  PROVE  IndInv'
<1> USE DEF vars, countVars, gauges
<1>0. TypeOK /\ OwnInv /\ CountInv /\ DrainInv
  BY DEF IndInv
<1>1. TypeOK'
  BY <1>0 DEF TypeOK
<1>2. OwnInv'
  BY <1>0 DEF OwnInv, ReqOk, IdleOk, Connecting, Parked
<1>3. LeaseCount' /\ ConnectCount'
  BY <1>0, LeaseSame, ConnectSame DEF CountInv, Connecting
<1>4. IdleCount' /\ TotalCount'
  BY <1>0, IdleSame, TotalSame DEF CountInv
<1>5. DrainInv'
  BY <1>0 DEF DrainInv, DrainReachesAll, Connecting, SessionsDone
<1> QED
  BY <1>1, <1>2, <1>3, <1>4, <1>5 DEF IndInv, CountInv

\* The deque AcquireIdle leaves behind, and what it takes from it.
LEMMA IdleTaken ==
  ASSUME TypeOK, OwnInv, NEW b \in Buckets, NEW n \in 0..Len(idle[b]),
         Pruned(b, n) # <<>>
  PROVE  /\ n + 1 \in 1..Len(idle[b])
         /\ Len(Pruned(b, n)) = Len(idle[b]) - n
         /\ Head(Pruned(b, n)) = idle[b][n + 1]
         /\ Tail(Pruned(b, n)) \in Seq(Requests)
         /\ Len(Tail(Pruned(b, n))) = Len(idle[b]) - n - 1
         /\ \A k \in 1..(Len(idle[b]) - n - 1) :
              Tail(Pruned(b, n))[k] = idle[b][n + 1 + k]
         /\ Erased(b, n) = {idle[b][i] : i \in 1..n}
<1> DEFINE s == idle[b]
           L == Len(s)
           P == SubSeq(s, n + 1, L)
<1>0. s \in Seq(Requests) /\ L \in Nat /\ n \in Nat /\ n <= L
  BY DEF TypeOK
<1>1. Pruned(b, n) = P
  BY PrunedIsRest
<1>2. P \in Seq(Requests) /\ Len(P) = L - n /\ \A k \in 1..(L - n) : P[k] = s[n + k]
  BY <1>0
<1> HIDE DEF P
<1>3. Len(P) # 0
  BY <1>1, <1>2
<1>4. n + 1 \in 1..L /\ 1 \in 1..(L - n)
  BY <1>0, <1>2, <1>3
<1>5. Head(P) = s[n + 1]
  BY <1>2, <1>4
<1>6. /\ Tail(P) \in Seq(Requests) /\ Len(Tail(P)) = L - n - 1
      /\ \A k \in 1..(L - n - 1) : Tail(P)[k] = P[k + 1]
  BY <1>0, <1>2, <1>3
<1>7. \A k \in 1..(L - n - 1) : k + 1 \in 1..(L - n) /\ n + (k + 1) = n + 1 + k
  BY <1>0
<1>8. \A k \in 1..(L - n - 1) : Tail(P)[k] = s[n + 1 + k]
  BY <1>2, <1>6, <1>7
<1>9. Erased(b, n) = {s[i] : i \in 1..n}
  <2>1. Range(s) = {s[i] : i \in 1..L}
    BY <1>0 DEF Range
  <2>2. Range(P) = {P[k] : k \in 1..(L - n)}
    <3>1. DOMAIN P = 1..(L - n)
      BY <1>2
    <3> QED
      BY <3>1 DEF Range
  <2>3. \A i \in 1..L : i \in 1..n \/ (i - n \in 1..(L - n) /\ n + (i - n) = i)
    BY <1>0
  <2>4. \A i \in 1..n : i \in 1..L
    BY <1>0
  <2>5. \A k \in 1..(L - n), i \in 1..n : n + k \in 1..L /\ n + k # i
    BY <1>0
  <2>6. \A i, j \in 1..L : s[i] = s[j] => i = j
    BY DEF OwnInv, IdleOk
  <2>7. \A i \in 1..n : s[i] \in Range(s) \ Range(P)
    BY <1>2, <2>1, <2>2, <2>4, <2>5, <2>6
  <2>8. \A c \in Range(s) \ Range(P) : \E i \in 1..n : c = s[i]
    <3> SUFFICES ASSUME NEW i \in 1..L, s[i] \notin Range(P) PROVE i \in 1..n
      BY <2>1
    <3>1. i - n \in 1..(L - n) => P[i - n] = s[i]
      BY <1>2, <2>3
    <3> QED
      BY <2>2, <2>3, <3>1
  <2> QED
    BY <1>1, <2>7, <2>8 DEF Erased
<1> QED
  BY <1>1, <1>2, <1>4, <1>5, <1>6, <1>8, <1>9

LEMMA AcquireIdleInv ==
  ASSUME IndInv, NEW r \in Requests, NEW b \in Buckets, NEW n \in 0..Len(idle[b]),
         AcquireIdle(r, b, n), phase # "closed"
  PROVE  IndInv'
<1> DEFINE s == idle[b]
           L == Len(s)
           c0 == s[n + 1]
           E == {s[i] : i \in 1..n}
<1>0. TypeOK /\ OwnInv /\ LeaseCount /\ ConnectCount /\ IdleCount /\ TotalCount /\ DrainInv
  BY DEF IndInv, CountInv
<1>1. s \in Seq(Requests) /\ L \in Nat /\ n \in Nat
  BY <1>0 DEF TypeOK
<1>2. Pruned(b, n) # <<>>
  BY DEF AcquireIdle
<1>3. /\ n + 1 \in 1..L /\ Len(Pruned(b, n)) = L - n
      /\ Head(Pruned(b, n)) = c0
      /\ Tail(Pruned(b, n)) \in Seq(Requests) /\ Len(Tail(Pruned(b, n))) = L - n - 1
      /\ \A k \in 1..(L - n - 1) : Tail(Pruned(b, n))[k] = s[n + 1 + k]
      /\ Erased(b, n) = E
  BY <1>0, <1>2, IdleTaken
<1>4. /\ idle'[b] \in Seq(Requests) /\ Len(idle'[b]) = L - n - 1
      /\ \A k \in 1..(L - n - 1) : idle'[b][k] = s[n + 1 + k]
      /\ \A c \in Buckets \ {b} : idle'[c] = idle[c]
      /\ idle' \in [Buckets -> Seq(Requests)]
  BY <1>0, <1>3 DEF TypeOK, AcquireIdle
<1>5. conn' = Destroy(E) /\ \A p \in Requests : conn'[p] = IF p \in E THEN "destroyed" ELSE conn[p]
  BY <1>3 DEF AcquireIdle, Destroy
<1>6. /\ totalCount' = [totalCount EXCEPT ![b] = totalCount[b] - n]
      /\ poolIdle' = poolIdle - L + Len(idle'[b])
  <2>1. totalCount[b] \in Nat /\ poolIdle \in Nat
    BY <1>0 DEF TypeOK
  <2>2. totalCount[b] - L + (L - n) = totalCount[b] - n
    BY <1>1, <2>1
  <2>3. totalCount' = [totalCount EXCEPT ![b] = totalCount[b] - L + (L - n)]
    BY <1>3 DEF AcquireIdle
  <2>4. poolIdle' = poolIdle - L + (L - n) - 1
    BY <1>3 DEF AcquireIdle
  <2>5. poolIdle' = poolIdle - L + Len(idle'[b])
    BY <1>1, <1>4, <2>1, <2>4
  <2> QED
    BY <2>2, <2>3, <2>5
<1>7. /\ lease'[r] = c0 /\ bucket'[r] = b /\ req'[r] = "leased"
      /\ \A p \in Requests \ {r} : lease'[p] = lease[p] /\ bucket'[p] = bucket[p]
                                   /\ req'[p] = req[p]
      /\ req[r] = "new" /\ accepting
      /\ UNCHANGED <<cancelled, socket, connectingCount, accepting, phase>>
  BY <1>0, <1>3 DEF TypeOK, AcquireIdle
<1>8. /\ E \subseteq Open(b) /\ Cardinality(E) = n
      /\ \A p \in Requests : lease[p] \notin E
      /\ \A c \in Buckets \ {b} : \A i \in 1..Len(idle[c]) : idle[c][i] \notin E
      /\ \A i \in n + 1..L : s[i] \notin E
  <2> HIDE DEF E
  <2>1. \A c : c \in E <=> \E i \in 1..n : c = idle[b][i]
    BY DEF E
  <2>2. /\ E \subseteq Open(b) /\ Cardinality(E) = n
        /\ \A c \in Buckets \ {b} : E \cap Open(c) = {}
        /\ \A p \in Requests : lease[p] \notin E
        /\ \A c \in Buckets \ {b} : \A i \in 1..Len(idle[c]) : idle[c][i] \notin E
        /\ \A i \in n + 1..Len(idle[b]) : idle[b][i] \notin E
    <3>1. TypeOK /\ OwnInv
      BY <1>0
    <3> QED
      BY <2>1, <3>1, PrefixFacts, Zenon
  <2> QED
    BY <2>2
<1>9. /\ conn[r] = "none" /\ socket[r] = "none" /\ lease[r] = None
      /\ r \notin Connecting
      /\ \A c \in Buckets : \A i \in 1..Len(idle[c]) : idle[c][i] # r
      /\ \A p \in Requests : lease[p] # r
  BY <1>0, <1>7, NewFacts
<1>10. /\ c0 \in Requests /\ conn[c0] = "connected" /\ bucket[c0] = b
       /\ \A p \in Requests : lease[p] # c0
       /\ c0 # r /\ c0 \notin E
  <2>1. n + 1 \in n + 1..L
    BY <1>1, <1>3
  <2> QED
    BY <1>0, <1>1, <1>3, <1>8, <1>9, <2>1, SMTT(30) DEF OwnInv, IdleOk
<1>11. IdleOk(b)
  BY <1>0 DEF OwnInv
<1>12. \A k \in 1..(L - n - 1) : /\ n + 1 + k \in 1..L /\ n + 1 + k \in n + 1..L
                                 /\ n + 1 + k # n + 1
  BY <1>1
<1>13. leasedCount' = [leasedCount EXCEPT ![b] = @ + 1] /\ poolActive' = poolActive + 1
  BY DEF AcquireIdle
<1> HIDE DEF s, L, c0, E
<1>14. IdleOk(b)'
  <2>1. \A k \in 1..(L - n - 1) :
          /\ idle'[b][k] = s[n + 1 + k] /\ s[n + 1 + k] \in Requests
          /\ s[n + 1 + k] # c0 /\ s[n + 1 + k] \notin E /\ s[n + 1 + k] # r
          /\ conn[s[n + 1 + k]] = "connected" /\ bucket[s[n + 1 + k]] = b
          /\ \A p \in Requests : lease[p] # s[n + 1 + k]
    <3> SUFFICES ASSUME NEW k \in 1..(L - n - 1), NEW j, j = n + 1 + k
                 PROVE  /\ idle'[b][k] = s[j] /\ s[j] \in Requests
                        /\ s[j] # c0 /\ s[j] \notin E /\ s[j] # r
                        /\ conn[s[j]] = "connected" /\ bucket[s[j]] = b
                        /\ \A p \in Requests : lease[p] # s[j]
      OBVIOUS
    <3>1. j \in 1..L /\ j \in n + 1..L /\ j # n + 1
      BY <1>12
    <3>2. idle'[b][k] = s[j] /\ s[j] \in Requests
      BY <1>1, <1>4, <3>1 DEF L
    <3>3. s[j] # c0
      BY <1>3, <1>11, <3>1 DEF IdleOk, s, L, c0
    <3>4. s[j] \notin E /\ s[j] # r
      BY <1>8, <1>9, <3>1 DEF s, L
    <3>5. conn[s[j]] = "connected" /\ bucket[s[j]] = b /\ \A p \in Requests : lease[p] # s[j]
      BY <1>11, <3>1 DEF IdleOk, s, L
    <3> QED
      BY <3>2, <3>3, <3>4, <3>5
  <2>2. \A k, j \in 1..(L - n - 1) : s[n + 1 + k] = s[n + 1 + j] => k = j
    <3>1. \A k, j \in 1..(L - n - 1) : s[n + 1 + k] = s[n + 1 + j] => n + 1 + k = n + 1 + j
      BY <1>11, <1>12 DEF IdleOk, s, L
    <3>2. \A k, j \in 1..(L - n - 1) : n + 1 + k = n + 1 + j => k = j
      BY <1>1
    <3> QED
      BY <3>1, <3>2
  <2>3. \A k \in 1..(L - n - 1) :
          /\ conn'[idle'[b][k]] = "connected" /\ bucket'[idle'[b][k]] = b
          /\ \A p \in Requests : lease'[p] # idle'[b][k]
    <3> SUFFICES ASSUME NEW k \in 1..(L - n - 1)
                 PROVE  /\ conn'[idle'[b][k]] = "connected" /\ bucket'[idle'[b][k]] = b
                        /\ \A p \in Requests : lease'[p] # idle'[b][k]
      OBVIOUS
    <3>1. conn'[s[n + 1 + k]] = "connected" /\ bucket'[s[n + 1 + k]] = b
      BY <1>5, <1>7, <2>1
    <3>2. \A p \in Requests : lease'[p] # s[n + 1 + k]
      BY <1>7, <2>1
    <3> QED
      BY <2>1, <3>1, <3>2
  <2>4. \A k, j \in 1..(L - n - 1) : idle'[b][k] = idle'[b][j] => k = j
    BY <2>1, <2>2
  <2> QED
    BY <1>4, <2>3, <2>4 DEF IdleOk
<1>15. ASSUME NEW c \in Buckets \ {b} PROVE IdleOk(c)'
  <2>1. IdleOk(c) /\ idle'[c] = idle[c]
    BY <1>0, <1>4 DEF OwnInv
  <2>2. \A i \in 1..Len(idle[c]) :
          idle[c][i] \in Requests /\ idle[c][i] # r /\ idle[c][i] \notin E
    BY <1>0, <1>8, <1>9 DEF TypeOK
  <2>3. \A i \in 1..Len(idle[c]) : idle[c][i] # c0
    BY <1>10, <2>1 DEF IdleOk
  <2>4. \A i \in 1..Len(idle[c]) :
          /\ conn'[idle[c][i]] = conn[idle[c][i]] /\ bucket'[idle[c][i]] = bucket[idle[c][i]]
          /\ \A p \in Requests : lease'[p] # idle[c][i]
    BY <1>5, <1>7, <2>1, <2>2, <2>3 DEF IdleOk
  <2> QED
    BY <2>1, <2>4 DEF IdleOk
<1>16. ASSUME NEW p \in Requests PROVE ReqOk(p)'
  <2>0. ReqOk(p)
    BY <1>0 DEF OwnInv
  <2>1. conn'[p] # "none" <=> conn[p] # "none"
    BY <1>5, <1>8 DEF Open, OpenStates
  <2>2. Parked(p) /\ p \notin E /\ p # c0 => Parked(p)'
    <3> SUFFICES ASSUME NEW c \in Buckets, NEW i \in 1..Len(idle[c]), idle[c][i] = p,
                        p \notin E, p # c0
                 PROVE  Parked(p)'
      BY DEF Parked
    <3>1. CASE c # b
      BY <1>4, <3>1 DEF Parked
    <3>2. CASE c = b
      <4>1. i \in 1..L /\ i \notin 1..n /\ i # n + 1
        BY <3>2 DEF E, s, L, c0
      <4>2. i - (n + 1) \in 1..(L - n - 1) /\ n + 1 + (i - (n + 1)) = i
        BY <1>1, <4>1
      <4>3. idle'[b][i - (n + 1)] = p
        BY <1>4, <3>2, <4>2 DEF s
      <4> QED
        BY <1>4, <4>2, <4>3 DEF Parked
    <3> QED
      BY <3>1, <3>2
  <2>3. \A q \in Requests : lease[q] = p => lease'[q] = p
    BY <1>7, <1>9, RequestsAssumption DEF None
  <2>4. conn'[p] \in OpenStates => Parked(p)' \/ \E q \in Requests : lease'[q] = p
    <3>1. conn'[p] \in OpenStates => conn[p] \in OpenStates /\ p \notin E
      BY <1>5 DEF OpenStates
    <3>2. p = c0 => lease'[r] = p
      BY <1>7
    <3> QED
      BY <2>0, <2>2, <2>3, <3>1, <3>2 DEF ReqOk
  <2>5. CASE p = r
    <3>1. conn'[c0] = "connected" /\ bucket'[c0] = b
      BY <1>5, <1>7, <1>10
    <3>2. r \notin Connecting'
      BY <1>7 DEF Connecting
    <3> QED
      BY <1>7, <1>9, <1>10, <2>0, <2>1, <2>4, <2>5, <3>1, <3>2 DEF ReqOk, OpenStates
  <2>6. CASE p # r
    <3>1. req[p] = "leased" => /\ conn'[lease[p]] = conn[lease[p]]
                               /\ bucket'[lease[p]] = bucket[lease[p]]
      BY <1>5, <1>7, <1>8, <1>9, <2>0 DEF ReqOk
    <3>2. p \in Connecting' <=> p \in Connecting
      BY <1>7, <2>6 DEF Connecting
    <3> QED
      BY <1>7, <2>0, <2>1, <2>4, <2>6, <3>1, <3>2 DEF ReqOk
  <2> QED
    BY <2>5, <2>6
<1>17. OwnInv'
  <2>1. \A p, q \in Requests : lease'[p] = lease'[q] /\ lease'[p] # None => p = q
    BY <1>0, <1>7, <1>10 DEF OwnInv
  <2>2. \A c \in Buckets : IdleOk(c)'
    BY <1>14, <1>15
  <2> QED
    BY <1>16, <2>1, <2>2 DEF OwnInv
<1>18. LeaseCount'
  BY <1>0, <1>7, <1>13, LeaseJoin
<1>19. ConnectCount'
  BY <1>0, <1>7, <1>9, ConnectSame DEF Connecting
<1>20. IdleCount' /\ poolIdle' \in Nat
  <2>1. Len(idle'[b]) <= MaxIdle
    <3>1. L <= MaxIdle
      BY <1>0 DEF IdleCount, L, s
    <3> QED
      BY <1>1, <1>4, <3>1, LimitAssumption
  <2>2. poolIdle' = poolIdle - Len(idle[b]) + Len(idle'[b])
    BY <1>6 DEF L, s
  <2> QED
    BY <1>0, <1>4, <2>1, <2>2, IdleChange
<1>21. TotalCount' /\ totalCount'[b] \in Nat
  <2>1. /\ Cardinality(Open(b)') = Cardinality(Open(b)) - n
        /\ Cardinality(Open(b)) \in Nat /\ Cardinality(Open(b)') \in Nat
        /\ \A c \in Buckets \ {b} : Cardinality(Open(c)') = Cardinality(Open(c))
    <3>1. \A c : c \in E <=> \E i \in 1..n : c = idle[b][i]
      BY DEF E, s
    <3>2. \A p \in Requests : bucket'[p] = bucket[p] \/ conn[p] = "none"
      BY <1>7, <1>9
    <3>3. TypeOK /\ OwnInv /\ conn' = Destroy(E)
      BY <1>0, <1>5
    <3> QED
      BY <3>1, <3>2, <3>3, EraseOpen, Zenon
  <2>2. /\ totalCount'[b] = totalCount[b] - n
        /\ \A c \in Buckets \ {b} : totalCount'[c] = totalCount[c]
        /\ leasedCount'[b] = leasedCount[b] + 1
        /\ \A c \in Buckets \ {b} : leasedCount'[c] = leasedCount[c]
        /\ leasedCount[b] \in Nat /\ totalCount[b] \in Nat /\ connectingCount[b] \in Nat
    BY <1>0, <1>6, <1>13 DEF TypeOK
  <2>3. /\ totalCount[b] = leasedCount[b] + L
        /\ totalCount[b] = Cardinality(Open(b))
        /\ totalCount[b] + connectingCount[b] <= MaxConnections
    BY <1>0 DEF TotalCount, L, s
  <2>4. /\ totalCount'[b] = leasedCount'[b] + Len(idle'[b])
        /\ totalCount'[b] = Cardinality(Open(b)')
        /\ totalCount'[b] + connectingCount'[b] <= MaxConnections
    <3>1. Len(idle'[b]) = L - n - 1 /\ connectingCount'[b] = connectingCount[b]
      BY <1>4, <1>7
    <3>2. L \in Nat /\ n \in Nat /\ MaxConnections \in Nat
      BY <1>1, LimitAssumption DEF L
    <3> HIDE DEF L
    <3>3. totalCount'[b] = leasedCount'[b] + Len(idle'[b])
      <4>1. ASSUME NEW t \in Nat, NEW l \in Nat, NEW k \in Nat, t = l + k
            PROVE  t - n = (l + 1) + (k - n - 1)
        BY <3>2, <4>1
      <4>2. totalCount[b] - n = (leasedCount[b] + 1) + (L - n - 1)
        BY <2>2, <2>3, <3>2, <4>1
      <4> QED
        BY <2>2, <3>1, <4>2
    <3>4. totalCount'[b] = Cardinality(Open(b)')
      BY <2>1, <2>2, <2>3
    <3>5. totalCount'[b] + connectingCount'[b] <= MaxConnections
      <4>1. ASSUME NEW t \in Nat, NEW k \in Nat, NEW m \in Nat, t + k <= m
            PROVE  (t - n) + k <= m
        BY <3>2, <4>1
      <4>2. (totalCount[b] - n) + connectingCount[b] <= MaxConnections
        BY <2>2, <2>3, <3>2, <4>1
      <4> QED
        BY <2>2, <3>1, <4>2
    <3> QED
      BY <3>3, <3>4, <3>5
  <2>5. ASSUME NEW c \in Buckets \ {b}
        PROVE  /\ totalCount'[c] = leasedCount'[c] + Len(idle'[c])
               /\ totalCount'[c] = Cardinality(Open(c)')
               /\ totalCount'[c] + connectingCount'[c] <= MaxConnections
    <3>1. /\ totalCount[c] = leasedCount[c] + Len(idle[c])
          /\ totalCount[c] = Cardinality(Open(c))
          /\ totalCount[c] + connectingCount[c] <= MaxConnections
      BY <1>0 DEF TotalCount
    <3>2. /\ totalCount'[c] = totalCount[c] /\ leasedCount'[c] = leasedCount[c]
          /\ Cardinality(Open(c)') = Cardinality(Open(c))
      BY <2>1, <2>2
    <3>3. idle'[c] = idle[c] /\ connectingCount'[c] = connectingCount[c]
      BY <1>4, <1>7
    <3> QED
      BY <3>1, <3>2, <3>3
  <2> QED
    BY <2>1, <2>4, <2>5 DEF TotalCount
<1>22. TypeOK'
  <2>1. /\ req' \in [Requests -> ReqStates] /\ bucket' \in [Requests -> Buckets \cup {None}]
        /\ lease' \in [Requests -> Requests \cup {None}]
    BY <1>0, <1>3, <1>10 DEF AcquireIdle, TypeOK, ReqStates
  <2>2. conn' \in [Requests -> ConnStates]
    BY <1>0, <1>5 DEF TypeOK, Destroy, ConnStates
  <2>3. totalCount' \in [Buckets -> Nat]
    <3>1. \A c \in Buckets : totalCount'[c] \in Nat
      BY <1>0, <1>6, <1>21 DEF TypeOK
    <3> QED
      BY <1>0, <1>6, <3>1 DEF TypeOK
  <2>4. leasedCount' \in [Buckets -> Nat] /\ poolActive' \in Nat
    BY <1>0, <1>13 DEF TypeOK
  <2> QED
    BY <1>0, <1>4, <1>7, <1>20, <2>1, <2>2, <2>3, <2>4 DEF TypeOK
<1>23. DrainInv'
  BY <1>0, <1>7, DrainKept DEF Connecting, DrainInv
<1> QED
  BY <1>17, <1>18, <1>19, <1>20, <1>21, <1>22, <1>23 DEF IndInv, CountInv

\* pruneIdle has emptied the deque of b, for a request that had touched nothing.
LEMMA PruneAllCounts ==
  ASSUME TypeOK, OwnInv, IdleCount, TotalCount, NEW b \in Buckets, PruneAll(b),
         \A p \in Requests : bucket'[p] = bucket[p] \/ conn[p] = "none"
  PROVE  /\ idle' \in [Buckets -> Seq(Requests)] /\ conn' \in [Requests -> ConnStates]
         /\ totalCount' \in [Buckets -> Nat] /\ poolIdle' \in Nat
         /\ IdleCount'
         /\ totalCount'[b] = totalCount[b] - Len(idle[b])
         /\ idle'[b] = <<>>
         /\ \A c \in Buckets \ {b} : totalCount'[c] = totalCount[c] /\ idle'[c] = idle[c]
         /\ \A c \in Buckets : totalCount'[c] = Cardinality(Open(c)')
<1> DEFINE L == Len(idle[b])
           E == {idle[b][i] : i \in 1..L}
<1>1. idle[b] \in Seq(Requests) /\ L \in Nat /\ L \in 0..L
      /\ totalCount[b] \in Nat /\ poolIdle \in Nat
  BY DEF TypeOK
<1>2. Range(idle[b]) = E
  <2>1. DOMAIN idle[b] = 1..L
    BY <1>1
  <2> QED
    BY <2>1 DEF Range
<1>3. /\ idle' \in [Buckets -> Seq(Requests)] /\ idle'[b] = <<>>
      /\ \A c \in Buckets \ {b} : idle'[c] = idle[c]
  BY DEF PruneAll, TypeOK
<1>4. conn' = Destroy(E)
  BY <1>2 DEF PruneAll
<1>5. conn' \in [Requests -> ConnStates]
  BY <1>4 DEF TypeOK, Destroy, ConnStates
<1>6. /\ totalCount'[b] = totalCount[b] - L
      /\ \A c \in Buckets \ {b} : totalCount'[c] = totalCount[c]
  BY DEF PruneAll, TypeOK
<1>7. /\ Cardinality(Open(b)') = Cardinality(Open(b)) - L
      /\ Cardinality(Open(b)) \in Nat /\ Cardinality(Open(b)') \in Nat
      /\ \A c \in Buckets \ {b} : Cardinality(Open(c)') = Cardinality(Open(c))
  <2> HIDE DEF E
  <2>1. \A c : c \in E <=> \E i \in 1..L : c = idle[b][i]
    BY DEF E
  <2>2. L \in 0..Len(idle[b])
    BY <1>1
  <2> HIDE DEF L
  <2> QED
    BY <1>4, <2>1, <2>2, EraseOpen, Zenon
<1>8. \A c \in Buckets : totalCount'[c] = Cardinality(Open(c)')
  BY <1>6, <1>7 DEF TotalCount
<1>9. totalCount' \in [Buckets -> Nat]
  <2>1. \A c \in Buckets : totalCount'[c] \in Nat
    BY <1>6, <1>7, <1>8 DEF TypeOK
  <2>2. totalCount' = [c \in Buckets |-> totalCount'[c]]
    BY DEF PruneAll, TypeOK
  <2> QED
    BY <2>1, <2>2
<1>10. IdleCount' /\ poolIdle' \in Nat
  <2>1. Len(idle'[b]) = 0
    BY <1>3
  <2>2. poolIdle' = poolIdle - Len(idle[b]) + Len(idle'[b]) /\ Len(idle'[b]) <= MaxIdle
    BY <1>1, <2>1, LimitAssumption DEF PruneAll
  <2> QED
    BY <1>3, <2>2, IdleChange
<1> QED
  BY <1>3, <1>5, <1>6, <1>8, <1>9, <1>10

LEMMA AcquireExhaustedInv ==
  ASSUME IndInv, NEW r \in Requests, NEW b \in Buckets, AcquireExhausted(r, b),
         phase # "closed"
  PROVE  IndInv'
<1>0. TypeOK /\ OwnInv /\ LeaseCount /\ ConnectCount /\ IdleCount /\ TotalCount /\ DrainInv
  BY DEF IndInv, CountInv
<1>1. /\ req[r] = "new" /\ PruneAll(b) /\ req' = [req EXCEPT ![r] = "done"]
      /\ UNCHANGED <<bucket, lease, cancelled, socket, leasedCount, connectingCount,
                     poolActive, accepting, phase>>
  BY DEF AcquireExhausted
<1>2. /\ req'[r] = "done" /\ \A p \in Requests \ {r} : req'[p] = req[p]
      /\ req' \in [Requests -> ReqStates]
  BY <1>0, <1>1 DEF TypeOK, ReqStates
<1>3. socket'[r] = "none" /\ r \notin Connecting
  BY <1>0, <1>1, NewFacts
<1>4. OwnInv'
  BY <1>0, <1>1, <1>2, <1>3, PruneAllOwn
<1>5. /\ idle' \in [Buckets -> Seq(Requests)] /\ conn' \in [Requests -> ConnStates]
      /\ totalCount' \in [Buckets -> Nat] /\ poolIdle' \in Nat /\ IdleCount'
      /\ totalCount'[b] = totalCount[b] - Len(idle[b]) /\ idle'[b] = <<>>
      /\ \A c \in Buckets \ {b} : totalCount'[c] = totalCount[c] /\ idle'[c] = idle[c]
      /\ \A c \in Buckets : totalCount'[c] = Cardinality(Open(c)')
  BY <1>0, <1>1, PruneAllCounts
<1>6. TypeOK'
  BY <1>0, <1>1, <1>2, <1>5 DEF TypeOK
<1>7. LeaseCount' /\ ConnectCount'
  BY <1>0, <1>1, <1>2, <1>3, LeaseSame, ConnectSame DEF Connecting
<1>8. TotalCount'
  <2>1. /\ totalCount'[b] = leasedCount'[b] + Len(idle'[b])
        /\ totalCount'[b] + connectingCount'[b] <= MaxConnections
    <3>1. /\ totalCount[b] = leasedCount[b] + Len(idle[b])
          /\ totalCount[b] + connectingCount[b] <= MaxConnections
          /\ totalCount[b] \in Nat /\ leasedCount[b] \in Nat /\ connectingCount[b] \in Nat
          /\ Len(idle[b]) \in Nat
      BY <1>0 DEF TotalCount, TypeOK
    <3>2. Len(idle'[b]) = 0
      BY <1>5
    <3> QED
      BY <1>1, <1>5, <3>1, <3>2, LimitAssumption, SMTT(30)
  <2>2. \A c \in Buckets \ {b} : /\ totalCount'[c] = leasedCount'[c] + Len(idle'[c])
                                 /\ totalCount'[c] + connectingCount'[c] <= MaxConnections
    BY <1>0, <1>1, <1>5 DEF TotalCount
  <2> QED
    BY <1>5, <2>1, <2>2 DEF TotalCount
<1>9. DrainInv'
  BY <1>0, <1>1, <1>2, DrainKept DEF Connecting
<1> QED
  BY <1>4, <1>5, <1>6, <1>7, <1>8, <1>9 DEF IndInv, CountInv

LEMMA AcquireConnectInv ==
  ASSUME IndInv, NEW r \in Requests, NEW b \in Buckets, AcquireConnect(r, b),
         phase # "closed"
  PROVE  IndInv'
<1>0. TypeOK /\ OwnInv /\ LeaseCount /\ ConnectCount /\ IdleCount /\ TotalCount /\ DrainInv
  BY DEF IndInv, CountInv
<1>1. /\ req[r] = "new" /\ accepting /\ PruneAll(b)
      /\ HasRoom(b, totalCount[b] - Len(idle[b]))
      /\ ConnectStarts(r, b) \/ ConnectRefused(r)
      /\ bucket' = [bucket EXCEPT ![r] = b]
      /\ UNCHANGED <<lease, cancelled, leasedCount, poolActive, accepting, phase>>
  BY DEF AcquireConnect
<1>2. conn[r] = "none" /\ socket[r] = "none" /\ r \notin Connecting
  BY <1>0, <1>1, NewFacts
<1>3. /\ bucket'[r] = b /\ \A p \in Requests \ {r} : bucket'[p] = bucket[p]
      /\ bucket' \in [Requests -> Buckets \cup {None}]
  BY <1>0, <1>1 DEF TypeOK
<1>4. /\ \A p \in Requests \ {r} : req'[p] = req[p] /\ socket'[p] = socket[p]
      /\ req' \in [Requests -> ReqStates] /\ socket' \in [Requests -> SocketStates]
      /\ \/ /\ req'[r] = "done" /\ socket'[r] \in {"none", "closed"}
            /\ UNCHANGED connectingCount
         \/ /\ req'[r] \in {"queued", "connecting"} /\ socket'[r] = "held"
            /\ connectingCount' = [connectingCount EXCEPT ![b] = @ + 1]
  <2>1. CASE ConnectStarts(r, b)
    BY <1>0, <2>1 DEF ConnectStarts, TypeOK, ReqStates, SocketStates
  <2>2. CASE ConnectRefused(r)
    BY <1>0, <1>2, <2>2 DEF ConnectRefused, TypeOK, ReqStates, SocketStates
  <2> QED
    BY <1>1, <2>1, <2>2
<1>5. OwnInv'
  BY <1>0, <1>1, <1>3, <1>4, PruneAllOwn
<1>6. /\ idle' \in [Buckets -> Seq(Requests)] /\ conn' \in [Requests -> ConnStates]
      /\ totalCount' \in [Buckets -> Nat] /\ poolIdle' \in Nat /\ IdleCount'
      /\ totalCount'[b] = totalCount[b] - Len(idle[b]) /\ idle'[b] = <<>>
      /\ \A c \in Buckets \ {b} : totalCount'[c] = totalCount[c] /\ idle'[c] = idle[c]
      /\ \A c \in Buckets : totalCount'[c] = Cardinality(Open(c)')
  <2>1. \A p \in Requests : bucket'[p] = bucket[p] \/ conn[p] = "none"
    BY <1>2, <1>3
  <2> QED
    BY <1>0, <1>1, <2>1, PruneAllCounts
<1>7. LeaseCount'
  <2>1. \A p \in Requests : /\ req'[p] = "leased" <=> req[p] = "leased"
                            /\ req[p] = "leased" => bucket'[p] = bucket[p]
    BY <1>1, <1>3, <1>4
  <2> QED
    BY <1>0, <1>1, <2>1, LeaseSame
<1>8. /\ ConnectCount'
      /\ connectingCount'[b] \in {connectingCount[b], connectingCount[b] + 1}
      /\ \A c \in Buckets \ {b} : connectingCount'[c] = connectingCount[c]
      /\ connectingCount' \in [Buckets -> Nat]
  <2>1. CASE req'[r] = "done" /\ UNCHANGED connectingCount
    <3>1. \A p \in Requests : /\ p \in Connecting' <=> p \in Connecting
                              /\ p \in Connecting => bucket'[p] = bucket[p]
      BY <1>2, <1>3, <1>4, <2>1 DEF Connecting
    <3> QED
      BY <1>0, <2>1, <3>1, ConnectSame DEF TypeOK
  <2>2. CASE /\ req'[r] \in {"queued", "connecting"}
             /\ connectingCount' = [connectingCount EXCEPT ![b] = @ + 1]
    <3>1. r \in Connecting'
      BY <2>2 DEF Connecting
    <3>2. ConnectCount'
      BY <1>0, <1>2, <1>3, <1>4, <2>2, <3>1, ConnectJoin
    <3> QED
      BY <1>0, <2>2, <3>2 DEF TypeOK
  <2> QED
    BY <1>4, <2>1, <2>2
<1>9. TypeOK'
  BY <1>0, <1>1, <1>3, <1>4, <1>6, <1>8 DEF TypeOK
<1>10. TotalCount'
  <2>1. /\ totalCount'[b] = leasedCount'[b] + Len(idle'[b])
        /\ totalCount'[b] + connectingCount'[b] <= MaxConnections
    <3>1. /\ totalCount[b] = leasedCount[b] + Len(idle[b])
          /\ totalCount[b] \in Nat /\ leasedCount[b] \in Nat /\ connectingCount[b] \in Nat
          /\ Len(idle[b]) \in Nat
      BY <1>0 DEF TotalCount, TypeOK
    <3>2. Len(idle'[b]) = 0 /\ leasedCount'[b] = leasedCount[b]
      BY <1>1, <1>6
    <3>3. totalCount'[b] + connectingCount[b] < MaxConnections
      BY <1>1, <1>6 DEF HasRoom
    <3>4. totalCount'[b] \in Nat
      BY <1>6
    <3>5. totalCount'[b] + connectingCount'[b] <= MaxConnections
      BY <1>8, <3>1, <3>3, <3>4, LimitAssumption
    <3>6. totalCount'[b] = leasedCount'[b] + Len(idle'[b])
      BY <1>6, <3>1, <3>2
    <3> QED
      BY <3>5, <3>6
  <2>2. \A c \in Buckets \ {b} : /\ totalCount'[c] = leasedCount'[c] + Len(idle'[c])
                                 /\ totalCount'[c] + connectingCount'[c] <= MaxConnections
    BY <1>0, <1>1, <1>6, <1>8 DEF TotalCount
  <2> QED
    BY <1>6, <2>1, <2>2 DEF TotalCount
<1>11. DrainInv'
  <2>1. phase = "serving"
    BY <1>0, <1>1 DEF DrainInv
  <2> QED
    BY <1>0, <1>1, <2>1, DrainKept
<1> QED
  BY <1>5, <1>6, <1>7, <1>8, <1>9, <1>10, <1>11 DEF IndInv, CountInv

\* A connect under way has opened nothing yet.
LEMMA ConnectingFacts ==
  ASSUME OwnInv, NEW r \in Requests, req[r] = "connecting"
  PROVE  /\ r \in Connecting /\ bucket[r] \in Buckets /\ lease[r] = None
         /\ socket[r] = "held" /\ conn[r] = "none"
         /\ \A b \in Buckets : \A i \in 1..Len(idle[b]) : idle[b][i] # r
         /\ \A p \in Requests : lease[p] # r
<1>1. r \in Connecting
  BY DEF Connecting
<1>2. ReqOk(r)
  BY DEF OwnInv
<1>3. bucket[r] \in Buckets /\ lease[r] = None /\ socket[r] = "held" /\ conn[r] = "none"
  BY <1>1, <1>2 DEF ReqOk
<1>4. \A b \in Buckets : \A i \in 1..Len(idle[b]) : idle[b][i] # r
  BY <1>3 DEF OwnInv, IdleOk
<1>5. \A p \in Requests : lease[p] # r
  BY <1>3, RequestsAssumption DEF OwnInv, ReqOk, OpenStates, None
<1> QED
  BY <1>1, <1>3, <1>4, <1>5

LEMMA ConnectSucceededInv ==
  ASSUME IndInv, NEW r \in Requests, ConnectSucceeded(r)
  PROVE  IndInv'
<1> DEFINE b == bucket[r]
<1>0. TypeOK /\ OwnInv /\ LeaseCount /\ ConnectCount /\ IdleCount /\ TotalCount /\ DrainInv
  BY DEF IndInv, CountInv
<1>1. /\ r \in Connecting /\ b \in Buckets /\ lease[r] = None
      /\ socket[r] = "held" /\ conn[r] = "none"
      /\ \A c \in Buckets : \A i \in 1..Len(idle[c]) : idle[c][i] # r
      /\ \A p \in Requests : lease[p] # r
  BY <1>0, ConnectingFacts DEF ConnectSucceeded
<1>2. /\ req[r] = "connecting" /\ req' = [req EXCEPT ![r] = "leased"]
      /\ socket' = [socket EXCEPT ![r] = "released"]
      /\ conn' = [conn EXCEPT ![r] = "connected"] /\ lease' = [lease EXCEPT ![r] = r]
      /\ totalCount' = [totalCount EXCEPT ![b] = @ + 1]
      /\ leasedCount' = [leasedCount EXCEPT ![b] = @ + 1]
      /\ connectingCount' = [connectingCount EXCEPT ![b] = @ - 1]
      /\ poolActive' = poolActive + 1
      /\ UNCHANGED <<bucket, cancelled, idle, poolIdle, accepting, phase>>
  BY DEF ConnectSucceeded, Established
<1>3. /\ req'[r] = "leased" /\ socket'[r] = "released" /\ conn'[r] = "connected"
      /\ lease'[r] = r
      /\ \A p \in Requests \ {r} : /\ req'[p] = req[p] /\ socket'[p] = socket[p]
                                   /\ conn'[p] = conn[p] /\ lease'[p] = lease[p]
  BY <1>0, <1>2 DEF TypeOK
<1>4. r \notin Connecting' /\ \A p \in Requests \ {r} : p \in Connecting' <=> p \in Connecting
  BY <1>3 DEF Connecting
<1>5. OwnInv'
  <2>1. ASSUME NEW p \in Requests PROVE ReqOk(p)'
    <3>1. ReqOk(p)
      BY <1>0 DEF OwnInv
    <3>2. Parked(p)' <=> Parked(p)
      BY <1>2 DEF Parked
    <3>3. CASE p = r
      BY <1>1, <1>2, <1>3, <1>4, <3>3 DEF ReqOk, OpenStates
    <3>4. CASE p # r
      <4>1. \A q \in Requests : lease[q] = p => lease'[q] = p
        BY <1>1, <1>3, RequestsAssumption DEF None
      <4>2. req[p] = "leased" => conn'[lease[p]] = conn[lease[p]]
        BY <1>1, <1>3, <3>1 DEF ReqOk
      <4> QED
        BY <1>2, <1>3, <1>4, <3>1, <3>2, <3>4, <4>1, <4>2 DEF ReqOk
    <3> QED
      BY <3>3, <3>4
  <2>2. ASSUME NEW c \in Buckets PROVE IdleOk(c)'
    <3>1. IdleOk(c)
      BY <1>0 DEF OwnInv
    <3>2. \A i \in 1..Len(idle[c]) : idle[c][i] \in Requests \ {r}
      BY <1>0, <1>1 DEF TypeOK
    <3> QED
      BY <1>2, <1>3, <3>1, <3>2 DEF IdleOk
  <2>3. \A p, q \in Requests : lease'[p] = lease'[q] /\ lease'[p] # None => p = q
    BY <1>0, <1>1, <1>3 DEF OwnInv
  <2> QED
    BY <2>1, <2>2, <2>3 DEF OwnInv
<1>6. LeaseCount'
  BY <1>0, <1>1, <1>2, <1>3, LeaseJoin
<1>7. ConnectCount' /\ connectingCount[b] >= 1
  BY <1>0, <1>1, <1>2, <1>3, <1>4, ConnectLeave
<1>8. IdleCount'
  BY <1>0, <1>2, IdleSame
<1>9. /\ totalCount'[b] = totalCount[b] + 1 /\ leasedCount'[b] = leasedCount[b] + 1
      /\ connectingCount'[b] = connectingCount[b] - 1
      /\ \A c \in Buckets \ {b} : /\ totalCount'[c] = totalCount[c]
                                  /\ leasedCount'[c] = leasedCount[c]
                                  /\ connectingCount'[c] = connectingCount[c]
      /\ totalCount[b] \in Nat /\ leasedCount[b] \in Nat /\ connectingCount[b] \in Nat
      /\ Len(idle[b]) \in Nat
  BY <1>0, <1>1, <1>2 DEF TypeOK
<1>10. TotalCount'
  <2>1. \A c \in Buckets \ {b} : Open(c)' = Open(c)
    BY <1>2, <1>3 DEF Open
  <2>2. {c \in Requests : bucket[c] = b /\ conn'[c] \in OpenStates} = Open(b) \cup {r}
        /\ r \notin Open(b) /\ Open(b) \subseteq Requests
    BY <1>1, <1>3 DEF Open, OpenStates
  <2>3. Cardinality({c \in Requests : bucket[c] = b /\ conn'[c] \in OpenStates})
          = Cardinality(Open(b)) + 1
    BY <2>2, RequestSets
  <2>4. /\ totalCount'[b] = leasedCount'[b] + Len(idle'[b])
        /\ totalCount'[b] + connectingCount'[b] <= MaxConnections
    <3>1. /\ totalCount[b] = leasedCount[b] + Len(idle[b])
          /\ totalCount[b] + connectingCount[b] <= MaxConnections
      BY <1>0, <1>1 DEF TotalCount
    <3>2. Len(idle'[b]) = Len(idle[b])
      BY <1>2
    <3> QED
      BY <1>9, <3>1, <3>2, LimitAssumption, SMTT(30)
  <2>5. \A c \in Buckets : c = b =>
          Open(c)' = {p \in Requests : bucket[p] = b /\ conn'[p] \in OpenStates}
    BY <1>2 DEF Open
  <2>6. \A c \in Buckets : c = b => totalCount'[c] = Cardinality(Open(c)')
    BY <1>0, <1>1, <1>9, <2>3, <2>5 DEF TotalCount
  <2>7. \A c \in Buckets \ {b} : /\ totalCount'[c] = leasedCount'[c] + Len(idle'[c])
                                 /\ totalCount'[c] = Cardinality(Open(c)')
                                 /\ totalCount'[c] + connectingCount'[c] <= MaxConnections
    BY <1>0, <1>2, <1>9, <2>1 DEF TotalCount
  <2> QED
    BY <2>4, <2>6, <2>7 DEF TotalCount
<1>11. TypeOK'
  <2>1. connectingCount[b] - 1 \in Nat
    BY <1>7, <1>9
  <2>2. connectingCount' \in [Buckets -> Nat]
    BY <1>0, <1>2, <2>1 DEF TypeOK
  <2>3. totalCount' \in [Buckets -> Nat] /\ leasedCount' \in [Buckets -> Nat]
        /\ poolActive' \in Nat
    <3>1. totalCount[b] + 1 \in Nat /\ leasedCount[b] + 1 \in Nat
      BY <1>9
    <3>2. totalCount' \in [Buckets -> Nat]
      BY <1>0, <1>2, <3>1 DEF TypeOK
    <3>3. leasedCount' \in [Buckets -> Nat]
      BY <1>0, <1>2, <3>1 DEF TypeOK
    <3>4. poolActive' \in Nat
      BY <1>0, <1>2 DEF TypeOK
    <3> QED
      BY <3>2, <3>3, <3>4
  <2>4. /\ req' \in [Requests -> ReqStates] /\ socket' \in [Requests -> SocketStates]
        /\ conn' \in [Requests -> ConnStates] /\ lease' \in [Requests -> Requests \cup {None}]
    BY <1>0, <1>2 DEF TypeOK, ReqStates, SocketStates, ConnStates
  <2> QED
    BY <1>0, <1>2, <2>2, <2>3, <2>4 DEF TypeOK
<1>12. phase # "closed"
  BY <1>0, <1>2 DEF DrainInv, SessionsDone
<1>13. DrainInv'
  BY <1>0, <1>2, <1>4, <1>12, DrainKept
<1> QED
  BY <1>5, <1>6, <1>7, <1>8, <1>10, <1>11, <1>13 DEF IndInv, CountInv

LEMMA ConnectFailedInv ==
  ASSUME IndInv, NEW r \in Requests, ConnectFailed(r)
  PROVE  IndInv'
<1> DEFINE b == bucket[r]
<1>0. TypeOK /\ OwnInv /\ LeaseCount /\ ConnectCount /\ IdleCount /\ TotalCount /\ DrainInv
  BY DEF IndInv, CountInv
<1>1. /\ r \in Connecting /\ b \in Buckets /\ lease[r] = None /\ conn[r] = "none"
  BY <1>0, ConnectingFacts DEF ConnectFailed
<1>2. /\ req[r] = "connecting" /\ req' = [req EXCEPT ![r] = "done"]
      /\ socket' = [socket EXCEPT ![r] = "closed"]
      /\ connectingCount' = [connectingCount EXCEPT ![b] = @ - 1]
      /\ UNCHANGED <<bucket, lease, cancelled, conn, idle, totalCount, leasedCount,
                     poolActive, poolIdle, accepting, phase>>
  BY DEF ConnectFailed, gauges
<1>3. /\ req'[r] = "done" /\ socket'[r] = "closed"
      /\ \A p \in Requests \ {r} : req'[p] = req[p] /\ socket'[p] = socket[p]
  BY <1>0, <1>2 DEF TypeOK
<1>4. r \notin Connecting' /\ \A p \in Requests \ {r} : p \in Connecting' <=> p \in Connecting
  BY <1>3 DEF Connecting
<1>5. OwnInv'
  <2>1. ASSUME NEW p \in Requests PROVE ReqOk(p)'
    <3>1. ReqOk(p)
      BY <1>0 DEF OwnInv
    <3>2. Parked(p)' <=> Parked(p)
      BY <1>2 DEF Parked
    <3>3. CASE p = r
      BY <1>1, <1>2, <1>3, <1>4, <3>3 DEF ReqOk, OpenStates
    <3>4. CASE p # r
      BY <1>2, <1>3, <1>4, <3>1, <3>2, <3>4 DEF ReqOk
    <3> QED
      BY <3>3, <3>4
  <2>2. ASSUME NEW c \in Buckets PROVE IdleOk(c)'
    BY <1>0, <1>2 DEF OwnInv, IdleOk
  <2> QED
    BY <1>0, <1>2, <2>1, <2>2 DEF OwnInv
<1>6. LeaseCount'
  <2>1. \A p \in Requests : req'[p] = "leased" <=> req[p] = "leased"
    BY <1>2, <1>3
  <2> QED
    BY <1>0, <1>2, <2>1, LeaseSame
<1>7. ConnectCount' /\ connectingCount[b] >= 1
  BY <1>0, <1>1, <1>2, <1>3, <1>4, ConnectLeave
<1>8. IdleCount'
  BY <1>0, <1>2, IdleSame
<1>9. /\ connectingCount'[b] = connectingCount[b] - 1
      /\ \A c \in Buckets \ {b} : connectingCount'[c] = connectingCount[c]
      /\ connectingCount[b] \in Nat /\ totalCount[b] \in Nat
  BY <1>0, <1>1, <1>2 DEF TypeOK
<1>10. TotalCount'
  <2>1. \A c \in Buckets : Open(c)' = Open(c)
    BY <1>2 DEF Open
  <2>2. totalCount'[b] + connectingCount'[b] <= MaxConnections
    <3>1. totalCount[b] + connectingCount[b] <= MaxConnections /\ totalCount'[b] = totalCount[b]
      BY <1>0, <1>1, <1>2 DEF TotalCount
    <3> QED
      BY <1>9, <3>1, LimitAssumption
  <2>3. \A c \in Buckets \ {b} : totalCount'[c] + connectingCount'[c] <= MaxConnections
    BY <1>0, <1>2, <1>9 DEF TotalCount
  <2>4. \A c \in Buckets : totalCount'[c] + connectingCount'[c] <= MaxConnections
    BY <2>2, <2>3
  <2> QED
    BY <1>0, <1>2, <2>1, <2>4 DEF TotalCount
<1>11. TypeOK'
  <2>1. connectingCount[b] - 1 \in Nat
    BY <1>7, <1>9
  <2>2. connectingCount' \in [Buckets -> Nat]
    BY <1>0, <1>2, <2>1 DEF TypeOK
  <2>3. req' \in [Requests -> ReqStates] /\ socket' \in [Requests -> SocketStates]
    BY <1>0, <1>2 DEF TypeOK, ReqStates, SocketStates
  <2> QED
    BY <1>0, <1>2, <2>2, <2>3 DEF TypeOK
<1>12. phase # "closed"
  BY <1>0, <1>2 DEF DrainInv, SessionsDone
<1>13. DrainInv'
  BY <1>0, <1>2, <1>4, <1>12, DrainKept
<1> QED
  BY <1>5, <1>6, <1>7, <1>8, <1>10, <1>11, <1>13 DEF IndInv, CountInv

\* A lease that is out.
LEMMA LeasedFacts ==
  ASSUME OwnInv, NEW r \in Requests, req[r] = "leased"
  PROVE  /\ bucket[r] \in Buckets /\ lease[r] \in Requests
         /\ bucket[lease[r]] = bucket[r] /\ conn[lease[r]] \in OpenStates
         /\ \A p \in Requests \ {r} : lease[p] # lease[r]
         /\ \A b \in Buckets : \A i \in 1..Len(idle[b]) : idle[b][i] # lease[r]
<1>1. /\ bucket[r] \in Buckets /\ lease[r] \in Requests
      /\ bucket[lease[r]] = bucket[r] /\ conn[lease[r]] \in OpenStates
  BY DEF OwnInv, ReqOk
<1>2. \A p \in Requests \ {r} : lease[p] # lease[r]
  BY <1>1, RequestsAssumption DEF OwnInv, None
<1>3. \A b \in Buckets : \A i \in 1..Len(idle[b]) : idle[b][i] # lease[r]
  BY DEF OwnInv, IdleOk
<1> QED
  BY <1>1, <1>2, <1>3

LEMMA ReleaseKeepInv ==
  ASSUME IndInv, NEW r \in Requests, ReleaseKeep(r)
  PROVE  IndInv'
<1> DEFINE b == bucket[r]
           c0 == lease[r]
           s == idle[b]
           L == Len(s)
<1>0. TypeOK /\ OwnInv /\ LeaseCount /\ ConnectCount /\ IdleCount /\ TotalCount /\ DrainInv
  BY DEF IndInv, CountInv
<1>1. /\ b \in Buckets /\ c0 \in Requests /\ bucket[c0] = b
      /\ \A p \in Requests \ {r} : lease[p] # c0
      /\ \A c \in Buckets : \A i \in 1..Len(idle[c]) : idle[c][i] # c0
  BY <1>0, LeasedFacts DEF ReleaseKeep
<1>2. /\ req[r] = "leased" /\ conn[c0] = "connected" /\ L < MaxIdle
      /\ idle' = [idle EXCEPT ![b] = Append(s, c0)]
      /\ leasedCount' = [leasedCount EXCEPT ![b] = @ - 1]
      /\ req' = [req EXCEPT ![r] = "done"] /\ lease' = [lease EXCEPT ![r] = None]
      /\ poolActive' = poolActive - 1 /\ poolIdle' = poolIdle + 1
      /\ UNCHANGED <<bucket, cancelled, socket, conn, totalCount, connectingCount,
                     accepting, phase>>
  BY DEF ReleaseKeep, Keeps
<1>3. /\ req'[r] = "done" /\ lease'[r] = None
      /\ \A p \in Requests \ {r} : req'[p] = req[p] /\ lease'[p] = lease[p]
  BY <1>0, <1>2 DEF TypeOK
<1>4. \A p \in Requests : p \in Connecting' <=> p \in Connecting
  BY <1>2, <1>3 DEF Connecting
<1>5. s \in Seq(Requests) /\ L \in Nat /\ poolIdle \in Nat /\ poolActive \in Nat
  BY <1>0, <1>1 DEF TypeOK
<1>6. /\ idle'[b] = Append(s, c0) /\ \A c \in Buckets \ {b} : idle'[c] = idle[c]
      /\ idle' \in [Buckets -> Seq(Requests)]
  BY <1>0, <1>1, <1>2, <1>5 DEF TypeOK
<1>7. /\ Len(idle'[b]) = L + 1 /\ idle'[b][L + 1] = c0
      /\ \A i \in 1..L : idle'[b][i] = s[i]
  BY <1>1, <1>5, <1>6
<1>8. \A i \in 1..(L + 1) : i \in 1..L \/ i = L + 1
  BY <1>5
<1> HIDE DEF s, L, c0
<1>9. ASSUME NEW p \in Requests PROVE ReqOk(p)'
  <2>1. ReqOk(p)
    BY <1>0 DEF OwnInv
  <2>2. Parked(p) \/ p = c0 => Parked(p)'
    <3>1. ASSUME NEW c \in Buckets, NEW i \in 1..Len(idle[c]), idle[c][i] = p
          PROVE  Parked(p)'
      <4>1. i \in 1..Len(idle'[c]) /\ idle'[c][i] = p
        <5>1. CASE c # b
          BY <1>6, <3>1, <5>1
        <5>2. CASE c = b
          <6>1. i \in 1..L /\ i \in 1..(L + 1) /\ s[i] = p
            BY <1>5, <3>1, <5>2 DEF s, L
          <6> QED
            BY <1>7, <5>2, <6>1
        <5> QED
          BY <5>1, <5>2
      <4> QED
        BY <4>1 DEF Parked
    <3>2. ASSUME p = c0 PROVE Parked(p)'
      <4>1. L + 1 \in 1..Len(idle'[b])
        BY <1>5, <1>7
      <4> QED
        BY <1>1, <1>7, <3>2, <4>1 DEF Parked
    <3> QED
      BY <3>1, <3>2 DEF Parked
  <2>3. \A q \in Requests : lease[q] = p => lease'[q] = p \/ p = c0
    BY <1>3 DEF c0
  <2>4. conn'[p] \in OpenStates => Parked(p)' \/ \E q \in Requests : lease'[q] = p
    BY <1>2, <2>1, <2>2, <2>3 DEF ReqOk
  <2> QED
    BY <1>2, <1>3, <1>4, <2>1, <2>4 DEF ReqOk
<1>10. ASSUME NEW c \in Buckets PROVE IdleOk(c)'
  <2>1. IdleOk(c)
    BY <1>0 DEF OwnInv
  <2>0. \A p \in Requests : lease'[p] # c0 /\ \A x \in Requests : lease[p] # x => lease'[p] # x
    BY <1>1, <1>3, RequestsAssumption DEF None
  <2>2. CASE c # b
    <3>1. \A i \in 1..Len(idle[c]) : idle[c][i] \in Requests
      BY <1>0 DEF TypeOK
    <3> QED
      BY <1>2, <1>6, <2>0, <2>1, <2>2, <3>1 DEF IdleOk
  <2>3. CASE c = b
    <3>1. \A i \in 1..L : /\ s[i] \in Requests /\ s[i] # c0
                          /\ conn[s[i]] = "connected" /\ bucket[s[i]] = b
                          /\ \A p \in Requests : lease[p] # s[i]
                          /\ \A j \in 1..L : s[i] = s[j] => i = j
      BY <1>1, <1>5, <2>1, <2>3 DEF IdleOk, s, L
    <3>2. \A i \in 1..(L + 1) : /\ conn'[idle'[b][i]] = "connected" /\ bucket'[idle'[b][i]] = b
                                /\ \A p \in Requests : lease'[p] # idle'[b][i]
      <4> SUFFICES ASSUME NEW i \in 1..(L + 1)
                   PROVE  /\ conn'[idle'[b][i]] = "connected" /\ bucket'[idle'[b][i]] = b
                          /\ \A p \in Requests : lease'[p] # idle'[b][i]
        OBVIOUS
      <4>1. CASE i \in 1..L
        BY <1>2, <1>7, <2>0, <3>1, <4>1
      <4>2. CASE i = L + 1
        BY <1>1, <1>2, <1>7, <2>0, <4>2
      <4> QED
        BY <1>8, <4>1, <4>2
    <3>3. \A i, j \in 1..(L + 1) : idle'[b][i] = idle'[b][j] => i = j
      BY <1>7, <1>8, <3>1
    <3>4. Len(idle'[c]) = L + 1 /\ idle'[c] = idle'[b]
      BY <1>7, <2>3
    <3>5. \A i \in 1..Len(idle'[c]) : /\ conn'[idle'[c][i]] = "connected" /\ bucket'[idle'[c][i]] = c
                                      /\ \A p \in Requests : lease'[p] # idle'[c][i]
      BY <2>3, <3>2, <3>4
    <3>6. \A i, j \in 1..Len(idle'[c]) : idle'[c][i] = idle'[c][j] => i = j
      BY <3>3, <3>4
    <3> QED
      BY <3>5, <3>6 DEF IdleOk
  <2> QED
    BY <2>2, <2>3
<1>11. OwnInv'
  <2>1. \A p, q \in Requests : lease'[p] = lease'[q] /\ lease'[p] # None => p = q
    BY <1>0, <1>3 DEF OwnInv
  <2> QED
    BY <1>9, <1>10, <2>1 DEF OwnInv
<1>12. LeaseCount' /\ leasedCount[b] >= 1 /\ poolActive >= 1
  BY <1>0, <1>1, <1>2, <1>3, LeaseLeave
<1>13. ConnectCount'
  BY <1>0, <1>2, <1>4, ConnectSame
<1>14. IdleCount' /\ poolIdle' \in Nat
  <2>1. poolIdle' = poolIdle - Len(idle[b]) + Len(idle'[b]) /\ Len(idle'[b]) <= MaxIdle
    <3>1. L \in Nat /\ L < MaxIdle /\ poolIdle' = poolIdle + 1 /\ L = Len(idle[b])
      BY <1>2, <1>5 DEF L, s
    <3>2. Len(idle'[b]) = L + 1 /\ poolIdle \in Nat
      BY <1>5, <1>7
    <3>3. Len(idle'[b]) <= MaxIdle
      BY <3>1, <3>2, LimitAssumption
    <3>4. poolIdle' = poolIdle - L + (L + 1)
      <4>1. \A x, y \in Nat : x + 1 = x - y + (y + 1)
        OBVIOUS
      <4> QED
        BY <3>1, <3>2, <4>1
    <3>5. poolIdle' = poolIdle - Len(idle[b]) + Len(idle'[b])
      BY <3>1, <3>2, <3>4
    <3> QED
      BY <3>3, <3>5
  <2> QED
    BY <1>0, <1>1, <1>6, <2>1, IdleChange
<1>15. /\ leasedCount'[b] = leasedCount[b] - 1 /\ leasedCount[b] \in Nat
       /\ \A c \in Buckets \ {b} : leasedCount'[c] = leasedCount[c]
  BY <1>0, <1>1, <1>2 DEF TypeOK
<1>16. TotalCount'
  <2>1. \A c \in Buckets : Open(c)' = Open(c)
    BY <1>2 DEF Open
  <2>2. totalCount'[b] = leasedCount'[b] + Len(idle'[b])
    <3>1. totalCount[b] = leasedCount[b] + L /\ totalCount'[b] = totalCount[b]
      BY <1>0, <1>1, <1>2 DEF TotalCount, L, s
    <3> QED
      BY <1>5, <1>7, <1>15, <3>1, SMTT(30)
  <2>3. \A c \in Buckets \ {b} : totalCount'[c] = leasedCount'[c] + Len(idle'[c])
    BY <1>0, <1>2, <1>6, <1>15 DEF TotalCount
  <2>4. \A c \in Buckets : totalCount'[c] = leasedCount'[c] + Len(idle'[c])
    BY <2>2, <2>3
  <2> QED
    BY <1>0, <1>2, <2>1, <2>4 DEF TotalCount
<1>17. TypeOK'
  <2>1. leasedCount[b] - 1 \in Nat /\ poolActive' \in Nat
    BY <1>2, <1>5, <1>12, <1>15
  <2>2. leasedCount' \in [Buckets -> Nat]
    BY <1>0, <1>2, <2>1 DEF TypeOK
  <2>3. req' \in [Requests -> ReqStates] /\ lease' \in [Requests -> Requests \cup {None}]
    BY <1>0, <1>2 DEF TypeOK, ReqStates
  <2> QED
    BY <1>0, <1>2, <1>6, <1>14, <2>1, <2>2, <2>3 DEF TypeOK
<1>18. phase # "closed"
  BY <1>0, <1>2 DEF DrainInv, SessionsDone
<1>19. DrainInv'
  BY <1>0, <1>2, <1>4, <1>18, DrainKept
<1> QED
  BY <1>11, <1>12, <1>13, <1>14, <1>16, <1>17, <1>19 DEF IndInv, CountInv

LEMMA ReleaseDiscardInv ==
  ASSUME IndInv, NEW r \in Requests, ReleaseDiscard(r)
  PROVE  IndInv'
<1> DEFINE b == bucket[r]
           c0 == lease[r]
<1>0. TypeOK /\ OwnInv /\ LeaseCount /\ ConnectCount /\ IdleCount /\ TotalCount /\ DrainInv
  BY DEF IndInv, CountInv
<1>1. /\ b \in Buckets /\ c0 \in Requests /\ bucket[c0] = b /\ conn[c0] \in OpenStates
      /\ \A p \in Requests \ {r} : lease[p] # c0
      /\ \A c \in Buckets : \A i \in 1..Len(idle[c]) : idle[c][i] # c0
  BY <1>0, LeasedFacts DEF ReleaseDiscard
<1>2. /\ req[r] = "leased" /\ conn' = [conn EXCEPT ![c0] = "destroyed"]
      /\ leasedCount' = [leasedCount EXCEPT ![b] = @ - 1]
      /\ totalCount' = [totalCount EXCEPT ![b] = @ - 1]
      /\ req' = [req EXCEPT ![r] = "done"] /\ lease' = [lease EXCEPT ![r] = None]
      /\ poolActive' = poolActive - 1
      /\ UNCHANGED <<bucket, cancelled, socket, idle, connectingCount, poolIdle,
                     accepting, phase>>
  BY DEF ReleaseDiscard
<1>3. /\ req'[r] = "done" /\ lease'[r] = None
      /\ \A p \in Requests \ {r} : req'[p] = req[p] /\ lease'[p] = lease[p]
      /\ conn'[c0] = "destroyed" /\ \A p \in Requests \ {c0} : conn'[p] = conn[p]
  BY <1>0, <1>1, <1>2 DEF TypeOK
<1>4. \A p \in Requests : p \in Connecting' <=> p \in Connecting
  BY <1>2, <1>3 DEF Connecting
<1>5. OwnInv'
  <2>1. ASSUME NEW p \in Requests PROVE ReqOk(p)'
    <3>1. ReqOk(p)
      BY <1>0 DEF OwnInv
    <3>2. Parked(p)' <=> Parked(p)
      BY <1>2 DEF Parked
    <3>3. \A q \in Requests : lease[q] = p => lease'[q] = p \/ p = c0
      BY <1>3
    <3>4. conn'[p] \in OpenStates => p # c0 /\ conn[p] \in OpenStates
      BY <1>3 DEF OpenStates
    <3>5. conn'[p] # "none" <=> conn[p] # "none"
      BY <1>1, <1>3 DEF OpenStates
    <3>6. conn'[p] \in OpenStates => Parked(p)' \/ \E q \in Requests : lease'[q] = p
      BY <3>1, <3>2, <3>3, <3>4 DEF ReqOk
    <3>7. CASE p = r
      BY <1>2, <1>3, <1>4, <3>1, <3>5, <3>6, <3>7 DEF ReqOk
    <3>8. CASE p # r
      <4>1. req[p] = "leased" => conn'[lease[p]] = conn[lease[p]]
        BY <1>1, <1>3, <3>1, <3>8 DEF ReqOk
      <4> QED
        BY <1>2, <1>3, <1>4, <3>1, <3>5, <3>6, <3>8, <4>1 DEF ReqOk
    <3> QED
      BY <3>7, <3>8
  <2>2. ASSUME NEW c \in Buckets PROVE IdleOk(c)'
    <3>1. IdleOk(c)
      BY <1>0 DEF OwnInv
    <3>2. \A i \in 1..Len(idle[c]) : idle[c][i] \in Requests \ {c0}
      BY <1>0, <1>1 DEF TypeOK
    <3>3. \A p \in Requests, x \in Requests : lease[p] # x => lease'[p] # x
      BY <1>3, RequestsAssumption DEF None
    <3> QED
      BY <1>2, <1>3, <3>1, <3>2, <3>3 DEF IdleOk
  <2>3. \A p, q \in Requests : lease'[p] = lease'[q] /\ lease'[p] # None => p = q
    BY <1>0, <1>3 DEF OwnInv
  <2> QED
    BY <2>1, <2>2, <2>3 DEF OwnInv
<1>6. LeaseCount' /\ leasedCount[b] >= 1 /\ poolActive >= 1
  BY <1>0, <1>1, <1>2, <1>3, LeaseLeave
<1>7. ConnectCount'
  BY <1>0, <1>2, <1>4, ConnectSame
<1>8. IdleCount'
  BY <1>0, <1>2, IdleSame
<1>9. /\ totalCount'[b] = totalCount[b] - 1 /\ leasedCount'[b] = leasedCount[b] - 1
      /\ \A c \in Buckets \ {b} : /\ totalCount'[c] = totalCount[c]
                                  /\ leasedCount'[c] = leasedCount[c]
      /\ totalCount[b] \in Nat /\ leasedCount[b] \in Nat /\ connectingCount[b] \in Nat
      /\ Len(idle[b]) \in Nat /\ poolActive \in Nat
  BY <1>0, <1>1, <1>2 DEF TypeOK
<1>10. /\ totalCount[b] = leasedCount[b] + Len(idle[b])
       /\ totalCount[b] + connectingCount[b] <= MaxConnections
       /\ totalCount[b] = Cardinality(Open(b))
  BY <1>0, <1>1 DEF TotalCount
<1>11. totalCount[b] >= 1
  BY <1>6, <1>9, <1>10
<1>12. TotalCount'
  <2>1. \A c \in Buckets \ {b} : Open(c)' = Open(c)
    BY <1>1, <1>2, <1>3 DEF Open, OpenStates
  <2>2. {c \in Requests : bucket[c] = b /\ conn'[c] \in OpenStates} = Open(b) \ {c0}
        /\ c0 \in Open(b) /\ Open(b) \subseteq Requests
    BY <1>1, <1>3 DEF Open, OpenStates
  <2>3. Cardinality({c \in Requests : bucket[c] = b /\ conn'[c] \in OpenStates})
          = Cardinality(Open(b)) - 1
    BY <2>2, RequestSets
  <2>4. \A c \in Buckets : c = b =>
          Open(c)' = {p \in Requests : bucket[p] = b /\ conn'[p] \in OpenStates}
    BY <1>2 DEF Open
  <2>5. \A c \in Buckets : c = b => totalCount'[c] = Cardinality(Open(c)')
    BY <1>9, <1>10, <2>3, <2>4
  <2>6. /\ totalCount'[b] = leasedCount'[b] + Len(idle'[b])
        /\ totalCount'[b] + connectingCount'[b] <= MaxConnections
    <3>1. Len(idle'[b]) = Len(idle[b]) /\ connectingCount'[b] = connectingCount[b]
      BY <1>2
    <3>2. \A t, l, k, x, m \in Nat :
            /\ t = l + k => t - 1 = l - 1 + k
            /\ t + x <= m => t - 1 + x <= m
      OBVIOUS
    <3>3. totalCount[b] - 1 = leasedCount[b] - 1 + Len(idle[b])
      BY <1>9, <1>10, <3>2, SMTT(30)
    <3>4. totalCount[b] - 1 + connectingCount[b] <= MaxConnections
      BY <1>9, <1>10, <3>2, LimitAssumption, SMTT(30)
    <3> QED
      BY <1>9, <3>1, <3>3, <3>4
  <2>7. \A c \in Buckets \ {b} : /\ totalCount'[c] = leasedCount'[c] + Len(idle'[c])
                                 /\ totalCount'[c] = Cardinality(Open(c)')
                                 /\ totalCount'[c] + connectingCount'[c] <= MaxConnections
    BY <1>0, <1>2, <1>9, <2>1 DEF TotalCount
  <2> QED
    BY <2>5, <2>6, <2>7 DEF TotalCount
<1>13. TypeOK'
  <2>1. leasedCount[b] - 1 \in Nat /\ totalCount[b] - 1 \in Nat /\ poolActive' \in Nat
    BY <1>2, <1>6, <1>9, <1>11
  <2>2. leasedCount' \in [Buckets -> Nat]
    BY <1>0, <1>2, <2>1 DEF TypeOK
  <2>3. totalCount' \in [Buckets -> Nat]
    BY <1>0, <1>2, <2>1 DEF TypeOK
  <2>4. /\ req' \in [Requests -> ReqStates] /\ lease' \in [Requests -> Requests \cup {None}]
        /\ conn' \in [Requests -> ConnStates]
    BY <1>0, <1>2 DEF TypeOK, ReqStates, ConnStates
  <2> QED
    BY <1>0, <1>2, <2>1, <2>2, <2>3, <2>4 DEF TypeOK
<1>14. phase # "closed"
  BY <1>0, <1>2 DEF DrainInv, SessionsDone
<1>15. DrainInv'
  BY <1>0, <1>2, <1>4, <1>14, DrainKept
<1> QED
  BY <1>5, <1>6, <1>7, <1>8, <1>12, <1>13, <1>15 DEF IndInv, CountInv

\* The queued connects of a bucket end inside cancelPendingAcquisitions and give
\* back exactly the reservations they held.
LEMMA CancelPendingAcquisitionsInv ==
  ASSUME IndInv, CancelPendingAcquisitions
  PROVE  IndInv'
<1> DEFINE queued(b) == {r \in Requests : req[r] = "queued" /\ bucket[r] = b}
<1>0. TypeOK /\ OwnInv /\ LeaseCount /\ ConnectCount /\ IdleCount /\ TotalCount /\ DrainInv
  BY DEF IndInv, CountInv
<1>1. /\ phase = "draining" /\ phase' = "forced"
      /\ cancelled' = [r \in Requests |-> cancelled[r] \/ r \in Connecting]
      /\ req' = [r \in Requests |-> IF req[r] = "queued" THEN "done" ELSE req[r]]
      /\ socket' = [r \in Requests |-> IF req[r] = "queued" THEN "closed" ELSE socket[r]]
      /\ connectingCount' = [b \in Buckets |-> connectingCount[b] - Cardinality(queued(b))]
      /\ UNCHANGED <<bucket, lease, conn, idle, totalCount, leasedCount, poolActive,
                     poolIdle, accepting>>
  BY DEF CancelPendingAcquisitions, CancelConnects, gauges
<1>2. \A p \in Requests :
        /\ req[p] = "queued" => /\ req'[p] = "done" /\ socket'[p] = "closed"
                                /\ p \in Connecting /\ p \notin Connecting'
        /\ req[p] # "queued" => /\ req'[p] = req[p] /\ socket'[p] = socket[p]
                                /\ p \in Connecting' <=> p \in Connecting
        /\ p \in Connecting => cancelled'[p]
  BY <1>1 DEF Connecting
<1>3. OwnInv'
  <2>1. ASSUME NEW p \in Requests PROVE ReqOk(p)'
    <3>1. ReqOk(p)
      BY <1>0 DEF OwnInv
    <3>2. Parked(p)' <=> Parked(p)
      BY <1>1 DEF Parked
    <3> QED
      BY <1>1, <1>2, <3>1, <3>2 DEF ReqOk
  <2>2. ASSUME NEW c \in Buckets PROVE IdleOk(c)'
    BY <1>0, <1>1 DEF OwnInv, IdleOk
  <2> QED
    BY <1>0, <1>1, <2>1, <2>2 DEF OwnInv
<1>4. LeaseCount'
  <2>1. \A p \in Requests : req'[p] = "leased" <=> req[p] = "leased"
    BY <1>2
  <2> QED
    BY <1>0, <1>1, <2>1, LeaseSame
<1>5. ASSUME NEW b \in Buckets
      PROVE  /\ connectingCount'[b] = Cardinality(ConnectsOf(b)')
             /\ connectingCount'[b] \in Nat /\ connectingCount'[b] <= connectingCount[b]
  <2>1. /\ queued(b) \subseteq ConnectsOf(b)
        /\ ConnectsOf(b)' = ConnectsOf(b) \ queued(b)
    BY <1>1, <1>2 DEF ConnectsOf, Connecting
  <2>2. IsFiniteSet(ConnectsOf(b)) /\ Cardinality(ConnectsOf(b)) \in Nat
    BY RequestSets DEF ConnectsOf, Connecting
  <2>3. connectingCount'[b] = connectingCount[b] - Cardinality(queued(b))
        /\ connectingCount[b] = Cardinality(ConnectsOf(b))
    BY <1>0, <1>1 DEF ConnectCount
  <2>4. IsFiniteSet(queued(b)) /\ Cardinality(queued(b)) \in Nat
    BY RequestSets
  <2> HIDE DEF queued
  <2>5. ConnectsOf(b) \cap queued(b) = queued(b)
    BY <2>1
  <2>6. /\ IsFiniteSet(ConnectsOf(b) \ queued(b))
        /\ Cardinality(ConnectsOf(b) \ queued(b))
             = Cardinality(ConnectsOf(b)) - Cardinality(queued(b))
    BY <2>2, <2>5, FS_Difference
  <2>7. Cardinality(ConnectsOf(b) \ queued(b)) \in Nat
    BY <2>6, FS_CardinalityType
  <2> QED
    BY <2>1, <2>2, <2>3, <2>4, <2>6, <2>7
<1> HIDE DEF queued
<1>6. ConnectCount'
  BY <1>5 DEF ConnectCount
<1>7. IdleCount'
  BY <1>0, <1>1, IdleSame
<1>8. TotalCount'
  <2>1. \A c \in Buckets : Open(c)' = Open(c)
    BY <1>1 DEF Open
  <2>2. ASSUME NEW c \in Buckets PROVE totalCount'[c] + connectingCount'[c] <= MaxConnections
    <3>1. /\ totalCount[c] + connectingCount[c] <= MaxConnections
          /\ totalCount[c] \in Nat /\ connectingCount[c] \in Nat /\ totalCount'[c] = totalCount[c]
      BY <1>0, <1>1 DEF TotalCount, TypeOK
    <3> QED
      BY <1>5, <3>1, LimitAssumption
  <2> QED
    BY <1>0, <1>1, <2>1, <2>2 DEF TotalCount
<1>9. TypeOK'
  <2>1. connectingCount' \in [Buckets -> Nat]
    BY <1>1, <1>5
  <2>2. /\ req' \in [Requests -> ReqStates] /\ socket' \in [Requests -> SocketStates]
        /\ cancelled' \in [Requests -> BOOLEAN]
    <3>1. req' \in [Requests -> ReqStates]
      BY <1>0, <1>1 DEF TypeOK, ReqStates
    <3>2. socket' \in [Requests -> SocketStates]
      BY <1>0, <1>1 DEF TypeOK, SocketStates
    <3>3. cancelled' \in [Requests -> BOOLEAN]
      BY <1>0, <1>1, Zenon DEF TypeOK
    <3> QED
      BY <3>1, <3>2, <3>3
  <2> QED
    BY <1>0, <1>1, <2>1, <2>2 DEF TypeOK
<1>10. DrainInv'
  <2>1. ~accepting'
    BY <1>0, <1>1 DEF DrainInv
  <2>2. \A p \in Connecting' : p \in Requests /\ p \in Connecting
    BY <1>2 DEF Connecting
  <2> QED
    BY <1>1, <1>2, <2>1, <2>2 DEF DrainInv, DrainReachesAll
<1> QED
  BY <1>3, <1>4, <1>6, <1>7, <1>8, <1>9, <1>10 DEF IndInv, CountInv

\* Once no session is left, everything that is open lies in a deque, and closeIdle
\* closes it.
LEMMA CloseIdleInv ==
  ASSUME IndInv, CloseIdle
  PROVE  IndInv'
<1> DEFINE E == UNION {Range(idle[b]) : b \in Buckets}
<1>0. TypeOK /\ OwnInv /\ LeaseCount /\ ConnectCount /\ IdleCount /\ TotalCount /\ DrainInv
  BY DEF IndInv, CountInv
<1>1. /\ phase \in {"draining", "forced"} /\ SessionsDone /\ phase' = "closed"
      /\ idle' = [b \in Buckets |-> <<>>] /\ conn' = Destroy(E)
      /\ totalCount' = [b \in Buckets |-> totalCount[b] - Len(idle[b])]
      /\ poolIdle' = poolIdle - Cardinality(IdleEntries)
      /\ UNCHANGED <<req, bucket, lease, cancelled, socket, leasedCount, connectingCount,
                     poolActive, accepting>>
  BY DEF CloseIdle
<1>2. \A p \in Requests : /\ req[p] # "leased" /\ p \notin Connecting /\ lease[p] = None
                          /\ \A c \in Requests : lease[p] # c
  BY <1>0, <1>1, RequestsAssumption DEF SessionsDone, OwnInv, ReqOk, Connecting, None
<1>3. \A p \in Requests : p \in E <=> Parked(p)
  <2>1. ASSUME NEW b \in Buckets, NEW p
        PROVE  p \in Range(idle[b]) <=> \E i \in 1..Len(idle[b]) : idle[b][i] = p
    <3>1. DOMAIN idle[b] = 1..Len(idle[b])
      BY <1>0 DEF TypeOK
    <3> QED
      BY <3>1 DEF Range
  <2>2. \A p : p \in E <=> \E b \in Buckets : p \in Range(idle[b])
    OBVIOUS
  <2> HIDE DEF E
  <2> QED
    BY <2>1, <2>2 DEF Parked
<1>4. \A p \in Requests : conn[p] \in OpenStates => p \in E
  BY <1>0, <1>2, <1>3 DEF OwnInv, ReqOk
<1>5. \A p \in Requests : p \in E => conn[p] = "connected"
  BY <1>0, <1>3 DEF OwnInv, IdleOk, Parked
<1> HIDE DEF E
<1>6. \A p \in Requests : /\ conn'[p] \notin OpenStates
                          /\ conn'[p] # "none" <=> conn[p] # "none"
  BY <1>1, <1>4, <1>5 DEF Destroy, OpenStates
<1>7. OwnInv'
  <2>1. ASSUME NEW p \in Requests PROVE ReqOk(p)'
    <3>1. ReqOk(p)
      BY <1>0 DEF OwnInv
    <3> QED
      BY <1>1, <1>2, <1>6, <3>1 DEF ReqOk, Connecting
  <2>2. \A b \in Buckets : IdleOk(b)'
    BY <1>1 DEF IdleOk
  <2> QED
    BY <1>1, <1>2, <2>1, <2>2 DEF OwnInv
<1>8. LeaseCount' /\ ConnectCount'
  BY <1>0, <1>1, LeaseSame, ConnectSame DEF Connecting
<1>9. IdleCount' /\ poolIdle' = 0
  <2>1. IdleEntries' = {}
    BY <1>1 DEF IdleEntries
  <2>2. poolIdle = Cardinality(IdleEntries) /\ poolIdle \in Nat
    BY <1>0 DEF IdleCount, TypeOK
  <2>3. poolIdle' = 0
    BY <1>1, <2>2
  <2>4. \A b \in Buckets : Len(idle'[b]) <= MaxIdle
    BY <1>1, LimitAssumption
  <2>5. IsFiniteSet({}) /\ Cardinality({}) = 0
    BY FS_EmptySet
  <2> QED
    BY <2>1, <2>3, <2>4, <2>5 DEF IdleCount
<1>10. ASSUME NEW b \in Buckets
       PROVE  /\ totalCount'[b] = 0 /\ leasedCount'[b] = 0
              /\ Len(idle'[b]) = 0 /\ Cardinality(Open(b)') = 0
              /\ totalCount'[b] + connectingCount'[b] <= MaxConnections
  <2>1. LeasesOf(b) = {} /\ Open(b)' = {}
    BY <1>2, <1>6 DEF LeasesOf, Open
  <2>2. leasedCount[b] = 0 /\ Cardinality(Open(b)') = 0
    BY <1>0, <2>1, FS_EmptySet DEF LeaseCount
  <2>3. /\ totalCount[b] = leasedCount[b] + Len(idle[b])
        /\ totalCount[b] + connectingCount[b] <= MaxConnections
        /\ totalCount[b] \in Nat /\ connectingCount[b] \in Nat /\ Len(idle[b]) \in Nat
    BY <1>0 DEF TotalCount, TypeOK
  <2>4. totalCount'[b] = totalCount[b] - Len(idle[b])
    BY <1>1
  <2>5. totalCount'[b] = 0
    BY <2>2, <2>3, <2>4
  <2>6. 0 + connectingCount'[b] <= MaxConnections
    BY <1>1, <2>3, LimitAssumption
  <2>7. Len(idle'[b]) = 0
    BY <1>1
  <2> QED
    BY <1>1, <2>2, <2>5, <2>6, <2>7
<1>11. TotalCount'
  BY <1>10 DEF TotalCount
<1>12. TypeOK'
  <2>1. totalCount' \in [Buckets -> Nat]
    BY <1>1, <1>10
  <2>2. conn' \in [Requests -> ConnStates]
    BY <1>0, <1>1 DEF TypeOK, Destroy, ConnStates
  <2>3. idle' \in [Buckets -> Seq(Requests)]
    BY <1>1
  <2> QED
    BY <1>0, <1>1, <1>9, <2>1, <2>2, <2>3 DEF TypeOK
<1>13. DrainInv'
  <2>1. ~accepting' /\ SessionsDone'
    BY <1>0, <1>1 DEF DrainInv, SessionsDone
  <2>2. Connecting' = {}
    BY <1>1, <1>2 DEF Connecting
  <2> QED
    BY <1>1, <2>1, <2>2 DEF DrainInv, DrainReachesAll
<1> QED
  BY <1>7, <1>8, <1>9, <1>11, <1>12, <1>13 DEF IndInv, CountInv

LEMMA PoolInitInv == Init => IndInv
<1> SUFFICES ASSUME Init PROVE IndInv
  OBVIOUS
<1>1. TypeOK
  BY DEF Init, TypeOK, ReqStates, SocketStates, ConnStates
<1>2. OwnInv
  BY DEF Init, OwnInv, ReqOk, IdleOk, Connecting, OpenStates
<1>3. Leased = {} /\ IdleEntries = {}
      /\ \A b \in Buckets : LeasesOf(b) = {} /\ ConnectsOf(b) = {} /\ Open(b) = {}
  BY DEF Init, Leased, IdleEntries, LeasesOf, ConnectsOf, Connecting, Open, OpenStates
<1>4. IsFiniteSet({}) /\ Cardinality({}) = 0
  BY FS_EmptySet
<1>5. LeaseCount /\ ConnectCount
  BY <1>3, <1>4 DEF Init, LeaseCount, ConnectCount
<1>6. IdleCount
  BY <1>3, <1>4, LimitAssumption DEF Init, IdleCount
<1>7. TotalCount
  <2>1. ASSUME NEW b \in Buckets
        PROVE  /\ totalCount[b] = 0 /\ leasedCount[b] = 0 /\ connectingCount[b] = 0
               /\ Len(idle[b]) = 0 /\ Cardinality(Open(b)) = 0
    BY <1>3, <1>4 DEF Init
  <2>2. 0 = 0 + 0 /\ 0 + 0 <= MaxConnections
    BY LimitAssumption
  <2> QED
    BY <2>1, <2>2 DEF TotalCount
<1>8. DrainInv
  BY DEF Init, DrainInv, DrainReachesAll
<1> QED
  BY <1>1, <1>2, <1>5, <1>6, <1>7, <1>8 DEF IndInv, CountInv

LEMMA PoolStep == IndInv /\ [Next]_vars => IndInv'
<1> SUFFICES ASSUME IndInv, [Next]_vars PROVE IndInv'
  OBVIOUS
<1>1. ASSUME NEW r \in Requests, Acquire(r) PROVE IndInv'
  <2>1. phase # "closed"
    BY <1>1 DEF Acquire
  <2>2. CASE AcquireRefused(r)
    BY <2>1, <2>2, AcquireRefusedInv
  <2>3. ASSUME NEW b \in Buckets, NEW n \in 0..Len(idle[b]), AcquireIdle(r, b, n)
        PROVE  IndInv'
    BY <2>1, <2>3, AcquireIdleInv
  <2>4. ASSUME NEW b \in Buckets, AcquireConnect(r, b) PROVE IndInv'
    BY <2>1, <2>4, AcquireConnectInv
  <2>5. ASSUME NEW b \in Buckets, AcquireExhausted(r, b) PROVE IndInv'
    BY <2>1, <2>5, AcquireExhaustedInv
  <2> QED
    BY <1>1, <2>2, <2>3, <2>4, <2>5 DEF Acquire
<1>2. ASSUME NEW r \in Requests, FlushConnect(r) PROVE IndInv'
  BY <1>2, FlushConnectInv
<1>3. ASSUME NEW r \in Requests, Session(r) PROVE IndInv'
  BY <1>3, ConnectSucceededInv, ConnectFailedInv, ReleaseKeepInv, ReleaseDiscardInv
     DEF Session
<1>4. ASSUME NEW r \in Requests, ConnectionLost(r) PROVE IndInv'
  BY <1>4, ConnectionLostInv
<1>5. CASE StopAcquiring
  BY <1>5, StopAcquiringInv
<1>6. CASE CancelPendingAcquisitions
  BY <1>6, CancelPendingAcquisitionsInv
<1>7. CASE CloseIdle
  BY <1>7, CloseIdleInv
<1>8. CASE Closed
  BY <1>8, PoolStutter DEF Closed
<1>9. CASE UNCHANGED vars
  BY <1>9, PoolStutter
<1> QED
  BY <1>1, <1>2, <1>3, <1>4, <1>5, <1>6, <1>7, <1>8, <1>9 DEF Next

----------------------------------------------------------------------------
(* Theorems *)

\* The inductive invariant of the pool: who owns what, and that the counters and
\* gauges agree with it.
THEOREM PoolInvariance == Spec => []IndInv
BY PoolInitInv, PoolStep, PTL DEF Spec

\* Every variable of the pool keeps its type; in particular no counter of a bucket
\* and no gauge, all unsigned in the code, is ever decremented below zero.
THEOREM PoolTyped == Spec => []TypeOK
<1>1. IndInv => TypeOK
  BY DEF IndInv
<1> QED
  BY <1>1, PoolInvariance, PTL

\* What a bucket counts is what there is, and it keeps to the limits of the route
\* across the await inside acquire().
THEOREM PoolIsAccounted == Spec => []PoolAccounted
<1>1. IndInv => PoolAccounted
  <2> SUFFICES ASSUME IndInv PROVE PoolAccounted
    OBVIOUS
  <2>1. LeaseCount /\ ConnectCount /\ IdleCount /\ TotalCount
    BY DEF IndInv, CountInv
  <2>2. CountsExact
    BY <2>1 DEF CountsExact, LeaseCount, ConnectCount, IdleCount, TotalCount, Leased
  <2>3. \A b \in Buckets : Open(b) = {c \in Requests : /\ bucket[c] = b
                                                       /\ conn[c] \in {"connected", "lost"}}
    BY DEF Open, OpenStates
  <2>4. WithinLimits
    BY <2>1, <2>3 DEF WithinLimits, ConnectCount, IdleCount, TotalCount
  <2> QED
    BY <2>2, <2>4 DEF PoolAccounted
<1> QED
  BY <1>1, PoolInvariance, PTL

\* An open connection is leased once or parked once, never both, in its own bucket;
\* an outbound descriptor belongs to one connect or to the connection it became.
THEOREM ConnectionsHaveOneOwner == Spec => []SingleOwner
<1>1. IndInv => SingleOwner
  <2> SUFFICES ASSUME IndInv PROVE SingleOwner
    OBVIOUS
  <2>0. TypeOK /\ OwnInv
    BY DEF IndInv
  <2>1. ASSUME NEW c \in Requests
        PROVE  Cardinality({r \in Requests : lease[r] = c})
                 + Cardinality({e \in IdleEntries : idle[e[1]][e[2]] = c})
                 = (IF conn[c] \in {"connected", "lost"} THEN 1 ELSE 0)
    <3> DEFINE Lessees == {r \in Requests : lease[r] = c}
               Places == {e \in IdleEntries : idle[e[1]][e[2]] = c}
    <3>1. \A e \in Places : /\ e[1] \in Buckets /\ e[2] \in 1..Len(idle[e[1]])
                            /\ e = <<e[1], e[2]>> /\ idle[e[1]][e[2]] = c
      BY DEF IdleEntries
    <3>2. \A b \in Buckets : \A i \in 1..Len(idle[b]) : idle[b][i] = c => <<b, i>> \in Places
      BY DEF IdleEntries
    <3>3. ReqOk(c)
      BY <2>0 DEF OwnInv
    <3>4. \A e \in Places : conn[c] = "connected" /\ bucket[c] = e[1]
                            /\ \A r \in Requests : lease[r] # c
      BY <2>0, <3>1 DEF OwnInv, IdleOk
    <3>5. \A e, f \in Places : e = f
      <4> SUFFICES ASSUME NEW e \in Places, NEW f \in Places PROVE e = f
        OBVIOUS
      <4>1. e[1] = f[1]
        BY <3>4
      <4>2. e[2] = f[2]
        BY <2>0, <3>1, <4>1 DEF OwnInv, IdleOk
      <4> QED
        BY <3>1, <4>1, <4>2
    <3>6. \A r \in Lessees : conn[c] \in OpenStates
      BY <2>0, RequestsAssumption DEF OwnInv, ReqOk, None
    <3>7. \A r, q \in Lessees : r = q
      BY <2>0, RequestsAssumption DEF OwnInv, None
    <3>8. conn[c] \in OpenStates => Places # {} \/ Lessees # {}
      <4>1. Parked(c) => Places # {}
        BY <3>2 DEF Parked
      <4> QED
        BY <3>3, <4>1 DEF ReqOk
    <3>9. Places # {} => Lessees = {} /\ conn[c] \in OpenStates
      BY <3>4 DEF OpenStates
    <3>10. Lessees # {} => conn[c] \in OpenStates
      BY <3>6
    <3> HIDE DEF Lessees, Places
    <3>11. ASSUME NEW S, \A x, y \in S : x = y, S # {}
           PROVE  Cardinality(S) = 1
      <4>1. PICK x \in S : TRUE
        BY <3>11
      <4>2. S = {x}
        BY <3>11, <4>1
      <4> QED
        BY <4>2, FS_Singleton
    <3>12. Cardinality({}) = 0
      BY FS_EmptySet
    <3>13. Lessees # {} => Cardinality(Lessees) = 1 /\ Places = {}
      BY <3>7, <3>9, <3>11
    <3>14. Places # {} => Cardinality(Places) = 1
      BY <3>5, <3>11
    <3>15. CASE conn[c] \in OpenStates
      <4>1. Cardinality(Lessees) + Cardinality(Places) = 1
        BY <3>8, <3>9, <3>12, <3>13, <3>14, <3>15
      <4> QED
        BY <3>15, <4>1 DEF OpenStates, Lessees, Places
    <3>16. CASE conn[c] \notin OpenStates
      <4>1. Cardinality(Lessees) + Cardinality(Places) = 0
        BY <3>9, <3>10, <3>12, <3>16
      <4> QED
        BY <3>16, <4>1 DEF OpenStates, Lessees, Places
    <3> QED
      BY <3>15, <3>16
  <2>2. ASSUME NEW b \in Buckets, NEW c \in Range(idle[b]) PROVE bucket[c] = b
    <3>1. PICK i \in 1..Len(idle[b]) : idle[b][i] = c
      BY <2>0 DEF TypeOK, Range
    <3> QED
      BY <2>0, <3>1 DEF OwnInv, IdleOk
  <2>3. ASSUME NEW r \in Requests
        PROVE  /\ socket[r] = "held" <=> r \in Connecting
               /\ socket[r] = "released" <=> conn[r] # "none"
    BY <2>0 DEF OwnInv, ReqOk
  <2> QED
    BY <2>1, <2>2, <2>3 DEF SingleOwner
<1> QED
  BY <1>1, PoolInvariance, PTL

\* Once stop() has begun to cancel, every connect under way has been told; once it
\* has closed the pool, nothing the pool ever opened is open or counted.
THEOREM DrainIsClean == Spec => []DrainClean
<1>1. IndInv => DrainClean
  <2> SUFFICES ASSUME IndInv PROVE DrainClean
    OBVIOUS
  <2>0. TypeOK /\ OwnInv /\ LeaseCount /\ ConnectCount /\ TotalCount /\ DrainInv
    BY DEF IndInv, CountInv
  <2>1. DrainReachesAll
    BY <2>0 DEF DrainInv
  <2>2. ClosedClean
    <3> SUFFICES ASSUME phase = "closed"
                 PROVE  /\ \A c \in Requests : conn[c] \in {"none", "destroyed"}
                        /\ \A b \in Buckets : totalCount[b] = 0 /\ connectingCount[b] = 0
      BY DEF ClosedClean
    <3>1. \A p \in Requests : /\ req[p] # "leased" /\ p \notin Connecting
                              /\ \A c \in Requests : lease[p] # c
      BY <2>0, RequestsAssumption DEF DrainInv, SessionsDone, OwnInv, ReqOk, Connecting, None
    <3>2. \A b \in Buckets : Len(idle[b]) = 0
      BY <2>0 DEF DrainInv
    <3>3. \A c \in Requests : conn[c] \notin OpenStates
      BY <2>0, <3>1, <3>2 DEF OwnInv, ReqOk, Parked
    <3>4. \A c \in Requests : conn[c] \in {"none", "destroyed"}
      BY <2>0, <3>3 DEF TypeOK, ConnStates, OpenStates
    <3>5. ASSUME NEW b \in Buckets PROVE totalCount[b] = 0 /\ connectingCount[b] = 0
      <4>1. LeasesOf(b) = {} /\ ConnectsOf(b) = {}
        BY <3>1 DEF LeasesOf, ConnectsOf, Connecting
      <4>2. leasedCount[b] = 0 /\ connectingCount[b] = 0
        BY <2>0, <4>1, FS_EmptySet DEF LeaseCount, ConnectCount
      <4> QED
        BY <2>0, <3>2, <4>2 DEF TotalCount
    <3> QED
      BY <3>4, <3>5
  <2> QED
    BY <2>1, <2>2 DEF DrainClean
<1> QED
  BY <1>1, PoolInvariance, PTL
=============================================================================
