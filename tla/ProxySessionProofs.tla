-------------------------- MODULE ProxySessionProofs --------------------------
(***************************************************************************)
(* Proofs about ProxySession for every number of sessions, every stream of *)
(* framed requests, every size of the pool and every length of responses:  *)
(* a session ends once and leaves nothing behind, what it sends belongs to *)
(* the request it serves, a request gets one whole response, and the pool  *)
(* keeps only connections that are between two messages.                   *)
(***************************************************************************)
EXTENDS ProxySession, FiniteSetTheorems, TLAPS

Seqs == INSTANCE SequenceTheorems

\* Where a session has a lease, and where it may still have one.
Uploading == {"upload", "uploadRead", "uploadWrite"}
Responding == {"response", "readResponse"}
Downloading == {"writeResponse", "download", "downloadRead", "downloadWrite"}
Serving == {"writeHead"} \cup Uploading \cup Responding \cup Downloading
Failed == {"sendError", "leave"}

\* What an upstream has of a request and the proxy of its response.
Bodies(q, r) == \A i \in 1..Len(q) : q[i].part = "body" /\ q[i].req = r

\* q begins with the head of the response to r; more of its units are in z.
Response1(q, z, r) ==
  /\ q # <<>> /\ q[1].part = "head" /\ q[1].req = r
  /\ \A i \in 2..Len(q) : q[i].part = "body" /\ q[i].req = r
  /\ Bodies(z, r) /\ Len(q) + Len(z) <= q[1].len + 1

Clean(c) == wire[c] = <<>> /\ asked[c] = NoRequest /\ owes[c] = 0

----------------------------------------------------------------------------
(* The inductive invariant *)

\* A lease is of one session, which serves a request or is about to give it up.
LeaseInv ==
  /\ \A s \in Sessions :
       /\ currentUpstream[s] = lease[s]
       /\ pc[s] \in Serving => lease[s] # None
       /\ pc[s] \notin Serving \cup Failed => lease[s] = None
       /\ lease[s] # None => place[lease[s]] = "leased"
  /\ \A s, t \in Sessions : lease[s] = lease[t] /\ lease[s] # None => s = t
  /\ \A c \in Conns : place[c] = "leased" => \E s \in Sessions : lease[s] = c

Used == {c \in Conns : place[c] # "free"}

\* The deque lists the idle connections, each once; a connection that is not
\* leased is at a message boundary; the connects under way have room.
PoolInv ==
  /\ \A i \in 1..Len(idle) : place[idle[i]] = "idle"
  /\ \A i, j \in 1..Len(idle) : idle[i] = idle[j] => i = j
  /\ \A c \in Conns : place[c] = "idle" => \E i \in 1..Len(idle) : idle[i] = c
  /\ \A c \in Conns : place[c] # "leased" => Clean(c)
  /\ Cardinality(Used) + Cardinality(Connecting) <= Cardinality(Conns)

\* One head for a request, and none before the response has begun.
HeadOk(s) ==
  /\ heads[s] = (IF s \in responseStarted THEN 1 ELSE 0)
  /\ pc[s] \in {"parse", "readRequest", "acquire", "connect", "writeHead"}
                 \cup Uploading \cup Responding => s \notin responseStarted
  /\ pc[s] \in {"new", "top"} => left[s] = 0

FinishOk(s) ==
  /\ finished[s] = (IF pc[s] = "finished" THEN 1 ELSE 0)
  /\ pc[s] = "finished" => down[s] # "connected"

\* Units of the body of the current request that the client has yet to send or
\* the proxy to take from its buffer.
ToCome(s) ==
  IF pc[s] \in {"acquire", "connect", "writeHead", "upload", "uploadRead"} THEN left[s]
  ELSE IF pc[s] = "uploadWrite" THEN left[s] - Len(chunk[s]) ELSE 0

\* What the client has sent is framed from where the session is in it.
ClientOk(s) ==
  /\ pc[s] \notin Failed \cup {"finished"} =>
       Framed(s, input[s] \o client[s], ToCome(s), current[s])
  /\ pc[s] = "uploadRead" => input[s] = <<>>
  /\ pc[s] = "uploadWrite" => Bodies(chunk[s], Request(s)) /\ Len(chunk[s]) <= left[s]
  /\ pc[s] \in {"uploadRead", "uploadWrite"} => left[s] > 0

\* The upstream of a session has been asked its request and nothing else, and
\* what is under way from it belongs to the answer.
Asking(s, c, r) ==
  /\ pc[s] = "writeHead" => Clean(c)
  /\ pc[s] \in Uploading => wire[c] = <<>> /\ asked[c] = r /\ owes[c] = left[s]

Hearing(s, c, r) ==
  /\ pc[s] = "readResponse" => upstreamInput[s] = <<>>
  /\ pc[s] \in Responding =>
       /\ owes[c] = 0
       /\ \/ asked[c] = r /\ upstreamInput[s] = <<>> /\ wire[c] = <<>>
          \/ asked[c] = NoRequest /\ upstreamInput[s] = <<>> /\ Response1(wire[c], <<>>, r)
          \/ asked[c] = NoRequest /\ Response1(upstreamInput[s], wire[c], r)

Relaying(s, c, r) ==
  /\ pc[s] \in Downloading =>
       /\ owes[c] = 0 /\ asked[c] = NoRequest
       /\ Bodies(upstreamInput[s], r) /\ Bodies(wire[c], r)
       /\ Len(upstreamInput[s]) + Len(wire[c])
            + (IF pc[s] = "downloadWrite" THEN Len(chunk[s]) ELSE 0) <= left[s]
  /\ pc[s] = "writeResponse" =>
       \A i \in 1..Len(chunk[s]) : chunk[s][i].part = "head" /\ chunk[s][i].req = r
  /\ pc[s] = "downloadWrite" => Bodies(chunk[s], r)

AnswerOk(s) ==
  /\ Asking(s, lease[s], Request(s))
  /\ Hearing(s, lease[s], Request(s))
  /\ Relaying(s, lease[s], Request(s))

SessionOk(s) == HeadOk(s) /\ FinishOk(s) /\ ClientOk(s) /\ AnswerOk(s)

IndInv == TypeOK /\ LeaseInv /\ PoolInv /\ \A s \in Sessions : SessionOk(s)

----------------------------------------------------------------------------
(* Streams *)

LEMMA PrefixRest ==
  ASSUME NEW S, NEW q \in Seq(S), NEW k \in 0..Len(q)
  PROVE  /\ Prefix(q, k) \in Seq(S) /\ Len(Prefix(q, k)) = k
         /\ \A i \in 1..k : Prefix(q, k)[i] = q[i]
         /\ Rest(q, k) \in Seq(S) /\ Len(Rest(q, k)) = Len(q) - k
         /\ \A i \in 1..(Len(q) - k) : Rest(q, k)[i] = q[k + i]
<1>0. Len(q) \in Nat /\ k \in Nat /\ k <= Len(q)
  OBVIOUS
<1>1. /\ SubSeq(q, 1, k) \in Seq(S) /\ Len(SubSeq(q, 1, k)) = k
      /\ \A i \in 1..k : SubSeq(q, 1, k)[i] = q[i]
  BY <1>0
<1>2. /\ SubSeq(q, k + 1, Len(q)) \in Seq(S) /\ Len(SubSeq(q, k + 1, Len(q))) = Len(q) - k
      /\ \A i \in 1..(Len(q) - k) : SubSeq(q, k + 1, Len(q))[i] = q[k + i]
  BY <1>0
<1> QED
  BY <1>1, <1>2 DEF Prefix, Rest

LEMMA CutIs ==
  ASSUME NEW S, NEW q \in Seq(S), NEW k \in 0..Len(q)
  PROVE  /\ Prefix(q, k) \in Seq(S) /\ Len(Prefix(q, k)) = k
         /\ Rest(q, k) \in Seq(S) /\ Len(Rest(q, k)) = Len(q) - k
  BY PrefixRest

LEMMA SeqIsFun ==
  ASSUME NEW S, NEW s \in Seq(S)
  PROVE  Len(s) \in Nat /\ DOMAIN s = 1..Len(s) /\ s = [i \in 1..Len(s) |-> s[i]]
<1>1. Len(s) \in Nat /\ s \in [1..Len(s) -> S]
  BY Seqs!LenProperties
<1> QED
  BY <1>1, Zenon

LEMMA SameSeq ==
  ASSUME NEW S, NEW s \in Seq(S), NEW t \in Seq(S), Len(s) = Len(t),
         \A i \in 1..Len(s) : s[i] = t[i]
  PROVE  s = t
<1>1. s = [i \in 1..Len(s) |-> s[i]] /\ t = [i \in 1..Len(t) |-> t[i]]
  BY SeqIsFun
<1> QED
  BY <1>1

LEMMA ConcatIs ==
  ASSUME NEW S, NEW a \in Seq(S), NEW b \in Seq(S)
  PROVE  /\ a \o b \in Seq(S) /\ Len(a \o b) = Len(a) + Len(b)
         /\ \A i \in 1..Len(a) : (a \o b)[i] = a[i]
         /\ \A i \in 1..Len(b) : (a \o b)[Len(a) + i] = b[i]
<1>0. Len(a) \in Nat /\ Len(b) \in Nat
  BY SeqIsFun
<1>1. /\ a \o b \in Seq(S) /\ Len(a \o b) = Len(a) + Len(b)
      /\ \A i \in 1..Len(a) + Len(b) : (a \o b)[i] = IF i <= Len(a) THEN a[i] ELSE b[i - Len(a)]
  BY Seqs!ConcatProperties
<1>2. \A i \in 1..Len(b) : /\ Len(a) + i \in 1..Len(a) + Len(b) /\ ~(Len(a) + i <= Len(a))
                           /\ (Len(a) + i) - Len(a) = i
  BY <1>0
<1>3. \A i \in 1..Len(a) : i \in 1..Len(a) + Len(b) /\ i <= Len(a)
  BY <1>0
<1> QED
  BY <1>1, <1>2, <1>3, Zenon

\* A read moves the cut between what is buffered and what is to come.
LEMMA ReadMoves ==
  ASSUME NEW S, NEW a \in Seq(S), NEW b \in Seq(S), NEW k \in 0..Len(b)
  PROVE  (a \o Prefix(b, k)) \o Rest(b, k) = a \o b
<1> DEFINE p == Prefix(b, k)
           r == Rest(b, k)
           l == (a \o p) \o r
           q == a \o b
<1>0. Len(a) \in Nat /\ Len(b) \in Nat /\ k \in Nat /\ k <= Len(b)
  BY SeqIsFun
<1>1. /\ p \in Seq(S) /\ Len(p) = k /\ \A i \in 1..k : p[i] = b[i]
      /\ r \in Seq(S) /\ Len(r) = Len(b) - k /\ \A i \in 1..(Len(b) - k) : r[i] = b[k + i]
  BY PrefixRest
<1>c. ASSUME NEW x \in Seq(S), NEW y \in Seq(S)
      PROVE  /\ x \o y \in Seq(S) /\ Len(x \o y) = Len(x) + Len(y)
             /\ \A i \in 1..Len(x) : (x \o y)[i] = x[i]
             /\ \A i \in 1..Len(y) : (x \o y)[Len(x) + i] = y[i]
  BY ConcatIs
<1> HIDE DEF p, r
<1>2. /\ a \o p \in Seq(S) /\ Len(a \o p) = Len(a) + Len(p)
      /\ \A i \in 1..Len(a) : (a \o p)[i] = a[i]
      /\ \A i \in 1..Len(p) : (a \o p)[Len(a) + i] = p[i]
  BY <1>1, <1>c, Zenon
<1>3. /\ l \in Seq(S) /\ Len(l) = Len(a \o p) + Len(r)
      /\ \A i \in 1..Len(a \o p) : l[i] = (a \o p)[i]
      /\ \A i \in 1..Len(r) : l[Len(a \o p) + i] = r[i]
  BY <1>1, <1>2, <1>c, Zenon
<1>4. /\ q \in Seq(S) /\ Len(q) = Len(a) + Len(b)
      /\ \A i \in 1..Len(a) : q[i] = a[i]
      /\ \A i \in 1..Len(b) : q[Len(a) + i] = b[i]
  BY ConcatIs
<1> HIDE DEF l, q
<1>5. Len(l) = Len(q)
  BY <1>0, <1>1, <1>2, <1>3, <1>4
<1>6. ASSUME NEW i \in 1..Len(l) PROVE l[i] = q[i]
  <2>1. CASE i \in 1..Len(a)
    <3>1. i \in 1..Len(a \o p)
      BY <1>0, <1>1, <1>2, <2>1
    <3> QED
      BY <1>2, <1>3, <1>4, <2>1, <3>1
  <2>2. CASE i - Len(a) \in 1..k
    <3> DEFINE j == i - Len(a)
    <3>1. /\ i = Len(a) + j /\ i \in 1..Len(a \o p) /\ j \in 1..Len(p) /\ j \in 1..Len(b) /\ j \in 1..k
      BY <1>0, <1>1, <1>2, <2>2
    <3> HIDE DEF j
    <3>2. l[i] = (a \o p)[i] /\ q[i] = b[j]
      BY <1>3, <1>4, <3>1
    <3>3. (a \o p)[i] = p[j]
      BY <1>2, <3>1
    <3> QED
      BY <1>1, <3>1, <3>2, <3>3
  <2>3. CASE i - Len(a) - k \in 1..(Len(b) - k)
    <3> DEFINE j == i - Len(a) - k
    <3>1. /\ i = Len(a) + (k + j) /\ i = Len(a \o p) + j /\ j \in 1..Len(r)
          /\ k + j \in 1..Len(b) /\ j \in 1..(Len(b) - k)
      BY <1>0, <1>1, <1>2, <2>3
    <3> HIDE DEF j
    <3>2. l[i] = r[j] /\ q[i] = b[k + j]
      BY <1>3, <1>4, <3>1
    <3> QED
      BY <1>1, <3>1, <3>2
  <2> QED
    BY <1>0, <1>1, <1>2, <1>3, <2>1, <2>2, <2>3
<1>7. l = q
  BY <1>3, <1>4, <1>5, <1>6, SameSeq
<1> QED
  BY <1>7 DEF l, q, p, r

\* The buffer is consumed from the front of the stream.
LEMMA RestOfStream ==
  ASSUME NEW S, NEW a \in Seq(S), NEW b \in Seq(S), NEW k \in 0..Len(a)
  PROVE  /\ Rest(a, k) \o b = Rest(a \o b, k)
         /\ k \in 0..Len(a \o b)
         /\ \A i \in 1..k : Prefix(a, k)[i] = (a \o b)[i]
<1> DEFINE r == Rest(a, k)
           q == a \o b
           l == r \o b
           z == Rest(q, k)
<1>0. Len(a) \in Nat /\ Len(b) \in Nat /\ k \in Nat /\ k <= Len(a)
  BY SeqIsFun
<1>1. /\ r \in Seq(S) /\ Len(r) = Len(a) - k /\ \A i \in 1..(Len(a) - k) : r[i] = a[k + i]
      /\ \A i \in 1..k : Prefix(a, k)[i] = a[i]
  BY PrefixRest
<1>2. /\ q \in Seq(S) /\ Len(q) = Len(a) + Len(b)
      /\ \A i \in 1..Len(a) : q[i] = a[i]
      /\ \A i \in 1..Len(b) : q[Len(a) + i] = b[i]
  BY ConcatIs
<1>c. ASSUME NEW x \in Seq(S), NEW y \in Seq(S)
      PROVE  /\ x \o y \in Seq(S) /\ Len(x \o y) = Len(x) + Len(y)
             /\ \A i \in 1..Len(x) : (x \o y)[i] = x[i]
             /\ \A i \in 1..Len(y) : (x \o y)[Len(x) + i] = y[i]
  BY ConcatIs
<1> HIDE DEF r, q
<1>3. k \in 0..Len(q) /\ \A i \in 1..k : i \in 1..Len(a)
  BY <1>0, <1>2
<1>4. /\ l \in Seq(S) /\ Len(l) = Len(r) + Len(b)
      /\ \A i \in 1..Len(r) : l[i] = r[i]
      /\ \A i \in 1..Len(b) : l[Len(r) + i] = b[i]
  BY <1>1, <1>c, Zenon
<1>5. /\ z \in Seq(S) /\ Len(z) = Len(q) - k
      /\ \A i \in 1..(Len(q) - k) : z[i] = q[k + i]
  BY <1>2, <1>3, PrefixRest
<1> HIDE DEF l, z
<1>6. Len(l) = Len(z)
  BY <1>0, <1>1, <1>2, <1>4, <1>5
<1>7. ASSUME NEW i \in 1..Len(l) PROVE l[i] = z[i]
  <2>1. i \in 1..(Len(q) - k)
    BY <1>5, <1>6
  <2>2. CASE i \in 1..Len(r)
    <3>1. k + i \in 1..Len(a) /\ i \in 1..(Len(a) - k)
      BY <1>0, <1>1, <2>2
    <3> QED
      BY <1>1, <1>2, <1>4, <1>5, <2>1, <2>2, <3>1
  <2>3. CASE i - Len(r) \in 1..Len(b)
    <3> DEFINE j == i - Len(r)
    <3>1. i = Len(r) + j /\ k + i = Len(a) + j /\ j \in 1..Len(b)
      BY <1>0, <1>1, <2>3
    <3> HIDE DEF j
    <3> QED
      BY <1>2, <1>4, <1>5, <2>1, <3>1
  <2> QED
    BY <1>0, <1>1, <1>4, <2>2, <2>3, SMTT(30)
<1>8. l = z
  BY <1>4, <1>5, <1>6, <1>7, SameSeq
<1> QED
  BY <1>1, <1>2, <1>3, <1>8 DEF l, z, q, r

\* Units of a body are taken from a framed stream ...
LEMMA FramedRest ==
  ASSUME NEW s, NEW q \in Seq(Token), NEW m \in Nat, NEW n \in Nat, NEW k \in 0..Len(q),
         Framed(s, q, m, n), k <= m
  PROVE  /\ Framed(s, Rest(q, k), m - k, n)
         /\ \A i \in 1..k : q[i].part = "body" /\ q[i].req = <<s, n>>
<1>0. Len(q) \in Nat /\ k \in Nat /\ k <= Len(q)
  BY SeqIsFun
<1> DEFINE r == Rest(q, k)
<1>1. r \in Seq(Token) /\ Len(r) = Len(q) - k /\ \A i \in 1..(Len(q) - k) : r[i] = q[k + i]
  BY PrefixRest
<1> HIDE DEF r
<1>2. \A i \in 1..Len(q) :
        /\ i <= m => q[i].part = "body" /\ q[i].req = <<s, n>>
        /\ i = m + 1 => q[i].part = "head" /\ q[i].req = <<s, n + 1>>
        /\ q[i].part = "head" => \A j \in 1..(q[i].len + 1) : i + j <= Len(q) =>
             IF j <= q[i].len THEN q[i + j].part = "body" /\ q[i + j].req = q[i].req
             ELSE q[i + j].part = "head" /\ q[i + j].req = <<s, q[i].req[2] + 1>>
  BY DEF Framed
<1>3. ASSUME NEW i \in 1..Len(r)
      PROVE  /\ i <= m - k => r[i].part = "body" /\ r[i].req = <<s, n>>
             /\ i = m - k + 1 => r[i].part = "head" /\ r[i].req = <<s, n + 1>>
             /\ r[i].part = "head" => \A j \in 1..(r[i].len + 1) : i + j <= Len(r) =>
                  IF j <= r[i].len THEN r[i + j].part = "body" /\ r[i + j].req = r[i].req
                  ELSE r[i + j].part = "head" /\ r[i + j].req = <<s, r[i].req[2] + 1>>
  <2>1. /\ i \in Nat /\ k + i \in 1..Len(q) /\ r[i] = q[k + i] /\ r[i] \in Token
        /\ i <= m - k => k + i <= m
        /\ i = m - k + 1 => k + i = m + 1
    BY <1>0, <1>1, SMTT(30)
  <2>2. r[i].len \in Nat
    BY <2>1 DEF Token
  <2>3. ASSUME NEW j \in 1..(r[i].len + 1), i + j <= Len(r)
        PROVE  r[i + j] = q[k + i + j] /\ k + i + j <= Len(q)
    <3>1. i + j \in 1..(Len(q) - k) /\ k + (i + j) = k + i + j /\ k + i + j <= Len(q)
      BY <1>0, <1>1, <2>1, <2>2, <2>3
    <3> QED
      BY <1>1, <3>1
  <2>4. ASSUME r[i].part = "head", NEW j \in 1..(r[i].len + 1), i + j <= Len(r)
        PROVE  IF j <= r[i].len THEN r[i + j].part = "body" /\ r[i + j].req = r[i].req
               ELSE r[i + j].part = "head" /\ r[i + j].req = <<s, r[i].req[2] + 1>>
    <3>1. q[k + i].part = "head" /\ j \in 1..(q[k + i].len + 1) /\ (k + i) + j <= Len(q)
          /\ r[i + j] = q[(k + i) + j]
      BY <2>1, <2>3, <2>4
    <3>2. IF j <= q[k + i].len THEN q[(k + i) + j].part = "body" /\ q[(k + i) + j].req = q[k + i].req
          ELSE q[(k + i) + j].part = "head" /\ q[(k + i) + j].req = <<s, q[k + i].req[2] + 1>>
      BY <1>2, <2>1, <3>1, Zenon
    <3> QED
      BY <2>1, <3>1, <3>2, Zenon
  <2> QED
    BY <1>2, <2>1, <2>4
<1>4. Framed(s, r, m - k, n)
  BY <1>3 DEF Framed
<1>5. \A i \in 1..k : i \in 1..Len(q) /\ i <= m
  BY <1>0
<1> QED
  BY <1>2, <1>4, <1>5 DEF r

\* ... and the head of the next request.
LEMMA FramedHead ==
  ASSUME NEW s, NEW q \in Seq(Token), NEW n \in Nat, q # <<>>, Framed(s, q, 0, n)
  PROVE  /\ q[1].part = "head" /\ q[1].req = <<s, n + 1>> /\ q[1].len \in Nat
         /\ Framed(s, Rest(q, 1), q[1].len, n + 1)
<1>0. Len(q) \in Nat /\ 1 <= Len(q)
  BY SeqIsFun
<1> DEFINE r == Rest(q, 1)
<1>1. r \in Seq(Token) /\ Len(r) = Len(q) - 1 /\ \A i \in 1..(Len(q) - 1) : r[i] = q[1 + i]
  BY <1>0, PrefixRest
<1> HIDE DEF r
<1>2. \A i \in 1..Len(q) :
        /\ i = 0 + 1 => q[i].part = "head" /\ q[i].req = <<s, n + 1>>
        /\ q[i].part = "head" => \A j \in 1..(q[i].len + 1) : i + j <= Len(q) =>
             IF j <= q[i].len THEN q[i + j].part = "body" /\ q[i + j].req = q[i].req
             ELSE q[i + j].part = "head" /\ q[i + j].req = <<s, q[i].req[2] + 1>>
  BY DEF Framed
<1>3. /\ 1 \in 1..Len(q) /\ q[1] \in Token /\ q[1].len \in Nat
      /\ q[1].part = "head" /\ q[1].req = <<s, n + 1>>
  <2>1. 1 \in 1..Len(q) /\ 1 = 0 + 1
    BY <1>0
  <2>2. q[1] \in Token
    BY <2>1
  <2> QED
    BY <1>2, <2>1, <2>2 DEF Token
<1>4. q[1].req[2] + 1 = n + 1 + 1
  BY <1>3
<1> DEFINE m == q[1].len
<1>5. ASSUME NEW i \in 1..Len(r)
      PROVE  /\ i <= m => r[i].part = "body" /\ r[i].req = <<s, n + 1>>
             /\ i = m + 1 => r[i].part = "head" /\ r[i].req = <<s, n + 1 + 1>>
             /\ r[i].part = "head" => \A j \in 1..(r[i].len + 1) : i + j <= Len(r) =>
                  IF j <= r[i].len THEN r[i + j].part = "body" /\ r[i + j].req = r[i].req
                  ELSE r[i + j].part = "head" /\ r[i + j].req = <<s, r[i].req[2] + 1>>
  <2>1. /\ i \in Nat /\ 1 + i \in 1..Len(q) /\ r[i] = q[1 + i] /\ r[i] \in Token
        /\ 1 + i <= Len(q)
    BY <1>0, <1>1
  <2>2. r[i].len \in Nat
    BY <2>1 DEF Token
  <2>3. i <= m => r[i].part = "body" /\ r[i].req = <<s, n + 1>>
    <3>1. i <= m => i \in 1..(q[1].len + 1)
      BY <1>3, <2>1
    <3> QED
      BY <1>2, <1>3, <2>1, <3>1
  <2>4. i = m + 1 => r[i].part = "head" /\ r[i].req = <<s, n + 1 + 1>>
    <3>1. i = m + 1 => i \in 1..(q[1].len + 1) /\ ~(i <= q[1].len)
      BY <1>3, <2>1, SMTT(30)
    <3> QED
      BY <1>2, <1>3, <1>4, <2>1, <3>1
  <2>5. ASSUME NEW j \in 1..(r[i].len + 1), i + j <= Len(r)
        PROVE  r[i + j] = q[1 + i + j] /\ 1 + i + j <= Len(q)
    <3>1. i + j \in 1..(Len(q) - 1) /\ 1 + (i + j) = 1 + i + j /\ 1 + i + j <= Len(q)
      BY <1>0, <1>1, <2>1, <2>2, <2>5
    <3> QED
      BY <1>1, <3>1
  <2>6. ASSUME r[i].part = "head", NEW j \in 1..(r[i].len + 1), i + j <= Len(r)
        PROVE  IF j <= r[i].len THEN r[i + j].part = "body" /\ r[i + j].req = r[i].req
               ELSE r[i + j].part = "head" /\ r[i + j].req = <<s, r[i].req[2] + 1>>
    <3>1. q[1 + i].part = "head" /\ j \in 1..(q[1 + i].len + 1) /\ (1 + i) + j <= Len(q)
          /\ r[i + j] = q[(1 + i) + j]
      BY <2>1, <2>5, <2>6
    <3>2. IF j <= q[1 + i].len THEN q[(1 + i) + j].part = "body" /\ q[(1 + i) + j].req = q[1 + i].req
          ELSE q[(1 + i) + j].part = "head" /\ q[(1 + i) + j].req = <<s, q[1 + i].req[2] + 1>>
      BY <1>2, <2>1, <3>1, Zenon
    <3> QED
      BY <2>1, <3>1, <3>2, Zenon
  <2> QED
    BY <2>3, <2>4, <2>6
<1>6. Framed(s, r, m, n + 1)
  BY <1>5 DEF Framed
<1> QED
  BY <1>3, <1>6 DEF r

----------------------------------------------------------------------------
(* Frames *)

States == {"new", "finished"} \cup Awaits \cup Running

\* The coroutine of s is at p after the step.
Moves(s, p) ==
  /\ pc' \in [Sessions -> States] /\ pc'[s] = p
  /\ \A t \in Sessions : t # s => pc'[t] = pc[t]
  /\ op' \in [Sessions -> {"none", "submitted", "immediate"}]
  /\ cancelling' \subseteq Sessions

\* A step leaves what the invariant says of t alone, but for its lease.
Untouched(t) ==
  /\ pc'[t] = pc[t] /\ finished'[t] = finished[t] /\ heads'[t] = heads[t]
  /\ (t \in responseStarted') = (t \in responseStarted)
  /\ down[t] # "connected" => down'[t] # "connected"
  /\ client'[t] = client[t] /\ input'[t] = input[t]
  /\ upstreamInput'[t] = upstreamInput[t] /\ chunk'[t] = chunk[t]
  /\ current'[t] = current[t] /\ left'[t] = left[t]

UpstreamSame(c) == wire'[c] = wire[c] /\ asked'[c] = asked[c] /\ owes'[c] = owes[c]

LEMMA SessionKept ==
  ASSUME NEW t \in Sessions, Untouched(t), lease'[t] = lease[t], SessionOk(t),
         pc[t] \in Serving => UpstreamSame(lease[t])
  PROVE  SessionOk(t)'
<1>1. HeadOk(t)' /\ FinishOk(t)'
  BY DEF HeadOk, FinishOk, SessionOk, Untouched
<1>2. ClientOk(t)'
  <2>1. ToCome(t)' = ToCome(t) /\ Request(t)' = Request(t)
    BY DEF ToCome, Request, Untouched
  <2>2. ClientOk(t)
    BY DEF SessionOk
  <2> QED
    BY <2>1, <2>2, Zenon DEF ClientOk, Untouched
<1>3. AnswerOk(t)'
  <2>1. Request(t)' = Request(t)
    BY DEF Request, Untouched
  <2>2. AnswerOk(t)
    BY DEF SessionOk
  <2>3. CASE pc[t] \notin Serving
    BY <2>3 DEF AnswerOk, Asking, Hearing, Relaying, Untouched, Serving, Uploading,
         Responding, Downloading
  <2>4. CASE pc[t] \in Serving
    <3>0. UpstreamSame(lease[t])
      BY <2>4
    <3>1. Asking(t, lease[t], Request(t)) /\ Hearing(t, lease[t], Request(t))
          /\ Relaying(t, lease[t], Request(t))
      BY <2>2 DEF AnswerOk
    <3>2. Asking(t, lease[t], Request(t))'
      BY <2>1, <3>0, <3>1, Zenon DEF Asking, Clean, Untouched, UpstreamSame
    <3>3. Hearing(t, lease[t], Request(t))'
      BY <2>1, <3>0, <3>1, Zenon DEF Hearing, Untouched, UpstreamSame
    <3>4. Relaying(t, lease[t], Request(t))'
      BY <2>1, <3>0, <3>1, Zenon DEF Relaying, Untouched, UpstreamSame
    <3> QED
      BY <3>2, <3>3, <3>4 DEF AnswerOk
  <2> QED
    BY <2>3, <2>4
<1> QED
  BY <1>1, <1>2, <1>3 DEF SessionOk

LEMMA Moving ==
  ASSUME TypeOK, NEW s \in Sessions, NEW p \in States, Run(s, p) \/ Await(s, p)
  PROVE  Moves(s, p)
<1>1. pc' = [pc EXCEPT ![s] = p] /\ pc \in [Sessions -> States]
  BY DEF Run, Await, TypeOK, States
<1>2. pc' \in [Sessions -> States] /\ pc'[s] = p /\ \A t \in Sessions : t # s => pc'[t] = pc[t]
  BY <1>1
<1>3. cancelling' \subseteq Sessions
  BY DEF Run, Await, TypeOK
<1>4. op' \in [Sessions -> {"none", "submitted", "immediate"}]
  BY ZenonT(30) DEF Run, Await, TypeOK, Submitted
<1> QED
  BY <1>2, <1>3, <1>4 DEF Moves

\* A session that has failed: nothing is said of its streams any more.
LEMMA FailedOk ==
  ASSUME NEW s \in Sessions, pc'[s] \in Failed, pc[s] # "finished", FinishOk(s),
         finished'[s] = finished[s], heads'[s] = (IF s \in responseStarted' THEN 1 ELSE 0)
  PROVE  SessionOk(s)'
<1>1. HeadOk(s)'
  BY DEF HeadOk, Failed, Uploading, Responding
<1>2. FinishOk(s)'
  BY DEF FinishOk, Failed
<1>3. ClientOk(s)'
  BY DEF ClientOk, Failed
<1>4. AnswerOk(s)'
  BY DEF AnswerOk, Asking, Hearing, Relaying, Failed, Uploading, Responding, Downloading
<1> QED
  BY <1>1, <1>2, <1>3, <1>4 DEF SessionOk

LEMMA SendErrorFacts ==
  ASSUME TypeOK, NEW s \in Sessions, HeadOk(s), SendError(s), s \notin responseStarted
  PROVE  /\ Moves(s, "sendError")
         /\ heads' = [heads EXCEPT ![s] = 1] /\ responseStarted' = responseStarted \cup {s}
<1>1. Await(s, "sendError") /\ heads' = [heads EXCEPT ![s] = @ + 1]
      /\ responseStarted' = responseStarted \cup {s}
  BY DEF SendError
<1>2. Moves(s, "sendError")
  BY <1>1, Moving DEF States, Awaits, DownstreamOps
<1>3. heads[s] = 0
  BY DEF HeadOk
<1> QED
  BY <1>1, <1>2, <1>3

LEMMA Finite ==
  /\ IsFiniteSet(Used) /\ IsFiniteSet(Connecting)
  /\ Cardinality(Used) \in Nat /\ Cardinality(Connecting) \in Nat /\ Cardinality(Conns) \in Nat
<1>1. Used \subseteq Conns /\ Connecting \subseteq Sessions
  BY DEF Used, Connecting
<1>2. IsFiniteSet(Conns) /\ IsFiniteSet(Sessions)
  BY ConnAssumption DEF ConnAssumption
<1>3. IsFiniteSet(Used) /\ IsFiniteSet(Connecting)
  BY <1>1, <1>2, FS_Subset
<1> QED
  BY <1>2, <1>3, FS_CardinalityType

\* What is used and being connected fits: fewer of both do, too ...
LEMMA LessFits ==
  ASSUME NEW A, NEW B, NEW C, NEW D, NEW N \in Nat, IsFiniteSet(A), IsFiniteSet(C),
         B \subseteq A, D \subseteq C, Cardinality(A) + Cardinality(C) <= N
  PROVE  Cardinality(B) + Cardinality(D) <= N
<1>1. /\ IsFiniteSet(B) /\ Cardinality(B) <= Cardinality(A)
      /\ IsFiniteSet(D) /\ Cardinality(D) <= Cardinality(C)
  BY FS_Subset
<1>2. /\ Cardinality(A) \in Nat /\ Cardinality(B) \in Nat
      /\ Cardinality(C) \in Nat /\ Cardinality(D) \in Nat
  BY <1>1, FS_CardinalityType
<1> QED
  BY <1>1, <1>2

\* ... and where there is room, one more.
LEMMA OneMoreFits ==
  ASSUME NEW A, NEW C, NEW x, NEW N \in Nat, IsFiniteSet(A), IsFiniteSet(C),
         Cardinality(A) + Cardinality(C) < N
  PROVE  /\ Cardinality(A \cup {x}) + Cardinality(C) <= N
         /\ Cardinality(A) + Cardinality(C \cup {x}) <= N
<1>1. ASSUME NEW S, IsFiniteSet(S)
      PROVE  Cardinality(S) \in Nat /\ Cardinality(S \cup {x}) \in Nat
             /\ Cardinality(S \cup {x}) <= Cardinality(S) + 1
  <2>1. IsFiniteSet(S \cup {x}) /\ (Cardinality(S \cup {x}) = Cardinality(S)
                                    \/ Cardinality(S \cup {x}) = Cardinality(S) + 1)
    BY <1>1, FS_AddElement
  <2>2. Cardinality(S) \in Nat /\ Cardinality(S \cup {x}) \in Nat
    BY <1>1, <2>1, FS_CardinalityType
  <2> QED
    BY <2>1, <2>2
<1>2. Cardinality(A) \in Nat /\ Cardinality(A \cup {x}) \in Nat
             /\ Cardinality(A \cup {x}) <= Cardinality(A) + 1
  BY <1>1
<1>3. Cardinality(C) \in Nat /\ Cardinality(C \cup {x}) \in Nat
             /\ Cardinality(C \cup {x}) <= Cardinality(C) + 1
  BY <1>1
<1> QED
  BY <1>2, <1>3

\* A step of one session that leaves the pool and the leases as they are.
LEMMA LocalStep ==
  ASSUME IndInv, TypeOK', NEW s \in Sessions, NEW p \in States, Moves(s, p), p # "connect",
         UNCHANGED <<leaseVars, poolVars>>,
         p \in Serving => lease[s] # None,
         p \notin Serving \cup Failed => lease[s] = None,
         \A t \in Sessions : t # s => Untouched(t),
         \A c \in Conns : c # lease[s] => UpstreamSame(c),
         SessionOk(s)'
  PROVE  IndInv'
<1>1. LeaseInv'
  BY DEF IndInv, LeaseInv, Moves, leaseVars, poolVars
<1>2. PoolInv'
  <2>0. PoolInv /\ LeaseInv
    BY DEF IndInv
  <2>1. Connecting' \subseteq Connecting /\ Connecting \subseteq Sessions
    BY DEF Moves, Connecting
  <2>3. \A c \in Conns : place'[c] # "leased" => Clean(c)'
    <3> SUFFICES ASSUME NEW c \in Conns, place'[c] # "leased" PROVE Clean(c)'
      OBVIOUS
    <3>1. place[c] # "leased" /\ Clean(c)
      BY <2>0 DEF PoolInv, poolVars
    <3>2. c # lease[s]
      BY <2>0, <3>1, ConnAssumption DEF LeaseInv, ConnAssumption
    <3> QED
      BY <3>1, <3>2 DEF UpstreamSame, Clean
  <2>4. Used' = Used
    BY DEF Used, poolVars
  <2>7. Cardinality(Used') + Cardinality(Connecting') <= Cardinality(Conns)
    <3>1. Cardinality(Used) + Cardinality(Connecting) <= Cardinality(Conns)
      BY <2>0 DEF PoolInv
    <3> QED
      BY <2>1, <2>4, <3>1, Finite, LessFits
  <2> QED
    BY <2>0, <2>3, <2>7 DEF PoolInv, poolVars
<1>3. ASSUME NEW t \in Sessions PROVE SessionOk(t)'
  <2>1. CASE t = s
    BY <2>1
  <2>2. CASE t # s
    <3>1. SessionOk(t) /\ Untouched(t) /\ lease'[t] = lease[t]
      BY <2>2 DEF IndInv, leaseVars
    <3>2. pc[t] \in Serving => lease[t] \in Conns /\ lease[t] # lease[s]
      BY <2>2 DEF IndInv, LeaseInv, TypeOK
    <3> QED
      BY <3>1, <3>2, SessionKept
  <2> QED
    BY <2>1, <2>2
<1> QED
  BY <1>1, <1>2, <1>3 DEF IndInv

----------------------------------------------------------------------------
(* The steps that leave the pool as it is *)

LEMMA StartInv ==
  ASSUME IndInv, NEW s \in Sessions, Start(s)
  PROVE  IndInv'
<1> USE DEF Start, sessionVars, dataVars, leaseVars, poolVars, upstreamVars
<1>0. TypeOK /\ SessionOk(s) /\ lease[s] = None
  BY DEF IndInv, LeaseInv, Serving, Failed, Uploading, Responding, Downloading
<1>1. Moves(s, "top")
  BY <1>0, Moving DEF States, Running
<1>2. TypeOK'
  BY <1>0, <1>1 DEF TypeOK, Moves, States
<1>3. \A t \in Sessions : t # s => Untouched(t)
  BY <1>1 DEF Untouched, Moves
<1>4. SessionOk(s)'
  <2>0. HeadOk(s) /\ FinishOk(s) /\ ClientOk(s) /\ pc[s] = "new" /\ pc'[s] = "top"
    BY <1>0, <1>1 DEF SessionOk, Moves
  <2>1. HeadOk(s)' /\ FinishOk(s)'
    BY <2>0 DEF HeadOk, FinishOk, Uploading, Responding
  <2>2. ToCome(s) = 0 /\ ToCome(s)' = 0
    BY <2>0 DEF ToCome
  <2>3. ClientOk(s)'
    BY <2>0, <2>2 DEF ClientOk, Failed
  <2>4. AnswerOk(s)'
    BY <2>0 DEF AnswerOk, Asking, Hearing, Relaying, Uploading, Responding, Downloading
  <2> QED
    BY <2>1, <2>3, <2>4 DEF SessionOk
<1>5. \A c \in Conns : UpstreamSame(c)
  BY DEF UpstreamSame
<1> QED
  BY <1>0, <1>1, <1>2, <1>3, <1>4, <1>5, LocalStep DEF States, Running, Serving, Uploading,
     Responding, Downloading

LEMMA TopInv ==
  ASSUME IndInv, NEW s \in Sessions, Top(s)
  PROVE  IndInv'
<1> USE DEF Top, sessionVars, dataVars, leaseVars, poolVars, upstreamVars
<1>0. TypeOK /\ SessionOk(s) /\ lease[s] = None
  BY DEF IndInv, LeaseInv, Serving, Failed, Uploading, Responding, Downloading
<1> DEFINE p == IF s \in cancelled THEN "leave" ELSE "parse"
<1>1. Moves(s, p)
  BY <1>0, Moving DEF States, Running
<1>2. TypeOK'
  BY <1>0, <1>1 DEF TypeOK, Moves, States
<1>3. \A t \in Sessions : t # s => Untouched(t)
  BY <1>0, <1>1 DEF Untouched, Moves, TypeOK
<1>4. SessionOk(s)'
  <2>0. HeadOk(s) /\ FinishOk(s) /\ ClientOk(s) /\ pc[s] = "top" /\ pc'[s] \in {"leave", "parse"}
        /\ heads'[s] = 0 /\ s \notin responseStarted'
    BY <1>0, <1>1 DEF SessionOk, Moves, TypeOK
  <2>1. HeadOk(s)' /\ FinishOk(s)'
    BY <2>0 DEF HeadOk, FinishOk, Uploading, Responding
  <2>2. ToCome(s) = 0 /\ ToCome(s)' = 0
    BY <2>0 DEF ToCome
  <2>3. ClientOk(s)'
    BY <2>0, <2>2 DEF ClientOk, Failed
  <2>4. AnswerOk(s)'
    BY <2>0 DEF AnswerOk, Asking, Hearing, Relaying, Uploading, Responding, Downloading
  <2> QED
    BY <2>1, <2>3, <2>4 DEF SessionOk
<1>5. \A c \in Conns : UpstreamSame(c)
  BY DEF UpstreamSame
<1> QED
  BY <1>0, <1>1, <1>2, <1>3, <1>4, <1>5, LocalStep DEF States, Running, Serving, Uploading,
     Responding, Downloading, Failed

\* An error is sent before the response has begun ...
LEMMA ErrorStep ==
  ASSUME IndInv, NEW s \in Sessions, SendError(s), pc[s] # "finished", s \notin responseStarted,
         UNCHANGED <<peer, cancelled, finished, down, monitor, dataVars, leaseVars, poolVars,
                     accepting, upstreamVars>>
  PROVE  IndInv'
<1> USE DEF dataVars, leaseVars, poolVars, upstreamVars
<1>0. TypeOK /\ HeadOk(s) /\ FinishOk(s)
  BY DEF IndInv, SessionOk
<1>1. /\ Moves(s, "sendError")
      /\ heads' = [heads EXCEPT ![s] = 1] /\ responseStarted' = responseStarted \cup {s}
  BY <1>0, SendErrorFacts
<1>2. TypeOK'
  BY <1>0, <1>1 DEF TypeOK, Moves, States
<1>3. \A t \in Sessions : t # s => Untouched(t)
  BY <1>0, <1>1 DEF Untouched, Moves, TypeOK
<1>4. SessionOk(s)'
  <2>1. pc'[s] \in Failed /\ heads'[s] = (IF s \in responseStarted' THEN 1 ELSE 0)
    BY <1>0, <1>1 DEF Moves, Failed, TypeOK
  <2> QED
    BY <1>0, <2>1, FailedOk
<1>5. \A c \in Conns : UpstreamSame(c)
  BY DEF UpstreamSame
<1> QED
  BY <1>1, <1>2, <1>3, <1>4, <1>5, LocalStep DEF States, Awaits, DownstreamOps, Serving,
     Uploading, Responding, Downloading, Failed

\* ... or the session gives up.
LEMMA GiveUpStep ==
  ASSUME IndInv, NEW s \in Sessions, Run(s, "leave"), pc[s] # "finished",
         UNCHANGED <<peer, responseStarted, sessionVars, dataVars, leaseVars, poolVars,
                     accepting, upstreamVars>>
  PROVE  IndInv'
<1> USE DEF sessionVars, dataVars, leaseVars, poolVars, upstreamVars
<1>0. TypeOK /\ HeadOk(s) /\ FinishOk(s)
  BY DEF IndInv, SessionOk
<1>1. Moves(s, "leave")
  BY <1>0, Moving DEF States, Running
<1>2. TypeOK'
  BY <1>0, <1>1 DEF TypeOK, Moves, States
<1>3. \A t \in Sessions : t # s => Untouched(t)
  BY <1>0, <1>1 DEF Untouched, Moves, TypeOK
<1>4. SessionOk(s)'
  <2>1. pc'[s] \in Failed /\ heads'[s] = (IF s \in responseStarted' THEN 1 ELSE 0)
    BY <1>0, <1>1 DEF Moves, Failed, HeadOk
  <2> QED
    BY <1>0, <2>1, FailedOk
<1>5. \A c \in Conns : UpstreamSame(c)
  BY DEF UpstreamSame
<1> QED
  BY <1>1, <1>2, <1>3, <1>4, <1>5, LocalStep DEF States, Running, Serving, Uploading,
     Responding, Downloading, Failed

LEMMA AcquireRefusedInv ==
  ASSUME IndInv, NEW s \in Sessions, AcquireRefused(s)
  PROVE  IndInv'
<1>1. HeadOk(s) /\ pc[s] = "acquire"
  BY DEF IndInv, SessionOk, AcquireRefused
<1>2. s \notin responseStarted
  BY <1>1 DEF HeadOk
<1> QED
  BY <1>1, <1>2, ErrorStep DEF AcquireRefused

LEMMA FailInv ==
  ASSUME IndInv, NEW s \in Sessions, Fail(s)
  PROVE  IndInv'
<1>0. HeadOk(s)
  BY DEF IndInv, SessionOk
<1>1. CASE pc[s] \in {"readRequest", "connect", "uploadRead", "readResponse", "writeHead",
                      "uploadWrite"} /\ SendError(s)
  <2>1. s \notin responseStarted /\ pc[s] # "finished"
    BY <1>0, <1>1 DEF HeadOk, Uploading, Responding
  <2> QED
    BY <1>1, <2>1, ErrorStep DEF Fail
<1>2. CASE /\ pc[s] \in {"readRequest", "writeResponse", "downloadRead", "downloadWrite",
                         "sendError"}
           /\ Run(s, "leave") /\ UNCHANGED <<heads, responseStarted>>
  <2>1. UNCHANGED sessionVars /\ pc[s] # "finished"
    BY <1>2 DEF Fail, sessionVars
  <2> QED
    BY <1>2, <2>1, GiveUpStep DEF Fail
<1> QED
  BY <1>1, <1>2 DEF Fail

\* What is read of a request, or buffered of it, is what the client has sent next.
LEMMA ReadRequestInv ==
  ASSUME IndInv, NEW s \in Sessions, ReadRequest(s)
  PROVE  IndInv'
<1> USE DEF ReadRequest, InFlight, sessionVars, dataVars, leaseVars, poolVars, upstreamVars
<1>0. TypeOK /\ SessionOk(s) /\ lease[s] = None /\ pc[s] = "readRequest"
  BY DEF IndInv, LeaseInv, Serving, Failed, Uploading, Responding, Downloading
<1>1. Moves(s, "parse")
  BY <1>0, Moving DEF States, Running
<1>2. PICK k \in 1..Len(client[s]) :
        /\ input' = [input EXCEPT ![s] = @ \o Prefix(client[s], k)]
        /\ client' = [client EXCEPT ![s] = Rest(@, k)]
  BY <1>0
<1>3. client[s] \in Seq(Token) /\ input[s] \in Seq(Token) /\ k \in 0..Len(client[s])
  BY <1>0, <1>2 DEF TypeOK
<1>4. /\ Prefix(client[s], k) \in Seq(Token) /\ Rest(client[s], k) \in Seq(Token)
      /\ input[s] \o Prefix(client[s], k) \in Seq(Token)
  BY <1>3, PrefixRest
<1>5. input' \in [Sessions -> Seq(Token)] /\ client' \in [Sessions -> Seq(Token)]
  BY <1>0, <1>2, <1>4 DEF TypeOK
<1>6. TypeOK'
  BY <1>0, <1>1, <1>5 DEF TypeOK, Moves, States
<1>7. \A t \in Sessions : t # s => Untouched(t)
  BY <1>0, <1>1, <1>2 DEF Untouched, Moves, TypeOK
<1>8. SessionOk(s)'
  <2>0. HeadOk(s) /\ FinishOk(s) /\ ClientOk(s) /\ pc'[s] = "parse"
    BY <1>0, <1>1 DEF SessionOk, Moves
  <2>1. HeadOk(s)' /\ FinishOk(s)'
    BY <1>0, <2>0 DEF HeadOk, FinishOk, Uploading, Responding
  <2>2. ToCome(s) = 0 /\ ToCome(s)' = 0 /\ current'[s] = current[s]
    BY <1>0, <2>0 DEF ToCome
  <2>3. input'[s] \o client'[s] = input[s] \o client[s]
    <3>1. input'[s] = input[s] \o Prefix(client[s], k) /\ client'[s] = Rest(client[s], k)
      BY <1>0, <1>2 DEF TypeOK
    <3>2. (input[s] \o Prefix(client[s], k)) \o Rest(client[s], k) = input[s] \o client[s]
      BY <1>3, ReadMoves, ZenonT(30)
    <3> QED
      BY <3>1, <3>2, Zenon
  <2>4. Framed(s, input[s] \o client[s], 0, current[s])
    BY <1>0, <2>0, <2>2 DEF ClientOk, Failed
  <2>5. ClientOk(s)'
    BY <2>0, <2>2, <2>3, <2>4 DEF ClientOk, Failed
  <2>6. AnswerOk(s)'
    BY <2>0 DEF AnswerOk, Asking, Hearing, Relaying, Uploading, Responding, Downloading
  <2> QED
    BY <2>1, <2>5, <2>6 DEF SessionOk
<1>9. \A c \in Conns : UpstreamSame(c)
  BY DEF UpstreamSame
<1> QED
  BY <1>0, <1>1, <1>6, <1>7, <1>8, <1>9, LocalStep DEF States, Running, Serving, Uploading,
     Responding, Downloading, Failed

LEMMA HeadTail ==
  ASSUME NEW S, NEW q \in Seq(S), q # <<>>
  PROVE  /\ 1 \in 1..Len(q) /\ 1 \in 0..Len(q) /\ Head(q) = q[1] /\ Head(q) \in S
         /\ Tail(q) \in Seq(S) /\ Tail(q) = Rest(q, 1)
         /\ Prefix(q, 1) = <<Head(q)>>
<1>1. Len(q) \in Nat /\ Len(q) >= 1 /\ Head(q) = q[1] /\ Head(q) \in S /\ Tail(q) \in Seq(S)
  OBVIOUS
<1>2. 1 \in 1..Len(q) /\ 1 \in 0..Len(q)
  BY <1>1
<1>3. /\ Rest(q, 1) \in Seq(S) /\ Len(Rest(q, 1)) = Len(q) - 1
      /\ \A i \in 1..(Len(q) - 1) : Rest(q, 1)[i] = q[1 + i]
      /\ Prefix(q, 1) \in Seq(S) /\ Len(Prefix(q, 1)) = 1 /\ \A i \in 1..1 : Prefix(q, 1)[i] = q[i]
  BY <1>2, PrefixRest, ZenonT(30)
<1>4. Len(Tail(q)) = Len(q) - 1 /\ \A i \in 1..(Len(q) - 1) : Tail(q)[i] = q[1 + i]
  <2>1. /\ Len(Tail(q)) = Len(q) - 1
        /\ \A i \in 1..Len(q) - 1 : Tail(q)[i] = q[i + 1]
    BY <1>1
  <2>2. \A i \in 1..(Len(q) - 1) : i + 1 = 1 + i
    BY <1>1
  <2> QED
    BY <2>1, <2>2
<1>5. Tail(q) = Rest(q, 1)
  BY <1>1, <1>3, <1>4, SameSeq
<1>6. Prefix(q, 1) = <<Head(q)>>
  <2>1. <<Head(q)>> \in Seq(S) /\ Len(<<Head(q)>>) = 1 /\ \A i \in 1..1 : <<Head(q)>>[i] = q[i]
    BY <1>1
  <2> QED
    BY <1>3, <2>1, SameSeq
<1> QED
  BY <1>1, <1>2, <1>5, <1>6

\* The same of what is buffered, a, before what is to come, b.
LEMMA HeadFramed ==
  ASSUME NEW s, NEW a \in Seq(Token), NEW b \in Seq(Token), NEW n \in Nat, a # <<>>,
         Framed(s, a \o b, 0, n)
  PROVE  Framed(s, Rest(a, 1) \o b, a[1].len, n + 1)
<1> DEFINE q == a \o b
<1>0. 1 \in 1..Len(a) /\ 1 \in 0..Len(a) /\ Len(a) \in Nat /\ Len(b) \in Nat
  BY HeadTail, SeqIsFun
<1>1. Rest(a, 1) \o b = Rest(q, 1)
  BY <1>0, RestOfStream
<1>2. q \in Seq(Token) /\ Len(q) = Len(a) + Len(b) /\ \A i \in 1..Len(a) : q[i] = a[i]
  BY ConcatIs
<1>3. Framed(s, q, 0, n)
  OBVIOUS
<1> HIDE DEF q
<1>4. q # <<>> /\ q[1] = a[1]
  BY <1>0, <1>2
<1>5. Framed(s, Rest(q, 1), q[1].len, n + 1)
  BY <1>2, <1>3, <1>4, FramedHead
<1> QED
  BY <1>1, <1>4, <1>5

LEMMA BodyFramed ==
  ASSUME NEW s, NEW a \in Seq(Token), NEW b \in Seq(Token), NEW m \in Nat, NEW n \in Nat,
         NEW k \in 0..Len(a), k <= m, Framed(s, a \o b, m, n)
  PROVE  Framed(s, Rest(a, k) \o b, m - k, n) /\ Bodies(Prefix(a, k), <<s, n>>)
<1> DEFINE q == a \o b
<1>1. /\ Rest(a, k) \o b = Rest(q, k) /\ k \in 0..Len(q)
      /\ \A i \in 1..k : Prefix(a, k)[i] = q[i]
  <2>1. Rest(a, k) \o b = Rest(q, k)
    BY RestOfStream
  <2>2. k \in 0..Len(q)
    BY RestOfStream
  <2>3. \A i \in 1..k : Prefix(a, k)[i] = q[i]
    BY RestOfStream
  <2> QED
    BY <2>1, <2>2, <2>3
<1>2. q \in Seq(Token)
  BY ConcatIs
<1>3. Framed(s, q, m, n)
  OBVIOUS
<1>4. Len(Prefix(a, k)) = k
  BY PrefixRest
<1> HIDE DEF q
<1>5. Framed(s, Rest(q, k), m - k, n)
  BY <1>1, <1>2, <1>3, FramedRest
<1>6. \A i \in 1..k : q[i].part = "body" /\ q[i].req = <<s, n>>
  <2>1. \A i \in 1..k : i \in 1..Len(q) /\ i <= m
    BY <1>1, <1>2, SeqIsFun
  <2> QED
    BY <1>3, <2>1, Zenon DEF Framed
<1> QED
  BY <1>1, <1>4, <1>5, <1>6 DEF Bodies

LEMMA ParseInv ==
  ASSUME IndInv, NEW s \in Sessions, Parse(s)
  PROVE  IndInv'
<1> USE DEF Parse, sessionVars, dataVars, leaseVars, poolVars, upstreamVars
<1>0. TypeOK /\ SessionOk(s) /\ lease[s] = None /\ pc[s] = "parse" /\ s \notin responseStarted
  BY DEF IndInv, LeaseInv, SessionOk, HeadOk, Serving, Failed, Uploading, Responding, Downloading
<1>1. HeadOk(s) /\ FinishOk(s) /\ ClientOk(s)
  BY <1>0 DEF SessionOk
<1>2. \A c \in Conns : UpstreamSame(c)
  BY DEF UpstreamSame
<1>3. client[s] \in Seq(Token) /\ input[s] \in Seq(Token) /\ current[s] \in Nat
  BY <1>0 DEF TypeOK
<1>4. Framed(s, input[s] \o client[s], 0, current[s])
  BY <1>0, <1>1 DEF ClientOk, Failed, ToCome
<1>5. CASE /\ Await(s, "readRequest")
           /\ UNCHANGED <<input, current, left, keepAlive, heads, responseStarted>>
  <2>1. Moves(s, "readRequest")
    BY <1>0, <1>5, Moving DEF States, Awaits, DownstreamOps
  <2>2. TypeOK'
    BY <1>0, <1>5, <2>1 DEF TypeOK, Moves, States
  <2>3. \A t \in Sessions : t # s => Untouched(t)
    BY <1>0, <1>5, <2>1 DEF Untouched, Moves
  <2>4. HeadOk(s)' /\ FinishOk(s)' /\ pc'[s] = "readRequest"
    BY <1>0, <1>1, <1>5, <2>1 DEF HeadOk, FinishOk, Moves, Uploading, Responding
  <2>5. ClientOk(s)'
    <3>1. ToCome(s)' = 0
      BY <2>4 DEF ToCome
    <3> QED
      BY <1>4, <1>5, <2>4, <3>1 DEF ClientOk
  <2>6. AnswerOk(s)'
    BY <2>4 DEF AnswerOk, Asking, Hearing, Relaying, Uploading, Responding, Downloading
  <2>7. SessionOk(s)'
    BY <2>4, <2>5, <2>6 DEF SessionOk
  <2> QED
    BY <1>0, <1>2, <2>1, <2>2, <2>3, <2>7, LocalStep DEF States, Awaits, DownstreamOps, Serving,
       Uploading, Responding, Downloading, Failed
<1>6. CASE SendError(s) /\ UNCHANGED <<input, current, left, keepAlive>>
  BY <1>0, <1>6, ErrorStep
<1>7. CASE /\ input[s] # <<>> /\ Head(input[s]).part = "head"
           /\ input' = [input EXCEPT ![s] = Tail(@)]
           /\ current' = [current EXCEPT ![s] = @ + 1]
           /\ left' = [left EXCEPT ![s] = Head(input[s]).len]
           /\ keepAlive' = [keepAlive EXCEPT ![s] = Head(input[s]).keep]
           /\ Run(s, "acquire")
           /\ UNCHANGED <<heads, responseStarted>>
  <2>1. Moves(s, "acquire")
    BY <1>0, <1>7, Moving DEF States, Running
  <2>2. /\ Head(input[s]) \in Token /\ Tail(input[s]) \in Seq(Token)
        /\ Tail(input[s]) = Rest(input[s], 1) /\ Head(input[s]) = input[s][1]
        /\ 1 \in 0..Len(input[s]) /\ 1 \in 1..Len(input[s])
    BY <1>3, <1>7, HeadTail
  <2>3. Head(input[s]).len \in Nat /\ Head(input[s]).keep \in BOOLEAN
    BY <2>2 DEF Token
  <2>4. /\ input'[s] = Rest(input[s], 1) /\ client'[s] = client[s]
        /\ current'[s] = current[s] + 1 /\ left'[s] = Head(input[s]).len
    BY <1>0, <1>7, <2>2 DEF TypeOK
  <2>5. TypeOK'
    <3>1. input' \in [Sessions -> Seq(Token)] /\ current' \in [Sessions -> Nat]
          /\ left' \in [Sessions -> Nat]
      BY <1>0, <1>7, <2>2, <2>3, SMTT(30) DEF TypeOK
    <3>2. keepAlive' \in [Sessions -> BOOLEAN]
      BY <1>0, <1>7, <2>3, Zenon DEF TypeOK
    <3> QED
      BY <1>0, <1>7, <2>1, <3>1, <3>2 DEF TypeOK, Moves, States
  <2>6. \A t \in Sessions : t # s => Untouched(t)
    BY <1>0, <1>7, <2>1 DEF Untouched, Moves, TypeOK
  <2>7. HeadOk(s)' /\ FinishOk(s)' /\ pc'[s] = "acquire"
    BY <1>0, <1>1, <1>7, <2>1 DEF HeadOk, FinishOk, Moves, Uploading, Responding
  <2>8. ClientOk(s)'
    <3>1. Framed(s, Rest(input[s], 1) \o client[s], input[s][1].len, current[s] + 1)
      BY <1>3, <1>4, <1>7, HeadFramed
    <3>2. ToCome(s)' = input[s][1].len
      BY <2>2, <2>4, <2>7 DEF ToCome
    <3> QED
      BY <2>4, <2>7, <3>1, <3>2 DEF ClientOk
  <2>9. AnswerOk(s)'
    BY <2>7 DEF AnswerOk, Asking, Hearing, Relaying, Uploading, Responding, Downloading
  <2>10. SessionOk(s)'
    BY <2>7, <2>8, <2>9 DEF SessionOk
  <2> QED
    BY <1>0, <1>2, <2>1, <2>5, <2>6, <2>10, LocalStep DEF States, Running, Serving, Uploading,
       Responding, Downloading, Failed
<1> QED
  BY <1>5, <1>6, <1>7

LEMMA AtMostIs ==
  ASSUME NEW S, NEW q \in Seq(S), NEW n \in Nat
  PROVE  AtMost(n, q) \in 0..Len(q) /\ AtMost(n, q) <= n
  BY SeqIsFun DEF AtMost

\* What is said of a session that has a lease.
LEMMA ServingFacts ==
  ASSUME IndInv, NEW s \in Sessions, pc[s] \in Serving
  PROVE  /\ TypeOK /\ HeadOk(s) /\ FinishOk(s) /\ ClientOk(s)
         /\ Asking(s, lease[s], Request(s)) /\ Hearing(s, lease[s], Request(s))
         /\ Relaying(s, lease[s], Request(s))
         /\ lease[s] \in Conns /\ lease[s] # None /\ currentUpstream[s] = lease[s]
<1>1. TypeOK /\ SessionOk(s) /\ LeaseInv
  BY DEF IndInv
<1>2. lease[s] \in Conns /\ lease[s] # None /\ currentUpstream[s] = lease[s]
  BY <1>1 DEF LeaseInv, TypeOK
<1> QED
  BY <1>1, <1>2 DEF SessionOk, AnswerOk

LEMMA UploadInv ==
  ASSUME IndInv, NEW s \in Sessions, Upload(s)
  PROVE  IndInv'
<1> USE DEF Upload, sessionVars, dataVars, leaseVars, poolVars, upstreamVars
<1> DEFINE c == lease[s]
<1>0. pc[s] = "upload" /\ pc[s] \in Serving
  BY DEF Serving, Uploading
<1>1. /\ TypeOK /\ HeadOk(s) /\ FinishOk(s) /\ ClientOk(s)
      /\ Asking(s, lease[s], Request(s))
      /\ lease[s] \in Conns /\ lease[s] # None
  BY <1>0, ServingFacts
<1>2. \A d \in Conns : UpstreamSame(d)
  BY DEF UpstreamSame
<1>3. /\ client[s] \in Seq(Token) /\ input[s] \in Seq(Token) /\ current[s] \in Nat
      /\ left[s] \in Nat
  BY <1>1 DEF TypeOK
<1>4. Framed(s, input[s] \o client[s], left[s], current[s]) /\ s \notin responseStarted
  BY <1>0, <1>1 DEF ClientOk, HeadOk, Failed, ToCome, Uploading
<1>5. wire[c] = <<>> /\ asked[c] = Request(s) /\ owes[c] = left[s] /\ Request(s)' = Request(s)
  BY <1>0, <1>1 DEF Asking, Uploading, Request
<1>6. CASE /\ left[s] = 0 /\ Run(s, "response")
           /\ upstreamInput' = [upstreamInput EXCEPT ![s] = <<>>]
           /\ UNCHANGED <<input, chunk>>
  <2>1. Moves(s, "response")
    BY <1>1, <1>6, Moving DEF States, Running
  <2>2. TypeOK'
    <3>1. upstreamInput' \in [Sessions -> Seq(Token)]
      BY <1>1, <1>6 DEF TypeOK
    <3> QED
      BY <1>1, <1>6, <2>1, <3>1 DEF TypeOK, Moves, States
  <2>3. \A t \in Sessions : t # s => Untouched(t)
    BY <1>1, <1>6, <2>1 DEF Untouched, Moves, TypeOK
  <2>4. HeadOk(s)' /\ FinishOk(s)' /\ pc'[s] = "response"
    BY <1>0, <1>1, <1>4, <1>6, <2>1 DEF HeadOk, FinishOk, Moves
  <2>5. ClientOk(s)'
    <3>1. ToCome(s)' = 0
      BY <2>4 DEF ToCome
    <3> QED
      BY <1>4, <1>6, <2>4, <3>1 DEF ClientOk
  <2>6. AnswerOk(s)'
    <3>1. upstreamInput'[s] = <<>>
      BY <1>1, <1>6 DEF TypeOK
    <3>2. Hearing(s, lease[s], Request(s))'
      BY <1>5, <1>6, <2>4, <3>1 DEF Hearing
    <3> QED
      BY <2>4, <3>2 DEF AnswerOk, Asking, Relaying, Uploading, Downloading
  <2>7. SessionOk(s)'
    BY <2>4, <2>5, <2>6 DEF SessionOk
  <2> QED
    BY <1>1, <1>2, <2>1, <2>2, <2>3, <2>7, LocalStep DEF States, Running, Serving, Responding
<1>7. CASE /\ left[s] > 0 /\ input[s] = <<>> /\ Await(s, "uploadRead")
           /\ UNCHANGED <<input, chunk, upstreamInput>>
  <2>1. Moves(s, "uploadRead")
    BY <1>1, <1>7, Moving DEF States, Awaits, DownstreamOps
  <2>2. TypeOK'
    BY <1>1, <1>7, <2>1 DEF TypeOK, Moves, States
  <2>3. \A t \in Sessions : t # s => Untouched(t)
    BY <1>1, <1>7, <2>1 DEF Untouched, Moves, TypeOK
  <2>4. HeadOk(s)' /\ FinishOk(s)' /\ pc'[s] = "uploadRead"
    BY <1>0, <1>1, <1>4, <1>7, <2>1 DEF HeadOk, FinishOk, Moves
  <2>5. ClientOk(s)'
    <3>1. ToCome(s)' = left[s]
      BY <2>4 DEF ToCome
    <3> QED
      BY <1>4, <1>7, <2>4, <3>1 DEF ClientOk
  <2>6. AnswerOk(s)'
    BY <1>5, <1>7, <2>4 DEF AnswerOk, Asking, Hearing, Relaying, Responding, Downloading
  <2>7. SessionOk(s)'
    BY <2>4, <2>5, <2>6 DEF SessionOk
  <2> QED
    BY <1>1, <1>2, <2>1, <2>2, <2>3, <2>7, LocalStep DEF States, Awaits, DownstreamOps, Serving,
       Uploading
<1>8. CASE /\ left[s] > 0 /\ input[s] # <<>> /\ Await(s, "uploadWrite")
           /\ chunk' = [chunk EXCEPT ![s] = Prefix(input[s], FromBuffer(s))]
           /\ input' = [input EXCEPT ![s] = Rest(@, FromBuffer(s))]
           /\ UNCHANGED upstreamInput
  <2> DEFINE k == FromBuffer(s)
  <2>0. k \in 0..Len(input[s]) /\ k <= left[s]
    BY <1>3, AtMostIs DEF FromBuffer
  <2>1. Moves(s, "uploadWrite")
    BY <1>1, <1>8, Moving DEF States, Awaits, UpstreamOps
  <2>p. /\ Prefix(input[s], k) \in Seq(Token) /\ Rest(input[s], k) \in Seq(Token)
        /\ Len(Prefix(input[s], k)) = k
    BY <1>3, <2>0, PrefixRest, SMTT(30)
  <2>c. chunk'[s] = Prefix(input[s], k) /\ input'[s] = Rest(input[s], k)
    BY <1>1, <1>8 DEF TypeOK
  <2>2. TypeOK'
    <3>1. input' \in [Sessions -> Seq(Token)] /\ chunk' \in [Sessions -> Seq(Token)]
      BY <1>1, <1>8, <2>p DEF TypeOK
    <3> QED
      BY <1>1, <1>8, <2>1, <3>1 DEF TypeOK, Moves, States
  <2>3. \A t \in Sessions : t # s => Untouched(t)
    BY <1>1, <1>8, <2>1 DEF Untouched, Moves, TypeOK
  <2>4. HeadOk(s)' /\ FinishOk(s)' /\ pc'[s] = "uploadWrite"
    BY <1>0, <1>1, <1>4, <1>8, <2>1 DEF HeadOk, FinishOk, Moves
  <2>5. ClientOk(s)'
    <3> HIDE DEF k
    <3>1. ToCome(s)' = left[s] - k
      BY <2>4, <2>p, <2>c DEF ToCome
    <3>2. Framed(s, Rest(input[s], k) \o client[s], left[s] - k, current[s])
      BY <1>3, <1>4, <2>0, BodyFramed
    <3>3. Bodies(Prefix(input[s], k), <<s, current[s]>>)
      BY <1>3, <1>4, <2>0, BodyFramed
    <3>4. Bodies(chunk[s], Request(s))' /\ Len(chunk'[s]) <= left'[s]
      BY <2>0, <2>p, <2>c, <3>3 DEF Bodies, Request
    <3>5. left'[s] > 0
      BY <1>8
    <3> QED
      BY <2>4, <2>c, <3>1, <3>2, <3>4, <3>5 DEF ClientOk
  <2>6. AnswerOk(s)'
    BY <1>5, <1>8, <2>4 DEF AnswerOk, Asking, Hearing, Relaying, Responding, Downloading
  <2>7. SessionOk(s)'
    BY <2>4, <2>5, <2>6 DEF SessionOk
  <2> QED
    BY <1>1, <1>2, <2>1, <2>2, <2>3, <2>7, LocalStep DEF States, Awaits, UpstreamOps, Serving,
       Uploading
<1> QED
  BY <1>6, <1>7, <1>8

LEMMA UploadReadInv ==
  ASSUME IndInv, NEW s \in Sessions, UploadRead(s)
  PROVE  IndInv'
<1> USE DEF UploadRead, InFlight, sessionVars, dataVars, leaseVars, poolVars, upstreamVars
<1> DEFINE c == lease[s]
<1>0. pc[s] = "uploadRead" /\ pc[s] \in Serving
  BY DEF Serving, Uploading
<1>1. /\ TypeOK /\ HeadOk(s) /\ FinishOk(s) /\ ClientOk(s)
      /\ Asking(s, lease[s], Request(s))
      /\ lease[s] \in Conns /\ lease[s] # None
  BY <1>0, ServingFacts
<1>2. \A d \in Conns : UpstreamSame(d)
  BY DEF UpstreamSame
<1>3. /\ client[s] \in Seq(Token) /\ input[s] = <<>> /\ current[s] \in Nat
      /\ left[s] \in Nat /\ left[s] > 0
  BY <1>0, <1>1 DEF TypeOK, ClientOk
<1>4. Framed(s, client[s], left[s], current[s]) /\ s \notin responseStarted
  <2>1. Framed(s, input[s] \o client[s], left[s], current[s]) /\ s \notin responseStarted
    BY <1>0, <1>1 DEF ClientOk, HeadOk, Failed, ToCome, Uploading
  <2>2. input[s] \o client[s] = client[s]
    BY <1>3
  <2> QED
    BY <2>1, <2>2
<1>5. wire[c] = <<>> /\ asked[c] = Request(s) /\ owes[c] = left[s] /\ Request(s)' = Request(s)
  BY <1>0, <1>1 DEF Asking, Uploading, Request
<1>6. PICK k \in 1..AtMost(left[s], client[s]) :
        /\ chunk' = [chunk EXCEPT ![s] = Prefix(client[s], k)]
        /\ client' = [client EXCEPT ![s] = Rest(@, k)]
  OBVIOUS
<1>7. k \in 0..Len(client[s]) /\ k <= left[s]
  <2>1. AtMost(left[s], client[s]) \in 0..Len(client[s]) /\ AtMost(left[s], client[s]) <= left[s]
    BY <1>3, AtMostIs
  <2> QED
    BY <1>3, <1>6, <2>1
<1>8. Moves(s, "uploadWrite")
  BY <1>1, Moving DEF States, Awaits, UpstreamOps
<1>9. /\ Prefix(client[s], k) \in Seq(Token) /\ Rest(client[s], k) \in Seq(Token)
      /\ Len(Prefix(client[s], k)) = k
  BY <1>3, <1>7, PrefixRest
<1>10. chunk'[s] = Prefix(client[s], k) /\ client'[s] = Rest(client[s], k) /\ input'[s] = <<>>
  BY <1>1, <1>3, <1>6 DEF TypeOK
<1>11. TypeOK'
  <2>1. client' \in [Sessions -> Seq(Token)] /\ chunk' \in [Sessions -> Seq(Token)]
    BY <1>1, <1>6, <1>9 DEF TypeOK
  <2> QED
    BY <1>1, <1>8, <2>1 DEF TypeOK, Moves, States
<1>12. \A t \in Sessions : t # s => Untouched(t)
  BY <1>1, <1>6, <1>8 DEF Untouched, Moves, TypeOK
<1>13. HeadOk(s)' /\ FinishOk(s)' /\ pc'[s] = "uploadWrite"
  BY <1>0, <1>1, <1>4, <1>8 DEF HeadOk, FinishOk, Moves
<1>14. ClientOk(s)'
  <2>1. ToCome(s)' = left[s] - k
    BY <1>9, <1>10, <1>13 DEF ToCome
  <2>2. Framed(s, Rest(client[s], k), left[s] - k, current[s])
    BY <1>3, <1>4, <1>7, FramedRest
  <2>3. input'[s] \o client'[s] = Rest(client[s], k)
    BY <1>9, <1>10
  <2>4. Bodies(chunk[s], Request(s))' /\ Len(chunk'[s]) <= left'[s]
    <3>1. \A i \in 1..k : client[s][i].part = "body" /\ client[s][i].req = <<s, current[s]>>
      <4>1. \A i \in 1..k : i \in 1..Len(client[s]) /\ i <= left[s]
        BY <1>3, <1>7, SeqIsFun
      <4> QED
        BY <1>4, <4>1, Zenon DEF Framed
    <3>2. \A i \in 1..k : Prefix(client[s], k)[i] = client[s][i]
      BY <1>3, <1>7, PrefixRest
    <3> QED
      BY <1>7, <1>9, <1>10, <3>1, <3>2, SMTT(30) DEF Bodies, Request
  <2> QED
    BY <1>3, <1>13, <2>1, <2>2, <2>3, <2>4 DEF ClientOk
<1>15. AnswerOk(s)'
  BY <1>5, <1>13 DEF AnswerOk, Asking, Hearing, Relaying, Responding, Downloading
<1>16. SessionOk(s)'
  BY <1>13, <1>14, <1>15 DEF SessionOk
<1> QED
  BY <1>1, <1>2, <1>8, <1>11, <1>12, <1>16, LocalStep DEF States, Awaits, UpstreamOps, Serving,
     Uploading

LEMMA BodiesSplit ==
  ASSUME NEW S, NEW q \in Seq(S), NEW r, NEW k \in 0..Len(q), Bodies(q, r)
  PROVE  Bodies(Prefix(q, k), r) /\ Bodies(Rest(q, k), r)
<1>0. Len(q) \in Nat /\ k \in Nat /\ k <= Len(q)
  BY SeqIsFun
<1>1. Len(Prefix(q, k)) = k /\ \A i \in 1..k : Prefix(q, k)[i] = q[i]
  BY PrefixRest
<1>2. Len(Rest(q, k)) = Len(q) - k /\ \A i \in 1..(Len(q) - k) : Rest(q, k)[i] = q[k + i]
  BY PrefixRest
<1>3. \A i \in 1..k : i \in 1..Len(q)
  BY <1>0
<1>4. \A i \in 1..(Len(q) - k) : k + i \in 1..Len(q)
  BY <1>0
<1> QED
  BY <1>1, <1>2, <1>3, <1>4 DEF Bodies

\* The head of a response is taken off it ...
LEMMA ResponseHead ==
  ASSUME NEW q \in Seq(Token), NEW z \in Seq(Token), NEW r, Response1(q, z, r)
  PROVE  /\ q[1].part = "head" /\ q[1].req = r /\ q[1].len \in Nat
         /\ Bodies(Tail(q), r) /\ Bodies(z, r) /\ Len(Tail(q)) + Len(z) <= q[1].len
<1>0. Len(q) \in Nat /\ Len(z) \in Nat
  BY SeqIsFun
<1>1. q # <<>> /\ q[1].part = "head" /\ q[1].req = r /\ Bodies(z, r)
      /\ Len(q) + Len(z) <= q[1].len + 1
      /\ \A i \in 2..Len(q) : q[i].part = "body" /\ q[i].req = r
  BY DEF Response1
<1>2. 1 \in 1..Len(q) /\ 1 \in 0..Len(q) /\ q[1] \in Token /\ Tail(q) = Rest(q, 1)
  BY <1>1, HeadTail
<1>3. Len(Rest(q, 1)) = Len(q) - 1 /\ \A i \in 1..(Len(q) - 1) : Rest(q, 1)[i] = q[1 + i]
  BY <1>2, PrefixRest
<1>4. q[1].len \in Nat
  BY <1>2 DEF Token
<1>5. \A i \in 1..(Len(q) - 1) : 1 + i \in 2..Len(q)
  BY <1>0
<1>6. Bodies(Tail(q), r)
  BY <1>1, <1>2, <1>3, <1>5 DEF Bodies
<1>7. Len(Tail(q)) + Len(z) <= q[1].len
  BY <1>0, <1>1, <1>2, <1>3, <1>4
<1> QED
  BY <1>1, <1>4, <1>6, <1>7

\* ... and a read takes any part of what has arrived.
LEMMA ResponseSplit ==
  ASSUME NEW q \in Seq(Token), NEW r, NEW k \in 1..Len(q), Response1(q, <<>>, r)
  PROVE  Response1(Prefix(q, k), Rest(q, k), r)
<1>0. Len(q) \in Nat /\ k \in 0..Len(q) /\ k \in Nat /\ k >= 1 /\ k <= Len(q)
  BY SeqIsFun
<1>1. q # <<>> /\ q[1].part = "head" /\ q[1].req = r
      /\ Len(q) + Len(<<>>) <= q[1].len + 1
      /\ \A i \in 2..Len(q) : q[i].part = "body" /\ q[i].req = r
  BY DEF Response1
<1>2. Prefix(q, k) \in Seq(Token) /\ Len(Prefix(q, k)) = k /\ \A i \in 1..k : Prefix(q, k)[i] = q[i]
  BY <1>0, PrefixRest
<1>3. Len(Rest(q, k)) = Len(q) - k /\ \A i \in 1..(Len(q) - k) : Rest(q, k)[i] = q[k + i]
  BY <1>0, PrefixRest
<1>4. \A i \in 2..k : i \in 1..k /\ i \in 2..Len(q)
  BY <1>0
<1>5. \A i \in 1..(Len(q) - k) : k + i \in 2..Len(q)
  BY <1>0
<1>6. Bodies(Rest(q, k), r)
  BY <1>1, <1>3, <1>5 DEF Bodies
<1>7. Prefix(q, k) # <<>> /\ Prefix(q, k)[1] = q[1]
  BY <1>0, <1>2
<1>8. \A i \in 2..k : Prefix(q, k)[i].part = "body" /\ Prefix(q, k)[i].req = r
  BY <1>1, <1>2, <1>4, Zenon
<1>9. Len(Prefix(q, k)) + Len(Rest(q, k)) <= q[1].len + 1
  <2>1. Len(<<>>) = 0 /\ q[1] \in Token
    BY <1>0
  <2>2. q[1].len \in Nat
    BY <2>1 DEF Token
  <2> QED
    BY <1>0, <1>1, <1>2, <1>3, <2>1, <2>2
<1> QED
  BY <1>1, <1>2, <1>6, <1>7, <1>8, <1>9, Zenon DEF Response1

LEMMA ResponseInv ==
  ASSUME IndInv, NEW s \in Sessions, Response(s)
  PROVE  IndInv'
<1> USE DEF Response, sessionVars, dataVars, leaseVars, poolVars, upstreamVars
<1> DEFINE c == lease[s]
<1>0. pc[s] = "response" /\ pc[s] \in Serving
  BY DEF Serving, Responding
<1>1. /\ TypeOK /\ HeadOk(s) /\ FinishOk(s) /\ ClientOk(s)
      /\ Hearing(s, lease[s], Request(s))
      /\ lease[s] \in Conns /\ lease[s] # None
  BY <1>0, ServingFacts
<1>2. \A d \in Conns : UpstreamSame(d)
  BY DEF UpstreamSame
<1>3. upstreamInput[s] \in Seq(Token) /\ wire[c] \in Seq(Token) /\ left[s] \in Nat
  BY <1>1 DEF TypeOK
<1>4. Framed(s, input[s] \o client[s], 0, current[s]) /\ s \notin responseStarted
  BY <1>0, <1>1 DEF ClientOk, HeadOk, Failed, ToCome, Responding
<1>5. /\ owes[c] = 0
      /\ \/ asked[c] = Request(s) /\ upstreamInput[s] = <<>> /\ wire[c] = <<>>
         \/ asked[c] = NoRequest /\ upstreamInput[s] = <<>> /\ Response1(wire[c], <<>>, Request(s))
         \/ asked[c] = NoRequest /\ Response1(upstreamInput[s], wire[c], Request(s))
      /\ Request(s)' = Request(s)
  BY <1>0, <1>1 DEF Hearing, Responding, Request
<1>6. CASE /\ upstreamInput[s] = <<>> /\ Await(s, "readResponse")
           /\ UNCHANGED <<upstreamInput, chunk, left, keepAlive, heads, responseStarted>>
  <2>1. Moves(s, "readResponse")
    BY <1>1, <1>6, Moving DEF States, Awaits, UpstreamOps
  <2>2. TypeOK'
    BY <1>1, <1>6, <2>1 DEF TypeOK, Moves, States
  <2>3. \A t \in Sessions : t # s => Untouched(t)
    BY <1>1, <1>6, <2>1 DEF Untouched, Moves, TypeOK
  <2>4. HeadOk(s)' /\ FinishOk(s)' /\ pc'[s] = "readResponse"
    BY <1>0, <1>1, <1>4, <1>6, <2>1 DEF HeadOk, FinishOk, Moves
  <2>5. ClientOk(s)'
    <3>1. ToCome(s)' = 0
      BY <2>4 DEF ToCome
    <3> QED
      BY <1>4, <1>6, <2>4, <3>1 DEF ClientOk
  <2>6. AnswerOk(s)'
    <3>1. Hearing(s, lease[s], Request(s))'
      BY <1>5, <1>6, <2>4, Zenon DEF Hearing
    <3> QED
      BY <2>4, <3>1 DEF AnswerOk, Asking, Relaying, Uploading, Downloading
  <2>7. SessionOk(s)'
    BY <2>4, <2>5, <2>6 DEF SessionOk
  <2> QED
    BY <1>1, <1>2, <2>1, <2>2, <2>3, <2>7, LocalStep DEF States, Awaits, UpstreamOps, Serving,
       Responding
<1>7. CASE SendError(s) /\ UNCHANGED <<upstreamInput, chunk, left, keepAlive>>
  BY <1>0, <1>4, <1>7, ErrorStep
<1>8. CASE /\ upstreamInput[s] # <<>> /\ Head(upstreamInput[s]).part = "head"
           /\ chunk' = [chunk EXCEPT ![s] = <<Head(upstreamInput[s])>>]
           /\ upstreamInput' = [upstreamInput EXCEPT ![s] = Tail(@)]
           /\ left' = [left EXCEPT ![s] = Head(upstreamInput[s]).len]
           /\ keepAlive' = [keepAlive EXCEPT ![s] = @ /\ Head(upstreamInput[s]).keep]
           /\ responseStarted' = responseStarted \cup {s}
           /\ heads' = [heads EXCEPT ![s] = @ + 1]
           /\ Await(s, "writeResponse")
  <2> DEFINE h == Head(upstreamInput[s])
  <2>0. /\ h \in Token /\ Tail(upstreamInput[s]) \in Seq(Token) /\ h = upstreamInput[s][1]
    BY <1>3, <1>8, HeadTail
  <2>h. h.len \in Nat /\ h.keep \in BOOLEAN
    BY <2>0 DEF Token
  <2>1. Moves(s, "writeResponse")
    BY <1>1, <1>8, Moving DEF States, Awaits, DownstreamOps
  <2>2. TypeOK'
    <3>1. /\ upstreamInput' \in [Sessions -> Seq(Token)] /\ chunk' \in [Sessions -> Seq(Token)]
          /\ left' \in [Sessions -> Nat] /\ heads' \in [Sessions -> Nat]
          /\ responseStarted' \subseteq Sessions
      BY <1>1, <1>8, <2>0, <2>h, SMTT(30) DEF TypeOK
    <3>2. keepAlive' \in [Sessions -> BOOLEAN]
      BY <1>1, <1>8, Zenon DEF TypeOK
    <3> QED
      BY <1>1, <1>8, <2>1, <3>1, <3>2 DEF TypeOK, Moves, States
  <2>3. \A t \in Sessions : t # s => Untouched(t)
    BY <1>1, <1>8, <2>1 DEF Untouched, Moves, TypeOK
  <2>4. HeadOk(s)' /\ FinishOk(s)' /\ pc'[s] = "writeResponse"
    <3>1. heads[s] = 0
      BY <1>1, <1>4 DEF HeadOk
    <3>2. heads'[s] = 1 /\ s \in responseStarted' /\ pc'[s] = "writeResponse"
      BY <1>1, <1>8, <2>1, <3>1 DEF TypeOK, Moves
    <3> QED
      BY <1>0, <1>1, <3>2 DEF HeadOk, FinishOk, Uploading, Responding
  <2>5. ClientOk(s)'
    <3>1. ToCome(s)' = 0
      BY <2>4 DEF ToCome
    <3> QED
      BY <1>4, <2>4, <3>1 DEF ClientOk
  <2>6. AnswerOk(s)'
    <3>1. asked[c] = NoRequest /\ Response1(upstreamInput[s], wire[c], Request(s))
      BY <1>5, <1>8
    <3>2. /\ h.part = "head" /\ h.req = Request(s)
          /\ Bodies(Tail(upstreamInput[s]), Request(s)) /\ Bodies(wire[c], Request(s))
          /\ Len(Tail(upstreamInput[s])) + Len(wire[c]) <= h.len
      <4>1. h.part = "head" /\ h.req = Request(s)
        BY <1>3, <2>0, <3>1, ResponseHead
      <4>2. Bodies(Tail(upstreamInput[s]), Request(s)) /\ Bodies(wire[c], Request(s))
        BY <1>3, <2>0, <3>1, ResponseHead
      <4>3. Len(Tail(upstreamInput[s])) + Len(wire[c]) <= h.len
        BY <1>3, <2>0, <3>1, ResponseHead
      <4> QED
        BY <4>1, <4>2, <4>3
    <3>3. /\ chunk'[s] = <<h>> /\ upstreamInput'[s] = Tail(upstreamInput[s]) /\ left'[s] = h.len
      BY <1>1, <1>8 DEF TypeOK
    <3> HIDE DEF h
    <3>4. Len(Tail(upstreamInput[s])) + Len(wire[c]) + 0 <= h.len
      <4>1. Len(Tail(upstreamInput[s])) \in Nat /\ Len(wire[c]) \in Nat
        BY <1>3, <2>0, SeqIsFun
      <4>2. \A i, j, l \in Nat : i + j <= l => i + j + 0 <= l
        OBVIOUS
      <4> QED
        BY <2>h, <3>2, <4>1, <4>2, Zenon
    <3>5. \A i \in 1..Len(<<h>>) : <<h>>[i].part = "head" /\ <<h>>[i].req = Request(s)
      BY <3>2
    <3>6. Relaying(s, lease[s], Request(s))'
      BY <1>5, <2>4, <3>1, <3>2, <3>3, <3>4, <3>5, Zenon DEF Relaying
    <3> QED
      BY <2>4, <3>6 DEF AnswerOk, Asking, Hearing, Uploading, Responding
  <2>7. SessionOk(s)'
    BY <2>4, <2>5, <2>6 DEF SessionOk
  <2> QED
    BY <1>1, <1>2, <2>1, <2>2, <2>3, <2>7, LocalStep DEF States, Awaits, DownstreamOps, Serving,
       Downloading
<1> QED
  BY <1>6, <1>7, <1>8

LEMMA ReadResponseInv ==
  ASSUME IndInv, NEW s \in Sessions, ReadResponse(s)
  PROVE  IndInv'
<1> USE DEF ReadResponse, InFlight, sessionVars, dataVars, leaseVars, poolVars, upstreamVars
<1> DEFINE c == lease[s]
<1>0. pc[s] = "readResponse" /\ pc[s] \in Serving
  BY DEF Serving, Responding
<1>1. /\ TypeOK /\ HeadOk(s) /\ FinishOk(s) /\ ClientOk(s)
      /\ Hearing(s, lease[s], Request(s))
      /\ lease[s] \in Conns /\ lease[s] # None /\ currentUpstream[s] = c
  BY <1>0, ServingFacts
<1>2. PICK k \in 1..Len(wire[c]) :
        /\ upstreamInput' = [upstreamInput EXCEPT ![s] = @ \o Prefix(wire[c], k)]
        /\ wire' = [wire EXCEPT ![c] = Rest(@, k)]
  BY <1>1
<1>3. /\ upstreamInput[s] = <<>> /\ wire[c] \in Seq(Token) /\ wire[c] # <<>>
      /\ k \in 0..Len(wire[c])
  BY <1>0, <1>1, <1>2 DEF TypeOK, Hearing
<1>4. Framed(s, input[s] \o client[s], 0, current[s]) /\ s \notin responseStarted
  BY <1>0, <1>1 DEF ClientOk, HeadOk, Failed, ToCome, Responding
<1>5. /\ owes[c] = 0 /\ asked[c] = NoRequest
      /\ Response1(wire[c], <<>>, Request(s)) /\ Request(s)' = Request(s)
  BY <1>0, <1>1, <1>3 DEF Hearing, Responding, Request, Response1
<1>6. Prefix(wire[c], k) \in Seq(Token) /\ Rest(wire[c], k) \in Seq(Token)
  BY <1>3, PrefixRest
<1>7. /\ upstreamInput'[s] = Prefix(wire[c], k) /\ wire'[c] = Rest(wire[c], k)
      /\ <<>> \o Prefix(wire[c], k) = Prefix(wire[c], k)
  <2>1. <<>> \o Prefix(wire[c], k) = Prefix(wire[c], k)
    BY <1>6
  <2>2. upstreamInput'[s] = <<>> \o Prefix(wire[c], k) /\ wire'[c] = Rest(wire[c], k)
    BY <1>1, <1>2, <1>3 DEF TypeOK
  <2> QED
    BY <2>1, <2>2
<1>8. Moves(s, "response")
  BY <1>1, Moving DEF States, Running
<1>9. TypeOK'
  <2>1. upstreamInput' \in [Sessions -> Seq(Token)]
    BY <1>1, <1>2, <1>3, <1>6, <1>7, ZenonT(30) DEF TypeOK
  <2>2. wire' \in [Conns -> Seq(Token)]
    BY <1>1, <1>2, <1>6 DEF TypeOK
  <2> QED
    BY <1>1, <1>8, <2>1, <2>2 DEF TypeOK, Moves, States
<1>10. \A t \in Sessions : t # s => Untouched(t)
  BY <1>1, <1>2, <1>8 DEF Untouched, Moves, TypeOK
<1>11. \A d \in Conns : d # c => UpstreamSame(d)
  BY <1>1, <1>2 DEF UpstreamSame, TypeOK
<1>12. HeadOk(s)' /\ FinishOk(s)' /\ pc'[s] = "response"
  BY <1>0, <1>1, <1>4, <1>8 DEF HeadOk, FinishOk, Moves
<1>13. ClientOk(s)'
  <2>1. ToCome(s)' = 0
    BY <1>12 DEF ToCome
  <2> QED
    BY <1>4, <1>12, <2>1 DEF ClientOk
<1>14. AnswerOk(s)'
  <2>1. Response1(Prefix(wire[c], k), Rest(wire[c], k), Request(s))
    BY <1>2, <1>3, <1>5, ResponseSplit
  <2>2. Response1(upstreamInput[s], wire[lease[s]], Request(s))'
    BY <1>5, <1>7, <2>1, Zenon
  <2>3. Hearing(s, lease[s], Request(s))'
    BY <1>5, <1>12, <2>2, Zenon DEF Hearing
  <2> QED
    BY <1>12, <2>3 DEF AnswerOk, Asking, Relaying, Uploading, Downloading
<1>15. SessionOk(s)'
  BY <1>12, <1>13, <1>14 DEF SessionOk
<1> QED
  BY <1>1, <1>8, <1>9, <1>10, <1>11, <1>15, LocalStep DEF States, Running, Serving, Responding

LEMMA DownloadInv ==
  ASSUME IndInv, NEW s \in Sessions, Download(s)
  PROVE  IndInv'
<1> USE DEF Download, sessionVars, dataVars, leaseVars, poolVars, upstreamVars
<1> DEFINE c == lease[s]
<1>0. pc[s] = "download" /\ pc[s] \in Serving
  BY DEF Serving, Downloading
<1>1. /\ TypeOK /\ HeadOk(s) /\ FinishOk(s) /\ ClientOk(s)
      /\ Relaying(s, lease[s], Request(s))
      /\ lease[s] \in Conns /\ lease[s] # None
  BY <1>0, ServingFacts
<1>2. \A d \in Conns : UpstreamSame(d)
  BY DEF UpstreamSame
<1>3. upstreamInput[s] \in Seq(Token) /\ wire[c] \in Seq(Token) /\ left[s] \in Nat
      /\ Len(upstreamInput[s]) \in Nat /\ Len(wire[c]) \in Nat
  BY <1>1 DEF TypeOK
<1>4. Framed(s, input[s] \o client[s], 0, current[s])
  BY <1>0, <1>1 DEF ClientOk, Failed, ToCome
<1>5. /\ owes[c] = 0 /\ asked[c] = NoRequest
      /\ Bodies(upstreamInput[s], Request(s)) /\ Bodies(wire[c], Request(s))
      /\ Len(upstreamInput[s]) + Len(wire[c]) + 0 <= left[s] /\ Request(s)' = Request(s)
  BY <1>0, <1>1 DEF Relaying, Downloading, Request
<1>6. CASE Await(s, "downloadRead") /\ UNCHANGED <<chunk, upstreamInput>>
  <2>1. Moves(s, "downloadRead")
    BY <1>1, <1>6, Moving DEF States, Awaits, UpstreamOps
  <2>2. TypeOK'
    BY <1>1, <1>6, <2>1 DEF TypeOK, Moves, States
  <2>3. \A t \in Sessions : t # s => Untouched(t)
    BY <1>1, <1>6, <2>1 DEF Untouched, Moves, TypeOK
  <2>4. HeadOk(s)' /\ FinishOk(s)' /\ pc'[s] = "downloadRead"
    BY <1>0, <1>1, <1>6, <2>1 DEF HeadOk, FinishOk, Moves, Uploading, Responding
  <2>5. ClientOk(s)'
    <3>1. ToCome(s)' = 0
      BY <2>4 DEF ToCome
    <3> QED
      BY <1>4, <1>6, <2>4, <3>1 DEF ClientOk
  <2>6. AnswerOk(s)'
    <3>1. Relaying(s, lease[s], Request(s))'
      BY <1>5, <1>6, <2>4, Zenon DEF Relaying
    <3> QED
      BY <2>4, <3>1 DEF AnswerOk, Asking, Hearing, Uploading, Responding
  <2>7. SessionOk(s)'
    BY <2>4, <2>5, <2>6 DEF SessionOk
  <2> QED
    BY <1>1, <1>2, <2>1, <2>2, <2>3, <2>7, LocalStep DEF States, Awaits, UpstreamOps, Serving,
       Downloading
<1>7. CASE /\ Await(s, "downloadWrite")
           /\ chunk' = [chunk EXCEPT ![s] = Prefix(upstreamInput[s],
                                              AtMost(left[s], upstreamInput[s]))]
           /\ upstreamInput' = [upstreamInput EXCEPT ![s] = Rest(@,
                                              AtMost(left[s], upstreamInput[s]))]
  <2> DEFINE k == AtMost(left[s], upstreamInput[s])
  <2>0. k \in 0..Len(upstreamInput[s])
    BY <1>3, AtMostIs
  <2>1. Moves(s, "downloadWrite")
    BY <1>1, <1>7, Moving DEF States, Awaits, DownstreamOps
  <2>p. /\ Prefix(upstreamInput[s], k) \in Seq(Token) /\ Rest(upstreamInput[s], k) \in Seq(Token)
        /\ Len(Prefix(upstreamInput[s], k)) = k
        /\ Len(Rest(upstreamInput[s], k)) = Len(upstreamInput[s]) - k
    BY <1>3, <2>0, CutIs, ZenonT(30)
  <2>c. chunk'[s] = Prefix(upstreamInput[s], k) /\ upstreamInput'[s] = Rest(upstreamInput[s], k)
    BY <1>1, <1>7 DEF TypeOK
  <2>2. TypeOK'
    <3>1. upstreamInput' \in [Sessions -> Seq(Token)] /\ chunk' \in [Sessions -> Seq(Token)]
      BY <1>1, <1>7, <2>p DEF TypeOK
    <3> QED
      BY <1>1, <1>7, <2>1, <3>1 DEF TypeOK, Moves, States
  <2>3. \A t \in Sessions : t # s => Untouched(t)
    BY <1>1, <1>7, <2>1 DEF Untouched, Moves, TypeOK
  <2>4. HeadOk(s)' /\ FinishOk(s)' /\ pc'[s] = "downloadWrite"
    BY <1>0, <1>1, <1>7, <2>1 DEF HeadOk, FinishOk, Moves, Uploading, Responding
  <2>5. ClientOk(s)'
    <3>1. ToCome(s)' = 0
      BY <2>4 DEF ToCome
    <3> QED
      BY <1>4, <1>7, <2>4, <3>1 DEF ClientOk
  <2>6. AnswerOk(s)'
    <3> HIDE DEF k
    <3>1. Bodies(Prefix(upstreamInput[s], k), Request(s)) /\ Bodies(Rest(upstreamInput[s], k), Request(s))
      BY <1>3, <1>5, <2>0, BodiesSplit
    <3>2. Len(upstreamInput'[s]) + Len(wire[c]) + Len(chunk'[s]) <= left[s]
      <4>1. Len(upstreamInput'[s]) = Len(upstreamInput[s]) - k /\ Len(chunk'[s]) = k
        BY <2>p, <2>c
      <4>2. \A i, j, l \in Nat : \A n \in 0..i : i + j + 0 <= l => (i - n) + j + n <= l
        OBVIOUS
      <4> QED
        BY <1>3, <1>5, <2>0, <4>1, <4>2, Zenon
    <3>3. Relaying(s, lease[s], Request(s))'
      BY <1>5, <2>4, <2>c, <3>1, <3>2, Zenon DEF Relaying
    <3> QED
      BY <2>4, <3>3 DEF AnswerOk, Asking, Hearing, Uploading, Responding
  <2>7. SessionOk(s)'
    BY <2>4, <2>5, <2>6 DEF SessionOk
  <2> QED
    BY <1>1, <1>2, <2>1, <2>2, <2>3, <2>7, LocalStep DEF States, Awaits, DownstreamOps, Serving,
       Downloading
<1> QED
  BY <1>6, <1>7

LEMMA DownloadReadInv ==
  ASSUME IndInv, NEW s \in Sessions, DownloadRead(s)
  PROVE  IndInv'
<1> USE DEF DownloadRead, InFlight, sessionVars, dataVars, leaseVars, poolVars, upstreamVars
<1> DEFINE c == lease[s]
<1>0. pc[s] = "downloadRead" /\ pc[s] \in Serving
  BY DEF Serving, Downloading
<1>1. /\ TypeOK /\ HeadOk(s) /\ FinishOk(s) /\ ClientOk(s)
      /\ Relaying(s, lease[s], Request(s))
      /\ lease[s] \in Conns /\ lease[s] # None /\ currentUpstream[s] = c
  BY <1>0, ServingFacts
<1>2. PICK k \in 1..AtMost(left[s], wire[c]) :
        /\ chunk' = [chunk EXCEPT ![s] = Prefix(wire[c], k)]
        /\ wire' = [wire EXCEPT ![c] = Rest(@, k)]
  BY <1>1
<1>3. upstreamInput[s] \in Seq(Token) /\ wire[c] \in Seq(Token) /\ left[s] \in Nat
      /\ Len(upstreamInput[s]) \in Nat /\ Len(wire[c]) \in Nat
  BY <1>1 DEF TypeOK
<1>4. Framed(s, input[s] \o client[s], 0, current[s])
  BY <1>0, <1>1 DEF ClientOk, Failed, ToCome
<1>5. /\ owes[c] = 0 /\ asked[c] = NoRequest
      /\ Bodies(upstreamInput[s], Request(s)) /\ Bodies(wire[c], Request(s))
      /\ Len(upstreamInput[s]) + Len(wire[c]) + 0 <= left[s] /\ Request(s)' = Request(s)
  BY <1>0, <1>1 DEF Relaying, Downloading, Request
<1>6. k \in 0..Len(wire[c])
  <2>1. AtMost(left[s], wire[c]) \in 0..Len(wire[c])
    BY <1>3, AtMostIs
  <2> QED
    BY <1>2, <1>3, <2>1
<1>7. /\ Prefix(wire[c], k) \in Seq(Token) /\ Rest(wire[c], k) \in Seq(Token)
      /\ Len(Prefix(wire[c], k)) = k /\ Len(Rest(wire[c], k)) = Len(wire[c]) - k
  <2>1. \A q \in Seq(Token) : \A n \in 0..Len(q) :
          /\ Prefix(q, n) \in Seq(Token) /\ Rest(q, n) \in Seq(Token)
          /\ Len(Prefix(q, n)) = n /\ Len(Rest(q, n)) = Len(q) - n
    BY CutIs
  <2> QED
    BY <1>3, <1>6, <2>1, Zenon
<1>8. Moves(s, "downloadWrite")
  BY <1>1, Moving DEF States, Awaits, DownstreamOps
<1>9. TypeOK'
  <2>1. chunk' \in [Sessions -> Seq(Token)] /\ wire' \in [Conns -> Seq(Token)]
    BY <1>1, <1>2, <1>7 DEF TypeOK
  <2> QED
    BY <1>1, <1>8, <2>1 DEF TypeOK, Moves, States
<1>10. \A t \in Sessions : t # s => Untouched(t)
  BY <1>1, <1>2, <1>8 DEF Untouched, Moves, TypeOK
<1>11. \A d \in Conns : d # c => UpstreamSame(d)
  BY <1>1, <1>2 DEF UpstreamSame, TypeOK
<1>12. HeadOk(s)' /\ FinishOk(s)' /\ pc'[s] = "downloadWrite"
  BY <1>0, <1>1, <1>8 DEF HeadOk, FinishOk, Moves, Uploading, Responding
<1>13. ClientOk(s)'
  <2>1. ToCome(s)' = 0
    BY <1>12 DEF ToCome
  <2> QED
    BY <1>4, <1>12, <2>1 DEF ClientOk
<1>14. AnswerOk(s)'
  <2>1. Bodies(Prefix(wire[c], k), Request(s)) /\ Bodies(Rest(wire[c], k), Request(s))
    BY <1>3, <1>5, <1>6, BodiesSplit
  <2>2. chunk'[s] = Prefix(wire[c], k) /\ wire'[c] = Rest(wire[c], k)
    BY <1>1, <1>2 DEF TypeOK
  <2>3. Len(upstreamInput[s]) + Len(wire'[c]) + Len(chunk'[s]) <= left[s]
    <3>1. Len(wire'[c]) = Len(wire[c]) - k /\ Len(chunk'[s]) = k
      BY <1>7, <2>2
    <3>2. \A i, j, l \in Nat : \A n \in 0..j : i + j + 0 <= l => i + (j - n) + n <= l
      OBVIOUS
    <3> QED
      BY <1>3, <1>5, <1>6, <3>1, <3>2, Zenon
  <2>4. Relaying(s, lease[s], Request(s))'
    BY <1>5, <1>12, <2>1, <2>2, <2>3, Zenon DEF Relaying
  <2> QED
    BY <1>12, <2>4 DEF AnswerOk, Asking, Hearing, Uploading, Responding
<1>15. SessionOk(s)'
  BY <1>12, <1>13, <1>14 DEF SessionOk
<1> QED
  BY <1>1, <1>8, <1>9, <1>10, <1>11, <1>15, LocalStep DEF States, Awaits, DownstreamOps, Serving,
     Downloading

LEMMA PartialWriteInv ==
  ASSUME IndInv, NEW s \in Sessions, PartialWrite(s)
  PROVE  IndInv'
<1> USE DEF PartialWrite, sessionVars, dataVars, leaseVars, poolVars, upstreamVars
<1>0. TypeOK /\ LeaseInv /\ SessionOk(s)
  BY DEF IndInv
<1>1. pc[s] \in States /\ pc[s] # "connect"
  BY DEF States, Awaits, Writes, DownstreamOps, UpstreamOps
<1>2. Moves(s, pc[s])
  BY <1>0, <1>1, Moving
<1>3. TypeOK'
  BY <1>0, <1>2 DEF TypeOK, Moves, States
<1>4. \A t \in Sessions : Untouched(t)
  BY <1>2 DEF Untouched, Moves
<1>5. \A d \in Conns : UpstreamSame(d)
  BY DEF UpstreamSame
<1>6. /\ pc[s] \in Serving => lease[s] # None
      /\ pc[s] \notin Serving \cup Failed => lease[s] = None
  BY <1>0 DEF LeaseInv
<1>7. pc[s] \in Serving => UpstreamSame(lease[s])
  BY DEF UpstreamSame
<1>8. SessionOk(s)'
  BY <1>0, <1>4, <1>7, SessionKept
<1> QED
  BY <1>1, <1>2, <1>3, <1>4, <1>5, <1>6, <1>8, LocalStep

\* The head is with the upstream ...
LEMMA WrittenHeadInv ==
  ASSUME IndInv, NEW s \in Sessions, Written(s), pc[s] = "writeHead"
  PROVE  IndInv'
<1> USE DEF Written, sessionVars, dataVars, leaseVars, poolVars
<1> DEFINE c == lease[s]
<1>0. pc[s] \in Serving
  BY DEF Serving
<1>1. /\ TypeOK /\ HeadOk(s) /\ FinishOk(s) /\ ClientOk(s)
      /\ Asking(s, lease[s], Request(s))
      /\ lease[s] \in Conns /\ lease[s] # None /\ currentUpstream[s] = c
  BY <1>0, ServingFacts
<1>2. /\ Run(s, "upload") /\ left' = [left EXCEPT ![s] = left[s]]
      /\ chunk' = [chunk EXCEPT ![s] = <<>>]
      /\ asked' = [asked EXCEPT ![c] = Request(s)] /\ owes' = [owes EXCEPT ![c] = left[s]]
  BY <1>1 DEF AfterWrite
<1>3. left[s] \in Nat /\ Request(s) \in Sessions \X Nat /\ left' = left
  BY <1>1, <1>2 DEF TypeOK, Request
<1>4. Framed(s, input[s] \o client[s], left[s], current[s]) /\ s \notin responseStarted
  BY <1>1 DEF ClientOk, HeadOk, Failed, ToCome
<1>5. Moves(s, "upload")
  BY <1>1, <1>2, Moving DEF States, Running
<1>6. TypeOK'
  <2>1. /\ asked' \in [Conns -> (Sessions \X Nat) \cup {NoRequest}]
        /\ owes' \in [Conns -> Nat] /\ chunk' \in [Sessions -> Seq(Token)]
    BY <1>1, <1>2, <1>3, SMTT(30) DEF TypeOK
  <2> QED
    BY <1>1, <1>3, <1>5, <2>1 DEF TypeOK, Moves, States
<1>7. \A t \in Sessions : t # s => Untouched(t)
  BY <1>1, <1>2, <1>3, <1>5 DEF Untouched, Moves, TypeOK
<1>8. \A d \in Conns : d # c => UpstreamSame(d)
  BY <1>1, <1>2 DEF UpstreamSame, TypeOK
<1>9. HeadOk(s)' /\ FinishOk(s)' /\ pc'[s] = "upload"
  BY <1>1, <1>4, <1>5 DEF HeadOk, FinishOk, Moves
<1>10. ClientOk(s)'
  <2>1. ToCome(s)' = left[s]
    BY <1>3, <1>9 DEF ToCome
  <2> QED
    BY <1>4, <1>9, <2>1 DEF ClientOk
<1>11. AnswerOk(s)'
  <2>1. wire[c] = <<>> /\ wire' = wire
    BY <1>1 DEF Asking, Clean
  <2>2. asked'[c] = Request(s) /\ owes'[c] = left[s] /\ Request(s)' = Request(s)
    BY <1>1, <1>2 DEF TypeOK, Request
  <2>3. Asking(s, lease[s], Request(s))'
    BY <1>3, <1>9, <2>1, <2>2 DEF Asking
  <2> QED
    BY <1>9, <2>3 DEF AnswerOk, Hearing, Relaying, Responding, Downloading
<1>12. SessionOk(s)'
  BY <1>9, <1>10, <1>11 DEF SessionOk
<1> QED
  BY <1>1, <1>5, <1>6, <1>7, <1>8, <1>12, LocalStep DEF States, Running, Serving, Uploading

\* ... and then a part of the body, which it owes no more.
LEMMA WrittenBodyInv ==
  ASSUME IndInv, NEW s \in Sessions, Written(s), pc[s] = "uploadWrite"
  PROVE  IndInv'
<1> USE DEF Written, sessionVars, dataVars, leaseVars, poolVars
<1> DEFINE c == lease[s]
           k == Len(chunk[s])
<1>0. pc[s] \in Serving
  BY DEF Serving, Uploading
<1>1. /\ TypeOK /\ HeadOk(s) /\ FinishOk(s) /\ ClientOk(s)
      /\ Asking(s, lease[s], Request(s))
      /\ lease[s] \in Conns /\ lease[s] # None /\ currentUpstream[s] = c
  BY <1>0, ServingFacts
<1>2. /\ Run(s, "upload") /\ left' = [left EXCEPT ![s] = left[s] - k]
      /\ chunk' = [chunk EXCEPT ![s] = <<>>]
      /\ asked' = asked /\ owes' = [owes EXCEPT ![c] = owes[c] - k]
  BY <1>1 DEF AfterWrite
<1>3. /\ left[s] \in Nat /\ k \in Nat /\ k <= left[s] /\ owes[c] = left[s]
      /\ wire[c] = <<>> /\ asked[c] = Request(s)
  BY <1>1 DEF TypeOK, ClientOk, Asking, Uploading
<1>4. Framed(s, input[s] \o client[s], left[s] - k, current[s]) /\ s \notin responseStarted
  BY <1>1 DEF ClientOk, HeadOk, Failed, ToCome, Uploading
<1>5. Moves(s, "upload")
  BY <1>1, <1>2, Moving DEF States, Running
<1> HIDE DEF k
<1>6. TypeOK'
  <2>1. left[s] - k \in Nat /\ owes[c] - k \in Nat
    BY <1>3
  <2>2. /\ left' \in [Sessions -> Nat]
        /\ owes' \in [Conns -> Nat] /\ chunk' \in [Sessions -> Seq(Token)]
    BY <1>1, <1>2, <2>1 DEF TypeOK
  <2> QED
    BY <1>1, <1>2, <1>5, <2>2 DEF TypeOK, Moves, States
<1>7. \A t \in Sessions : t # s => Untouched(t)
  BY <1>1, <1>2, <1>5 DEF Untouched, Moves, TypeOK
<1>8. \A d \in Conns : d # c => UpstreamSame(d)
  BY <1>1, <1>2 DEF UpstreamSame, TypeOK
<1>9. HeadOk(s)' /\ FinishOk(s)' /\ pc'[s] = "upload"
  BY <1>1, <1>4, <1>5 DEF HeadOk, FinishOk, Moves, Uploading
<1>10. left'[s] = left[s] - k /\ owes'[c] = left[s] - k
  BY <1>1, <1>2, <1>3 DEF TypeOK
<1>11. ClientOk(s)'
  <2>1. ToCome(s)' = left[s] - k
    BY <1>9, <1>10 DEF ToCome
  <2> QED
    BY <1>4, <1>9, <2>1 DEF ClientOk
<1>12. AnswerOk(s)'
  <2>1. Request(s)' = Request(s)
    BY DEF Request
  <2>2. Asking(s, lease[s], Request(s))'
    BY <1>2, <1>3, <1>9, <1>10, <2>1 DEF Asking
  <2> QED
    BY <1>9, <2>2 DEF AnswerOk, Hearing, Relaying, Responding, Downloading
<1>13. SessionOk(s)'
  BY <1>9, <1>11, <1>12 DEF SessionOk
<1> QED
  BY <1>1, <1>5, <1>6, <1>7, <1>8, <1>13, LocalStep DEF States, Running, Serving, Uploading

\* The client has the head of its response, or a part of the body.
LEMMA WrittenResponseInv ==
  ASSUME IndInv, NEW s \in Sessions, Written(s), pc[s] \in {"writeResponse", "downloadWrite"}
  PROVE  IndInv'
<1> USE DEF Written, sessionVars, dataVars, leaseVars, poolVars
<1> DEFINE c == lease[s]
           k == IF pc[s] = "downloadWrite" THEN Len(chunk[s]) ELSE 0
<1>0. pc[s] \in Serving
  BY DEF Serving, Downloading
<1>1. /\ TypeOK /\ HeadOk(s) /\ FinishOk(s) /\ ClientOk(s)
      /\ Relaying(s, lease[s], Request(s))
      /\ lease[s] \in Conns /\ lease[s] # None /\ currentUpstream[s] = c
  BY <1>0, ServingFacts
<1>3. /\ left[s] \in Nat /\ k \in Nat /\ Len(upstreamInput[s]) \in Nat /\ Len(wire[c]) \in Nat
  BY <1>1 DEF TypeOK
<1>2. /\ Run(s, "download") /\ left' = [left EXCEPT ![s] = left[s] - k]
      /\ chunk' = [chunk EXCEPT ![s] = <<>>] /\ asked' = asked /\ owes' = owes
  <2>1. CASE pc[s] = "writeResponse"
    <3>1. k = 0 /\ left[s] - k = left[s]
      BY <1>3, <2>1
    <3>2. Run(s, "download") /\ left' = [left EXCEPT ![s] = left[s]]
      BY <2>1 DEF AfterWrite
    <3>3. chunk' = [chunk EXCEPT ![s] = <<>>] /\ asked' = asked /\ owes' = owes
      BY <2>1
    <3> HIDE DEF k
    <3> QED
      BY <3>1, <3>2, <3>3
  <2>2. CASE pc[s] = "downloadWrite"
    BY <2>2 DEF AfterWrite
  <2> QED
    BY <2>1, <2>2
<1>4. Framed(s, input[s] \o client[s], 0, current[s])
  BY <1>1 DEF ClientOk, Failed, ToCome
<1>5. /\ owes[c] = 0 /\ asked[c] = NoRequest
      /\ Bodies(upstreamInput[s], Request(s)) /\ Bodies(wire[c], Request(s))
      /\ Len(upstreamInput[s]) + Len(wire[c]) + k <= left[s] /\ Request(s)' = Request(s)
  BY <1>1 DEF Relaying, Downloading, Request
<1> HIDE DEF k
<1>a. left[s] - k \in Nat /\ Len(upstreamInput[s]) + Len(wire[c]) + 0 <= left[s] - k
  <2>1. \A i, j, l, n \in Nat : i + j + n <= l => l - n \in Nat /\ i + j + 0 <= l - n
    OBVIOUS
  <2> QED
    BY <1>3, <1>5, <2>1, Zenon
<1>6. Moves(s, "download")
  BY <1>1, <1>2, Moving DEF States, Running
<1>7. TypeOK'
  <2>2. left' \in [Sessions -> Nat] /\ chunk' \in [Sessions -> Seq(Token)]
    BY <1>1, <1>2, <1>a DEF TypeOK
  <2> QED
    BY <1>1, <1>2, <1>6, <2>2 DEF TypeOK, Moves, States
<1>8. \A t \in Sessions : t # s => Untouched(t)
  BY <1>1, <1>2, <1>6 DEF Untouched, Moves, TypeOK
<1>9. \A d \in Conns : UpstreamSame(d)
  BY <1>2 DEF UpstreamSame
<1>10. HeadOk(s)' /\ FinishOk(s)' /\ pc'[s] = "download"
  BY <1>1, <1>6 DEF HeadOk, FinishOk, Moves, Uploading, Responding
<1>11. ClientOk(s)'
  <2>1. ToCome(s)' = 0
    BY <1>10 DEF ToCome
  <2> QED
    BY <1>4, <1>10, <2>1 DEF ClientOk
<1>12. AnswerOk(s)'
  <2>1. left'[s] = left[s] - k
    BY <1>1, <1>2 DEF TypeOK
  <2>2. Len(upstreamInput[s]) + Len(wire[c]) + 0 <= left'[s]
    BY <1>a, <2>1, Zenon
  <2>3. Relaying(s, lease[s], Request(s))'
    BY <1>2, <1>5, <1>10, <2>2, Zenon DEF Relaying
  <2> QED
    BY <1>10, <2>3 DEF AnswerOk, Asking, Hearing, Uploading, Responding
<1>13. SessionOk(s)'
  BY <1>10, <1>11, <1>12 DEF SessionOk
<1> QED
  BY <1>1, <1>6, <1>7, <1>8, <1>9, <1>13, LocalStep DEF States, Running, Serving, Downloading

LEMMA WrittenErrorInv ==
  ASSUME IndInv, NEW s \in Sessions, Written(s), pc[s] = "sendError"
  PROVE  IndInv'
<1> USE DEF Written, sessionVars, dataVars, leaseVars, poolVars
<1>1. TypeOK /\ HeadOk(s) /\ FinishOk(s)
  BY DEF IndInv, SessionOk
<1>2. /\ Run(s, "leave") /\ left' = left
      /\ chunk' = [chunk EXCEPT ![s] = <<>>] /\ asked' = asked /\ owes' = owes
  BY <1>1 DEF AfterWrite, TypeOK
<1>3. Moves(s, "leave")
  BY <1>1, <1>2, Moving DEF States, Running
<1>4. TypeOK'
  <2>1. chunk' \in [Sessions -> Seq(Token)]
    BY <1>1, <1>2 DEF TypeOK
  <2> QED
    BY <1>1, <1>2, <1>3, <2>1 DEF TypeOK, Moves, States
<1>5. \A t \in Sessions : t # s => Untouched(t)
  BY <1>1, <1>2, <1>3 DEF Untouched, Moves, TypeOK
<1>6. \A d \in Conns : UpstreamSame(d)
  BY <1>2 DEF UpstreamSame
<1>7. SessionOk(s)'
  <2>1. pc'[s] \in Failed /\ heads'[s] = (IF s \in responseStarted' THEN 1 ELSE 0)
    BY <1>1, <1>3 DEF Moves, Failed, HeadOk
  <2> QED
    BY <1>1, <2>1, FailedOk
<1> QED
  BY <1>3, <1>4, <1>5, <1>6, <1>7, LocalStep DEF States, Running, Serving, Uploading,
     Responding, Downloading, Failed

LEMMA WrittenInv ==
  ASSUME IndInv, NEW s \in Sessions, Written(s)
  PROVE  IndInv'
  BY WrittenHeadInv, WrittenBodyInv, WrittenResponseInv, WrittenErrorInv DEF Written, Writes

----------------------------------------------------------------------------
(* What goes on beside the coroutines *)

\* Where every session is, and what it leases, is unchanged.
LEMMA SessionsKept ==
  ASSUME IndInv, UNCHANGED <<leaseVars, upstreamVars>>, \A t \in Sessions : Untouched(t)
  PROVE  \A t \in Sessions : SessionOk(t)'
<1> SUFFICES ASSUME NEW t \in Sessions PROVE SessionOk(t)'
  OBVIOUS
<1>1. SessionOk(t) /\ Untouched(t) /\ lease'[t] = lease[t]
  BY DEF IndInv, leaseVars
<1>2. UpstreamSame(lease[t])
  BY DEF UpstreamSame, upstreamVars
<1> QED
  BY <1>1, <1>2, SessionKept

LEMMA QuietStep ==
  ASSUME IndInv, TypeOK', UNCHANGED <<pc, leaseVars, poolVars, upstreamVars>>,
         \A t \in Sessions : Untouched(t)
  PROVE  IndInv'
<1>1. \A t \in Sessions : SessionOk(t)'
  BY SessionsKept
<1>2. LeaseInv'
  BY DEF IndInv, LeaseInv, leaseVars, poolVars
<1>3. PoolInv'
  <2>1. PoolInv /\ Connecting' = Connecting
    BY DEF IndInv, Connecting
  <2> QED
    BY <2>1 DEF PoolInv, Used, Clean, poolVars, upstreamVars
<1> QED
  BY <1>1, <1>2, <1>3 DEF IndInv

LEMMA PeerClosedInv ==
  ASSUME IndInv, NEW s \in Sessions, PeerClosed(s)
  PROVE  IndInv'
<1> USE DEF PeerClosed, CancelInLoop, Reached, dataVars, leaseVars, poolVars, upstreamVars
<1>0. TypeOK
  BY DEF IndInv
<1>1. TypeOK'
  <2>1. /\ cancelled' \subseteq Sessions /\ cancelling' \subseteq Sessions
        /\ monitor' \in [Sessions -> {"new", "waiting", "cancelling", "done"}]
        /\ down' \in [Sessions -> {"connected", "disconnecting", "closed"}]
    BY <1>0 DEF TypeOK
  <2> QED
    BY <1>0, <2>1 DEF TypeOK
<1>2. \A t \in Sessions : Untouched(t)
  BY <1>0, SMTT(30) DEF Untouched, TypeOK
<1> QED
  BY <1>1, <1>2, QuietStep

LEMMA StopAcquiringInv ==
  ASSUME IndInv, StopAcquiring
  PROVE  IndInv'
<1> USE DEF StopAcquiring, sessionVars, dataVars, leaseVars, poolVars, upstreamVars
<1>0. TypeOK
  BY DEF IndInv
<1>1. TypeOK'
  BY <1>0 DEF TypeOK
<1>2. \A t \in Sessions : Untouched(t)
  BY DEF Untouched
<1> QED
  BY <1>1, <1>2, QuietStep

LEMMA CancelSessionsInv ==
  ASSUME IndInv, CancelSessions
  PROVE  IndInv'
<1> USE DEF CancelSessions, CancelInLoop, Reached, Active, Connecting, dataVars, leaseVars, poolVars,
     upstreamVars
<1>0. TypeOK
  BY DEF IndInv
<1>1. TypeOK'
  <2>1. cancelled' \subseteq Sessions /\ cancelling' \subseteq Sessions
    BY <1>0 DEF TypeOK
  <2>2. monitor' \in [Sessions -> {"new", "waiting", "cancelling", "done"}]
    BY <1>0 DEF TypeOK
  <2>3. down' \in [Sessions -> {"connected", "disconnecting", "closed"}]
    BY <1>0 DEF TypeOK
  <2> QED
    BY <1>0, <2>1, <2>2, <2>3 DEF TypeOK
<1>2. \A t \in Sessions : Untouched(t)
  BY <1>0 DEF Untouched, TypeOK
<1> QED
  BY <1>1, <1>2, QuietStep

LEMMA CloseDownstreamInv ==
  ASSUME IndInv, NEW s \in Sessions, CloseDownstream(s)
  PROVE  IndInv'
<1> USE DEF CloseDownstream, dataVars, leaseVars, poolVars, upstreamVars
<1>0. TypeOK
  BY DEF IndInv
<1>1. TypeOK'
  BY <1>0 DEF TypeOK
<1>2. \A t \in Sessions : Untouched(t)
  BY <1>0 DEF Untouched, TypeOK
<1> QED
  BY <1>1, <1>2, QuietStep

LEMMA ClientClosesInv ==
  ASSUME IndInv, NEW s \in Sessions, ClientCloses(s)
  PROVE  IndInv'
<1> USE DEF ClientCloses, sessionVars, dataVars, leaseVars, poolVars, upstreamVars
<1>0. TypeOK
  BY DEF IndInv
<1>1. TypeOK'
  BY <1>0 DEF TypeOK
<1>2. \A t \in Sessions : Untouched(t)
  BY DEF Untouched
<1> QED
  BY <1>1, <1>2, QuietStep

LEMMA StutterInv ==
  ASSUME IndInv, UNCHANGED vars
  PROVE  IndInv'
<1> USE DEF vars, sessionVars, dataVars, leaseVars, poolVars, upstreamVars
<1>0. TypeOK
  BY DEF IndInv
<1>1. TypeOK'
  BY <1>0 DEF TypeOK
<1>2. \A t \in Sessions : Untouched(t)
  BY DEF Untouched
<1> QED
  BY <1>1, <1>2, QuietStep

LEMMA AnswerShape ==
  ASSUME NEW w \in Seq(Token), NEW h \in Token, NEW b \in Token, NEW n \in Nat,
         NEW f, f = [i \in 1..n |-> b]
  PROVE  /\ w \o <<h>> \o f \in Seq(Token)
         /\ w = <<>> => /\ Len(w \o <<h>> \o f) = n + 1 /\ (w \o <<h>> \o f)[1] = h
                        /\ \A j \in 2..(n + 1) : (w \o <<h>> \o f)[j] = b
<1> DEFINE v == w \o <<h>>
<1>1. f \in Seq(Token) /\ Len(f) = n /\ \A i \in 1..n : f[i] = b
  OBVIOUS
<1>2. v \in Seq(Token) /\ (w = <<>> => Len(v) = 1 /\ v[1] = h)
  OBVIOUS
<1> HIDE DEF v
<1>3. /\ v \o f \in Seq(Token) /\ Len(v \o f) = Len(v) + Len(f)
      /\ \A i \in 1..Len(v) : (v \o f)[i] = v[i]
      /\ \A i \in 1..Len(f) : (v \o f)[Len(v) + i] = f[i]
  <2>c. \A x \in Seq(Token), y \in Seq(Token) :
          /\ x \o y \in Seq(Token) /\ Len(x \o y) = Len(x) + Len(y)
          /\ \A i \in 1..Len(x) : (x \o y)[i] = x[i]
          /\ \A i \in 1..Len(y) : (x \o y)[Len(x) + i] = y[i]
    BY ConcatIs
  <2> QED
    BY <1>1, <1>2, <2>c, Zenon
<1>4. ASSUME w = <<>>
      PROVE  /\ Len(v \o f) = n + 1 /\ (v \o f)[1] = h
             /\ \A j \in 2..(n + 1) : (v \o f)[j] = b
  <2>1. Len(v) = 1 /\ v[1] = h /\ Len(f) = n
    BY <1>1, <1>2, <1>4
  <2>2. Len(v \o f) = n + 1 /\ (v \o f)[1] = h
    BY <1>3, <2>1
  <2>3. ASSUME NEW j \in 2..(n + 1) PROVE (v \o f)[j] = b
    <3>1. j - 1 \in 1..n /\ j = 1 + (j - 1)
      OBVIOUS
    <3>2. \A i \in 1..n : (v \o f)[1 + i] = b
      BY <1>1, <1>3, <2>1
    <3> QED
      BY <3>1, <3>2
  <2> QED
    BY <2>2, <2>3
<1>5. v \o f \in Seq(Token)
  BY <1>3
<1> QED
  BY <1>4, <1>5 DEF v

LEMMA AnswerInv ==
  ASSUME IndInv, NEW c \in Conns, Answer(c)
  PROVE  IndInv'
<1> USE DEF Answer, sessionVars, dataVars, leaseVars, poolVars
<1>0. TypeOK /\ LeaseInv /\ PoolInv
  BY DEF IndInv
<1>1. place[c] = "leased"
  BY <1>0 DEF PoolInv, Clean
<1>2. PICK s \in Sessions : lease[s] = c
  BY <1>0, <1>1 DEF LeaseInv
<1>3. PICK len \in ResponseBodies, keep \in BOOLEAN : \E sent \in 0..len :
        wire' = [wire EXCEPT ![c] =
                   @ \o <<[req |-> asked[c], part |-> "head", len |-> len, keep |-> keep]>>
                     \o [i \in 1..sent |->
                           [req |-> asked[c], part |-> "body", len |-> len, keep |-> keep]]]
  OBVIOUS
<1> DEFINE h == [req |-> asked[c], part |-> "head", len |-> len, keep |-> keep]
           b == [req |-> asked[c], part |-> "body", len |-> len, keep |-> keep]
<1>4. PICK sent \in 0..len :
        wire' = [wire EXCEPT ![c] = wire[c] \o <<h>> \o [i \in 1..sent |-> b]]
  BY <1>3
<1>5. asked[c] \in Sessions \X Nat /\ len \in Nat /\ sent \in Nat /\ sent <= len
      /\ wire[c] \in Seq(Token)
  BY <1>0, <1>4, BodyAssumption DEF TypeOK, BodyAssumption
<1>6. h \in Token /\ b \in Token
  BY <1>5 DEF Token
<1>7. /\ h.part = "head" /\ b.part = "body" /\ h.req = asked[c] /\ b.req = asked[c] /\ h.len = len
  OBVIOUS
<1> HIDE DEF h, b
<1> DEFINE f == [i \in 1..sent |-> b]
<1>f. f = [i \in 1..sent |-> b]
  OBVIOUS
<1> HIDE DEF f
<1>8. /\ wire[c] \o <<h>> \o f \in Seq(Token)
      /\ wire[c] = <<>> =>
           /\ Len(wire[c] \o <<h>> \o f) = sent + 1 /\ (wire[c] \o <<h>> \o f)[1] = h
           /\ \A j \in 2..(sent + 1) : (wire[c] \o <<h>> \o f)[j] = b
  <2>1. wire[c] \o <<h>> \o f \in Seq(Token)
    BY <1>5, <1>6, <1>f, AnswerShape
  <2>2. ASSUME wire[c] = <<>>
        PROVE  /\ Len(wire[c] \o <<h>> \o f) = sent + 1 /\ (wire[c] \o <<h>> \o f)[1] = h
               /\ \A j \in 2..(sent + 1) : (wire[c] \o <<h>> \o f)[j] = b
    BY <1>5, <1>6, <1>f, <2>2, AnswerShape
  <2> QED
    BY <2>1, <2>2
<1>9. /\ wire'[c] \in Seq(Token)
      /\ wire[c] = <<>> => /\ Len(wire'[c]) = sent + 1 /\ wire'[c][1] = h
                           /\ \A j \in 2..(sent + 1) : wire'[c][j] = b
  <2>1. wire'[c] = wire[c] \o <<h>> \o f
    BY <1>0, <1>4, <1>f DEF TypeOK
  <2> QED
    BY <1>8, <2>1, Zenon
<1>10. wire' \in [Conns -> Seq(Token)] /\ \A d \in Conns : d # c => wire'[d] = wire[d]
  <2> DEFINE v == wire[c] \o <<h>> \o f
  <2>1. wire' = [wire EXCEPT ![c] = v] /\ v \in Seq(Token)
    BY <1>4, <1>8, <1>f
  <2> HIDE DEF v
  <2> QED
    BY <1>0, <2>1 DEF TypeOK
<1>11. /\ asked' \in [Conns -> (Sessions \X Nat) \cup {NoRequest}] /\ asked'[c] = NoRequest
       /\ \A d \in Conns : d # c => asked'[d] = asked[d]
  BY <1>0 DEF TypeOK
<1>12. TypeOK'
  BY <1>0, <1>10, <1>11 DEF TypeOK
<1>13. LeaseInv'
  BY <1>0 DEF LeaseInv
<1>14. \A d \in Conns : d # c => UpstreamSame(d)
  BY <1>10, <1>11 DEF UpstreamSame
<1>15. PoolInv'
  <2>1. Connecting' = Connecting
    BY DEF Connecting
  <2>2. \A d \in Conns : place'[d] # "leased" => Clean(d)'
    BY <1>0, <1>1, <1>14 DEF PoolInv, Clean, UpstreamSame
  <2> QED
    BY <1>0, <2>1, <2>2 DEF PoolInv, Used
<1>16. \A t \in Sessions : Untouched(t)
  BY DEF Untouched
<1>17. ASSUME NEW t \in Sessions PROVE SessionOk(t)'
  <2>0. SessionOk(t) /\ Untouched(t) /\ lease'[t] = lease[t]
    BY <1>16 DEF IndInv
  <2>1. CASE pc[t] \notin Serving
    BY <2>0, <2>1, SessionKept
  <2>2. CASE pc[t] \in Serving /\ lease[t] # c
    <3>1. lease[t] \in Conns
      BY <2>2, ServingFacts
    <3> QED
      BY <1>14, <2>0, <2>2, <3>1, SessionKept
  <2>3. CASE pc[t] \in Serving /\ lease[t] = c
    <3>0. /\ HeadOk(t) /\ FinishOk(t) /\ ClientOk(t) /\ Asking(t, lease[t], Request(t))
          /\ Hearing(t, lease[t], Request(t)) /\ Relaying(t, lease[t], Request(t))
      BY <2>3, ServingFacts
    <3>1. pc[t] \notin Running
      BY DEF Quiet, Waiting
    <3>2. pc[t] \notin {"writeHead", "uploadRead", "uploadWrite"}
      <4>1. left[t] \in Nat
        BY <1>0 DEF TypeOK
      <4> QED
        BY <2>3, <3>0, <4>1 DEF Asking, ClientOk, Clean, Uploading
    <3>3. pc[t] \notin Downloading
      BY <2>3, <3>0 DEF Relaying
    <3>4. pc[t] = "readResponse"
      BY <2>3, <3>1, <3>2, <3>3 DEF Serving, Uploading, Responding, Running
    <3>5. /\ owes[c] = 0 /\ asked[c] = Request(t) /\ upstreamInput[t] = <<>> /\ wire[c] = <<>>
      BY <2>3, <3>0, <3>4 DEF Hearing, Responding
    <3>6. Request(t)' = Request(t) /\ pc'[t] = "readResponse" /\ lease'[t] = c
      BY <2>3, <3>4 DEF Request
    <3>7. Response1(wire'[c], <<>>, Request(t))
      <4>1. Len(wire'[c]) = sent + 1 /\ wire'[c][1] = h /\ \A j \in 2..(sent + 1) : wire'[c][j] = b
        BY <1>9, <3>5
      <4>2. wire'[c] # <<>>
        BY <1>5, <4>1
      <4>3. \A j \in 2..Len(wire'[c]) : wire'[c][j].part = "body" /\ wire'[c][j].req = Request(t)
        BY <1>7, <3>5, <4>1
      <4>4. Bodies(<<>>, Request(t))
        BY DEF Bodies
      <4>5. Len(wire'[c]) + Len(<<>>) <= wire'[c][1].len + 1
        <5>1. Len(<<>>) = 0
          OBVIOUS
        <5>2. sent + 1 + 0 <= len + 1
          BY <1>5
        <5> QED
          BY <1>7, <4>1, <5>1, <5>2, Zenon
      <4>6. wire'[c][1].part = "head" /\ wire'[c][1].req = Request(t)
        BY <1>7, <3>5, <4>1
      <4> QED
        BY <4>2, <4>3, <4>4, <4>5, <4>6, Zenon DEF Response1
    <3>8. Hearing(t, lease[t], Request(t))'
      BY <1>11, <3>5, <3>6, <3>7, Zenon DEF Hearing
    <3>9. HeadOk(t)' /\ FinishOk(t)'
      BY <3>0 DEF HeadOk, FinishOk
    <3>10. ClientOk(t)'
      <4>1. ToCome(t)' = ToCome(t)
        BY DEF ToCome
      <4> QED
        BY <3>0, <3>6, <4>1, Zenon DEF ClientOk
    <3> QED
      BY <3>6, <3>8, <3>9, <3>10 DEF SessionOk, AnswerOk, Asking, Relaying, Uploading, Downloading
  <2> QED
    BY <2>1, <2>2, <2>3
<1> QED
  BY <1>12, <1>13, <1>15, <1>17 DEF IndInv

----------------------------------------------------------------------------
(* The steps that change the pool *)

\* A session whose request was read takes a clean connection.
LEMMA LeaseStep ==
  ASSUME IndInv, TypeOK', PoolInv', NEW s \in Sessions, NEW c \in Conns,
         pc[s] \in {"acquire", "connect"}, Moves(s, "writeHead"),
         lease' = [lease EXCEPT ![s] = c], currentUpstream' = [currentUpstream EXCEPT ![s] = c],
         place[c] # "leased", place'[c] = "leased",
         \A d \in Conns : d # c => (place'[d] = "leased" <=> place[d] = "leased"),
         \A d \in Conns : place[d] = "leased" => UpstreamSame(d), Clean(c)',
         UNCHANGED <<responseStarted, sessionVars, dataVars>>
  PROVE  IndInv'
<1> USE DEF sessionVars, dataVars
<1>0. TypeOK /\ LeaseInv /\ SessionOk(s) /\ c # None
  BY ConnAssumption DEF IndInv, ConnAssumption
<1>1. lease'[s] = c /\ currentUpstream'[s] = c
      /\ \A t \in Sessions : t # s => lease'[t] = lease[t] /\ currentUpstream'[t] = currentUpstream[t]
  BY <1>0 DEF TypeOK
<1>2. lease[s] = None /\ \A t \in Sessions : lease[t] # c
  BY <1>0 DEF LeaseInv, Serving, Failed, Uploading, Responding, Downloading
<1>3. LeaseInv'
  <2>1. ASSUME NEW t \in Sessions
        PROVE  /\ currentUpstream'[t] = lease'[t]
               /\ pc'[t] \in Serving => lease'[t] # None
               /\ pc'[t] \notin Serving \cup Failed => lease'[t] = None
               /\ lease'[t] # None => place'[lease'[t]] = "leased"
    <3>1. CASE t = s
      BY <1>0, <1>1, <3>1 DEF Moves, Serving
    <3>2. CASE t # s
      <4>1. lease[t] # None => lease[t] \in Conns
        BY <1>0 DEF TypeOK
      <4> QED
        BY <1>0, <1>1, <1>2, <3>2, <4>1 DEF Moves, LeaseInv
    <3> QED
      BY <3>1, <3>2
  <2>2. \A t, u \in Sessions : lease'[t] = lease'[u] /\ lease'[t] # None => t = u
    BY <1>0, <1>1, <1>2 DEF LeaseInv
  <2>3. \A d \in Conns : place'[d] = "leased" => \E t \in Sessions : lease'[t] = d
    BY <1>0, <1>1, <1>2, ConnAssumption DEF LeaseInv, ConnAssumption
  <2> QED
    BY <2>1, <2>2, <2>3 DEF LeaseInv
<1>4. ASSUME NEW t \in Sessions, t # s PROVE SessionOk(t)'
  <2>1. Untouched(t) /\ SessionOk(t) /\ lease'[t] = lease[t]
    BY <1>1, <1>4 DEF Untouched, Moves, IndInv
  <2>2. pc[t] \in Serving => UpstreamSame(lease[t])
    BY <1>0, ServingFacts DEF LeaseInv
  <2> QED
    BY <2>1, <2>2, SessionKept
<1>5. SessionOk(s)'
  <2>0. HeadOk(s) /\ FinishOk(s) /\ ClientOk(s) /\ pc'[s] = "writeHead"
    BY <1>0 DEF SessionOk, Moves
  <2>1. HeadOk(s)' /\ FinishOk(s)'
    BY <2>0 DEF HeadOk, FinishOk
  <2>2. ClientOk(s)'
    <3>1. ToCome(s)' = ToCome(s)
      BY <2>0 DEF ToCome
    <3>2. Framed(s, input[s] \o client[s], ToCome(s), current[s])
      BY <2>0 DEF ClientOk, Failed
    <3> QED
      BY <2>0, <3>1, <3>2 DEF ClientOk
  <2>3. AnswerOk(s)'
    BY <1>1, <2>0 DEF AnswerOk, Asking, Hearing, Relaying, Clean, Uploading, Responding, Downloading
  <2> QED
    BY <2>1, <2>2, <2>3 DEF SessionOk
<1> QED
  BY <1>3, <1>4, <1>5 DEF IndInv

\* A session gives up its lease, if it has one.
LEMMA ReturnStep ==
  ASSUME IndInv, TypeOK', PoolInv', NEW s \in Sessions, NEW p, Moves(s, p), p \notin Serving,
         lease' = [lease EXCEPT ![s] = None], currentUpstream' = [currentUpstream EXCEPT ![s] = None],
         lease[s] # None => place'[lease[s]] # "leased",
         \A d \in Conns : d # lease[s] => (place'[d] = "leased" <=> place[d] = "leased")
                                          /\ UpstreamSame(d),
         \A t \in Sessions : t # s => Untouched(t), SessionOk(s)'
  PROVE  IndInv'
<1>0. TypeOK /\ LeaseInv
  BY DEF IndInv
<1>1. lease'[s] = None /\ currentUpstream'[s] = None
      /\ \A t \in Sessions : t # s => lease'[t] = lease[t] /\ currentUpstream'[t] = currentUpstream[t]
  BY <1>0 DEF TypeOK
<1>2. \A t \in Sessions : t # s /\ lease[t] # None => lease[t] # lease[s] /\ lease[t] \in Conns
  BY <1>0 DEF LeaseInv, TypeOK
<1>3. LeaseInv'
  <2>1. ASSUME NEW t \in Sessions
        PROVE  /\ currentUpstream'[t] = lease'[t]
               /\ pc'[t] \in Serving => lease'[t] # None
               /\ pc'[t] \notin Serving \cup Failed => lease'[t] = None
               /\ lease'[t] # None => place'[lease'[t]] = "leased"
    <3>1. CASE t = s
      BY <1>0, <1>1, <3>1 DEF Moves
    <3>2. CASE t # s
      BY <1>0, <1>1, <1>2, <3>2 DEF Moves, LeaseInv
    <3> QED
      BY <3>1, <3>2
  <2>2. \A t, u \in Sessions : lease'[t] = lease'[u] /\ lease'[t] # None => t = u
    BY <1>0, <1>1 DEF LeaseInv
  <2>3. \A d \in Conns : place'[d] = "leased" => \E t \in Sessions : lease'[t] = d
    <3> SUFFICES ASSUME NEW d \in Conns, place'[d] = "leased" PROVE \E t \in Sessions : lease'[t] = d
      OBVIOUS
    <3>1. d # lease[s]
      BY ConnAssumption DEF ConnAssumption
    <3>2. PICK t \in Sessions : lease[t] = d
      BY <1>0, <3>1 DEF LeaseInv
    <3> QED
      BY <1>1, <3>1, <3>2
  <2> QED
    BY <2>1, <2>2, <2>3 DEF LeaseInv
<1>4. ASSUME NEW t \in Sessions, t # s PROVE SessionOk(t)'
  <2>1. Untouched(t) /\ SessionOk(t) /\ lease'[t] = lease[t]
    BY <1>1, <1>4 DEF IndInv
  <2>2. pc[t] \in Serving => UpstreamSame(lease[t])
    BY <1>2, <1>4, ServingFacts
  <2> QED
    BY <2>1, <2>2, SessionKept
<1> QED
  BY <1>3, <1>4 DEF IndInv

\* A connect that is under way has a place in the bucket.
LEMMA ConnectedInv ==
  ASSUME IndInv, NEW s \in Sessions, Connected(s)
  PROVE  IndInv'
<1> USE DEF Connected, InFlight, sessionVars, dataVars, upstreamVars
<1>0. TypeOK /\ PoolInv /\ pc[s] = "connect"
  BY DEF IndInv
<1>1. \E d \in Conns : place[d] = "free"
  <2>1. s \in Connecting /\ Cardinality(Used) + Cardinality(Connecting) <= Cardinality(Conns)
    BY <1>0 DEF PoolInv, Connecting
  <2>2. Cardinality(Connecting \ {s}) = Cardinality(Connecting) - 1
        /\ Cardinality(Connecting \ {s}) \in Nat
    BY <2>1, Finite, FS_RemoveElement, FS_CardinalityType
  <2>3. Cardinality(Used) # Cardinality(Conns)
    BY <2>1, <2>2, Finite
  <2>4. Used # Conns
    BY <2>3
  <2> QED
    BY <1>0, <2>4 DEF Used, TypeOK
<1>2. PICK c \in Conns : c = CHOOSE d \in Conns : place[d] = "free"
  BY <1>1
<1>3. place[c] = "free"
  BY <1>1, <1>2
<1>4. /\ place' = [place EXCEPT ![c] = "leased"] /\ idle' = idle
      /\ lease' = [lease EXCEPT ![s] = c] /\ currentUpstream' = [currentUpstream EXCEPT ![s] = c]
      /\ Await(s, "writeHead")
  BY <1>2 DEF Lease
<1>5. Moves(s, "writeHead")
  BY <1>0, <1>4, Moving DEF States, Awaits, UpstreamOps
<1>6. TypeOK'
  BY <1>0, <1>4, <1>5 DEF TypeOK, Moves, States
<1>7. place'[c] = "leased" /\ \A d \in Conns : d # c => place'[d] = place[d]
  BY <1>0, <1>4 DEF TypeOK
<1>8. PoolInv'
  <2>1. /\ \A i \in 1..Len(idle') : place'[idle'[i]] = "idle"
        /\ \A i, j \in 1..Len(idle') : idle'[i] = idle'[j] => i = j
        /\ \A d \in Conns : place'[d] = "idle" => \E i \in 1..Len(idle') : idle'[i] = d
    <3>1. \A i \in 1..Len(idle) : idle[i] \in Conns
      BY <1>0 DEF TypeOK
    <3> QED
      BY <1>0, <1>3, <1>4, <1>7, <3>1 DEF PoolInv
  <2>2. \A d \in Conns : place'[d] # "leased" => Clean(d)'
    BY <1>0, <1>7 DEF PoolInv, Clean
  <2>3. Cardinality(Used') + Cardinality(Connecting') <= Cardinality(Conns)
    <3>1. Used' = Used \cup {c} /\ Connecting' = Connecting \ {s} /\ s \in Connecting
      BY <1>0, <1>5, <1>7 DEF Used, Connecting, Moves
    <3>2. Cardinality(Connecting \ {s}) = Cardinality(Connecting) - 1 /\ IsFiniteSet(Connecting \ {s})
      BY <3>1, Finite, FS_RemoveElement
    <3>3. Cardinality(Used) + Cardinality(Connecting \ {s}) < Cardinality(Conns)
      BY <1>0, <3>2, Finite DEF PoolInv
    <3> QED
      BY <3>1, <3>2, <3>3, Finite, OneMoreFits
  <2> QED
    BY <2>1, <2>2, <2>3 DEF PoolInv
<1>9. /\ \A d \in Conns : d # c => (place'[d] = "leased" <=> place[d] = "leased")
      /\ \A d \in Conns : place[d] = "leased" => UpstreamSame(d)
      /\ Clean(c)'
  BY <1>0, <1>3, <1>7 DEF UpstreamSame, Clean, PoolInv
<1> QED
  BY <1>0, <1>3, <1>4, <1>5, <1>6, <1>7, <1>8, <1>9, LeaseStep

LEMMA LeaveInv ==
  ASSUME IndInv, NEW s \in Sessions, Leave(s)
  PROVE  IndInv'
<1> USE DEF Leave, Forget
<1>0. TypeOK /\ PoolInv /\ LeaseInv /\ SessionOk(s) /\ pc[s] = "leave"
  BY DEF IndInv
<1>1. Moves(s, "finished")
  BY <1>0, Moving DEF States
<1>2. LeaseDropped(s) = IF lease[s] = None THEN {} ELSE {lease[s]}
  BY DEF LeaseDropped
<1>3. ASSUME NEW d \in Conns
      PROVE  /\ d = lease[s] => place'[d] = "free" /\ Clean(d)'
             /\ d # lease[s] => place'[d] = place[d] /\ UpstreamSame(d)
  BY <1>2, ConnAssumption DEF Discard, Clean, UpstreamSame, ConnAssumption
<1>4. TypeOK'
  <2>1. /\ place' \in [Conns -> {"free", "idle", "leased", "lent"}]
        /\ wire' \in [Conns -> Seq(Token)] /\ owes' \in [Conns -> Nat]
        /\ asked' \in [Conns -> (Sessions \X Nat) \cup {NoRequest}]
    BY <1>0, SMTT(30) DEF Discard, TypeOK
  <2>2. /\ lease' \in [Sessions -> Conns \cup {None}]
        /\ currentUpstream' \in [Sessions -> Conns \cup {None}]
        /\ down' \in [Sessions -> {"connected", "disconnecting", "closed"}]
        /\ finished' \in [Sessions -> Nat]
        /\ monitor' \in [Sessions -> {"new", "waiting", "cancelling", "done"}]
    BY <1>0 DEF TypeOK
  <2>3. /\ client' \in [Sessions -> Seq(Token)] /\ input' \in [Sessions -> Seq(Token)]
        /\ upstreamInput' \in [Sessions -> Seq(Token)] /\ chunk' \in [Sessions -> Seq(Token)]
        /\ left' \in [Sessions -> Nat] /\ current' \in [Sessions -> Nat]
        /\ heads' \in [Sessions -> Nat]
    BY <1>0 DEF TypeOK
  <2>4. keepAlive' \in [Sessions -> BOOLEAN]
    BY <1>0 DEF TypeOK
  <2>5. responseStarted' \subseteq Sessions /\ cancelled' \subseteq Sessions /\ peer' \subseteq Sessions
    BY <1>0 DEF TypeOK
  <2> QED
    BY <1>0, <1>1, <2>1, <2>2, <2>3, <2>4, <2>5 DEF TypeOK, Moves, States
<1>5. \A t \in Sessions : t # s => Untouched(t)
  BY <1>0, <1>1 DEF Untouched, Moves, TypeOK
<1>6. PoolInv'
  <2>1. lease[s] # None => place[lease[s]] = "leased"
    BY <1>0 DEF LeaseInv
  <2>2. /\ \A i \in 1..Len(idle') : place'[idle'[i]] = "idle"
        /\ \A i, j \in 1..Len(idle') : idle'[i] = idle'[j] => i = j
        /\ \A d \in Conns : place'[d] = "idle" => \E i \in 1..Len(idle') : idle'[i] = d
    <3>1. \A i \in 1..Len(idle) : idle[i] \in Conns
      BY <1>0 DEF TypeOK
    <3>2. \A i \in 1..Len(idle) : idle[i] # lease[s]
      BY <1>0, <2>1, <3>1, ConnAssumption DEF PoolInv, ConnAssumption
    <3> QED
      BY <1>0, <1>3, <3>1, <3>2 DEF PoolInv
  <2>3. \A d \in Conns : place'[d] # "leased" => Clean(d)'
    BY <1>0, <1>3 DEF PoolInv, Clean, UpstreamSame
  <2>4. Used' \subseteq Used /\ Connecting' \subseteq Connecting
    BY <1>1, <1>3 DEF Used, Connecting, Moves
  <2>5. Cardinality(Used') + Cardinality(Connecting') <= Cardinality(Conns)
    BY <1>0, <2>4, Finite, LessFits DEF PoolInv
  <2> QED
    BY <2>2, <2>3, <2>5 DEF PoolInv
<1>7. SessionOk(s)'
  <2>1. /\ pc'[s] = "finished" /\ heads'[s] = 0 /\ s \notin responseStarted'
        /\ finished'[s] = 1 /\ down'[s] # "connected"
    BY <1>0, <1>1 DEF TypeOK, Moves, SessionOk, FinishOk
  <2>2. HeadOk(s)' /\ FinishOk(s)'
    BY <2>1 DEF HeadOk, FinishOk, Uploading, Responding
  <2>3. ClientOk(s)' /\ AnswerOk(s)'
    BY <2>1 DEF ClientOk, AnswerOk, Asking, Hearing, Relaying, Uploading, Responding, Downloading
  <2> QED
    BY <2>2, <2>3 DEF SessionOk
<1>8. lease[s] # None => place'[lease[s]] # "leased"
  BY <1>0, <1>3 DEF TypeOK
<1>9. "finished" \notin Serving
  BY DEF Serving, Uploading, Responding, Downloading
<1> QED
  BY <1>1, <1>3, <1>4, <1>5, <1>6, <1>7, <1>8, <1>9, ReturnStep

\* A connection joins the deque at its end.
LEMMA ListJoin ==
  ASSUME TypeOK, PoolInv, NEW c \in Conns, place[c] # "idle", idle' = Append(idle, c),
         place'[c] = "idle", \A d \in Conns : d # c => place'[d] = place[d]
  PROVE  /\ idle' \in Seq(Conns)
         /\ \A i \in 1..Len(idle') : place'[idle'[i]] = "idle"
         /\ \A i, j \in 1..Len(idle') : idle'[i] = idle'[j] => i = j
         /\ \A d \in Conns : place'[d] = "idle" => \E i \in 1..Len(idle') : idle'[i] = d
<1>1. idle \in Seq(Conns) /\ Len(idle) \in Nat /\ \A i \in 1..Len(idle) : idle[i] \in Conns
  BY DEF TypeOK
<1>2. /\ idle' \in Seq(Conns) /\ Len(idle') = Len(idle) + 1
      /\ \A i \in 1..Len(idle) : idle'[i] = idle[i]
      /\ idle'[Len(idle) + 1] = c
  BY <1>1
<1>3. \A i \in 1..Len(idle) : place[idle[i]] = "idle" /\ idle[i] # c
  BY DEF PoolInv
<1>4. \A i \in 1..Len(idle') : i \in 1..Len(idle) \/ i = Len(idle) + 1
  BY <1>1, <1>2
<1>5. \A i \in 1..Len(idle') : place'[idle'[i]] = "idle"
  BY <1>1, <1>2, <1>3, <1>4
<1>6. \A i, j \in 1..Len(idle') : idle'[i] = idle'[j] => i = j
  BY <1>1, <1>2, <1>3, <1>4 DEF PoolInv
<1>7. ASSUME NEW d \in Conns, place'[d] = "idle"
      PROVE  \E i \in 1..Len(idle') : idle'[i] = d
  <2>1. CASE d = c
    <3>1. Len(idle) + 1 \in 1..Len(idle')
      BY <1>1, <1>2
    <3> QED
      BY <1>2, <2>1, <3>1
  <2>2. CASE d # c
    <3>1. PICK i \in 1..Len(idle) : idle[i] = d
      BY <1>7, <2>2 DEF PoolInv
    <3>2. i \in 1..Len(idle')
      BY <1>1, <1>2
    <3> QED
      BY <1>2, <3>1, <3>2
  <2> QED
    BY <2>1, <2>2
<1> QED
  BY <1>2, <1>5, <1>6, <1>7

\* A connection that is not in the deque changes hands.
LEMMA ListSame ==
  ASSUME TypeOK, PoolInv, NEW c \in Conns, place[c] # "idle", idle' = idle,
         place'[c] # "idle", \A d \in Conns : d # c => place'[d] = place[d]
  PROVE  /\ \A i \in 1..Len(idle') : place'[idle'[i]] = "idle"
         /\ \A i, j \in 1..Len(idle') : idle'[i] = idle'[j] => i = j
         /\ \A d \in Conns : place'[d] = "idle" => \E i \in 1..Len(idle') : idle'[i] = d
<1>1. \A i \in 1..Len(idle) : idle[i] \in Conns
  BY DEF TypeOK
<1> QED
  BY <1>1 DEF PoolInv

LEMMA DiscardTypes ==
  ASSUME TypeOK, NEW C, Discard(C)
  PROVE  /\ wire' \in [Conns -> Seq(Token)] /\ owes' \in [Conns -> Nat]
         /\ asked' \in [Conns -> (Sessions \X Nat) \cup {NoRequest}]
  BY DEF Discard, TypeOK

LEMMA CompletedInv ==
  ASSUME IndInv, NEW s \in Sessions, Completed(s)
  PROVE  IndInv'
<1> USE DEF Completed, ResponseConsumed, sessionVars, dataVars
<1>0. pc[s] = "download" /\ pc[s] \in Serving /\ left[s] = 0 /\ PoolInv /\ LeaseInv
  BY DEF IndInv, Serving, Downloading
<1>1. /\ TypeOK /\ HeadOk(s) /\ FinishOk(s) /\ ClientOk(s)
      /\ Relaying(s, lease[s], Request(s))
      /\ lease[s] \in Conns /\ lease[s] # None
  BY <1>0, ServingFacts
<1>2. PICK c \in Conns : c = lease[s]
  BY <1>1
<1>3. place[c] = "leased"
  BY <1>0, <1>1, <1>2 DEF LeaseInv
<1>4. Clean(c)
  <2>1. /\ owes[c] = 0 /\ asked[c] = NoRequest
        /\ Len(upstreamInput[s]) + Len(wire[c]) + 0 <= 0
    BY <1>0, <1>1, <1>2 DEF Relaying, Downloading
  <2>2. Len(upstreamInput[s]) \in Nat /\ wire[c] \in Seq(Token) /\ Len(wire[c]) \in Nat
    BY <1>1 DEF TypeOK
  <2>3. Len(wire[c]) = 0
    <3>1. \A i, j \in Nat : i + j + 0 <= 0 => j = 0
      OBVIOUS
    <3> QED
      BY <2>1, <2>2, <3>1, Zenon
  <2>4. wire[c] = <<>>
    BY <2>2, <2>3
  <2> QED
    BY <2>1, <2>4 DEF Clean
<1> DEFINE p == IF keepAlive[s] THEN "top" ELSE "leave"
           keep == keepAlive[s] /\ Len(idle) < MaxIdle
<1>5. /\ idle' = IF keep THEN Append(idle, c) ELSE idle
      /\ place' = [place EXCEPT ![c] = IF keep THEN "idle" ELSE "free"]
      /\ Discard(IF keep THEN {} ELSE {c})
      /\ Run(s, p)
  BY <1>2
<1>6. Moves(s, p)
  BY <1>1, <1>5, Moving DEF States, Running
<1> HIDE DEF keep
<1>7. /\ place'[c] = (IF keep THEN "idle" ELSE "free")
      /\ \A d \in Conns : d # c => place'[d] = place[d]
  BY <1>1, <1>5 DEF TypeOK
<1>8. /\ \A d \in Conns : d # c => UpstreamSame(d)
      /\ Clean(c)'
  BY <1>4, <1>5 DEF Discard, UpstreamSame, Clean
<1>9. /\ idle' \in Seq(Conns)
      /\ \A i \in 1..Len(idle') : place'[idle'[i]] = "idle"
      /\ \A i, j \in 1..Len(idle') : idle'[i] = idle'[j] => i = j
      /\ \A d \in Conns : place'[d] = "idle" => \E i \in 1..Len(idle') : idle'[i] = d
  <2>1. CASE keep
    BY <1>0, <1>1, <1>3, <1>5, <1>7, <2>1, ListJoin
  <2>2. CASE ~keep
    <3>1. idle' = idle /\ idle \in Seq(Conns)
      BY <1>1, <1>5, <2>2 DEF TypeOK
    <3> QED
      BY <1>0, <1>1, <1>3, <1>7, <2>2, <3>1, ListSame
  <2> QED
    BY <2>1, <2>2
<1>10. TypeOK'
  <2>1. place' \in [Conns -> {"free", "idle", "leased", "lent"}]
    BY <1>1, <1>5 DEF TypeOK
  <2>3. /\ wire' \in [Conns -> Seq(Token)] /\ owes' \in [Conns -> Nat]
        /\ asked' \in [Conns -> (Sessions \X Nat) \cup {NoRequest}]
    BY <1>1, <1>5, DiscardTypes
  <2>2. /\ lease' \in [Sessions -> Conns \cup {None}]
        /\ currentUpstream' \in [Sessions -> Conns \cup {None}]
    BY <1>1 DEF TypeOK
  <2> QED
    BY <1>1, <1>6, <1>9, <2>1, <2>2, <2>3 DEF TypeOK, Moves, States
<1>11. \A t \in Sessions : t # s => Untouched(t)
  BY <1>1, <1>6 DEF Untouched, Moves, TypeOK
<1>12. PoolInv'
  <2>1. \A d \in Conns : place'[d] # "leased" => Clean(d)'
    BY <1>0, <1>7, <1>8 DEF PoolInv, Clean, UpstreamSame
  <2>2. Used' \subseteq Used /\ Connecting' \subseteq Connecting
    BY <1>3, <1>6, <1>7 DEF Used, Connecting, Moves
  <2>3. Cardinality(Used') + Cardinality(Connecting') <= Cardinality(Conns)
    BY <1>0, <2>2, Finite, LessFits DEF PoolInv
  <2> QED
    BY <1>9, <2>1, <2>3 DEF PoolInv
<1>13. SessionOk(s)'
  <2>1. pc'[s] \in {"top", "leave"}
    BY <1>6 DEF Moves
  <2>2. HeadOk(s)' /\ FinishOk(s)'
    BY <1>0, <1>1, <2>1 DEF HeadOk, FinishOk, Uploading, Responding
  <2>3. ClientOk(s)'
    <3>1. ToCome(s)' = 0 /\ ToCome(s) = 0
      BY <1>0, <2>1 DEF ToCome
    <3>2. Framed(s, input[s] \o client[s], 0, current[s])
      BY <1>0, <1>1, <3>1 DEF ClientOk, Failed
    <3> QED
      BY <2>1, <3>1, <3>2 DEF ClientOk
  <2>4. AnswerOk(s)'
    BY <2>1 DEF AnswerOk, Asking, Hearing, Relaying, Uploading, Responding, Downloading
  <2> QED
    BY <2>2, <2>3, <2>4 DEF SessionOk
<1>14. p \notin Serving
  BY DEF Serving, Uploading, Responding, Downloading
<1>15. /\ lease[s] # None => place'[lease[s]] # "leased"
       /\ \A d \in Conns : d # lease[s] => (place'[d] = "leased" <=> place[d] = "leased")
                                           /\ UpstreamSame(d)
  BY <1>2, <1>7, <1>8
<1> QED
  BY <1>6, <1>10, <1>11, <1>12, <1>13, <1>14, <1>15, ReturnStep

\* The k oldest idle connections have expired and the next one is taken.
LEMMA AcquireIdleInv ==
  ASSUME IndInv, NEW s \in Sessions, AcquireIdle(s)
  PROVE  IndInv'
<1> USE DEF AcquireIdle, sessionVars, dataVars
<1>0. TypeOK /\ PoolInv /\ pc[s] = "acquire"
  BY DEF IndInv
<1>1. PICK k \in 0..Len(idle) - 1 :
        /\ idle' = Rest(idle, k + 1)
        /\ place' = [c \in Conns |->
             IF c \in Elements(Prefix(idle, k)) THEN "free"
             ELSE IF c = idle[k + 1] THEN "leased" ELSE place[c]]
        /\ Discard(Elements(Prefix(idle, k)))
        /\ Lease(s, idle[k + 1])
  OBVIOUS
<1>2. /\ idle \in Seq(Conns) /\ Len(idle) \in Nat /\ k \in Nat /\ k + 1 <= Len(idle)
      /\ k \in 0..Len(idle) /\ k + 1 \in 0..Len(idle) /\ k + 1 \in 1..Len(idle)
      /\ \A i \in 1..Len(idle) : idle[i] \in Conns /\ place[idle[i]] = "idle"
      /\ \A i, j \in 1..Len(idle) : idle[i] = idle[j] => i = j
  <2>1. idle \in Seq(Conns) /\ Len(idle) \in Nat /\ \A i \in 1..Len(idle) : idle[i] \in Conns
    BY <1>0, SMTT(30) DEF TypeOK
  <2>2. /\ k \in Nat /\ k + 1 <= Len(idle) /\ k \in 0..Len(idle) /\ k + 1 \in 0..Len(idle)
        /\ k + 1 \in 1..Len(idle)
    BY <1>1, <2>1
  <2> QED
    BY <1>0, <2>1, <2>2 DEF PoolInv
<1>3. PICK c \in Conns : c = idle[k + 1]
  BY <1>2
<1> DEFINE P == Elements(Prefix(idle, k))
<1>4. \A d \in Conns : d \in P <=> \E i \in 1..k : idle[i] = d
  <2>1. Len(Prefix(idle, k)) = k /\ \A i \in 1..k : Prefix(idle, k)[i] = idle[i]
    BY <1>2, PrefixRest
  <2> QED
    BY <2>1 DEF Elements
<1>5. Discard(P) /\ Lease(s, c)
      /\ \A d \in Conns : place'[d] = IF d \in P THEN "free" ELSE IF d = c THEN "leased" ELSE place[d]
  BY <1>1, <1>3
<1> HIDE DEF P
<1>6. c \notin P /\ place[c] = "idle" /\ Clean(c)
  <2>1. \A i \in 1..k : i \in 1..Len(idle) /\ i # k + 1
    BY <1>2
  <2>2. c \notin P
    BY <1>2, <1>3, <1>4, <2>1
  <2> QED
    BY <1>0, <1>2, <1>3, <2>2 DEF PoolInv
<1>7. \A d \in P : d \in Conns => place[d] = "idle"
  <2>1. \A i \in 1..k : i \in 1..Len(idle)
    BY <1>2
  <2> QED
    BY <1>2, <1>4, <2>1
<1>8. Moves(s, "writeHead") /\ lease' = [lease EXCEPT ![s] = c]
      /\ currentUpstream' = [currentUpstream EXCEPT ![s] = c]
  BY <1>0, <1>5, Moving DEF Lease, States, Awaits, UpstreamOps
<1>9. /\ Len(idle') = Len(idle) - (k + 1) /\ idle' \in Seq(Conns)
      /\ \A i \in 1..(Len(idle) - (k + 1)) : idle'[i] = idle[(k + 1) + i]
  <2>1. \A m \in 0..Len(idle) :
          /\ Len(Rest(idle, m)) = Len(idle) - m /\ Rest(idle, m) \in Seq(Conns)
          /\ \A i \in 1..(Len(idle) - m) : Rest(idle, m)[i] = idle[m + i]
    BY <1>2, PrefixRest
  <2>2. idle' = Rest(idle, k + 1) /\ k + 1 \in 0..Len(idle)
    BY <1>1, <1>2
  <2> QED
    BY <2>1, <2>2, Zenon
<1>10. TypeOK'
  <2>1. place' \in [Conns -> {"free", "idle", "leased", "lent"}]
    BY <1>0, <1>1 DEF TypeOK
  <2>2. /\ wire' \in [Conns -> Seq(Token)] /\ owes' \in [Conns -> Nat]
        /\ asked' \in [Conns -> (Sessions \X Nat) \cup {NoRequest}]
    BY <1>0, <1>5, DiscardTypes
  <2>3. /\ lease' \in [Sessions -> Conns \cup {None}]
        /\ currentUpstream' \in [Sessions -> Conns \cup {None}]
    BY <1>0, <1>8 DEF TypeOK
  <2> QED
    BY <1>0, <1>8, <1>9, <2>1, <2>2, <2>3 DEF TypeOK, Moves, States
<1>11. \A d \in Conns : (d \notin P => UpstreamSame(d)) /\ (d \in P => Clean(d)')
  BY <1>5 DEF Discard, UpstreamSame, Clean
<1>12. PoolInv'
  <2>0. \A i \in 1..Len(idle') : /\ (k + 1) + i \in 1..Len(idle) /\ (k + 1) + i # k + 1
                                 /\ (k + 1) + i \notin 1..k /\ idle'[i] = idle[(k + 1) + i]
    BY <1>2, <1>9
  <2>1. \A i \in 1..Len(idle') : place'[idle'[i]] = "idle"
    <3> SUFFICES ASSUME NEW i \in 1..Len(idle') PROVE place'[idle'[i]] = "idle"
      OBVIOUS
    <3>1. idle'[i] \in Conns /\ place[idle'[i]] = "idle" /\ idle'[i] # c
      BY <1>2, <1>3, <2>0, SMTT(30)
    <3>2. idle'[i] \notin P
      <4>1. \A j \in 1..k : j \in 1..Len(idle) /\ j # (k + 1) + i
        BY <1>2, <2>0
      <4>2. \A j \in 1..k : idle[j] # idle[(k + 1) + i]
        BY <1>2, <2>0, <4>1
      <4> QED
        BY <1>4, <2>0, <3>1, <4>2
    <3> QED
      BY <1>5, <3>1, <3>2
  <2>2. \A i, j \in 1..Len(idle') : idle'[i] = idle'[j] => i = j
    <3> SUFFICES ASSUME NEW i \in 1..Len(idle'), NEW j \in 1..Len(idle'), idle'[i] = idle'[j]
                 PROVE  i = j
      OBVIOUS
    <3>1. (k + 1) + i = (k + 1) + j
      BY <1>2, <2>0
    <3> QED
      BY <1>2, <3>1
  <2>3. ASSUME NEW d \in Conns, place'[d] = "idle"
        PROVE  \E i \in 1..Len(idle') : idle'[i] = d
    <3>1. d \notin P /\ d # c /\ place[d] = "idle"
      BY <1>5, <2>3
    <3>2. PICK j \in 1..Len(idle) : idle[j] = d
      BY <1>0, <3>1 DEF PoolInv
    <3>3. j \notin 1..k /\ j # k + 1
      BY <1>3, <1>4, <3>1, <3>2
    <3>4. j - (k + 1) \in 1..(Len(idle) - (k + 1)) /\ (k + 1) + (j - (k + 1)) = j
      BY <1>2, <3>2, <3>3
    <3> QED
      BY <1>9, <3>2, <3>4
  <2>4. \A d \in Conns : place'[d] # "leased" => Clean(d)'
    BY <1>0, <1>5, <1>11 DEF PoolInv, Clean, UpstreamSame
  <2>5. Used' \subseteq Used /\ Connecting' \subseteq Connecting
    BY <1>5, <1>6, <1>8 DEF Used, Connecting, Moves
  <2>6. Cardinality(Used') + Cardinality(Connecting') <= Cardinality(Conns)
    BY <1>0, <2>5, Finite, LessFits DEF PoolInv
  <2> QED
    BY <2>1, <2>2, <2>3, <2>4, <2>6 DEF PoolInv
<1>13. /\ place[c] # "leased" /\ place'[c] = "leased"
       /\ \A d \in Conns : d # c => (place'[d] = "leased" <=> place[d] = "leased")
       /\ \A d \in Conns : place[d] = "leased" => UpstreamSame(d)
  BY <1>5, <1>6, <1>7, <1>11
<1>14. Clean(c)'
  BY <1>6, <1>11 DEF Clean, UpstreamSame
<1> QED
  BY <1>0, <1>8, <1>10, <1>12, <1>13, <1>14, LeaseStep

\* Every idle connection has expired; a connect is begun if there is room then.
LEMMA AcquireConnectInv ==
  ASSUME IndInv, NEW s \in Sessions, AcquireConnect(s)
  PROVE  IndInv'
<1> USE DEF dataVars, leaseVars
<1>0. TypeOK /\ PoolInv /\ LeaseInv /\ SessionOk(s) /\ pc[s] = "acquire"
  BY DEF IndInv, AcquireConnect
<1>a. UNCHANGED <<peer, cancelled, finished, down, monitor, dataVars, leaseVars, accepting>>
  BY DEF AcquireConnect
<1>1. \A d \in Conns : d \in Elements(idle) <=> place[d] = "idle"
  BY <1>0 DEF PoolInv, Elements
<1>2. /\ Discard(Elements(idle)) /\ idle' = <<>>
      /\ \A d \in Conns : place'[d] = IF place[d] = "idle" THEN "free" ELSE place[d]
  BY DEF AcquireConnect
<1>3. \A d \in Conns : (place[d] # "idle" => UpstreamSame(d)) /\ (place[d] = "idle" => Clean(d)')
  BY <1>1, <1>2 DEF Discard, UpstreamSame, Clean
<1>4. HeadOk(s) /\ FinishOk(s) /\ ClientOk(s) /\ s \notin responseStarted
  BY <1>0 DEF SessionOk, HeadOk
<1>5. \/ /\ HasRoom(Elements(idle)) /\ Moves(s, "connect")
         /\ UNCHANGED <<heads, responseStarted>>
      \/ /\ Moves(s, "sendError")
         /\ heads' = [heads EXCEPT ![s] = 1] /\ responseStarted' = responseStarted \cup {s}
  <2>1. CASE HasRoom(Elements(idle)) /\ Await(s, "connect") /\ UNCHANGED <<heads, responseStarted>>
    BY <1>0, <2>1, Moving DEF States, Awaits
  <2>2. CASE SendError(s)
    BY <1>0, <1>4, <2>2, SendErrorFacts
  <2> QED
    BY <2>1, <2>2 DEF AcquireConnect
<1>6. TypeOK'
  <2>1. place' \in [Conns -> {"free", "idle", "leased", "lent"}]
    BY <1>0 DEF TypeOK, AcquireConnect
  <2>2. /\ wire' \in [Conns -> Seq(Token)] /\ owes' \in [Conns -> Nat]
        /\ asked' \in [Conns -> (Sessions \X Nat) \cup {NoRequest}]
    BY <1>0, <1>2, DiscardTypes
  <2>3. heads' \in [Sessions -> Nat] /\ responseStarted' \subseteq Sessions
    <3>1. heads' = heads \/ heads' = [heads EXCEPT ![s] = 1]
      BY <1>5
    <3>2. responseStarted' = responseStarted \/ responseStarted' = responseStarted \cup {s}
      BY <1>5
    <3> QED
      BY <1>0, <3>1, <3>2, SMTT(30) DEF TypeOK
  <2>4. /\ pc' \in [Sessions -> States] /\ cancelling' \subseteq Sessions
        /\ op' \in [Sessions -> {"none", "submitted", "immediate"}]
    BY <1>5 DEF Moves
  <2>5. idle' \in Seq(Conns)
    BY <1>2
  <2> QED
    BY <1>0, <1>a, <2>1, <2>2, <2>3, <2>4, <2>5 DEF TypeOK, States
<1>7. /\ pc'[s] \in {"connect", "sendError"} /\ \A t \in Sessions : t # s => Untouched(t)
  BY <1>0, <1>a, <1>5, SMTT(30) DEF Untouched, Moves, TypeOK
<1>8. lease[s] = None
  BY <1>0 DEF LeaseInv, Serving, Failed, Uploading, Responding, Downloading
<1>9. LeaseInv'
  <2>1. \A t \in Sessions : t # s => pc'[t] = pc[t]
    BY <1>7 DEF Untouched
  <2>2. \A d \in Conns : place'[d] = "leased" <=> place[d] = "leased"
    BY <1>2
  <2>3. \A t \in Sessions : lease[t] # None => lease[t] \in Conns
    BY <1>0 DEF TypeOK
  <2>4. pc'[s] \notin Serving
    BY <1>7 DEF Serving, Uploading, Responding, Downloading
  <2> QED
    BY <1>0, <1>a, <1>7, <1>8, <2>1, <2>2, <2>3, <2>4 DEF LeaseInv
<1>10. PoolInv'
  <2>1. /\ \A i \in 1..Len(idle') : place'[idle'[i]] = "idle"
        /\ \A i, j \in 1..Len(idle') : idle'[i] = idle'[j] => i = j
        /\ \A d \in Conns : place'[d] = "idle" => \E i \in 1..Len(idle') : idle'[i] = d
    <3>1. Len(idle') = 0 /\ 1..0 = {}
      BY <1>2
    <3>2. \A d \in Conns : place'[d] # "idle"
      BY <1>2
    <3> QED
      BY <3>1, <3>2
  <2>2. \A d \in Conns : place'[d] # "leased" => Clean(d)'
    BY <1>0, <1>2, <1>3 DEF PoolInv, Clean, UpstreamSame
  <2>3. Cardinality(Used') + Cardinality(Connecting') <= Cardinality(Conns)
    <3>1. CASE HasRoom(Elements(idle)) /\ Moves(s, "connect")
      <4> DEFINE U == {c \in Conns \ Elements(idle) : place[c] # "free"}
      <4>1. Used' = U /\ U \subseteq Used /\ Connecting' = Connecting \cup {s}
        BY <1>1, <1>2, <3>1 DEF Used, Connecting, Moves
      <4>2. Cardinality(U) + Cardinality(Connecting) < Cardinality(Conns)
        BY <3>1 DEF HasRoom
      <4> HIDE DEF U
      <4>3. IsFiniteSet(U)
        BY <4>1, Finite, FS_Subset
      <4> QED
        BY <4>1, <4>2, <4>3, Finite, OneMoreFits
    <3>2. CASE Moves(s, "sendError")
      <4>1. Used' \subseteq Used /\ Connecting' \subseteq Connecting
        BY <1>2, <3>2 DEF Used, Connecting, Moves
      <4> QED
        BY <1>0, <4>1, Finite, LessFits DEF PoolInv
    <3> QED
      BY <1>5, <3>1, <3>2
  <2> QED
    BY <2>1, <2>2, <2>3 DEF PoolInv
<1>11. ASSUME NEW t \in Sessions, t # s PROVE SessionOk(t)'
  <2>1. Untouched(t) /\ SessionOk(t) /\ lease'[t] = lease[t]
    BY <1>a, <1>7, <1>11 DEF IndInv
  <2>2. pc[t] \in Serving => UpstreamSame(lease[t])
    <3>1. pc[t] \in Serving => lease[t] \in Conns /\ lease[t] # None
      BY ServingFacts
    <3>2. pc[t] \in Serving => place[lease[t]] = "leased"
      BY <1>0, <3>1 DEF LeaseInv
    <3> QED
      BY <1>3, <3>1, <3>2
  <2> QED
    BY <2>1, <2>2, SessionKept
<1>12. SessionOk(s)'
  <2>1. CASE Moves(s, "sendError") /\ heads' = [heads EXCEPT ![s] = 1]
             /\ responseStarted' = responseStarted \cup {s}
    <3>1. pc'[s] \in Failed /\ heads'[s] = (IF s \in responseStarted' THEN 1 ELSE 0)
      BY <1>0, <2>1 DEF Moves, Failed, TypeOK
    <3> QED
      BY <1>0, <1>a, <1>4, <3>1, FailedOk
  <2>2. CASE Moves(s, "connect") /\ UNCHANGED <<heads, responseStarted>>
    <3>0. pc'[s] = "connect"
      BY <2>2 DEF Moves
    <3>1. HeadOk(s)' /\ FinishOk(s)'
      BY <1>0, <1>a, <1>4, <2>2, <3>0 DEF HeadOk, FinishOk
    <3>2. ToCome(s) = left[s] /\ ToCome(s)' = left[s]
      BY <1>0, <1>a, <3>0 DEF ToCome
    <3>3. Framed(s, input[s] \o client[s], left[s], current[s])
      BY <1>0, <1>4, <3>2 DEF ClientOk, Failed
    <3>4. ClientOk(s)'
      BY <1>a, <3>0, <3>2, <3>3 DEF ClientOk
    <3>5. AnswerOk(s)'
      BY <3>0 DEF AnswerOk, Asking, Hearing, Relaying, Uploading, Responding, Downloading
    <3> QED
      BY <3>1, <3>4, <3>5 DEF SessionOk
  <2> QED
    BY <1>5, <2>1, <2>2
<1> QED
  BY <1>6, <1>9, <1>10, <1>11, <1>12 DEF IndInv

\* A step of the pool beside the sessions.
LEMMA OthersStep ==
  ASSUME IndInv, TypeOK', NEW c \in Conns, place[c] # "leased", place'[c] # "leased",
         \A d \in Conns : d # c => place'[d] = place[d],
         \A i \in 1..Len(idle') : place'[idle'[i]] = "idle",
         \A i, j \in 1..Len(idle') : idle'[i] = idle'[j] => i = j,
         \A d \in Conns : place'[d] = "idle" => \E i \in 1..Len(idle') : idle'[i] = d,
         Cardinality(Used') + Cardinality(Connecting) <= Cardinality(Conns),
         UNCHANGED <<pc, responseStarted, sessionVars, dataVars, leaseVars, upstreamVars>>
  PROVE  IndInv'
<1> USE DEF sessionVars, dataVars, leaseVars, upstreamVars
<1>0. TypeOK /\ LeaseInv /\ PoolInv
  BY DEF IndInv
<1>1. \A t \in Sessions : SessionOk(t)'
  <2>1. \A t \in Sessions : Untouched(t)
    BY DEF Untouched
  <2> QED
    BY <2>1, SessionsKept
<1>2. LeaseInv'
  <2>1. \A d \in Conns : place'[d] = "leased" <=> place[d] = "leased"
    OBVIOUS
  <2>2. \A t \in Sessions : lease[t] # None => lease[t] \in Conns
    BY <1>0 DEF TypeOK
  <2> QED
    BY <1>0, <2>1, <2>2 DEF LeaseInv
<1>3. PoolInv'
  <2>1. \A d \in Conns : place'[d] # "leased" => Clean(d)'
    BY <1>0 DEF PoolInv, Clean
  <2>2. Connecting' = Connecting
    BY DEF Connecting
  <2> QED
    BY <2>1, <2>2 DEF PoolInv
<1> QED
  BY <1>1, <1>2, <1>3 DEF IndInv

LEMMA OthersReturnInv ==
  ASSUME IndInv, NEW c \in Conns, OthersReturn(c)
  PROVE  IndInv'
<1> USE DEF OthersReturn
<1>0. TypeOK /\ PoolInv
  BY DEF IndInv
<1>1. /\ place[c] = "lent" /\ place'[c] \in {"free", "idle"}
      /\ \A d \in Conns : d # c => place'[d] = place[d]
  BY <1>0 DEF TypeOK
<1>2. Cardinality(Used') + Cardinality(Connecting) <= Cardinality(Conns)
  <2>1. Used' \subseteq Used
    BY <1>1 DEF Used
  <2> QED
    BY <1>0, <2>1, Finite, LessFits DEF PoolInv
<1>3. /\ idle' \in Seq(Conns)
      /\ \A i \in 1..Len(idle') : place'[idle'[i]] = "idle"
      /\ \A i, j \in 1..Len(idle') : idle'[i] = idle'[j] => i = j
      /\ \A d \in Conns : place'[d] = "idle" => \E i \in 1..Len(idle') : idle'[i] = d
  <2>1. CASE place' = [place EXCEPT ![c] = "free"] /\ UNCHANGED idle
    <3>1. place'[c] = "free" /\ idle' = idle /\ idle \in Seq(Conns)
      BY <1>0, <2>1 DEF TypeOK
    <3> QED
      BY <1>0, <1>1, <3>1, ListSame
  <2>2. CASE place' = [place EXCEPT ![c] = "idle"] /\ idle' = Append(idle, c)
    <3>1. place'[c] = "idle"
      BY <1>0, <2>2 DEF TypeOK
    <3> QED
      BY <1>0, <1>1, <2>2, <3>1, ListJoin
  <2> QED
    BY <2>1, <2>2
<1>4. TypeOK'
  <2>1. place' \in [Conns -> {"free", "idle", "leased", "lent"}]
    BY <1>0 DEF TypeOK
  <2> QED
    BY <1>0, <1>3, <2>1 DEF TypeOK, sessionVars, dataVars, leaseVars, upstreamVars
<1> QED
  BY <1>1, <1>2, <1>3, <1>4, OthersStep

\* A connection is taken from anywhere in the deque.
LEMMA ListLeave ==
  ASSUME TypeOK, PoolInv, NEW c \in Conns, place'[c] = "lent",
         \A d \in Conns : d # c => place'[d] = place[d],
         NEW n \in 1..Len(idle), idle[n] = c, idle' = Prefix(idle, n - 1) \o Rest(idle, n)
  PROVE  /\ idle' \in Seq(Conns)
         /\ \A i \in 1..Len(idle') : place'[idle'[i]] = "idle"
         /\ \A i, j \in 1..Len(idle') : idle'[i] = idle'[j] => i = j
         /\ \A d \in Conns : place'[d] = "idle" => \E i \in 1..Len(idle') : idle'[i] = d
<1>1. /\ idle \in Seq(Conns) /\ Len(idle) \in Nat /\ \A i \in 1..Len(idle) : idle[i] \in Conns
  BY DEF TypeOK
<1>2. n \in Nat /\ n >= 1 /\ n <= Len(idle) /\ n - 1 \in 0..Len(idle) /\ n \in 0..Len(idle)
  BY <1>1
<1> DEFINE a == Prefix(idle, n - 1)
           b == Rest(idle, n)
<1>c. \A m \in 0..Len(idle) :
        /\ Prefix(idle, m) \in Seq(Conns) /\ Len(Prefix(idle, m)) = m
        /\ \A i \in 1..m : Prefix(idle, m)[i] = idle[i]
        /\ Rest(idle, m) \in Seq(Conns) /\ Len(Rest(idle, m)) = Len(idle) - m
        /\ \A i \in 1..(Len(idle) - m) : Rest(idle, m)[i] = idle[m + i]
  BY <1>1, PrefixRest
<1>3. a \in Seq(Conns) /\ Len(a) = n - 1 /\ \A i \in 1..(n - 1) : a[i] = idle[i]
  BY <1>2, <1>c, Zenon
<1>4. b \in Seq(Conns) /\ Len(b) = Len(idle) - n /\ \A i \in 1..(Len(idle) - n) : b[i] = idle[n + i]
  BY <1>2, <1>c, Zenon
<1>5. idle' = a \o b
  OBVIOUS
<1> HIDE DEF a, b
<1>6. /\ idle' \in Seq(Conns) /\ Len(idle') = Len(a) + Len(b)
      /\ \A i \in 1..Len(a) : idle'[i] = a[i]
      /\ \A i \in 1..Len(b) : idle'[Len(a) + i] = b[i]
  <2>1. \A x \in Seq(Conns), y \in Seq(Conns) :
          /\ x \o y \in Seq(Conns) /\ Len(x \o y) = Len(x) + Len(y)
          /\ \A i \in 1..Len(x) : (x \o y)[i] = x[i]
          /\ \A i \in 1..Len(y) : (x \o y)[Len(x) + i] = y[i]
    BY ConcatIs
  <2>2. /\ a \o b \in Seq(Conns) /\ Len(a \o b) = Len(a) + Len(b)
        /\ \A i \in 1..Len(a) : (a \o b)[i] = a[i]
        /\ \A i \in 1..Len(b) : (a \o b)[Len(a) + i] = b[i]
    <3>1. a \in Seq(Conns) /\ b \in Seq(Conns)
      BY <1>3, <1>4
    <3> QED
      BY <2>1, <3>1, Zenon
  <2> QED
    BY <1>5, <2>2, Zenon
<1>7. Len(idle') = Len(idle) - 1
  <2>1. \A l, m \in Nat : (m - 1) + (l - m) = l - 1
    OBVIOUS
  <2> QED
    BY <1>1, <1>2, <1>3, <1>4, <1>6, <2>1, Zenon
\* Where the ith of those left was.
<1> DEFINE was(i) == IF i < n THEN i ELSE i + 1
<1>8. ASSUME NEW i \in 1..Len(idle')
      PROVE  was(i) \in 1..Len(idle) /\ was(i) # n /\ idle'[i] = idle[was(i)]
  <2>1. CASE i < n
    <3>1. i \in 1..(n - 1) /\ i \in 1..Len(a) /\ was(i) = i
      BY <1>1, <1>2, <1>3, <2>1
    <3> QED
      BY <1>1, <1>2, <1>3, <1>6, <2>1, <3>1, SMTT(30)
  <2>2. CASE ~(i < n)
    <3> DEFINE j == i - (n - 1)
    <3>1. /\ j \in 1..(Len(idle) - n) /\ j \in 1..Len(b) /\ i = Len(a) + j /\ was(i) = n + j
          /\ i + 1 \in 1..Len(idle) /\ i + 1 # n
      BY <1>1, <1>2, <1>3, <1>4, <1>7, <2>2
    <3> HIDE DEF j
    <3>2. idle'[i] = b[j] /\ b[j] = idle[n + j]
      BY <1>4, <1>6, <3>1
    <3> QED
      BY <2>2, <3>1, <3>2
  <2> QED
    BY <2>1, <2>2
<1>9. \A i, j \in 1..Len(idle') : was(i) = was(j) => i = j
  BY <1>1, <1>2, <1>7
<1>10. /\ \A i \in 1..Len(idle) : place[idle[i]] = "idle"
       /\ \A i, j \in 1..Len(idle) : idle[i] = idle[j] => i = j
  BY DEF PoolInv
<1>11. ASSUME NEW d \in Conns, place'[d] = "idle"
       PROVE  \E i \in 1..Len(idle') : idle'[i] = d
  <2>1. d # c /\ place[d] = "idle"
    BY <1>11
  <2>2. PICK m \in 1..Len(idle) : idle[m] = d
    BY <2>1 DEF PoolInv
  <2>3. m # n
    BY <2>1, <2>2
  <2> DEFINE i == IF m < n THEN m ELSE m - 1
  <2>4. i \in 1..Len(idle') /\ was(i) = m
    BY <1>1, <1>2, <1>7, <2>3
  <2> HIDE DEF i, was
  <2> QED
    BY <1>8, <2>2, <2>4
<1> HIDE DEF was
<1>12. \A i \in 1..Len(idle') : place'[idle'[i]] = "idle"
  <2> SUFFICES ASSUME NEW i \in 1..Len(idle') PROVE place'[idle'[i]] = "idle"
    OBVIOUS
  <2>1. idle'[i] # c /\ idle'[i] \in Conns
    BY <1>1, <1>8, <1>10
  <2> QED
    BY <1>8, <1>10, <2>1, SMTT(30)
<1>13. \A i, j \in 1..Len(idle') : idle'[i] = idle'[j] => i = j
  BY <1>8, <1>9, <1>10, SMTT(30)
<1> QED
  BY <1>6, <1>11, <1>12, <1>13

LEMMA OthersTakeInv ==
  ASSUME IndInv, NEW c \in Conns, OthersTake(c)
  PROVE  IndInv'
<1>0. TypeOK /\ PoolInv
  BY DEF IndInv
<1>a. /\ place[c] \in {"free", "idle"} /\ HasRoom({c}) /\ place' = [place EXCEPT ![c] = "lent"]
      /\ UNCHANGED <<pc, op, cancelling, responseStarted, peer, sessionVars, dataVars, leaseVars,
                     accepting, upstreamVars>>
  BY DEF OthersTake
<1>1. place'[c] = "lent" /\ \A d \in Conns : d # c => place'[d] = place[d]
  BY <1>0, <1>a DEF TypeOK
<1>2. Cardinality(Used') + Cardinality(Connecting) <= Cardinality(Conns)
  <2> DEFINE U == {d \in Conns \ {c} : place[d] # "free"}
  <2>1. Used' = U \cup {c} /\ U \subseteq Used
    BY <1>1 DEF Used
  <2>2. Cardinality(U) + Cardinality(Connecting) < Cardinality(Conns)
    BY <1>a DEF HasRoom
  <2> HIDE DEF U
  <2>3. IsFiniteSet(U)
    BY <2>1, Finite, FS_Subset
  <2> QED
    BY <2>1, <2>2, <2>3, Finite, OneMoreFits
<1>3. /\ idle' \in Seq(Conns)
      /\ \A i \in 1..Len(idle') : place'[idle'[i]] = "idle"
      /\ \A i, j \in 1..Len(idle') : idle'[i] = idle'[j] => i = j
      /\ \A d \in Conns : place'[d] = "idle" => \E i \in 1..Len(idle') : idle'[i] = d
  <2>1. CASE place[c] = "free" /\ UNCHANGED idle
    <3>1. idle' = idle /\ idle \in Seq(Conns)
      BY <1>0, <2>1 DEF TypeOK
    <3> QED
      BY <1>0, <1>1, <2>1, <3>1, ListSame
  <2>2. CASE \E i \in 1..Len(idle) :
               idle[i] = c /\ idle' = Prefix(idle, i - 1) \o Rest(idle, i)
    <3>1. PICK n \in 1..Len(idle) : idle[n] = c /\ idle' = Prefix(idle, n - 1) \o Rest(idle, n)
      BY <2>2
    <3> QED
      BY <1>0, <1>1, <3>1, ListLeave
  <2> QED
    BY <2>1, <2>2 DEF OthersTake
<1>4. TypeOK'
  <2>1. place' \in [Conns -> {"free", "idle", "leased", "lent"}]
    BY <1>0, <1>a DEF TypeOK
  <2> QED
    BY <1>0, <1>a, <1>3, <2>1 DEF TypeOK, sessionVars, dataVars, leaseVars, upstreamVars
<1>5. place[c] # "leased" /\ place'[c] # "leased"
  BY <1>a, <1>1
<1> QED
  BY <1>a, <1>1, <1>2, <1>3, <1>4, <1>5, OthersStep

----------------------------------------------------------------------------
(* The theorems *)

LEMMA InitInv == Init => IndInv
<1> SUFFICES ASSUME Init PROVE IndInv
  OBVIOUS
<1>1. TypeOK
  <2>1. <<>> \in Seq(Token) /\ <<>> \in Seq(Conns)
    OBVIOUS
  <2> QED
    BY <2>1, ScriptAssumption, ConnAssumption DEF Init, TypeOK, ScriptAssumption, ConnAssumption
<1>2. LeaseInv
  BY DEF Init, LeaseInv, Serving, Failed, Uploading, Responding, Downloading
<1>3. PoolInv
  <2>1. Used = {} /\ Connecting = {}
    BY DEF Init, Used, Connecting
  <2>2. Cardinality(Used) + Cardinality(Connecting) <= Cardinality(Conns)
    BY <2>1, Finite, FS_EmptySet
  <2>3. Len(idle) = 0 /\ 1..0 = {}
    BY DEF Init
  <2> QED
    BY <2>2, <2>3 DEF Init, PoolInv, Clean
<1>4. ASSUME NEW s \in Sessions PROVE SessionOk(s)
  <2>0. /\ pc[s] = "new" /\ heads[s] = 0 /\ left[s] = 0 /\ finished[s] = 0 /\ responseStarted = {}
        /\ input[s] = <<>> /\ client[s] = Script[s] /\ current[s] = 0
    BY DEF Init
  <2>1. HeadOk(s) /\ FinishOk(s)
    BY <2>0 DEF HeadOk, FinishOk, Uploading, Responding
  <2>2. ClientOk(s)
    <3>1. input[s] \o client[s] = Script[s]
      BY <2>0, ScriptAssumption DEF ScriptAssumption
    <3>2. Framed(s, input[s] \o client[s], 0, current[s]) /\ ToCome(s) = 0
      BY <2>0, <3>1, FramingAssumption DEF FramingAssumption, ToCome
    <3> QED
      BY <2>0, <3>2 DEF ClientOk
  <2>3. AnswerOk(s)
    BY <2>0 DEF AnswerOk, Asking, Hearing, Relaying, Uploading, Responding, Downloading
  <2> QED
    BY <2>1, <2>2, <2>3 DEF SessionOk
<1> QED
  BY <1>1, <1>2, <1>3, <1>4 DEF IndInv

LEMMA AdvanceInv ==
  ASSUME IndInv, NEW s \in Sessions, Advance(s)
  PROVE  IndInv'
  BY TopInv, ParseInv, ReadRequestInv, AcquireRefusedInv, AcquireIdleInv, AcquireConnectInv,
     ConnectedInv, UploadInv, UploadReadInv, ResponseInv, ReadResponseInv, DownloadInv,
     DownloadReadInv, CompletedInv, PartialWriteInv, WrittenInv, FailInv, LeaveInv DEF Advance

LEMMA StepInv == IndInv /\ [Next]_vars => IndInv'
<1> SUFFICES ASSUME IndInv, [Next]_vars PROVE IndInv'
  OBVIOUS
<1>1. CASE \E s \in Sessions : Start(s) \/ Proceed(s) \/ PeerClosed(s) \/ CloseDownstream(s)
                               \/ ClientCloses(s)
  BY <1>1, StartInv, AdvanceInv, PeerClosedInv, CloseDownstreamInv, ClientClosesInv DEF Proceed
<1>2. CASE \E c \in Conns : Answer(c) \/ OthersTake(c) \/ OthersReturn(c)
  BY <1>2, AnswerInv, OthersTakeInv, OthersReturnInv
<1>3. CASE StopAcquiring \/ CancelSessions
  BY <1>3, StopAcquiringInv, CancelSessionsInv
<1>4. CASE Ended \/ UNCHANGED vars
  BY <1>4, StutterInv DEF Ended
<1> QED
  BY <1>1, <1>2, <1>3, <1>4 DEF Next

\* The inductive invariant holds in every state, whatever the sessions, their
\* requests, the size of the pool and the lengths of the responses.
THEOREM SessionInvariance == Spec => []IndInv
<1>1. Init => IndInv
  BY InitInv
<1>2. IndInv /\ [Next]_vars => IndInv'
  BY StepInv
<1> QED
  BY <1>1, <1>2, PTL DEF Spec

\* finish runs once, at the end of the session, and leaves no lease and no open
\* downstream connection; a leased connection has a session that gives it back.
THEOREM SessionIsClean == Spec => []SessionClean
<1>1. IndInv => SessionClean
  <2> SUFFICES ASSUME IndInv PROVE SessionClean
    OBVIOUS
  <2>0. TypeOK /\ LeaseInv
    BY DEF IndInv
  <2>1. ASSUME NEW s \in Sessions
        PROVE  /\ finished[s] = (IF pc[s] = "finished" THEN 1 ELSE 0)
               /\ pc[s] = "finished" => lease[s] = None /\ down[s] # "connected"
    <3>1. FinishOk(s)
      BY DEF IndInv, SessionOk
    <3>2. pc[s] = "finished" => lease[s] = None
      BY <2>0 DEF LeaseInv, Serving, Failed, Uploading, Responding, Downloading
    <3> QED
      BY <3>1, <3>2 DEF FinishOk
  <2>2. \A c \in Conns : place[c] = "leased" <=> \E s \in Sessions : lease[s] = c
    BY <2>0, ConnAssumption DEF LeaseInv, ConnAssumption
  <2> QED
    BY <2>0, <2>1, <2>2 DEF SessionClean, FinishedClean
<1> QED
  BY <1>1, SessionInvariance, PTL

\* What the proxy writes belongs to the request it serves: to its body on the way
\* up, to the one answer an upstream gave to it on the way down.
THEOREM StreamsAreMatched == Spec => []StreamsMatch
<1>1. IndInv => StreamsMatch
  <2> SUFFICES ASSUME IndInv, NEW s \in Sessions,
                      pc[s] \in {"uploadWrite", "writeResponse", "downloadWrite"},
                      NEW i \in 1..Len(chunk[s])
               PROVE  /\ chunk[s][i].req = Request(s)
                      /\ chunk[s][i].part = (IF pc[s] = "writeResponse" THEN "head" ELSE "body")
    BY DEF StreamsMatch
  <2>1. ClientOk(s) /\ Relaying(s, lease[s], Request(s))
    BY DEF IndInv, SessionOk, AnswerOk
  <2> QED
    BY <2>1 DEF ClientOk, Relaying, Bodies
<1> QED
  BY <1>1, SessionInvariance, PTL

\* A connection in the pool is between two messages and nobody refers to it.
THEOREM IdleIsAtBoundary == Spec => []IdleAtBoundary
<1>1. IndInv => IdleAtBoundary
  <2> SUFFICES ASSUME IndInv PROVE IdleAtBoundary
    OBVIOUS
  <2>0. TypeOK /\ LeaseInv /\ PoolInv
    BY DEF IndInv
  <2>1. \A i \in 1..Len(idle) : idle[i] \in Conns
    BY <2>0 DEF TypeOK
  <2>2. ASSUME NEW i \in 1..Len(idle)
        PROVE  /\ wire[idle[i]] = <<>> /\ asked[idle[i]] = NoRequest
               /\ \A s \in Sessions : idle[i] \notin {lease[s], currentUpstream[s]}
    <3>1. place[idle[i]] = "idle" /\ Clean(idle[i])
      BY <2>0, <2>1 DEF PoolInv
    <3>2. \A s \in Sessions : idle[i] # lease[s] /\ currentUpstream[s] = lease[s]
      BY <2>0, <2>1, <3>1, ConnAssumption DEF LeaseInv, ConnAssumption
    <3> QED
      BY <3>1, <3>2 DEF Clean
  <2>3. \A c \in Conns : place[c] = "idle" <=> c \in Elements(idle)
    BY <2>0 DEF PoolInv, Elements
  <2> QED
    BY <2>2, <2>3 DEF IdleAtBoundary
<1> QED
  BY <1>1, SessionInvariance, PTL

\* A request gets one response, and the next one is read only when all of the
\* announced body is out.
THEOREM ResponsesAreWhole == Spec => []WholeResponses
<1>1. IndInv => WholeResponses
  <2> SUFFICES ASSUME IndInv, NEW s \in Sessions
               PROVE  heads[s] <= 1 /\ (pc[s] = "top" => left[s] = 0)
    BY DEF WholeResponses
  <2>1. HeadOk(s)
    BY DEF IndInv, SessionOk
  <2> QED
    BY <2>1 DEF HeadOk
<1> QED
  BY <1>1, SessionInvariance, PTL

=============================================================================
