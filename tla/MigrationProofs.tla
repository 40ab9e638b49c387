-------------------------- MODULE MigrationProofs ---------------------------
(***************************************************************************)
(* What module Migration keeps, for any pools, lists of the tasks and      *)
(* order of execution.  A file of calls is one step of the model, and its  *)
(* length is arbitrary: AfterInvariant takes a fact about single calls to  *)
(* whole files, by induction over the trace of the file.  Sound is kept by *)
(* every call; Switched only by whole files, as the fourth one sets both   *)
(* operators.  The files lie on disk while the contracts change: what they *)
(* say of the pids stays true because pools only are added at the end and  *)
(* keep their gauges (Grown).  NoGaugeForgotten is FilesLeaveNoGauge with  *)
(* the files still to be executed taken into account.                      *)
(***************************************************************************)
EXTENDS Migration, SharedProofs

GaugeSet == Range(Gauges) \cup Foreign

\* Pools of one booster that are both open are of different gauges.
OnePoolEach(pools) ==
  \A i, j \in OpenPids(pools) : pools[i].gauge = pools[j].gauge => i = j

\* What every call of a file preserves.
Sound(s) ==
  /\ s \in Contracts
  /\ \A b \in {1, 2} : OnePoolEach(s.pools[b])
  /\ s.operator = 1 => OpenPids(s.pools[2]) = {}
  /\ s.boosterShut => s.proxyShut /\ OpenPids(s.pools[1]) = {}
  /\ s.operator = 2 => s.boosterShut

\* What only whole files preserve.
Switched == chain.liqOperator = chain.operator /\ (chain.boosterShut => chain.operator = 2)

PidsOf(b) == DOMAIN chain.pools[b]

FilesOK ==
  /\ shutFiles = <<>> \/ \A n \in 1..3 : shutFiles[n] \in Seq(PidsOf(1))
  /\ addFiles \in Seq(Seq(GaugeSet))
  /\ basis \subseteq PidsOf(1)

\* A gauge that had to be added is dead, or was added, or is in a file yet to be executed.
NoGaugeForgotten ==
  \A pid \in basis :
    LET g == chain.pools[1][pid].gauge
    IN  \/ g \in killed \cup GaugesV2
        \/ \E n \in DOMAIN addFiles : <<"add", n>> \notin executed /\ g \in Range(addFiles[n])

MovesOK ==
  \A n \in DOMAIN moveFiles :
    /\ moveFiles[n].pids \in Seq(PidsOf(2))
    /\ moveFiles[n].gauges = GaugesOf(moveFiles[n].pids)

Inv == Sound(chain) /\ Switched /\ FilesOK /\ NoGaugeForgotten /\ MovesOK

\* Chunks are lists of what they are cut from,
LEMMA ChunkType ==
  ASSUME NEW T, NEW seq \in Seq(T), NEW size \in Nat
  PROVE  Chunk(seq, size) \in Seq(Seq(T))
<1> DEFINE count == IF size = 0 THEN 0 ELSE (Len(seq) + size - 1) \div size
           first(i) == (i - 1) * size + 1
           last(i) == IF i * size < Len(seq) THEN i * size ELSE Len(seq)
<1>0. Len(seq) \in Nat
  BY LenProperties
<1>1. count \in Nat
  <2>1. CASE size = 0
    BY <2>1
  <2>2. CASE size > 0
    <3>1. Len(seq) + size - 1 \in Nat
      BY <1>0, <2>2
    <3> QED BY <2>2, <3>1, DivRoundsDown
  <2> QED BY <2>1, <2>2
<1>2. ASSUME NEW i \in 1..count PROVE SubSeq(seq, first(i), last(i)) \in Seq(T)
  <2>0. i \in Nat /\ i - 1 \in Nat
    BY <1>1
  <2>1. first(i) \in Nat /\ first(i) >= 1
    <3>1. (i - 1) * size \in Nat
      BY <2>0, MulNat
    <3> QED BY <3>1
  <2>2. last(i) \in Int /\ last(i) <= Len(seq)
    <3>1. i * size \in Nat
      BY <2>0, MulNat
    <3> QED BY <3>1, <1>0
  <2> HIDE DEF first, last
  <2>3. \A j \in first(i)..last(i) : seq[j] \in T
    BY <2>1, <2>2, <1>0, ElementOfSeq
  <2> QED BY <2>1, <2>2, <2>3, SubSeqProperties
<1> HIDE DEF count
<1>3. [i \in 1..count |-> SubSeq(seq, first(i), last(i))] \in [1..count -> Seq(T)]
  BY <1>2
<1>4. Chunk(seq, size) = [i \in 1..count |-> SubSeq(seq, first(i), last(i))]
  BY DEF Chunk, count
<1> HIDE DEF first, last
<1> QED BY <1>1, <1>3, <1>4, SeqDef

\* and those of three leave nothing out.
LEMMA ChunkCovers ==
  ASSUME NEW T, NEW seq \in Seq(T), NEW x \in Range(seq)
  PROVE  \E i \in DOMAIN Chunk(seq, 3) : x \in Range(Chunk(seq, 3)[i])
<1>0. Len(seq) \in Nat /\ DOMAIN seq = 1..Len(seq)
  BY LenProperties
<1>1. PICK j \in 1..Len(seq) : x = seq[j]
  BY <1>0 DEF Range
<1> DEFINE i == (j + 2) \div 3
           last == IF i * 3 < Len(seq) THEN i * 3 ELSE Len(seq)
           k == j - (i - 1) * 3
           part == SubSeq(seq, (i - 1) * 3 + 1, last)
<1>2. /\ i \in Nat /\ i >= 1 /\ (i - 1) * 3 + 1 <= j /\ j <= i * 3 /\ i <= (Len(seq) + 3 - 1) \div 3
  BY <1>0, <1>1
<1>3. DOMAIN Chunk(seq, 3) = 1..((Len(seq) + 3 - 1) \div 3)
  BY DEF Chunk
<1>4. i \in DOMAIN Chunk(seq, 3)
  BY <1>0, <1>2, <1>3
<1>5. Chunk(seq, 3)[i] = part
  BY <1>4, <1>3 DEF Chunk
<1> HIDE DEF i
<1>6. k \in 1..(last - ((i - 1) * 3 + 1) + 1) /\ (i - 1) * 3 + 1 <= last
  BY <1>2, <1>1, <1>0
<1>7. part \in Seq(T) /\ Len(part) = last - ((i - 1) * 3 + 1) + 1 /\ part[k] = seq[(i - 1) * 3 + 1 + k - 1]
  <2>1. (i - 1) * 3 + 1 \in Int /\ last \in Int
    BY <1>0, <1>2
  <2>2. \A m \in ((i - 1) * 3 + 1)..last : seq[m] \in T
    <3>1. ASSUME NEW m \in ((i - 1) * 3 + 1)..last PROVE m \in 1..Len(seq)
      BY <1>0, <1>2
    <3> QED BY <3>1, ElementOfSeq
  <2> HIDE DEF last, k
  <2> QED BY <2>1, <2>2, <1>6, SubSeqProperties
<1>8. (i - 1) * 3 + 1 + k - 1 = j
  BY <1>2, <1>0
<1>9. k \in DOMAIN part /\ part[k] = x
  <2> HIDE DEF part, k, last
  <2> QED BY <1>6, <1>7, <1>8, <1>1, LenProperties
<1> HIDE DEF part
<1>10. x \in Range(part)
  BY <1>9 DEF Range
<1> QED BY <1>4, <1>5, <1>10

\* The states between the calls of a file, as the function by which After is defined.
IsTrace(a, s, calls, n) ==
  a = [k \in 0..n |->
         IF k = 0 THEN s
         ELSE IF a[k - 1] = Reverted \/ ~Allowed(a[k - 1], calls[k]) THEN Reverted
         ELSE Effect(a[k - 1], calls[k])]

\* A file has a trace,
LEMMA TraceExists ==
  ASSUME NEW s, NEW calls, NEW n \in Nat
  PROVE  \E a : IsTrace(a, s, calls, n)
<1> DEFINE S == {k \in 0..n : \E a : IsTrace(a, s, calls, k)}
           next(x, call) == IF x = Reverted \/ ~Allowed(x, call) THEN Reverted ELSE Effect(x, call)
<1>1. 0 \in S
  <2> DEFINE a == [k \in 0..0 |-> s]
  <2>1. IsTrace(a, s, calls, 0)
    <3>1. ASSUME NEW k \in 0..0 PROVE k = 0
      OBVIOUS
    <3> QED BY <3>1 DEF IsTrace
  <2> QED BY <2>1
<1>2. ASSUME NEW k \in 0..n, k \in S, k < n PROVE k + 1 \in S
  <2>1. PICK a : IsTrace(a, s, calls, k)
    BY <1>2
  <2> DEFINE r == [i \in 0..(k + 1) |-> IF i <= k THEN a[i] ELSE next(a[k], calls[k + 1])]
  <2>2. \A i \in 0..k : a[i] = IF i = 0 THEN s ELSE next(a[i - 1], calls[i])
    <3> HIDE DEF next
    <3>1. a = [i \in 0..k |-> IF i = 0 THEN s ELSE next(a[i - 1], calls[i])]
      BY <2>1 DEF IsTrace, next
    <3> QED BY <3>1
  <2> HIDE DEF next
  <2>3. ASSUME NEW i \in 0..(k + 1) PROVE r[i] = IF i = 0 THEN s ELSE next(r[i - 1], calls[i])
    <3>1. CASE i = 0
      <4>1. r[0] = a[0] /\ a[0] = s
        BY <2>2
      <4> QED BY <3>1, <4>1
    <3>2. CASE i # 0 /\ i <= k
      <4>1. i \in 0..k /\ i - 1 \in 0..(k + 1) /\ i - 1 <= k
        BY <3>2
      <4>2. r[i] = a[i] /\ r[i - 1] = a[i - 1]
        BY <4>1, <3>2
      <4> QED BY <4>1, <4>2, <2>2, <3>2
    <3>3. CASE i = k + 1
      <4>1. i - 1 = k /\ ~(i <= k) /\ k \in 0..(k + 1) /\ i # 0
        BY <3>3, <1>2
      <4>2. r[i] = next(a[k], calls[k + 1]) /\ r[k] = a[k]
        BY <4>1
      <4> QED BY <4>1, <4>2, <3>3
    <3> QED BY <3>1, <3>2, <3>3
  <2>4. r = [i \in 0..(k + 1) |-> IF i = 0 THEN s ELSE next(r[i - 1], calls[i])]
    BY <2>3
  <2>5. IsTrace(r, s, calls, k + 1)
    <3> HIDE DEF r
    <3> QED BY <2>4 DEF IsTrace, next
  <2>6. k + 1 \in 0..n
    BY <1>2
  <2> QED BY <2>5, <2>6
<1>3. 0..n \subseteq S
  <2> HIDE DEF S
  <2> QED BY <1>1, <1>2, BoundedInduction
<1>4. n \in S
  BY <1>3
<1> QED BY <1>4

\* so that whatever holds first, and what each accepted call takes from one set of states
\* to the next, holds of a file that does not revert.
LEMMA AfterInvariant ==
  ASSUME NEW s, NEW calls, Len(calls) \in Nat, NEW I, s \in I[0],
         \A k \in 1..Len(calls) : \A t \in I[k - 1] : Allowed(t, calls[k]) => Effect(t, calls[k]) \in I[k],
         After(s, calls) # Reverted
  PROVE  After(s, calls) \in I[Len(calls)]
<1> DEFINE n == Len(calls)
           a == CHOOSE a : IsTrace(a, s, calls, n)
           S == {k \in 0..n : a[k] = Reverted \/ a[k] \in I[k]}
<1>1. IsTrace(a, s, calls, n)
  BY TraceExists
<1>2. After(s, calls) = a[n]
  BY DEF After, IsTrace
<1> HIDE DEF a
<1>3. \A k \in 0..n : a[k] = IF k = 0 THEN s
                             ELSE IF a[k - 1] = Reverted \/ ~Allowed(a[k - 1], calls[k]) THEN Reverted
                             ELSE Effect(a[k - 1], calls[k])
  BY <1>1 DEF IsTrace
<1>4. 0 \in S
  BY <1>3
<1>5. ASSUME NEW k \in 0..n, k \in S, k < n PROVE k + 1 \in S
  <2>1. k + 1 \in 1..n /\ k + 1 \in 0..n /\ (k + 1) - 1 = k /\ k + 1 # 0
    BY <1>5
  <2>2. a[k + 1] = IF a[k] = Reverted \/ ~Allowed(a[k], calls[k + 1]) THEN Reverted
                   ELSE Effect(a[k], calls[k + 1])
    BY <2>1, <1>3
  <2>3. a[k] # Reverted => a[k] \in I[k]
    BY <1>5
  <2>4. a[k + 1] = Reverted \/ a[k + 1] \in I[k + 1]
    BY <2>1, <2>2, <2>3
  <2> QED BY <2>1, <2>4
<1>6. n \in S
  <2> HIDE DEF S
  <2>1. 0..n \subseteq S
    BY <1>4, <1>5, BoundedInduction
  <2> QED BY <2>1
<1> QED BY <1>2, <1>6

PoolSet == [gauge : GaugeSet, shutdown : BOOLEAN]

\* Neither the operators nor the switches change.
SameStatus(s, t) ==
  /\ t.proxyShut = s.proxyShut /\ t.boosterShut = s.boosterShut
  /\ t.operator = s.operator /\ t.liqOperator = s.liqOperator

\* Pools are added at the end and keep their gauges.
Kept(p, q) == DOMAIN p \subseteq DOMAIN q /\ \A i \in DOMAIN p : q[i].gauge = p[i].gauge
Grown(s, t) == \A b \in {1, 2} : Kept(s.pools[b], t.pools[b])

\* One pool is closed; one is opened at the end, for a gauge without an open one.
Closes(p, q, pid) ==
  /\ pid \in OpenPids(p) /\ DOMAIN q = DOMAIN p
  /\ \A i : i \in OpenPids(q) <=> i \in OpenPids(p) /\ i # pid
Opens(p, q, g) ==
  /\ g \notin OpenGauges(p)
  /\ \E n \in Nat \ DOMAIN p :
       /\ \A i : i \in DOMAIN q <=> i \in DOMAIN p \/ i = n
       /\ \A i : i \in OpenPids(q) <=> i \in OpenPids(p) \/ i = n
       /\ q[n].gauge = g

\* The pools of a booster, and what a state of the contracts consists of.
LEMMA ContractsType ==
  ASSUME NEW s \in Contracts
  PROVE  /\ s.pools \in [{1, 2} -> Seq(PoolSet)]
         /\ \A b \in {1, 2} : s.pools[b] \in Seq(PoolSet) /\ Len(s.pools[b]) \in Nat
                              /\ DOMAIN s.pools[b] = 1..Len(s.pools[b])
                              /\ \A i \in DOMAIN s.pools[b] : s.pools[b][i] \in PoolSet
         /\ s.proxyShut \in BOOLEAN /\ s.boosterShut \in BOOLEAN
         /\ s.operator \in {1, 2} /\ s.liqOperator \in {1, 2}
<1>1. /\ s.pools \in [{1, 2} -> Seq(PoolSet)]
      /\ s.proxyShut \in BOOLEAN /\ s.boosterShut \in BOOLEAN
      /\ s.operator \in {1, 2} /\ s.liqOperator \in {1, 2}
  BY DEF Contracts, PoolSet, GaugeSet
<1>2. ASSUME NEW b \in {1, 2}
      PROVE  /\ s.pools[b] \in Seq(PoolSet) /\ Len(s.pools[b]) \in Nat
             /\ DOMAIN s.pools[b] = 1..Len(s.pools[b])
             /\ \A i \in DOMAIN s.pools[b] : s.pools[b][i] \in PoolSet
  <2>1. s.pools[b] \in Seq(PoolSet)
    BY <1>1
  <2>2. Len(s.pools[b]) \in Nat /\ DOMAIN s.pools[b] = 1..Len(s.pools[b])
    BY <2>1, LenProperties
  <2>3. \A i \in 1..Len(s.pools[b]) : s.pools[b][i] \in PoolSet
    BY <2>1, ElementOfSeq
  <2> QED BY <2>1, <2>2, <2>3
<1> QED BY <1>1, <1>2

\* shutdownPool closes the pool and touches nothing else.
LEMMA ShutdownPoolEffect ==
  ASSUME NEW s \in Contracts, NEW b \in {1, 2}, NEW pid, Allowed(s, ShutdownPool(b, pid)),
         NEW t, t = Effect(s, ShutdownPool(b, pid))
  PROVE  /\ t \in Contracts /\ SameStatus(s, t) /\ Grown(s, t)
         /\ Closes(s.pools[b], t.pools[b], pid)
         /\ \A c \in {1, 2} \ {b} : t.pools[c] = s.pools[c]
<1>1. pid \in DOMAIN s.pools[b] /\ ~s.pools[b][pid].shutdown
  BY DEF Allowed, ShutdownPool
<1>2. t = [s EXCEPT !.pools[b][pid].shutdown = TRUE]
  BY DEF Effect, ShutdownPool
<1>3. /\ s.pools \in [{1, 2} -> Seq(PoolSet)] /\ s.pools[b] \in Seq(PoolSet) /\ Len(s.pools[b]) \in Nat
      /\ DOMAIN s.pools[b] = 1..Len(s.pools[b])
      /\ \A i \in DOMAIN s.pools[b] : s.pools[b][i] \in PoolSet
  BY ContractsType
<1> DEFINE p == s.pools[b]
           q == [p EXCEPT ![pid].shutdown = TRUE]
<1>4. q \in Seq(PoolSet) /\ DOMAIN q = DOMAIN p
      /\ \A i \in DOMAIN p : q[i].gauge = p[i].gauge /\ (q[i].shutdown <=> (i = pid \/ p[i].shutdown))
  <2>1. p[pid] \in PoolSet /\ [p[pid] EXCEPT !.shutdown = TRUE] \in PoolSet
    BY <1>1, <1>3 DEF PoolSet
  <2>2. q = [p EXCEPT ![pid] = [p[pid] EXCEPT !.shutdown = TRUE]]
    OBVIOUS
  <2>3. q \in Seq(PoolSet) /\ Len(q) = Len(p) /\ \A j \in 1..Len(p) : q[j] = IF j = pid THEN [p[pid] EXCEPT !.shutdown = TRUE] ELSE p[j]
    <3>1. pid \in 1..Len(p)
      BY <1>1, <1>3
    <3> HIDE DEF p, q
    <3> QED BY <2>1, <2>2, <3>1, ExceptSeq, <1>3 DEF p
  <2>4. DOMAIN q = DOMAIN p
    OBVIOUS
  <2>5. ASSUME NEW i \in DOMAIN p PROVE q[i].gauge = p[i].gauge /\ (q[i].shutdown <=> (i = pid \/ p[i].shutdown))
    <3>1. i \in 1..Len(p) /\ p[i] \in PoolSet
      BY <1>3
    <3> HIDE DEF p, q
    <3> QED BY <2>3, <3>1 DEF PoolSet
  <2> HIDE DEF p, q
  <2> QED BY <2>3, <2>4, <2>5
<1>5. t.pools = [s.pools EXCEPT ![b] = q] /\ SameStatus(s, t)
  BY <1>2 DEF Contracts, SameStatus
<1>6. t.pools[b] = q /\ \A c \in {1, 2} \ {b} : t.pools[c] = s.pools[c]
  <2> HIDE DEF q
  <2> QED BY <1>5, <1>3
<1>7. t \in Contracts
  <2>1. t.pools \in [{1, 2} -> Seq(PoolSet)]
    <3> HIDE DEF q
    <3> QED BY <1>5, <1>4, <1>3
  <2>2. t = [s EXCEPT !.pools = t.pools]
    BY <1>2
  <2> HIDE DEF q
  <2> QED BY <2>1, <2>2 DEF Contracts, PoolSet, GaugeSet
<1>8. pid \in OpenPids(p) /\ \A i : i \in OpenPids(q) <=> i \in OpenPids(p) /\ i # pid
  <2> HIDE DEF q
  <2> QED BY <1>4, <1>1 DEF OpenPids
<1>9. Grown(s, t)
  <2>1. Kept(p, q)
    <3> HIDE DEF q
    <3> QED BY <1>4 DEF Kept
  <2>2. ASSUME NEW c \in {1, 2} PROVE Kept(s.pools[c], t.pools[c])
    <3>1. CASE c = b
      <4> HIDE DEF q
      <4> QED BY <3>1, <2>1, <1>6
    <3>2. CASE c # b
      BY <3>2, <1>6 DEF Kept
    <3> QED BY <3>1, <3>2
  <2> QED BY <2>2 DEF Grown
<1>10. Closes(s.pools[b], t.pools[b], pid)
  <2> HIDE DEF q
  <2> QED BY <1>4, <1>6, <1>8 DEF Closes
<1> HIDE DEF q
<1> QED BY <1>5, <1>6, <1>7, <1>9, <1>10

\* addPool adds an open pool of the gauge at the end, where none is open.
LEMMA AddPoolEffect ==
  ASSUME NEW s \in Contracts, NEW b \in {1, 2}, NEW g \in GaugeSet, Allowed(s, AddPool(b, g)),
         NEW t, t = Effect(s, AddPool(b, g))
  PROVE  /\ t \in Contracts /\ SameStatus(s, t) /\ Grown(s, t)
         /\ s.operator = b /\ ~(b = 1 /\ (s.proxyShut \/ s.boosterShut))
         /\ Opens(s.pools[b], t.pools[b], g)
         /\ \A c \in {1, 2} \ {b} : t.pools[c] = s.pools[c]
<1>1. g \notin OpenGauges(s.pools[b]) /\ s.operator = b /\ ~(b = 1 /\ (s.proxyShut \/ s.boosterShut))
  BY DEF Allowed, AddPool, CanAdd
<1>2. t = [s EXCEPT !.pools[b] = Append(s.pools[b], Pool(g))]
  BY DEF Effect, AddPool
<1>3. /\ s.pools \in [{1, 2} -> Seq(PoolSet)] /\ s.pools[b] \in Seq(PoolSet) /\ Len(s.pools[b]) \in Nat
      /\ DOMAIN s.pools[b] = 1..Len(s.pools[b])
      /\ \A i \in DOMAIN s.pools[b] : s.pools[b][i] \in PoolSet
  BY ContractsType
<1> DEFINE p == s.pools[b]
           q == Append(p, Pool(g))
           n == Len(p) + 1
<1>4. /\ q \in Seq(PoolSet) /\ DOMAIN q = 1..n
      /\ \A i \in DOMAIN p : q[i] = p[i]
      /\ q[n] = Pool(g)
  <2>1. Pool(g) \in PoolSet
    BY DEF Pool, PoolSet
  <2>2. q \in Seq(PoolSet) /\ Len(q) = Len(p) + 1 /\ \A i \in 1..Len(p) : q[i] = p[i]
    <3> HIDE DEF p
    <3> QED BY <2>1, <1>3, AppendProperties DEF p
  <2>3. q[n] = Pool(g)
    <3> HIDE DEF p
    <3> QED BY <2>1, <1>3, AppendProperties DEF p
  <2>4. DOMAIN q = 1..n
    BY <2>2, LenProperties
  <2> QED BY <2>2, <2>3, <2>4, <1>3
<1> HIDE DEF q
<1>5. t.pools = [s.pools EXCEPT ![b] = q] /\ SameStatus(s, t)
  BY <1>2 DEF Contracts, SameStatus, q
<1>6. t.pools[b] = q /\ \A c \in {1, 2} \ {b} : t.pools[c] = s.pools[c]
  BY <1>5, <1>3
<1>7. t \in Contracts
  <2>1. t.pools \in [{1, 2} -> Seq(PoolSet)]
    BY <1>5, <1>4, <1>3
  <2>2. t = [s EXCEPT !.pools = t.pools]
    BY <1>2
  <2> QED BY <2>1, <2>2 DEF Contracts, PoolSet, GaugeSet
<1>8. n \in Nat /\ n \notin DOMAIN p /\ DOMAIN q = DOMAIN p \cup {n}
  BY <1>3, <1>4
<1>9. q[n].gauge = g /\ \A i : i \in OpenPids(q) <=> i \in OpenPids(p) \/ i = n
  <2>1. ~q[n].shutdown /\ q[n].gauge = g
    BY <1>4 DEF Pool
  <2> HIDE DEF n, p
  <2> QED BY <2>1, <1>8, <1>4 DEF OpenPids
<1>10. Grown(s, t)
  <2>1. Kept(p, q)
    BY <1>4, <1>8 DEF Kept
  <2>2. ASSUME NEW c \in {1, 2} PROVE Kept(s.pools[c], t.pools[c])
    <3>1. CASE c = b
      BY <3>1, <2>1, <1>6
    <3>2. CASE c # b
      BY <3>2, <1>6 DEF Kept
    <3> QED BY <3>1, <3>2
  <2> QED BY <2>2 DEF Grown
<1>11. Opens(s.pools[b], t.pools[b], g)
  <2>1. n \in Nat \ DOMAIN p
    BY <1>8
  <2>2. \A i : i \in DOMAIN q <=> i \in DOMAIN p \/ i = n
    BY <1>8
  <2> HIDE DEF n
  <2> QED BY <1>1, <1>6, <1>9, <2>1, <2>2 DEF Opens
<1> QED BY <1>1, <1>5, <1>6, <1>7, <1>10, <1>11

\* What is kept twice is kept.
LEMMA GrownTransitive ==
  ASSUME NEW r, NEW s, NEW t, Grown(r, s), Grown(s, t)
  PROVE  Grown(r, t)
BY DEF Grown, Kept

\* Closing a pool keeps the contracts sound,
LEMMA ShutdownPoolSound ==
  ASSUME NEW s, Sound(s), NEW b \in {1, 2}, NEW pid, Allowed(s, ShutdownPool(b, pid))
  PROVE  Sound(Effect(s, ShutdownPool(b, pid)))
<1>0. PICK t : t = Effect(s, ShutdownPool(b, pid))
  OBVIOUS
<1>1. s \in Contracts
  BY DEF Sound
<1>2. /\ t \in Contracts /\ SameStatus(s, t) /\ Grown(s, t)
      /\ Closes(s.pools[b], t.pools[b], pid)
      /\ \A c \in {1, 2} \ {b} : t.pools[c] = s.pools[c]
  BY <1>0, <1>1, ShutdownPoolEffect
<1>3. \A c \in {1, 2} : OpenPids(t.pools[c]) \subseteq OpenPids(s.pools[c])
  BY <1>2 DEF Closes
<1>4. ASSUME NEW c \in {1, 2} PROVE OnePoolEach(t.pools[c])
  <2>1. \A i \in OpenPids(t.pools[c]) : i \in OpenPids(s.pools[c]) /\ t.pools[c][i].gauge = s.pools[c][i].gauge
    BY <1>2, <1>3 DEF Grown, Kept, OpenPids
  <2>2. OnePoolEach(s.pools[c])
    BY DEF Sound
  <2> QED BY <2>1, <2>2 DEF OnePoolEach
<1>5. /\ t.operator = 1 => OpenPids(t.pools[2]) = {}
      /\ t.boosterShut => t.proxyShut /\ OpenPids(t.pools[1]) = {}
      /\ t.operator = 2 => t.boosterShut
  BY <1>2, <1>3 DEF Sound, SameStatus
<1>6. Sound(t)
  BY <1>2, <1>4, <1>5 DEF Sound
<1> QED BY <1>0, <1>6

\* and so does adding one.
LEMMA AddPoolSound ==
  ASSUME NEW s, Sound(s), NEW b \in {1, 2}, NEW g \in GaugeSet, Allowed(s, AddPool(b, g))
  PROVE  Sound(Effect(s, AddPool(b, g)))
<1>0. PICK t : t = Effect(s, AddPool(b, g))
  OBVIOUS
<1>1. s \in Contracts
  BY DEF Sound
<1>2. /\ t \in Contracts /\ SameStatus(s, t) /\ Grown(s, t)
      /\ s.operator = b /\ ~(b = 1 /\ (s.proxyShut \/ s.boosterShut))
      /\ Opens(s.pools[b], t.pools[b], g)
      /\ \A c \in {1, 2} \ {b} : t.pools[c] = s.pools[c]
  BY <1>0, <1>1, AddPoolEffect
<1>3. PICK n \in Nat \ DOMAIN s.pools[b] :
        /\ \A i : i \in OpenPids(t.pools[b]) <=> i \in OpenPids(s.pools[b]) \/ i = n
        /\ t.pools[b][n].gauge = g
  BY <1>2 DEF Opens
<1>4. ASSUME NEW c \in {1, 2} PROVE OnePoolEach(t.pools[c])
  <2>1. OnePoolEach(s.pools[c])
    BY DEF Sound
  <2>2. CASE c # b
    BY <2>1, <2>2, <1>2
  <2>3. CASE c = b
    <3>1. \A i \in OpenPids(s.pools[b]) : t.pools[b][i].gauge = s.pools[b][i].gauge /\ s.pools[b][i].gauge # g
      BY <1>2 DEF Grown, Kept, OpenPids, OpenGauges, Opens
    <3> QED BY <2>1, <2>3, <3>1, <1>3 DEF OnePoolEach
  <2> QED BY <2>2, <2>3
<1>5. /\ t.operator = 1 => OpenPids(t.pools[2]) = {}
      /\ t.boosterShut => t.proxyShut /\ OpenPids(t.pools[1]) = {}
      /\ t.operator = 2 => t.boosterShut
  BY <1>2 DEF Sound, SameStatus
<1>6. Sound(t)
  BY <1>2, <1>4, <1>5 DEF Sound
<1> QED BY <1>0, <1>6

\* Calls that close or add pools.
PoolCall(call) ==
  \/ \E b \in {1, 2}, pid \in Nat : call = ShutdownPool(b, pid)
  \/ \E b \in {1, 2}, g \in GaugeSet : call = AddPool(b, g)

\* A call that closes or adds a pool keeps the contracts sound, and neither switches them
\* nor takes a pool away.
LEMMA PoolCallEffect ==
  ASSUME NEW s, Sound(s), NEW call, PoolCall(call), Allowed(s, call)
  PROVE  Sound(Effect(s, call)) /\ SameStatus(s, Effect(s, call)) /\ Grown(s, Effect(s, call))
<1>0. s \in Contracts
  BY DEF Sound
<1>1. CASE \E b \in {1, 2}, pid \in Nat : call = ShutdownPool(b, pid)
  <2>1. PICK b \in {1, 2}, pid \in Nat : call = ShutdownPool(b, pid)
    BY <1>1
  <2>2. PICK t : t = Effect(s, ShutdownPool(b, pid))
    OBVIOUS
  <2>3. Allowed(s, ShutdownPool(b, pid))
    BY <2>1
  <2>4. Sound(t)
    BY <2>2, <2>3, ShutdownPoolSound
  <2>5. SameStatus(s, t) /\ Grown(s, t)
    BY <1>0, <2>2, <2>3, ShutdownPoolEffect
  <2> QED BY <2>1, <2>2, <2>4, <2>5
<1>2. CASE \E b \in {1, 2}, g \in GaugeSet : call = AddPool(b, g)
  <2>1. PICK b \in {1, 2}, g \in GaugeSet : call = AddPool(b, g)
    BY <1>2
  <2>2. PICK t : t = Effect(s, AddPool(b, g))
    OBVIOUS
  <2>3. Allowed(s, AddPool(b, g))
    BY <2>1
  <2>4. Sound(t)
    BY <2>2, <2>3, AddPoolSound
  <2>5. SameStatus(s, t) /\ Grown(s, t)
    BY <1>0, <2>2, <2>3, AddPoolEffect
  <2> QED BY <2>1, <2>2, <2>4, <2>5
<1> QED BY <1>1, <1>2 DEF PoolCall

\* Files of such calls do the same, however long they are.
LEMMA PoolFile ==
  ASSUME NEW s, Sound(s), NEW calls, Len(calls) \in Nat, \A k \in 1..Len(calls) : PoolCall(calls[k]),
         After(s, calls) # Reverted
  PROVE  Sound(After(s, calls)) /\ SameStatus(s, After(s, calls)) /\ Grown(s, After(s, calls))
<1> DEFINE J == {t \in Contracts : Sound(t) /\ SameStatus(s, t) /\ Grown(s, t)}
           I == [k \in 0..Len(calls) |-> J]
<1>1. s \in I[0]
  BY DEF Sound, SameStatus, Grown, Kept
<1>2. ASSUME NEW k \in 1..Len(calls), NEW t \in I[k - 1], Allowed(t, calls[k])
      PROVE  Effect(t, calls[k]) \in I[k]
  <2>1. k - 1 \in 0..Len(calls) /\ k \in 0..Len(calls)
    OBVIOUS
  <2>2. t \in Contracts /\ Sound(t) /\ SameStatus(s, t) /\ Grown(s, t)
    BY <2>1
  <2>3. PICK u : u = Effect(t, calls[k])
    OBVIOUS
  <2>4. Sound(u) /\ SameStatus(t, u) /\ Grown(t, u)
    BY <2>2, <2>3, <1>2, PoolCallEffect
  <2>5. SameStatus(s, u) /\ Grown(s, u) /\ u \in Contracts
    BY <2>2, <2>4, GrownTransitive DEF SameStatus, Sound
  <2> QED BY <2>1, <2>3, <2>4, <2>5
<1>3. Len(calls) \in 0..Len(calls)
  OBVIOUS
<1> HIDE DEF J
<1>4. I[Len(calls)] = J
  BY <1>3
<1> HIDE DEF I
<1>5. After(s, calls) \in I[Len(calls)]
  BY <1>1, <1>2, AfterInvariant
<1> QED BY <1>4, <1>5 DEF J

\* The gauges of all pools of a booster, also the closed ones.
Ever(pools) == {pools[i].gauge : i \in DOMAIN pools}

\* Files of addPool calls leave a pool for each of their gauges.
LEMMA AddFile ==
  ASSUME NEW s, Sound(s), NEW gauges \in Seq(GaugeSet), After(s, AddPools(gauges)) # Reverted,
         NEW g \in Range(gauges)
  PROVE  g \in Ever(After(s, AddPools(gauges)).pools[2])
<1> DEFINE calls == AddPools(gauges)
           I == [k \in 0..Len(gauges) |->
                   {t \in Contracts : Sound(t) /\ \A j \in 1..k : gauges[j] \in Ever(t.pools[2])}]
<1>0. Len(gauges) \in Nat /\ DOMAIN gauges = 1..Len(gauges) /\ \A k \in 1..Len(gauges) : gauges[k] \in GaugeSet
  BY LenProperties, ElementOfSeq
<1>1. Len(calls) = Len(gauges) /\ \A k \in 1..Len(gauges) : calls[k] = AddPool(2, gauges[k])
  BY <1>0 DEF AddPools
<1>2. s \in I[0]
  BY <1>0 DEF Sound
<1>3. ASSUME NEW k \in 1..Len(gauges), NEW t \in I[k - 1], Allowed(t, calls[k])
      PROVE  Effect(t, calls[k]) \in I[k]
  <2>1. k - 1 \in 0..Len(gauges) /\ k \in 0..Len(gauges) /\ gauges[k] \in GaugeSet
    BY <1>0
  <2>2. t \in Contracts /\ Sound(t) /\ \A j \in 1..(k - 1) : gauges[j] \in Ever(t.pools[2])
    BY <2>1
  <2>3. PICK u : u = Effect(t, AddPool(2, gauges[k]))
    OBVIOUS
  <2>4. Allowed(t, AddPool(2, gauges[k]))
    BY <1>1, <1>3
  <2>5. Sound(u)
    BY <2>1, <2>2, <2>3, <2>4, AddPoolSound
  <2>6. Grown(t, u) /\ Opens(t.pools[2], u.pools[2], gauges[k]) /\ u \in Contracts
    BY <2>1, <2>2, <2>3, <2>4, AddPoolEffect
  <2>7. gauges[k] \in Ever(u.pools[2])
    BY <2>6 DEF Opens, Ever
  <2>8. Ever(t.pools[2]) \subseteq Ever(u.pools[2])
    BY <2>6 DEF Ever, Grown, Kept
  <2>9. \A j \in 1..k : gauges[j] \in Ever(u.pools[2])
    <3>1. \A j \in 1..k : j \in 1..(k - 1) \/ j = k
      BY <1>0
    <3> QED BY <3>1, <2>2, <2>7, <2>8
  <2> QED BY <1>1, <2>1, <2>3, <2>5, <2>6, <2>9
<1>4. Len(gauges) \in 0..Len(gauges)
  BY <1>0
<1>5. ASSUME NEW t \in I[Len(gauges)] PROVE g \in Ever(t.pools[2])
  BY <1>0, <1>4 DEF Range
<1> HIDE DEF I, calls
<1>6. After(s, calls) \in I[Len(calls)]
  <2>1. \A k \in 1..Len(calls) : \A t \in I[k - 1] : Allowed(t, calls[k]) => Effect(t, calls[k]) \in I[k]
    BY <1>3, <1>1
  <2>2. After(s, calls) # Reverted
    BY DEF calls
  <2> QED BY <1>0, <1>1, <1>2, <2>1, <2>2, AfterInvariant
<1> QED BY <1>1, <1>5, <1>6 DEF calls

\* The calls of the file that switches the system, one by one.
LEMMA SystemCalls ==
  /\ Len(SystemFile) \in Nat /\ Len(SystemFile) >= 4
  /\ SystemFile[1] = [fn |-> "proxy.shutdownSystem"] /\ SystemFile[2] = [fn |-> "boosterOwner.shutdownSystem"]
  /\ SystemFile[3] = [fn |-> "setOperator"] /\ SystemFile[4] = [fn |-> "updateOperator"]
  /\ \A k \in 5..Len(SystemFile) : \E g \in GaugeSet : SystemFile[k] = AddPool(2, g)
<1> DEFINE n == Len(InitialPools)
           adds == AddPools(InitialPools)
           T == Range(ShutdownSystems) \cup Range(UpdateOperator) \cup Range(adds)
           first == ShutdownSystems \o UpdateOperator
<1>1. n \in Nat /\ \A k \in 1..n : InitialPools[k] \in GaugeSet
  <2>1. InitialPools \in Seq(Range(Gauges))
    BY MigrationAssumption
  <2>2. n \in Nat /\ \A k \in 1..n : InitialPools[k] \in Range(Gauges)
    BY <2>1, LenProperties, ElementOfSeq
  <2> QED BY <2>2 DEF GaugeSet
<1>2. DOMAIN adds = 1..n /\ \A k \in 1..n : adds[k] = AddPool(2, InitialPools[k])
  BY DEF AddPools
<1> HIDE DEF adds
<1>3. adds \in Seq(T) /\ Len(adds) = n
  <2>1. adds \in [1..n -> Range(adds)]
    <3>1. adds = [k \in 1..n |-> adds[k]]
      BY <1>2 DEF AddPools, adds
    <3> QED BY <3>1, <1>2 DEF Range
  <2>2. adds \in Seq(Range(adds))
    BY <2>1, <1>1, SeqDef
  <2>3. adds \in Seq(T)
    BY <2>2, SeqMonotonic
  <2>4. Len(adds) = n
    <3>1. DOMAIN adds = 1..Len(adds) /\ Len(adds) \in Nat
      BY <2>2, LenProperties
    <3> QED BY <3>1, <1>2, <1>1
  <2> QED BY <2>3, <2>4
<1>4. ShutdownSystems \in Seq(T) /\ Len(ShutdownSystems) = 2
  <2>1. ShutdownSystems \in Seq(Range(ShutdownSystems)) /\ Len(ShutdownSystems) = 2
    BY DEF ShutdownSystems, Range
  <2> HIDE DEF T
  <2> QED BY <2>1, SeqMonotonic DEF T
<1>5. UpdateOperator \in Seq(T) /\ Len(UpdateOperator) = 2
  <2>1. UpdateOperator \in Seq(Range(UpdateOperator)) /\ Len(UpdateOperator) = 2
    BY DEF UpdateOperator, Range
  <2> HIDE DEF T
  <2> QED BY <2>1, SeqMonotonic DEF T
<1> HIDE DEF T
<1>6. /\ first \in Seq(T) /\ Len(first) = 4
      /\ \A i \in 1..(2 + 2) : first[i] = IF i <= 2 THEN ShutdownSystems[i] ELSE UpdateOperator[i - 2]
  <2>1. /\ first \in Seq(T) /\ Len(first) = Len(ShutdownSystems) + Len(UpdateOperator)
        /\ \A i \in 1..(Len(ShutdownSystems) + Len(UpdateOperator)) :
             first[i] = IF i <= Len(ShutdownSystems) THEN ShutdownSystems[i] ELSE UpdateOperator[i - Len(ShutdownSystems)]
    BY <1>4, <1>5, ConcatProperties
  <2> HIDE DEF first
  <2> QED BY <1>4, <1>5, <2>1
<1>7. SystemFile = first \o adds
  BY DEF SystemFile, adds
<1>8. first[1] = ShutdownSystems[1] /\ first[2] = ShutdownSystems[2]
      /\ first[3] = UpdateOperator[1] /\ first[4] = UpdateOperator[2]
  BY <1>6
<1> HIDE DEF first, n
<1>9. /\ Len(SystemFile) = 4 + n
      /\ \A i \in 1..(4 + n) : SystemFile[i] = IF i <= 4 THEN first[i] ELSE adds[i - 4]
  <2>1. /\ Len(first \o adds) = Len(first) + Len(adds)
        /\ \A i \in 1..(Len(first) + Len(adds)) : (first \o adds)[i] = IF i <= Len(first) THEN first[i] ELSE adds[i - Len(first)]
    BY <1>3, <1>6, ConcatProperties
  <2> QED BY <1>3, <1>6, <1>7, <2>1
<1>10. /\ ShutdownSystems[1] = [fn |-> "proxy.shutdownSystem"] /\ ShutdownSystems[2] = [fn |-> "boosterOwner.shutdownSystem"]
       /\ UpdateOperator[1] = [fn |-> "setOperator"] /\ UpdateOperator[2] = [fn |-> "updateOperator"]
  BY DEF ShutdownSystems, UpdateOperator
<1>11. SystemFile[1] = first[1] /\ SystemFile[2] = first[2] /\ SystemFile[3] = first[3] /\ SystemFile[4] = first[4]
  BY <1>9, <1>1
<1>12. ASSUME NEW k \in 5..Len(SystemFile) PROVE \E g \in GaugeSet : SystemFile[k] = AddPool(2, g)
  <2>1. k - 4 \in 1..n /\ k \in 1..(4 + n) /\ ~(k <= 4)
    BY <1>9, <1>1
  <2>2. SystemFile[k] = AddPool(2, InitialPools[k - 4]) /\ InitialPools[k - 4] \in GaugeSet
    BY <2>1, <1>9, <1>2, <1>1
  <2> QED BY <2>2
<1> QED BY <1>1, <1>8, <1>9, <1>10, <1>11, <1>12

\* The other calls keep the contracts sound too, each with what it is there for.
LEMMA SystemCallEffect ==
  ASSUME NEW s, Sound(s), NEW call \in {SystemFile[1], SystemFile[2], SystemFile[3], SystemFile[4]},
         Allowed(s, call), NEW t, t = Effect(s, call)
  PROVE  /\ Sound(t) /\ t.pools = s.pools
         /\ s.boosterShut => t.boosterShut
         /\ s.operator = 2 => t.operator = 2
         /\ call = SystemFile[2] => t.boosterShut
         /\ call = SystemFile[3] => t.operator = 2
         /\ call = SystemFile[4] => t.liqOperator = t.operator
<1>0. s \in Contracts
  BY DEF Sound
<1>1. CASE call = SystemFile[1]
  <2>1. call = [fn |-> "proxy.shutdownSystem"]
    BY <1>1, SystemCalls
  <2>2. t = [s EXCEPT !.proxyShut = TRUE]
    BY <2>1 DEF Effect
  <2>3. t \in Contracts /\ t.pools = s.pools /\ t.boosterShut = s.boosterShut /\ t.operator = s.operator /\ t.proxyShut
    BY <1>0, <2>2 DEF Contracts
  <2>4. Sound(t)
    BY <2>3 DEF Sound
  <2> QED BY <2>1, <2>3, <2>4, SystemCalls
<1>2. CASE call = SystemFile[2]
  <2>1. call = [fn |-> "boosterOwner.shutdownSystem"]
    BY <1>2, SystemCalls
  <2>2. t = [s EXCEPT !.boosterShut = TRUE] /\ s.proxyShut /\ OpenGauges(s.pools[1]) = {}
    BY <2>1 DEF Effect, Allowed
  <2>3. t \in Contracts /\ t.pools = s.pools /\ t.boosterShut /\ t.operator = s.operator /\ t.proxyShut
    BY <1>0, <2>2 DEF Contracts
  <2>4. OpenPids(s.pools[1]) = {}
    BY <2>2 DEF OpenGauges
  <2>5. Sound(t)
    BY <2>3, <2>4 DEF Sound
  <2> QED BY <2>1, <2>3, <2>5, SystemCalls
<1>3. CASE call = SystemFile[3]
  <2>1. call = [fn |-> "setOperator"]
    BY <1>3, SystemCalls
  <2>2. t = [s EXCEPT !.operator = 2] /\ s.boosterShut
    BY <2>1 DEF Effect, Allowed
  <2>3. t \in Contracts /\ t.pools = s.pools /\ t.boosterShut = s.boosterShut /\ t.operator = 2 /\ t.proxyShut = s.proxyShut
    BY <1>0, <2>2 DEF Contracts
  <2>4. Sound(t) /\ t.boosterShut
    BY <2>2, <2>3 DEF Sound
  <2>5. call # SystemFile[4]
    BY <2>1, SystemCalls
  <2> QED BY <2>3, <2>4, <2>5
<1>4. CASE call = SystemFile[4]
  <2>1. call = [fn |-> "updateOperator"]
    BY <1>4, SystemCalls
  <2>2. t = [s EXCEPT !.liqOperator = s.operator]
    BY <2>1 DEF Effect
  <2>3. /\ t \in Contracts /\ t.pools = s.pools /\ t.boosterShut = s.boosterShut /\ t.operator = s.operator
        /\ t.proxyShut = s.proxyShut /\ t.liqOperator = t.operator
    BY <1>0, <2>2 DEF Contracts
  <2>4. Sound(t)
    BY <2>3 DEF Sound
  <2> QED BY <2>1, <2>3, <2>4, SystemCalls
<1> QED BY <1>1, <1>2, <1>3, <1>4

\* The file as a whole: the first booster is shut down, without an open pool, and both the
\* VoterProxy and LIQ have the second one as operator.
LEMMA SystemFileEffect ==
  ASSUME NEW s, Sound(s), After(s, SystemFile) # Reverted, NEW t, t = After(s, SystemFile)
  PROVE  Sound(t) /\ Grown(s, t) /\ t.boosterShut /\ t.operator = 2 /\ t.liqOperator = 2
<1> DEFINE n == Len(SystemFile)
           J(k) == {u \in Contracts : /\ Sound(u) /\ Grown(s, u)
                                      /\ k >= 2 => u.boosterShut
                                      /\ k >= 3 => u.operator = 2
                                      /\ k >= 4 => u.liqOperator = 2}
           I == [k \in 0..n |-> J(k)]
<1>0. n \in Nat /\ n >= 4
  BY SystemCalls
<1>1. s \in I[0]
  <2>1. 0 \in 0..n /\ s \in Contracts /\ Grown(s, s)
    BY <1>0 DEF Sound, Grown, Kept
  <2> QED BY <2>1
<1>2. ASSUME NEW k \in 1..n, NEW u \in I[k - 1], Allowed(u, SystemFile[k])
      PROVE  Effect(u, SystemFile[k]) \in I[k]
  <2>1. k - 1 \in 0..n /\ k \in 0..n /\ k \in Int
    BY <1>0
  <2>2. u \in J(k - 1)
    BY <2>1
  <2>3. PICK v : v = Effect(u, SystemFile[k])
    OBVIOUS
  <2>4. v \in J(k)
    <3>1. CASE k <= 4
      <4>0. k = 1 \/ k = 2 \/ k = 3 \/ k = 4
        BY <2>1, <3>1, <1>0
      <4>1. SystemFile[k] \in {SystemFile[1], SystemFile[2], SystemFile[3], SystemFile[4]}
        BY <4>0
      <4>2. Sound(u) /\ Grown(s, u)
        BY <2>2
      <4>3. /\ Sound(v) /\ v.pools = u.pools
            /\ u.boosterShut => v.boosterShut
            /\ u.operator = 2 => v.operator = 2
            /\ SystemFile[k] = SystemFile[2] => v.boosterShut
            /\ SystemFile[k] = SystemFile[3] => v.operator = 2
            /\ SystemFile[k] = SystemFile[4] => v.liqOperator = v.operator
        BY <4>1, <4>2, <2>3, <1>2, SystemCallEffect
      <4>4. Grown(s, v) /\ v \in Contracts
        BY <4>2, <4>3 DEF Grown, Sound
      <4>5. k >= 2 => v.boosterShut
        BY <4>0, <4>3, <2>2
      <4>6. k >= 3 => v.operator = 2
        BY <4>0, <4>3, <2>2
      <4>7. k >= 4 => v.liqOperator = 2
        BY <4>0, <4>3, <4>6
      <4> QED BY <4>3, <4>4, <4>5, <4>6, <4>7
    <3>2. CASE ~(k <= 4)
      <4>1. k \in 5..n /\ k - 1 >= 4
        BY <3>2, <2>1
      <4>2. PICK g \in GaugeSet : SystemFile[k] = AddPool(2, g)
        BY <4>1, SystemCalls
      <4>3. PoolCall(SystemFile[k])
        BY <4>2 DEF PoolCall
      <4>4. Sound(u) /\ Grown(s, u) /\ u.boosterShut /\ u.operator = 2 /\ u.liqOperator = 2
        BY <2>2, <4>1, <2>1
      <4>5. Sound(v) /\ SameStatus(u, v) /\ Grown(u, v)
        BY <4>3, <4>4, <2>3, <1>2, PoolCallEffect
      <4>6. Grown(s, v) /\ v \in Contracts
        BY <4>4, <4>5, GrownTransitive DEF Sound
      <4> QED BY <4>4, <4>5, <4>6 DEF SameStatus
    <3> QED BY <3>1, <3>2
  <2> QED BY <2>1, <2>3, <2>4
<1>3. n \in 0..n
  BY <1>0
<1> HIDE DEF J
<1>4. I[n] = J(n)
  BY <1>3
<1> HIDE DEF I
<1>5. t \in I[n]
  <2> HIDE DEF n
  <2>1. \A k \in 1..n : \A u \in I[k - 1] : Allowed(u, SystemFile[k]) => Effect(u, SystemFile[k]) \in I[k]
    BY <1>2
  <2> QED BY <1>0, <1>1, <2>1, AfterInvariant DEF n
<1> QED BY <1>0, <1>4, <1>5 DEF J

\* The calls of a file of migratepools47: first the pools are closed, then they are added.
LEMMA MoveCalls ==
  ASSUME NEW file, NEW D, file.pids \in Seq(D), file.gauges \in Seq(GaugeSet), Len(file.gauges) = Len(file.pids)
  PROVE  LET m == Len(file.pids)
         IN  /\ m \in Nat /\ Len(MoveFile(file)) = m + m
             /\ \A k \in 1..m : MoveFile(file)[k] = ShutdownPool(2, file.pids[k])
             /\ \A j \in 1..m : MoveFile(file)[m + j] = AddPool(2, file.gauges[j])
<1> DEFINE m == Len(file.pids)
           closing == [i \in 1..Len(file.pids) |-> ShutdownPool(2, file.pids[i])]
           adding == AddPools(file.gauges)
           T == Range(closing) \cup Range(adding)
<1>0. m \in Nat
  BY LenProperties
<1>1. closing \in Seq(T) /\ Len(closing) = m
  <2>1. closing \in [1..m -> Range(closing)] /\ DOMAIN closing = 1..m
    BY DEF Range
  <2>2. closing \in Seq(Range(closing))
    <3> HIDE DEF m, closing
    <3> QED BY <2>1, <1>0, SeqDef
  <2> HIDE DEF closing, adding
  <2>3. closing \in Seq(T)
    BY <2>2, SeqMonotonic
  <2>4. DOMAIN closing = 1..Len(closing) /\ Len(closing) \in Nat
    BY <2>2, LenProperties
  <2> QED BY <1>0, <2>1, <2>3, <2>4
<1>2. adding \in Seq(T) /\ Len(adding) = m
  <2>1. adding \in [1..m -> Range(adding)] /\ DOMAIN adding = 1..m
    BY DEF Range, AddPools
  <2>2. adding \in Seq(Range(adding))
    <3> HIDE DEF m, adding
    <3> QED BY <2>1, <1>0, SeqDef
  <2> HIDE DEF closing, adding
  <2>3. adding \in Seq(T)
    BY <2>2, SeqMonotonic
  <2>4. DOMAIN adding = 1..Len(adding) /\ Len(adding) \in Nat
    BY <2>2, LenProperties
  <2> QED BY <1>0, <2>1, <2>3, <2>4
<1>3. /\ Len(closing \o adding) = m + m
      /\ \A i \in 1..(m + m) : (closing \o adding)[i] = IF i <= m THEN closing[i] ELSE adding[i - m]
  <2>1. /\ Len(closing \o adding) = Len(closing) + Len(adding)
        /\ \A i \in 1..(Len(closing) + Len(adding)) :
             (closing \o adding)[i] = IF i <= Len(closing) THEN closing[i] ELSE adding[i - Len(closing)]
    <3> HIDE DEF closing, adding, T
    <3> QED BY <1>1, <1>2, ConcatProperties
  <2> HIDE DEF closing, adding, T, m
  <2> QED BY <2>1, <1>1, <1>2
<1>4. MoveFile(file) = closing \o adding
  BY DEF MoveFile
<1>5. \A k \in 1..m : closing[k] = ShutdownPool(2, file.pids[k])
  OBVIOUS
<1>6. \A j \in 1..m : adding[j] = AddPool(2, file.gauges[j])
  BY DEF AddPools
<1> HIDE DEF closing, adding, T, m
<1>7. ASSUME NEW k \in 1..m PROVE MoveFile(file)[k] = ShutdownPool(2, file.pids[k])
  <2>1. k \in 1..(m + m) /\ k <= m
    BY <1>0
  <2> QED BY <2>1, <1>3, <1>4, <1>5
<1>8. ASSUME NEW j \in 1..m PROVE MoveFile(file)[m + j] = AddPool(2, file.gauges[j])
  <2>1. m + j \in 1..(m + m) /\ ~(m + j <= m) /\ (m + j) - m = j
    BY <1>0
  <2> QED BY <2>1, <1>3, <1>4, <1>6
<1> QED BY <1>0, <1>3, <1>4, <1>7, <1>8 DEF m

\* Such a file leaves the booster with open pools for the same gauges.
LEMMA MoveFileEffect ==
  ASSUME NEW s, Sound(s), NEW file, file.pids \in Seq(DOMAIN s.pools[2]),
         file.gauges \in Seq(GaugeSet), Len(file.gauges) = Len(file.pids),
         \A j \in 1..Len(file.pids) : file.gauges[j] = s.pools[2][file.pids[j]].gauge,
         After(s, MoveFile(file)) # Reverted, NEW t, t = After(s, MoveFile(file))
  PROVE  OpenGauges(t.pools[2]) = OpenGauges(s.pools[2])
<1> DEFINE m == Len(file.pids)
           n == Len(MoveFile(file))
           p == s.pools[2]
           J(k) == {u \in Contracts :
                      /\ Sound(u) /\ Grown(s, u)
                      /\ \A i \in OpenPids(p) : i \in OpenPids(u.pools[2]) \/ i \in Range(file.pids)
                      /\ OpenGauges(u.pools[2]) \subseteq OpenGauges(p)
                      /\ k <= m => OpenPids(u.pools[2]) \subseteq OpenPids(p)
                      /\ \A j \in 1..m : j <= k => file.pids[j] \in OpenPids(p)
                      /\ \A j \in 1..m : m + j <= k => file.gauges[j] \in OpenGauges(u.pools[2])}
           I == [k \in 0..n |-> J(k)]
<1>0. /\ m \in Nat /\ n = m + m
      /\ \A k \in 1..m : MoveFile(file)[k] = ShutdownPool(2, file.pids[k])
      /\ \A j \in 1..m : MoveFile(file)[m + j] = AddPool(2, file.gauges[j])
  BY MoveCalls
<1>1. /\ DOMAIN file.pids = 1..m /\ \A j \in 1..m : file.pids[j] \in DOMAIN p /\ file.gauges[j] \in GaugeSet
  BY LenProperties, ElementOfSeq
<1> HIDE DEF m, n
<1>2. s \in I[0]
  <2>1. 0 \in 0..n /\ s \in Contracts /\ Grown(s, s) /\ ~(\E j \in 1..m : j <= 0) /\ ~(\E j \in 1..m : m + j <= 0)
    BY <1>0 DEF Sound, Grown, Kept
  <2>2. s \in J(0)
    BY <2>1
  <2> QED BY <2>1, <2>2
<1>3. ASSUME NEW k \in 1..n, NEW u \in J(k - 1), Allowed(u, MoveFile(file)[k])
      PROVE  Effect(u, MoveFile(file)[k]) \in J(k)
  <2>0. k \in Int /\ m \in Nat
    BY <1>0
  <2>1. /\ u \in Contracts /\ Sound(u) /\ Grown(s, u)
        /\ \A i \in OpenPids(p) : i \in OpenPids(u.pools[2]) \/ i \in Range(file.pids)
        /\ OpenGauges(u.pools[2]) \subseteq OpenGauges(p)
        /\ k - 1 <= m => OpenPids(u.pools[2]) \subseteq OpenPids(p)
        /\ \A j \in 1..m : j <= k - 1 => file.pids[j] \in OpenPids(p)
        /\ \A j \in 1..m : m + j <= k - 1 => file.gauges[j] \in OpenGauges(u.pools[2])
    OBVIOUS
  <2>2. PICK v : v = Effect(u, MoveFile(file)[k])
    OBVIOUS
  <2> HIDE DEF p
  <2>3. CASE k <= m
    <3>1. k \in 1..m /\ MoveFile(file)[k] = ShutdownPool(2, file.pids[k])
      BY <1>0, <2>0, <2>3
    <3>2. Allowed(u, ShutdownPool(2, file.pids[k])) /\ v = Effect(u, ShutdownPool(2, file.pids[k]))
      BY <3>1, <1>3, <2>2
    <3>3. v \in Contracts /\ Grown(u, v) /\ Closes(u.pools[2], v.pools[2], file.pids[k])
      BY <2>1, <3>2, ShutdownPoolEffect
    <3>4. Sound(v)
      BY <2>1, <3>2, ShutdownPoolSound
    <3>5. Grown(s, v)
      BY <2>1, <3>3, GrownTransitive
    <3>6. \A i \in OpenPids(p) : i \in OpenPids(v.pools[2]) \/ i \in Range(file.pids)
      <4>1. file.pids[k] \in Range(file.pids)
        BY <1>1, <3>1 DEF Range
      <4> QED BY <4>1, <2>1, <3>3 DEF Closes
    <3>7. OpenPids(v.pools[2]) \subseteq OpenPids(u.pools[2])
      BY <3>3 DEF Closes
    <3>8. OpenGauges(v.pools[2]) \subseteq OpenGauges(u.pools[2])
      <4>1. \A i \in OpenPids(v.pools[2]) : v.pools[2][i].gauge = u.pools[2][i].gauge
        BY <3>3, <3>7 DEF Grown, Kept, OpenPids
      <4> QED BY <4>1, <3>7 DEF OpenGauges
    <3>9. file.pids[k] \in OpenPids(u.pools[2]) /\ OpenPids(u.pools[2]) \subseteq OpenPids(p)
      BY <3>3, <2>1, <2>3, <2>0 DEF Closes
    <3>10. \A j \in 1..m : j <= k => file.pids[j] \in OpenPids(p)
      <4>1. \A j \in 1..m : j <= k => j <= k - 1 \/ j = k
        BY <2>0
      <4> QED BY <4>1, <2>1, <3>9
    <3>11. \A j \in 1..m : ~(m + j <= k)
      BY <2>0, <2>3
    <3> QED BY <2>2, <2>1, <3>3, <3>4, <3>5, <3>6, <3>7, <3>8, <3>9, <3>10, <3>11
  <2>4. CASE ~(k <= m)
    <3> DEFINE g == file.gauges[k - m]
    <3>1. k - m \in 1..m /\ m + (k - m) = k
      BY <1>0, <2>0, <2>4
    <3>2. MoveFile(file)[k] = AddPool(2, g) /\ g \in GaugeSet /\ g = p[file.pids[k - m]].gauge
      <4>1. MoveFile(file)[m + (k - m)] = AddPool(2, file.gauges[k - m])
        BY <3>1, <1>0
      <4>2. file.gauges[k - m] = s.pools[2][file.pids[k - m]].gauge
        BY <3>1 DEF m
      <4> QED BY <4>1, <4>2, <3>1, <1>1 DEF p
    <3> HIDE DEF g
    <3>3. Allowed(u, AddPool(2, g)) /\ v = Effect(u, AddPool(2, g))
      BY <3>2, <1>3, <2>2
    <3>4. v \in Contracts /\ Grown(u, v) /\ Opens(u.pools[2], v.pools[2], g)
      BY <2>1, <3>2, <3>3, AddPoolEffect
    <3>5. Sound(v)
      BY <2>1, <3>2, <3>3, AddPoolSound
    <3>6. Grown(s, v)
      BY <2>1, <3>4, GrownTransitive
    <3>7. PICK new \in Nat \ DOMAIN u.pools[2] :
            /\ \A i : i \in OpenPids(v.pools[2]) <=> i \in OpenPids(u.pools[2]) \/ i = new
            /\ v.pools[2][new].gauge = g
      BY <3>4 DEF Opens
    <3>8. \A i \in OpenPids(u.pools[2]) : v.pools[2][i].gauge = u.pools[2][i].gauge
      BY <3>4 DEF Grown, Kept, OpenPids
    <3>9. OpenGauges(u.pools[2]) \subseteq OpenGauges(v.pools[2]) /\ g \in OpenGauges(v.pools[2])
      <4>1. \A i \in OpenPids(u.pools[2]) : u.pools[2][i].gauge \in OpenGauges(v.pools[2])
        BY <3>7, <3>8 DEF OpenGauges
      <4>2. g \in OpenGauges(v.pools[2])
        BY <3>7 DEF OpenGauges
      <4> QED BY <4>1, <4>2 DEF OpenGauges
    <3>10. ASSUME NEW h \in OpenGauges(v.pools[2]) PROVE h \in OpenGauges(u.pools[2]) \/ h = g
      <4>1. PICK i \in OpenPids(v.pools[2]) : h = v.pools[2][i].gauge
        BY DEF OpenGauges
      <4>2. CASE i = new
        BY <4>1, <4>2, <3>7
      <4>3. CASE i \in OpenPids(u.pools[2])
        BY <4>1, <4>3, <3>8 DEF OpenGauges
      <4> QED BY <4>1, <4>2, <4>3, <3>7
    <3>11. file.pids[k - m] \in OpenPids(p)
      <4>1. k - m <= k - 1
        BY <2>0, <3>1, <2>4
      <4> QED BY <4>1, <3>1, <2>1
    <3>12. g \in OpenGauges(p)
      BY <3>2, <3>11 DEF OpenGauges
    <3>13. \A i \in OpenPids(p) : i \in OpenPids(v.pools[2]) \/ i \in Range(file.pids)
      BY <2>1, <3>7
    <3>14. OpenGauges(v.pools[2]) \subseteq OpenGauges(p)
      BY <2>1, <3>10, <3>12
    <3>15. \A j \in 1..m : j <= k => file.pids[j] \in OpenPids(p)
      <4>1. \A j \in 1..m : j <= k - 1
        BY <2>0, <2>4
      <4> QED BY <4>1, <2>1
    <3>16. \A j \in 1..m : m + j <= k => file.gauges[j] \in OpenGauges(v.pools[2])
      <4>1. \A j \in 1..m : m + j <= k => m + j <= k - 1 \/ j = k - m
        BY <2>0
      <4> QED BY <4>1, <2>1, <3>9 DEF g
    <3> QED BY <2>2, <2>4, <3>4, <3>5, <3>6, <3>13, <3>14, <3>15, <3>16
  <2> QED BY <2>3, <2>4
<1>4. \A k \in 1..n : \A u \in I[k - 1] : Allowed(u, MoveFile(file)[k]) => Effect(u, MoveFile(file)[k]) \in I[k]
  <2> HIDE DEF J
  <2>1. \A k \in 1..n : k - 1 \in 0..n /\ k \in 0..n
    BY <1>0
  <2> QED BY <2>1, <1>3
<1>5. n \in 0..n /\ n \in Nat
  BY <1>0
<1>6. t \in I[n]
  <2> HIDE DEF I
  <2> QED BY <1>2, <1>4, <1>5, AfterInvariant DEF n
<1>7. t \in J(n)
  <2> HIDE DEF J
  <2> QED BY <1>5, <1>6
<1>8. \A j \in 1..m : file.gauges[j] \in OpenGauges(t.pools[2])
  <2>1. \A j \in 1..m : m + j <= n
    BY <1>0
  <2> QED BY <2>1, <1>7
<1>9. ASSUME NEW g \in OpenGauges(p) PROVE g \in OpenGauges(t.pools[2])
  <2>1. PICK i \in OpenPids(p) : g = p[i].gauge
    BY <1>9 DEF OpenGauges
  <2>2. CASE i \in OpenPids(t.pools[2])
    <3>1. t.pools[2][i].gauge = p[i].gauge
      BY <1>7, <2>1 DEF Grown, Kept, OpenPids
    <3> QED BY <2>1, <2>2, <3>1 DEF OpenGauges
  <2>3. CASE i \in Range(file.pids)
    <3>1. PICK j \in 1..m : i = file.pids[j]
      BY <2>3, <1>1 DEF Range
    <3>2. file.gauges[j] = g
      BY <3>1, <2>1 DEF m
    <3> QED BY <3>2, <1>8
  <2> QED BY <1>7, <2>1, <2>2, <2>3
<1> QED BY <1>7, <1>9

\* The initial state.
LEMMA InitInv == Init => Inv
<1> SUFFICES ASSUME Init PROVE Inv
  OBVIOUS
<1> DEFINE p == [i \in 1..Len(Gauges) |-> Pool(Gauges[i])]
<1>0. Gauges \in Seq(Range(Gauges)) /\ IsInjective(Gauges)
  BY MigrationAssumption
<1>1. /\ Len(Gauges) \in Nat /\ DOMAIN Gauges = 1..Len(Gauges)
      /\ \A i \in 1..Len(Gauges) : Gauges[i] \in GaugeSet
  <2>1. \A i \in 1..Len(Gauges) : Gauges[i] \in Range(Gauges)
    BY <1>0, ElementOfSeq
  <2> QED BY <1>0, <2>1, LenProperties DEF GaugeSet
<1>2. p \in Seq(PoolSet)
  <2>1. p \in [1..Len(Gauges) -> PoolSet]
    BY <1>1 DEF PoolSet, Pool
  <2> HIDE DEF p
  <2> QED BY <2>1, <1>1, SeqDef
<1>3. OnePoolEach(p)
  <2>1. \A i \in OpenPids(p) : i \in DOMAIN Gauges /\ p[i].gauge = Gauges[i]
    BY <1>1 DEF OpenPids, Pool
  <2> HIDE DEF p
  <2> QED BY <2>1, <1>0 DEF OnePoolEach, IsInjective
<1>4. <<>> \in Seq(PoolSet) /\ OpenPids(<<>>) = {}
  BY EmptySeq DEF OpenPids
<1>5. /\ chain.pools = [b \in {1, 2} |-> IF b = 1 THEN p ELSE <<>>]
      /\ chain.proxyShut = FALSE /\ chain.boosterShut = FALSE /\ chain.operator = 1 /\ chain.liqOperator = 1
      /\ chain = [pools |-> chain.pools, proxyShut |-> FALSE, boosterShut |-> FALSE, operator |-> 1, liqOperator |-> 1]
  BY DEF Init
<1> HIDE DEF p
<1>6. chain.pools \in [{1, 2} -> Seq(PoolSet)] /\ chain.pools[1] = p /\ chain.pools[2] = <<>>
  BY <1>5, <1>2, <1>4
<1>7. chain \in Contracts
  BY <1>5, <1>6 DEF Contracts, PoolSet, GaugeSet
<1>8. OnePoolEach(<<>>)
  BY <1>4 DEF OnePoolEach
<1>9. Sound(chain)
  BY <1>3, <1>4, <1>5, <1>6, <1>7, <1>8 DEF Sound
<1>10. Switched
  BY <1>5 DEF Switched
<1>11. FilesOK
  <2>1. <<>> \in Seq(Seq(GaugeSet))
    BY EmptySeq
  <2> QED BY <2>1 DEF FilesOK, Init
<1>12. NoGaugeForgotten
  BY DEF NoGaugeForgotten, Init
<1>13. MovesOK
  BY DEF MovesOK, Init
<1> QED BY <1>9, <1>10, <1>11, <1>12, <1>13 DEF Inv

\* A step of the contracts leaves the files as good as they were, as long as what it marks
\* as executed has been added.
LEMMA FilesKept ==
  ASSUME Inv, Grown(chain, chain'), Sound(chain'), killed \subseteq killed',
         UNCHANGED <<shutFiles, addFiles, moveFiles, basis>>,
         \A n \in DOMAIN addFiles : \A g \in Range(addFiles[n]) :
           <<"add", n>> \in executed' /\ <<"add", n>> \notin executed => g \in Ever(chain'.pools[2])
  PROVE  FilesOK' /\ NoGaugeForgotten' /\ MovesOK'
<1>1. \A b \in {1, 2} : Kept(chain.pools[b], chain'.pools[b])
  BY DEF Grown
<1>2. PidsOf(1) \subseteq PidsOf(1)' /\ PidsOf(2) \subseteq PidsOf(2)'
  BY <1>1 DEF PidsOf, Kept
<1>3. FilesOK'
  <2>1. ASSUME NEW n \in 1..3, shutFiles # <<>> PROVE shutFiles[n] \in Seq(PidsOf(1)')
    <3>1. shutFiles[n] \in Seq(PidsOf(1))
      BY <2>1 DEF Inv, FilesOK
    <3> QED BY <3>1, <1>2, SeqMonotonic
  <2> QED BY <2>1, <1>2 DEF Inv, FilesOK
<1>4. NoGaugeForgotten'
  <2>1. ASSUME NEW pid \in basis
        PROVE  LET g == chain'.pools[1][pid].gauge
               IN  \/ g \in killed' \cup Ever(chain'.pools[2])
                   \/ \E n \in DOMAIN addFiles : <<"add", n>> \notin executed' /\ g \in Range(addFiles[n])
    <3> DEFINE g == chain.pools[1][pid].gauge
    <3>1. pid \in DOMAIN chain.pools[1]
      BY DEF Inv, FilesOK, PidsOf
    <3>2. chain'.pools[1][pid].gauge = g
      BY <3>1, <1>1 DEF Kept
    <3> HIDE DEF g
    <3>3. \/ g \in killed \cup Ever(chain.pools[2])
          \/ \E n \in DOMAIN addFiles : <<"add", n>> \notin executed /\ g \in Range(addFiles[n])
      BY DEF Inv, NoGaugeForgotten, GaugesV2, Ever, g
    <3>4. Ever(chain.pools[2]) \subseteq Ever(chain'.pools[2])
      BY <1>1 DEF Ever, Kept
    <3>5. CASE g \in killed \cup Ever(chain.pools[2])
      BY <3>5, <3>4, <3>2
    <3>6. CASE \E n \in DOMAIN addFiles : <<"add", n>> \notin executed /\ g \in Range(addFiles[n])
      BY <3>6, <3>2
    <3> QED BY <3>3, <3>5, <3>6
  <2> QED BY <2>1 DEF NoGaugeForgotten, GaugesV2, Ever
<1>5. MovesOK'
  <2>1. ASSUME NEW n \in DOMAIN moveFiles
        PROVE  moveFiles[n].pids \in Seq(PidsOf(2)') /\ moveFiles[n].gauges = GaugesOf(moveFiles[n].pids)'
    <3>1. moveFiles[n].pids \in Seq(PidsOf(2)) /\ moveFiles[n].gauges = GaugesOf(moveFiles[n].pids)
      BY DEF Inv, MovesOK
    <3>2. moveFiles[n].pids \in Seq(PidsOf(2)')
      BY <3>1, <1>2, SeqMonotonic
    <3>3. \A j \in DOMAIN moveFiles[n].pids : moveFiles[n].pids[j] \in DOMAIN chain.pools[2]
      BY <3>1, LenProperties, ElementOfSeq DEF PidsOf
    <3>4. \A j \in DOMAIN moveFiles[n].pids :
            chain'.pools[2][moveFiles[n].pids[j]].gauge = chain.pools[2][moveFiles[n].pids[j]].gauge
      BY <3>3, <1>1 DEF Kept
    <3>5. GaugesOf(moveFiles[n].pids)' = GaugesOf(moveFiles[n].pids)
      BY <3>4 DEF GaugesOf
    <3> QED BY <3>1, <3>2, <3>5
  <2> QED BY <2>1 DEF MovesOK
<1> QED BY <1>3, <1>4, <1>5

\* Writing the files that close the pools changes only them.
LEMMA GenerateShutdownInv == Inv /\ GenerateShutdown => Inv'
<1> SUFFICES ASSUME Inv, GenerateShutdown PROVE Inv'
  OBVIOUS
<1> DEFINE chunks == PoolsChunks(chain.pools[1])
           pids == Ascending(OpenPids(chain.pools[1]))
<1>1. /\ Len(chunks) >= 3 /\ shutFiles' = <<chunks[3], chunks[2], chunks[1]>>
      /\ executed' = executed \ ({<<"system", 4>>} \cup ({"shut"} \X (1..3)))
      /\ UNCHANGED <<chain, killed, addFiles, moveFiles, basis>>
  BY DEF GenerateShutdown
<1>2. Len(chain.pools[1]) \in Nat /\ DOMAIN chain.pools[1] = 1..Len(chain.pools[1])
  BY ContractsType DEF Inv, Sound
<1>3. pids \in Seq(PidsOf(1))
  <2>1. OpenPids(chain.pools[1]) \in SUBSET (1..Len(chain.pools[1]))
    BY <1>2 DEF OpenPids
  <2>2. OpenPids(chain.pools[1]) \in SUBSET Int /\ IsFiniteSet(OpenPids(chain.pools[1]))
    <3>1. IsFiniteSet(1..Len(chain.pools[1]))
      <4>1. 1 \in Int /\ Len(chain.pools[1]) \in Int
        BY <1>2
      <4> QED BY ONLY <4>1, FS_Interval
    <3>2. IsFiniteSet(OpenPids(chain.pools[1]))
      BY <2>1, <3>1, FS_Subset
    <3>3. 1..Len(chain.pools[1]) \subseteq Int
      BY <1>2
    <3> QED BY <2>1, <3>2, <3>3
  <2>3. pids \in Seq(OpenPids(chain.pools[1]))
    BY <2>2, AscendingRange
  <2>4. OpenPids(chain.pools[1]) \subseteq PidsOf(1)
    BY DEF OpenPids, PidsOf
  <2> HIDE DEF pids
  <2> QED BY <2>3, <2>4, SeqMonotonic
<1>4. chunks \in Seq(Seq(PidsOf(1)))
  <2>1. Len(pids) \in Nat
    BY <1>3, LenProperties
  <2>2. (Len(pids) + 2) \div 3 \in Nat
    BY <2>1
  <2>3. chunks = Chunk(pids, (Len(pids) + 2) \div 3)
    BY DEF PoolsChunks
  <2> HIDE DEF pids, chunks
  <2> QED BY <1>3, <2>2, <2>3, ChunkType
<1> HIDE DEF chunks, pids
<1>5. chunks[1] \in Seq(PidsOf(1)) /\ chunks[2] \in Seq(PidsOf(1)) /\ chunks[3] \in Seq(PidsOf(1))
  <2>1. Len(chunks) \in Nat
    BY <1>4, LenProperties
  <2>2. 1 \in 1..Len(chunks) /\ 2 \in 1..Len(chunks) /\ 3 \in 1..Len(chunks)
    BY <1>1, <2>1
  <2> QED BY <1>4, <2>2, ElementOfSeq
<1>6. \A n \in 1..3 : shutFiles'[n] \in Seq(PidsOf(1))
  <2>1. shutFiles'[1] = chunks[3] /\ shutFiles'[2] = chunks[2] /\ shutFiles'[3] = chunks[1]
    BY <1>1
  <2>2. \A n \in 1..3 : n = 1 \/ n = 2 \/ n = 3
    OBVIOUS
  <2> QED BY <1>5, <2>1, <2>2
<1>7. PidsOf(1)' = PidsOf(1) /\ PidsOf(2)' = PidsOf(2) /\ GaugesV2' = GaugesV2
  BY <1>1 DEF PidsOf, GaugesV2
<1>8. FilesOK'
  BY <1>1, <1>6, <1>7 DEF Inv, FilesOK
<1>9. NoGaugeForgotten'
  BY <1>1, <1>7 DEF Inv, NoGaugeForgotten
<1>10. MovesOK'
  BY <1>1, <1>7 DEF Inv, MovesOK, GaugesOf
<1> QED BY <1>1, <1>8, <1>9, <1>10 DEF Inv, Switched

\* The gauges of a list of pids that are to be added: all that are alive and new.
LEMMA GaugesToAddCover ==
  ASSUME Inv, NEW pids \in Seq(PidsOf(1))
  PROVE  /\ GaugesToAdd(pids) \in Seq(GaugeSet)
         /\ \A pid \in Range(pids) : chain.pools[1][pid].gauge \in killed \cup GaugesV2 \cup Range(GaugesToAdd(pids))
<1> DEFINE GaugeOf(i) == chain.pools[1][pids[i]].gauge
           S == {i \in DOMAIN pids : GaugeOf(i) \notin killed \cup GaugesV2}
           kept == Ascending(S)
<1>1. Len(pids) \in Nat /\ DOMAIN pids = 1..Len(pids) /\ \A i \in DOMAIN pids : pids[i] \in PidsOf(1)
  BY LenProperties, ElementOfSeq
<1>2. \A i \in DOMAIN pids : GaugeOf(i) \in GaugeSet
  <2>1. \A i \in DOMAIN chain.pools[1] : chain.pools[1][i] \in PoolSet
    BY ContractsType DEF Inv, Sound
  <2> QED BY <2>1, <1>1 DEF PidsOf, PoolSet
<1>3. S \in SUBSET Int /\ IsFiniteSet(S) /\ S \subseteq DOMAIN pids
  <2>1. S \in SUBSET (1..Len(pids))
    BY <1>1
  <2>2. IsFiniteSet(1..Len(pids)) /\ 1..Len(pids) \subseteq Int
    BY <1>1, FS_Interval
  <2> HIDE DEF S
  <2>3. IsFiniteSet(S)
    BY <2>1, <2>2, FS_Subset
  <2> QED BY <2>1, <2>2, <2>3, <1>1
<1>4. kept \in Seq(S) /\ Range(kept) = S
  <2> HIDE DEF S
  <2> QED BY <1>3, AscendingRange
<1>5. GaugesToAdd(pids) = [k \in DOMAIN kept |-> GaugeOf(kept[k])]
  BY DEF GaugesToAdd
<1> HIDE DEF kept
<1>6. Len(kept) \in Nat /\ DOMAIN kept = 1..Len(kept) /\ \A k \in DOMAIN kept : kept[k] \in S
  <2> HIDE DEF S
  <2> QED BY <1>4, LenProperties, ElementOfSeq
<1>7. \A k \in DOMAIN kept : GaugeOf(kept[k]) \in GaugeSet
  BY <1>2, <1>6
<1>8. GaugesToAdd(pids) \in Seq(GaugeSet)
  <2> HIDE DEF GaugeOf, S
  <2>1. GaugesToAdd(pids) \in [1..Len(kept) -> GaugeSet]
    BY <1>5, <1>6, <1>7
  <2> QED BY <2>1, <1>6, SeqDef
<1>9. ASSUME NEW pid \in Range(pids), chain.pools[1][pid].gauge \notin killed \cup GaugesV2
      PROVE  chain.pools[1][pid].gauge \in Range(GaugesToAdd(pids))
  <2>1. PICK i \in DOMAIN pids : pid = pids[i]
    BY DEF Range
  <2>2. i \in S
    BY <2>1, <1>9
  <2>3. PICK k \in DOMAIN kept : kept[k] = i
    <3> HIDE DEF S
    <3> QED BY <2>2, <1>4 DEF Range
  <2>4. GaugesToAdd(pids)[k] = chain.pools[1][pid].gauge /\ k \in DOMAIN GaugesToAdd(pids)
    BY <1>5, <2>1, <2>3
  <2> QED BY <2>4 DEF Range
<1> QED BY <1>8, <1>9

\* Writing the files that add pools puts every gauge that is alive and new into one that is
\* not executed, whatever is left of the files written before.
LEMMA GenerateAddsInv == Inv /\ GenerateAdds => Inv'
<1> SUFFICES ASSUME Inv, GenerateAdds PROVE Inv'
  OBVIOUS
<1> DEFINE pids == shutFiles[1] \o shutFiles[2] \o shutFiles[3]
           new == Chunk(GaugesToAdd(pids), 3)
           rest == SubSeq(addFiles, Len(new) + 1, Len(addFiles))
<1>1. /\ shutFiles # <<>> /\ addFiles' = Overwrite(addFiles, new)
      /\ executed' = executed \ ({"add"} \X DOMAIN new) /\ basis' = Range(pids)
      /\ UNCHANGED <<chain, killed, shutFiles, moveFiles>>
  BY DEF GenerateAdds
<1>2. pids \in Seq(PidsOf(1))
  <2>1. shutFiles[1] \in Seq(PidsOf(1)) /\ shutFiles[2] \in Seq(PidsOf(1)) /\ shutFiles[3] \in Seq(PidsOf(1))
    BY <1>1 DEF Inv, FilesOK
  <2>2. shutFiles[1] \o shutFiles[2] \in Seq(PidsOf(1))
    BY <2>1, ConcatProperties
  <2> QED BY <2>1, <2>2, ConcatProperties
<1> HIDE DEF pids
<1>3. /\ GaugesToAdd(pids) \in Seq(GaugeSet)
      /\ \A pid \in Range(pids) : chain.pools[1][pid].gauge \in killed \cup GaugesV2 \cup Range(GaugesToAdd(pids))
  BY <1>2, GaugesToAddCover
<1>4. new \in Seq(Seq(GaugeSet))
  BY <1>3, ChunkType
<1>5. \A g \in Range(GaugesToAdd(pids)) : \E n \in DOMAIN new : g \in Range(new[n])
  BY <1>3, ChunkCovers
<1> HIDE DEF new
<1>6. addFiles \in Seq(Seq(GaugeSet)) /\ Len(addFiles) \in Nat /\ Len(new) \in Nat /\ DOMAIN new = 1..Len(new)
  BY <1>4, LenProperties DEF Inv, FilesOK
<1>7. rest \in Seq(Seq(GaugeSet)) /\ Len(rest) \in Nat
  <2>1. \A i \in (Len(new) + 1)..Len(addFiles) : addFiles[i] \in Seq(GaugeSet)
    <3>1. \A i \in (Len(new) + 1)..Len(addFiles) : i \in 1..Len(addFiles)
      BY <1>6
    <3> QED BY <3>1, <1>6, ElementOfSeq
  <2>2. Len(new) + 1 \in Int /\ Len(addFiles) \in Int
    BY <1>6
  <2>3. rest \in Seq(Seq(GaugeSet))
    BY <2>1, <2>2, SubSeqProperties
  <2> QED BY <2>3, LenProperties
<1>8. addFiles' = new \o rest
  BY <1>1 DEF Overwrite
<1> HIDE DEF rest
<1>9. addFiles' \in Seq(Seq(GaugeSet)) /\ \A n \in DOMAIN new : n \in DOMAIN addFiles' /\ addFiles'[n] = new[n]
  <2>1. /\ new \o rest \in Seq(Seq(GaugeSet)) /\ Len(new \o rest) = Len(new) + Len(rest)
        /\ \A i \in 1..(Len(new) + Len(rest)) : (new \o rest)[i] = IF i <= Len(new) THEN new[i] ELSE rest[i - Len(new)]
    BY <1>4, <1>7, ConcatProperties
  <2>2. DOMAIN addFiles' = 1..(Len(new) + Len(rest))
    BY <2>1, <1>8, LenProperties
  <2>3. \A n \in DOMAIN new : n \in 1..(Len(new) + Len(rest)) /\ n <= Len(new)
    BY <1>6, <1>7
  <2> QED BY <2>1, <2>2, <2>3, <1>8
<1>10. Range(pids) \subseteq PidsOf(1)
  <2>1. \A i \in DOMAIN pids : pids[i] \in PidsOf(1)
    BY <1>2, LenProperties, ElementOfSeq
  <2> QED BY <2>1 DEF Range
<1>11. PidsOf(1)' = PidsOf(1) /\ PidsOf(2)' = PidsOf(2) /\ GaugesV2' = GaugesV2
  BY <1>1 DEF PidsOf, GaugesV2
<1>12. FilesOK'
  BY <1>1, <1>9, <1>10, <1>11 DEF Inv, FilesOK
<1>13. NoGaugeForgotten'
  <2>1. ASSUME NEW pid \in Range(pids), chain.pools[1][pid].gauge \notin killed \cup GaugesV2
        PROVE  \E n \in DOMAIN addFiles' : <<"add", n>> \notin executed' /\ chain.pools[1][pid].gauge \in Range(addFiles'[n])
    <3>1. PICK n \in DOMAIN new : chain.pools[1][pid].gauge \in Range(new[n])
      BY <2>1, <1>3, <1>5
    <3>2. <<"add", n>> \notin executed'
      BY <1>1, <3>1
    <3> QED BY <3>1, <3>2, <1>9
  <2> QED BY <2>1, <1>1, <1>11 DEF NoGaugeForgotten
<1>14. MovesOK'
  BY <1>1, <1>11 DEF Inv, MovesOK, GaugesOf
<1> QED BY <1>1, <1>12, <1>13, <1>14 DEF Inv, Switched

\* Writing the files that move pools records the pools' gauges.
LEMMA GenerateMovesInv == Inv /\ GenerateMoves => Inv'
<1> SUFFICES ASSUME Inv, GenerateMoves PROVE Inv'
  OBVIOUS
<1> DEFINE chunks == Chunk(Migrated, 3)
<1>1. /\ Range(Migrated) \subseteq OpenPids(chain.pools[2])
      /\ moveFiles' = [i \in DOMAIN chunks |-> [pids |-> chunks[i], gauges |-> GaugesOf(chunks[i])]]
      /\ executed' = executed \ ({"move"} \X DOMAIN moveFiles')
      /\ UNCHANGED <<chain, killed, shutFiles, addFiles, basis>>
  BY DEF GenerateMoves
<1>2. Migrated \in Seq(PidsOf(2))
  <2>1. Migrated \in Seq(Nat \ {0})
    BY MigrationAssumption
  <2>2. Len(Migrated) \in Nat /\ DOMAIN Migrated = 1..Len(Migrated)
    BY <2>1, LenProperties
  <2>3. \A i \in 1..Len(Migrated) : Migrated[i] \in PidsOf(2)
    BY <1>1, <2>2 DEF Range, OpenPids, PidsOf
  <2>4. Migrated \in [1..Len(Migrated) -> PidsOf(2)]
    BY <2>1, <2>3, LenProperties
  <2> QED BY <2>2, <2>4, SeqDef
<1>3. chunks \in Seq(Seq(PidsOf(2)))
  BY <1>2, ChunkType
<1> HIDE DEF chunks
<1>4. \A i \in DOMAIN chunks : chunks[i] \in Seq(PidsOf(2))
  BY <1>3, LenProperties, ElementOfSeq
<1>5. PidsOf(1)' = PidsOf(1) /\ PidsOf(2)' = PidsOf(2) /\ GaugesV2' = GaugesV2 /\ \A pids : GaugesOf(pids)' = GaugesOf(pids)
  BY <1>1 DEF PidsOf, GaugesV2, GaugesOf
<1>6. \A n \in DOMAIN moveFiles' : moveFiles'[n].pids \in Seq(PidsOf(2)) /\ moveFiles'[n].gauges = GaugesOf(moveFiles'[n].pids)
  BY <1>1, <1>4
<1>7. MovesOK'
  BY <1>5, <1>6 DEF MovesOK
<1>8. FilesOK'
  BY <1>1, <1>5 DEF Inv, FilesOK
<1>9. NoGaugeForgotten'
  <2>1. \A n : <<"add", n>> \notin executed => <<"add", n>> \notin executed'
    BY <1>1
  <2> QED BY <1>1, <1>5, <2>1 DEF Inv, NoGaugeForgotten
<1> QED BY <1>1, <1>7, <1>8, <1>9 DEF Inv, Switched

\* Executing a file that only closes or adds pools.
LEMMA ExecutePoolsInv ==
  ASSUME Inv, NEW name, NEW calls, Execute(name, calls),
         Len(calls) \in Nat, \A k \in 1..Len(calls) : PoolCall(calls[k]),
         \A n \in DOMAIN addFiles : \A g \in Range(addFiles[n]) : name = <<"add", n>> => g \in Ever(chain'.pools[2])
  PROVE  Inv'
<1>1. /\ After(chain, calls) # Reverted /\ chain' = After(chain, calls) /\ executed' = executed \cup {name}
      /\ UNCHANGED <<killed, shutFiles, addFiles, moveFiles, basis>>
  BY DEF Execute, Succeeds, files
<1>2. Sound(chain)
  BY DEF Inv
<1>3. Sound(chain') /\ SameStatus(chain, chain') /\ Grown(chain, chain')
  BY <1>1, <1>2, PoolFile
<1>4. \A n \in DOMAIN addFiles : \A g \in Range(addFiles[n]) :
        <<"add", n>> \in executed' /\ <<"add", n>> \notin executed => g \in Ever(chain'.pools[2])
  BY <1>1
<1>5. FilesOK' /\ NoGaugeForgotten' /\ MovesOK'
  BY <1>1, <1>3, <1>4, FilesKept
<1>6. Switched'
  BY <1>3 DEF Inv, Switched, SameStatus
<1> QED BY <1>3, <1>5, <1>6 DEF Inv

\* A file that closes pools of the first booster.
LEMMA ExecuteShutInv == ASSUME Inv, NEW n \in 1..3, ExecuteShut(n) PROVE Inv'
<1> DEFINE pids == shutFiles[n]
<1>1. shutFiles # <<>> /\ Execute(<<"shut", n>>, ShutdownPools(pids))
  BY DEF ExecuteShut
<1>2. pids \in Seq(PidsOf(1))
  BY <1>1 DEF Inv, FilesOK
<1>3. PidsOf(1) \subseteq Nat
  <2>1. Len(chain.pools[1]) \in Nat /\ DOMAIN chain.pools[1] = 1..Len(chain.pools[1])
    BY ContractsType DEF Inv, Sound
  <2> QED BY <2>1 DEF PidsOf
<1> HIDE DEF pids
<1>4. Len(pids) \in Nat /\ \A k \in 1..Len(pids) : pids[k] \in Nat
  BY <1>2, <1>3, LenProperties, ElementOfSeq
<1>5. /\ Len(ShutdownPools(pids)) = Len(pids)
      /\ \A k \in 1..Len(pids) : ShutdownPools(pids)[k] = ShutdownPool(ShutdownTo, pids[k])
  BY <1>4 DEF ShutdownPools
<1>6. \A k \in 1..Len(pids) : PoolCall(ShutdownPools(pids)[k])
  BY <1>4, <1>5, MigrationAssumption DEF PoolCall
<1>7. \A m : <<"shut", n>> # <<"add", m>>
  OBVIOUS
<1> QED BY <1>1, <1>4, <1>5, <1>6, <1>7, ExecutePoolsInv

\* A file that adds pools to the second one.
LEMMA ExecuteAddInv == ASSUME Inv, NEW n \in DOMAIN addFiles, ExecuteAdd(n) PROVE Inv'
<1> DEFINE gauges == addFiles[n]
<1>1. Execute(<<"add", n>>, AddPools(gauges))
  BY DEF ExecuteAdd
<1>2. gauges \in Seq(GaugeSet)
  BY LenProperties, ElementOfSeq DEF Inv, FilesOK
<1>3. Len(gauges) \in Nat /\ \A k \in 1..Len(gauges) : gauges[k] \in GaugeSet
  BY <1>2, LenProperties, ElementOfSeq
<1>4. Len(AddPools(gauges)) = Len(gauges) /\ \A k \in 1..Len(gauges) : AddPools(gauges)[k] = AddPool(2, gauges[k])
  BY <1>3 DEF AddPools
<1>5. \A k \in 1..Len(gauges) : PoolCall(AddPools(gauges)[k])
  BY <1>3, <1>4 DEF PoolCall
<1>6. ASSUME NEW g \in Range(gauges) PROVE g \in Ever(chain'.pools[2])
  <2>1. After(chain, AddPools(gauges)) # Reverted /\ chain' = After(chain, AddPools(gauges))
    BY <1>1 DEF Execute, Succeeds
  <2>2. Sound(chain)
    BY DEF Inv
  <2> HIDE DEF gauges
  <2> QED BY <1>2, <2>1, <2>2, AddFile
<1>7. \A m \in DOMAIN addFiles : \A g \in Range(addFiles[m]) : <<"add", n>> = <<"add", m>> => g \in Ever(chain'.pools[2])
  BY <1>6
<1> HIDE DEF gauges
<1> QED BY <1>1, <1>3, <1>4, <1>5, <1>7, ExecutePoolsInv

\* What a recorded file of moves holds.
LEMMA MoveFileType ==
  ASSUME Inv, NEW n \in DOMAIN moveFiles
  PROVE  LET file == moveFiles[n]
         IN  /\ file.pids \in Seq(DOMAIN chain.pools[2]) /\ file.gauges \in Seq(GaugeSet)
             /\ Len(file.pids) \in Nat /\ Len(file.gauges) = Len(file.pids)
             /\ \A j \in 1..Len(file.pids) : file.gauges[j] = chain.pools[2][file.pids[j]].gauge
<1> DEFINE pids == moveFiles[n].pids
           gauges == moveFiles[n].gauges
<1>1. pids \in Seq(DOMAIN chain.pools[2]) /\ gauges = GaugesOf(pids)
  BY DEF Inv, MovesOK, PidsOf
<1> HIDE DEF pids, gauges
<1>2. Len(pids) \in Nat /\ DOMAIN pids = 1..Len(pids) /\ \A j \in 1..Len(pids) : pids[j] \in DOMAIN chain.pools[2]
  BY <1>1, LenProperties, ElementOfSeq
<1>3. \A i \in DOMAIN chain.pools[2] : chain.pools[2][i].gauge \in GaugeSet
  BY ContractsType DEF Inv, Sound, PoolSet
<1>4. gauges = [j \in 1..Len(pids) |-> chain.pools[2][pids[j]].gauge]
  BY <1>1, <1>2 DEF GaugesOf
<1>5. gauges \in [1..Len(pids) -> GaugeSet]
  BY <1>2, <1>3, <1>4
<1>6. gauges \in Seq(GaugeSet)
  BY <1>5, <1>2, SeqDef
<1>7. Len(gauges) = Len(pids)
  BY <1>2, <1>4
<1> QED BY <1>1, <1>2, <1>4, <1>6, <1>7 DEF pids, gauges

\* A file that moves pools of the second booster.
LEMMA ExecuteMoveInv == ASSUME Inv, NEW n \in DOMAIN moveFiles, ExecuteMove(n) PROVE Inv'
<1> DEFINE file == moveFiles[n]
           m == Len(file.pids)
<1>1. Execute(<<"move", n>>, MoveFile(file))
  BY DEF ExecuteMove
<1>2. /\ file.pids \in Seq(DOMAIN chain.pools[2]) /\ file.gauges \in Seq(GaugeSet)
      /\ m \in Nat /\ Len(file.gauges) = m
  BY MoveFileType
<1>3. DOMAIN chain.pools[2] \subseteq Nat
  <2>1. Len(chain.pools[2]) \in Nat /\ DOMAIN chain.pools[2] = 1..Len(chain.pools[2])
    BY ContractsType DEF Inv, Sound
  <2> QED BY <2>1
<1> HIDE DEF file
<1>4. \A k \in 1..m : file.pids[k] \in Nat /\ file.gauges[k] \in GaugeSet
  BY <1>2, <1>3, ElementOfSeq
<1>5. /\ Len(MoveFile(file)) = m + m
      /\ \A k \in 1..m : MoveFile(file)[k] = ShutdownPool(2, file.pids[k])
      /\ \A j \in 1..m : MoveFile(file)[m + j] = AddPool(2, file.gauges[j])
  BY <1>2, MoveCalls
<1> HIDE DEF m
<1>6. ASSUME NEW k \in 1..Len(MoveFile(file)) PROVE PoolCall(MoveFile(file)[k])
  <2>1. CASE k \in 1..m
    BY <2>1, <1>4, <1>5 DEF PoolCall
  <2>2. CASE k \notin 1..m
    <3>1. k - m \in 1..m /\ m + (k - m) = k
      BY <2>2, <1>2, <1>5
    <3>2. MoveFile(file)[k] = AddPool(2, file.gauges[k - m]) /\ file.gauges[k - m] \in GaugeSet
      BY <3>1, <1>4, <1>5
    <3> QED BY <3>2 DEF PoolCall
  <2> QED BY <2>1, <2>2
<1>7. Len(MoveFile(file)) \in Nat
  BY <1>2, <1>5
<1>8. \A i : <<"move", n>> # <<"add", i>>
  OBVIOUS
<1> QED BY <1>1, <1>6, <1>7, <1>8, ExecutePoolsInv

\* The file that switches the system.
LEMMA ExecuteSystemInv == Inv /\ ExecuteSystem => Inv'
<1> SUFFICES ASSUME Inv, ExecuteSystem PROVE Inv'
  OBVIOUS
<1>1. /\ After(chain, SystemFile) # Reverted /\ chain' = After(chain, SystemFile)
      /\ executed' = executed \cup {<<"system", 4>>}
      /\ UNCHANGED <<killed, shutFiles, addFiles, moveFiles, basis>>
  BY DEF ExecuteSystem, Execute, Succeeds, files
<1>2. Sound(chain') /\ Grown(chain, chain') /\ chain'.boosterShut /\ chain'.operator = 2 /\ chain'.liqOperator = 2
  BY <1>1, SystemFileEffect DEF Inv
<1>3. \A n : <<"add", n>> \in executed' => <<"add", n>> \in executed
  BY <1>1
<1>4. FilesOK' /\ NoGaugeForgotten' /\ MovesOK'
  BY <1>1, <1>2, <1>3, FilesKept
<1>5. Switched'
  BY <1>2 DEF Switched
<1> QED BY <1>2, <1>4, <1>5 DEF Inv

\* A single call, made by the DAO or by the public.
LEMMA OneCallInv ==
  ASSUME Inv, NEW call, PoolCall(call), Allowed(chain, call), chain' = Effect(chain, call),
         UNCHANGED <<killed, executed, files>>
  PROVE  Inv'
<1>1. Sound(chain') /\ SameStatus(chain, chain') /\ Grown(chain, chain')
  BY PoolCallEffect DEF Inv
<1>2. FilesOK' /\ NoGaugeForgotten' /\ MovesOK'
  BY <1>1, FilesKept DEF files
<1>3. Switched'
  BY <1>1 DEF Inv, Switched, SameStatus
<1> QED BY <1>1, <1>2, <1>3 DEF Inv

LEMMA CloseByHandInv == ASSUME Inv, NEW pid \in DOMAIN chain.pools[1], CloseByHand(pid) PROVE Inv'
<1>1. pid \in Nat
  <2>1. Len(chain.pools[1]) \in Nat /\ DOMAIN chain.pools[1] = 1..Len(chain.pools[1])
    BY ContractsType DEF Inv, Sound
  <2> QED BY <2>1
<1>2. PoolCall(ShutdownPool(1, pid))
  BY <1>1 DEF PoolCall
<1> QED BY <1>2, OneCallInv DEF CloseByHand

LEMMA AddForeignPoolInv == ASSUME Inv, NEW g \in Foreign, AddForeignPool(g) PROVE Inv'
<1>1. PoolCall(AddPool(1, g))
  BY DEF PoolCall, GaugeSet
<1> QED BY <1>1, OneCallInv DEF AddForeignPool

LEMMA KillInv == ASSUME Inv, NEW g \in Mortal, Kill(g) PROVE Inv'
<1>1. /\ killed' = killed \cup {g}
      /\ UNCHANGED <<chain, executed, shutFiles, addFiles, moveFiles, basis>>
  BY DEF Kill, files
<1>2. Sound(chain') /\ Grown(chain, chain')
  BY <1>1 DEF Inv, Grown, Kept
<1>3. FilesOK' /\ NoGaugeForgotten' /\ MovesOK'
  BY <1>1, <1>2, FilesKept
<1> QED BY <1>1, <1>2, <1>3 DEF Inv, Switched

\* The invariant: whatever files the tasks write and whoever acts in between, the contracts
\* are sound, the switch is made as a whole, and the files on disk are about pools there are
\* and leave no gauge out.
THEOREM Invariance == Spec => []Inv
<1>1. Init => Inv
  BY InitInv
<1>2. Inv /\ [Next]_vars => Inv'
  <2> SUFFICES ASSUME Inv, [Next]_vars PROVE Inv'
    OBVIOUS
  <2>1. CASE GenerateShutdown
    BY <2>1, GenerateShutdownInv
  <2>2. CASE GenerateAdds
    BY <2>2, GenerateAddsInv
  <2>3. CASE GenerateMoves
    BY <2>3, GenerateMovesInv
  <2>4. CASE ExecuteSystem
    BY <2>4, ExecuteSystemInv
  <2>5. CASE \E n \in 1..3 : ExecuteShut(n)
    BY <2>5, ExecuteShutInv
  <2>6. CASE \E n \in DOMAIN addFiles : ExecuteAdd(n)
    BY <2>6, ExecuteAddInv
  <2>7. CASE \E n \in DOMAIN moveFiles : ExecuteMove(n)
    BY <2>7, ExecuteMoveInv
  <2>8. CASE \E pid \in DOMAIN chain.pools[1] : CloseByHand(pid)
    BY <2>8, CloseByHandInv
  <2>9. CASE \E g \in Foreign : AddForeignPool(g)
    BY <2>9, AddForeignPoolInv
  <2>10. CASE \E g \in Mortal : Kill(g)
    BY <2>10, KillInv
  <2>11. CASE UNCHANGED vars \/ \E g \in Fickle : Revote(g)
    <3>1. UNCHANGED <<chain, killed, executed, shutFiles, addFiles, moveFiles, basis>>
      BY <2>11 DEF vars, Revote, files
    <3>2. Sound(chain') /\ Grown(chain, chain')
      BY <3>1 DEF Inv, Grown, Kept
    <3>3. FilesOK' /\ NoGaugeForgotten' /\ MovesOK'
      BY <3>1, <3>2, FilesKept
    <3> QED BY <3>1, <3>2, <3>3 DEF Inv, Switched
  <2> QED BY <2>1, <2>2, <2>3, <2>4, <2>5, <2>6, <2>7, <2>8, <2>9, <2>10, <2>11 DEF Next
<1> QED BY <1>1, <1>2, PTL DEF Spec

\* A booster has at most one open pool of a gauge.
LEMMA HomesBound ==
  ASSUME Inv, NEW b \in {1, 2}, NEW g
  PROVE  /\ Cardinality(Homes(b, g)) \in {0, 1}
         /\ OpenPids(chain.pools[b]) = {} => Cardinality(Homes(b, g)) = 0
<1>1. \A pid \in Homes(b, g) : pid \in OpenPids(chain.pools[b]) /\ chain.pools[b][pid].gauge = g
  BY DEF Homes, OpenPids, Pool
<1>2. \A pid, other \in Homes(b, g) : pid = other
  BY <1>1 DEF Inv, Sound, OnePoolEach
<1>3. CASE Homes(b, g) = {}
  BY <1>3, FS_EmptySet
<1>4. CASE Homes(b, g) # {}
  <2>1. PICK pid : Homes(b, g) = {pid}
    BY <1>2, <1>4
  <2>2. Cardinality(Homes(b, g)) = 1
    BY <2>1, FS_Singleton
  <2>3. pid \in OpenPids(chain.pools[b])
    BY <2>1, <1>1
  <2> QED BY <2>2, <2>3
<1> QED BY <1>3, <1>4

\* A gauge never has an open pool in both boosters, or two in one: a booster's gaugeMap keeps
\* the second pool out, and addPool of the one that is not the VoterProxy's operator reverts.
THEOREM OneOpenPool == Spec => []OneHome
<1>1. Inv => OneHome
  <2> SUFFICES ASSUME Inv, NEW g \in Range(Gauges) \cup Foreign
               PROVE  Cardinality(Homes(1, g)) + Cardinality(Homes(2, g)) <= 1
    BY DEF OneHome
  <2>1. OpenPids(chain.pools[1]) = {} \/ OpenPids(chain.pools[2]) = {}
    <3>1. chain.operator \in {1, 2}
      BY ContractsType DEF Inv, Sound
    <3> QED BY <3>1 DEF Inv, Sound
  <2>2. /\ Cardinality(Homes(1, g)) \in {0, 1} /\ (OpenPids(chain.pools[1]) = {} => Cardinality(Homes(1, g)) = 0)
        /\ Cardinality(Homes(2, g)) \in {0, 1} /\ (OpenPids(chain.pools[2]) = {} => Cardinality(Homes(2, g)) = 0)
    BY HomesBound
  <2> QED BY <2>1, <2>2
<1> QED BY <1>1, Invariance, PTL

\* The fourth file moves the VoterProxy and LIQ in the transaction that shuts the first
\* booster down, and that needs all of its pools closed: there is no state in which LIQ and
\* the VoterProxy have different operators, and the first booster has no open pool after it.
THEOREM SwitchesAtOnce == Spec => []SwitchedAtOnce
<1>1. Inv => SwitchedAtOnce
  BY ContractsType DEF Inv, Sound, Switched, SwitchedAtOnce
<1> QED BY <1>1, Invariance, PTL

\* Once all files of pools to add are executed, each gauge of the shutdown files they were
\* written from is in the second booster or was killed: a file is executed with all of its
\* calls or none, and writing the files anew puts what is still to be added into new ones.
THEOREM NothingLeftBehind == Spec => []FilesLeaveNoGauge
<1>1. Inv => FilesLeaveNoGauge
  <2> SUFFICES ASSUME Inv, ({"add"} \X DOMAIN addFiles) \subseteq executed, NEW pid \in basis
               PROVE  chain.pools[1][pid].gauge \in killed \cup GaugesV2
    BY DEF FilesLeaveNoGauge
  <2>1. \A n \in DOMAIN addFiles : <<"add", n>> \in executed
    OBVIOUS
  <2> QED BY <2>1 DEF Inv, NoGaugeForgotten
<1> QED BY <1>1, Invariance, PTL

\* A file of migratepools47 closes the pools it lists and adds one for the gauge of each: if
\* all its calls are accepted the second booster has open pools for the same gauges.
THEOREM MovesLoseNothing == Spec => MovesKeepGauges
<1>1. Inv /\ [Next]_vars =>
        [\A n \in DOMAIN moveFiles : ExecuteMove(n) => OpenGauges(chain'.pools[2]) = OpenGauges(chain.pools[2])]_vars
  <2> SUFFICES ASSUME Inv, NEW n \in DOMAIN moveFiles, ExecuteMove(n)
               PROVE  OpenGauges(chain'.pools[2]) = OpenGauges(chain.pools[2])
    OBVIOUS
  <2>1. After(chain, MoveFile(moveFiles[n])) # Reverted /\ chain' = After(chain, MoveFile(moveFiles[n]))
    BY DEF ExecuteMove, Execute, Succeeds
  <2>2. LET file == moveFiles[n]
        IN  /\ file.pids \in Seq(DOMAIN chain.pools[2]) /\ file.gauges \in Seq(GaugeSet)
            /\ Len(file.pids) \in Nat /\ Len(file.gauges) = Len(file.pids)
            /\ \A j \in 1..Len(file.pids) : file.gauges[j] = chain.pools[2][file.pids[j]].gauge
    BY MoveFileType
  <2>3. Sound(chain)
    BY DEF Inv
  <2> QED BY <2>1, <2>2, <2>3, MoveFileEffect
<1> QED BY <1>1, Invariance, PTL DEF Spec, MovesKeepGauges
================================================================================
