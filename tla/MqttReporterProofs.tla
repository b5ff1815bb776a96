-------------------------- MODULE MqttReporterProofs --------------------------
(***************************************************************************)
(* What the reporter does with its samples, for every size of the table    *)
(* and of a batch and for any number of samples, crashes and failures.     *)
(***************************************************************************)
EXTENDS MqttReporter, SequenceTheorems, FunctionTheorems, FiniteSetTheorems,
        TLAPS

-----------------------------------------------------------------------------
(* Ascending sequences of samples.                                         *)

Ascending(q) == \A i, j \in 1..Len(q) : i < j => q[i] < q[j]

\* The newest sample goes to the end.
LEMMA AppendNewest ==
  ASSUME NEW S \in SUBSET Nat, NEW q \in Seq(S), Ascending(q),
         NEW s \in S, \A r \in Range(q) : r < s
  PROVE  /\ Append(q, s) \in Seq(S) /\ Len(Append(q, s)) = Len(q) + 1
         /\ Ascending(Append(q, s))
         /\ Range(Append(q, s)) = Range(q) \cup {s}
<1> DEFINE a == Append(q, s)
<1>1. /\ a \in Seq(S) /\ Len(a) = Len(q) + 1 /\ a[Len(q) + 1] = s
      /\ \A i \in 1..Len(q) : a[i] = q[i]
  BY AppendProperties
<1>2. Len(q) \in Nat /\ \A i \in 1..Len(q) : q[i] \in Range(q) /\ q[i] \in S
  BY LenProperties, ElementOfSeq DEF Range
<1>3. Ascending(a)
  <2> SUFFICES ASSUME NEW i \in 1..Len(a), NEW j \in 1..Len(a), i < j
               PROVE  a[i] < a[j]
      BY DEF Ascending
  <2>1. CASE j = Len(q) + 1
    BY <1>1, <1>2, <2>1
  <2>2. CASE j \in 1..Len(q)
    BY <1>1, <1>2, <2>2 DEF Ascending
  <2> QED
    BY <1>1, <1>2, <2>1, <2>2
<1>4. Range(a) = {a[i] : i \in 1..Len(a)} /\ Range(q) = {q[i] : i \in 1..Len(q)}
  BY <1>1, RangeEquality
<1>5. Range(a) = Range(q) \cup {s}
  BY <1>1, <1>2, <1>4
<1> QED
  BY <1>1, <1>3, <1>5

\* Whatever is cut off in front is older than what is left.
LEMMA CutFront ==
  ASSUME NEW S \in SUBSET Nat, NEW q \in Seq(S), Ascending(q),
         NEW n \in 0..Len(q)
  PROVE  LET front == SubSeq(q, 1, n)
             rest == SubSeq(q, n + 1, Len(q))
         IN /\ rest \in Seq(S) /\ Len(rest) = Len(q) - n
            /\ Ascending(rest)
            /\ Range(q) = Range(front) \cup Range(rest)
            /\ \A f \in Range(front), r \in Range(rest) : f < r
<1> DEFINE front == SubSeq(q, 1, n)
           rest == SubSeq(q, n + 1, Len(q))
<1>1. Len(q) \in Nat /\ \A i \in 1..Len(q) : q[i] \in S
  BY LenProperties, ElementOfSeq
<1>2. /\ front \in Seq(S) /\ Len(front) = n
      /\ \A i \in 1..n : front[i] = q[i]
  BY <1>1, SubSeqProperties
<1>3. /\ rest \in Seq(S) /\ Len(rest) = Len(q) - n
      /\ \A i \in 1..(Len(q) - n) : rest[i] = q[n + i]
  <2>1. \A i \in (n + 1)..Len(q) : q[i] \in S
    BY <1>1
  <2>2. /\ rest \in Seq(S)
        /\ Len(rest) = IF n + 1 <= Len(q) THEN Len(q) - (n + 1) + 1 ELSE 0
        /\ \A i \in 1..(Len(q) - (n + 1) + 1) : rest[i] = q[(n + 1) + i - 1]
    BY <1>1, <2>1, SubSeqProperties
  <2> QED
    BY <1>1, <2>2
<1>4. Ascending(rest)
  BY <1>1, <1>3 DEF Ascending
<1>5. /\ Range(q) = {q[i] : i \in 1..Len(q)}
      /\ Range(front) = {q[i] : i \in 1..n}
      /\ Range(rest) = {q[n + i] : i \in 1..(Len(q) - n)}
  <2>1. Range(front) = {front[i] : i \in 1..n}
    BY <1>2, RangeEquality
  <2>2. Range(rest) = {rest[i] : i \in 1..(Len(q) - n)}
    BY <1>3, RangeEquality
  <2>3. Range(q) = {q[i] : i \in 1..Len(q)}
    BY RangeEquality
  <2> HIDE DEF front, rest
  <2>4. {front[i] : i \in 1..n} = {q[i] : i \in 1..n}
    BY <1>2
  <2>5. {rest[i] : i \in 1..(Len(q) - n)} = {q[n + i] : i \in 1..(Len(q) - n)}
    BY <1>3
  <2> QED
    BY <2>1, <2>2, <2>3, <2>4, <2>5
<1>6. Range(q) = Range(front) \cup Range(rest)
  <2>1. ASSUME NEW i \in 1..Len(q) PROVE q[i] \in Range(front) \cup Range(rest)
    <3>1. CASE i <= n
      BY <1>1, <1>5, <3>1
    <3>2. CASE i > n
      <4>1. i - n \in 1..(Len(q) - n) /\ i = n + (i - n)
        BY <1>1, <3>2
      <4> QED
        BY <1>5, <4>1
    <3> QED
      BY <1>1, <3>1, <3>2
  <2>2. Range(front) \subseteq Range(q)
    BY <1>1, <1>5
  <2>3. Range(rest) \subseteq Range(q)
    BY <1>1, <1>5
  <2> QED
    BY <1>5, <2>1, <2>2, <2>3
<1>7. \A f \in Range(front), r \in Range(rest) : f < r
  BY <1>1, <1>5 DEF Ascending
<1> QED
  BY <1>3, <1>4, <1>6, <1>7

\* Ids are unique: the table has as many rows as samples.
LEMMA AscendingSize ==
  ASSUME NEW S \in SUBSET Nat, NEW q \in Seq(S), Ascending(q)
  PROVE  IsFiniteSet(Range(q)) /\ Cardinality(Range(q)) = Len(q)
<1>1. Len(q) \in Nat /\ q \in [1..Len(q) -> S] /\ DOMAIN q = 1..Len(q)
  BY LenProperties
<1>2. \A i, j \in 1..Len(q) : q[i] = q[j] => i = j
  <2> SUFFICES ASSUME NEW i \in 1..Len(q), NEW j \in 1..Len(q), i # j
               PROVE  q[i] # q[j]
      OBVIOUS
  <2>1. q[i] \in Nat /\ q[j] \in Nat
    BY <1>1
  <2>2. i < j \/ j < i
    BY <1>1
  <2>3. q[i] < q[j] \/ q[j] < q[i]
    BY <2>2 DEF Ascending
  <2> QED
    BY <2>1, <2>3
<1>3. q \in Bijection(1..Len(q), Range(q))
  <2>1. q \in Injection(1..Len(q), S)
    BY <1>1, <1>2 DEF Injection, IsInjective
  <2> QED
    BY <2>1, Fun_InjMeansBijImage
<1>4. ExistsBijection(1..Len(q), Range(q))
  BY <1>3, Fun_ExistsBij
<1> QED
  BY <1>1, <1>4, FS_CountingElements, FS_NatBijection

\* The DELETE of the oldest row.
LEMMA DeleteOldest ==
  ASSUME NEW S \in SUBSET Nat, NEW q \in Seq(S), Ascending(q), q # <<>>
  PROVE  /\ DeleteRow(q, q[1]) = Tail(q)
         /\ Tail(q) \in Seq(S) /\ Len(Tail(q)) = Len(q) - 1
         /\ Ascending(Tail(q))
         /\ Range(Tail(q)) = Range(q) \ {q[1]}
         /\ q[1] \in Range(q) /\ \A r \in Range(q) : q[1] <= r
<1>1. /\ Len(q) \in Nat \ {0} /\ DOMAIN q = 1..Len(q) /\ 1 \in 1..Len(q)
      /\ \A i \in 1..Len(q) : q[i] \in S /\ q[i] \in Nat
  <2>1. Len(q) \in Nat \ {0} /\ DOMAIN q = 1..Len(q)
    BY LenProperties, EmptySeq
  <2>2. \A i \in 1..Len(q) : q[i] \in S
    BY ElementOfSeq
  <2>3. S \subseteq Nat
    OBVIOUS
  <2>4. \A i \in 1..Len(q) : q[i] \in Nat
    BY <2>2, <2>3
  <2>5. 1 \in 1..Len(q)
    BY <2>1
  <2> QED
    BY <2>1, <2>2, <2>4, <2>5
<1>2. /\ Tail(q) \in Seq(S) /\ Len(Tail(q)) = Len(q) - 1
      /\ Tail(q) = SubSeq(q, 2, Len(q))
      /\ \A i \in 1..Len(Tail(q)) : Tail(q)[i] = q[i + 1]
  BY HeadTailProperties, TailIsSubSeq
<1>3. q[1] \in Range(q)
  BY <1>1 DEF Range
<1>4. \A i \in DOMAIN q : q[i] = q[1] => i = 1
  <2> SUFFICES ASSUME NEW i \in 1..Len(q), i # 1 PROVE q[i] # q[1]
      BY <1>1
  <2>1. q[1] \in Nat /\ q[i] \in Nat /\ 1 \in 1..Len(q) /\ 1 < i
    BY <1>1
  <2>2. q[1] < q[i]
    BY <2>1 DEF Ascending
  <2> QED
    BY <2>1, <2>2
<1>5. DeleteRow(q, q[1]) = Tail(q)
  <2>1. (CHOOSE i \in DOMAIN q : q[i] = q[1]) = 1
    BY <1>1, <1>4
  <2>2. RemoveAt(q, 1) = SubSeq(q, 1, 0) \o SubSeq(q, 2, Len(q))
    BY DEF RemoveAt
  <2>3. SubSeq(q, 1, 0) = <<>>
    BY SubSeqEmpty
  <2>4. RemoveAt(q, 1) = Tail(q)
    BY <1>2, <2>2, <2>3, ConcatEmptySeq
  <2> QED
    BY <1>3, <2>1, <2>4 DEF DeleteRow
<1>6. Ascending(Tail(q))
  BY <1>1, <1>2 DEF Ascending
<1>7. /\ Range(q) = {q[i] : i \in 1..Len(q)}
      /\ Range(Tail(q)) = {q[i + 1] : i \in 1..(Len(q) - 1)}
  <2> DEFINE t == Tail(q)
  <2>1. Range(t) = {t[i] : i \in 1..(Len(q) - 1)}
    BY <1>2, RangeEquality
  <2>2. Range(q) = {q[i] : i \in 1..Len(q)}
    BY RangeEquality
  <2>3. \A i \in 1..(Len(q) - 1) : t[i] = q[i + 1]
    BY <1>2
  <2> HIDE DEF t
  <2>4. {t[i] : i \in 1..(Len(q) - 1)} = {q[i + 1] : i \in 1..(Len(q) - 1)}
    BY <2>3
  <2> QED
    BY <2>1, <2>2, <2>4 DEF t
<1>8. \A i \in 2..Len(q) : q[1] < q[i] /\ i - 1 \in 1..(Len(q) - 1)
                           /\ q[(i - 1) + 1] = q[i]
  BY <1>1 DEF Ascending
<1>9. \A r \in Range(q) : q[1] <= r
  <2> SUFFICES ASSUME NEW i \in 1..Len(q) PROVE q[1] <= q[i]
      BY <1>7
  <2>1. q[1] \in Nat /\ q[i] \in Nat
    BY <1>1
  <2>2. i = 1 \/ i \in 2..Len(q)
    BY <1>1
  <2> QED
    BY <1>8, <2>1, <2>2
<1>10. Range(Tail(q)) = Range(q) \ {q[1]}
  <2>1. ASSUME NEW i \in 1..(Len(q) - 1)
        PROVE  q[i + 1] \in Range(q) /\ q[i + 1] # q[1]
    BY <1>1, <1>4, <1>7
  <2>2. ASSUME NEW i \in 2..Len(q) PROVE q[i] \in Range(Tail(q))
    BY <1>7, <1>8
  <2> QED
    BY <1>1, <1>7, <2>1, <2>2
<1> QED
  BY <1>2, <1>3, <1>5, <1>6, <1>9, <1>10
-----------------------------------------------------------------------------
(* The inductive invariant.                                                *)

\* The rows are in the order in which the samples were taken.
QueueInv == queue \in Seq(1..taken) /\ Ascending(queue)

\* The sample in hand is the newest; it may have been sent, though not so that
\* the thread knows, and before its INSERT it is not stored.
HandInv ==
    /\ mpc \in {"off", "poll", "returned"} => sample = 0
    /\ mpc \in {"publish", "enqueue", "prune"} => sample # 0
    /\ sample # 0 => sample = taken /\ sample \notin confirmed
    /\ sample # 0 /\ mpc # "prune" => sample \notin Queued
    /\ mpc = "prune" => sample \in Queued

\* The copy from which the replay works is still the front of the table.
BatchInv ==
    /\ mpc \notin {"replay", "delete"} => records = <<>>
    /\ mpc = "delete" => records # <<>> /\ Head(records) \in sent
    /\ Len(records) <= Len(queue)
    /\ \A i \in 1..Len(records) : records[i] = queue[i]

CoreInv == TypeOK /\ QueueInv /\ HandInv /\ BatchInv

IInv == CoreInv /\ QueueBounded /\ ResentOncePerFault

\* Steps that leave the samples where they are.
OtherStep == ThreadStart \/ PollStop \/ Quit \/ StopReporter \/ Exit

USE ReporterConstants DEF ReporterConstants, Sample

LEMMA InitImpliesIInv == Init => IInv
<1> SUFFICES ASSUME Init PROVE IInv
    OBVIOUS
<1>1. TypeOK
  <2>1. queue \in Seq(Sample) /\ records \in Seq(Sample) /\ Len(records) = 0
    BY EmptySeq DEF Init
  <2> HIDE DEF Sample
  <2>2. sent \subseteq 1..taken /\ confirmed \subseteq sent /\ pruned \subseteq 1..taken
    BY DEF Init
  <2>3. /\ taken \in 0..MaxSamples /\ crashes \in 0..MaxCrashes
        /\ faults \in 0..MaxFaults /\ Len(records) <= BatchSize
    BY <2>1 DEF Init
  <2>4. /\ mpc \in MqttPC /\ running \in BOOLEAN /\ stopFd \in BOOLEAN
        /\ client \in BOOLEAN /\ storeReady \in BOOLEAN
        /\ connected \in BOOLEAN /\ sample \in {0} \cup Sample
    BY DEF Init, MqttPC
  <2> QED
    BY <2>1, <2>2, <2>3, <2>4 DEF TypeOK
<1>2. QueueInv
  BY EmptySeq DEF Init, QueueInv, Ascending
<1>3. HandInv
  BY DEF Init, HandInv
<1>4. BatchInv
  BY EmptySeq DEF Init, BatchInv
<1>5. QueueBounded
  BY EmptySeq DEF Init, QueueBounded
<1>6. ResentOncePerFault
  BY FS_EmptySet DEF Init, ResentOncePerFault
<1> QED
  BY <1>1, <1>2, <1>3, <1>4, <1>5, <1>6 DEF IInv, CoreInv

\* What the replay publishes, and deletes, is the oldest row.
LEMMA HeadIsOldest ==
  ASSUME CoreInv, records # <<>>
  PROVE  /\ queue # <<>> /\ Head(records) = queue[1]
         /\ Head(records) \in Queued /\ Head(records) \in 1..taken
         /\ \A r \in Queued : Head(records) <= r
<1>1. Len(records) \in Nat \ {0} /\ Head(records) = records[1]
  BY EmptySeq DEF CoreInv, TypeOK
<1>2. records[1] = queue[1] /\ Len(queue) # 0
  BY <1>1, LenProperties DEF CoreInv, TypeOK, BatchInv
<1>3. queue # <<>>
  BY <1>2, EmptySeq
<1>4. taken \in Nat /\ 1..taken \in SUBSET Nat
  BY DEF CoreInv, TypeOK
<1>5. queue[1] \in Queued /\ \A r \in Queued : queue[1] <= r
  BY <1>3, <1>4, DeleteOldest DEF CoreInv, QueueInv, Queued
<1>6. queue[1] \in 1..taken
  <2>1. 1 \in 1..Len(queue) /\ queue \in Seq(1..taken)
    BY <1>2, LenProperties DEF CoreInv, QueueInv
  <2> QED
    BY <2>1, ElementOfSeq
<1> QED
  BY <1>1, <1>2, <1>3, <1>5, <1>6

\* The DELETE that succeeds takes the record from table and batch alike.
LEMMA DeleteEffect ==
  ASSUME CoreInv, mpc = "delete"
  PROVE  LET q == DeleteRow(queue, Head(records))
         IN /\ q \in Seq(1..taken) /\ Ascending(q) /\ Len(q) = Len(queue) - 1
            /\ Range(q) = Queued \ {Head(records)}
            /\ Len(Tail(records)) <= Len(q)
            /\ \A i \in 1..Len(Tail(records)) : Tail(records)[i] = q[i]
<1>1. records # <<>>
  BY DEF CoreInv, BatchInv
<1>2. queue # <<>> /\ Head(records) = queue[1]
  BY <1>1, HeadIsOldest
<1>3. 1..taken \in SUBSET Nat
  BY DEF CoreInv, TypeOK
<1> DEFINE q == DeleteRow(queue, queue[1])
<1>4. /\ q = Tail(queue) /\ q \in Seq(1..taken) /\ Ascending(q)
      /\ Len(q) = Len(queue) - 1
      /\ Range(q) = Queued \ {queue[1]}
  <2>1. /\ DeleteRow(queue, queue[1]) = Tail(queue)
        /\ Tail(queue) \in Seq(1..taken) /\ Ascending(Tail(queue))
        /\ Len(Tail(queue)) = Len(queue) - 1
        /\ Range(Tail(queue)) = Range(queue) \ {queue[1]}
    BY <1>2, <1>3, DeleteOldest DEF CoreInv, QueueInv
  <2> QED
    BY <2>1 DEF Queued
<1>5. /\ Len(Tail(records)) = Len(records) - 1
      /\ \A i \in 1..Len(Tail(records)) : Tail(records)[i] = records[i + 1]
  BY <1>1, HeadTailProperties DEF CoreInv, TypeOK
<1>6. \A i \in 1..Len(Tail(queue)) : Tail(queue)[i] = queue[i + 1]
  BY <1>2, HeadTailProperties DEF CoreInv, QueueInv
<1>7. Len(records) \in Nat \ {0} /\ Len(queue) \in Nat \ {0}
  BY <1>1, <1>2, EmptySeq, LenProperties DEF CoreInv, TypeOK
<1>8. Len(records) <= Len(queue) /\ \A i \in 1..Len(records) : records[i] = queue[i]
  BY DEF CoreInv, BatchInv
<1>9. \A i \in 1..Len(Tail(records)) : Tail(records)[i] = q[i]
  <2> SUFFICES ASSUME NEW i \in 1..Len(Tail(records))
               PROVE  Tail(records)[i] = Tail(queue)[i]
      BY <1>4
  <2>1. i + 1 \in 1..Len(records) /\ i \in 1..(Len(queue) - 1)
    BY <1>5, <1>7, <1>8
  <2> QED
    BY <1>4, <1>5, <1>6, <1>8, <2>1
<1>10. Len(Tail(records)) <= Len(q)
  BY <1>4, <1>5, <1>7, <1>8
<1> HIDE DEF q
<1> QED
  BY <1>2, <1>4, <1>9, <1>10 DEF q

\* The INSERT.
LEMMA EnqueueEffect ==
  ASSUME CoreInv, mpc = "enqueue"
  PROVE  LET q == Append(queue, sample)
         IN /\ q \in Seq(1..taken) /\ Ascending(q) /\ Len(q) = Len(queue) + 1
            /\ Range(q) = Queued \cup {sample}
<1>1. 1..taken \in SUBSET Nat /\ sample \in 1..taken /\ sample = taken
  BY DEF CoreInv, TypeOK, HandInv
<1>2. \A r \in Range(queue) : r < sample
  <2>1. Range(queue) \subseteq 1..taken
    BY RangeOfSeq DEF CoreInv, QueueInv
  <2>2. sample \notin Range(queue)
    BY DEF CoreInv, HandInv, Queued
  <2> QED
    BY <1>1, <2>1, <2>2
<1> QED
  BY <1>1, <1>2, AppendNewest DEF CoreInv, QueueInv, Queued

\* The prune that follows takes the oldest rows, and leaves MaxRows at most.
LEMMA PruneEffect ==
  ASSUME CoreInv
  PROVE  LET front == SubSeq(queue, 1, Excess)
             q == SubSeq(queue, Excess + 1, Len(queue))
         IN /\ Excess \in Nat
            /\ q \in Seq(1..taken) /\ Ascending(q)
            /\ Len(q) = IF Len(queue) > MaxRows THEN MaxRows ELSE Len(queue)
            /\ Queued = Range(front) \cup Range(q)
            /\ \A f \in Range(front), r \in Range(q) : f < r
<1>1. 1..taken \in SUBSET Nat
  BY DEF CoreInv, TypeOK
<1>2. Len(queue) \in Nat
  BY LenProperties DEF CoreInv, TypeOK
<1>3. /\ Excess \in 0..Len(queue)
      /\ Len(queue) - Excess = IF Len(queue) > MaxRows THEN MaxRows ELSE Len(queue)
  BY <1>2 DEF Excess
<1> DEFINE front == SubSeq(queue, 1, Excess)
           q == SubSeq(queue, Excess + 1, Len(queue))
<1>4. /\ q \in Seq(1..taken) /\ Len(q) = Len(queue) - Excess
      /\ Ascending(q)
      /\ Range(queue) = Range(front) \cup Range(q)
      /\ \A f \in Range(front), r \in Range(q) : f < r
  BY <1>1, <1>3, CutFront DEF CoreInv, QueueInv
<1> HIDE DEF front, q
<1>5. Excess \in Nat
  BY <1>2, <1>3
<1> QED
  BY <1>3, <1>4, <1>5 DEF Queued, front, q

\* The SELECT.
LEMMA FetchEffect ==
  ASSUME CoreInv
  PROVE  /\ OldestRows \in Seq(1..taken)
         /\ Len(OldestRows) <= BatchSize /\ Len(OldestRows) <= Len(queue)
         /\ \A i \in 1..Len(OldestRows) : OldestRows[i] = queue[i]
<1> DEFINE n == IF Len(queue) < BatchSize THEN Len(queue) ELSE BatchSize
<1>1. Len(queue) \in Nat /\ \A i \in 1..Len(queue) : queue[i] \in 1..taken
  BY LenProperties, ElementOfSeq DEF CoreInv, QueueInv
<1>2. n \in 0..Len(queue) /\ n <= BatchSize
  BY <1>1
<1>3. OldestRows = SubSeq(queue, 1, n)
  BY DEF OldestRows
<1> HIDE DEF n
<1>4. \A i \in 1..n : queue[i] \in 1..taken
  BY <1>1, <1>2
<1>5. /\ OldestRows \in Seq(1..taken)
      /\ Len(OldestRows) = n
      /\ \A i \in 1..n : OldestRows[i] = queue[i]
  BY <1>1, <1>2, <1>3, <1>4, SubSeqProperties
<1> QED
  BY <1>1, <1>2, <1>5

-----------------------------------------------------------------------------
(* Every step keeps the invariant, one part at a time.                     *)

LEMMA TypeStep == CoreInv /\ [Next]_vars => TypeOK'
<1> SUFFICES ASSUME CoreInv, [Next]_vars PROVE TypeOK'
    OBVIOUS
<1> USE DEF TypeOK, Forget, EndPeriod, MqttPC, threadVars, history
<1>1. TypeOK
  BY DEF CoreInv
<1>2. records' = <<>> => records' \in Seq(Sample) /\ Len(records') <= BatchSize
  <2>1. <<>> \in Seq(Sample) /\ Len(<<>>) = 0 /\ 0 <= BatchSize
    BY EmptySeq
  <2> QED
    BY <2>1
<1>3. 1..taken \subseteq Sample
  BY <1>1
<1>4. Fault \/ UNCHANGED faults => faults' \in 0..MaxFaults
  BY <1>1 DEF Fault
<1> HIDE DEF Sample
<1>5. CASE OtherStep
  <2>1. CASE ThreadStart
    BY <1>1, <1>4, <2>1 DEF ThreadStart
  <2>2. CASE PollStop
    BY <1>1, <1>2, <2>2 DEF PollStop
  <2>3. CASE Quit \/ StopReporter
    BY <1>1, <2>3 DEF Quit, StopReporter
  <2>4. CASE Exit
    BY <1>1, <1>2, <2>4 DEF Exit, ProcessEnds
  <2> QED
    BY <1>5, <2>1, <2>2, <2>3, <2>4 DEF OtherStep
<1>6. CASE PollTimer
  <2>1. /\ taken' \in 0..MaxSamples /\ 1..taken \subseteq 1..taken'
        /\ sample' \in {0} \cup Sample
    BY <1>1, <1>6 DEF PollTimer, Sample
  <2> QED
    BY <1>1, <1>2, <1>6, <2>1 DEF PollTimer
<1>7. CASE Connect \/ SendOrEnqueue
  BY <1>1, <1>7 DEF Connect, SendOrEnqueue, TryConnect
<1>8. CASE FetchBatch
  <2>1. OldestRows \in Seq(Sample) /\ Len(OldestRows) <= BatchSize
    BY <1>3, FetchEffect, SeqMonotonic
  <2> QED
    BY <1>1, <1>4, <1>8, <2>1 DEF FetchBatch
<1>9. CASE ReplayDone \/ NothingToSend
  BY <1>1, <1>2, <1>9 DEF ReplayDone, NothingToSend
<1>17. CASE ReplayFails \/ PublishFails
  <2>1. sent' \subseteq 1..taken /\ confirmed \subseteq sent'
    <3>1. ReplayFails => Head(records) \in 1..taken
      BY HeadIsOldest DEF ReplayFails
    <3>2. PublishFails => sample \in 1..taken
      BY <1>1 DEF PublishFails, CoreInv, HandInv
    <3> HIDE DEF TypeOK
    <3>3. sent \subseteq 1..taken /\ confirmed \subseteq sent
      BY <1>1 DEF TypeOK
    <3> QED
      BY <1>17, <3>1, <3>2, <3>3 DEF ReplayFails, PublishFails
  <2> QED
    BY <1>1, <1>2, <1>17, <2>1 DEF ReplayFails, PublishFails
<1>10. CASE ReplayRecord
  BY <1>1, <1>10, HeadIsOldest DEF ReplayRecord
<1>11. CASE DeleteReplayed
  <2>1. mpc = "delete" /\ records # <<>>
    BY <1>11 DEF DeleteReplayed, CoreInv, BatchInv
  <2>2. DeleteRow(queue, Head(records)) \in Seq(Sample)
    BY <1>3, <2>1, DeleteEffect, SeqMonotonic
  <2>3. Tail(records) \in Seq(Sample) /\ Len(Tail(records)) <= BatchSize
    <3>1. /\ Tail(records) \in Seq(Sample)
          /\ Len(Tail(records)) = Len(records) - 1
          /\ Len(records) \in Nat /\ Len(records) <= BatchSize
      BY <1>1, <2>1, HeadTailProperties, LenProperties
    <3> QED
      BY <3>1
  <2> QED
    BY <1>1, <1>2, <1>4, <1>11, <2>2, <2>3 DEF DeleteReplayed
<1>12. CASE PublishSample
  BY <1>1, <1>2, <1>12 DEF PublishSample, CoreInv, HandInv
<1>13. CASE Enqueue
  <2>1. Append(queue, sample) \in Seq(Sample)
    BY <1>3, <1>13, EnqueueEffect, SeqMonotonic DEF Enqueue
  <2> QED
    BY <1>1, <1>2, <1>4, <1>13, <2>1 DEF Enqueue
<1>14. CASE PruneQueue
  <2>1. SubSeq(queue, Excess + 1, Len(queue)) \in Seq(Sample)
    BY <1>3, PruneEffect, SeqMonotonic
  <2>2. Range(SubSeq(queue, 1, Excess)) \subseteq 1..taken
    <3>1. Queued \subseteq 1..taken
      BY RangeOfSeq DEF CoreInv, QueueInv, Queued
    <3> QED
      BY <3>1, PruneEffect
  <2> HIDE DEF Forget, MqttPC
  <2>3. mpc' \in MqttPC
    BY <1>14 DEF PruneQueue, MqttPC
  <2> QED
    BY <1>1, <1>2, <1>4, <1>14, <2>1, <2>2, <2>3 DEF PruneQueue
<1>15. CASE Crash
  <2>1. crashes' \in 0..MaxCrashes
    BY <1>1, <1>15 DEF Crash
  <2> QED
    BY <1>1, <1>2, <1>15, <2>1 DEF Crash, ProcessEnds
<1>16. CASE UNCHANGED vars
  BY <1>1, <1>16 DEF vars
<1> QED
  BY <1>5, <1>6, <1>7, <1>8, <1>9, <1>10, <1>11, <1>12, <1>13, <1>14, <1>15,
     <1>16, <1>17
  DEF Next, ThreadWork, OtherStep

\* The steps that leave the table alone.
LEMMA TableUntouched ==
  ASSUME OtherStep \/ PollTimer \/ Connect \/ FetchBatch \/ ReplayDone
         \/ ReplayRecord \/ ReplayFails \/ SendOrEnqueue \/ NothingToSend
         \/ PublishSample \/ PublishFails \/ Crash \/ UNCHANGED vars
  PROVE  UNCHANGED <<queue, pruned>>
BY DEF OtherStep, ThreadStart, PollStop, Quit, StopReporter, Exit, PollTimer,
       Connect, FetchBatch, ReplayDone, ReplayRecord, ReplayFails,
       SendOrEnqueue, NothingToSend, PublishSample, PublishFails, Crash,
       history, vars

LEMMA QueueStep == CoreInv /\ [Next]_vars => QueueInv'
<1> SUFFICES ASSUME CoreInv, [Next]_vars PROVE QueueInv'
    OBVIOUS
<1>1. TypeOK /\ QueueInv
  BY DEF CoreInv
<1>2. CASE PollTimer
  <2>1. UNCHANGED queue
    BY <1>2, TableUntouched
  <2>2. 1..taken \subseteq 1..taken'
    BY <1>1, <1>2 DEF PollTimer, TypeOK
  <2> QED
    BY <1>1, <2>1, <2>2, SeqMonotonic DEF QueueInv, Ascending
<1>3. CASE DeleteReplayed
  BY <1>1, <1>3, DeleteEffect DEF DeleteReplayed, QueueInv, Ascending
<1>4. CASE Enqueue
  BY <1>1, <1>4, EnqueueEffect DEF Enqueue, QueueInv, Ascending
<1>5. CASE PruneQueue
  BY <1>1, <1>5, PruneEffect DEF PruneQueue, QueueInv, Ascending
<1>6. CASE UNCHANGED <<queue, taken>>
  BY <1>1, <1>6 DEF QueueInv, Ascending
<1> QED
  BY <1>2, <1>3, <1>4, <1>5, <1>6
  DEF Next, ThreadWork, ThreadStart, PollStop, Quit, StopReporter, Exit,
      Connect, FetchBatch, ReplayDone, ReplayRecord, ReplayFails,
      SendOrEnqueue, NothingToSend, PublishSample, PublishFails, Crash,
      history, vars

\* Where a period ends, and where the process ends, nothing is in hand.
LEMMA HandEmpty == mpc' \notin {"publish", "enqueue", "prune"} /\ sample' = 0
                     => HandInv'
BY DEF HandInv

LEMMA HandStep == CoreInv /\ [Next]_vars => HandInv'
<1> SUFFICES ASSUME CoreInv, [Next]_vars PROVE HandInv'
    OBVIOUS
<1>1. TypeOK /\ QueueInv /\ HandInv
  BY DEF CoreInv
<1>2. Queued \subseteq 1..taken
  BY <1>1, RangeOfSeq DEF QueueInv, Queued
<1>3. CASE OtherStep
  BY <1>1, <1>3 DEF OtherStep, ThreadStart, PollStop, Quit, StopReporter, Exit,
      ProcessEnds, Forget, threadVars, history, HandInv, Queued
<1>4. CASE PollTimer
  <2>1. UNCHANGED <<queue, confirmed>>
    BY <1>4 DEF PollTimer
  <2>2. taken + 1 \notin confirmed /\ taken + 1 \notin Queued
    BY <1>1, <1>2 DEF TypeOK
  <2> QED
    BY <1>1, <1>4, <2>1, <2>2 DEF PollTimer, Forget, HandInv, Queued
<1>5. CASE Connect \/ FetchBatch \/ ReplayDone \/ ReplayFails \/ PublishFails
  BY <1>1, <1>5 DEF Connect, FetchBatch, ReplayDone, ReplayFails, PublishFails,
      threadVars, history, HandInv, Queued
<1>6. CASE ReplayRecord
  <2>1. sample # 0 => sample # Head(records)
    BY <1>1, <1>6, HeadIsOldest DEF ReplayRecord, HandInv
  <2> QED
    BY <1>1, <1>6, <2>1 DEF ReplayRecord, threadVars, HandInv, Queued
<1>7. CASE DeleteReplayed
  <2>1. Queued' \subseteq Queued
    BY <1>7, DeleteEffect DEF DeleteReplayed, Queued
  <2> QED
    BY <1>1, <1>7, <2>1 DEF DeleteReplayed, HandInv
<1>8. CASE SendOrEnqueue
  BY <1>1, <1>8 DEF SendOrEnqueue, history, HandInv, Queued
<1>9. CASE NothingToSend \/ PublishSample \/ PruneQueue \/ Crash
  BY <1>9, HandEmpty
  DEF NothingToSend, PublishSample, PruneQueue, Crash, EndPeriod, ProcessEnds,
      Forget
<1>10. CASE Enqueue
  <2>1. CASE EndPeriod
    BY <2>1, HandEmpty DEF EndPeriod
  <2>2. CASE queue' = Append(queue, sample)
    <3>1. Queued' = Queued \cup {sample}
      BY <1>10, <2>2, EnqueueEffect DEF Enqueue, Queued
    <3> QED
      BY <1>1, <1>10, <2>1, <3>1 DEF Enqueue, HandInv
  <2> QED
    BY <1>10, <2>1, <2>2 DEF Enqueue
<1>11. CASE UNCHANGED vars
  BY <1>1, <1>11 DEF vars, threadVars, history, HandInv, Queued
<1> QED
  BY <1>3, <1>4, <1>5, <1>6, <1>7, <1>8, <1>9, <1>10, <1>11
  DEF Next, ThreadWork, OtherStep

LEMMA NoBatch ==
  ASSUME TypeOK', records' = <<>>, mpc' # "delete" PROVE BatchInv'
<1>1. Len(queue') \in Nat
  BY LenProperties DEF TypeOK
<1>2. Len(<<>>) = 0
  BY EmptySeq
<1> QED
  BY <1>1, <1>2 DEF BatchInv

LEMMA BatchStep == CoreInv /\ [Next]_vars => BatchInv'
<1> SUFFICES ASSUME CoreInv, [Next]_vars PROVE BatchInv'
    OBVIOUS
<1>1. TypeOK /\ BatchInv /\ TypeOK'
  BY TypeStep DEF CoreInv
<1>2. CASE ThreadStart \/ PollTimer \/ Connect \/ PublishFails
  <2>1. records' = <<>> /\ mpc' # "delete"
    BY <1>1, <1>2
    DEF ThreadStart, PollTimer, Forget, Connect, PublishFails, BatchInv
  <2> QED
    BY <1>1, <2>1, NoBatch
<1>3. CASE PollStop \/ Exit \/ Crash \/ NothingToSend \/ PublishSample
           \/ PruneQueue \/ ReplayFails
  <2>1. records' = <<>> /\ mpc' # "delete"
    BY <1>3 DEF PollStop, Exit, Crash, NothingToSend, PublishSample, PruneQueue,
        ReplayFails, EndPeriod, ProcessEnds, Forget
  <2> QED
    BY <1>1, <2>1, NoBatch
<1>4. CASE ReplayDone \/ SendOrEnqueue
  <2>1. records' = <<>> /\ mpc' # "delete"
    BY <1>1, <1>4 DEF ReplayDone, SendOrEnqueue, threadVars, BatchInv
  <2> QED
    BY <1>1, <2>1, NoBatch
<1>5. CASE Enqueue
  <2>1. records' = <<>> /\ mpc' # "delete"
    BY <1>1, <1>5 DEF Enqueue, EndPeriod, BatchInv
  <2> QED
    BY <1>1, <2>1, NoBatch
<1>6. CASE FetchBatch
  BY <1>1, <1>6, FetchEffect DEF FetchBatch, BatchInv
<1>7. CASE ReplayRecord
  BY <1>1, <1>7 DEF ReplayRecord, threadVars, BatchInv
<1>8. CASE DeleteReplayed
  <2>1. CASE records' = <<>> /\ mpc' = "send"
    BY <1>1, <2>1, NoBatch
  <2>2. CASE /\ queue' = DeleteRow(queue, Head(records))
             /\ records' = Tail(records) /\ mpc' = "replay"
    <3>1. /\ Len(records') <= Len(queue')
          /\ \A i \in 1..Len(records') : records'[i] = queue'[i]
      BY <1>8, <2>2, DeleteEffect DEF DeleteReplayed
    <3> QED
      BY <2>2, <3>1 DEF BatchInv
  <2> QED
    BY <1>8, <2>1, <2>2 DEF DeleteReplayed
<1>9. CASE UNCHANGED <<mpc, records, queue, sent>> \/ Quit \/ StopReporter
  BY <1>1, <1>9 DEF Quit, StopReporter, threadVars, history, BatchInv
<1> QED
  BY <1>2, <1>3, <1>4, <1>5, <1>6, <1>7, <1>8, <1>9
  DEF Next, ThreadWork, vars, threadVars, history

LEMMA CoreStep == CoreInv /\ [Next]_vars => CoreInv'
BY TypeStep, QueueStep, HandStep, BatchStep DEF CoreInv

\* Where the table has not grown, the bound has not either.
LEMMA NotLonger ==
  ASSUME TypeOK, QueueBounded, TypeOK',
         Len(queue') <= Len(queue), crashes' >= crashes, faults' >= faults,
         \/ mpc # "prune" \/ mpc' = "prune"
         \/ crashes' > crashes \/ faults' > faults
  PROVE  QueueBounded'
<1>1. Len(queue) \in Nat /\ Len(queue') \in Nat
  BY LenProperties DEF TypeOK
<1>2. CASE mpc # "prune"
  BY <1>1, <1>2 DEF TypeOK, QueueBounded
<1>3. CASE mpc = "prune"
  BY <1>1, <1>3 DEF TypeOK, QueueBounded
<1> QED
  BY <1>2, <1>3

LEMMA BoundStep == CoreInv /\ QueueBounded /\ [Next]_vars => QueueBounded'
<1> SUFFICES ASSUME CoreInv, QueueBounded, [Next]_vars PROVE QueueBounded'
    OBVIOUS
<1>1. TypeOK /\ TypeOK'
  BY TypeStep DEF CoreInv
<1>2. Len(queue) \in Nat /\ crashes \in Nat /\ faults \in Nat
  BY <1>1, LenProperties DEF TypeOK
<1>3. Fault \/ UNCHANGED faults => faults' >= faults
  BY <1>2 DEF Fault
<1>4. CASE OtherStep \/ FetchBatch
  <2>1. UNCHANGED <<queue, crashes>> /\ (mpc # "prune" \/ mpc' = "prune")
    BY <1>4
    DEF OtherStep, ThreadStart, PollStop, Quit, StopReporter, Exit, FetchBatch,
        history
  <2>2. faults' >= faults
    BY <1>3, <1>4
    DEF OtherStep, ThreadStart, PollStop, Quit, StopReporter, Exit, FetchBatch,
        history
  <2> QED
    BY <1>1, <1>2, <2>1, <2>2, NotLonger
<1>5. CASE PollTimer \/ Connect \/ ReplayDone \/ ReplayRecord \/ ReplayFails
           \/ SendOrEnqueue \/ NothingToSend \/ PublishSample \/ PublishFails
  <2>1. UNCHANGED <<queue, crashes, faults>> /\ mpc # "prune"
    BY <1>5
    DEF PollTimer, Connect, ReplayDone, ReplayRecord, ReplayFails,
        SendOrEnqueue, NothingToSend, PublishSample, PublishFails, history
  <2> QED
    BY <1>1, <1>2, <2>1, NotLonger
<1>6. CASE DeleteReplayed
  <2>1. Len(queue') <= Len(queue) /\ UNCHANGED crashes /\ mpc # "prune"
    BY <1>2, <1>6, DeleteEffect DEF DeleteReplayed
  <2>2. faults' >= faults
    BY <1>3, <1>6 DEF DeleteReplayed
  <2> QED
    BY <1>1, <1>2, <2>1, <2>2, NotLonger
<1>7. CASE Enqueue
  <2>1. CASE queue' = Append(queue, sample) /\ mpc' = "prune" /\ UNCHANGED faults
    <3>1. Len(queue') = Len(queue) + 1 /\ UNCHANGED crashes /\ mpc # "prune"
      BY <1>7, <2>1, EnqueueEffect DEF Enqueue
    <3> QED
      BY <1>1, <1>2, <2>1, <3>1 DEF QueueBounded
  <2>2. CASE UNCHANGED queue
    <3>1. UNCHANGED crashes /\ mpc # "prune"
      BY <1>7 DEF Enqueue
    <3>2. faults' >= faults
      BY <1>3, <1>7 DEF Enqueue
    <3> QED
      BY <1>1, <1>2, <2>2, <3>1, <3>2, NotLonger
  <2> QED
    BY <1>7, <2>1, <2>2 DEF Enqueue
<1>8. CASE PruneQueue
  <2>1. CASE queue' = SubSeq(queue, Excess + 1, Len(queue)) /\ UNCHANGED faults
    <3>1. Len(queue') <= MaxRows
      BY <1>2, <2>1, PruneEffect
    <3>2. Len(queue') \in Nat /\ crashes' \in Nat /\ faults' \in Nat
      BY <1>1, LenProperties DEF TypeOK
    <3> QED
      BY <3>1, <3>2 DEF QueueBounded
  <2>2. CASE Fault /\ UNCHANGED queue
    <3>1. UNCHANGED <<queue, crashes>> /\ faults' = faults + 1
      BY <1>2, <1>8, <2>2 DEF PruneQueue, Fault
    <3> QED
      BY <1>1, <1>2, <3>1, NotLonger
  <2> QED
    BY <1>8, <2>1, <2>2 DEF PruneQueue
<1>9. CASE Crash
  <2>1. UNCHANGED <<queue, faults>> /\ crashes' = crashes + 1
    BY <1>2, <1>9 DEF Crash
  <2> QED
    BY <1>1, <1>2, <2>1, NotLonger
<1>10. CASE UNCHANGED vars
  BY <1>10 DEF vars, history, QueueBounded
<1> QED
  BY <1>4, <1>5, <1>6, <1>7, <1>8, <1>9, <1>10 DEF Next, ThreadWork, OtherStep

-----------------------------------------------------------------------------
(* Samples published with success that are still stored.                   *)

Resent == (confirmed \cap Queued)
            \ (IF mpc = "delete" THEN {Head(records)} ELSE {})

LEMMA ResentFinite ==
  ASSUME CoreInv
  PROVE  IsFiniteSet(Resent) /\ Cardinality(Resent) \in Nat
<1>1. taken \in Nat /\ confirmed \subseteq 1..taken
  BY DEF CoreInv, TypeOK
<1>2. IsFiniteSet(1..taken)
  BY <1>1, FS_Interval
<1>3. Resent \in SUBSET (1..taken)
  BY <1>1 DEF Resent
<1> QED
  BY <1>2, <1>3, FS_Subset, FS_CardinalityType

\* A step that adds none keeps the count below the bound, and so does one
\* that adds one where it adds one to the bound.
LEMMA NotMoreResent ==
  ASSUME CoreInv, ResentOncePerFault, TypeOK',
         Resent' \subseteq Resent, crashes' >= crashes, faults' >= faults
  PROVE  ResentOncePerFault'
<1>1. Cardinality(Resent) \in Nat /\ Cardinality(Resent') \in Nat
  BY ResentFinite, FS_Subset, FS_CardinalityType
<1>2. Cardinality(Resent') <= Cardinality(Resent)
  BY ResentFinite, FS_Subset
<1>3. Cardinality(Resent) <= crashes + faults
  BY DEF ResentOncePerFault, Resent
<1>4. Cardinality(Resent') <= crashes' + faults'
  BY <1>1, <1>2, <1>3 DEF CoreInv, TypeOK
<1> QED
  BY <1>4 DEF ResentOncePerFault, Resent

LEMMA OneMoreResent ==
  ASSUME CoreInv, ResentOncePerFault, TypeOK',
         NEW s, Resent' \subseteq Resent \cup {s},
         crashes' + faults' = crashes + faults + 1
  PROVE  ResentOncePerFault'
<1>1. /\ IsFiniteSet(Resent \cup {s})
      /\ Cardinality(Resent \cup {s}) \in Nat
      /\ Cardinality(Resent \cup {s}) <= Cardinality(Resent) + 1
  <2>1. /\ IsFiniteSet(Resent \cup {s})
        /\ Cardinality(Resent \cup {s}) =
             IF s \in Resent THEN Cardinality(Resent) ELSE Cardinality(Resent) + 1
    BY ResentFinite, FS_AddElement
  <2> QED
    BY <2>1, ResentFinite
<1>2. /\ Cardinality(Resent') \in Nat
      /\ Cardinality(Resent') <= Cardinality(Resent \cup {s})
  BY <1>1, FS_Subset, FS_CardinalityType
<1>3. Cardinality(Resent) <= crashes + faults /\ Cardinality(Resent) \in Nat
  BY ResentFinite DEF ResentOncePerFault, Resent
<1>4. crashes + faults \in Nat
  BY DEF CoreInv, TypeOK
<1>5. Cardinality(Resent') <= crashes' + faults'
  BY <1>1, <1>2, <1>3, <1>4
<1> QED
  BY <1>5 DEF ResentOncePerFault, Resent

LEMMA ResentStep == CoreInv /\ ResentOncePerFault /\ [Next]_vars
                      => ResentOncePerFault'
<1> SUFFICES ASSUME CoreInv, ResentOncePerFault, [Next]_vars
             PROVE  ResentOncePerFault'
    OBVIOUS
<1>1. TypeOK /\ QueueInv /\ HandInv /\ BatchInv /\ TypeOK'
  BY TypeStep DEF CoreInv
<1>2. crashes \in Nat /\ faults \in Nat
  BY <1>1 DEF TypeOK
<1>3. Fault \/ UNCHANGED faults => faults' >= faults
  BY <1>2 DEF Fault
\* Nothing that is confirmed, stored or deleted changes.
<1>4. ASSUME UNCHANGED <<queue, confirmed, crashes>>, Fault \/ UNCHANGED faults,
             mpc # "delete"
      PROVE  ResentOncePerFault'
  <2>1. Resent' \subseteq Resent
    BY <1>4 DEF Resent, Queued
  <2>2. crashes' >= crashes /\ faults' >= faults
    BY <1>2, <1>3, <1>4
  <2> QED
    BY <1>1, <2>1, <2>2, NotMoreResent
<1>5. CASE ThreadStart \/ PollStop \/ Exit \/ PollTimer \/ Connect
           \/ FetchBatch \/ ReplayDone \/ ReplayFails \/ SendOrEnqueue
           \/ NothingToSend \/ PublishFails
  <2>1. UNCHANGED <<queue, confirmed, crashes>> /\ (Fault \/ UNCHANGED faults)
    BY <1>5 DEF ThreadStart, PollStop, Exit, PollTimer, Connect, FetchBatch,
        ReplayDone, ReplayFails, SendOrEnqueue, NothingToSend, PublishFails,
        history
  <2>2. mpc # "delete"
    BY <1>5 DEF ThreadStart, PollStop, Exit, PollTimer, Connect, FetchBatch,
        ReplayDone, ReplayFails, SendOrEnqueue, NothingToSend, PublishFails
  <2> QED
    BY <1>4, <2>1, <2>2
<1>6. CASE ReplayRecord
  <2>1. Resent' \subseteq Resent
    BY <1>6 DEF ReplayRecord, threadVars, Resent, Queued
  <2>2. UNCHANGED <<crashes, faults>>
    BY <1>6 DEF ReplayRecord
  <2> QED
    BY <1>1, <1>2, <2>1, <2>2, NotMoreResent
<1>7. CASE DeleteReplayed
  <2>1. mpc = "delete" /\ UNCHANGED <<confirmed, crashes>>
    BY <1>7 DEF DeleteReplayed
  <2>2. CASE /\ queue' = DeleteRow(queue, Head(records)) /\ mpc' = "replay"
             /\ UNCHANGED faults
    <3>1. Resent' \subseteq Resent
      BY <2>1, <2>2, DeleteEffect DEF Resent, Queued
    <3> QED
      BY <1>1, <1>2, <2>1, <2>2, <3>1, NotMoreResent
  <2>3. CASE Fault /\ mpc' = "send" /\ UNCHANGED queue
    <3>1. Resent' \subseteq Resent \cup {Head(records)}
      BY <2>1, <2>3 DEF Resent, Queued
    <3>2. crashes' + faults' = crashes + faults + 1
      BY <1>2, <2>1, <2>3 DEF Fault
    <3> QED
      BY <1>1, <3>1, <3>2, OneMoreResent
  <2> QED
    BY <1>7, <2>2, <2>3 DEF DeleteReplayed
<1>8. CASE PublishSample
  <2>1. sample \notin Queued
    BY <1>1, <1>8 DEF PublishSample, HandInv
  <2>2. Resent' \subseteq Resent
    BY <1>8, <2>1 DEF PublishSample, EndPeriod, Resent, Queued
  <2>3. UNCHANGED <<crashes, faults>>
    BY <1>8 DEF PublishSample
  <2> QED
    BY <1>1, <1>2, <2>2, <2>3, NotMoreResent
<1>9. CASE Enqueue
  <2>1. CASE queue' = Append(queue, sample) /\ UNCHANGED faults
    <3>1. sample \notin confirmed /\ Queued' = Queued \cup {sample}
      BY <1>1, <1>9, <2>1, EnqueueEffect DEF Enqueue, HandInv, Queued
    <3>2. UNCHANGED <<confirmed, crashes>> /\ mpc # "delete"
      BY <1>9 DEF Enqueue
    <3>3. Resent' \subseteq Resent
      BY <3>1, <3>2 DEF Resent
    <3> QED
      BY <1>1, <1>2, <2>1, <3>2, <3>3, NotMoreResent
  <2>2. CASE UNCHANGED queue
    BY <1>4, <1>9, <2>2 DEF Enqueue
  <2> QED
    BY <1>9, <2>1, <2>2 DEF Enqueue
<1>10. CASE PruneQueue
  <2>1. Queued' \subseteq Queued
    BY <1>10, PruneEffect DEF PruneQueue, Queued
  <2>2. Resent' \subseteq Resent
    BY <1>10, <2>1 DEF PruneQueue, EndPeriod, Resent
  <2>3. UNCHANGED crashes /\ faults' >= faults
    BY <1>3, <1>10 DEF PruneQueue
  <2> QED
    BY <1>1, <1>2, <2>2, <2>3, NotMoreResent
<1>11. CASE Crash
  <2>1. Resent' \subseteq Resent \cup {Head(records)}
    BY <1>11 DEF Crash, ProcessEnds, Resent, Queued
  <2>2. crashes' + faults' = crashes + faults + 1
    BY <1>2, <1>11 DEF Crash
  <2> QED
    BY <1>1, <2>1, <2>2, OneMoreResent
<1>12. CASE Quit \/ StopReporter \/ UNCHANGED vars
  <2>1. UNCHANGED <<mpc, records, queue, confirmed, crashes, faults>>
    BY <1>12 DEF Quit, StopReporter, vars, threadVars, history
  <2> QED
    BY <2>1 DEF ResentOncePerFault, Queued
<1> QED
  BY <1>5, <1>6, <1>7, <1>8, <1>9, <1>10, <1>11, <1>12 DEF Next, ThreadWork

LEMMA NextKeeps == IInv /\ [Next]_vars => IInv'
BY CoreStep, BoundStep, ResentStep DEF IInv

LEMMA IInvHolds == Spec => []IInv
BY InitImpliesIInv, NextKeeps, PTL DEF Spec

\* Table, batch and the sample in hand stay samples that were taken, and the
\* faults within their bound, through trims, appends, DELETEs and crashes.
THEOREM ReporterTypeCorrect == Spec => []TypeOK
<1>1. IInv => TypeOK
  BY DEF IInv, CoreInv
<1> QED
  BY <1>1, IInvHolds, PTL

\* Whatever statements fail and wherever the process dies, the table exceeds
\* its limit by one row at most for each of these, and one being inserted.
THEOREM TableIsBounded == Spec => []QueueBounded
<1>1. IInv => QueueBounded
  BY DEF IInv
<1> QED
  BY <1>1, IInvHolds, PTL

\* Each crash and each failing statement leaves at most one stored sample
\* that will be sent again although its publish was a success, however long
\* the backlog.
THEOREM OneResentPerFault == Spec => []ResentOncePerFault
<1>1. IInv => ResentOncePerFault
  BY DEF IInv
<1> QED
  BY <1>1, IInvHolds, PTL

-----------------------------------------------------------------------------
(* What becomes of a sample.                                               *)

\* The steps that touch neither the samples nor where they are.
LEMMA SamplesUntouched ==
  ASSUME CoreInv,
         \/ OtherStep \/ Connect \/ FetchBatch \/ ReplayDone
         \/ SendOrEnqueue \/ NothingToSend \/ UNCHANGED vars
         \/ PollTimer /\ UNCHANGED taken
  PROVE  /\ UNCHANGED <<taken, sample, queue, sent, pruned>>
         /\ (mpc = "prune" <=> mpc' = "prune")
<1>1. mpc \in {"off", "poll", "returned"} => sample = 0
  BY DEF CoreInv, HandInv
<1>2. CASE OtherStep
  BY <1>1, <1>2 DEF OtherStep, ThreadStart, PollStop, Quit, StopReporter, Exit,
      ProcessEnds, Forget, threadVars, history
<1>3. CASE PollTimer /\ UNCHANGED taken
  <2>1. taken \in Nat
    BY DEF CoreInv, TypeOK
  <2> QED
    BY <1>1, <1>3, <2>1 DEF PollTimer, Forget
<1>4. CASE \/ Connect \/ FetchBatch \/ ReplayDone
           \/ SendOrEnqueue \/ NothingToSend \/ UNCHANGED vars
  BY <1>4 DEF Connect, FetchBatch, ReplayDone, SendOrEnqueue, NothingToSend,
      EndPeriod, threadVars, history, vars
<1> QED
  BY <1>2, <1>3, <1>4

\* What a publish reported as failed comes to: nothing, or a message sent.
LEMMA ReplayFailure ==
  ASSUME CoreInv, ReplayFails
  PROVE  /\ UNCHANGED <<taken, sample, queue, pruned>>
         /\ sent' = sent \/ sent' = sent \cup {Head(records)}
         /\ records # <<>> /\ mpc # "prune" /\ mpc' # "prune"
BY DEF ReplayFails

LEMMA PublishFailure ==
  ASSUME CoreInv, PublishFails
  PROVE  /\ UNCHANGED <<taken, sample, queue, pruned>>
         /\ sent' = sent \/ sent' = sent \cup {sample}
         /\ sample # 0 /\ mpc # "prune" /\ mpc' # "prune"
BY DEF PublishFails, CoreInv, HandInv

\* Where a sample is dropped from the hand: nothing else changes.
Dropped == sample' = 0 /\ UNCHANGED <<taken, queue, sent, pruned>>

LEMMA LoseStep ==
  ASSUME CoreInv, [Next]_vars, Lost' # Lost
  PROVE  /\ Lost' \ Lost = {sample}
         /\ \/ crashes' # crashes
            \/ mpc = "enqueue" /\ (faults' # faults \/ ~storeReady)
<1>1. TypeOK /\ HandInv /\ BatchInv
  BY DEF CoreInv
<1>2. taken \in Nat /\ 0 \notin 1..taken
  BY <1>1 DEF TypeOK
<1>3. ASSUME Dropped PROVE Lost' \ Lost = {sample}
  BY <1>2, <1>3 DEF Dropped, Lost, Queued
<1>4. ~\/ OtherStep \/ Connect \/ FetchBatch \/ ReplayDone
       \/ SendOrEnqueue \/ NothingToSend \/ UNCHANGED vars
  BY SamplesUntouched DEF Lost, Queued
<1>5. ~PollTimer
  <2> SUFFICES ASSUME PollTimer, taken' # taken PROVE Lost' = Lost
      BY SamplesUntouched DEF Lost, Queued
  <2>1. /\ taken' = taken + 1 /\ sample' = taken + 1 /\ sample = 0
        /\ UNCHANGED <<queue, sent, pruned>>
    BY <1>1 DEF PollTimer, HandInv
  <2>2. 1..taken' = (1..taken) \cup {taken + 1} /\ taken + 1 \notin 1..taken
    BY <1>2, <2>1
  <2> QED
    BY <1>2, <2>1, <2>2 DEF Lost, Queued
<1>6. ~ReplayRecord
  <2> SUFFICES ASSUME ReplayRecord PROVE Lost' = Lost
      OBVIOUS
  <2> QED
    BY HeadIsOldest DEF ReplayRecord, threadVars, Lost, Queued
<1>12. ~ReplayFails
  <2> SUFFICES ASSUME ReplayFails PROVE Lost' = Lost
      OBVIOUS
  <2>1. Queued' = Queued /\ Head(records) \in Queued
    BY ReplayFailure, HeadIsOldest DEF Queued
  <2> QED
    BY <2>1, ReplayFailure DEF Lost
<1>13. ~PublishFails
  <2> SUFFICES ASSUME PublishFails PROVE Lost' = Lost
      OBVIOUS
  <2>1. Queued' = Queued
    BY PublishFailure DEF Queued
  <2> QED
    BY <2>1, PublishFailure DEF Lost
<1>7. ~DeleteReplayed
  <2> SUFFICES ASSUME DeleteReplayed PROVE Lost' = Lost
      OBVIOUS
  <2>1. Head(records) \in sent /\ UNCHANGED <<taken, sample, sent, pruned>>
    BY <1>1 DEF DeleteReplayed, BatchInv
  <2>2. Queued' = Queued \/ Queued' = Queued \ {Head(records)}
    BY DeleteEffect DEF DeleteReplayed, Queued
  <2> QED
    BY <2>1, <2>2 DEF Lost
<1>8. ~PublishSample
  <2> SUFFICES ASSUME PublishSample PROVE Lost' = Lost
      OBVIOUS
  <2> QED
    BY <1>2 DEF PublishSample, EndPeriod, Lost, Queued
<1>9. ~PruneQueue
  <2> SUFFICES ASSUME PruneQueue PROVE Lost' = Lost
      OBVIOUS
  <2>1. sample \in Queued /\ sample' = 0 /\ UNCHANGED <<taken, sent>>
    BY <1>1 DEF PruneQueue, EndPeriod, HandInv
  <2>2. Queued' \cup pruned' = Queued \cup pruned
    BY PruneEffect DEF PruneQueue, Queued
  <2> QED
    BY <1>2, <2>1, <2>2 DEF Lost
<1>10. CASE Enqueue
  <2>1. CASE queue' = Append(queue, sample) /\ UNCHANGED sample
    <3>1. Queued' = Queued \cup {sample} /\ UNCHANGED <<taken, sent, pruned>>
      BY <1>10, <2>1, EnqueueEffect DEF Enqueue, Queued
    <3> QED
      BY <2>1, <3>1 DEF Lost
  <2>2. CASE EndPeriod /\ UNCHANGED queue
    <3>1. Dropped
      BY <1>10, <2>2 DEF Enqueue, EndPeriod, Dropped
    <3> QED
      BY <1>1, <1>3, <1>10, <2>2, <3>1 DEF Enqueue, EndPeriod, Fault, TypeOK
  <2> QED
    BY <1>10, <2>1, <2>2 DEF Enqueue
<1>11. CASE Crash
  <2>1. Dropped /\ crashes' # crashes
    BY <1>1, <1>11 DEF Crash, ProcessEnds, Forget, Dropped, TypeOK
  <2> QED
    BY <1>3, <2>1
<1> QED
  BY <1>4, <1>5, <1>6, <1>7, <1>8, <1>9, <1>10, <1>11, <1>12, <1>13
  DEF Next, ThreadWork, OtherStep

\* Whatever the network does, only a crash, a failing INSERT or a store that
\* could not be opened loses a sample, and only the one in hand.
THEOREM LossNeedsFault == Spec => OnlyFaultsLose
<1>1. IInv /\ [Next]_vars =>
        [Lost' # Lost =>
           /\ Lost' \ Lost = {sample}
           /\ \/ crashes' # crashes
              \/ mpc = "enqueue" /\ (faults' # faults \/ ~storeReady)]_vars
  BY LoseStep DEF IInv
<1> QED
  BY <1>1, IInvHolds, PTL DEF Spec, OnlyFaultsLose

-----------------------------------------------------------------------------
(* The refinement: every step is one of StoreAndForward, or none.          *)

Held == IF mpc = "prune" THEN 0 ELSE sample

USE DEF Held

LEMMA SameCardinality == \A S : Promise!Cardinality(S) = Cardinality(S)
BY DEF Promise!Cardinality, Cardinality

LEMMA RangeEmpty == Range(<<>>) = {}
BY EmptySeq DEF Range

LEMMA HeadOldestKept ==
  ASSUME CoreInv, records # <<>> PROVE Head(records) \in Promise!OldestKept
BY HeadIsOldest DEF Promise!OldestKept

\* A prune that finds too many rows leaves as many as the limit.
LEMMA PruneGivesUp ==
  ASSUME CoreInv, PruneQueue, ~UNCHANGED <<queue, pruned>>
  PROVE  Promise!GiveUp
<1> DEFINE front == SubSeq(queue, 1, Excess)
           q == SubSeq(queue, Excess + 1, Len(queue))
<1>1. TypeOK /\ QueueInv /\ taken \in Nat /\ Len(queue) \in Nat
  BY LenProperties DEF CoreInv, TypeOK
<1>2. queue' = q /\ pruned' = pruned \cup Range(front)
  BY DEF PruneQueue
<1>3. /\ q \in Seq(1..taken) /\ Ascending(q)
      /\ Len(q) = IF Len(queue) > MaxRows THEN MaxRows ELSE Len(queue)
      /\ Queued = Range(front) \cup Range(q)
      /\ \A f \in Range(front), r \in Range(q) : f < r
  BY PruneEffect
<1>4. Len(queue) > MaxRows
  <2> SUFFICES ASSUME ~(Len(queue) > MaxRows) PROVE FALSE
      OBVIOUS
  <2>1. Excess = 0
    BY DEF Excess
  <2>2. q = queue
    BY <1>1, <2>1, SubSeqFull DEF QueueInv
  <2>3. front = <<>>
    BY <2>1, SubSeqEmpty
  <2>4. Range(front) = {}
    BY <2>3, RangeEmpty
  <2> HIDE DEF front, q
  <2> QED
    BY <1>2, <2>2, <2>4
<1> HIDE DEF front, q
<1>5. 1..taken \in SUBSET Nat
  BY <1>1
<1>6. Cardinality(Queued) > MaxRows
  BY <1>1, <1>4, <1>5, AscendingSize DEF QueueInv, Queued
<1>7. Queued' = Range(q) /\ Cardinality(Queued') = MaxRows
  BY <1>2, <1>3, <1>4, <1>5, AscendingSize DEF Queued
<1>8. /\ Queued' \subseteq Queued
      /\ \A s \in Queued \ Queued', r \in Queued' : s < r
  BY <1>3, <1>7
<1>9. pruned' = pruned \cup (Queued \ Queued')
  <2>1. Range(front) \cap Range(q) = {}
    <3> SUFFICES ASSUME NEW r \in Range(front), r \in Range(q) PROVE FALSE
        OBVIOUS
    <3>1. r < r /\ r \in Nat
      BY <1>3, <1>5, RangeOfSeq
    <3> QED
      BY <3>1
  <2> QED
    BY <1>2, <1>3, <1>7, <2>1
<1>10. UNCHANGED <<taken, sent>> /\ Held = 0 /\ Held' = 0
  BY DEF PruneQueue, EndPeriod
<1> QED
  BY <1>6, <1>7, <1>8, <1>9, <1>10, SameCardinality
  DEF Promise!GiveUp, Queued

LEMMA PromiseStep == CoreInv /\ [Next]_vars => [Promise!Next]_Promise!promiseVars
<1> SUFFICES ASSUME CoreInv, [Next]_vars
             PROVE  [Promise!Next]_Promise!promiseVars
    OBVIOUS
<1> USE DEF Promise!promiseVars
<1>1. TypeOK /\ HandInv /\ BatchInv
  BY DEF CoreInv
<1>2. CASE \/ OtherStep \/ Connect \/ FetchBatch \/ ReplayDone
           \/ SendOrEnqueue \/ NothingToSend \/ UNCHANGED vars
           \/ PollTimer /\ UNCHANGED taken
  BY <1>2, SamplesUntouched DEF Queued
<1>3. CASE PollTimer /\ taken' # taken
  <2>1. Promise!Make
    BY <1>1, <1>3 DEF PollTimer, HandInv, Queued, Promise!Make
  <2> QED
    BY <2>1 DEF Promise!Next
<1>4. CASE ReplayRecord
  <2>1. Promise!DeliverKept
    BY <1>4, HeadOldestKept
    DEF ReplayRecord, threadVars, Queued, Promise!DeliverKept
  <2> QED
    BY <2>1 DEF Promise!Next
<1>10. CASE ReplayFails
  <2>1. Queued' = Queued
    BY <1>10, ReplayFailure DEF Queued
  <2>2. CASE sent' = sent
    BY <1>10, <2>1, <2>2, ReplayFailure
  <2>3. CASE sent' = sent \cup {Head(records)}
    <3>1. Promise!DeliverKept
      BY <1>10, <2>1, <2>3, ReplayFailure, HeadOldestKept DEF Promise!DeliverKept
    <3> QED
      BY <3>1 DEF Promise!Next
  <2> QED
    BY <1>10, <2>2, <2>3, ReplayFailure
<1>11. CASE PublishFails
  <2>1. Queued' = Queued
    BY <1>11, PublishFailure DEF Queued
  <2>2. CASE sent' = sent
    BY <1>11, <2>1, <2>2, PublishFailure
  <2>3. CASE sent' = sent \cup {sample}
    <3>1. Promise!DeliverUnseen
      BY <1>11, <2>1, <2>3, PublishFailure DEF Promise!DeliverUnseen
    <3> QED
      BY <3>1 DEF Promise!Next
  <2> QED
    BY <1>11, <2>2, <2>3, PublishFailure
<1>5. CASE DeleteReplayed
  <2>1. mpc # "prune" /\ mpc' # "prune" /\ UNCHANGED <<taken, sample, sent, pruned>>
    BY <1>5 DEF DeleteReplayed
  <2>2. CASE UNCHANGED queue
    BY <2>1, <2>2 DEF Queued
  <2>3. CASE queue' = DeleteRow(queue, Head(records))
    <3>1. Queued' = Queued \ {Head(records)}
      BY <1>5, <2>3, DeleteEffect DEF DeleteReplayed, Queued
    <3>2. Head(records) \in Promise!OldestKept \cap sent
      BY <1>1, <1>5, HeadOldestKept DEF DeleteReplayed, BatchInv
    <3>3. Promise!Remove
      BY <2>1, <3>1, <3>2 DEF Promise!Remove
    <3> QED
      BY <3>3 DEF Promise!Next
  <2> QED
    BY <1>5, <2>2, <2>3 DEF DeleteReplayed
<1>6. CASE PublishSample
  <2>1. Promise!Deliver
    BY <1>1, <1>6
    DEF PublishSample, EndPeriod, HandInv, Queued, Promise!Deliver
  <2> QED
    BY <2>1 DEF Promise!Next
<1>7. CASE Enqueue
  <2>1. sample # 0 /\ mpc = "enqueue" /\ UNCHANGED <<taken, sent, pruned>>
    BY <1>1, <1>7 DEF Enqueue, HandInv
  <2>2. CASE queue' = Append(queue, sample) /\ mpc' = "prune"
    <3>1. Queued' = Queued \cup {sample}
      BY <2>1, <2>2, EnqueueEffect DEF Queued
    <3>2. Promise!Keep
      BY <2>1, <2>2, <3>1 DEF Promise!Keep
    <3> QED
      BY <3>2 DEF Promise!Next
  <2>3. CASE EndPeriod /\ UNCHANGED queue
    <3>1. Promise!Lose
      BY <2>1, <2>3 DEF EndPeriod, Queued, Promise!Lose
    <3> QED
      BY <3>1 DEF Promise!Next
  <2> QED
    BY <1>7, <2>2, <2>3 DEF Enqueue
<1>8. CASE PruneQueue
  <2>1. CASE UNCHANGED <<queue, pruned>>
    BY <1>8, <2>1 DEF PruneQueue, EndPeriod, Queued
  <2>2. CASE ~UNCHANGED <<queue, pruned>>
    BY <1>8, <2>2, PruneGivesUp DEF Promise!Next
  <2> QED
    BY <2>1, <2>2
<1>9. CASE Crash
  <2>1. UNCHANGED <<taken, queue, sent, pruned>> /\ Held' = 0
    BY <1>9 DEF Crash, ProcessEnds, Forget
  <2>2. CASE Held = 0
    BY <2>1, <2>2 DEF Queued
  <2>3. CASE Held # 0
    BY <2>1, <2>3 DEF Queued, Promise!Next, Promise!Lose
  <2> QED
    BY <2>2, <2>3
<1> QED
  BY <1>2, <1>3, <1>4, <1>5, <1>6, <1>7, <1>8, <1>9, <1>10, <1>11
  DEF Next, ThreadWork, OtherStep

LEMMA PromiseInit == Init => Promise!Init
<1> SUFFICES ASSUME Init PROVE Promise!Init
    OBVIOUS
<1>1. Queued = {}
  BY RangeEmpty DEF Init, Queued
<1> QED
  BY <1>1 DEF Init, Promise!Init

\* The thread, statement by statement, keeps the promise of StoreAndForward
\* through outages, failing statements and crashes, and although a publish that
\* is reported as failed may have been one: stored samples are sent
\* oldest first, leave the table only when sent or given up, and are given up
\* oldest first and no more than the excess.
THEOREM ReporterKeepsPromise == Spec => ImplementsStoreAndForward
<1>1. IInv /\ [Next]_vars => [Promise!Next]_Promise!promiseVars
  BY PromiseStep DEF IInv
<1> QED
  BY <1>1, PromiseInit, IInvHolds, PTL
  DEF Spec, ImplementsStoreAndForward, Promise!Spec
=============================================================================
