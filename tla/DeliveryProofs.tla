--------------------------- MODULE DeliveryProofs ---------------------------
(***************************************************************************)
(* What reaches a host and its metrics collector: the exporter counts      *)
(* every event, the outbox loses none silently, the stream with resync     *)
(* leaves no gap.  One inductive invariant each.                           *)
(***************************************************************************)
EXTENDS Feed, Outbox, Exporter, FiniteSetTheorems, SequenceTheorems, TLAPS

\* Induction over the naturals, in the form the provers can use: a set of
\* naturals that is not empty has a smallest element.
LEMMA SmallestNat ==
  ASSUME NEW S \in SUBSET Nat, S # {}
  PROVE  \E m \in S : \A n \in S : m <= n
<1>1. PICK m \in S : \A n \in S : ~(<<n, m>> \in OpToRel(<, Nat))
  BY WFMin, NatLessThanWellFounded, Zenon
<1>2. \A n \in S : ~(n < m)
  BY <1>1, Zenon DEF OpToRel
<1> QED BY <1>2

-----------------------------------------------------------------------------
(* The metrics exporter counts every event (Exporter) *)

\* The queue and what was folded before it, in the order of publication: no
\* event is queued twice or queued after it was folded.
InOrderOf(q, F, h) ==
  /\ q \in Seq(1 .. h) /\ F \subseteq 1 .. h
  /\ \A i, j \in 1 .. Len(q) : i < j => q[i] < q[j]
  /\ \A e \in F : \A i \in 1 .. Len(q) : e < q[i]

\* What the last flush relies on once it has drained the bus, and what the
\* task and the host may report.
Told ==
  /\ task = "final" => atStop = inFlight /\ queue = <<>> /\ drainedTo = heard
  /\ task = "returned" <=> taskSays >= 0
  /\ taskSays >= 0 =>
       Cardinality((1 .. drainedTo) \ accepted) <= taskSays + lostEvents
  /\ told >= 0 => taskSays = told

Counted ==
  /\ heard = Cardinality(folded) + Len(queue) + lostEvents
  /\ Cardinality(folded \ accepted) <= inFlight
  /\ inFlight <= Cardinality(folded)

ExporterInv ==
  /\ ExporterTypeOK /\ heard <= sent /\ InOrderOf(queue, folded, heard)
  /\ Counted /\ Told

Events(q) == {q[i] : i \in DOMAIN q}

\* The events of an ordered queue, as many as it is long.
LEMMA QueueSize ==
  ASSUME NEW h \in Nat, NEW q, NEW F, InOrderOf(q, F, h)
  PROVE  /\ IsFiniteSet(F) /\ IsFiniteSet(Events(q)) /\ Cardinality(F) \in Nat
         /\ Cardinality(Events(q)) = Len(q) /\ F \cap Events(q) = {}
         /\ IsFiniteSet(F \cup Events(q)) /\ F \cup Events(q) \subseteq 1 .. h
         /\ Cardinality(F \cup Events(q)) = Cardinality(F) + Len(q)
<1> DEFINE E == {q[i] : i \in DOMAIN q}
<1>1. q \in Seq(1 .. h) /\ Len(q) \in Nat /\ DOMAIN q = 1 .. Len(q)
  BY LenProperties DEF InOrderOf
<1>2. \A i \in 1 .. Len(q) : q[i] \in 1 .. h
  BY <1>1, ElementOfSeq
<1>3. F \subseteq 1 .. h /\ E \subseteq 1 .. h
  BY <1>1, <1>2 DEF InOrderOf
<1>4. IsFiniteSet(1 .. h)
  BY FS_Interval
<1>5. IsFiniteSet(F) /\ IsFiniteSet(E)
  BY <1>3, <1>4, FS_Subset
<1>6. Cardinality(E) = Len(q)
  <2> DEFINE f == [i \in 1 .. Len(q) |-> q[i]]
  <2>1. f \in [1 .. Len(q) -> E]
    BY <1>1
  <2>2. \A i, j \in 1 .. Len(q) : f[i] = f[j] => i = j
    BY <1>1, <1>2 DEF InOrderOf
  <2>3. \A e \in E : \E i \in 1 .. Len(q) : f[i] = e
    BY <1>1
  <2>4. f \in Bijection(1 .. Len(q), E)
    BY <2>1, <2>2, <2>3 DEF Bijection, Injection, Surjection, IsInjective
  <2>5. ExistsBijection(1 .. Len(q), E)
    BY <2>4 DEF ExistsBijection
  <2> QED BY <1>1, <2>5, FS_CountingElements
<1>7. F \cap E = {}
  BY <1>1, <1>2, <1>3 DEF InOrderOf
<1>8. Cardinality({}) = 0 /\ Cardinality(F) \in Nat
  BY <1>5, FS_EmptySet, FS_CardinalityType
<1> HIDE DEF E
<1>9. /\ IsFiniteSet(F \cup E)
      /\ Cardinality(F \cup E) = Cardinality(F) + Len(q)
  <2>1. IsFiniteSet(F \cup E) /\ Cardinality(F \cup E)
                                 = Cardinality(F) + Cardinality(E) - Cardinality(F \cap E)
    BY <1>5, FS_Union, Zenon
  <2>2. Cardinality(F \cap E) = 0
    BY <1>7, <1>8
  <2>3. Cardinality(F \cup E) = Cardinality(F) + Len(q) - 0
    BY <1>6, <2>1, <2>2
  <2> QED BY <1>1, <1>8, <2>1, <2>3
<1> QED BY <1>3, <1>5, <1>6, <1>7, <1>8, <1>9 DEF E, Events

\* What the receiver takes keeps the queue in order, within its capacity, and
\* counts whatever it passes over.
LEMMA ReceivedCounts ==
  ASSUME ExporterInv, NEW k \in Nat, heard + Lagged + k <= sent
  PROVE  LET now == heard + Lagged + k
         IN  /\ now \in heard .. sent
             /\ Received(k).queue \in Seq(1 .. MaxSent)
             /\ Len(Received(k).queue) \in 0 .. QueueMax
             /\ Received(k).lost \in Nat
             /\ InOrderOf(Received(k).queue, folded, now)
             /\ now = Cardinality(folded) + Len(Received(k).queue)
                        + Received(k).lost
<1> DEFINE now == heard + Lagged + k
           new == [i \in 1 .. k |-> heard + Lagged + i]
           q == queue \o new
           over == IF Len(q) > QueueMax THEN Len(q) - QueueMax ELSE 0
<1>0. /\ heard \in Nat /\ sent \in 0 .. MaxSent /\ lostEvents \in Nat /\ heard <= sent
      /\ QueueMax \in Nat \ {0} /\ BusMax \in Nat \ {0} /\ MaxSent \in Nat
      /\ queue \in Seq(1 .. heard) /\ Len(queue) \in Nat
      /\ Cardinality(folded) \in Nat
  <2>1. heard \in Nat /\ InOrderOf(queue, folded, heard)
    BY DEF ExporterInv, ExporterTypeOK
  <2>2. Cardinality(folded) \in Nat
    BY <2>1, QueueSize
  <2>3. queue \in Seq(1 .. heard) /\ Len(queue) \in Nat
    BY <2>1, LenProperties DEF InOrderOf
  <2> QED BY <2>1, <2>2, <2>3, ExporterAssumption DEF ExporterInv, ExporterTypeOK
<1>1. Lagged \in Nat
  BY <1>0 DEF Lagged
<1>2. now \in heard .. sent /\ now \in Nat
  BY <1>0, <1>1
<1>3. /\ new \in Seq(1 .. now) /\ Len(new) = k
      /\ \A i \in 1 .. k : new[i] = heard + Lagged + i
  <2>1. new \in [1 .. k -> 1 .. now]
    BY <1>0, <1>1
  <2> QED BY <2>1
<1>4. queue \in Seq(1 .. now)
  BY <1>0, <1>1, <1>2, SeqMonotonic
<1>5. /\ q \in Seq(1 .. now) /\ Len(q) = Len(queue) + k
      /\ \A i \in 1 .. Len(queue) + k :
           q[i] = IF i <= Len(queue) THEN queue[i]
                  ELSE heard + Lagged + (i - Len(queue))
  <2>1. /\ q \in Seq(1 .. now) /\ Len(q) = Len(queue) + Len(new)
        /\ \A i \in 1 .. Len(queue) + Len(new) :
             q[i] = IF i <= Len(queue) THEN queue[i] ELSE new[i - Len(queue)]
    BY <1>3, <1>4, ConcatProperties
  <2> QED BY <1>0, <1>3, <2>1
<1> HIDE DEF new, q
<1>l. Len(q) = Len(queue) + k /\ Len(q) \in Nat
  BY <1>0, <1>5
<1>e. /\ \A i \in 1 .. Len(q) : i <= Len(queue) => q[i] = queue[i]
      /\ \A i \in 1 .. Len(q) : i > Len(queue) =>
           q[i] = heard + Lagged + (i - Len(queue))
  BY <1>0, <1>5
<1>6. \A i \in 1 .. Len(queue) : queue[i] \in 1 .. heard
  BY <1>0, ElementOfSeq
<1>q. /\ \A i, j \in 1 .. Len(queue) : i < j => queue[i] < queue[j]
      /\ \A e \in folded : \A i \in 1 .. Len(queue) : e < queue[i]
      /\ folded \subseteq 1 .. heard
  BY DEF ExporterInv, InOrderOf
<1>7. ASSUME NEW i \in 1 .. Len(q), NEW j \in 1 .. Len(q), i < j
      PROVE  q[i] < q[j]
  <2>1. CASE j <= Len(queue)
    <3>1. q[i] = queue[i] /\ q[j] = queue[j]
      BY <1>0, <1>e, <1>l, <1>7, <2>1
    <3>2. i \in 1 .. Len(queue) /\ j \in 1 .. Len(queue)
      BY <1>0, <1>l, <1>7, <2>1
    <3> QED BY <1>7, <1>q, <3>1, <3>2
  <2>2. CASE i <= Len(queue) /\ j > Len(queue)
    <3>1. q[i] = queue[i] /\ q[j] = heard + Lagged + (j - Len(queue))
      BY <1>e, <2>2
    <3>2. queue[i] \in 1 .. heard
      BY <1>0, <1>l, <1>6, <2>2
    <3> QED BY <1>0, <1>1, <1>l, <2>2, <3>1, <3>2
  <2>3. CASE i > Len(queue)
    <3>1. /\ q[i] = heard + Lagged + (i - Len(queue))
          /\ q[j] = heard + Lagged + (j - Len(queue))
      BY <1>0, <1>e, <1>l, <1>7, <2>3
    <3> QED BY <1>0, <1>1, <1>l, <1>7, <3>1
  <2> QED BY <1>0, <1>l, <2>1, <2>2, <2>3
<1>8. ASSUME NEW e \in folded, NEW i \in 1 .. Len(q)
      PROVE  e < q[i]
  <2>1. CASE i <= Len(queue)
    <3>1. q[i] = queue[i] /\ i \in 1 .. Len(queue)
      BY <1>0, <1>e, <1>l, <2>1
    <3> QED BY <1>q, <3>1
  <2>2. CASE i > Len(queue)
    <3>1. q[i] = heard + Lagged + (i - Len(queue))
      BY <1>e, <2>2
    <3>2. e \in 1 .. heard
      BY <1>q
    <3> QED BY <1>0, <1>1, <1>l, <2>2, <3>1, <3>2
  <2> QED BY <1>0, <1>l, <2>1, <2>2
<1>9. over \in Nat /\ over <= Len(q) /\ Len(q) - over <= QueueMax
  BY <1>0, <1>5
<1> DEFINE r == SubSeq(q, over + 1, Len(q))
<1> HIDE DEF over
<1>10. /\ r \in Seq(1 .. now) /\ Len(r) = Len(q) - over
       /\ \A i \in 1 .. Len(q) - over : r[i] = q[over + i]
  <2>1. \A i \in over + 1 .. Len(q) : q[i] \in 1 .. now
    <3>1. \A i \in 1 .. Len(q) : q[i] \in 1 .. now
      BY <1>5, ElementOfSeq
    <3> QED BY <1>0, <1>5, <1>9, <3>1
  <2>2. /\ r \in Seq(1 .. now)
        /\ Len(r) = IF over + 1 <= Len(q) THEN Len(q) - (over + 1) + 1 ELSE 0
        /\ \A i \in 1 .. Len(q) - (over + 1) + 1 : r[i] = q[over + 1 + i - 1]
    BY <1>0, <1>5, <1>9, <2>1, SubSeqProperties
  <2> QED BY <1>0, <1>5, <1>9, <2>2
<1> HIDE DEF r
<1>11. Received(k).queue = r /\ Received(k).lost = lostEvents + Lagged + over
  BY DEF Received, r, over, q, new
<1>12. InOrderOf(r, folded, now)
  <2>1. \A i, j \in 1 .. Len(r) : i < j => r[i] < r[j]
    BY <1>0, <1>5, <1>7, <1>9, <1>10
  <2>2. \A e \in folded : \A i \in 1 .. Len(r) : e < r[i]
    BY <1>0, <1>5, <1>8, <1>9, <1>10
  <2>3. folded \subseteq 1 .. now
    BY <1>0, <1>2 DEF ExporterInv, InOrderOf
  <2> QED BY <1>10, <2>1, <2>2, <2>3 DEF InOrderOf
<1>13. r \in Seq(1 .. MaxSent)
  BY <1>0, <1>2, <1>10, SeqMonotonic
<1>14. now = Cardinality(folded) + Len(r) + (lostEvents + Lagged + over)
  <2>1. heard = Cardinality(folded) + Len(queue) + lostEvents
    BY DEF ExporterInv, Counted
  <2>2. Len(r) = Len(queue) + k - over
    BY <1>0, <1>l, <1>9, <1>10
  <2>3. /\ Lagged \in Int /\ over \in Int /\ lostEvents \in Int
        /\ Cardinality(folded) \in Int /\ Len(queue) \in Int
    BY <1>0, <1>1, <1>9
  <2> QED BY <2>1, <2>2, <2>3
<1>15. Len(r) \in 0 .. QueueMax /\ lostEvents + Lagged + over \in Nat
  BY <1>0, <1>1, <1>5, <1>9, <1>10
<1> QED BY <1>2, <1>11, <1>12, <1>13, <1>14, <1>15

\* The parts of the invariant a proof about numbers needs.
LEMMA ExporterNumbers ==
  ASSUME ExporterInv
  PROVE  /\ {sent, heard, inFlight, lostEvents, atStop, drainedTo} \subseteq Nat
         /\ Cardinality(folded) \in Nat /\ Len(queue) \in Nat
         /\ IsFiniteSet(folded) /\ folded \subseteq 1 .. heard
         /\ accepted \subseteq folded /\ MaxSent \in Nat /\ RetryMax \in Nat \ {0}
         /\ taskSays \in Int /\ told \in Int
<1>1. heard \in Nat /\ InOrderOf(queue, folded, heard)
  BY DEF ExporterInv, ExporterTypeOK
<1>2. /\ Cardinality(folded) \in Nat /\ IsFiniteSet(folded)
      /\ folded \subseteq 1 .. heard
  BY <1>1, QueueSize DEF InOrderOf
<1>3. Len(queue) \in Nat
  BY <1>1, LenProperties DEF InOrderOf
<1> QED BY <1>2, <1>3, ExporterAssumption
        DEF ExporterInv, ExporterTypeOK, Unsaid, NoCount

\* What the events a set of sums lacks amount to.
LEMMA Lacking ==
  ASSUME NEW F, IsFiniteSet(F), NEW A, A \subseteq F
  PROVE  /\ Cardinality(F) \in Nat /\ Cardinality(A) \in Nat
         /\ Cardinality(F \ A) = Cardinality(F) - Cardinality(A)
<1>1. IsFiniteSet(A) /\ F \cap A = A
  BY FS_Subset
<1> QED BY <1>1, FS_CardinalityType, FS_Difference

\* A drain loses nothing uncounted: every event is folded in, or passed over.
LEMMA DrainCounts ==
  ASSUME ExporterInv, DrainAndObserve
  PROVE  /\ heard' = sent /\ heard' = Cardinality(folded') + lostEvents'
         /\ lostEvents' \in Nat /\ inFlight' \in Nat /\ queue' = <<>>
         /\ folded' \subseteq 1 .. heard' /\ folded \subseteq folded'
         /\ Cardinality(folded' \ accepted) <= inFlight'
         /\ inFlight' <= Cardinality(folded') /\ Cardinality(folded') \in Nat
<1> DEFINE k == sent - heard - Lagged
           q == Received(k).queue
           E == Events(q)
<1>1. /\ sent \in Nat /\ heard \in Nat /\ heard <= sent /\ inFlight \in Nat
      /\ Cardinality(folded) \in Nat /\ IsFiniteSet(folded)
      /\ accepted \subseteq folded
  BY ExporterNumbers DEF ExporterInv
<1>2. BusMax \in Nat
  BY ExporterAssumption
<1>3. k \in Nat /\ heard + Lagged + k = sent
  BY <1>1, <1>2 DEF Lagged
<1>4. /\ InOrderOf(q, folded, sent) /\ Received(k).lost \in Nat
      /\ sent = Cardinality(folded) + Len(q) + Received(k).lost
      /\ Len(q) \in Nat
  <2> HIDE DEF k
  <2> QED BY <1>1, <1>3, ReceivedCounts
<1>5. /\ heard' = sent /\ queue' = <<>> /\ lostEvents' = Received(k).lost
      /\ folded' = folded \cup E /\ inFlight' = inFlight + Len(q)
  BY DEF DrainAndObserve, DrainAll, Events
<1> HIDE DEF q, k
<1>6. /\ IsFiniteSet(E) /\ Cardinality(E) = Len(q)
      /\ folded \cup E \subseteq 1 .. sent
      /\ Cardinality(folded \cup E) = Cardinality(folded) + Len(q)
  BY <1>1, <1>4, QueueSize
<1> HIDE DEF E
<1>7. Cardinality((folded \cup E) \ accepted) <= inFlight + Len(q)
  <2> DEFINE L == folded \ accepted
  <2>1. IsFiniteSet(L) /\ Cardinality(L) \in Nat /\ Cardinality(L) <= inFlight
    BY <1>1, FS_Difference, FS_CardinalityType DEF ExporterInv, Counted
  <2>2. IsFiniteSet(L \cup E)
    BY <1>6, <2>1, FS_Union
  <2>3. Cardinality(L \cup E) = Cardinality(L) + Len(q) - Cardinality(L \cap E)
    BY <1>6, <2>1, FS_Union
  <2>4. Cardinality(L \cap E) \in Nat /\ Cardinality(L \cup E) \in Nat
    BY <2>1, <2>2, FS_Intersection, FS_CardinalityType
  <2>5. (folded \cup E) \ accepted \subseteq L \cup E
    OBVIOUS
  <2>6. Cardinality((folded \cup E) \ accepted) <= Cardinality(L \cup E)
    BY <2>2, <2>5, FS_Subset
  <2>7. Cardinality((folded \cup E) \ accepted) \in Nat
    BY <2>2, <2>5, FS_Subset, FS_CardinalityType
  <2> HIDE DEF L
  <2> QED BY <1>1, <1>4, <2>1, <2>3, <2>4, <2>6, <2>7
<1>8. inFlight <= Cardinality(folded)
  BY DEF ExporterInv, Counted
<1>9. Cardinality(folded') = Cardinality(folded) + Len(q)
  BY <1>5, <1>6
<1>10. /\ inFlight' \in Nat /\ Cardinality(folded') \in Nat
       /\ inFlight' <= Cardinality(folded')
  BY <1>1, <1>4, <1>5, <1>8, <1>9
<1>11. heard' = Cardinality(folded') + lostEvents'
  BY <1>1, <1>4, <1>5, <1>9
<1> QED BY <1>4, <1>5, <1>6, <1>7, <1>10, <1>11

\* An answer, or the bound, of a post: what the collector lacks stays in
\* flight, and the last flush reports enough.
LEMMA PostCounts ==
  ASSUME ExporterInv, NEW A, A \in {accepted, folded}, NEW n \in Nat,
         n = inFlight \/ A = folded
  PROVE  /\ Cardinality(folded \ A) <= n
         /\ task = "final" =>
              Cardinality((1 .. drainedTo) \ A) <= n + lostEvents
<1>1. /\ IsFiniteSet(folded) /\ A \subseteq folded /\ folded \subseteq 1 .. heard
      /\ heard \in Nat /\ lostEvents \in Nat
  BY ExporterNumbers
<1>2. Cardinality(folded \ A) <= n
  <2>1. CASE A = folded
    <3>1. folded \ A = {}
      BY <2>1
    <3> QED BY <3>1, FS_EmptySet
  <2>2. CASE A # folded
    BY <2>2 DEF ExporterInv, Counted
  <2> QED BY <2>1, <2>2
<1>3. ASSUME task = "final"
      PROVE  Cardinality((1 .. drainedTo) \ A) <= n + lostEvents
  <2>1. queue = <<>> /\ drainedTo = heard
    BY <1>3 DEF ExporterInv, Told
  <2>2. heard = Cardinality(folded) + lostEvents
    <3>1. Len(queue) = 0
      BY <2>1
    <3> QED BY <1>1, <3>1, ExporterNumbers DEF ExporterInv, Counted
  <2>3. /\ IsFiniteSet(1 .. heard) /\ Cardinality(1 .. heard) = heard
        /\ A \subseteq 1 .. heard
    BY <1>1, FS_Interval
  <2>4. Cardinality((1 .. heard) \ A) = heard - Cardinality(A)
    BY <2>3, Lacking
  <2>5. /\ Cardinality(folded \ A) = Cardinality(folded) - Cardinality(A)
        /\ Cardinality(A) \in Nat /\ Cardinality(folded) \in Nat
    BY <1>1, Lacking
  <2> QED BY <1>1, <1>2, <2>1, <2>2, <2>4, <2>5
<1> QED BY <1>2, <1>3

\* The empty queue is in order.
LEMMA EmptyQueue ==
  ASSUME NEW h \in Nat, NEW F, F \subseteq 1 .. h
  PROVE  InOrderOf(<<>>, F, h) /\ <<>> \in Seq(1 .. MaxSent) /\ Len(<<>>) = 0
<1>1. /\ <<>> \in Seq(1 .. h) /\ <<>> \in Seq(1 .. MaxSent) /\ Len(<<>>) = 0
      /\ 1 .. 0 = {}
  BY EmptySeq
<1> QED BY <1>1 DEF InOrderOf

\* The initial state.
LEMMA ExporterInitInv == ExporterInit => ExporterInv
<1> SUFFICES ASSUME ExporterInit PROVE ExporterInv
  OBVIOUS
<1> USE DEF ExporterInit
<1>0. QueueMax \in Nat \ {0} /\ RetryMax \in Nat \ {0} /\ MaxSent \in Nat
  BY ExporterAssumption
<1>1. InOrderOf(queue, folded, heard) /\ queue \in Seq(1 .. MaxSent) /\ Len(queue) = 0
  BY EmptyQueue
<1>2. Cardinality(folded) = 0 /\ Cardinality(folded \ accepted) = 0
  <2>1. folded \ accepted = {}
    OBVIOUS
  <2> QED BY <2>1, FS_EmptySet
<1>3. ExporterTypeOK
  <2>1. tries \in 0 .. RetryMax
    BY <1>0
  <2>6. task = "listening"
    OBVIOUS
  <2>7. asked \in BOOLEAN
    OBVIOUS
  <2>2. {sent, heard, inFlight, lostEvents, atStop, drainedTo} \subseteq 0 .. MaxSent
    BY <1>0
  <2>3. Len(queue) <= QueueMax
    BY <1>0, <1>1
  <2>4. folded \subseteq 1 .. MaxSent /\ accepted \subseteq folded
    OBVIOUS
  <2>5. /\ taskSays \in 0 .. MaxSent \cup {Unsaid}
        /\ told \in 0 .. MaxSent \cup {Unsaid, NoCount}
    OBVIOUS
  <2> HIDE DEF ExporterInit
  <2> QED BY <1>1, <2>1, <2>2, <2>3, <2>4, <2>5, <2>6, <2>7 DEF ExporterTypeOK
<1>4. Counted
  BY <1>1, <1>2 DEF Counted
<1>5. Told
  BY DEF Told, Unsaid
<1> QED BY <1>1, <1>3, <1>4, <1>5 DEF ExporterInv

\* A drain at the beginning of a flush keeps all but the task's own state.
LEMMA DrainKeeps ==
  ASSUME ExporterInv, DrainAndObserve, task = "listening",
         UNCHANGED <<sent, accepted, taskSays, told>>,
         task' \in {"posting", "final"}, asked' \in BOOLEAN,
         atStop' \in 0 .. MaxSent, drainedTo' \in 0 .. MaxSent,
         task' = "final" => atStop' = inFlight' /\ drainedTo' = sent
  PROVE  ExporterInv'
<1>1. /\ heard' = sent /\ heard' = Cardinality(folded') + lostEvents'
      /\ lostEvents' \in Nat /\ inFlight' \in Nat /\ queue' = <<>>
      /\ folded' \subseteq 1 .. heard' /\ folded \subseteq folded'
      /\ Cardinality(folded' \ accepted) <= inFlight'
      /\ inFlight' <= Cardinality(folded') /\ Cardinality(folded') \in Nat
  BY DrainCounts
<1>2. sent \in 0 .. MaxSent /\ MaxSent \in Nat /\ accepted \subseteq folded
  BY ExporterNumbers DEF ExporterInv, ExporterTypeOK
<1>3. /\ InOrderOf(queue', folded', heard') /\ queue' \in Seq(1 .. MaxSent)
      /\ Len(queue') = 0
  <2>1. heard' \in Nat /\ folded' \subseteq 1 .. heard' /\ queue' = <<>>
    BY <1>1, <1>2
  <2>2. /\ InOrderOf(<<>>, folded', heard') /\ <<>> \in Seq(1 .. MaxSent)
        /\ Len(<<>>) = 0
    BY <2>1, EmptyQueue
  <2> QED BY <2>1, <2>2
<1>4. Counted'
  BY <1>1, <1>3 DEF Counted
<1>5. Told'
  BY <1>1 DEF ExporterInv, Told
<1>6. ExporterTypeOK'
  <2>1. {sent', heard', inFlight', lostEvents', atStop', drainedTo'}
          \subseteq 0 .. MaxSent
    BY <1>1, <1>2
  <2>2. folded' \subseteq 1 .. MaxSent /\ accepted' \subseteq folded'
    BY <1>1, <1>2
  <2>3. Len(queue') <= QueueMax /\ tries' \in 0 .. RetryMax
    BY <1>3, ExporterAssumption DEF DrainAndObserve
  <2> QED BY <1>3, <2>1, <2>2, <2>3 DEF ExporterInv, ExporterTypeOK
<1> QED BY <1>1, <1>2, <1>3, <1>4, <1>5, <1>6 DEF ExporterInv

\* Every step of the exporter, the bus and the host keeps the invariant.
LEMMA ExporterStep == ExporterInv /\ [ExporterNext]_exporterVars => ExporterInv'
<1> SUFFICES ASSUME ExporterInv, [ExporterNext]_exporterVars PROVE ExporterInv'
  OBVIOUS
<1>n. /\ {sent, heard, inFlight, lostEvents, atStop, drainedTo} \subseteq Nat
      /\ Cardinality(folded) \in Nat /\ Len(queue) \in Nat
      /\ accepted \subseteq folded /\ MaxSent \in Nat /\ RetryMax \in Nat \ {0}
      /\ taskSays \in Int /\ told \in Int /\ heard <= sent
  BY ExporterNumbers DEF ExporterInv
<1>1. CASE Broadcast
  <2>1. sent' \in 0 .. MaxSent /\ heard <= sent'
    BY <1>1, <1>n DEF Broadcast
  <2>2. UNCHANGED <<heard, queue, folded, inFlight, lostEvents, accepted, task,
                    tries, asked, atStop, drainedTo, taskSays, told>>
    BY <1>1 DEF Broadcast
  <2> QED BY <2>1, <2>2 DEF ExporterInv, ExporterTypeOK, Counted, Told
<1>2. CASE Hear
  <2> DEFINE k == IF Lagged > 0 THEN 0 ELSE 1
  <2>1. /\ task = "listening" /\ heard < sent
        /\ heard' = heard + Lagged + k
        /\ queue' = Received(k).queue /\ lostEvents' = Received(k).lost
        /\ UNCHANGED <<sent, folded, inFlight, accepted, task, tries, asked,
                       atStop, drainedTo, taskSays, told>>
    BY <1>2 DEF Hear
  <2>2. k \in Nat /\ heard + Lagged + k <= sent
    BY <1>n, <2>1, ExporterAssumption DEF Lagged
  <2> HIDE DEF k
  <2>3. /\ heard' \in heard .. sent
        /\ queue' \in Seq(1 .. MaxSent) /\ Len(queue') \in 0 .. QueueMax
        /\ lostEvents' \in Nat /\ InOrderOf(queue', folded, heard')
        /\ heard' = Cardinality(folded) + Len(queue') + lostEvents'
    BY <2>1, <2>2, ReceivedCounts
  <2>4. Counted' /\ Told'
    BY <2>1, <2>3 DEF ExporterInv, Counted, Told
  <2>5. ExporterTypeOK'
    <3>1. sent \in 0 .. MaxSent
      BY DEF ExporterInv, ExporterTypeOK
    <3>2. heard' \in 0 .. MaxSent /\ lostEvents' \in 0 .. MaxSent
      BY <1>n, <2>3, <3>1
    <3>3. Len(queue') <= QueueMax
      BY <2>3, ExporterAssumption
    <3> QED BY <2>1, <2>3, <3>2, <3>3 DEF ExporterInv, ExporterTypeOK
  <2> QED BY <1>n, <2>1, <2>3, <2>4, <2>5 DEF ExporterInv
<1>3. CASE Flush
  <2>1. /\ task = "listening" /\ task' = "posting" /\ DrainAndObserve
        /\ UNCHANGED <<sent, accepted, asked, atStop, drainedTo, taskSays, told>>
    BY <1>3 DEF Flush
  <2>2. asked \in BOOLEAN /\ atStop \in 0 .. MaxSent /\ drainedTo \in 0 .. MaxSent
    BY DEF ExporterInv, ExporterTypeOK
  <2> QED BY <2>1, <2>2, DrainKeeps
<1>4. CASE FinalFlush
  <2>1. /\ task = "listening" /\ task' = "final" /\ DrainAndObserve
        /\ atStop' = inFlight' /\ drainedTo' = sent
        /\ UNCHANGED <<sent, accepted, asked, taskSays, told>>
    BY <1>4 DEF FinalFlush, CountAtStop
  <2>2. asked \in BOOLEAN /\ sent \in 0 .. MaxSent
    BY DEF ExporterInv, ExporterTypeOK
  <2>3. /\ inFlight' \in Nat /\ inFlight' <= Cardinality(folded')
        /\ Cardinality(folded') \in Nat /\ lostEvents' \in Nat
        /\ sent = Cardinality(folded') + lostEvents'
    BY <2>1, DrainCounts
  <2>4. inFlight' \in 0 .. MaxSent
    BY <1>n, <2>2, <2>3
  <2> QED BY <2>1, <2>2, <2>4, DrainKeeps
<1>5. CASE PostAnswered
  <2>1. PICK took \in BOOLEAN, says \in {"ok", "retryable", "terminal"} :
          /\ says = "ok" => took
          /\ accepted' = (IF took THEN folded ELSE accepted)
          /\ inFlight' = (IF says = "ok" THEN 0 ELSE inFlight)
          /\ \/ tries < RetryMax /\ says = "retryable" /\ tries' = tries + 1
                  /\ UNCHANGED <<task, taskSays>>
             \/ /\ task' = (IF task = "final" THEN "returned" ELSE "listening")
                /\ taskSays' = (IF task = "final" THEN inFlight' ELSE taskSays)
                /\ tries' = 0
    BY <1>5 DEF PostAnswered
  <2>2. /\ task \in {"posting", "final"}
        /\ UNCHANGED <<sent, heard, queue, folded, lostEvents, asked, atStop,
                       drainedTo, told>>
    BY <1>5 DEF PostAnswered
  <2>3. /\ accepted' \in {accepted, folded} /\ inFlight' \in {0, inFlight}
        /\ inFlight' = inFlight \/ accepted' = folded
    BY <2>1
  <2>4. inFlight' \in Nat /\ inFlight' <= inFlight
    BY <1>n, <2>3
  <2>5. /\ Cardinality(folded \ accepted') <= inFlight'
        /\ task = "final" =>
             Cardinality((1 .. drainedTo) \ accepted') <= inFlight' + lostEvents
    BY <2>3, <2>4, PostCounts
  <2>6. taskSays < 0 /\ told < 0
    BY <1>n, <2>2 DEF ExporterInv, Told
  <2>7. Counted'
    BY <1>n, <2>2, <2>4, <2>5 DEF ExporterInv, Counted
  <2>8. Told'
    <3>1. CASE UNCHANGED <<task, taskSays>> /\ says = "retryable"
      BY <2>1, <2>2, <2>6, <3>1 DEF ExporterInv, Told
    <3>2. CASE /\ task' = (IF task = "final" THEN "returned" ELSE "listening")
               /\ taskSays' = (IF task = "final" THEN inFlight' ELSE taskSays)
      BY <1>n, <2>2, <2>4, <2>5, <2>6, <3>2 DEF Told
    <3> QED BY <2>1, <3>1, <3>2
  <2>9. ExporterTypeOK'
    <3>1. tries' \in 0 .. RetryMax
      <4>1. tries \in 0 .. RetryMax
        BY DEF ExporterInv, ExporterTypeOK
      <4>2. tries' = 0 \/ (tries < RetryMax /\ tries' = tries + 1)
        BY <2>1
      <4> QED BY <1>n, <4>1, <4>2
    <3>2. inFlight' \in 0 .. MaxSent
      <4>1. inFlight \in 0 .. MaxSent
        BY DEF ExporterInv, ExporterTypeOK
      <4> QED BY <1>n, <2>3, <4>1
    <3>3. taskSays' \in 0 .. MaxSent \cup {Unsaid}
      BY <2>1, <3>2 DEF ExporterInv, ExporterTypeOK
    <3>4. task' \in {"listening", "posting", "final", "returned"}
      BY <2>1, <2>2
    <3>5. accepted' \subseteq folded
      BY <1>n, <2>3
    <3> QED BY <2>2, <3>1, <3>2, <3>3, <3>4, <3>5
            DEF ExporterInv, ExporterTypeOK
  <2> QED BY <1>n, <2>2, <2>7, <2>8, <2>9 DEF ExporterInv
<1>6. CASE FinalBound
  <2>1. /\ task = "final" /\ task' = "returned"
        /\ accepted' \in {accepted, folded} /\ taskSays' = atStop /\ tries' = 0
        /\ UNCHANGED <<sent, heard, queue, folded, inFlight, lostEvents, asked,
                       atStop, drainedTo, told>>
    BY <1>6 DEF FinalBound
  <2>2. atStop = inFlight /\ taskSays < 0 /\ told < 0
    BY <1>n, <2>1 DEF ExporterInv, Told
  <2>3. /\ Cardinality(folded \ accepted') <= inFlight
        /\ Cardinality((1 .. drainedTo) \ accepted') <= inFlight + lostEvents
    BY <1>n, <2>1, PostCounts
  <2>4. Counted' /\ Told'
    BY <1>n, <2>1, <2>2, <2>3 DEF ExporterInv, Counted, Told
  <2>5. ExporterTypeOK'
    <3>1. atStop \in 0 .. MaxSent /\ tries' \in 0 .. RetryMax
      BY <1>n, <2>1 DEF ExporterInv, ExporterTypeOK
    <3>2. accepted' \subseteq folded
      BY <1>n, <2>1
    <3> QED BY <2>1, <3>1, <3>2 DEF ExporterInv, ExporterTypeOK
  <2> QED BY <1>n, <2>1, <2>4, <2>5 DEF ExporterInv
<1>7. CASE AskStop
  BY <1>7 DEF AskStop, ExporterInv, ExporterTypeOK, Counted, Told
<1>8. CASE ToldCount
  <2>1. /\ told' = IF task = "returned" THEN taskSays ELSE NoCount
        /\ UNCHANGED <<sent, heard, queue, folded, inFlight, lostEvents, accepted,
                       task, tries, asked, atStop, drainedTo, taskSays>>
    BY <1>8 DEF ToldCount
  <2>2. Told'
    BY <2>1 DEF ExporterInv, Told, NoCount
  <2>3. ExporterTypeOK'
    BY <2>1 DEF ExporterInv, ExporterTypeOK
  <2> QED BY <2>1, <2>2, <2>3 DEF ExporterInv, Counted
<1>9. CASE UNCHANGED exporterVars
  BY <1>9 DEF exporterVars, ExporterInv, ExporterTypeOK, Counted, Told
<1> QED BY <1>1, <1>2, <1>3, <1>4, <1>5, <1>6, <1>7, <1>8, <1>9 DEF ExporterNext

\* The export of metrics is typed, ordered and counted for ever.
THEOREM ExporterInvariance == ExporterSpec => []ExporterInv
<1> QED BY ExporterInitInv, ExporterStep, PTL DEF ExporterSpec

\* However many events are published, and whatever becomes of the posts and of
\* their answers, no event disappears uncounted, and a count that
\* OtlpExporter::shutdown returns covers all the collector lacks.
THEOREM MetricsAreAccounted == ExporterSpec => []ExporterAccounts
<1>1. ExporterInv => ExporterAccounts
  BY DEF ExporterInv, Counted, Told, ExporterAccounts
<1> QED BY <1>1, ExporterInvariance, PTL

-----------------------------------------------------------------------------
(* The size of the outbox *)

\* Induction over the subsets of a finite set: what holds of a set whenever it
\* holds of all its proper subsets holds of each.  The property is given as
\* the set of those that have it.
LEMMA SubsetInduction ==
  ASSUME NEW D, IsFiniteSet(D), NEW Good,
         \A s \in SUBSET D :
           (\A t \in SUBSET s : t # s => t \in Good) => s \in Good
  PROVE  \A s \in SUBSET D : s \in Good
<1> DEFINE Sizes == {n \in Nat : \E s \in SUBSET D : s \notin Good /\ Cardinality(s) = n}
<1>1. \A s \in SUBSET D : IsFiniteSet(s) /\ Cardinality(s) \in Nat
  BY FS_Subset, FS_CardinalityType
<1>2. SUFFICES ASSUME NEW b \in SUBSET D, b \notin Good PROVE FALSE
  OBVIOUS
<1>3. Sizes # {} /\ Sizes \in SUBSET Nat
  BY <1>1, <1>2
<1>4. PICK m \in Sizes : \A n \in Sizes : m <= n
  BY <1>3, SmallestNat
<1>5. PICK s \in SUBSET D : s \notin Good /\ Cardinality(s) = m
  BY <1>4
<1>6. ASSUME NEW t \in SUBSET s, t # s PROVE t \in Good
  <2>1. t \in SUBSET D
    BY <1>5
  <2>2. IsFiniteSet(s) /\ Cardinality(t) \in Nat /\ Cardinality(s) \in Nat
    BY <1>1, <1>5, <2>1
  <2>3. Cardinality(t) <= Cardinality(s) /\ Cardinality(t) # Cardinality(s)
    BY <1>6, <2>2, FS_Subset
  <2>4. Cardinality(t) \notin Sizes
    BY <1>4, <1>5, <2>2, <2>3
  <2> QED BY <2>1, <2>2, <2>4
<1> QED BY <1>5, <1>6

\* The summands of a size, one at a time.
Pick(s) == CHOOSE x \in s : TRUE
SizeOf(it, s) == IF s = {} THEN 0 ELSE it[s \ {Pick(s)}] + Bytes[Pick(s)]

\* The function by which FoldSet computes a size.
Sums(it, S) == it = [s \in SUBSET S |-> SizeOf(it, s)]

\* The size in terms of that function.
LEMMA SizeUnfolds ==
  ASSUME NEW S
  PROVE  Size(S) = (CHOOSE it : Sums(it, S))[S]
BY DEF Size, FoldSet, MapThenFoldSet, Sums, SizeOf, Pick

\* What is picked is an element.
LEMMA Picked ==
  ASSUME NEW s, s # {}
  PROVE  Pick(s) \in s
BY DEF Pick

\* Events have a size.
LEMMA Sizes ==
  /\ IsFiniteSet(Seqs) /\ Seqs \subseteq Nat
  /\ \A s \in SUBSET Seqs : IsFiniteSet(s) /\ Cardinality(s) \in Nat
  /\ \A x \in Seqs : Bytes[x] \in Nat
<1>1. IsFiniteSet(Seqs) /\ Seqs \subseteq Nat
  BY OutboxAssumption, FS_Interval DEF Seqs
<1>2. \A s \in SUBSET Seqs : IsFiniteSet(s) /\ Cardinality(s) \in Nat
  BY <1>1, FS_Subset, FS_CardinalityType
<1> QED BY <1>1, <1>2, OutboxAssumption DEF Seqs

\* There is such a function: it is built one cardinality at a time.
LEMMA SumsExist ==
  ASSUME NEW S \in SUBSET Seqs
  PROVE  \E it \in [SUBSET S -> Nat] : Sums(it, S)
<1> DEFINE Upto(g, n) == \A s \in SUBSET S : Cardinality(s) <= n => g[s] = SizeOf(g, s)
           Missed == {n \in Nat : ~ \E g \in [SUBSET S -> Nat] : Upto(g, n)}
<1>0. \A s \in SUBSET S : IsFiniteSet(s) /\ Cardinality(s) \in Nat
  BY Sizes
<1>1. Missed = {}
  <2>1. SUFFICES ASSUME Missed # {} PROVE FALSE
    OBVIOUS
  <2>2. PICK m \in Missed : \A n \in Missed : m <= n
    <3>1. Missed \in SUBSET Nat
      OBVIOUS
    <3> HIDE DEF Missed
    <3> QED BY <2>1, <3>1, SmallestNat
  <2>3. CASE m = 0
    <3> DEFINE g == [s \in SUBSET S |-> 0]
    <3>1. g \in [SUBSET S -> Nat]
      OBVIOUS
    <3>2. ASSUME NEW s \in SUBSET S, Cardinality(s) <= 0 PROVE g[s] = SizeOf(g, s)
      <4>1. s = {}
        BY <1>0, <3>2, FS_EmptySet
      <4> QED BY <4>1 DEF SizeOf
    <3> QED BY <2>2, <2>3, <3>1, <3>2
  <2>4. CASE m # 0
    <3>1. m - 1 \in Nat /\ m - 1 \notin Missed
      <4>1. m \in Nat /\ m - 1 \in Nat
        BY <2>2, <2>4
      <4>2. m - 1 \in Missed => m <= m - 1
        BY <2>2
      <4> HIDE DEF Missed
      <4> QED BY <4>1, <4>2
    <3>2. PICK g \in [SUBSET S -> Nat] : Upto(g, m - 1)
      BY <3>1
    <3> DEFINE h == [s \in SUBSET S |-> SizeOf(g, s)]
    <3>3. \A s \in SUBSET S : s # {} =>
            /\ Pick(s) \in s /\ s \ {Pick(s)} \in SUBSET S
            /\ Cardinality(s \ {Pick(s)}) = Cardinality(s) - 1
      BY <1>0, Picked, FS_RemoveElement
    <3>4. h \in [SUBSET S -> Nat]
      <4>1. ASSUME NEW s \in SUBSET S PROVE SizeOf(g, s) \in Nat
        <5>1. CASE s = {}
          BY <5>1 DEF SizeOf
        <5>2. CASE s # {}
          <6>1. g[s \ {Pick(s)}] \in Nat
            BY <3>2, <3>3, <5>2
          <6>2. Bytes[Pick(s)] \in Nat
            BY <3>3, <5>2, Sizes
          <6> QED BY <5>2, <6>1, <6>2 DEF SizeOf
        <5> QED BY <5>1, <5>2
      <4> QED BY <4>1
    <3>5. ASSUME NEW s \in SUBSET S, Cardinality(s) <= m
          PROVE  h[s] = SizeOf(h, s)
      <4>1. CASE s = {}
        BY <4>1 DEF SizeOf
      <4>2. CASE s # {}
        <5> DEFINE t == s \ {Pick(s)}
        <5>1. t \in SUBSET S /\ Cardinality(t) <= m - 1
          BY <1>0, <2>2, <3>3, <3>5, <4>2
        <5>2. h[t] = g[t]
          BY <3>2, <5>1
        <5> QED BY <4>2, <5>2, <5>1 DEF SizeOf
      <4> QED BY <4>1, <4>2
    <3> HIDE DEF h
    <3> QED BY <2>2, <3>4, <3>5
  <2> QED BY <2>3, <2>4
<1>2. Cardinality(S) \in Nat
  BY <1>0
<1>3. PICK g \in [SUBSET S -> Nat] : Upto(g, Cardinality(S))
  BY <1>1, <1>2
<1>4. \A s \in SUBSET S : Cardinality(s) <= Cardinality(S)
  BY <1>0, FS_Subset
<1>5. \A s \in SUBSET S : g[s] = SizeOf(g, s)
  BY <1>3, <1>4
<1>6. g = [s \in SUBSET S |-> SizeOf(g, s)]
  <2>1. g = [s \in SUBSET S |-> g[s]]
    OBVIOUS
  <2> QED BY <1>5, <2>1
<1> QED BY <1>6 DEF Sums

\* Two of them agree wherever both are defined.
LEMMA SumsAgree ==
  ASSUME NEW S \in SUBSET Seqs, NEW f, Sums(f, S),
         NEW T \in SUBSET Seqs, NEW g, Sums(g, T)
  PROVE  \A s \in SUBSET (S \cap T) : f[s] = g[s]
<1> DEFINE D == S \cap T
           Good == {s \in SUBSET D : f[s] = g[s]}
<1>1. IsFiniteSet(D)
  BY Sizes
<1>2. ASSUME NEW s \in SUBSET D, \A t \in SUBSET s : t # s => t \in Good
      PROVE  s \in Good
  <2>1. f[s] = SizeOf(f, s) /\ g[s] = SizeOf(g, s)
    BY DEF Sums
  <2>2. s # {} => f[s \ {Pick(s)}] = g[s \ {Pick(s)}]
    <3>1. s # {} => s \ {Pick(s)} \in SUBSET s /\ s \ {Pick(s)} # s
      BY Picked
    <3> QED BY <1>2, <3>1
  <2>3. SizeOf(f, s) = SizeOf(g, s)
    BY <2>2 DEF SizeOf
  <2> QED BY <2>1, <2>3
<1>3. \A s \in SUBSET D : s \in Good
  <2> HIDE DEF Good
  <2> QED BY <1>1, <1>2, SubsetInduction
<1> QED BY <1>3

\* The size of a set is a number, and the size of what is left without the
\* event that FoldSet picks, and that event's.
LEMMA SizeStep ==
  ASSUME NEW S \in SUBSET Seqs
  PROVE  /\ Size(S) \in Nat
         /\ S = {} => Size(S) = 0
         /\ S # {} => Size(S) = Size(S \ {Pick(S)}) + Bytes[Pick(S)]
<1> DEFINE it(X) == CHOOSE f : Sums(f, X)
<1>1. \A X \in SUBSET Seqs : Sums(it(X), X)
  <2> TAKE X \in SUBSET Seqs
  <2>1. \E f : Sums(f, X)
    BY SumsExist
  <2> QED BY <2>1
<1>2. \A X : Size(X) = it(X)[X]
  BY SizeUnfolds
<1> HIDE DEF it
<1>3. PICK g \in [SUBSET S -> Nat] : Sums(g, S)
  BY SumsExist
<1>4. Size(S) \in Nat
  <2>1. it(S)[S] = g[S]
    BY <1>1, <1>3, SumsAgree
  <2> QED BY <1>2, <1>3, <2>1
<1>5. it(S)[S] = SizeOf(it(S), S)
  BY <1>1 DEF Sums
<1>6. ASSUME S # {}
      PROVE  it(S)[S \ {Pick(S)}] = it(S \ {Pick(S)})[S \ {Pick(S)}]
  <2> DEFINE T == S \ {Pick(S)}
  <2>1. T \in SUBSET Seqs /\ T \in SUBSET (S \cap T)
    OBVIOUS
  <2>2. Sums(it(T), T) /\ Sums(it(S), S)
    BY <1>1, <2>1
  <2> HIDE DEF T
  <2>3. ASSUME NEW f, Sums(f, S), NEW h, Sums(h, T) PROVE f[T] = h[T]
    BY <2>1, <2>3, SumsAgree
  <2> QED BY <2>2, <2>3 DEF T
<1> QED BY <1>2, <1>4, <1>5, <1>6 DEF SizeOf

\* Whichever event is taken away, the size goes down by its size.
LEMMA SizeWithout ==
  ASSUME NEW S \in SUBSET Seqs, NEW x \in S
  PROVE  Size(S) = Size(S \ {x}) + Bytes[x]
<1> DEFINE Good == {s \in SUBSET Seqs : \A y \in s : Size(s) = Size(s \ {y}) + Bytes[y]}
<1>1. ASSUME NEW s \in SUBSET Seqs, \A t \in SUBSET s : t # s => t \in Good
      PROVE  s \in Good
  <2> SUFFICES ASSUME NEW y \in s PROVE Size(s) = Size(s \ {y}) + Bytes[y]
    OBVIOUS
  <2> DEFINE p == Pick(s)
  <2>1. p \in s /\ Size(s) = Size(s \ {p}) + Bytes[p]
    BY Picked, SizeStep
  <2> HIDE DEF p
  <2>2. CASE y = p
    BY <2>1, <2>2
  <2>3. CASE y # p
    <3>1. s \ {p} \in Good /\ s \ {y} \in Good
      BY <1>1, <2>1
    <3>2. Size(s \ {p}) = Size((s \ {p}) \ {y}) + Bytes[y]
      BY <2>3, <3>1
    <3>3. Size(s \ {y}) = Size((s \ {y}) \ {p}) + Bytes[p]
      BY <2>1, <2>3, <3>1
    <3>4. (s \ {p}) \ {y} = (s \ {y}) \ {p}
      OBVIOUS
    <3>5. Size((s \ {y}) \ {p}) \in Nat /\ Bytes[p] \in Nat /\ Bytes[y] \in Nat
      BY <2>1, Sizes, SizeStep
    <3> QED BY <2>1, <3>2, <3>3, <3>4, <3>5
  <2> QED BY <2>2, <2>3
<1>2. \A s \in SUBSET Seqs : s \in Good
  <2> HIDE DEF Good
  <2> QED BY <1>1, Sizes, SubsetInduction
<1> QED BY <1>2

\* More events are no smaller.
LEMMA SizeGrows ==
  ASSUME NEW T \in SUBSET Seqs, NEW S \in SUBSET T
  PROVE  Size(S) <= Size(T)
<1> DEFINE Good == {u \in SUBSET Seqs : \A v \in SUBSET u : Size(v) <= Size(u)}
<1>1. ASSUME NEW s \in SUBSET Seqs, \A t \in SUBSET s : t # s => t \in Good
      PROVE  s \in Good
  <2> SUFFICES ASSUME NEW v \in SUBSET s PROVE Size(v) <= Size(s)
    OBVIOUS
  <2>1. Size(v) \in Nat /\ Size(s) \in Nat
    BY SizeStep
  <2>2. CASE v = s
    BY <2>1, <2>2
  <2>3. CASE v # s
    <3>1. PICK y \in s : y \notin v
      BY <2>3
    <3>2. s \ {y} \in Good /\ v \in SUBSET (s \ {y})
      BY <1>1, <3>1
    <3>3. Size(v) <= Size(s \ {y})
      BY <3>2
    <3>4. Size(s) = Size(s \ {y}) + Bytes[y]
      BY SizeWithout
    <3>5. Size(s \ {y}) \in Nat /\ Bytes[y] \in Nat
      BY Sizes, SizeStep
    <3> QED BY <2>1, <3>3, <3>4, <3>5
  <2> QED BY <2>2, <2>3
<1>2. \A s \in SUBSET Seqs : s \in Good
  <2> HIDE DEF Good
  <2> QED BY <1>1, Sizes, SubsetInduction
<1> QED BY <1>2

-----------------------------------------------------------------------------
(* The export loses nothing silently (Outbox) *)

\* The host holds the event, or was refused for it.
Held(n) == \A s \in 1 .. n : s \in pulled \/ s <= toldLost

\* The retained rows are the last ones, without a gap.
Window == (seqs = {} /\ minted = 0) \/ \E lo \in 1 .. minted : seqs = lo .. minted

\* What was acknowledged had been stored, what was stored or pulled is held,
\* and the host was refused for nothing that is still retained.
Cursors ==
  /\ acked <= storedTo /\ Held(storedTo)
  /\ pulledTo # None => Held(pulledTo)
  /\ toldLost <= RetainedFrom - 1

\* The newest row dropped without an acknowledgement had to go.
Needed ==
  RetainedFrom - 1 > acked => Size(seqs \cup {RetainedFrom - 1}) > OutboxCap

OutboxInv == OutboxTypeOK /\ Window /\ Cursors /\ Needed

\* A bounded set of naturals has a largest element, and Max finds it.
LEMMA LargestNat ==
  ASSUME NEW b \in Nat, NEW S \in SUBSET (0 .. b), S # {}
  PROVE  Max(S) \in S /\ \A y \in S : y <= Max(S)
<1> DEFINE T == {b - y : y \in S}
<1>1. T \in SUBSET Nat /\ T # {}
  <2>1. ASSUME NEW y \in S PROVE b - y \in Nat
    <3>1. y \in 0 .. b
      OBVIOUS
    <3> QED BY <3>1
  <2>2. PICK y \in S : TRUE
    OBVIOUS
  <2>3. b - y \in T
    BY <2>2
  <2> QED BY <2>1, <2>3
<1>2. PICK m \in T : \A n \in T : m <= n
  <2> HIDE DEF T
  <2> QED BY <1>1, SmallestNat
<1>3. PICK x \in S : m = b - x
  BY <1>2
<1>4. \A y \in S : x >= y
  <2> TAKE y \in S
  <2>1. m <= b - y
    BY <1>2
  <2> QED BY <1>3, <2>1
<1>5. \E z \in S : \A y \in S : z >= y
  BY <1>4
<1>6. Max(S) \in S /\ \A y \in S : Max(S) >= y
  BY <1>5 DEF Max
<1> QED BY <1>6

\* The first of an interval.
LEMMA SmallestOf ==
  ASSUME NEW a \in Int, NEW b \in Int, a <= b
  PROVE  Min(a .. b) = a
<1>1. a \in a .. b /\ \A y \in a .. b : a =< y
  OBVIOUS
<1>2. Min(a .. b) \in a .. b /\ \A y \in a .. b : Min(a .. b) =< y
  BY <1>1 DEF Min
<1> QED BY <1>1, <1>2

\* The bounds of the outbox.
LEMMA WindowBounds ==
  ASSUME minted \in 0 .. MaxAppends, Window
  PROVE  /\ RetainedFrom \in 1 .. minted + 1 /\ TailSeq = minted
         /\ seqs = RetainedFrom .. minted
         /\ minted > 0 => RetainedFrom <= minted
<1>0. minted \in Nat
  BY OutboxAssumption
<1>1. CASE seqs = {} /\ minted = 0
  BY <1>1 DEF RetainedFrom, TailSeq
<1>2. CASE seqs # {} \/ minted # 0
  <2>1. PICK lo \in 1 .. minted : seqs = lo .. minted
    BY <1>2 DEF Window
  <2>2. seqs # {} /\ lo \in Int /\ lo <= minted
    <3>1. lo \in lo .. minted
      BY <1>0, <2>1
    <3> QED BY <1>0, <2>1, <3>1
  <2>3. RetainedFrom = lo
    BY <1>0, <2>1, <2>2, SmallestOf DEF RetainedFrom
  <2>4. TailSeq = minted
    <3>1. seqs \in SUBSET (0 .. minted) /\ minted \in seqs
      BY <1>0, <2>1
    <3>2. Max(seqs) \in seqs /\ \A y \in seqs : y <= Max(seqs)
      BY <1>0, <2>2, <3>1, LargestNat
    <3>3. Max(seqs) \in 0 .. minted /\ minted <= Max(seqs)
      BY <3>1, <3>2
    <3> QED BY <1>0, <2>2, <3>3 DEF TailSeq
  <2> QED BY <1>0, <2>1, <2>3, <2>4
<1> QED BY <1>1, <1>2

\* The numbers of the outbox, for the proofs that calculate with them.
LEMMA OutboxNumbers ==
  ASSUME OutboxInv
  PROVE  /\ minted \in Nat /\ MaxAppends \in Nat /\ minted <= MaxAppends
         /\ acked \in 0 .. minted /\ storedTo \in 0 .. minted
         /\ toldLost \in 0 .. minted /\ (pulledTo = None \/ pulledTo \in 0 .. minted)
         /\ RetainedFrom \in 1 .. minted + 1 /\ TailSeq = minted
         /\ seqs = RetainedFrom .. minted /\ (minted > 0 => RetainedFrom <= minted)
         /\ OutboxCap \in Nat /\ seqs \subseteq Seqs /\ pulled \subseteq Seqs
BY WindowBounds, OutboxAssumption DEF OutboxInv, OutboxTypeOK

\* The append drops a prefix of the rows, and none without need.
LEMMA AppendWindow ==
  ASSUME OutboxInv, AppendOutbox
  PROVE  /\ Window' /\ RetainedFrom <= RetainedFrom' /\ RetainedFrom' \in Nat
         /\ minted' \in 1 .. MaxAppends /\ seqs' \subseteq Seqs
         /\ Needed'
<1> DEFINE new == minted + 1
           lo == RetainedFrom
           D == Dropped(Bytes[new])
<1>1. /\ minted \in Nat /\ MaxAppends \in Nat /\ new \in Seqs /\ minted' = new
      /\ seqs = lo .. minted /\ lo \in 1 .. new /\ TailSeq = minted
      /\ minted > 0 => lo <= minted
      /\ acked \in Nat /\ acked' = acked /\ OutboxCap \in Nat
      /\ seqs' = (seqs \ D) \cup {new} /\ D \subseteq seqs /\ seqs \subseteq Seqs
  BY OutboxNumbers DEF AppendOutbox, Seqs, Dropped
<1>2. Bytes[new] \in Nat
  BY <1>1, Sizes
<1>3. \A s \in Int : Size({t \in seqs : t >= s}) \in Nat
  BY <1>1, SizeStep
<1>4. ASSUME NEW s \in D, NEW r \in seqs, r <= s
      PROVE  r \in D
  <2>1. s \in seqs /\ s < TailSeq /\ Size(seqs) + Bytes[new] > OutboxCap
        /\ (s <= acked \/ NeedAfter(s, Bytes[new]) > 0)
    BY DEF Dropped
  <2>2. r \in Int /\ s \in Int /\ r < TailSeq
    BY <1>1, <1>4, <2>1
  <2>3. {t \in seqs : t >= s} \in SUBSET {t \in seqs : t >= r}
    BY <1>1, <1>4, <2>2
  <2>4. Size({t \in seqs : t >= s}) <= Size({t \in seqs : t >= r})
    BY <1>1, <2>3, SizeGrows
  <2>5. NeedAfter(s, Bytes[new]) > 0 => NeedAfter(r, Bytes[new]) > 0
    BY <1>1, <1>2, <1>3, <2>2, <2>4 DEF NeedAfter
  <2>6. s <= acked => r <= acked
    BY <1>1, <1>4, <2>2
  <2> QED BY <2>1, <2>2, <2>5, <2>6 DEF Dropped
<1>5. minted > 0 => minted \notin D
  BY <1>1 DEF Dropped
<1>6. PICK hi \in lo .. new : seqs \ D = hi .. minted /\ (minted > 0 => hi <= minted)
  <2> HIDE DEF D
  <2>1. CASE minted = 0
    <3>1. seqs \ D = new .. minted /\ new \in lo .. new
      BY <1>1, <2>1
    <3> QED BY <2>1, <3>1
  <2>2. CASE minted > 0
    <3>1. minted \in seqs \ D /\ seqs \ D \in SUBSET Nat
      BY <1>1, <1>5, <2>2
    <3>2. PICK hi \in seqs \ D : \A s \in seqs \ D : hi <= s
      BY <3>1, SmallestNat
    <3>3. hi \in lo .. minted
      BY <1>1, <3>2
    <3>4. ASSUME NEW s \in hi .. minted PROVE s \in seqs \ D
      BY <1>1, <1>4, <3>2, <3>3
    <3>5. ASSUME NEW s \in seqs \ D PROVE s \in hi .. minted
      BY <1>1, <3>2
    <3> QED BY <1>1, <3>3, <3>4, <3>5
  <2> QED BY <1>1, <2>1, <2>2
<1> HIDE DEF D
<1>7. seqs' = hi .. new /\ hi \in Int
  BY <1>1, <1>6
<1>8. Window'
  BY <1>1, <1>6, <1>7 DEF Window
<1>9. minted' \in 1 .. MaxAppends /\ minted' \in 0 .. MaxAppends
  BY <1>1 DEF Seqs
<1>10. RetainedFrom' = hi
  <2>1. hi <= new /\ seqs' # {}
    BY <1>1, <1>6, <1>7
  <2>2. Min(hi .. new) = hi
    BY <1>1, <1>7, <2>1, SmallestOf
  <2> QED BY <1>7, <2>1, <2>2 DEF RetainedFrom
<1>11. seqs' \subseteq Seqs
  BY <1>1
<1>12. ASSUME hi - 1 > acked PROVE Size(seqs' \cup {hi - 1}) > OutboxCap
  <2>1. hi - 1 \in Seqs
    BY <1>1, <1>6, <1>12 DEF Seqs
  <2>2. Size(seqs' \cup {hi - 1}) \in Nat
    BY <1>11, <2>1, SizeStep
  <2>3. CASE hi = lo
    <3>1. seqs \cup {hi - 1} \in SUBSET (seqs' \cup {hi - 1})
      BY <1>1, <1>7, <2>3
    <3>2. Size(seqs \cup {hi - 1}) <= Size(seqs' \cup {hi - 1})
      BY <1>11, <2>1, <3>1, SizeGrows
    <3>3. Size(seqs \cup {hi - 1}) > OutboxCap /\ Size(seqs \cup {hi - 1}) \in Nat
      BY <1>1, <1>12, <2>1, <2>3, SizeStep DEF OutboxInv, Needed
    <3> QED BY <1>1, <2>2, <3>2, <3>3
  <2>4. CASE hi # lo
    <3>1. hi - 1 \in seqs /\ hi - 1 \in D
      BY <1>1, <1>6, <2>4
    <3>2. NeedAfter(hi - 1, Bytes[new]) > 0
      BY <1>1, <1>12, <3>1 DEF D, Dropped
    <3>3. {t \in seqs : t >= hi - 1} = (seqs' \cup {hi - 1}) \ {new}
      BY <1>1, <1>7, <3>1
    <3>4. Size(seqs' \cup {hi - 1})
            = Size((seqs' \cup {hi - 1}) \ {new}) + Bytes[new]
      BY <1>1, <1>11, <2>1, SizeWithout
    <3>5. Size({t \in seqs : t >= hi - 1}) + Bytes[new] - OutboxCap > 0
      BY <3>2 DEF NeedAfter
    <3>6. Size({t \in seqs : t >= hi - 1}) + Bytes[new]
            = Size(seqs' \cup {hi - 1})
      BY <3>3, <3>4
    <3>7. Size({t \in seqs : t >= hi - 1}) \in Nat
      BY <1>3, <1>7
    <3>8. \A x \in Nat : x + Bytes[new] - OutboxCap > 0
                         => x + Bytes[new] > OutboxCap
      BY <1>1, <1>2
    <3> QED BY <3>5, <3>6, <3>7, <3>8
  <2> QED BY <2>3, <2>4
<1>13. Needed'
  BY <1>1, <1>10, <1>12 DEF Needed
<1>14. RetainedFrom <= RetainedFrom' /\ RetainedFrom' \in Nat
  BY <1>1, <1>6, <1>10
<1> QED BY <1>8, <1>9, <1>11, <1>13, <1>14

\* The first events after a cursor: nothing retained lies between them.
LEMMA PageIsPrefix ==
  ASSUME NEW a \in Nat, NEW n \in Nat, seqs \subseteq Seqs,
         NEW s \in Page(a, n), NEW r \in seqs, a < r, r < s
  PROVE  r \in Page(a, n)
<1> DEFINE Lower == {t \in seqs : t > a /\ t < r}
           Upper == {t \in seqs : t > a /\ t < s}
<1>1. s \in seqs /\ Cardinality(Upper) < n
  BY DEF Page
<1>2. seqs \subseteq Nat /\ IsFiniteSet(Seqs)
  BY OutboxAssumption, FS_Interval DEF Seqs
<1>3. IsFiniteSet(seqs)
  BY <1>2, FS_Subset
<1>4. IsFiniteSet(Upper) /\ Lower \subseteq Upper
  <2>1. Upper \subseteq seqs
    OBVIOUS
  <2>2. ASSUME NEW t \in Lower PROVE t \in Upper
    <3>1. t \in seqs /\ t > a /\ t < r
      OBVIOUS
    <3>2. t \in Nat /\ r \in Nat /\ s \in Nat
      BY <1>1, <1>2, <3>1
    <3> QED BY <3>1, <3>2
  <2> QED BY <1>3, <2>1, <2>2, FS_Subset
<1>5. /\ Cardinality(Lower) \in Nat /\ Cardinality(Upper) \in Nat
      /\ Cardinality(Lower) <= Cardinality(Upper)
  <2>1. IsFiniteSet(Lower) /\ Cardinality(Lower) <= Cardinality(Upper)
    BY <1>4, FS_Subset
  <2> QED BY <1>4, <2>1, FS_CardinalityType
<1>6. Cardinality(Lower) < n
  BY <1>1, <1>5
<1> QED BY <1>6 DEF Page

\* The invariant holds initially.
LEMMA OutboxInitInv == OutboxInit => OutboxInv
<1> SUFFICES ASSUME OutboxInit PROVE OutboxInv
  OBVIOUS
<1>1. seqs = {} /\ minted = 0 /\ acked = 0 /\ pulledTo = None /\ storedTo = 0
      /\ pulled = {} /\ toldLost = 0 /\ restarts = 0 /\ RetainedFrom = 1
  BY DEF OutboxInit, RetainedFrom
<1>2. OutboxTypeOK
  BY <1>1, OutboxAssumption DEF OutboxTypeOK, Seqs, None
<1>3. Window /\ Cursors /\ Needed
  BY <1>1 DEF Window, Cursors, Held, Needed, None
<1> QED BY <1>2, <1>3 DEF OutboxInv

\* An append drops rows and disturbs no cursor.
LEMMA AppendKeeps == OutboxInv /\ AppendOutbox => OutboxInv'
<1> SUFFICES ASSUME OutboxInv, AppendOutbox PROVE OutboxInv'
  OBVIOUS
<1>1. Window' /\ Needed' /\ RetainedFrom <= RetainedFrom'
      /\ minted' \in 1 .. MaxAppends /\ seqs' \subseteq Seqs
      /\ RetainedFrom' \in Nat
  BY AppendWindow
<1>2. minted' = minted + 1
      /\ UNCHANGED <<acked, pulledTo, storedTo, pulled, toldLost, restarts>>
  BY DEF AppendOutbox
<1>3. OutboxTypeOK'
  <2>1. acked \in 0 .. minted' /\ storedTo \in 0 .. minted' /\ toldLost \in 0 .. minted'
        /\ (pulledTo = None \/ pulledTo \in 0 .. minted') /\ minted' \in 0 .. MaxAppends
    BY <1>1, <1>2, OutboxNumbers
  <2> QED BY <1>1, <1>2, <2>1 DEF OutboxInv, OutboxTypeOK
<1>4. Cursors'
  <2>1. acked' <= storedTo' /\ Held(storedTo)'
    BY <1>2 DEF OutboxInv, Cursors, Held
  <2>2. (pulledTo # None => Held(pulledTo))'
    BY <1>2 DEF OutboxInv, Cursors, Held
  <2>3. (toldLost <= RetainedFrom - 1)'
    BY <1>1, <1>2, OutboxNumbers DEF OutboxInv, Cursors
  <2> QED BY <2>1, <2>2, <2>3 DEF Cursors
<1> QED BY <1>1, <1>3, <1>4 DEF OutboxInv

\* Whatever lies at or below the cursor of the next pull, the host holds.
LEMMA CursorIsHeld ==
  ASSUME OutboxInv
  PROVE  After \in 0 .. minted /\ Held(After)
<1>1. /\ acked <= storedTo /\ Held(storedTo)
      /\ pulledTo # None => Held(pulledTo)
  BY DEF OutboxInv, Cursors
<1>2. Held(acked)
  BY <1>1, OutboxNumbers DEF Held
<1> QED BY <1>1, <1>2, OutboxNumbers DEF After

\* A served page continues what the host holds.
LEMMA PageIsHeld ==
  ASSUME OutboxInv, ~ BelowFloor(After), NEW n \in Nat, Page(After, n) # {}
  PROVE  /\ Max(Page(After, n)) \in 1 .. minted
         /\ \A s \in 1 .. Max(Page(After, n)) :
               s \in pulled \cup Page(After, n) \/ s <= toldLost
<1> DEFINE P == Page(After, n)
           m == Max(P)
<1>1. /\ After \in 0 .. minted /\ minted \in Nat /\ RetainedFrom \in Nat
      /\ seqs = RetainedFrom .. minted /\ seqs \subseteq Seqs /\ RetainedFrom >= 1
      /\ RetainedFrom <= After + 1
  BY CursorIsHeld, OutboxNumbers DEF BelowFloor
<1>0. P # {}
  OBVIOUS
<1>2. P \in SUBSET (0 .. minted) /\ P \in SUBSET seqs /\ P \in SUBSET (1 .. minted)
  BY <1>1 DEF Page
<1>3. m \in P /\ \A y \in P : y <= m
  <2> HIDE DEF P
  <2> QED BY <1>1, <1>2, <1>0, LargestNat
<1>4. ASSUME NEW s \in 1 .. m PROVE s \in pulled \cup P \/ s <= toldLost
  <2>1. m \in 1 .. minted
    BY <1>2, <1>3
  <2>2. CASE s <= After
    BY <1>1, <2>2, CursorIsHeld DEF Held
  <2>3. CASE s > After
    <3>1. s \in seqs
      BY <1>1, <2>1, <2>3
    <3>2. CASE s = m
      BY <1>3, <3>2
    <3>3. CASE s # m
      <4>1. s < m /\ After \in Nat
        BY <1>1, <2>1, <3>3
      <4>2. s \in P
        BY <1>1, <1>3, <2>3, <3>1, <4>1, PageIsPrefix
      <4> QED BY <4>2
    <3> QED BY <3>2, <3>3
  <2> QED BY <1>1, <2>1, <2>2, <2>3
<1> HIDE DEF P
<1> QED BY <1>2, <1>3, <1>4 DEF P

\* A pull is refused, and says what is lost, or continues what is held.
LEMMA PullKeeps ==
  ASSUME OutboxInv, NEW n \in 1 .. PageMax, Pull(n)
  PROVE  OutboxInv'
<1>1. UNCHANGED <<seqs, minted, acked, storedTo, restarts>>
  BY DEF Pull
<1>2. Window' /\ Needed' /\ RetainedFrom' = RetainedFrom
  BY <1>1 DEF OutboxInv, Window, Needed, RetainedFrom
<1>3. n \in Nat
  BY OutboxAssumption
<1>4. toldLost <= RetainedFrom - 1 /\ acked <= storedTo /\ Held(storedTo)
  BY DEF OutboxInv, Cursors
<1>5. CASE /\ BelowFloor(After) /\ pulledTo' = RetainedFrom - 1
           /\ toldLost' = RetainedFrom - 1 /\ UNCHANGED pulled
  <2>1. RetainedFrom - 1 \in 0 .. minted
    BY OutboxNumbers
  <2>2. OutboxTypeOK'
    BY <1>1, <1>5, <2>1 DEF OutboxInv, OutboxTypeOK
  <2>3. Held(storedTo)'
    BY <1>1, <1>4, <1>5, <2>1, OutboxNumbers DEF Held
  <2>4. Held(pulledTo)'
    BY <1>5 DEF Held
  <2>5. Cursors'
    BY <1>1, <1>2, <1>4, <1>5, <2>1, <2>3, <2>4 DEF Cursors
  <2> QED BY <1>2, <2>2, <2>5 DEF OutboxInv
<1>6. CASE /\ ~ BelowFloor(After) /\ pulled' = pulled \cup Page(After, n)
           /\ pulledTo' = (IF Page(After, n) = {} THEN After ELSE Max(Page(After, n)))
           /\ UNCHANGED toldLost
  <2>1. pulledTo' \in 0 .. minted /\ Held(pulledTo)'
    <3>1. CASE Page(After, n) = {}
      BY <1>6, <3>1, CursorIsHeld DEF Held
    <3>2. CASE Page(After, n) # {}
      BY <1>3, <1>6, <3>2, PageIsHeld DEF Held
    <3> QED BY <3>1, <3>2
  <2>2. Page(After, n) \subseteq Seqs
    BY OutboxNumbers DEF Page
  <2>3. OutboxTypeOK'
    BY <1>1, <1>6, <2>1, <2>2 DEF OutboxInv, OutboxTypeOK
  <2>4. Held(storedTo)'
    BY <1>1, <1>4, <1>6 DEF Held
  <2>5. Cursors'
    BY <1>1, <1>2, <1>4, <1>6, <2>1, <2>4 DEF Cursors
  <2> QED BY <1>2, <2>3, <2>5 DEF OutboxInv
<1> QED BY <1>5, <1>6 DEF Pull

\* The host stores what it holds.
LEMMA StoreKeeps == OutboxInv /\ Store => OutboxInv'
<1> SUFFICES ASSUME OutboxInv, Store PROVE OutboxInv'
  OBVIOUS
<1>1. /\ pulledTo > storedTo /\ storedTo' = pulledTo
      /\ UNCHANGED <<seqs, minted, acked, pulledTo, pulled, toldLost, restarts>>
  BY DEF Store
<1>2. pulledTo \in 0 .. minted /\ pulledTo # None /\ acked <= pulledTo
  BY <1>1, OutboxNumbers DEF None, OutboxInv, Cursors
<1>3. OutboxTypeOK'
  BY <1>1, <1>2 DEF OutboxInv, OutboxTypeOK
<1>4. Window' /\ Needed' /\ RetainedFrom' = RetainedFrom
  BY <1>1 DEF OutboxInv, Window, Needed, RetainedFrom
<1>5. Held(pulledTo) /\ toldLost <= RetainedFrom - 1
  BY <1>2 DEF OutboxInv, Cursors
<1>6. Cursors'
  BY <1>1, <1>2, <1>4, <1>5 DEF Cursors, Held
<1> QED BY <1>3, <1>4, <1>6 DEF OutboxInv

\* Only what was stored is acknowledged, and the cursor never goes back.
LEMMA AckKeeps ==
  ASSUME OutboxInv, NEW given \in 1 .. storedTo, AckExport(given)
  PROVE  OutboxInv'
<1>1. /\ acked' = AckTarget(given)
      /\ UNCHANGED <<seqs, minted, pulledTo, storedTo, pulled, toldLost, restarts>>
  BY DEF AckExport
<1>2. acked' \in acked .. storedTo /\ acked' \in 0 .. minted
  BY <1>1, OutboxNumbers DEF AckTarget, OutboxInv, Cursors
<1>3. OutboxTypeOK'
  BY <1>1, <1>2 DEF OutboxInv, OutboxTypeOK
<1>4. Window' /\ RetainedFrom' = RetainedFrom
  BY <1>1 DEF OutboxInv, Window, RetainedFrom
<1>5. Needed'
  <2>1. RetainedFrom - 1 > acked' => RetainedFrom - 1 > acked
    BY <1>2, OutboxNumbers
  <2> QED BY <1>1, <1>4, <2>1 DEF OutboxInv, Needed
<1>6. Cursors'
  BY <1>1, <1>2, <1>4, OutboxNumbers DEF OutboxInv, Cursors, Held
<1> QED BY <1>3, <1>4, <1>5, <1>6 DEF OutboxInv

\* A restart keeps what was stored, and with it all that was acknowledged.
LEMMA RestartKeeps == OutboxInv /\ RestartHost => OutboxInv'
<1> SUFFICES ASSUME OutboxInv, RestartHost PROVE OutboxInv'
  OBVIOUS
<1>1. /\ pulled' = {s \in pulled : s <= storedTo} /\ pulledTo' = None
      /\ restarts < MaxRestarts /\ restarts' = restarts + 1
      /\ UNCHANGED <<seqs, minted, acked, storedTo, toldLost>>
  BY DEF RestartHost
<1>2. restarts' \in 0 .. MaxRestarts
  BY <1>1, OutboxAssumption DEF OutboxInv, OutboxTypeOK
<1>3. OutboxTypeOK'
  BY <1>1, <1>2 DEF OutboxInv, OutboxTypeOK
<1>4. Window' /\ Needed' /\ RetainedFrom' = RetainedFrom
  BY <1>1 DEF OutboxInv, Window, Needed, RetainedFrom
<1>5. Held(storedTo)'
  BY <1>1, OutboxNumbers DEF OutboxInv, Cursors, Held
<1>6. Cursors'
  BY <1>1, <1>4, <1>5 DEF OutboxInv, Cursors
<1> QED BY <1>3, <1>4, <1>6 DEF OutboxInv

\* The invariant holds in every reachable state of the outbox and its host.
THEOREM OutboxInvariance == OutboxSpec => []OutboxInv
<1>1. OutboxInit => OutboxInv
  BY OutboxInitInv
<1>2. OutboxInv /\ [OutboxNext]_outboxVars => OutboxInv'
  <2> SUFFICES ASSUME OutboxInv, [OutboxNext]_outboxVars PROVE OutboxInv'
    OBVIOUS
  <2>1. CASE AppendOutbox
    BY <2>1, AppendKeeps
  <2>2. ASSUME NEW n \in 1 .. PageMax, Pull(n) PROVE OutboxInv'
    BY <2>2, PullKeeps
  <2>3. CASE Store
    BY <2>3, StoreKeeps
  <2>4. ASSUME NEW given \in 1 .. storedTo, AckExport(given) PROVE OutboxInv'
    BY <2>4, AckKeeps
  <2>5. CASE RestartHost
    BY <2>5, RestartKeeps
  <2>6. CASE UNCHANGED outboxVars
    BY <2>6 DEF outboxVars, OutboxInv, OutboxTypeOK, Window, Cursors, Held, Needed,
                RetainedFrom
  <2> QED BY <2>1, <2>2, <2>3, <2>4, <2>5, <2>6 DEF OutboxNext
<1> QED BY <1>1, <1>2, PTL DEF OutboxSpec

\* The export loses nothing silently and nothing without need: what lies
\* below the host's cursor it holds or was refused for, and the newest row
\* dropped unacknowledged would not fit (run_store_sqlite.rs, append_outbox
\* and select_batch).
THEOREM ExportIsLossless == OutboxSpec => []ExportLossless
<1>1. OutboxInv => ExportLossless
  BY CursorIsHeld DEF ExportLossless, Held, OutboxInv, Needed
<1> QED BY <1>1, OutboxInvariance, PTL

-----------------------------------------------------------------------------
(* The stream and resync leave no gap (Feed) *)

\* The host holds every row below the position of a cursor that was made in
\* the present registration of the name.
Covered ==
  madeIn = registered /\ ~ skewed =>
    \A f \in Families :
      /\ resyncAt[f] <= Counts[f]
      /\ \A i \in RowsOf(f) : Ordinal(f, i) <= resyncAt[f] => rowlog[i] \in got

\* Every row was committed.
Logged == Len(rowlog) <= committed

FeedInv == FeedTypeOK /\ Logged /\ Covered /\ NoSilentGap

\* What a step that leaves the rows alone changes of them: nothing.
LEMMA RowsStay ==
  ASSUME UNCHANGED rowlog
  PROVE  /\ \A f : RowsOf(f)' = RowsOf(f)
         /\ \A f, i : Ordinal(f, i)' = Ordinal(f, i)
         /\ Counts' = Counts
<1>1. ASSUME NEW f PROVE RowsOf(f)' = RowsOf(f)
  BY DEF RowsOf
<1>2. ASSUME NEW f, NEW i PROVE Ordinal(f, i)' = Ordinal(f, i)
  BY <1>1 DEF Ordinal
<1>3. Counts' = Counts
  BY <1>1 DEF Counts
<1> QED BY <1>1, <1>2, <1>3

\* In a finite set of numbers an element's ordinal lies between 1 and the count.
LEMMA Places ==
  ASSUME NEW R \in SUBSET Int, IsFiniteSet(R)
  PROVE  /\ Cardinality(R) \in Nat
         /\ \A i \in R : /\ Cardinality({j \in R : j <= i}) \in Nat
                         /\ 1 <= Cardinality({j \in R : j <= i})
                         /\ Cardinality({j \in R : j <= i}) <= Cardinality(R)
<1>1. Cardinality(R) \in Nat
  BY FS_CardinalityType
<1>2. ASSUME NEW i \in R
      PROVE  /\ Cardinality({j \in R : j <= i}) \in Nat
             /\ 1 <= Cardinality({j \in R : j <= i})
             /\ Cardinality({j \in R : j <= i}) <= Cardinality(R)
  <2> DEFINE L == {j \in R : j <= i}
  <2>1. L \subseteq R /\ i \in L
    OBVIOUS
  <2> HIDE DEF L
  <2>2. IsFiniteSet(L) /\ Cardinality(L) <= Cardinality(R)
    BY <2>1, FS_Subset
  <2>3. Cardinality(L) \in Nat /\ Cardinality(L) # 0
    BY <2>1, <2>2, FS_CardinalityType, FS_EmptySet
  <2>4. Cardinality(L) \in Nat /\ 1 <= Cardinality(L) /\ Cardinality(L) <= Cardinality(R)
    BY <2>2, <2>3
  <2> QED BY <2>4 DEF L
<1> QED BY <1>1, <1>2

\* The positions of some of a log's rows are finite, and no more than the rows.
LEMMA SomeRows ==
  ASSUME NEW n \in Nat, NEW R \in SUBSET (1 .. n)
  PROVE  R \in SUBSET Int /\ IsFiniteSet(R) /\ Cardinality(R) <= n
<1>1. IsFiniteSet(1 .. n) /\ Cardinality(1 .. n) = n
  BY FS_Interval
<1>2. IsFiniteSet(R) /\ Cardinality(R) <= Cardinality(1 .. n)
  BY <1>1, FS_Subset
<1> QED BY <1>1, <1>2

\* A row's ordinal is a number from 1 to the count of its family.
LEMMA Ordinals ==
  ASSUME rowlog \in Seq(Event), NEW f
  PROVE  /\ IsFiniteSet(RowsOf(f)) /\ Cardinality(RowsOf(f)) \in Nat
         /\ Cardinality(RowsOf(f)) <= Len(rowlog)
         /\ \A i \in RowsOf(f) : Ordinal(f, i) \in Nat /\ 1 <= Ordinal(f, i)
<1>1. RowsOf(f) \in SUBSET (1 .. Len(rowlog)) /\ Len(rowlog) \in Nat
  BY DEF RowsOf
<1>2. RowsOf(f) \in SUBSET Int /\ IsFiniteSet(RowsOf(f))
      /\ Cardinality(RowsOf(f)) <= Len(rowlog)
  BY <1>1, SomeRows
<1> QED BY <1>2, Places DEF Ordinal

\* The invariant holds initially.
LEMMA FeedInitInv == FeedInit => FeedInv
<1> SUFFICES ASSUME FeedInit PROVE FeedInv
  OBVIOUS
<1> USE DEF FeedInit
<1>1. rowlog = << >> /\ rowlog \in Seq(Event)
  OBVIOUS
<1>2. FeedTypeOK /\ Logged
  <2>1. resyncAt \in [Families -> 0 .. MaxEvents]
    BY FeedAssumption DEF START
  <2>2. position \in 0 .. Len(published) /\ Len(rowlog) <= committed
        /\ unpublished \in Seq(Event) /\ published \in Seq(Event)
    BY <1>1
  <2>3. /\ committed \in 0 .. MaxEvents /\ crashes \in 0 .. MaxCrashes
        /\ breaks \in 0 .. MaxBreaks /\ registered \in 1 .. MaxRemoves + 1
        /\ madeIn \in 1 .. registered
    BY FeedAssumption
  <2> QED BY <1>1, <2>1, <2>2, <2>3 DEF FeedTypeOK, Logged
<1>3. Covered
  <2> SUFFICES ASSUME NEW f \in Families
               PROVE  /\ resyncAt[f] <= Counts[f]
                      /\ \A i \in RowsOf(f) :
                           Ordinal(f, i) <= resyncAt[f] => rowlog[i] \in got
    BY DEF Covered
  <2>1. resyncAt[f] = 0 /\ Counts[f] = Cardinality(RowsOf(f))
    BY DEF START, Counts
  <2>2. Cardinality(RowsOf(f)) \in Nat
        /\ \A i \in RowsOf(f) : Ordinal(f, i) \in Nat /\ 1 <= Ordinal(f, i)
    BY <1>1, Ordinals
  <2> QED BY <2>1, <2>2
<1>4. NoSilentGap
  BY DEF NoSilentGap
<1> QED BY <1>2, <1>3, <1>4 DEF FeedInv

\* A step that leaves rows, cursor and registration alone, and takes nothing
\* from the host, keeps the cursor's promise.
LEMMA StillCovered ==
  ASSUME FeedInv, got \subseteq got',
         UNCHANGED <<rowlog, resyncAt, madeIn, registered, skewed>>
  PROVE  Covered'
<1>1. /\ \A f : RowsOf(f)' = RowsOf(f) /\ \A i : Ordinal(f, i)' = Ordinal(f, i)
      /\ Counts' = Counts
  BY RowsStay
<1> QED BY <1>1 DEF FeedInv, Covered

\* A commit appends rows: their ordinals are past every position a cursor of
\* this registration holds, and they wait to be published.
LEMMA CommitFeedKeeps ==
  ASSUME FeedInv, NEW k \in 1 .. JobMax, CommitEvents(k)
  PROVE  FeedInv'
<1> DEFINE new == [i \in 1 .. k |-> committed + i]
           n == Len(rowlog)
<1>1. /\ unpublished = << >> /\ committed + k <= MaxEvents
      /\ rowlog' = rowlog \o new /\ unpublished' = new /\ committed' = committed + k
      /\ UNCHANGED <<published, stream, position, due, got, resyncAt, madeIn,
                     registered, skewed, crashes, breaks>>
  BY DEF CommitEvents
<1>2. /\ committed \in Nat /\ k \in Nat \ {0} /\ MaxEvents \in Nat
      /\ rowlog \in Seq(Event) /\ n \in Nat
  BY FeedAssumption DEF FeedInv, FeedTypeOK
<1>3. new \in Seq(Event) /\ Len(new) = k
  <2>1. ASSUME NEW i \in 1 .. k PROVE committed + i \in Event
    BY <1>1, <1>2 DEF Event
  <2>2. new \in [1 .. k -> Event]
    BY <2>1
  <2> QED BY <1>2, <2>2
<1>4. /\ rowlog' \in Seq(Event) /\ Len(rowlog') = n + k
      /\ \A i \in 1 .. n : rowlog'[i] = rowlog[i]
      /\ \A i \in n + 1 .. n + k : rowlog'[i] = new[i - n]
  <2> HIDE DEF new
  <2>1. rowlog \o new \in Seq(Event)
    BY <1>2, <1>3
  <2>2. Len(rowlog \o new) = n + k
    BY <1>2, <1>3
  <2>3. \A i \in 1 .. n : (rowlog \o new)[i] = rowlog[i]
    BY <1>2, <1>3
  <2>4. \A i \in n + 1 .. n + k : (rowlog \o new)[i] = new[i - n]
    BY <1>2, <1>3
  <2> QED BY <1>1, <2>1, <2>2, <2>3, <2>4
<1>5. FeedTypeOK' /\ Logged'
  <2>1. committed' \in 0 .. MaxEvents
    BY <1>1, <1>2
  <2> HIDE DEF new
  <2>2. Len(rowlog') <= committed'
    BY <1>1, <1>2, <1>4 DEF FeedInv, Logged
  <2> QED BY <1>1, <1>3, <1>4, <2>1, <2>2 DEF FeedInv, FeedTypeOK, Logged
<1> HIDE DEF new
<1>6. Covered'
  <2> SUFFICES ASSUME madeIn = registered, ~ skewed, NEW f \in Families
               PROVE  /\ resyncAt[f] <= Counts'[f]
                      /\ \A i \in RowsOf(f)' : Ordinal(f, i)' <= resyncAt[f]
                                               => rowlog'[i] \in got
    BY <1>1 DEF Covered
  <2> DEFINE old == RowsOf(f)
             now == RowsOf(f)'
  <2>1. old \subseteq now /\ (\A i \in now : i \notin old => i \in Int /\ i > n)
        /\ old \subseteq 1 .. n /\ now \subseteq Int
        /\ (\A i \in now : i <= n => i \in old)
    <3>1. now = {i \in 1 .. n + k : FamilyOf[rowlog'[i]] = f}
      BY <1>4 DEF RowsOf
    <3>2. old = {i \in 1 .. n : FamilyOf[rowlog[i]] = f}
      BY <1>2 DEF RowsOf
    <3>3. ASSUME NEW i \in 1 .. n PROVE i \in old <=> i \in now
      BY <1>2, <1>4, <3>1, <3>2
    <3> QED BY <1>2, <3>1, <3>2, <3>3
  <2>2. IsFiniteSet(now) /\ Cardinality(now) \in Nat
    <3>1. now \in SUBSET (1 .. n + k) /\ n + k \in Nat
      BY <1>2, <1>4 DEF RowsOf
    <3> HIDE DEF now
    <3> QED BY <3>1, SomeRows, Places
  <2>3. IsFiniteSet(old) /\ Cardinality(old) \in Nat
    BY <1>2, Ordinals
  <2>4. resyncAt[f] <= Cardinality(old) /\ resyncAt[f] \in Nat
        /\ \A i \in old : Ordinal(f, i) <= resyncAt[f] => rowlog[i] \in got
    BY <1>2 DEF FeedInv, FeedTypeOK, Covered, Counts
  <2>5. Counts'[f] = Cardinality(now)
    BY DEF Counts
  <2> HIDE DEF old, now
  <2>6. Cardinality(old) <= Cardinality(now)
    BY <2>1, <2>2, FS_Subset
  <2>7. ASSUME NEW i \in now, Ordinal(f, i)' <= resyncAt[f]
        PROVE  rowlog'[i] \in got
    <3> DEFINE L == {j \in now : j <= i}
    <3>1. Ordinal(f, i)' = Cardinality(L)
      BY DEF Ordinal, now
    <3>2. CASE i \in old
      <4>1. L = {j \in old : j <= i}
        <5>1. ASSUME NEW j \in now, j <= i PROVE j \in old
          BY <1>2, <2>1, <3>2, <5>1
        <5> QED BY <2>1, <5>1
      <4>2. Ordinal(f, i) = Cardinality(L)
        BY <4>1 DEF Ordinal, old
      <4> QED BY <1>2, <1>4, <2>1, <2>4, <2>7, <3>1, <3>2, <4>2
    <3>3. CASE i \notin old
      <4>1. old \cup {i} \subseteq L /\ L \subseteq now
        BY <1>2, <2>1, <3>3
      <4> HIDE DEF L
      <4>2. IsFiniteSet(L) /\ IsFiniteSet(old \cup {i})
            /\ Cardinality(old \cup {i}) = Cardinality(old) + 1
        BY <2>2, <2>3, <3>3, <4>1, FS_Subset, FS_AddElement
      <4>3. Cardinality(old) + 1 <= Cardinality(L) /\ Cardinality(L) \in Nat
        BY <4>1, <4>2, FS_Subset, FS_CardinalityType
      <4> QED BY <2>3, <2>4, <2>7, <3>1, <4>3
    <3> QED BY <3>2, <3>3
  <2> QED BY <2>1, <2>2, <2>3, <2>4, <2>5, <2>6, <2>7 DEF now
<1>7. NoSilentGap'
  <2> SUFFICES ASSUME stream, ~ due, ~ skewed, NEW e \in Missing'
               PROVE  FALSE
    BY <1>1 DEF NoSilentGap
  <2>1. PICK i \in 1 .. n + k : e = rowlog'[i]
    BY <1>4 DEF Missing, ToSet
  <2>2. /\ FamilyOf[e] # "run" /\ e \notin got /\ e \notin ToSet(new)
        /\ \A j \in position + 1 .. Len(published) : published[j] # e
    BY <1>1 DEF Missing
  <2>3. CASE i \in 1 .. n
    <3>1. e \in ToSet(rowlog)
      BY <1>2, <1>4, <2>1, <2>3 DEF ToSet
    <3>2. e \notin ToSet(unpublished)
      BY <1>1 DEF ToSet
    <3>3. e \in Missing
      BY <2>2, <3>1, <3>2 DEF Missing
    <3> QED BY <3>3 DEF FeedInv, NoSilentGap
  <2>4. CASE i \in n + 1 .. n + k
    <3>1. e = new[i - n] /\ i - n \in 1 .. k
      BY <1>2, <1>4, <2>1, <2>4
    <3>2. e \in ToSet(new)
      BY <1>3, <3>1 DEF ToSet
    <3> QED BY <2>2, <3>2
  <2> QED BY <1>2, <2>1, <2>3, <2>4
<1> QED BY <1>5, <1>6, <1>7 DEF FeedInv

\* An event moves from the operation under way to the end of the ring.
LEMMA PublishKeeps == FeedInv /\ Publish => FeedInv'
<1> SUFFICES ASSUME FeedInv, Publish PROVE FeedInv'
  OBVIOUS
<1> DEFINE h == Head(unpublished)
           n == Len(published)
<1>1. /\ unpublished # << >> /\ published' = Append(published, h)
      /\ unpublished' = Tail(unpublished)
      /\ UNCHANGED <<committed, rowlog, stream, position, due, got, resyncAt, madeIn,
                     registered, skewed, crashes, breaks>>
  BY DEF Publish
<1>2. unpublished \in Seq(Event) /\ published \in Seq(Event) /\ position \in 0 .. n
      /\ n \in Nat
  BY DEF FeedInv, FeedTypeOK
<1>3. /\ h \in Event /\ Tail(unpublished) \in Seq(Event)
      /\ published' \in Seq(Event) /\ Len(published') = n + 1
      /\ \A i \in 1 .. n : published'[i] = published[i]
      /\ published'[n + 1] = h
  BY <1>1, <1>2
<1>4. FeedTypeOK' /\ Logged'
  <2>1. position' \in 0 .. Len(published')
    BY <1>1, <1>2, <1>3
  <2> QED BY <1>1, <1>2, <1>3, <2>1 DEF FeedInv, FeedTypeOK, Logged
<1>5. Covered'
  BY <1>1, StillCovered
<1>6. NoSilentGap'
  <2> SUFFICES ASSUME stream, ~ due, ~ skewed, NEW e \in Missing'
               PROVE  FALSE
    BY <1>1 DEF NoSilentGap
  <2>1. /\ e \in ToSet(rowlog) /\ FamilyOf[e] # "run" /\ e \notin got
        /\ e \notin ToSet(Tail(unpublished))
        /\ \A j \in position + 1 .. n + 1 : published'[j] # e
    BY <1>1, <1>3 DEF Missing
  <2>2. e # h
    <3>1. n + 1 \in position + 1 .. n + 1
      BY <1>2
    <3> QED BY <1>3, <2>1, <3>1
  <2>3. e \notin ToSet(unpublished)
    <3> SUFFICES ASSUME NEW i \in 1 .. Len(unpublished), e = unpublished[i] PROVE FALSE
      BY <1>2 DEF ToSet
    <3>1. i # 1
      BY <1>1, <1>2, <2>2
    <3>2. i - 1 \in 1 .. Len(Tail(unpublished)) /\ Tail(unpublished)[i - 1] = e
      BY <1>1, <1>2, <3>1
    <3>3. i - 1 \in DOMAIN Tail(unpublished)
      BY <1>3, <3>2
    <3>4. e \in ToSet(Tail(unpublished))
      BY <3>2, <3>3 DEF ToSet
    <3> QED BY <2>1, <3>4
  <2>4. ASSUME NEW j \in position + 1 .. n PROVE published[j] # e
    BY <1>2, <1>3, <2>1
  <2>5. e \in Missing
    BY <2>1, <2>3, <2>4 DEF Missing
  <2> QED BY <2>5 DEF FeedInv, NoSilentGap
<1> QED BY <1>4, <1>5, <1>6 DEF FeedInv

\* A crash, a broken or a new stream, a lag frame: no stream is open, or a
\* resync is due.
LEMMA InterruptKeeps ==
  FeedInv /\ (CrashFeed \/ EndStream \/ Connect \/ Lag) => FeedInv'
<1> SUFFICES ASSUME FeedInv, CrashFeed \/ EndStream \/ Connect \/ Lag PROVE FeedInv'
  OBVIOUS
<1>1. UNCHANGED <<rowlog, got, resyncAt, madeIn, registered, skewed>>
      /\ (~ stream' \/ due')
  BY DEF CrashFeed, EndStream, Connect, Lag, LagFrame
<1>2. FeedTypeOK' /\ Logged'
  <2>0. Logged'
    BY <1>1 DEF FeedInv, Logged, CrashFeed, EndStream, Connect, Lag
  <2>1. published \in Seq(Event) /\ Len(published) \in Nat /\ << >> \in Seq(Event)
        /\ position \in 0 .. Len(published)
    BY DEF FeedInv, FeedTypeOK
  <2>2. CASE CrashFeed
    <3>1. crashes' \in 0 .. MaxCrashes
      BY <2>2, FeedAssumption DEF FeedInv, FeedTypeOK, CrashFeed
    <3>2. /\ published' = << >> /\ unpublished' = << >> /\ stream' = FALSE
          /\ position' \in 0 .. Len(published')
          /\ UNCHANGED <<committed, rowlog, due, got, resyncAt, madeIn, registered,
                         skewed, breaks>>
      BY <2>2 DEF CrashFeed
    <3> QED BY <2>0, <2>1, <3>1, <3>2 DEF FeedInv, FeedTypeOK
  <2>3. CASE EndStream
    <3>1. breaks' \in 0 .. MaxBreaks /\ position' \in 0 .. Len(published)
      BY <2>1, <2>3, FeedAssumption DEF FeedInv, FeedTypeOK, EndStream
    <3> QED BY <2>0, <2>3, <3>1 DEF FeedInv, FeedTypeOK, EndStream
  <2>4. CASE Connect
    <3>1. position' \in 0 .. Len(published)
      BY <2>1, <2>4 DEF Connect, SubscribeAt
    <3> QED BY <2>0, <2>4, <3>1 DEF FeedInv, FeedTypeOK, Connect
  <2>5. CASE Lag
    <3>1. position' \in 0 .. Len(published)
      BY <2>1, <2>5, FeedAssumption DEF Lag, Lagging
    <3> QED BY <2>0, <2>5, <3>1 DEF FeedInv, FeedTypeOK, Lag, LagFrame
  <2> QED BY <2>0, <2>2, <2>3, <2>4, <2>5
<1>3. Covered'
  BY <1>1, StillCovered
<1>4. NoSilentGap'
  BY <1>1 DEF NoSilentGap
<1> QED BY <1>2, <1>3, <1>4 DEF FeedInv

\* Removed, an instance has no row a host could miss, and a cursor of the
\* earlier registration promises nothing.
LEMMA RemoveFeedKeeps == FeedInv /\ RemoveInstance => FeedInv'
<1> SUFFICES ASSUME FeedInv, RemoveInstance PROVE FeedInv'
  OBVIOUS
<1>1. /\ registered <= MaxRemoves /\ rowlog' = << >> /\ registered' = registered + 1
      /\ UNCHANGED <<committed, unpublished, published, stream, position, due, got,
                     resyncAt, madeIn, skewed, crashes, breaks>>
  BY DEF RemoveInstance
<1>2. registered' \in 1 .. MaxRemoves + 1 /\ madeIn \in 1 .. registered'
      /\ madeIn # registered'
  BY <1>1, FeedAssumption DEF FeedInv, FeedTypeOK
<1>3. FeedTypeOK' /\ Logged'
  BY <1>1, <1>2 DEF FeedInv, FeedTypeOK, Logged
<1>4. Covered'
  BY <1>1, <1>2 DEF Covered
<1>5. ToSet(rowlog)' = {}
  BY <1>1 DEF ToSet
<1>6. NoSilentGap'
  BY <1>5 DEF NoSilentGap, Missing
<1> QED BY <1>3, <1>4, <1>6 DEF FeedInv

\* The host takes the next event from the ring.
LEMMA ReceiveKeeps == FeedInv /\ Receive => FeedInv'
<1> SUFFICES ASSUME FeedInv, Receive PROVE FeedInv'
  OBVIOUS
<1>1. /\ position < Len(published) /\ got' = got \cup {published[position + 1]}
      /\ position' = position + 1
      /\ UNCHANGED <<committed, rowlog, unpublished, published, stream, due, resyncAt,
                     madeIn, registered, skewed, crashes, breaks>>
  BY DEF Receive
<1>2. published \in Seq(Event) /\ position \in 0 .. Len(published) /\ Len(published) \in Nat
  BY DEF FeedInv, FeedTypeOK
<1>3. published[position + 1] \in Event /\ position + 1 \in 0 .. Len(published)
  BY <1>1, <1>2
<1>4. FeedTypeOK' /\ Logged'
  BY <1>1, <1>3 DEF FeedInv, FeedTypeOK, Logged
<1>5. Covered'
  BY <1>1, StillCovered
<1>6. NoSilentGap'
  <2> SUFFICES ASSUME stream, ~ due, ~ skewed, NEW e \in Missing'
               PROVE  FALSE
    BY <1>1 DEF NoSilentGap
  <2>1. /\ e \in ToSet(rowlog) /\ FamilyOf[e] # "run" /\ e \notin ToSet(unpublished)
        /\ e \notin got /\ e # published[position + 1]
        /\ \A j \in position + 2 .. Len(published) : published[j] # e
    BY <1>1, <1>2 DEF Missing
  <2>2. ASSUME NEW j \in position + 1 .. Len(published) PROVE published[j] # e
    BY <1>2, <2>1
  <2>3. e \in Missing
    BY <2>1, <2>2 DEF Missing
  <2> QED BY <2>3 DEF FeedInv, NoSilentGap
<1> QED BY <1>4, <1>5, <1>6 DEF FeedInv

\* After a resync under a cursor of this registration, or from the start, the
\* host holds every row of the families; a refused cursor starts over.
LEMMA ResyncKeeps == FeedInv /\ Resync => FeedInv'
<1> SUFFICES ASSUME FeedInv, Resync PROVE FeedInv'
  OBVIOUS
<1>1. UNCHANGED <<committed, rowlog, unpublished, published, stream, position,
                  registered, crashes, breaks>> /\ madeIn' = registered /\ due
  BY DEF Resync
<1>2. rowlog \in Seq(Event) /\ registered \in 1 .. registered
      /\ MaxEvents \in Nat
  BY FeedAssumption DEF FeedInv, FeedTypeOK
<1>3. /\ \A f : RowsOf(f)' = RowsOf(f) /\ \A i : Ordinal(f, i)' = Ordinal(f, i)
      /\ Counts' = Counts
  BY <1>1, RowsStay
<1>4. \A f \in Families :
         /\ Counts[f] = Cardinality(RowsOf(f)) /\ Counts[f] \in Nat
         /\ \A i \in RowsOf(f) : Ordinal(f, i) \in Nat /\ 1 <= Ordinal(f, i)
  BY <1>2, Ordinals DEF Counts
<1>5. CASE /\ resyncAt' = START /\ UNCHANGED <<got, due, skewed>>
  <2>1. FeedTypeOK' /\ Logged'
    BY <1>1, <1>2, <1>5 DEF FeedInv, FeedTypeOK, Logged, START
  <2>2. ASSUME NEW f \in Families
        PROVE  /\ resyncAt'[f] <= Counts[f]
               /\ \A i \in RowsOf(f) : ~ (Ordinal(f, i) <= resyncAt'[f])
    <3>1. resyncAt'[f] = 0
      BY <1>5 DEF START
    <3> QED BY <1>4, <3>1
  <2>3. Covered'
    BY <1>3, <2>2 DEF Covered
  <2>4. NoSilentGap'
    BY <1>1, <1>5 DEF NoSilentGap
  <2> QED BY <2>1, <2>3, <2>4 DEF FeedInv
<1>6. CASE /\ got' = got \cup UNION {Batch(f) : f \in Families}
           /\ skewed' = (skewed \/ (madeIn # registered /\ resyncAt # START))
           /\ resyncAt' = NextPosition /\ due' = FALSE
  <2>1. ASSUME NEW f \in Families, NEW i \in RowsOf(f), ~ skewed'
        PROVE  rowlog[i] \in got'
    <3>1. CASE Ordinal(f, i) > resyncAt[f]
      <4>1. rowlog[i] \in Batch(f)
        BY <3>1 DEF Batch
      <4> QED BY <1>6, <4>1
    <3>2. CASE ~ (Ordinal(f, i) > resyncAt[f])
      <4>1. resyncAt[f] \in Nat
        BY <1>2 DEF FeedInv, FeedTypeOK
      <4>2. resyncAt # START
        BY <1>4, <3>2 DEF START
      <4>3. ~ skewed /\ madeIn = registered
        BY <1>6, <2>1, <4>2
      <4>4. Ordinal(f, i) <= resyncAt[f]
        BY <1>4, <3>2, <4>1
      <4> QED BY <1>6, <4>3, <4>4 DEF FeedInv, Covered
    <3> QED BY <3>1, <3>2
  <2>2. FeedTypeOK' /\ Logged'
    <3>1. ASSUME NEW f \in Families PROVE Batch(f) \subseteq Event
      BY <1>2 DEF Batch, RowsOf
    <3>2. got' \subseteq Event
      BY <1>6, <3>1 DEF FeedInv, FeedTypeOK
    <3>3. resyncAt' \in [Families -> 0 .. MaxEvents]
      <4>1. \A f \in Families : Counts[f] \in 0 .. MaxEvents
        BY <1>2, <1>4, Ordinals DEF FeedInv, FeedTypeOK, Logged
      <4> QED BY <1>6, <4>1 DEF NextPosition, Counts
    <3> QED BY <1>1, <1>2, <1>6, <3>2, <3>3 DEF FeedInv, FeedTypeOK, Logged
  <2>3. Covered'
    <3> SUFFICES ASSUME ~ skewed', NEW f \in Families
                 PROVE  /\ resyncAt'[f] <= Counts'[f]
                        /\ \A i \in RowsOf(f)' : rowlog'[i] \in got'
      BY DEF Covered
    <3> QED BY <1>1, <1>3, <1>4, <1>6, <2>1 DEF NextPosition
  <2>4. NoSilentGap'
    <3> SUFFICES ASSUME ~ skewed', NEW e \in Missing'
                 PROVE  FALSE
      BY DEF NoSilentGap
    <3>1. e \in ToSet(rowlog) /\ FamilyOf[e] # "run" /\ e \notin got'
      BY <1>1 DEF Missing
    <3>2. PICK i \in DOMAIN rowlog : e = rowlog[i]
      BY <3>1 DEF ToSet
    <3>3. FamilyOf[e] \in Families
      BY <1>2, <3>1, <3>2, FeedAssumption DEF Event
    <3>4. i \in RowsOf(FamilyOf[e])
      BY <3>2 DEF RowsOf
    <3> QED BY <2>1, <3>1, <3>2, <3>3, <3>4
  <2> QED BY <2>2, <2>3, <2>4 DEF FeedInv
<1> QED BY <1>5, <1>6 DEF Resync

\* The invariant holds in every reachable state of the feed.
THEOREM FeedInvariance == FeedSpec => []FeedInv
<1>1. FeedInit => FeedInv
  BY FeedInitInv
<1>2. FeedInv /\ [FeedNext]_feedVars => FeedInv'
  <2> SUFFICES ASSUME FeedInv, [FeedNext]_feedVars PROVE FeedInv'
    OBVIOUS
  <2>1. ASSUME NEW k \in 1 .. JobMax, CommitEvents(k) PROVE FeedInv'
    BY <2>1, CommitFeedKeeps
  <2>2. CASE Publish
    BY <2>2, PublishKeeps
  <2>3. CASE CrashFeed \/ EndStream \/ Connect \/ Lag
    BY <2>3, InterruptKeeps
  <2>4. CASE RemoveInstance
    BY <2>4, RemoveFeedKeeps
  <2>5. CASE Receive
    BY <2>5, ReceiveKeeps
  <2>6. CASE Resync
    BY <2>6, ResyncKeeps
  <2>7. CASE UNCHANGED feedVars
    <3>1. Covered'
      BY <2>7, StillCovered DEF feedVars
    <3> QED BY <2>7, <3>1 DEF feedVars, FeedInv, FeedTypeOK, Logged, NoSilentGap, Missing
  <2> QED BY <2>1, <2>2, <2>3, <2>4, <2>5, <2>6, <2>7 DEF FeedNext, Host
<1> QED BY <1>1, <1>2, PTL DEF FeedSpec

\* A host with no resync outstanding misses no committed event of the
\* families resync carries (sse.rs, live_events; resync.rs, read_committed).
THEOREM ResyncLeavesNoGap == FeedSpec => []NoSilentGap
<1>1. FeedInv => NoSilentGap
  BY DEF FeedInv
<1> QED BY <1>1, FeedInvariance, PTL
=============================================================================
