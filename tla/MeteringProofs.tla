--------------------------- MODULE MeteringProofs ---------------------------
(***************************************************************************)
(* Theorems of Metering, for any number of events, launches and failures:  *)
(* the types and the shape of the call stack; that contention never costs  *)
(* usage; that no event is counted twice; that the raw log is not cut      *)
(* before its lines have been shown; and that no usage is lost in silence. *)
(***************************************************************************)
EXTENDS Metering, FiniteSetTheorems, SequenceTheorems, TLAPS

-----------------------------------------------------------------------------
(* Numbers and sequences *)

\* A set of naturals that is not empty has a smallest element.
LEMMA Smallest ==
  ASSUME NEW S \in SUBSET Nat, S # {}
  PROVE  \E m \in S : \A n \in S : m <= n
<1>1. PICK m \in S : \A n \in S : ~(<<n, m>> \in OpToRel(<, Nat))
  BY WFMin, NatLessThanWellFounded, Zenon
<1>2. \A n \in S : ~(n < m)
  BY <1>1, Zenon DEF OpToRel
<1> QED BY <1>2

\* A bounded set of numbers has a largest element.
LEMMA Largest ==
  ASSUME NEW b \in Nat, NEW S \in SUBSET (0 .. b), S # {}
  PROVE  \E x \in S : \A y \in S : y <= x
<1> DEFINE T == {b - y : y \in S}
<1>1. T \in SUBSET Nat /\ T # {}
  <2>1. ASSUME NEW y \in S PROVE b - y \in Nat
    <3>1. y \in 0 .. b
      OBVIOUS
    <3> QED BY <3>1
  <2>2. PICK y \in S : TRUE
    OBVIOUS
  <2>3. b - y \in T
    BY <2>2
  <2> QED BY <2>1, <2>3
<1>2. PICK m \in T : \A n \in T : m <= n
  <2> HIDE DEF T
  <2> QED BY <1>1, Smallest
<1>3. PICK x \in S : m = b - x
  BY <1>2
<1>4. ASSUME NEW y \in S PROVE y <= x
  <2>1. b - y \in T /\ x \in 0 .. b /\ y \in 0 .. b
    OBVIOUS
  <2>2. m <= b - y
    BY <1>2, <2>1
  <2> QED BY <1>3, <2>1, <2>2
<1> QED BY <1>4

\* An increasing enumeration of a set.
Enumerates(s, S) ==
  /\ s \in [1 .. Cardinality(S) -> S] /\ S = Members(s)
  /\ \A m, n \in DOMAIN s : m < n => s[m] < s[n]

\* Every bounded set of positions has one: the largest goes at the end.
LEMMA EnumerationExists ==
  ASSUME NEW b \in Nat, NEW S \in SUBSET (1 .. b)
  PROVE  IsFiniteSet(S) /\ \E s : Enumerates(s, S)
<1> DEFINE Upto(n) == S \cap 1 .. n
           Bad == {n \in 0 .. b : ~ \E s : Enumerates(s, Upto(n))}
<1>1. ASSUME NEW n \in Nat PROVE Upto(n) \in SUBSET (1 .. n) /\ IsFiniteSet(Upto(n))
  <2>1. IsFiniteSet(1 .. n)
    BY FS_Interval
  <2> QED BY <2>1, FS_Subset
<1>2. 0 \notin Bad
  <2>1. Upto(0) = {}
    OBVIOUS
  <2>2. Cardinality({}) = 0 /\ 1 .. 0 = {}
    BY FS_EmptySet
  <2> DEFINE s == [n \in {} |-> n]
  <2>3. Enumerates(s, {})
    BY <2>2 DEF Enumerates, Members
  <2> QED BY <2>1, <2>3
<1>3. Bad = {}
  <2> SUFFICES ASSUME Bad # {} PROVE FALSE
    OBVIOUS
  <2>0. Bad \in SUBSET Nat /\ Bad \subseteq 0 .. b
    OBVIOUS
  <2>1. PICK m \in Bad : \A n \in Bad : m <= n
    <3> HIDE DEF Bad
    <3> QED BY <2>0, Smallest
  <2>2. m \in Nat /\ m # 0 /\ m - 1 \in Nat /\ m - 1 \in 0 .. b /\ m - 1 \notin Bad
    <3> HIDE DEF Bad
    <3>1. m \in 0 .. b /\ m # 0
      BY <1>2, <2>0, <2>1
    <3>2. m - 1 \in Bad => m <= m - 1
      BY <2>1
    <3> QED BY <3>1, <3>2
  <2>3. PICK s : Enumerates(s, Upto(m - 1))
    BY <2>2
  <2>4. CASE m \notin S
    <3>1. Upto(m) = Upto(m - 1)
      <4>1. \A x \in 1 .. m : x = m \/ x \in 1 .. m - 1
        BY <2>2
      <4>2. \A x \in 1 .. m - 1 : x \in 1 .. m
        BY <2>2
      <4> QED BY <2>4, <4>1, <4>2
    <3> QED BY <2>1, <2>3, <3>1
  <2>5. CASE m \in S
    <3> DEFINE L == Upto(m - 1)
               c == Cardinality(L)
               t == [n \in 1 .. c + 1 |-> IF n <= c THEN s[n] ELSE m]
    <3>1. Upto(m) = L \cup {m} /\ m \notin L /\ L \in SUBSET (1 .. m - 1)
      <4>1. \A x \in 1 .. m : x = m \/ x \in 1 .. m - 1
        BY <2>2
      <4>2. m \in 1 .. m /\ m \notin 1 .. m - 1 /\ \A x \in 1 .. m - 1 : x \in 1 .. m
        BY <2>2
      <4> QED BY <2>5, <4>1, <4>2
    <3>2. c \in Nat /\ Cardinality(Upto(m)) = c + 1
      BY <1>1, <2>2, <3>1, FS_AddElement, FS_CardinalityType
    <3>3. s \in [1 .. c -> L] /\ L = Members(s)
          /\ \A i, n \in 1 .. c : i < n => s[i] < s[n]
      BY <2>3 DEF Enumerates
    <3> HIDE DEF L, c
    <3>4. t \in [1 .. c + 1 -> Upto(m)] /\ DOMAIN t = 1 .. c + 1
      BY <3>1, <3>2, <3>3
    <3>5. \A n \in 1 .. c : t[n] = s[n] /\ s[n] \in L
      BY <3>2, <3>3
    <3>6. t[c + 1] = m /\ c + 1 \in 1 .. c + 1
      BY <3>2
    <3>7. Upto(m) = Members(t)
      <4>1. ASSUME NEW x \in L PROVE \E n \in 1 .. c + 1 : t[n] = x
        <5>1. PICK n \in 1 .. c : s[n] = x
          BY <3>3 DEF Members
        <5> QED BY <3>2, <3>5, <5>1
      <4> QED BY <3>1, <3>4, <3>6, <4>1 DEF Members
    <3>8. \A i, n \in 1 .. c + 1 : i < n => t[i] < t[n]
      <4> SUFFICES ASSUME NEW i \in 1 .. c + 1, NEW n \in 1 .. c + 1, i < n PROVE t[i] < t[n]
        OBVIOUS
      <4>1. i \in 1 .. c
        BY <3>2
      <4>2. CASE n \in 1 .. c
        BY <3>3, <3>5, <4>1, <4>2
      <4>3. CASE n = c + 1
        <5>1. t[i] \in 1 .. m - 1
          BY <3>1, <3>5, <4>1
        <5>2. t[n] = m
          BY <3>6, <4>3
        <5> QED BY <2>2, <5>1, <5>2
      <4> QED BY <3>2, <4>2, <4>3
    <3>9. Enumerates(t, Upto(m))
      <4> HIDE DEF t, Upto
      <4> QED BY <3>2, <3>4, <3>7, <3>8 DEF Enumerates
    <3> QED BY <2>1, <3>9
  <2> QED BY <2>4, <2>5
<1>4. Upto(b) = S /\ b \in 0 .. b
  <2>1. Upto(b) = S
    OBVIOUS
  <2>2. b \in 0 .. b
    OBVIOUS
  <2> QED BY <2>1, <2>2
<1>5. \E s : Enumerates(s, Upto(b))
  <2> HIDE DEF Upto
  <2> QED BY <1>3, <1>4
<1> QED BY <1>1, <1>4, <1>5

\* InOrder is such an enumeration.
LEMMA InOrderEnumerates ==
  ASSUME NEW b \in Nat, NEW S \in SUBSET (1 .. b)
  PROVE  /\ Enumerates(InOrder(S), S) /\ Cardinality(S) \in Nat
         /\ DOMAIN InOrder(S) = 1 .. Cardinality(S)
<1>1. \E s : Enumerates(s, S)
  BY EnumerationExists
<1>2. Enumerates(InOrder(S), S)
  <2> DEFINE P(s) == S = Members(s) /\ \A m, n \in DOMAIN s : m < n => s[m] < s[n]
  <2>1. \E s \in [1 .. Cardinality(S) -> S] : P(s)
    BY <1>1 DEF Enumerates
  <2>2. InOrder(S) = CHOOSE s \in [1 .. Cardinality(S) -> S] : P(s)
    BY DEF InOrder
  <2> HIDE DEF P
  <2>3. InOrder(S) \in [1 .. Cardinality(S) -> S] /\ P(InOrder(S))
    BY <2>1, <2>2
  <2> QED BY <2>3 DEF P, Enumerates
<1> QED BY <1>2, EnumerationExists, FS_CardinalityType DEF Enumerates

-----------------------------------------------------------------------------
(* The file *)

Event == [id : Ids, seq : Nat]
Increasing(s) == \A m, n \in DOMAIN s : m < n => s[m].id < s[n].id

\* The position begins a line; the event of that line.
First(i) == file[i].part # "rest"
At(i) == [id |-> file[i].id, seq |-> file[i].seq]

\* plan_drain stops at an end of line after which no line ends.
LEMMA PlanDrainBounds ==
  ASSUME file \in Seq(Chunk), NEW from \in Nat, NEW mode, NEW to, to = PlanDrain(from, mode)
  PROVE  /\ to \in Nat
         /\ from <= Len(file) => from <= to /\ to <= Len(file)
         /\ mode = "terminal" => to = Len(file)
         /\ mode # "terminal" =>
              /\ to = from \/ (to \in from + 1 .. Len(file) /\ Ends(file[to]))
              /\ \A i \in from + 1 .. Len(file) : Ends(file[i]) => i <= to
<1>0. Len(file) \in Nat
  BY LenProperties
<1>1. CASE mode = "terminal"
  BY <1>0, <1>1 DEF PlanDrain
<1>2. CASE mode # "terminal"
  <2> DEFINE ends == {i \in from + 1 .. Len(file) : Ends(file[i])}
  <2>1. CASE ends = {}
    BY <1>0, <1>2, <2>1 DEF PlanDrain
  <2>2. CASE ends # {}
    <3>1. ends \in SUBSET (0 .. Len(file))
      BY <1>0
    <3>2. \E x \in ends : \A y \in ends : y <= x
      <4> HIDE DEF ends
      <4> QED BY <1>0, <2>2, <3>1, Largest
    <3>3. to \in ends /\ \A y \in ends : y <= to
      BY <1>2, <2>2, <3>2 DEF PlanDrain
    <3> QED BY <1>0, <1>2, <3>3
  <2> QED BY <2>1, <2>2
<1> QED BY <1>1, <1>2

\* The lines of the file carry ids in the order of their positions.
InOrderLines ==
  \A i, j \in DOMAIN file : First(i) /\ First(j) /\ i < j => file[i].id < file[j].id

\* parse_usage_block gives the events of the lines that parse, in order.
LEMMA ParseBlockEvents ==
  ASSUME file \in Seq(Chunk), NEW from \in Nat, NEW to \in Nat, to <= Len(file),
         NEW s, s = ParseBlock(from, to)
  PROVE  /\ s \in Seq(Event)
         /\ \A e \in Members(s) : \E i \in from + 1 .. to : First(i) /\ e = At(i)
         /\ \A i \in from + 1 .. to : Parses(i, to) => At(i) \in Members(s)
         /\ InOrderLines => Increasing(s)
<1> DEFINE good == {i \in from + 1 .. to : Parses(i, to)}
           places == InOrder(good)
           c == Cardinality(good)
<1>0. Len(file) \in Nat /\ DOMAIN file = 1 .. Len(file)
      /\ \A i \in 1 .. Len(file) : file[i] \in Chunk
  BY LenProperties
<1>1. good \in SUBSET (1 .. to) /\ good \subseteq from + 1 .. to /\ good \subseteq 1 .. Len(file)
  BY <1>0
<1>2. \A i \in good : First(i) /\ At(i) \in Event /\ i \in DOMAIN file
  BY <1>0, <1>1 DEF First, Parses, At, Event, Chunk
<1>3. \A i \in from + 1 .. to : Parses(i, to) => i \in good
  OBVIOUS
<1>4. s = [n \in DOMAIN places |-> At(places[n])]
  BY DEF ParseBlock, At
<1> HIDE DEF good
<1>5. /\ places \in [1 .. c -> good] /\ good = Members(places) /\ c \in Nat
      /\ \A m, n \in 1 .. c : m < n => places[m] < places[n]
  BY <1>1, InOrderEnumerates DEF Enumerates
<1> HIDE DEF places, c
<1>6. s = [n \in 1 .. c |-> At(places[n])]
  BY <1>4, <1>5
<1>7. s \in Seq(Event) /\ DOMAIN s = 1 .. c
  <2>1. s \in [1 .. c -> Event]
    BY <1>2, <1>5, <1>6
  <2> QED BY <1>5, <2>1, SeqDef
<1>8. \A n \in 1 .. c : s[n] = At(places[n]) /\ places[n] \in good
  BY <1>5, <1>6
<1>9. \A e \in Members(s) : \E i \in from + 1 .. to : First(i) /\ e = At(i)
  BY <1>1, <1>2, <1>7, <1>8 DEF Members
<1>10. ASSUME NEW i \in from + 1 .. to, Parses(i, to) PROVE At(i) \in Members(s)
  <2>1. PICK n \in 1 .. c : places[n] = i
    BY <1>3, <1>5, <1>10 DEF Members
  <2> QED BY <1>7, <1>8, <2>1 DEF Members
<1>11. ASSUME InOrderLines PROVE Increasing(s)
  <2> SUFFICES ASSUME NEW m \in 1 .. c, NEW n \in 1 .. c, m < n PROVE s[m].id < s[n].id
    BY <1>7 DEF Increasing
  <2>1. places[m] < places[n]
    BY <1>5
  <2>2. file[places[m]].id < file[places[n]].id
    BY <1>2, <1>8, <1>11, <2>1 DEF InOrderLines
  <2>3. s[m] = At(places[m]) /\ s[n] = At(places[n])
    BY <1>8
  <2> QED BY <2>2, <2>3 DEF At
<1> QED BY <1>7, <1>9, <1>10, <1>11

-----------------------------------------------------------------------------
(* The call stack *)

Loops == {"ingest", "ingestObs"}
FrameType == [op : {"log", "obs", "kill", "drop", "trunc", "cut"} \cup Loops,
              mode : {"mid", "terminal", "live"}, rest : Seq(Event),
              from : Nat, to : Nat]
WellFormed(f) ==
  /\ f \in FrameType /\ f.from <= f.to
  /\ f.op \notin Loops => f.rest = <<>> /\ f.from = 0
  /\ f.op # "drop" => f.mode # "live"

\* What the calls of a stack say of each other: only the drains of a stop lie
\* above a loop, a cut is about to happen, a kill is followed by the rest of
\* its stop, and what lets go of a handle comes after its last drains.
Sound(t) ==
  /\ t \in Seq(FrameType)
  /\ \A k \in 1 .. Len(t) :
       /\ WellFormed(t[k])
       /\ t[k].op \in Loops => \A j \in 1 .. k - 1 : t[j].mode = "terminal"
       /\ t[k].op = "cut" => k = 1
       /\ t[k].op = "kill" => /\ k + 2 <= Len(t)
                              /\ t[k + 1] = Frame("log", "terminal")
                              /\ t[k + 2] = Frame("drop", "terminal")
                              /\ \A j \in 1 .. k - 1 : t[j].op # "drop"
       /\ t[k].op = "drop" => \A j \in 1 .. k - 1 : t[j].mode # "mid"

\* The stack s is t with its n innermost calls replaced by those of pre.
Spliced(s, t, n, pre) ==
  /\ Len(s) = Len(pre) + Len(t) - n
  /\ \A k \in 1 .. Len(pre) : s[k] = pre[k]
  /\ \A k \in Len(pre) + 1 .. Len(s) :
       k - Len(pre) + n \in n + 1 .. Len(t) /\ s[k] = t[k - Len(pre) + n]

\* Replacing the top frame does that.
LEMMA SpliceTop ==
  ASSUME NEW F, NEW t \in Seq(F), t # <<>>, NEW pre \in Seq(F), NEW s, s = pre \o Tail(t)
  PROVE  s \in Seq(F) /\ Spliced(s, t, 1, pre)
<1>1. /\ Tail(t) \in Seq(F) /\ Len(Tail(t)) = Len(t) - 1
      /\ \A i \in 1 .. Len(t) - 1 : Tail(t)[i] = t[i + 1]
  BY HeadTailProperties
<1>2. Len(t) \in Nat /\ Len(pre) \in Nat
  BY LenProperties
<1>3. /\ s \in Seq(F) /\ Len(s) = Len(pre) + (Len(t) - 1)
      /\ \A i \in 1 .. Len(pre) + (Len(t) - 1) :
           s[i] = IF i <= Len(pre) THEN pre[i] ELSE Tail(t)[i - Len(pre)]
  BY <1>1, ConcatProperties
<1>4. \A k \in 1 .. Len(pre) : s[k] = pre[k]
  <2> TAKE k \in 1 .. Len(pre)
  <2>1. t # <<>> => Len(t) >= 1
    BY <1>2, EmptySeq
  <2> QED BY <1>2, <1>3, <2>1
<1>5. ASSUME NEW k \in Len(pre) + 1 .. Len(s)
      PROVE  k - Len(pre) + 1 \in 2 .. Len(t) /\ s[k] = t[k - Len(pre) + 1]
  <2>1. k - Len(pre) \in 1 .. Len(t) - 1 /\ k \in 1 .. Len(pre) + (Len(t) - 1) /\ ~(k <= Len(pre))
    BY <1>2, <1>3
  <2>2. s[k] = Tail(t)[k - Len(pre)]
    BY <1>3, <2>1
  <2> QED BY <1>1, <1>2, <2>1, <2>2
<1> QED BY <1>2, <1>3, <1>4, <1>5 DEF Spliced

\* So does a return.
LEMMA PopTop ==
  ASSUME NEW F, NEW t \in Seq(F), t # <<>>, NEW s, s = Tail(t)
  PROVE  s \in Seq(F) /\ Spliced(s, t, 1, <<>>)
<1>1. s = <<>> \o Tail(t) /\ <<>> \in Seq(F)
  BY HeadTailProperties, ConcatEmptySeq, EmptySeq
<1> QED BY <1>1, SpliceTop

\* A stack stays sound when its innermost calls are replaced by calls that fit.
LEMMA SpliceSound ==
  ASSUME NEW t, Sound(t), NEW n \in 1 .. Len(t), NEW pre, Sound(pre),
         NEW s \in Seq(FrameType), Spliced(s, t, n, pre),
         \A k \in 1 .. Len(pre) : /\ t[1].mode = "terminal" => pre[k].mode = "terminal"
                                  /\ t[1].mode # "mid" => pre[k].mode # "mid",
         Len(pre) > 0 => n = 1,
         (\E k \in 1 .. Len(pre) : pre[k].op = "drop")
           => \A k \in n + 1 .. Len(t) : t[k].op # "kill"
  PROVE  Sound(s)
<1>1. Len(t) \in Nat /\ Len(pre) \in Nat /\ Len(s) \in Nat /\ n \in Nat
      /\ Len(s) = Len(pre) + Len(t) - n
  BY LenProperties DEF Sound, Spliced
<1>2. \A k \in 1 .. Len(pre) : s[k] = pre[k] /\ k \in 1 .. Len(s)
  BY <1>1 DEF Spliced
<1>3. \A k \in Len(pre) + 1 .. Len(s) :
        k - Len(pre) + n \in n + 1 .. Len(t) /\ s[k] = t[k - Len(pre) + n]
  BY DEF Spliced
<1> SUFFICES ASSUME NEW k \in 1 .. Len(s)
             PROVE  /\ WellFormed(s[k])
                    /\ s[k].op \in Loops => \A j \in 1 .. k - 1 : s[j].mode = "terminal"
                    /\ s[k].op = "cut" => k = 1
                    /\ s[k].op = "kill" => /\ k + 2 <= Len(s)
                                           /\ s[k + 1] = Frame("log", "terminal")
                                           /\ s[k + 2] = Frame("drop", "terminal")
                                           /\ \A j \in 1 .. k - 1 : s[j].op # "drop"
                    /\ s[k].op = "drop" => \A j \in 1 .. k - 1 : s[j].mode # "mid"
  BY DEF Sound
<1>4. CASE k \in 1 .. Len(pre)
  <2>1. \A j \in 1 .. k - 1 : s[j] = pre[j]
    BY <1>1, <1>2, <1>4
  <2>2. k + 2 <= Len(pre) => k + 2 <= Len(s) /\ s[k + 1] = pre[k + 1] /\ s[k + 2] = pre[k + 2]
    BY <1>1, <1>2, <1>4
  <2> QED BY <1>2, <1>4, <2>1, <2>2 DEF Sound
<1>5. CASE k \notin 1 .. Len(pre)
  <2> DEFINE i == k - Len(pre) + n
  <2>1. k \in Len(pre) + 1 .. Len(s) /\ i \in n + 1 .. Len(t) /\ i \in 1 .. Len(t) /\ s[k] = t[i]
    <3>1. k \in Len(pre) + 1 .. Len(s)
      BY <1>1, <1>5
    <3>2. k - Len(pre) + n \in n + 1 .. Len(t) /\ s[k] = t[k - Len(pre) + n]
      BY <1>3, <3>1
    <3> QED BY <1>1, <3>1, <3>2
  <2>2. WellFormed(t[i]) /\ t[i].op # "cut"
    BY <1>1, <2>1 DEF Sound
  <2>3. ASSUME NEW j \in 1 .. k - 1
        PROVE  \/ j \in 1 .. Len(pre) /\ s[j] = pre[j] /\ 1 \in 1 .. i - 1
               \/ \E m \in 1 .. i - 1 : s[j] = t[m]
    <3>1. CASE j \in 1 .. Len(pre)
      <4>1. 1 \in 1 .. i - 1
        BY <1>1, <2>1, <3>1
      <4> QED BY <1>2, <3>1, <4>1
    <3>2. CASE j \notin 1 .. Len(pre)
      <4>1. j \in Len(pre) + 1 .. Len(s) /\ j - Len(pre) + n \in 1 .. i - 1
        BY <1>1, <2>1, <3>2
      <4> QED BY <1>3, <4>1
    <3> QED BY <3>1, <3>2
  <2>4. ASSUME t[i].op \in Loops, NEW j \in 1 .. k - 1 PROVE s[j].mode = "terminal"
    <3>1. \A m \in 1 .. i - 1 : t[m].mode = "terminal"
      BY <2>1, <2>4 DEF Sound
    <3> QED BY <2>3, <3>1
  <2>5. ASSUME t[i].op = "drop", NEW j \in 1 .. k - 1 PROVE s[j].mode # "mid"
    <3>1. \A m \in 1 .. i - 1 : t[m].mode # "mid"
      BY <2>1, <2>5 DEF Sound
    <3> QED BY <2>3, <3>1
  <2>6. ASSUME t[i].op = "kill"
        PROVE  /\ k + 2 <= Len(s)
               /\ s[k + 1] = Frame("log", "terminal") /\ s[k + 2] = Frame("drop", "terminal")
               /\ \A j \in 1 .. k - 1 : s[j].op # "drop"
    <3>1. /\ i + 2 <= Len(t)
          /\ t[i + 1] = Frame("log", "terminal") /\ t[i + 2] = Frame("drop", "terminal")
          /\ \A m \in 1 .. i - 1 : t[m].op # "drop"
      BY <2>1, <2>6 DEF Sound
    <3>2. /\ k + 1 \in Len(pre) + 1 .. Len(s) /\ k + 2 \in Len(pre) + 1 .. Len(s)
          /\ (k + 1) - Len(pre) + n = i + 1 /\ (k + 2) - Len(pre) + n = i + 2
      <4>1. k \in Int /\ i \in Int /\ k = i + Len(pre) - n /\ Len(s) = Len(pre) + Len(t) - n
        BY <1>1
      <4>2. k >= Len(pre) + 1 /\ i + 2 <= Len(t)
        BY <1>1, <2>1, <3>1
      <4>3. Len(pre) \in Int /\ Len(t) \in Int /\ n \in Int
        BY <1>1
      <4> HIDE DEF i
      <4>4. k + 2 <= Len(s)
        BY <4>1, <4>2, <4>3
      <4> QED BY <4>1, <4>2, <4>3, <4>4
    <3>3. s[k + 1] = t[i + 1] /\ s[k + 2] = t[i + 2]
      BY <1>3, <3>2
    <3>4. \A j \in 1 .. Len(pre) : pre[j].op # "drop"
      BY <2>1, <2>6
    <3>5. k + 2 <= Len(s)
      BY <1>1, <3>2
    <3>6. \A j \in 1 .. k - 1 : s[j].op # "drop"
      BY <2>3, <3>1, <3>4
    <3> QED BY <3>1, <3>3, <3>5, <3>6
  <2> QED BY <2>1, <2>2, <2>4, <2>5, <2>6
<1> QED BY <1>4, <1>5

-----------------------------------------------------------------------------
(* Types *)

MeterTyped ==
  /\ source \in {"log", "observed"} /\ metadata \in BOOLEAN
  /\ row \in {"running", "stopping", "down"} /\ alive \in BOOLEAN
  /\ file \in Seq(Chunk) /\ seq \in Nat
  /\ half \in [id : 0 .. MaxEvents, part : {"line"} \cup Parts]
  /\ half # NoHalf => half.part \in Parts /\ half.id \in 1 .. produced
  /\ queue \in Seq([id : Ids])
  /\ gen \in 0 .. MaxGen /\ held \in BOOLEAN
  /\ cursor \in Nat /\ tailer \in Nat /\ minted \in Nat
  /\ park \in [at : Nat, attempts : 0 .. ParkMax - 1]
  /\ observed \in [events : Seq(Event), attempts : 0 .. ParkMax]
  /\ Len(observed.events) <= BufMax
  /\ capture \in BOOLEAN /\ unconfirmed \in BOOLEAN /\ stale \in BOOLEAN
  /\ rows \subseteq [gen : 0 .. MaxGen, seq : Nat, id : Ids]
  /\ faults \in 0 .. MaxFaults /\ produced \in 0 .. MaxEvents
  /\ errors \in 0 .. MaxErrors /\ skips \in Nat
  /\ announced \subseteq Ids /\ excused \subseteq Ids /\ unshown \subseteq Ids

\* A stop that is killing has moved the row.
KillsIn(t, state) == \A k \in 1 .. Len(t) : t[k].op = "kill" => state = "stopping"

Stack ==
  /\ Sound(todo) /\ KillsIn(todo, row)
  /\ Doing("cut") => Top.to <= Len(file)

Typed == MeterTyped /\ Stack

\* The numbers and the elements behind the types.
LEMMA Facts ==
  ASSUME Typed
  PROVE  /\ MaxEvents \in Nat /\ MaxGen \in Nat /\ MaxFaults \in Nat /\ BufMax \in Nat
         /\ ParkMax \in Nat \ {0} /\ MaxErrors \in Nat /\ Parts \subseteq {"json", "torn"}
         /\ Len(file) \in Nat /\ DOMAIN file = 1 .. Len(file)
         /\ \A i \in 1 .. Len(file) : file[i] \in Chunk
         /\ Len(todo) \in Nat /\ DOMAIN todo = 1 .. Len(todo)
         /\ Len(observed.events) \in Nat /\ Len(queue) \in Nat
         /\ (todo = <<>> <=> Len(todo) = 0)
         /\ todo # <<>> => /\ 1 \in 1 .. Len(todo) /\ todo[1] = Top
                           /\ Top \in FrameType /\ WellFormed(Top)
<1>1. /\ MaxEvents \in Nat /\ MaxGen \in Nat /\ MaxFaults \in Nat /\ BufMax \in Nat
      /\ ParkMax \in Nat \ {0} /\ Parts \subseteq {"json", "torn"}
  BY MeteringAssumption
<1>2. MaxErrors \in Nat
  BY <1>1 DEF MaxErrors
<1>3. /\ Len(file) \in Nat /\ DOMAIN file = 1 .. Len(file)
      /\ \A i \in 1 .. Len(file) : file[i] \in Chunk
  BY LenProperties DEF Typed, MeterTyped
<1>4. todo \in Seq(FrameType) /\ \A k \in 1 .. Len(todo) : WellFormed(todo[k])
  BY DEF Typed, Stack, Sound
<1>5. Len(todo) \in Nat /\ DOMAIN todo = 1 .. Len(todo)
  BY <1>4, LenProperties
<1>6. observed.events \in Seq(Event) /\ Len(observed.events) \in Nat /\ Len(queue) \in Nat
  BY LenProperties DEF Typed, MeterTyped
<1>7. todo = <<>> <=> Len(todo) = 0
  BY <1>4, EmptySeq
<1>8. ASSUME todo # <<>>
      PROVE  1 \in 1 .. Len(todo) /\ todo[1] = Top /\ Top \in FrameType /\ WellFormed(Top)
  <2>1. 1 \in 1 .. Len(todo)
    BY <1>5, <1>7, <1>8
  <2>2. todo[1] = Top
    BY <1>4, <1>8 DEF Top
  <2> QED BY <1>4, <2>1, <2>2 DEF WellFormed
<1> QED BY <1>1, <1>2, <1>3, <1>5, <1>6, <1>7, <1>8

\* The sets of ids are sets of ids.
LEMMA IdSets ==
  ASSUME Typed
  PROVE  /\ IdsOf(file) \subseteq Ids /\ IdsOf(queue) \subseteq Ids
         /\ IdsOf(observed.events) \subseteq Ids
         /\ \A k \in 1 .. Len(todo) : IdsOf(todo[k].rest) \subseteq Ids
         /\ Unread \subseteq Ids /\ InHand \subseteq Ids /\ Unfinished \subseteq Ids
         /\ \A to : CutOff(to) \subseteq Ids
         /\ \A n \in Nat, m \in Nat : m <= Len(file) =>
              LinesIn(n, m) \subseteq Ids /\ {file[i].id : i \in n + 1 .. m} \subseteq Ids
<1>1. /\ Len(file) \in Nat /\ DOMAIN file = 1 .. Len(file)
      /\ \A i \in 1 .. Len(file) : file[i] \in Chunk
      /\ Len(todo) \in Nat /\ DOMAIN todo = 1 .. Len(todo) /\ cursor \in Nat
  BY Facts DEF Typed, MeterTyped
<1>2. IdsOf(file) \subseteq Ids
  BY <1>1 DEF IdsOf, Chunk
<1>3. ASSUME NEW s \in Seq(Event) PROVE IdsOf(s) \subseteq Ids
  <2>1. DOMAIN s = 1 .. Len(s) /\ \A i \in 1 .. Len(s) : s[i] \in Event
    BY LenProperties
  <2> QED BY <2>1 DEF IdsOf, Event
<1>4. IdsOf(queue) \subseteq Ids
  <2>0. queue \in Seq([id : Ids])
    BY DEF Typed, MeterTyped
  <2>1. DOMAIN queue = 1 .. Len(queue) /\ \A i \in 1 .. Len(queue) : queue[i] \in [id : Ids]
    BY <2>0, LenProperties
  <2> QED BY <2>1 DEF IdsOf
<1>5. IdsOf(observed.events) \subseteq Ids
  BY <1>3 DEF Typed, MeterTyped
<1>6. \A k \in 1 .. Len(todo) : IdsOf(todo[k].rest) \subseteq Ids
  BY <1>3 DEF Typed, Stack, Sound, WellFormed, FrameType
<1>7. Unread \subseteq Ids
  BY <1>1 DEF Unread, Chunk
<1>8. InHand \subseteq Ids
  BY <1>1, <1>4, <1>5, <1>6 DEF InHand
<1>9. Unfinished \subseteq Ids
  BY DEF Unfinished, NoHalf, Ids, Typed, MeterTyped
<1>10. \A to : CutOff(to) \subseteq Ids
  BY <1>1 DEF CutOff, Chunk
<1>11. ASSUME NEW n \in Nat, NEW m \in Nat, m <= Len(file)
       PROVE  LinesIn(n, m) \subseteq Ids /\ {file[i].id : i \in n + 1 .. m} \subseteq Ids
  <2>1. \A i \in n + 1 .. m : file[i] \in Chunk
    BY <1>1, <1>11
  <2> QED BY <2>1 DEF LinesIn, Chunk
<1> QED BY <1>2, <1>4, <1>5, <1>6, <1>7, <1>8, <1>9, <1>10, <1>11

\* Two frames and one.
LEMMA ThreeFrames ==
  ASSUME NEW a, NEW b, NEW c
  PROVE  <<a, b>> \o <<c>> = <<a, b, c>>
<1> DEFINE S == {a, b, c}
<1>1. <<a, b>> \in Seq(S) /\ <<c>> \in Seq(S) /\ <<a, b, c>> \in Seq(S)
  OBVIOUS
<1> HIDE DEF S
<1>2. /\ <<a, b>> \o <<c>> \in Seq(S) /\ Len(<<a, b>> \o <<c>>) = 3
      /\ \A i \in 1 .. 3 : (<<a, b>> \o <<c>>)[i] = <<a, b, c>>[i]
  BY <1>1, ConcatProperties
<1> QED BY <1>1, <1>2, SeqEqual

\* The frames an operation begins with.
LEMMA NewFrames ==
  /\ Sound(<<>>) /\ Sound(TickFrames) /\ Sound(StopFrames) /\ Sound(ReapFrames)
  /\ Len(TickFrames) = 2 /\ Len(StopFrames) = 5 /\ Len(ReapFrames) = 3
  /\ TickFrames[1] = Frame("log", "mid") /\ TickFrames[2] = Frame("obs", "mid")
  /\ StopFrames[1] = Frame("log", "terminal") /\ StopFrames[2] = Frame("obs", "terminal")
  /\ StopFrames[3] = Frame("kill", "terminal") /\ StopFrames[4] = Frame("log", "terminal")
  /\ StopFrames[5] = Frame("drop", "terminal")
  /\ ReapFrames[1] = Frame("log", "terminal") /\ ReapFrames[2] = Frame("obs", "terminal")
  /\ ReapFrames[3] = Frame("drop", IF alive THEN "live" ELSE "terminal")
<1>1. ASSUME NEW op \in {"log", "obs", "kill", "drop", "trunc", "cut"},
             NEW mode \in {"mid", "terminal", "live"}, op # "drop" => mode # "live"
      PROVE  WellFormed(Frame(op, mode))
  <2>1. <<>> \in Seq(Event)
    OBVIOUS
  <2> QED BY <1>1, <2>1 DEF WellFormed, Frame, FrameType, Loops
<1>2. Sound(<<>>)
  BY DEF Sound
<1>3. /\ TickFrames = <<Frame("log", "mid"), Frame("obs", "mid")>>
      /\ Sound(TickFrames)
  <2>1. TickFrames = <<Frame("log", "mid"), Frame("obs", "mid")>>
    BY DEF TickFrames, Drains
  <2>2. WellFormed(Frame("log", "mid")) /\ WellFormed(Frame("obs", "mid"))
    BY <1>1
  <2> QED BY <2>1, <2>2 DEF Sound, WellFormed, Frame, Loops
<1>4. /\ StopFrames = <<Frame("log", "terminal"), Frame("obs", "terminal"),
                        Frame("kill", "terminal"), Frame("log", "terminal"),
                        Frame("drop", "terminal")>>
      /\ Sound(StopFrames)
  <2>1. StopFrames = <<Frame("log", "terminal"), Frame("obs", "terminal"),
                       Frame("kill", "terminal"), Frame("log", "terminal"),
                       Frame("drop", "terminal")>>
    <3> DEFINE a == Frame("log", "terminal")
               b == Frame("obs", "terminal")
               c == Frame("kill", "terminal")
               d == Frame("drop", "terminal")
    <3>1. StopFrames = <<a, b>> \o <<c, a, d>>
      BY DEF StopFrames, Drains
    <3> HIDE DEF a, b, c, d
    <3>2. <<a, b>> \o <<c, a, d>> = <<a, b, c, a, d>>
      <4> DEFINE S == {a, b, c, d}
      <4>1. /\ <<a, b>> \in Seq(S) /\ <<c, a, d>> \in Seq(S) /\ <<a, b, c, a, d>> \in Seq(S)
        OBVIOUS
      <4> HIDE DEF S
      <4>2. /\ <<a, b>> \o <<c, a, d>> \in Seq(S) /\ Len(<<a, b>> \o <<c, a, d>>) = 5
            /\ \A i \in 1 .. 5 :
                 (<<a, b>> \o <<c, a, d>>)[i] = <<a, b, c, a, d>>[i]
        BY <4>1, ConcatProperties
      <4> QED BY <4>1, <4>2, SeqEqual
    <3>3. StopFrames = <<a, b, c, a, d>>
      BY <3>1, <3>2, Zenon
    <3> QED BY <3>3 DEF a, b, c, d
  <2>2. /\ WellFormed(Frame("log", "terminal")) /\ WellFormed(Frame("obs", "terminal"))
        /\ WellFormed(Frame("kill", "terminal")) /\ WellFormed(Frame("drop", "terminal"))
    BY <1>1
  <2>3. StopFrames \in Seq(FrameType) /\ Len(StopFrames) = 5
    BY <2>1, <2>2 DEF WellFormed
  <2>4. \A k \in 1 .. 5 : WellFormed(StopFrames[k])
    BY <2>1, <2>2
  <2>5. /\ StopFrames[4] = Frame("log", "terminal") /\ StopFrames[5] = Frame("drop", "terminal")
        /\ StopFrames[1].op = "log" /\ StopFrames[2].op = "obs" /\ StopFrames[3].op = "kill"
        /\ StopFrames[4].op = "log" /\ StopFrames[5].op = "drop"
        /\ \A k \in 1 .. 5 : StopFrames[k].mode = "terminal"
    BY <2>1 DEF Frame
  <2> QED BY <2>1, <2>3, <2>4, <2>5 DEF Sound, Loops
<1>5. /\ ReapFrames = <<Frame("log", "terminal"), Frame("obs", "terminal"),
                        Frame("drop", IF alive THEN "live" ELSE "terminal")>>
      /\ Sound(ReapFrames)
  <2> DEFINE m == IF alive THEN "live" ELSE "terminal"
  <2>1. ReapFrames = <<Frame("log", "terminal"), Frame("obs", "terminal"), Frame("drop", m)>>
    BY ThreeFrames DEF ReapFrames, Drains
  <2>2. /\ WellFormed(Frame("log", "terminal")) /\ WellFormed(Frame("obs", "terminal"))
        /\ WellFormed(Frame("drop", m)) /\ m # "mid"
    BY <1>1
  <2> HIDE DEF m
  <2>3. Sound(ReapFrames)
    BY <2>1, <2>2 DEF Sound, WellFormed, Frame, Loops
  <2> QED BY <2>1, <2>3 DEF m
<1> QED BY <1>2, <1>3, <1>4, <1>5

-----------------------------------------------------------------------------
(* Types, step by step *)

\* Replacing the innermost call by calls that fit keeps the stack as it must be.
LEMMA PushStack ==
  ASSUME Typed, todo # <<>>, NEW pre, Sound(pre), todo' = pre \o Tail(todo),
         \A k \in 1 .. Len(pre) : /\ Top.mode = "terminal" => pre[k].mode = "terminal"
                                  /\ Top.mode # "mid" => pre[k].mode # "mid",
         (\E k \in 1 .. Len(pre) : pre[k].op = "drop")
           => \A k \in 2 .. Len(todo) : todo[k].op # "kill",
         KillsIn(pre, row'),
         \/ row' \in {row, "stopping"}
         \/ \A k \in 2 .. Len(todo) : todo[k].op # "kill",
         Len(pre) > 0 /\ pre[1].op = "cut" => pre[1].to <= Len(file')
  PROVE  Stack' /\ Spliced(todo', todo, 1, pre)
<1>1. /\ todo \in Seq(FrameType) /\ Sound(todo) /\ KillsIn(todo, row)
      /\ pre \in Seq(FrameType)
  BY DEF Typed, Stack, Sound
<1>2. todo' \in Seq(FrameType) /\ Spliced(todo', todo, 1, pre)
  BY <1>1, SpliceTop
<1>3. todo[1] = Top /\ 1 \in 1 .. Len(todo) /\ Len(todo) \in Nat /\ Len(pre) \in Nat
  BY <1>1, Facts, LenProperties
<1>4. Sound(todo')
  <2>1. \A k \in 1 + 1 .. Len(todo) : k \in 2 .. Len(todo)
    OBVIOUS
  <2>2. \A k \in 1 .. Len(pre) : /\ todo[1].mode = "terminal" => pre[k].mode = "terminal"
                                 /\ todo[1].mode # "mid" => pre[k].mode # "mid"
    BY <1>3
  <2>3. (\E k \in 1 .. Len(pre) : pre[k].op = "drop")
          => \A k \in 1 + 1 .. Len(todo) : todo[k].op # "kill"
    BY <2>1
  <2> QED BY <1>1, <1>2, <1>3, <2>2, <2>3, SpliceSound
<1>5. \A k \in Len(pre) + 1 .. Len(todo') :
        k - Len(pre) + 1 \in 2 .. Len(todo) /\ todo'[k] = todo[k - Len(pre) + 1]
  BY <1>2 DEF Spliced
<1>6. \A k \in 1 .. Len(pre) : todo'[k] = pre[k]
  BY <1>2 DEF Spliced
<1>7. Len(todo') \in Nat
  BY <1>2, LenProperties
<1>8. KillsIn(todo', row')
  <2> SUFFICES ASSUME NEW k \in 1 .. Len(todo'), todo'[k].op = "kill"
               PROVE  row' = "stopping"
    BY DEF KillsIn
  <2>1. CASE k \in 1 .. Len(pre)
    BY <1>6, <2>1 DEF KillsIn
  <2>2. CASE k \notin 1 .. Len(pre)
    <3>1. k \in Len(pre) + 1 .. Len(todo')
      BY <1>3, <1>7, <2>2
    <3>2. PICK i \in 2 .. Len(todo) : todo'[k] = todo[i]
      BY <1>5, <3>1
    <3>3. row = "stopping"
      BY <1>1, <1>3, <3>2 DEF KillsIn
    <3> QED BY <3>2, <3>3
  <2> QED BY <2>1, <2>2
<1>9. ASSUME todo' # <<>>, Head(todo').op = "cut" PROVE Head(todo').to <= Len(file')
  <2>1. todo'[1] = Head(todo') /\ 1 \in 1 .. Len(todo')
    BY <1>2, <1>7, <1>9, EmptySeq
  <2>2. CASE Len(pre) > 0
    BY <1>3, <1>6, <1>9, <2>1, <2>2
  <2>3. CASE ~(Len(pre) > 0)
    <3>1. 1 \in Len(pre) + 1 .. Len(todo')
      BY <1>3, <2>1, <2>3
    <3>2. PICK i \in 2 .. Len(todo) : todo'[1] = todo[i]
      BY <1>5, <3>1
    <3>3. todo[i].op # "cut"
      BY <1>1, <1>3, <3>2 DEF Sound
    <3> QED BY <1>9, <2>1, <3>2, <3>3
  <2> QED BY <2>2, <2>3
<1>10. (Doing("cut") => Top.to <= Len(file))'
  BY <1>9 DEF Doing, Top
<1> QED BY <1>2, <1>4, <1>8, <1>10 DEF Stack

\* A return is the simplest case.
LEMMA PopStack ==
  ASSUME Typed, todo # <<>>, todo' = Tail(todo),
         \/ row' \in {row, "stopping"}
         \/ \A k \in 2 .. Len(todo) : todo[k].op # "kill"
  PROVE  Stack' /\ Spliced(todo', todo, 1, <<>>)
<1>1. todo' = <<>> \o Tail(todo)
  <2>1. Tail(todo) \in Seq(FrameType)
    BY HeadTailProperties DEF Typed, Stack, Sound
  <2> QED BY <2>1, ConcatEmptySeq
<1>2. Sound(<<>>) /\ Len(<<>>) = 0
  BY NewFrames, EmptySeq
<1>3. KillsIn(<<>>, row')
  BY DEF KillsIn
<1> QED BY <1>1, <1>2, <1>3, PushStack

\* One frame is a sound stack.
LEMMA OneFrame ==
  ASSUME NEW f, WellFormed(f), f.op # "kill"
  PROVE  Sound(<<f>>) /\ Len(<<f>>) = 1 /\ <<f>>[1] = f
BY DEF Sound, WellFormed

\* The stack of a step that does not touch it.
LEMMA SameStack ==
  ASSUME Typed, todo' = todo, row' \in {row, "stopping"} \/ todo = <<>>,
         file' \in Seq(Chunk), Doing("cut") => Len(file) <= Len(file')
  PROVE  Stack'
<1>1. (Doing("cut") => Top.to <= Len(file))'
  <2> SUFFICES ASSUME Doing("cut") PROVE Top.to <= Len(file')
    BY DEF Doing, Top
  <2>1. Top.to \in Nat /\ Len(file) \in Nat /\ Top.to <= Len(file)
    BY Facts DEF Doing, FrameType, Typed, Stack
  <2>2. Len(file) <= Len(file')
    OBVIOUS
  <2>3. Len(file') \in Int
    BY LenProperties
  <2> QED BY <2>1, <2>2, <2>3
<1>2. KillsIn(todo', row')
  BY Facts DEF Typed, Stack, KillsIn
<1> QED BY <1>1, <1>2 DEF Typed, Stack

\* An append keeps the file a file.
LEMMA AppendChunk ==
  ASSUME Typed, NEW c \in Chunk, file' = Append(file, c)
  PROVE  /\ file' \in Seq(Chunk) /\ Len(file') = Len(file) + 1 /\ DOMAIN file' = 1 .. Len(file) + 1
         /\ \A i \in 1 .. Len(file) : file'[i] = file[i]
         /\ file'[Len(file) + 1] = c
<1>1. file \in Seq(Chunk)
  BY DEF Typed, MeterTyped
<1> QED BY <1>1, AppendProperties, LenProperties

(* The agent appends a line, or the first half of one. *)
LEMMA WriteLineTyped ==
  ASSUME Typed, WriteLine
  PROVE  Typed'
<1> USE DEF WriteLine, Appended
<1>1. PICK part \in {"line"} \cup Parts : 
        /\ file' = Append(file, [id |-> produced', seq |-> seq', part |-> part])
        /\ half' = IF part = "line" THEN NoHalf ELSE [id |-> produced', part |-> part]
        /\ excused' = IF held THEN excused ELSE excused \cup {produced'}
        /\ UNCHANGED <<source, metadata, row, alive, queue, gen, handle, rows, todo, faults,
                       errors, skips, announced, unshown>>
  OBVIOUS
<1>2. /\ produced \in 0 .. MaxEvents /\ produced < MaxEvents /\ produced' = produced + 1
      /\ seq \in Nat /\ seq' = seq + 1 /\ MaxEvents \in Nat
  BY Facts DEF Typed, MeterTyped
<1>3. produced' \in Ids /\ produced' \in 0 .. MaxEvents /\ produced' \in 1 .. produced' /\ seq' \in Nat
  BY <1>2 DEF Ids
<1> DEFINE c == [id |-> produced', seq |-> seq', part |-> part]
<1>4. c \in Chunk /\ file' = Append(file, c)
  BY <1>1, <1>3 DEF Chunk
<1> HIDE DEF c
<1>5. file' \in Seq(Chunk) /\ Len(file') = Len(file) + 1
  BY <1>4, AppendChunk
<1>6. Stack'
  BY <1>1, <1>5, Facts, SameStack
<1>7. /\ half' \in [id : 0 .. MaxEvents, part : {"line"} \cup Parts]
      /\ half' # NoHalf => half'.part \in Parts /\ half'.id \in 1 .. produced'
  <2>1. NoHalf \in [id : 0 .. MaxEvents, part : {"line"} \cup Parts]
    BY <1>2 DEF NoHalf
  <2>2. part # "line" => part \in Parts
    OBVIOUS
  <2> QED BY <1>1, <1>3, <2>1, <2>2
<1>8. excused' \subseteq Ids
  BY <1>1, <1>3 DEF Typed, MeterTyped
<1>9. MeterTyped'
  BY <1>1, <1>3, <1>5, <1>7, <1>8 DEF Typed, MeterTyped, handle
<1> QED BY <1>6, <1>9 DEF Typed

(* The agent completes its line. *)
LEMMA WriteRestTyped ==
  ASSUME Typed, WriteRest
  PROVE  Typed'
<1> USE DEF WriteRest, Appended
<1>1. half.id \in Ids /\ seq' = seq /\ seq \in Nat
  BY Facts DEF Typed, MeterTyped, Ids
<1> DEFINE c == [id |-> half.id, seq |-> seq', part |-> "rest"]
<1>2. c \in Chunk /\ file' = Append(file, c)
  BY <1>1 DEF Chunk
<1> HIDE DEF c
<1>3. file' \in Seq(Chunk) /\ Len(file') = Len(file) + 1
  BY <1>2, AppendChunk
<1>4. Stack'
  BY <1>3, Facts, SameStack
<1>5. half' = NoHalf /\ NoHalf \in [id : 0 .. MaxEvents, part : {"line"} \cup Parts]
  BY Facts DEF NoHalf
<1>6. excused' \subseteq Ids
  BY <1>1 DEF Typed, MeterTyped
<1>7. MeterTyped'
  BY <1>1, <1>3, <1>5, <1>6 DEF Typed, MeterTyped, handle
<1> QED BY <1>4, <1>7 DEF Typed

(* A completion that went through the listener is queued. *)
LEMMA ForwardTyped ==
  ASSUME Typed, Forward
  PROVE  Typed'
<1> USE DEF Forward
<1>1. /\ produced \in 0 .. MaxEvents /\ produced < MaxEvents /\ produced' = produced + 1
      /\ MaxEvents \in Nat
  BY Facts DEF Typed, MeterTyped
<1>2. produced' \in Ids /\ produced' \in 0 .. MaxEvents /\ 1 .. produced \subseteq 1 .. produced'
  BY <1>1 DEF Ids
<1>3. queue' \in Seq([id : Ids])
  <2>1. [id |-> produced'] \in [id : Ids] /\ queue \in Seq([id : Ids])
    BY <1>2 DEF Typed, MeterTyped
  <2> QED BY <2>1, AppendProperties
<1>4. Stack'
  BY Facts, SameStack DEF Typed, MeterTyped
<1>5. half' # NoHalf => half'.part \in Parts /\ half'.id \in 1 .. produced'
  BY <1>2 DEF Typed, MeterTyped
<1>6. MeterTyped'
  BY <1>2, <1>3, <1>5 DEF Typed, MeterTyped, handle, losses
<1> QED BY <1>4, <1>6 DEF Typed

(* The agent exits. *)
LEMMA ExitTyped ==
  ASSUME Typed, Exit
  PROVE  Typed'
<1> USE DEF Exit
<1>1. half' = NoHalf /\ NoHalf \in [id : 0 .. MaxEvents, part : {"line"} \cup Parts]
  BY Facts DEF NoHalf
<1>2. excused' \subseteq Ids
  BY IdSets DEF Typed, MeterTyped
<1>3. Stack'
  BY Facts, SameStack DEF Typed, MeterTyped
<1>4. MeterTyped'
  BY <1>1, <1>2 DEF Typed, MeterTyped, handle
<1> QED BY <1>3, <1>4 DEF Typed

\* The tailer stops at an end of line, or stays.
LEMMA CatchUpBounds ==
  ASSUME Typed
  PROVE  /\ CatchUp \in Nat /\ (~capture => CatchUp = tailer)
         /\ capture => /\ tailer <= Len(file) => tailer <= CatchUp /\ CatchUp <= Len(file)
                       /\ CatchUp = tailer \/ CatchUp \in tailer + 1 .. Len(file)
                       /\ \A i \in tailer + 1 .. Len(file) : Ends(file[i]) => i <= CatchUp
<1>1. tailer \in Nat /\ file \in Seq(Chunk)
  BY DEF Typed, MeterTyped
<1>2. CASE ~capture
  BY <1>1, <1>2 DEF CatchUp
<1>3. CASE capture
  <2>1. CatchUp = PlanDrain(tailer, "mid")
    BY <1>3 DEF CatchUp
  <2>2. "mid" # "terminal"
    OBVIOUS
  <2> QED BY <1>1, <1>3, <2>1, <2>2, PlanDrainBounds
<1> QED BY <1>2, <1>3

(* The tailer catches up with the raw log. *)
LEMMA TailerPassTyped ==
  ASSUME Typed, TailerPass
  PROVE  Typed'
<1> USE DEF TailerPass
<1>1. tailer' \in Nat
  BY CatchUpBounds
<1>2. Stack'
  BY Facts, SameStack DEF Typed, MeterTyped, agent
<1>3. MeterTyped'
  BY <1>1 DEF Typed, MeterTyped, agent, losses
<1> QED BY <1>2, <1>3 DEF Typed

\* The new block of a log drain, and the length check behind it.
DrainTo == PlanDrain(cursor, Top.mode)
Block == [op |-> "ingest", mode |-> Top.mode, from |-> cursor,
          rest |-> ParseBlock(cursor, DrainTo), to |-> DrainTo]
Reading == (IF DrainTo = cursor THEN <<>> ELSE <<Block>>) \o <<Frame("trunc", Top.mode)>>

(* A drain replaces its frame by the block it read, or by the check of the   *)
(* size.                                                                     *)
LEMMA ReadTailFrames ==
  ASSUME Typed, Doing("log"), cursor <= Len(file)
  PROVE  /\ DrainTo \in cursor .. Len(file) /\ WellFormed(Block)
         /\ DrainTo = cursor => Reading = <<Frame("trunc", Top.mode)>>
         /\ DrainTo # cursor => Reading = <<Block, Frame("trunc", Top.mode)>>
         /\ Sound(Reading)
<1> DEFINE tr == Frame("trunc", Top.mode)
<1>1. /\ file \in Seq(Chunk) /\ cursor \in Nat /\ Len(file) \in Nat
      /\ Top.mode \in {"mid", "terminal"} /\ Top.op = "log"
  BY Facts DEF Typed, MeterTyped, Doing, Top, WellFormed, FrameType
<1>2. DrainTo \in Nat /\ cursor <= DrainTo /\ DrainTo <= Len(file)
  BY <1>1, PlanDrainBounds DEF DrainTo
<1>3. WellFormed(Block)
  <2>1. ParseBlock(cursor, DrainTo) \in Seq(Event)
    BY <1>1, <1>2, ParseBlockEvents
  <2> QED BY <1>1, <1>2, <2>1 DEF WellFormed, FrameType, Loops, Block
<1>4. WellFormed(tr) /\ tr.op = "trunc" /\ Block.op = "ingest"
  <2>1. <<>> \in Seq(Event)
    OBVIOUS
  <2> QED BY <1>1, <2>1 DEF WellFormed, Frame, FrameType, Loops, Block
<1> HIDE DEF tr
<1>5. Reading = (IF DrainTo = cursor THEN <<>> ELSE <<Block>>) \o <<tr>>
  BY DEF Reading, tr
<1>6. DrainTo = cursor => Reading = <<tr>>
  <2>1. <<tr>> \in Seq({tr}) /\ <<>> \in Seq({tr})
    OBVIOUS
  <2>2. <<>> \o <<tr>> = <<tr>>
    BY <2>1, ConcatEmptySeq
  <2> QED BY <1>5, <2>2
<1>7. DrainTo # cursor => Reading = <<Block, tr>>
  <2> DEFINE S == {Block, tr}
  <2>1. <<Block>> \in Seq(S) /\ <<tr>> \in Seq(S) /\ <<Block, tr>> \in Seq(S)
    OBVIOUS
  <2> HIDE DEF S
  <2>2. /\ <<Block>> \o <<tr>> \in Seq(S) /\ Len(<<Block>> \o <<tr>>) = 2
        /\ \A i \in 1 .. 2 : (<<Block>> \o <<tr>>)[i] = <<Block, tr>>[i]
    BY <2>1, ConcatProperties
  <2>3. <<Block>> \o <<tr>> = <<Block, tr>>
    BY <2>1, <2>2, SeqEqual
  <2> QED BY <1>5, <2>3
<1>8. Sound(<<tr>>)
  BY <1>4, OneFrame
<1>9. Sound(<<Block, tr>>)
  <2>1. Len(<<Block, tr>>) = 2 /\ <<Block, tr>>[1] = Block /\ <<Block, tr>>[2] = tr
    OBVIOUS
  <2>2. <<Block, tr>> \in Seq(FrameType)
    BY <1>3, <1>4 DEF WellFormed
  <2> SUFFICES ASSUME NEW k \in {1, 2}
               PROVE  /\ WellFormed(<<Block, tr>>[k])
                      /\ <<Block, tr>>[k].op \in Loops => k = 1
                      /\ <<Block, tr>>[k].op \notin {"cut", "kill", "drop"}
    BY <2>1, <2>2 DEF Sound
  <2> QED BY <1>3, <1>4, <2>1 DEF Loops
<1>10. DrainTo \in cursor .. Len(file)
  BY <1>1, <1>2
<1>11. Sound(Reading)
  BY <1>6, <1>7, <1>8, <1>9
<1> QED BY <1>3, <1>6, <1>7, <1>10, <1>11 DEF tr

\* An unsuccessful call counts against the bound.
LEMMA FaultTyped ==
  ASSUME Typed, Fault \/ UNCHANGED faults
  PROVE  faults' \in 0 .. MaxFaults
<1>1. MaxFaults \in Nat /\ faults \in 0 .. MaxFaults
  BY Facts DEF Typed, MeterTyped
<1> QED BY <1>1 DEF Fault

(* So the read of a block keeps the types. *)
LEMMA ReadTailTyped ==
  ASSUME Typed, ReadTail
  PROVE  Typed'
<1>1. /\ todo # <<>> /\ Top.op = "log" /\ cursor \in Nat /\ Len(file) \in Nat
      /\ row' = row /\ file' = file /\ Doing("log")
  BY Facts DEF ReadTail, Typed, MeterTyped, Doing, Top, agent
<1>2. faults' \in 0 .. MaxFaults
  BY FaultTyped DEF ReadTail
<1>3. excused' \subseteq Ids
  BY IdSets DEF ReadTail, Typed, MeterTyped
<1>4. cursor' \in Nat
  BY <1>1 DEF ReadTail
<1>5. MeterTyped'
  BY <1>2, <1>3, <1>4 DEF ReadTail, Typed, MeterTyped, agent
<1>6. CASE Return
  BY <1>1, <1>5, <1>6, PopStack DEF Return, Typed
<1>7. CASE ~Return
  <2>1. held /\ cursor <= Len(file) /\ todo' = Reading \o Tail(todo)
    <3>1. held /\ ~(cursor > Len(file))
      BY <1>7 DEF ReadTail
    <3>2. todo' = Reading \o Tail(todo)
      BY <1>7, <3>1 DEF ReadTail, Reading, Block, DrainTo
    <3> QED BY <1>1, <3>1, <3>2
  <2>2. /\ DrainTo = cursor => Reading = <<Frame("trunc", Top.mode)>>
        /\ DrainTo # cursor => Reading = <<Block, Frame("trunc", Top.mode)>>
        /\ Sound(Reading)
    BY <1>1, <2>1, ReadTailFrames
  <2>3. /\ Frame("trunc", Top.mode).mode = Top.mode /\ Frame("trunc", Top.mode).op = "trunc"
        /\ Block.mode = Top.mode /\ Block.op = "ingest"
    BY DEF Frame, Block
  <2>4. \A k \in 1 .. Len(Reading) :
          Reading[k].mode = Top.mode /\ Reading[k].op \in {"ingest", "trunc"}
    BY <2>2, <2>3
  <2>5. KillsIn(Reading, row') /\ (Len(Reading) > 0 => Reading[1].op # "cut")
    <3>1. Len(Reading) \in Nat
      BY <2>2, LenProperties DEF Sound
    <3> QED BY <2>4, <3>1 DEF KillsIn
  <2>6. Stack'
    BY <1>1, <2>1, <2>2, <2>4, <2>5, PushStack
  <2> QED BY <1>5, <2>6 DEF Typed
<1> QED BY <1>6, <1>7

\* The frames of a breach: the stop, then what is left of the loop.
LEMMA StopThen ==
  ASSUME NEW f, WellFormed(f), f.op \in Loops
  PROVE  /\ Sound(StopFrames \o <<f>>) /\ Len(StopFrames \o <<f>>) = 6
         /\ \A k \in 1 .. 5 : (StopFrames \o <<f>>)[k] = StopFrames[k]
         /\ (StopFrames \o <<f>>)[6] = f
<1>1. /\ StopFrames \in Seq(FrameType) /\ <<f>> \in Seq(FrameType) /\ Len(StopFrames) = 5
      /\ Len(<<f>>) = 1 /\ <<f>>[1] = f
  BY NewFrames DEF Sound, WellFormed
<1> DEFINE s == StopFrames \o <<f>>
<1>2. /\ s \in Seq(FrameType) /\ Len(s) = 6
      /\ \A k \in 1 .. 6 : s[k] = IF k <= 5 THEN StopFrames[k] ELSE <<f>>[k - 5]
  <2>1. /\ s \in Seq(FrameType) /\ Len(s) = Len(StopFrames) + Len(<<f>>)
        /\ \A k \in 1 .. Len(StopFrames) + Len(<<f>>) :
             s[k] = IF k <= Len(StopFrames) THEN StopFrames[k] ELSE <<f>>[k - Len(StopFrames)]
    BY <1>1, ConcatProperties
  <2> QED BY <1>1, <2>1
<1>3. (\A k \in 1 .. 5 : s[k] = StopFrames[k]) /\ s[6] = f
  BY <1>1, <1>2
<1> HIDE DEF s
<1>4. \A k \in 1 .. 5 : WellFormed(StopFrames[k])
  BY NewFrames DEF Sound
<1>5. /\ s[1].op = "log" /\ s[2].op = "obs" /\ s[3].op = "kill" /\ s[4] = Frame("log", "terminal")
      /\ s[5] = Frame("drop", "terminal") /\ s[4].op = "log" /\ s[5].op = "drop"
      /\ \A j \in 1 .. 5 : s[j].mode = "terminal"
  BY <1>3, NewFrames DEF Frame
<1>6. Sound(s)
  <2> SUFFICES ASSUME NEW k \in 1 .. 6
               PROVE  /\ WellFormed(s[k])
                      /\ s[k].op \in Loops => \A j \in 1 .. k - 1 : s[j].mode = "terminal"
                      /\ s[k].op = "cut" => k = 1
                      /\ s[k].op = "kill" => /\ k + 2 <= 6
                                             /\ s[k + 1] = Frame("log", "terminal")
                                             /\ s[k + 2] = Frame("drop", "terminal")
                                             /\ \A j \in 1 .. k - 1 : s[j].op # "drop"
                      /\ s[k].op = "drop" => \A j \in 1 .. k - 1 : s[j].mode # "mid"
    BY <1>2 DEF Sound
  <2>1. CASE k = 6
    BY <1>3, <1>5, <2>1 DEF Loops
  <2>2. CASE k = 3
    BY <1>3, <1>4, <1>5, <2>2 DEF Loops
  <2>3. CASE k \in {1, 2, 4, 5}
    BY <1>3, <1>4, <1>5, <2>3 DEF Loops
  <2> QED BY <2>1, <2>2, <2>3
<1> QED BY <1>2, <1>3, <1>6 DEF s

\* The loop's frame after one event of it.
LEMMA AfterEvent ==
  ASSUME Typed, InLoop, NEW after, after = [Top EXCEPT !.rest = Tail(@)]
  PROVE  /\ todo # <<>> /\ WellFormed(after) /\ after.op = Top.op /\ after.mode = Top.mode
         /\ after.from = Top.from /\ after.to = Top.to /\ after.rest = Tail(Top.rest)
         /\ Top.op \in Loops /\ Top.rest \in Seq(Event) /\ Head(Top.rest) \in Event
<1>1. todo # <<>> /\ Top \in FrameType /\ WellFormed(Top) /\ Top.op \in Loops /\ Top.rest # <<>>
  BY Facts DEF InLoop, Doing, Top, Loops
<1>2. Tail(Top.rest) \in Seq(Event) /\ Head(Top.rest) \in Event
  BY <1>1, HeadTailProperties DEF FrameType
<1> QED BY <1>1, <1>2 DEF WellFormed, FrameType

(* A committed event is a row, and its breach pushes the frames of a stop. *)
LEMMA CommitTyped ==
  ASSUME Typed, Commit
  PROVE  Typed'
<1> DEFINE e == Head(Top.rest)
           after == [Top EXCEPT !.rest = Tail(@)]
           pre == (IF Breaches(e) THEN StopFrames ELSE <<>>) \o <<after>>
<1>1. /\ todo # <<>> /\ WellFormed(after) /\ after.op = Top.op /\ after.mode = Top.mode
      /\ Top.op \in Loops /\ e \in Event
  BY AfterEvent DEF Commit
<1>2. /\ todo' = pre \o Tail(todo) /\ row' = IF Breaches(e) THEN "stopping" ELSE row
      /\ file' = file /\ Len(file) \in Nat
      /\ excused' = IF stale /\ Replay(e) THEN excused \cup {e.id} ELSE excused
      /\ rows' = IF Replay(e) THEN rows
                 ELSE rows \cup {[gen |-> Key(e).gen, seq |-> e.seq, id |-> e.id]}
  BY Facts DEF Commit, agent
<1>3. rows' \subseteq [gen : 0 .. MaxGen, seq : Nat, id : Ids]
  <2>1. Key(e).gen \in 0 .. MaxGen
    BY Facts DEF Key, Typed, MeterTyped
  <2>2. e.seq \in Nat /\ e.id \in Ids
    BY <1>1 DEF Event
  <2> HIDE DEF e
  <2> QED BY <1>2, <2>1, <2>2 DEF Typed, MeterTyped
<1>4. excused' \subseteq Ids
  BY <1>1, <1>2 DEF Event, Typed, MeterTyped
<1>5. row' \in {"running", "stopping", "down"}
  BY <1>2 DEF Typed, MeterTyped
<1>6. MeterTyped'
  BY <1>3, <1>4, <1>5 DEF Commit, Typed, MeterTyped, agent, handle
<1>7. CASE Breaches(e)
  <2> HIDE DEF e, after
  <2>1. pre = StopFrames \o <<after>>
    BY <1>7
  <2>2. /\ Sound(pre) /\ Len(pre) = 6 /\ pre[6] = after
        /\ \A k \in 1 .. 5 : pre[k] = StopFrames[k]
    BY <1>1, <2>1, StopThen
  <2> HIDE DEF pre
  <2>3. /\ pre[1].op = "log"
        /\ \A k \in 1 .. 5 : pre[k].mode = "terminal"
    BY <2>2, NewFrames DEF Frame
  <2>4. \A k \in 2 .. Len(todo) : todo[k].op # "kill"
    <3>1. row = "running"
      BY <1>7 DEF Breaches
    <3> QED BY <3>1, Facts DEF Typed, Stack, KillsIn
  <2>5. \A k \in 1 .. 6 : k \in 1 .. 5 \/ k = 6
    OBVIOUS
  <2>6. \A k \in 1 .. Len(pre) : /\ Top.mode = "terminal" => pre[k].mode = "terminal"
                                 /\ Top.mode # "mid" => pre[k].mode # "mid"
    BY <1>1, <2>2, <2>3, <2>5
  <2>7. row' = "stopping" /\ KillsIn(pre, row')
    BY <1>2, <1>7 DEF KillsIn
  <2>8. Stack'
    BY <1>1, <1>2, <2>2, <2>3, <2>4, <2>6, <2>7, PushStack
  <2> QED BY <1>6, <2>8 DEF Typed
<1>8. CASE ~Breaches(e)
  <2> HIDE DEF e, after
  <2>1. pre = <<after>>
    <3>1. <<after>> \in Seq({after})
      OBVIOUS
    <3> QED BY <1>8, <3>1, ConcatEmptySeq
  <2>2. after.op # "kill" /\ after.op # "drop" /\ after.op # "cut"
    BY <1>1 DEF Loops
  <2>3. Sound(pre) /\ Len(pre) = 1 /\ pre[1] = after
    BY <1>1, <2>1, <2>2, OneFrame
  <2> HIDE DEF pre
  <2>4. \A k \in 1 .. Len(pre) : pre[k] = after
    BY <2>3
  <2>5. row' = row /\ KillsIn(pre, row')
    BY <1>2, <1>8, <2>2, <2>4 DEF KillsIn
  <2>6. Stack'
    BY <1>1, <1>2, <2>2, <2>3, <2>4, <2>5, PushStack
  <2> QED BY <1>6, <2>6 DEF Typed
<1> QED BY <1>7, <1>8

\* What is left of a sequence when its first elements go.
Suffix(s, t) == \E n \in Nat : /\ Len(s) + n = Len(t)
                               /\ \A i \in 1 .. Len(s) : s[i] = t[n + i]

(* What is left of a block has no other events, and keeps their order. *)
LEMMA SuffixKeeps ==
  ASSUME NEW S, NEW t \in Seq(S), NEW s \in Seq(S), Suffix(s, t)
  PROVE  /\ Members(s) \subseteq Members(t) /\ IdsOf(s) \subseteq IdsOf(t) /\ Len(s) <= Len(t)
         /\ Increasing(t) => Increasing(s)
<1>1. /\ Len(s) \in Nat /\ DOMAIN s = 1 .. Len(s)
      /\ Len(t) \in Nat /\ DOMAIN t = 1 .. Len(t)
  BY LenProperties
<1>2. PICK n \in Nat : Len(s) + n = Len(t) /\ \A i \in 1 .. Len(s) : s[i] = t[n + i]
  BY DEF Suffix
<1>3. \A i \in 1 .. Len(s) : n + i \in 1 .. Len(t) /\ s[i] = t[n + i]
  BY <1>1, <1>2
<1>4. Members(s) \subseteq Members(t) /\ IdsOf(s) \subseteq IdsOf(t)
  BY <1>1, <1>3 DEF Members, IdsOf
<1>5. ASSUME Increasing(t) PROVE Increasing(s)
  <2> SUFFICES ASSUME NEW i \in 1 .. Len(s), NEW j \in 1 .. Len(s), i < j
               PROVE  s[i].id < s[j].id
    BY <1>1 DEF Increasing
  <2>1. n + i < n + j
    BY <1>2
  <2> QED BY <1>1, <1>3, <1>5, <2>1 DEF Increasing
<1>6. Len(s) <= Len(t)
  BY <1>1, <1>2
<1> QED BY <1>4, <1>5, <1>6

(* The events behind the first are left when it is consumed. *)
LEMMA TailSuffix ==
  ASSUME NEW S, NEW t \in Seq(S), t # <<>>
  PROVE  Tail(t) \in Seq(S) /\ Suffix(Tail(t), t) /\ Head(t) = t[1] /\ Len(t) > 0
<1>1. /\ Tail(t) \in Seq(S) /\ Len(Tail(t)) = Len(t) - 1 /\ Len(t) \in Nat
      /\ \A i \in 1 .. Len(Tail(t)) : Tail(t)[i] = t[i + 1]
  BY HeadTailProperties, LenProperties
<1>2. Len(t) > 0
  BY <1>1, EmptySeq
<1>3. Suffix(Tail(t), t)
  <2>1. Len(Tail(t)) + 1 = Len(t)
    BY <1>1, <1>2
  <2>2. \A i \in 1 .. Len(Tail(t)) : Tail(t)[i] = t[1 + i]
    BY <1>1
  <2> QED BY <2>1, <2>2 DEF Suffix
<1>4. Head(t) = t[1]
  OBVIOUS
<1> QED BY <1>1, <1>2, <1>3, <1>4

(* All of a block may be left, or nothing. *)
LEMMA SameSuffix ==
  ASSUME NEW S, NEW t \in Seq(S)
  PROVE  Suffix(t, t) /\ <<>> \in Seq(S) /\ Suffix(<<>>, t)
<1>1. Len(t) \in Nat /\ <<>> \in Seq(S) /\ Len(<<>>) = 0
  BY LenProperties, EmptySeq
<1>2. Suffix(t, t)
  BY <1>1 DEF Suffix
<1>3. Suffix(<<>>, t)
  BY <1>1 DEF Suffix
<1> QED BY <1>1, <1>2, <1>3

\* The cap of the buffer takes its newest events.
LEMMA CapBufferKeeps ==
  ASSUME NEW S, NEW t \in Seq(S)
  PROVE  CapBuffer(t) \in Seq(S) /\ Suffix(CapBuffer(t), t) /\ Len(CapBuffer(t)) <= BufMax
<1> DEFINE k == Min2(Len(t), BufMax)
           m == Len(t) - k + 1
<1>1. Len(t) \in Nat /\ BufMax \in Nat /\ k \in Nat /\ k <= Len(t) /\ k <= BufMax
      /\ \A i \in 1 .. Len(t) : t[i] \in S
  BY MeteringAssumption, LenProperties DEF Min2
<1> HIDE DEF k
<1>2. m \in Int /\ \A i \in m .. Len(t) : i \in 1 .. Len(t)
  BY <1>1
<1>3. CapBuffer(t) = SubSeq(t, m, Len(t))
  BY DEF CapBuffer, k
<1>4. /\ CapBuffer(t) \in Seq(S)
      /\ Len(CapBuffer(t)) = IF m <= Len(t) THEN Len(t) - m + 1 ELSE 0
      /\ \A i \in 1 .. Len(t) - m + 1 : CapBuffer(t)[i] = t[m + i - 1]
  <2> HIDE DEF m
  <2>1. \A i \in m .. Len(t) : t[i] \in S
    BY <1>1, <1>2
  <2> QED BY <1>1, <1>2, <1>3, <2>1, SubSeqProperties
<1>5. Len(CapBuffer(t)) = k
  BY <1>1, <1>4
<1>6. \A i \in 1 .. k : CapBuffer(t)[i] = t[(Len(t) - k) + i]
  <2> TAKE i \in 1 .. k
  <2>1. i \in 1 .. Len(t) - m + 1 /\ m + i - 1 = (Len(t) - k) + i
    BY <1>1
  <2> QED BY <1>4, <2>1
<1>7. Len(t) - k \in Nat /\ k + (Len(t) - k) = Len(t)
  BY <1>1
<1>8. Suffix(CapBuffer(t), t)
  BY <1>5, <1>6, <1>7 DEF Suffix
<1> QED BY <1>1, <1>4, <1>5, <1>8

\* The loop under way, its frame and what is left of its block.
LEMMA LoopTop ==
  ASSUME Typed, Doing("ingest") \/ Doing("ingestObs")
  PROVE  /\ todo # <<>> /\ Top.op \in Loops /\ Top.mode \in {"mid", "terminal"}
         /\ Top.rest \in Seq(Event) /\ IdsOf(Top.rest) \subseteq Ids
         /\ Top.from \in Nat /\ Top.to \in Nat /\ Top.from <= Top.to
<1>1. todo # <<>> /\ Top \in FrameType /\ WellFormed(Top) /\ Top.op \in Loops
      /\ 1 \in 1 .. Len(todo) /\ todo[1] = Top
  BY Facts DEF Doing, Top, Loops
<1>2. IdsOf(Top.rest) \subseteq Ids
  BY <1>1, IdSets
<1> QED BY <1>1, <1>2 DEF WellFormed, FrameType, Loops

\* The refusals of a loop, as LogRefused and ObservedRefused count them.
LogTries(busy) == Attempts(park.at = Top.from, park.attempts, busy)
LogSkips(busy) == Top.mode = "mid" /\ GiveUp(LogTries(busy))
Left == IF Top.mode = "terminal" THEN <<>> ELSE CapBuffer(Top.rest)
ObsTries(busy) ==
  Attempts(observed.events # <<>> /\ Left # <<>> /\ Head(observed.events).seq = Head(Left).seq,
           observed.attempts, busy)
ObsSkips(busy) == Left # <<>> /\ GiveUp(ObsTries(busy))
Keep(busy) == IF ObsSkips(busy) THEN Tail(Left) ELSE Left

(* What a refusal in the log does: the cursor stays, or skips a refused      *)
(* event.                                                                    *)
LEMMA LogRefusedMeans ==
  ASSUME NEW busy, LogRefused(busy)
  PROVE  /\ Doing("ingest") /\ todo' = Tail(todo) /\ InLoop
         /\ Fault \/ UNCHANGED faults
         /\ errors' = IF busy THEN errors ELSE Min2(errors + 1, MaxErrors)
         /\ cursor' = IF LogSkips(busy) /\ held THEN Top.to ELSE cursor
         /\ park' = IF Top.mode = "terminal" \/ ~held THEN park
                    ELSE IF LogSkips(busy) THEN NoPark
                    ELSE [at |-> Top.from, attempts |-> LogTries(busy)]
         /\ announced' = IF LogSkips(busy) \/ Top.mode = "terminal"
                         THEN announced \cup IdsOf(Top.rest) ELSE announced
         /\ skips' = IF LogSkips(busy) THEN skips + 1 ELSE skips
         /\ UNCHANGED <<source, metadata, row, agent, gen, held, observed, minted, capture,
                        tailer, unconfirmed, stale, rows, excused, unshown>>
BY DEF LogRefused, Refusal, Return, LogTries, LogSkips

(* What a refusal in the buffer does: it keeps the tail, or skips a refused  *)
(* event.                                                                    *)
LEMMA ObservedRefusedMeans ==
  ASSUME NEW busy, ObservedRefused(busy)
  PROVE  /\ Doing("ingestObs") /\ todo' = Tail(todo) /\ InLoop
         /\ Fault \/ UNCHANGED faults
         /\ errors' = IF busy THEN errors ELSE Min2(errors + 1, MaxErrors)
         /\ observed' = IF Keep(busy) = <<>> \/ ~held THEN NonePending
                        ELSE [events |-> Keep(busy),
                              attempts |-> IF ObsSkips(busy) THEN 1 ELSE ObsTries(busy)]
         /\ announced' = announced \cup (IdsOf(Top.rest) \ IdsOf(Keep(busy)))
         /\ skips' = IF ObsSkips(busy) THEN skips + 1 ELSE skips
         /\ UNCHANGED <<source, metadata, row, agent, gen, held, cursor, park, minted, capture,
                        tailer, unconfirmed, stale, rows, excused, unshown>>
BY DEF ObservedRefused, Refusal, Return, ObsTries, ObsSkips, Left, Keep

\* An attempt is at most one more than before.
LEMMA AttemptsBound ==
  ASSUME NEW same \in BOOLEAN, NEW n \in Nat, NEW busy \in BOOLEAN
  PROVE  /\ Attempts(same, n, busy) \in Nat
         /\ busy => Attempts(same, n, busy) <= n
         /\ Attempts(same, n, busy) <= n + 1
BY DEF Attempts

(* A refusal that is not contention counts as an error, up to the bound. *)
LEMMA ErrorsTyped ==
  ASSUME Typed, NEW busy \in BOOLEAN,
         errors' = IF busy THEN errors ELSE Min2(errors + 1, MaxErrors)
  PROVE  /\ errors' \in 0 .. MaxErrors /\ errors <= errors'
         /\ ~busy => errors' = MaxErrors \/ errors' = errors + 1
<1>1. MaxErrors \in Nat /\ errors \in 0 .. MaxErrors
  BY Facts DEF Typed, MeterTyped
<1> QED BY <1>1 DEF Min2

(* The cursor moves behind the drained block. *)
LEMMA AdvanceTyped ==
  ASSUME Typed, Advance
  PROVE  Typed'
<1>1. todo # <<>> /\ todo' = Tail(todo) /\ row' = row /\ Top.to \in Nat
  BY LoopTop DEF Advance, Return
<1>2. Stack'
  BY <1>1, PopStack
<1>3. excused' \subseteq Ids
  BY IdSets DEF Advance, Typed, MeterTyped
<1>4. park' \in [at : Nat, attempts : 0 .. ParkMax - 1] /\ cursor' \in Nat
  <2>1. NoPark \in [at : Nat, attempts : 0 .. ParkMax - 1]
    BY Facts DEF NoPark
  <2> QED BY <1>1, <2>1 DEF Advance, Typed, MeterTyped
<1>5. MeterTyped'
  <2>1. UNCHANGED <<source, metadata, row, agent, gen, held, observed, minted, capture,
                    tailer, unconfirmed, stale, rows, faults, errors, skips, announced,
                    unshown>>
    BY DEF Advance
  <2>2. MeterTyped
    BY DEF Typed
  <2> QED BY <1>3, <1>4, <2>1, <2>2 DEF MeterTyped, agent
<1> QED BY <1>2, <1>5 DEF Typed

(* A refusal in the log keeps the types. *)
LEMMA LogRefusedTyped ==
  ASSUME Typed, NEW busy \in BOOLEAN, LogRefused(busy)
  PROVE  Typed'
<1>1. /\ todo # <<>> /\ todo' = Tail(todo) /\ row' = row /\ Top.to \in Nat
      /\ Top.from \in Nat /\ Top.mode \in {"mid", "terminal"} /\ IdsOf(Top.rest) \subseteq Ids
  BY LoopTop, LogRefusedMeans
<1>2. Stack'
  BY <1>1, PopStack
<1>3. faults' \in 0 .. MaxFaults /\ errors' \in 0 .. MaxErrors
  BY FaultTyped, ErrorsTyped, LogRefusedMeans
<1>4. LogTries(busy) \in Nat
  <2>1. park.attempts \in Nat
    BY DEF Typed, MeterTyped
  <2> QED BY <2>1 DEF LogTries, Attempts
<1>5. park' \in [at : Nat, attempts : 0 .. ParkMax - 1]
  <2>1. NoPark \in [at : Nat, attempts : 0 .. ParkMax - 1]
    BY Facts DEF NoPark
  <2>2. ASSUME Top.mode # "terminal", ~LogSkips(busy)
        PROVE  LogTries(busy) \in 0 .. ParkMax - 1
    BY <1>1, <1>4, <2>2, Facts DEF LogSkips, GiveUp
  <2>3. park \in [at : Nat, attempts : 0 .. ParkMax - 1]
    BY DEF Typed, MeterTyped
  <2> QED BY <1>1, <2>1, <2>2, <2>3, LogRefusedMeans
<1>6. cursor' \in Nat /\ skips' \in Nat /\ announced' \subseteq Ids
  <2>1. cursor \in Nat /\ skips \in Nat /\ announced \subseteq Ids
    BY DEF Typed, MeterTyped
  <2>2. skips' \in {skips, skips + 1} /\ cursor' \in {cursor, Top.to}
        /\ announced' \in {announced, announced \cup IdsOf(Top.rest)}
    BY LogRefusedMeans
  <2> QED BY <1>1, <2>1, <2>2
<1>7. MeterTyped'
  <2>1. UNCHANGED <<source, metadata, row, agent, gen, held, observed, minted, capture,
                    tailer, unconfirmed, stale, rows, excused, unshown>>
    BY LogRefusedMeans
  <2>2. MeterTyped
    BY DEF Typed
  <2> QED BY <1>3, <1>5, <1>6, <2>1, <2>2 DEF MeterTyped, agent
<1> QED BY <1>2, <1>7 DEF Typed

\* What a refused drain of the queue keeps.
LEMMA KeepBounds ==
  ASSUME Typed, NEW busy \in BOOLEAN, Doing("ingestObs")
  PROVE  /\ Left \in Seq(Event) /\ Suffix(Left, Top.rest) /\ Len(Left) <= BufMax
         /\ Keep(busy) \in Seq(Event) /\ Suffix(Keep(busy), Left) /\ Len(Keep(busy)) <= BufMax
         /\ ObsTries(busy) \in Nat /\ ObsTries(busy) <= observed.attempts + 1
         /\ ~ObsSkips(busy) /\ Left # <<>> => ObsTries(busy) <= ParkMax - 1
<1>1. Top.rest \in Seq(Event) /\ BufMax \in Nat /\ ParkMax \in Nat
  BY LoopTop, Facts
<1>2. Left \in Seq(Event) /\ Suffix(Left, Top.rest) /\ Len(Left) <= BufMax
  <2>1. Len(<<>>) = 0
    OBVIOUS
  <2> QED BY <1>1, <2>1, SameSuffix, CapBufferKeeps DEF Left
<1>3. Keep(busy) \in Seq(Event) /\ Suffix(Keep(busy), Left)
  BY <1>2, TailSuffix, SameSuffix DEF Keep, ObsSkips
<1>4. Len(Keep(busy)) <= BufMax
  <2>1. Len(Keep(busy)) <= Len(Left) /\ Len(Left) \in Nat /\ Len(Keep(busy)) \in Nat
    BY <1>2, <1>3, SuffixKeeps, LenProperties
  <2> QED BY <1>1, <1>2, <2>1
<1>5. observed.attempts \in Nat
  BY DEF Typed, MeterTyped
<1>6. ObsTries(busy) \in Nat /\ ObsTries(busy) <= observed.attempts + 1
  BY <1>5, AttemptsBound DEF ObsTries
<1>7. ~ObsSkips(busy) /\ Left # <<>> => ObsTries(busy) <= ParkMax - 1
  BY <1>1, <1>6 DEF ObsSkips, GiveUp
<1> QED BY <1>2, <1>3, <1>4, <1>6, <1>7

\* Nothing pending is a type of its own.
LEMMA NonePendingTyped ==
  /\ NonePending \in [events : Seq(Event), attempts : 0 .. ParkMax]
  /\ NonePending.events = <<>> /\ NonePending.attempts = 0 /\ Len(NonePending.events) <= BufMax
<1>1. ParkMax \in Nat /\ BufMax \in Nat /\ <<>> \in Seq(Event) /\ Len(<<>>) = 0
  BY MeteringAssumption
<1> QED BY <1>1 DEF NonePending

(* A refusal in the buffer keeps the types. *)
LEMMA ObservedRefusedTyped ==
  ASSUME Typed, NEW busy \in BOOLEAN, ObservedRefused(busy)
  PROVE  Typed'
<1>1. todo # <<>> /\ todo' = Tail(todo) /\ row' = row /\ IdsOf(Top.rest) \subseteq Ids
  BY LoopTop, ObservedRefusedMeans
<1>2. Stack'
  BY <1>1, PopStack
<1>3. faults' \in 0 .. MaxFaults /\ errors' \in 0 .. MaxErrors
  BY FaultTyped, ErrorsTyped, ObservedRefusedMeans
<1>4. /\ observed' \in [events : Seq(Event), attempts : 0 .. ParkMax]
      /\ Len(observed'.events) <= BufMax
  <2>1. CASE Keep(busy) = <<>> \/ ~held
    BY <2>1, ObservedRefusedMeans, NonePendingTyped
  <2>2. CASE ~(Keep(busy) = <<>> \/ ~held)
    <3>1. Left # <<>>
      BY <2>2 DEF Keep, ObsSkips
    <3>2. (IF ObsSkips(busy) THEN 1 ELSE ObsTries(busy)) \in 0 .. ParkMax
      BY <3>1, Facts, KeepBounds, ObservedRefusedMeans
    <3>3. Keep(busy) \in Seq(Event) /\ Len(Keep(busy)) <= BufMax
      BY KeepBounds, ObservedRefusedMeans
    <3>4. observed' = [events |-> Keep(busy),
                       attempts |-> IF ObsSkips(busy) THEN 1 ELSE ObsTries(busy)]
      BY <2>2, ObservedRefusedMeans
    <3> QED BY <3>2, <3>3, <3>4
  <2> QED BY <2>1, <2>2
<1>5. skips' \in Nat /\ announced' \subseteq Ids
  <2>1. skips \in Nat /\ announced \subseteq Ids
    BY DEF Typed, MeterTyped
  <2>2. skips' \in {skips, skips + 1}
        /\ announced' = announced \cup (IdsOf(Top.rest) \ IdsOf(Keep(busy)))
    BY ObservedRefusedMeans
  <2> QED BY <1>1, <2>1, <2>2
<1>6. MeterTyped'
  <2>1. UNCHANGED <<source, metadata, row, agent, gen, held, cursor, park, minted, capture,
                    tailer, unconfirmed, stale, rows, excused, unshown>>
    BY ObservedRefusedMeans
  <2> QED BY <1>3, <1>4, <1>5, <2>1 DEF Typed, MeterTyped, agent
<1> QED BY <1>2, <1>6 DEF Typed

(* The check of the size may push the cut. *)
LEMMA TruncateCheckTyped ==
  ASSUME Typed, TruncateCheck
  PROVE  Typed'
<1> DEFINE len == Len(file)
           due == held /\ len >= Cap /\ cursor >= len /\ TailerPast(tailer', len)
           cut == [Top EXCEPT !.op = "cut", !.to = len]
<1>1. /\ todo # <<>> /\ row' = row /\ file' = file
      /\ Top \in FrameType /\ WellFormed(Top) /\ Top.op = "trunc" /\ Len(file) \in Nat
      /\ todo[1] = Top
  BY Facts DEF TruncateCheck, Doing, Top, agent
<1>2. tailer' \in Nat
  BY CatchUpBounds DEF TruncateCheck, Typed, MeterTyped
<1>3. MeterTyped'
  BY <1>2 DEF TruncateCheck, Typed, MeterTyped, agent, losses
<1>4. CASE due
  <2>0. todo' = <<cut>> \o Tail(todo)
    BY <1>4 DEF TruncateCheck
  <2> HIDE DEF due
  <2>1. /\ cut.op = "cut" /\ cut.to = Len(file) /\ cut.mode = Top.mode /\ cut.from = Top.from
        /\ cut.rest = Top.rest /\ cut \in FrameType
    BY <1>1 DEF FrameType
  <2>2. WellFormed(cut)
    BY <1>1, <2>1 DEF WellFormed, Loops
  <2> HIDE DEF cut
  <2>3. Sound(<<cut>>) /\ Len(<<cut>>) = 1 /\ <<cut>>[1] = cut
    BY <2>1, <2>2, OneFrame
  <2> DEFINE pre == <<cut>>
  <2>4. \A k \in 1 .. Len(pre) : pre[k] = cut
    BY <2>3
  <2> HIDE DEF pre
  <2>5. KillsIn(pre, row') /\ Sound(pre) /\ todo' = pre \o Tail(todo)
        /\ (Len(pre) > 0 /\ pre[1].op = "cut" => pre[1].to <= Len(file'))
        /\ ~ \E k \in 1 .. Len(pre) : pre[k].op = "drop"
    BY <1>1, <2>0, <2>1, <2>3, <2>4 DEF KillsIn, pre
  <2>6. Stack'
    BY <1>1, <2>1, <2>4, <2>5, PushStack
  <2> QED BY <1>3, <2>6 DEF Typed
<1>5. CASE ~due
  <2>1. todo' = <<>> \o Tail(todo)
    BY <1>5 DEF TruncateCheck
  <2>2. Tail(todo) \in Seq(FrameType)
    BY <1>1, HeadTailProperties DEF Typed, Stack, Sound
  <2>3. todo' = Tail(todo)
    BY <2>1, <2>2, ConcatEmptySeq
  <2>4. Stack'
    BY <1>1, <2>3, PopStack
  <2> QED BY <1>3, <2>4 DEF Typed
<1> QED BY <1>4, <1>5

(* The cut empties the raw log. *)
LEMMA TruncateTyped ==
  ASSUME Typed, Truncate
  PROVE  Typed'
<1>1. /\ todo # <<>> /\ todo' = Tail(todo) /\ row' = row /\ Top.op = "cut"
      /\ Top.to <= Len(file)
  BY DEF Truncate, Return, Doing, Top, Typed, Stack
<1>2. Stack'
  BY <1>1, PopStack
<1>3. faults' \in 0 .. MaxFaults
  BY FaultTyped DEF Truncate
<1>4. Len(file) \in Nat /\ Top.to \in Nat /\ tailer \in Nat
  BY <1>1, Facts DEF FrameType, Typed, MeterTyped
<1>5. excused' \subseteq Ids
  <2>1. {file[i].id : i \in Top.to + 1 .. Len(file)} \subseteq Ids
    BY <1>4, IdSets
  <2> QED BY <2>1 DEF Truncate, Typed, MeterTyped
<1>6. unshown' \subseteq Ids
  <2>1. LinesIn(tailer, Top.to) \subseteq Ids
    BY <1>1, <1>4, IdSets
  <2> QED BY <2>1 DEF Truncate, Typed, MeterTyped
<1>7. file' \in Seq(Chunk) /\ cursor' \in Nat /\ tailer' \in Nat
  <2>1. file \in Seq(Chunk) /\ cursor \in Nat /\ tailer \in Nat /\ <<>> \in Seq(Chunk) /\ 0 \in Nat
    BY DEF Typed, MeterTyped
  <2>2. file' \in {file, <<>>} /\ cursor' \in {cursor, 0} /\ tailer' \in {tailer, 0}
    BY DEF Truncate
  <2> QED BY <2>1, <2>2
<1>8. MeterTyped'
  BY <1>3, <1>5, <1>6, <1>7 DEF Truncate, Typed, MeterTyped
<1> QED BY <1>2, <1>8 DEF Typed

\* The events of a drain of the queue: the parked ones, and those minted now.
Minted == Mint(queue)
Fetched == observed.events \o Minted
ObsLoop == [Top EXCEPT !.op = "ingestObs", !.rest = Fetched]

(* A drain of the listener mints what is queued, and puts the kept tail      *)
(* before it.                                                                *)
LEMMA FetchedEvents ==
  ASSUME Typed
  PROVE  /\ Minted \in Seq(Event) /\ Len(Minted) = Len(queue) /\ Fetched \in Seq(Event)
         /\ \A n \in 1 .. Len(queue) : Minted[n] = [id |-> queue[n].id, seq |-> minted + n]
         /\ Len(Fetched) = Len(observed.events) + Len(queue)
         /\ \A i \in 1 .. Len(Fetched) :
              Fetched[i] = IF i <= Len(observed.events) THEN observed.events[i]
                           ELSE Minted[i - Len(observed.events)]
         /\ Members(Fetched) = Members(observed.events) \cup Members(Minted)
         /\ IdsOf(Fetched) = IdsOf(observed.events) \cup IdsOf(queue)
<1>1. /\ queue \in Seq([id : Ids]) /\ minted \in Nat /\ Len(queue) \in Nat
      /\ DOMAIN queue = 1 .. Len(queue) /\ \A n \in 1 .. Len(queue) : queue[n] \in [id : Ids]
      /\ observed.events \in Seq(Event) /\ Len(observed.events) \in Nat
      /\ DOMAIN observed.events = 1 .. Len(observed.events)
  <2>1. queue \in Seq([id : Ids]) /\ minted \in Nat /\ observed.events \in Seq(Event)
    BY DEF Typed, MeterTyped
  <2>2. /\ Len(queue) \in Nat /\ DOMAIN queue = 1 .. Len(queue)
        /\ \A n \in 1 .. Len(queue) : queue[n] \in [id : Ids]
    BY <2>1, LenProperties
  <2>3. Len(observed.events) \in Nat /\ DOMAIN observed.events = 1 .. Len(observed.events)
    BY <2>1, LenProperties
  <2> QED BY <2>1, <2>2, <2>3
<1>2. Minted = [n \in 1 .. Len(queue) |-> [id |-> queue[n].id, seq |-> minted + n]]
  BY <1>1 DEF Minted, Mint
<1>3. \A n \in 1 .. Len(queue) : /\ Minted[n] = [id |-> queue[n].id, seq |-> minted + n]
                                 /\ Minted[n] \in Event /\ Minted[n].id = queue[n].id
  BY <1>1, <1>2 DEF Event
<1>4. Minted \in Seq(Event) /\ Len(Minted) = Len(queue) /\ DOMAIN Minted = 1 .. Len(queue)
  <2>1. Minted \in [1 .. Len(queue) -> Event]
    BY <1>2, <1>3
  <2> QED BY <1>1, <2>1, SeqDef, LenProperties
<1> DEFINE a == Len(observed.events)
           b == Len(queue)
<1>5. /\ Fetched \in Seq(Event) /\ Len(Fetched) = a + b
      /\ \A i \in 1 .. Len(Fetched) :
           Fetched[i] = IF i <= a THEN observed.events[i] ELSE Minted[i - a]
  <2>1. /\ Fetched \in Seq(Event) /\ Len(Fetched) = a + Len(Minted)
        /\ \A i \in 1 .. a + Len(Minted) :
             Fetched[i] = IF i <= a THEN observed.events[i] ELSE Minted[i - a]
    BY <1>1, <1>4, ConcatProperties DEF Fetched
  <2> QED BY <1>4, <2>1
<1>6. DOMAIN Fetched = 1 .. a + b
  BY <1>5, LenProperties
<1>7. \A i \in 1 .. a : i \in 1 .. a + b /\ Fetched[i] = observed.events[i]
  BY <1>1, <1>5
<1>8. \A n \in 1 .. b : a + n \in 1 .. a + b /\ Fetched[a + n] = Minted[n]
  <2> TAKE n \in 1 .. b
  <2>1. a + n \in 1 .. Len(Fetched) /\ ~(a + n <= a) /\ (a + n) - a = n
    BY <1>1, <1>5
  <2> QED BY <1>5, <2>1
<1>9. \A i \in 1 .. a + b : i \in 1 .. a \/ \E n \in 1 .. b : i = a + n
  <2> TAKE i \in 1 .. a + b
  <2>1. i \in 1 .. a \/ (i - a \in 1 .. b /\ i = a + (i - a))
    BY <1>1
  <2> QED BY <2>1
<1>10. Members(Fetched) = Members(observed.events) \cup Members(Minted)
  <2> HIDE DEF a, b
  <2>1. Members(Fetched) = {Fetched[i] : i \in 1 .. a + b}
    BY <1>6 DEF Members
  <2>2. Members(observed.events) = {observed.events[i] : i \in 1 .. a}
    BY <1>1 DEF Members, a
  <2>3. Members(Minted) = {Minted[i] : i \in 1 .. b}
    BY <1>4 DEF Members, b
  <2> QED BY <1>7, <1>8, <1>9, <2>1, <2>2, <2>3
<1>11. IdsOf(Fetched) = IdsOf(observed.events) \cup IdsOf(queue)
  <2> HIDE DEF a, b
  <2>1. IdsOf(Fetched) = {Fetched[i].id : i \in 1 .. a + b}
    BY <1>6 DEF IdsOf
  <2>2. IdsOf(observed.events) = {observed.events[i].id : i \in 1 .. a}
    BY <1>1 DEF IdsOf, a
  <2>3. IdsOf(queue) = {queue[i].id : i \in 1 .. b}
    BY <1>1 DEF IdsOf, b
  <2>4. \A n \in 1 .. b : Fetched[a + n].id = queue[n].id
    BY <1>3, <1>8 DEF b
  <2> QED BY <1>7, <1>8, <1>9, <2>1, <2>2, <2>3, <2>4
<1> QED BY <1>3, <1>4, <1>5, <1>10, <1>11

(* A drain of the listener empties the queue into a block, or has nothing to *)
(* do.                                                                       *)
LEMMA ReadQueueMeans ==
  ASSUME Typed, ReadQueue
  PROVE  /\ Doing("obs") /\ todo # <<>> /\ Top.op = "obs" /\ todo[1] = Top
         /\ \/ /\ held /\ source = "observed" /\ Fetched # <<>>
               /\ todo' = <<ObsLoop>> \o Tail(todo)
               /\ queue' = <<>> /\ minted' = minted + Len(queue)
            \/ Return /\ UNCHANGED <<queue, minted>>
         /\ UNCHANGED <<source, metadata, row, alive, file, seq, half, produced, gen, held,
                        cursor, park, observed, capture, tailer, unconfirmed, stale, rows,
                        faults, losses>>
         /\ WellFormed(ObsLoop) /\ ObsLoop.op = "ingestObs" /\ ObsLoop.mode = Top.mode
         /\ ObsLoop.rest = Fetched /\ ObsLoop.from = Top.from /\ ObsLoop.to = Top.to
<1>1. todo # <<>> /\ Top \in FrameType /\ WellFormed(Top) /\ Top.op = "obs" /\ todo[1] = Top
  BY Facts DEF ReadQueue, Doing, Top
<1>2. /\ ObsLoop \in FrameType /\ ObsLoop.op = "ingestObs" /\ ObsLoop.mode = Top.mode
      /\ ObsLoop.rest = Fetched /\ ObsLoop.from = Top.from /\ ObsLoop.to = Top.to
  BY <1>1, FetchedEvents DEF ObsLoop, FrameType, Loops
<1>3. WellFormed(ObsLoop)
  BY <1>1, <1>2 DEF WellFormed, Loops
<1>4. \/ /\ held /\ source = "observed" /\ Fetched # <<>>
         /\ todo' = <<ObsLoop>> \o Tail(todo)
         /\ queue' = <<>> /\ minted' = minted + Len(queue)
      \/ Return /\ UNCHANGED <<queue, minted>>
  <2>1. CASE held /\ source = "observed" /\ observed.events \o queue # <<>>
    <3>1. Fetched # <<>>
      <4>1. /\ observed.events \in Seq(Event) /\ queue \in Seq([id : Ids])
        BY DEF Typed, MeterTyped
      <4>2. observed.events # <<>> \/ queue # <<>>
        BY <2>1, <4>1, ConcatEmptySeq
      <4>3. Len(observed.events) > 0 \/ Len(queue) > 0
        BY <4>1, <4>2, EmptySeq, LenProperties
      <4>4. Len(Fetched) # 0
        BY <4>1, <4>3, FetchedEvents, LenProperties
      <4> QED BY <4>4, EmptySeq
    <3> QED BY <2>1, <3>1 DEF ReadQueue, ObsLoop, Fetched, Minted
  <2>2. CASE ~(held /\ source = "observed" /\ observed.events \o queue # <<>>)
    BY <2>2 DEF ReadQueue
  <2> QED BY <2>1, <2>2
<1> QED BY <1>1, <1>2, <1>3, <1>4 DEF ReadQueue

(* So it keeps the types. *)
LEMMA ReadQueueTyped ==
  ASSUME Typed, ReadQueue
  PROVE  Typed'
<1>1. /\ todo # <<>> /\ row' = row /\ file' = file /\ Top.op = "obs"
      /\ WellFormed(ObsLoop) /\ ObsLoop.op = "ingestObs" /\ ObsLoop.mode = Top.mode
  BY ReadQueueMeans
<1>2. queue' \in Seq([id : Ids]) /\ minted' \in Nat
  <2>1. queue \in Seq([id : Ids]) /\ minted \in Nat /\ Len(queue) \in Nat /\ <<>> \in Seq([id : Ids])
    BY LenProperties DEF Typed, MeterTyped
  <2>2. queue' \in {queue, <<>>} /\ minted' \in {minted, minted + Len(queue)}
    BY ReadQueueMeans
  <2>3. minted + Len(queue) \in Nat
    BY <2>1
  <2> QED BY <2>1, <2>2, <2>3
<1>3. MeterTyped'
  <2>1. UNCHANGED <<source, metadata, row, alive, file, seq, half, produced, gen, held,
                    cursor, park, observed, capture, tailer, unconfirmed, stale, rows,
                    faults, losses>>
    BY ReadQueueMeans
  <2> QED BY <1>2, <2>1 DEF Typed, MeterTyped, losses
<1>4. CASE Return
  BY <1>1, <1>3, <1>4, PopStack DEF Return, Typed
<1>5. CASE ~Return
  <2> DEFINE pre == <<ObsLoop>>
  <2>1. todo' = pre \o Tail(todo)
    BY <1>5, ReadQueueMeans
  <2>2. Sound(pre) /\ Len(pre) = 1 /\ pre[1] = ObsLoop
    BY <1>1, OneFrame
  <2> HIDE DEF pre
  <2>3. \A k \in 1 .. Len(pre) : pre[k] = ObsLoop
    BY <2>2
  <2>4. KillsIn(pre, row')
    BY <1>1, <2>3 DEF KillsIn
  <2>5. Stack'
    BY <1>1, <2>1, <2>2, <2>3, <2>4, PushStack
  <2> QED BY <1>3, <2>5 DEF Typed
<1> QED BY <1>4, <1>5

(* A drained buffer is empty, and its count of refusals is reset. *)
LEMMA ObservedDoneTyped ==
  ASSUME Typed, ObservedDone
  PROVE  Typed'
<1>1. todo # <<>> /\ todo' = Tail(todo) /\ row' = row
  BY LoopTop DEF ObservedDone, Return
<1>2. Stack'
  BY <1>1, PopStack
<1>3. MeterTyped'
  <2>1. observed' = NonePending
    BY DEF ObservedDone
  <2>2. /\ observed' \in [events : Seq(Event), attempts : 0 .. ParkMax]
        /\ Len(observed'.events) <= BufMax
    BY <2>1, NonePendingTyped
  <2> QED BY <2>2 DEF ObservedDone, Typed, MeterTyped, agent, losses
<1> QED BY <1>2, <1>3 DEF Typed

\* The stack of a step that begins an operation.
LEMMA BeginStack ==
  ASSUME Typed, Sound(todo'), KillsIn(todo', row'),
         todo' # <<>> => Head(todo').op # "cut"
  PROVE  Stack'
BY DEF Stack, Doing

(* A poll begins its drains. *)
LEMMA TickTyped ==
  ASSUME Typed, Tick
  PROVE  Typed'
<1>1. todo' = TickFrames /\ Sound(TickFrames) /\ Len(TickFrames) = 2
      /\ TickFrames[1] = Frame("log", "mid") /\ TickFrames[2] = Frame("obs", "mid")
  BY NewFrames DEF Tick
<1>2. Head(TickFrames).op # "cut" /\ \A k \in 1 .. 2 : TickFrames[k].op # "kill"
  BY <1>1 DEF Frame
<1>3. Stack'
  BY <1>1, <1>2, BeginStack DEF KillsIn
<1>4. MeterTyped'
  BY DEF Tick, Typed, MeterTyped, agent, handle, losses
<1> QED BY <1>3, <1>4 DEF Typed

(* A stop begins its drains. *)
LEMMA StopTyped ==
  ASSUME Typed, Stop
  PROVE  Typed'
<1>1. todo' = StopFrames /\ Sound(StopFrames) /\ Len(StopFrames) = 5 /\ row' = "stopping"
      /\ StopFrames[1] = Frame("log", "terminal")
  BY NewFrames DEF Stop
<1>2. Head(StopFrames).op # "cut"
  BY <1>1 DEF Frame
<1>3. Stack'
  BY <1>1, <1>2, BeginStack DEF KillsIn
<1>4. MeterTyped'
  BY DEF Stop, Typed, MeterTyped, agent, handle, losses
<1> QED BY <1>3, <1>4 DEF Typed

(* The reap of a dead process begins its drains. *)
LEMMA ReapTyped ==
  ASSUME Typed, Reap
  PROVE  Typed'
<1> DEFINE m == IF alive THEN "live" ELSE "terminal"
<1>1. todo' = ReapFrames /\ Sound(ReapFrames) /\ Len(ReapFrames) = 3
      /\ ReapFrames[1] = Frame("log", "terminal") /\ ReapFrames[2] = Frame("obs", "terminal")
      /\ ReapFrames[3] = Frame("drop", m)
  BY NewFrames DEF Reap
<1> HIDE DEF m
<1>2. Head(ReapFrames).op # "cut" /\ \A k \in 1 .. 3 : ReapFrames[k].op # "kill"
  BY <1>1 DEF Frame
<1>3. Stack'
  BY <1>1, <1>2, BeginStack DEF KillsIn
<1>4. MeterTyped'
  BY DEF Reap, Typed, MeterTyped, agent, handle, losses
<1> QED BY <1>3, <1>4 DEF Typed

\* A stop whose kill is not confirmed returns: its three last calls are left out.
LEMMA PopThree ==
  ASSUME Typed, Doing("kill"), todo' = SubSeq(todo, 4, Len(todo)), row' = row
  PROVE  Stack' /\ Spliced(todo', todo, 3, <<>>) /\ Len(todo) >= 3
<1>1. /\ todo \in Seq(FrameType) /\ Sound(todo) /\ todo[1].op = "kill" /\ Len(todo) \in Nat
      /\ 1 \in 1 .. Len(todo) /\ \A k \in 1 .. Len(todo) : todo[k] \in FrameType
  <2>1. todo \in Seq(FrameType) /\ Sound(todo)
    BY DEF Typed, Stack, Sound
  <2>2. Len(todo) \in Nat /\ \A k \in 1 .. Len(todo) : todo[k] \in FrameType
    BY <2>1, LenProperties
  <2> QED BY <2>1, <2>2, Facts DEF Doing, Top
<1>2. Len(todo) >= 3
  BY <1>1 DEF Sound
<1>3. \A k \in 4 .. Len(todo) : todo[k] \in FrameType
  BY <1>1
<1>4. /\ todo' \in Seq(FrameType)
      /\ Len(todo') = IF 4 <= Len(todo) THEN Len(todo) - 4 + 1 ELSE 0
      /\ \A i \in 1 .. Len(todo) - 4 + 1 : todo'[i] = todo[4 + i - 1]
  BY <1>1, <1>3, SubSeqProperties
<1>5. Len(todo') = Len(todo) - 3
  <2> DEFINE n == Len(todo)
             m == Len(todo')
  <2>1. n \in Nat /\ n >= 3 /\ m = IF 4 <= n THEN n - 4 + 1 ELSE 0
    BY <1>1, <1>2, <1>4
  <2> HIDE DEF n, m
  <2>2. m = n - 3
    BY <2>1
  <2> QED BY <2>2 DEF n, m
<1>6. \A i \in 1 .. Len(todo') : i + 3 \in 4 .. Len(todo) /\ todo'[i] = todo[i + 3]
  <2> TAKE i \in 1 .. Len(todo')
  <2>1. i \in 1 .. Len(todo) - 4 + 1 /\ 4 + i - 1 = i + 3 /\ i + 3 \in 4 .. Len(todo)
    BY <1>1, <1>5
  <2> QED BY <1>4, <2>1
<1>7. Spliced(todo', todo, 3, <<>>)
  <2>1. Len(<<>>) = 0
    OBVIOUS
  <2>2. \A k \in 0 + 1 .. Len(todo') : k - 0 + 3 \in 3 + 1 .. Len(todo) /\ todo'[k] = todo[k - 0 + 3]
    BY <1>1, <1>5, <1>6
  <2> QED BY <1>1, <1>5, <2>1, <2>2 DEF Spliced
<1>8. Sound(todo')
  <2> DEFINE pre == <<>>
  <2>1. Sound(pre) /\ Len(pre) = 0
    BY NewFrames
  <2>2. Spliced(todo', todo, 3, pre)
    BY <1>7
  <2> HIDE DEF pre
  <2>3. 3 \in 1 .. Len(todo)
    BY <1>1, <1>2
  <2>4. \A k \in 1 .. Len(pre) : FALSE
    BY <2>1
  <2>5. todo' \in Seq(FrameType) /\ Sound(todo)
    BY <1>1, <1>4
  <2>6. \A k \in 1 .. Len(pre) : /\ todo[1].mode = "terminal" => pre[k].mode = "terminal"
                                 /\ todo[1].mode # "mid" => pre[k].mode # "mid"
    BY <2>4
  <2>7. /\ Len(pre) > 0 => 3 = 1
        /\ (\E k \in 1 .. Len(pre) : pre[k].op = "drop")
             => \A k \in 3 + 1 .. Len(todo) : todo[k].op # "kill"
    BY <2>1, <2>4
  <2> QED BY <2>1, <2>2, <2>3, <2>5, <2>6, <2>7, SpliceSound
<1>9. KillsIn(todo', row')
  <2>1. KillsIn(todo, row)
    BY DEF Typed, Stack
  <2>2. \A i \in 1 .. Len(todo') : i + 3 \in 1 .. Len(todo)
    BY <1>6
  <2> QED BY <1>6, <2>1, <2>2 DEF KillsIn
<1>10. ASSUME todo' # <<>> PROVE Head(todo').op # "cut"
  <2>1. 1 \in 1 .. Len(todo') /\ Head(todo') = todo'[1]
    BY <1>4, <1>5, <1>1, <1>2, <1>10, EmptySeq
  <2>2. 4 \in 1 .. Len(todo) /\ todo'[1] = todo[4]
    <3>1. 1 + 3 \in 4 .. Len(todo) /\ todo'[1] = todo[1 + 3]
      BY <1>6, <2>1
    <3> QED BY <1>1, <3>1
  <2>3. todo[4].op # "cut"
    BY <1>1, <2>2 DEF Sound
  <2> QED BY <2>1, <2>2, <2>3
<1>11. Stack'
  BY <1>8, <1>9, <1>10, BeginStack
<1> QED BY <1>2, <1>7, <1>11

(* A kill leaves no line half written. *)
LEMMA NoHalfTyped ==
  NoHalf \in [id : 0 .. MaxEvents, part : {"line"} \cup Parts] /\ NoPark.attempts = 0
    /\ NoPark \in [at : Nat, attempts : 0 .. ParkMax - 1]
<1>1. MaxEvents \in Nat /\ ParkMax \in Nat \ {0}
  BY MeteringAssumption
<1> QED BY <1>1 DEF NoHalf, NoPark

(* The kill is confirmed or leaves the row in stopping. *)
LEMMA KillTyped ==
  ASSUME Typed, Kill
  PROVE  Typed'
<1>1. todo # <<>> /\ row' = row /\ file' = file /\ Doing("kill")
  BY DEF Kill, Doing
<1>2. Stack'
  <2>1. CASE Return
    BY <1>1, <2>1, PopStack DEF Return
  <2>2. CASE ~Return
    <3>1. todo' = SubSeq(todo, 4, Len(todo))
      BY <2>2 DEF Kill
    <3> QED BY <1>1, <3>1, PopThree
  <2> QED BY <2>1, <2>2
<1>3. faults' \in 0 .. MaxFaults
  BY FaultTyped DEF Kill
<1>4. excused' \subseteq Ids
  BY IdSets DEF Kill, Typed, MeterTyped
<1>5. /\ half' \in [id : 0 .. MaxEvents, part : {"line"} \cup Parts]
      /\ half' # NoHalf => half'.part \in Parts /\ half'.id \in 1 .. produced'
      /\ alive' \in BOOLEAN /\ unconfirmed' \in BOOLEAN
  BY NoHalfTyped DEF Kill, Typed, MeterTyped
<1>6. MeterTyped'
  BY <1>3, <1>4, <1>5 DEF Kill, Typed, MeterTyped
<1> QED BY <1>2, <1>6 DEF Typed

\* What a handle that goes leaves behind is well typed.
LEMMA GoneTyped ==
  ASSUME Typed, Gone, file' \in Seq(Chunk), excused' \subseteq Ids, unshown' \subseteq Ids
  PROVE  MeterTyped'
<1>1. /\ observed' \in [events : Seq(Event), attempts : 0 .. ParkMax]
      /\ Len(observed'.events) <= BufMax
  <2>1. observed' = NonePending
    BY DEF Gone
  <2> QED BY <2>1, NonePendingTyped
<1>2. /\ half' \in [id : 0 .. MaxEvents, part : {"line"} \cup Parts] /\ half' = NoHalf
      /\ park' \in [at : Nat, attempts : 0 .. ParkMax - 1] /\ queue' \in Seq([id : Ids])
  BY NoHalfTyped DEF Gone
<1> QED BY <1>1, <1>2 DEF Gone, Typed, MeterTyped

(* The drop of the handle releases its buffers and unlinks the logs. *)
LEMMA DropTyped ==
  ASSUME Typed, Drop
  PROVE  Typed'
<1>1. /\ todo # <<>> /\ todo' = Tail(todo) /\ Top.op = "drop" /\ 1 \in 1 .. Len(todo)
      /\ todo[1] = Top /\ Len(todo) \in Nat /\ Len(file) \in Nat
  BY Facts DEF Drop, Return, Doing, Top
<1>2. \A k \in 2 .. Len(todo) : todo[k].op # "kill"
  <2> SUFFICES ASSUME NEW k \in 2 .. Len(todo), todo[k].op = "kill" PROVE FALSE
    OBVIOUS
  <2>1. k \in 1 .. Len(todo) /\ 1 \in 1 .. k - 1
    BY <1>1
  <2>2. todo[1].op # "drop"
    BY <2>1 DEF Typed, Stack, Sound
  <2> QED BY <1>1, <2>2
<1>3. Stack'
  BY <1>1, <1>2, PopStack
<1>4. excused' \subseteq Ids
  <2>1. Unread \subseteq Ids /\ IdsOf(queue) \subseteq Ids /\ Unfinished \subseteq Ids
    BY IdSets
  <2>2. excused \subseteq Ids
    BY DEF Typed, MeterTyped
  <2> QED BY <2>1, <2>2 DEF Drop
<1>5. file' \in Seq(Chunk) /\ unshown' \subseteq Ids
  <2>0. tailer \in Nat /\ Len(file) <= Len(file)
    BY <1>1 DEF Typed, MeterTyped
  <2>1. LinesIn(tailer, Len(file)) \subseteq Ids
    BY <1>1, <2>0, IdSets
  <2>2. file \in Seq(Chunk) /\ unshown \subseteq Ids /\ <<>> \in Seq(Chunk)
    BY DEF Typed, MeterTyped
  <2> QED BY <2>1, <2>2 DEF Drop
<1>6. MeterTyped'
  BY <1>4, <1>5, GoneTyped DEF Drop
<1> QED BY <1>3, <1>6 DEF Typed

(* With no operation under way the call stack has its shape. *)
LEMMA EmptyStack ==
  ASSUME Typed, todo' = <<>>
  PROVE  Stack'
<1>1. Sound(todo') /\ KillsIn(todo', row')
  BY NewFrames DEF KillsIn
<1> QED BY <1>1, BeginStack

(* A second stop settles an unconfirmed one. *)
LEMMA StopAgainTyped ==
  ASSUME Typed, StopAgain
  PROVE  Typed'
<1>1. Stack'
  BY EmptyStack DEF StopAgain, Ready
<1>2. excused' \subseteq Ids
  <2>1. Unread \subseteq Ids /\ InHand \subseteq Ids /\ excused \subseteq Ids
    BY IdSets DEF Typed, MeterTyped
  <2> QED BY <2>1 DEF StopAgain
<1>3. MeterTyped'
  BY <1>2, GoneTyped DEF StopAgain, Typed, MeterTyped
<1> QED BY <1>1, <1>3 DEF Typed

\* A fresh handle is well typed.
LEMMA AttachTyped ==
  ASSUME Typed, Attach
  PROVE  /\ held' \in BOOLEAN /\ cursor' = Len(file) /\ cursor' \in Nat
         /\ park' \in [at : Nat, attempts : 0 .. ParkMax - 1]
         /\ observed' \in [events : Seq(Event), attempts : 0 .. ParkMax]
         /\ Len(observed'.events) <= BufMax /\ minted' \in Nat /\ unconfirmed' \in BOOLEAN
<1>1. /\ observed' \in [events : Seq(Event), attempts : 0 .. ParkMax]
      /\ Len(observed'.events) <= BufMax
  <2>1. observed' = NonePending
    BY DEF Attach
  <2> QED BY <2>1, NonePendingTyped
<1>2. Len(file) \in Nat
  BY Facts
<1> QED BY <1>1, <1>2, NoHalfTyped DEF Attach, Anchor

(* A launch starts a generation at the end of the log. *)
LEMMA LaunchTyped ==
  ASSUME Typed, Launch
  PROVE  Typed'
<1>1. Stack'
  BY EmptyStack DEF Launch, Attach, Ready
<1>2. /\ half' \in [id : 0 .. MaxEvents, part : {"line"} \cup Parts] /\ half' = NoHalf
      /\ queue' \in Seq([id : Ids]) /\ gen' \in 0 .. MaxGen /\ tailer' \in Nat
  <2>1. gen \in 0 .. MaxGen /\ gen < MaxGen /\ MaxGen \in Nat /\ gen' = gen + 1
    BY Facts DEF Launch, Typed, MeterTyped
  <2>2. Len(file) \in Nat
    BY Facts
  <2> QED BY <2>1, <2>2, NoHalfTyped DEF Launch
<1>3. MeterTyped'
  BY <1>2, AttachTyped DEF Launch, Attach, Typed, MeterTyped
<1> QED BY <1>1, <1>3 DEF Typed

(* The engine dies with its buffers. *)
LEMMA CrashTyped ==
  ASSUME Typed, Crash
  PROVE  Typed'
<1>1. Stack'
  BY EmptyStack DEF Crash
<1>2. faults' \in 0 .. MaxFaults
  BY FaultTyped DEF Crash
<1>3. excused' \subseteq Ids
  <2>1. Unread \subseteq Ids /\ InHand \subseteq Ids /\ excused \subseteq Ids
    BY IdSets DEF Typed, MeterTyped
  <2> QED BY <2>1 DEF Crash
<1>4. /\ observed' \in [events : Seq(Event), attempts : 0 .. ParkMax]
      /\ Len(observed'.events) <= BufMax
  <2>1. observed' = NonePending
    BY DEF Crash
  <2> QED BY <2>1, NonePendingTyped
<1>5. park' \in [at : Nat, attempts : 0 .. ParkMax - 1] /\ queue' \in Seq([id : Ids])
  BY NoHalfTyped DEF Crash
<1>6. MeterTyped'
  BY <1>2, <1>3, <1>4, <1>5 DEF Crash, Typed, MeterTyped
<1> QED BY <1>1, <1>6 DEF Typed

(* An adoption anchors the cursor at the end of the log. *)
LEMMA AdoptTyped ==
  ASSUME Typed, Adopt
  PROVE  Typed'
<1>1. Stack'
  BY EmptyStack DEF Adopt, Attach, Ready
<1>2. faults' \in 0 .. MaxFaults
  BY FaultTyped DEF Adopt
<1>3. gen' \in 0 .. MaxGen /\ stale' \in BOOLEAN /\ capture' \in BOOLEAN
  <2>1. gen \in 0 .. MaxGen /\ gen < MaxGen /\ MaxGen \in Nat
    BY Facts DEF Adopt, Typed, MeterTyped
  <2>2. gen + 1 \in 0 .. MaxGen
    BY <2>1
  <2> QED BY <2>1, <2>2 DEF Adopt
<1>4. MeterTyped'
  BY <1>2, <1>3, AttachTyped DEF Adopt, Attach, Typed, MeterTyped
<1> QED BY <1>1, <1>4 DEF Typed

(* A record whose process is gone is settled. *)
LEMMA ReconcileTyped ==
  ASSUME Typed, Reconcile
  PROVE  Typed'
<1>1. Stack'
  BY EmptyStack DEF Reconcile, Ready
<1>2. MeterTyped'
  BY DEF Reconcile, Typed, MeterTyped, agent, handle, losses
<1> QED BY <1>1, <1>2 DEF Typed

(* The initial state is well typed. *)
LEMMA InitTyped ==
  ASSUME Init
  PROVE  Typed
<1>1. Stack
  BY NewFrames DEF Init, Stack, KillsIn, Doing
<1>2. /\ MaxEvents \in Nat /\ MaxGen \in Nat /\ MaxFaults \in Nat /\ MaxErrors \in Nat
      /\ Sources \subseteq {"log", "observed"}
  BY MeteringAssumption DEF MaxErrors
<1>3. /\ file \in Seq(Chunk) /\ queue \in Seq([id : Ids])
  BY DEF Init
<1>4. /\ observed \in [events : Seq(Event), attempts : 0 .. ParkMax]
      /\ Len(observed.events) <= BufMax
  <2>1. observed = NonePending
    BY DEF Init
  <2> QED BY <2>1, NonePendingTyped
<1>5. /\ source \in {"log", "observed"} /\ metadata \in BOOLEAN
      /\ half \in [id : 0 .. MaxEvents, part : {"line"} \cup Parts] /\ half = NoHalf
      /\ park \in [at : Nat, attempts : 0 .. ParkMax - 1]
  BY <1>2, NoHalfTyped DEF Init
<1>6. /\ gen \in 0 .. MaxGen /\ faults \in 0 .. MaxFaults /\ produced \in 0 .. MaxEvents
      /\ errors \in 0 .. MaxErrors /\ seq \in Nat /\ cursor \in Nat /\ tailer \in Nat
      /\ minted \in Nat /\ skips \in Nat
  BY <1>2 DEF Init
<1>7. MeterTyped
  BY <1>3, <1>4, <1>5, <1>6 DEF Init, MeterTyped
<1> QED BY <1>1, <1>7 DEF Typed

(* A step that changes nothing keeps the types. *)
LEMMA SkipTyped ==
  ASSUME Typed, UNCHANGED vars
  PROVE  Typed'
<1>1. Sound(todo') <=> Sound(todo)
  BY DEF vars
<1>2. Stack'
  BY <1>1 DEF vars, agent, handle, losses, Typed, Stack, KillsIn, Doing, Top
<1>3. MeterTyped'
  BY DEF vars, agent, handle, losses, Typed, MeterTyped
<1> QED BY <1>2, <1>3 DEF Typed

(* Every step keeps the types. *)
LEMMA NextTyped ==
  ASSUME Typed, [Next]_vars
  PROVE  Typed'
<1>1. CASE UNCHANGED vars
  BY <1>1, SkipTyped
<1>2. CASE Drain
  BY <1>2, ReadTailTyped, CommitTyped, AdvanceTyped, TruncateCheckTyped, TruncateTyped,
     ReadQueueTyped, ObservedDoneTyped, LogRefusedTyped, ObservedRefusedTyped, Zenon
     DEF Drain
<1>3. CASE WriteLine \/ WriteRest \/ Forward \/ Exit \/ TailerPass
  BY <1>3, WriteLineTyped, WriteRestTyped, ForwardTyped, ExitTyped, TailerPassTyped, Zenon
<1>4. CASE Kill \/ Drop \/ Tick \/ Stop \/ Reap \/ StopAgain
  BY <1>4, KillTyped, DropTyped, TickTyped, StopTyped, ReapTyped, StopAgainTyped, Zenon
<1>5. CASE Launch \/ Crash \/ Adopt \/ Reconcile
  BY <1>5, LaunchTyped, CrashTyped, AdoptTyped, ReconcileTyped, Zenon
<1> QED BY <1>1, <1>2, <1>3, <1>4, <1>5, Zenon DEF Next

\* The types of the metering path, and the shape of its call stack.
THEOREM MeteringTypes == Spec => []TypeOK
<1>1. Init => Typed
  BY InitTyped
<1>2. Typed /\ [Next]_vars => Typed'
  BY NextTyped
<1>3. Typed => TypeOK
  <2> SUFFICES ASSUME Typed PROVE TypeOK
    OBVIOUS
  <2>1. IdsOf(queue) \subseteq Ids /\ IdsOf(observed.events) \subseteq Ids
    BY IdSets
  <2>2. half.id \in Ids \cup {0}
    BY DEF Typed, MeterTyped, Ids
  <2>3. errors \in Nat /\ observed.attempts \in 0 .. ParkMax
    BY Facts DEF Typed, MeterTyped
  <2> QED BY <2>1, <2>2, <2>3 DEF Typed, MeterTyped, TypeOK
<1> QED BY <1>1, <1>2, <1>3, PTL DEF Spec

-----------------------------------------------------------------------------
(* What is pending, and in which order *)

\* The position lies before the cursor of no drain to come.
Within(i) == i > cursor \/ \E k \in 1 .. Len(todo) : todo[k].op = "ingest" /\ i > todo[k].from

\* The events that a step to come may offer to the ledger, the queue aside.
Reach == {i \in 1 .. Len(file) : held /\ First(i) /\ Within(i)}
Pend == {At(i) : i \in Reach} \cup Members(observed.events)
          \cup UNION {Members(todo[k].rest) : k \in 1 .. Len(todo)}

\* Ids go up along the file, the queue, the park and every block, and what is
\* behind a block or in the queue is younger than what is pending before it.
Ordered ==
  /\ InOrderLines /\ \A i \in 1 .. Len(file) : First(i) => file[i].id <= produced
  /\ Increasing(queue) /\ Increasing(observed.events)
  /\ \A k \in 1 .. Len(todo) : Increasing(todo[k].rest)
  /\ \A k \in 1 .. Len(todo) : todo[k].op = "ingest" =>
       \A e \in Members(todo[k].rest), i \in 1 .. Len(file) :
         i > todo[k].to /\ First(i) => e.id < file[i].id
  /\ \A e \in Pend : e.id <= produced
  /\ \A q \in Members(queue) : q.id <= produced /\ \A e \in Pend : e.id < q.id

\* Each channel has its own state and its own loop.
Channel ==
  /\ source = "observed" => file = <<>> /\ half = NoHalf /\ cursor = 0
  /\ source = "log" => queue = <<>> /\ observed = NonePending
  /\ \A k \in 1 .. Len(todo) : /\ todo[k].op = "ingest" => source = "log"
                               /\ todo[k].op = "ingestObs" => source = "observed"

\* A frame of the next stack that offers no event which is not pending now: it
\* is no loop, what is left of one of the loops, or the block just read.
Inherits(f) ==
  \/ f.op \notin Loops
  \/ \E k \in 1 .. Len(todo) : /\ f.op = todo[k].op /\ f.from = todo[k].from
                               /\ f.to = todo[k].to /\ Suffix(f.rest, todo[k].rest)
  \/ f = Block /\ Doing("log") /\ held /\ cursor <= Len(file) /\ DrainTo # cursor

\* A step after which nothing is pending that was not pending before.
Loses ==
  /\ produced' = produced /\ source' = source
  /\ held' => held \/ todo' = <<>>
  /\ \A k \in 1 .. Len(todo') : Inherits(todo'[k])
  /\ \/ Suffix(observed'.events, observed.events)
     \/ \E k \in 1 .. Len(todo) : Suffix(observed'.events, todo[k].rest)
  /\ queue' \in {queue, <<>>}
  /\ \A i \in 1 .. Len(file') : file'[i].part # "rest" =>
       /\ i \in 1 .. Len(file) /\ file'[i] = file[i]
       /\ held' /\ i > cursor' => held /\ Within(i)

\* The blocks of the stack hold events.
LEMMA Blocks ==
  ASSUME Typed
  PROVE  /\ Len(todo) \in Nat /\ Len(file) \in Nat /\ DOMAIN file = 1 .. Len(file)
         /\ \A k \in 1 .. Len(todo) :
              /\ todo[k].rest \in Seq(Event) /\ WellFormed(todo[k]) /\ todo[k] \in FrameType
              /\ todo[k].op \notin Loops => todo[k].rest = <<>> /\ Members(todo[k].rest) = {}
         /\ observed.events \in Seq(Event) /\ queue \in Seq([id : Ids])
         /\ Members(observed.events) \subseteq Event /\ Members(queue) \subseteq [id : Ids]
<1>1. /\ Len(todo) \in Nat /\ Len(file) \in Nat /\ DOMAIN file = 1 .. Len(file)
  BY Facts
<1>2. \A k \in 1 .. Len(todo) : WellFormed(todo[k])
  BY DEF Typed, Stack, Sound
<1>3. Members(<<>>) = {}
  BY DEF Members
<1>4. observed.events \in Seq(Event) /\ queue \in Seq([id : Ids])
  BY DEF Typed, MeterTyped
<1>5. ASSUME NEW S, NEW s \in Seq(S) PROVE Members(s) \subseteq S
  BY LenProperties DEF Members
<1>6. Members(observed.events) \subseteq Event /\ Members(queue) \subseteq [id : Ids]
  <2>1. Members(observed.events) \subseteq Event
    BY <1>4, <1>5
  <2>2. Members(queue) \subseteq [id : Ids]
    BY <1>4, <1>5
  <2> QED BY <2>1, <2>2
<1>7. \A k \in 1 .. Len(todo) :
        /\ todo[k].rest \in Seq(Event) /\ todo[k] \in FrameType
        /\ todo[k].op \notin Loops => todo[k].rest = <<>> /\ Members(todo[k].rest) = {}
  BY <1>2, <1>3 DEF WellFormed, FrameType
<1> QED BY <1>1, <1>2, <1>4, <1>6, <1>7

\* The block that is read holds pending events, in order.
LEMMA BlockPending ==
  ASSUME Typed, Doing("log"), held, cursor <= Len(file)
  PROVE  /\ Block.rest \in Seq(Event) /\ Block.op = "ingest" /\ Block.from = cursor
         /\ Block.to \in cursor .. Len(file)
         /\ \A e \in Members(Block.rest) :
              \E i \in Block.from + 1 .. Block.to : First(i) /\ e = At(i)
         /\ Members(Block.rest) \subseteq Pend
         /\ InOrderLines => Increasing(Block.rest)
<1>1. file \in Seq(Chunk) /\ cursor \in Nat /\ Len(file) \in Nat /\ DrainTo \in cursor .. Len(file)
  BY ReadTailFrames, Facts DEF Typed, MeterTyped
<1>2. /\ Block.rest = ParseBlock(cursor, DrainTo) /\ Block.op = "ingest" /\ Block.from = cursor
      /\ Block.to = DrainTo
  BY DEF Block
<1>3. DrainTo \in Nat /\ DrainTo <= Len(file)
  BY <1>1
<1>4. /\ Block.rest \in Seq(Event)
      /\ \A e \in Members(Block.rest) : \E i \in cursor + 1 .. DrainTo : First(i) /\ e = At(i)
      /\ InOrderLines => Increasing(Block.rest)
  BY <1>1, <1>2, <1>3, ParseBlockEvents
<1>5. Members(Block.rest) \subseteq Pend
  <2> SUFFICES ASSUME NEW e \in Members(Block.rest) PROVE e \in Pend
    OBVIOUS
  <2>1. PICK i \in cursor + 1 .. DrainTo : First(i) /\ e = At(i)
    BY <1>4
  <2>2. i \in 1 .. Len(file) /\ i > cursor
    BY <1>1
  <2> QED BY <2>1, <2>2 DEF Pend, Reach, Within
<1> QED BY <1>1, <1>2, <1>4, <1>5

(* A step that only gives up pending events adds none anywhere. *)
LEMMA LosesPending ==
  ASSUME Typed, Typed', Loses
  PROVE  Pend' \subseteq Pend /\ Members(queue') \subseteq Members(queue)
<1>1. Members(queue') \subseteq Members(queue)
  BY DEF Loses, Members
<1>2. \A k \in 1 .. Len(todo') : Inherits(todo'[k])
  BY DEF Loses
<1>3. Len(todo) \in Nat /\ Len(todo') \in Nat
  BY Facts, LenProperties DEF Typed, Stack, Sound
<1>4. ASSUME NEW k \in 1 .. Len(todo') PROVE Members(todo'[k].rest) \subseteq Pend
  <2>0. /\ todo'[k].rest \in Seq(Event)
        /\ todo'[k].op \notin Loops => Members(todo'[k].rest) = {}
    <3>1. WellFormed(todo'[k])
      BY DEF Typed, Stack, Sound
    <3>2. Members(<<>>) = {}
      BY DEF Members
    <3> QED BY <3>1, <3>2 DEF WellFormed, FrameType
  <2>1. CASE todo'[k].op \notin Loops
    BY <2>0, <2>1
  <2>2. ASSUME NEW i \in 1 .. Len(todo), Suffix(todo'[k].rest, todo[i].rest)
        PROVE  Members(todo'[k].rest) \subseteq Pend
    <3>1. Members(todo'[k].rest) \subseteq Members(todo[i].rest)
      BY <2>0, <2>2, Blocks, SuffixKeeps
    <3> QED BY <3>1 DEF Pend
  <2>3. CASE todo'[k] = Block /\ Doing("log") /\ held /\ cursor <= Len(file)
    BY <2>3, BlockPending
  <2> QED BY <1>2, <2>1, <2>2, <2>3 DEF Inherits
<1>5. Members(observed'.events) \subseteq Pend
  <2>0. observed'.events \in Seq(Event) /\ observed.events \in Seq(Event)
    BY DEF Typed, MeterTyped
  <2>1. CASE Suffix(observed'.events, observed.events)
    BY <2>0, <2>1, SuffixKeeps DEF Pend
  <2>2. ASSUME NEW i \in 1 .. Len(todo), Suffix(observed'.events, todo[i].rest)
        PROVE  Members(observed'.events) \subseteq Pend
    <3>1. Members(observed'.events) \subseteq Members(todo[i].rest)
      BY <2>0, <2>2, Blocks, SuffixKeeps
    <3> QED BY <3>1 DEF Pend
  <2> QED BY <2>1, <2>2 DEF Loses
<1>6. ASSUME NEW i \in Reach' PROVE At(i)' \in Pend
  <2>1. /\ i \in 1 .. Len(file') /\ held' /\ file'[i].part # "rest"
        /\ i > cursor' \/ \E k \in 1 .. Len(todo') : todo'[k].op = "ingest" /\ i > todo'[k].from
    BY DEF Reach, First, Within
  <2>2. i \in 1 .. Len(file) /\ file'[i] = file[i]
    BY <2>1 DEF Loses
  <2>3. held /\ Within(i)
    <3>1. CASE i > cursor'
      BY <2>1, <3>1 DEF Loses
    <3>2. ASSUME NEW k \in 1 .. Len(todo'), todo'[k].op = "ingest", i > todo'[k].from
          PROVE  held /\ Within(i)
      <4>1. held
        <5>1. todo' # <<>>
          BY <1>3, <3>2
        <5> QED BY <2>1, <5>1 DEF Loses
      <4>2. Within(i)
        <5>1. \/ \E j \in 1 .. Len(todo) : /\ todo'[k].op = todo[j].op
                                           /\ todo'[k].from = todo[j].from
              \/ todo'[k] = Block
          BY <1>2, <3>2 DEF Inherits, Loops
        <5> QED BY <3>2, <5>1 DEF Within, Block
      <4> QED BY <4>1, <4>2
    <3> QED BY <2>1, <3>1, <3>2
  <2>4. i \in Reach /\ At(i)' = At(i)
    BY <2>1, <2>2, <2>3 DEF Reach, First, At
  <2> QED BY <2>4 DEF Pend
<1>7. ASSUME NEW e \in Pend' PROVE e \in Pend
  <2>1. \/ \E i \in Reach' : e = At(i)'
        \/ e \in Members(observed'.events)
        \/ \E k \in 1 .. Len(todo') : e \in Members(todo'[k].rest)
    BY <1>7 DEF Pend
  <2> QED BY <1>4, <1>5, <1>6, <2>1
<1> QED BY <1>1, <1>7

(* It keeps the order of those that remain. *)
LEMMA LosesOrdered ==
  ASSUME Typed, Typed', Ordered, Loses
  PROVE  Ordered'
<1>1. Pend' \subseteq Pend /\ Members(queue') \subseteq Members(queue)
  BY LosesPending
<1>2. /\ \A i \in 1 .. Len(file') : file'[i].part # "rest" => i \in 1 .. Len(file) /\ file'[i] = file[i]
      /\ produced' = produced
      /\ DOMAIN file' = 1 .. Len(file') /\ DOMAIN file = 1 .. Len(file)
  <2>1. file' \in Seq(Chunk)
    BY DEF Typed, MeterTyped
  <2> QED BY <2>1, LenProperties, Facts DEF Loses
<1>3. InOrderLines'
  BY <1>2 DEF Ordered, InOrderLines, First
<1>4. (\A i \in 1 .. Len(file) : First(i) => file[i].id <= produced)'
  BY <1>2 DEF Ordered, First
<1>5. Increasing(queue') /\ Increasing(observed'.events)
  <2>1. Increasing(<<>>)
    BY DEF Increasing
  <2>2. Increasing(queue')
    BY <2>1 DEF Ordered, Loses
  <2>3. observed'.events \in Seq(Event)
    BY DEF Typed, MeterTyped
  <2>4. CASE Suffix(observed'.events, observed.events)
    <3>1. observed.events \in Seq(Event) /\ Increasing(observed.events)
      BY Blocks DEF Ordered
    <3> QED BY <2>2, <2>3, <2>4, <3>1, SuffixKeeps
  <2>5. ASSUME NEW k \in 1 .. Len(todo), Suffix(observed'.events, todo[k].rest)
        PROVE  Increasing(observed'.events)
    <3>1. todo[k].rest \in Seq(Event) /\ Increasing(todo[k].rest)
      BY Blocks DEF Ordered
    <3> QED BY <2>3, <2>5, <3>1, SuffixKeeps
  <2> QED BY <2>2, <2>4, <2>5 DEF Loses
<1>6. ASSUME NEW k \in 1 .. Len(todo')
      PROVE  /\ Increasing(todo'[k].rest)
             /\ todo'[k].op = "ingest" =>
                  \A e \in Members(todo'[k].rest), i \in 1 .. Len(file') :
                    i > todo'[k].to /\ file'[i].part # "rest" => e.id < file'[i].id
  <2>0. /\ todo'[k].rest \in Seq(Event)
        /\ todo'[k].op \notin Loops => todo'[k].rest = <<>>
    <3>1. WellFormed(todo'[k])
      BY DEF Typed, Stack, Sound
    <3> QED BY <3>1 DEF WellFormed, FrameType
  <2>1. CASE todo'[k].op \notin Loops
    BY <2>0, <2>1 DEF Increasing, Loops
  <2>2. ASSUME NEW j \in 1 .. Len(todo), todo'[k].op = todo[j].op, todo'[k].to = todo[j].to,
               Suffix(todo'[k].rest, todo[j].rest)
        PROVE  <1>6!2
    <3>1. todo[j].rest \in Seq(Event)
      BY Blocks
    <3>2. Members(todo'[k].rest) \subseteq Members(todo[j].rest) /\ Increasing(todo'[k].rest)
      BY <2>0, <2>2, <3>1, SuffixKeeps DEF Ordered
    <3>3. todo[j].op = "ingest" =>
            \A e \in Members(todo[j].rest), i \in 1 .. Len(file) :
              i > todo[j].to /\ First(i) => e.id < file[i].id
      BY DEF Ordered
    <3> QED BY <1>2, <2>2, <3>2, <3>3 DEF First
  <2>3. CASE todo'[k] = Block /\ Doing("log") /\ held /\ cursor <= Len(file)
    <3>1. Increasing(Block.rest)
      BY <2>3, BlockPending DEF Ordered
    <3>2. ASSUME NEW e \in Members(Block.rest), NEW i \in 1 .. Len(file'), i > Block.to,
                 file'[i].part # "rest"
          PROVE  e.id < file'[i].id
      <4>1. PICK j \in Block.from + 1 .. Block.to : First(j) /\ e = At(j)
        BY <2>3, BlockPending
      <4>2. /\ Block.to \in cursor .. Len(file) /\ Block.from = cursor /\ cursor \in Nat
            /\ Len(file) \in Nat
        BY <2>3, BlockPending, Facts DEF Typed, MeterTyped
      <4>3. j \in 1 .. Len(file) /\ j < i /\ i \in 1 .. Len(file) /\ file'[i] = file[i]
        BY <1>2, <3>2, <4>2
      <4>4. file[j].id < file[i].id
        BY <1>2, <3>2, <4>1, <4>3 DEF Ordered, InOrderLines, First
      <4> QED BY <4>1, <4>3, <4>4 DEF At
    <3> QED BY <2>3, <3>1, <3>2
  <2> QED BY <2>1, <2>2, <2>3 DEF Loses, Inherits
<1>7. /\ \A e \in Pend' : e.id <= produced'
      /\ \A q \in Members(queue') : q.id <= produced' /\ \A e \in Pend' : e.id < q.id
  <2>1. /\ \A e \in Pend : e.id <= produced
        /\ \A q \in Members(queue) : q.id <= produced /\ \A e \in Pend : e.id < q.id
    BY DEF Ordered
  <2> QED BY <1>1, <1>2, <2>1
<1>8. /\ (\A k \in 1 .. Len(todo) : Increasing(todo[k].rest))'
      /\ (\A k \in 1 .. Len(todo) : todo[k].op = "ingest" =>
            \A e \in Members(todo[k].rest), i \in 1 .. Len(file) :
              i > todo[k].to /\ First(i) => e.id < file[i].id)'
  BY <1>6 DEF First
<1> QED BY <1>3, <1>4, <1>5, <1>7, <1>8 DEF Ordered

\* Most steps leave file, queue and park as they were, or empty, and move the
\* cursor to the end of the file or of the block under way, if at all.
Quiet ==
  /\ produced' = produced /\ source' = source
  /\ held' => held \/ todo' = <<>>
  /\ \A k \in 1 .. Len(todo') : Inherits(todo'[k])
  /\ observed' \in {observed, NonePending} /\ queue' \in {queue, <<>>}
  /\ file' \in {file, <<>>} /\ half' \in {half, NoHalf}
  /\ \/ cursor' \in {cursor, 0, Len(file)}
     \/ Doing("ingest") /\ cursor' = Top.to
  /\ held' => \/ cursor' = cursor /\ held
              \/ cursor' = Len(file)
              \/ Doing("ingest") /\ held /\ cursor' = Top.to
              \/ file' = <<>>

(* A quiet step adds no pending event. *)
LEMMA QuietLoses ==
  ASSUME Typed, Channel, Quiet
  PROVE  Loses
<1>1. Suffix(observed'.events, observed.events)
  <2>1. observed.events \in Seq(Event)
    BY DEF Typed, MeterTyped
  <2>2. Suffix(observed.events, observed.events) /\ Suffix(<<>>, observed.events)
    BY <2>1, SameSuffix
  <2>3. observed'.events \in {observed.events, <<>>}
    BY NonePendingTyped DEF Quiet
  <2> QED BY <2>2, <2>3
<1>2. ASSUME NEW i \in 1 .. Len(file')
      PROVE  i \in 1 .. Len(file) /\ file'[i] = file[i] /\ file' = file
  <2>1. file' = <<>> => Len(file') = 0
    OBVIOUS
  <2> QED BY <2>1 DEF Quiet
<1>3. ASSUME NEW i \in 1 .. Len(file'), held', i > cursor'
      PROVE  held /\ Within(i)
  <2>1. i \in 1 .. Len(file) /\ Len(file) \in Nat /\ file' = file /\ file # <<>>
    BY <1>2, Facts
  <2>2. CASE cursor' = cursor /\ held
    BY <1>3, <2>2 DEF Within
  <2>3. CASE cursor' = Len(file)
    BY <1>3, <2>1, <2>3
  <2>4. CASE Doing("ingest") /\ held /\ cursor' = Top.to
    <3>1. Top.op = "ingest" /\ 1 \in 1 .. Len(todo) /\ todo[1] = Top
          /\ Top.from \in Nat /\ Top.to \in Nat /\ Top.from <= Top.to
      BY <2>4, Facts DEF Doing, Top, WellFormed, FrameType
    <3>2. i > Top.from
      BY <1>3, <2>1, <2>4, <3>1
    <3> QED BY <2>4, <3>1, <3>2 DEF Within
  <2> QED BY <1>3, <2>1, <2>2, <2>3, <2>4 DEF Quiet
<1> QED BY <1>1, <1>2, <1>3 DEF Quiet, Loses

\* The loops of the next stack belong to the channel, like those of this one.
LEMMA LoopsOfChannel ==
  ASSUME Typed, Channel, Loses
  PROVE  \A k \in 1 .. Len(todo') : /\ todo'[k].op = "ingest" => source' = "log"
                                    /\ todo'[k].op = "ingestObs" => source' = "observed"
<1>1. source' = source /\ source \in {"log", "observed"}
  BY DEF Loses, Typed, MeterTyped
<1> TAKE k \in 1 .. Len(todo')
<1>2. Inherits(todo'[k])
  BY DEF Loses
<1>3. CASE todo'[k].op \notin Loops
  BY <1>3 DEF Loops
<1>4. ASSUME NEW j \in 1 .. Len(todo), todo'[k].op = todo[j].op
      PROVE  /\ todo'[k].op = "ingest" => source' = "log"
             /\ todo'[k].op = "ingestObs" => source' = "observed"
  BY <1>1, <1>4 DEF Channel
<1>5. CASE todo'[k] = Block /\ Doing("log") /\ held /\ cursor <= Len(file) /\ DrainTo # cursor
  <2>1. Block.op = "ingest"
    BY DEF Block
  <2>2. DrainTo \in cursor .. Len(file)
    BY <1>5, ReadTailFrames
  <2>3. source = "log"
    <3>1. source = "observed" => cursor = 0 /\ Len(file) = 0
      BY DEF Channel
    <3> QED BY <1>1, <1>5, <2>2, <3>1
  <2> QED BY <1>1, <1>5, <2>1, <2>3
<1> QED BY <1>2, <1>3, <1>4, <1>5 DEF Inherits

(* It also keeps the two channels apart. *)
LEMMA QuietChannel ==
  ASSUME Typed, Channel, Quiet
  PROVE  Channel'
<1>1. Loses
  BY QuietLoses
<1>2. source = "observed" => file' = <<>> /\ half' = NoHalf /\ cursor' = 0
  <2> SUFFICES ASSUME source = "observed" PROVE file' = <<>> /\ half' = NoHalf /\ cursor' = 0
    OBVIOUS
  <2>1. file = <<>> /\ half = NoHalf /\ cursor = 0 /\ Len(file) = 0
    BY DEF Channel
  <2>2. ~Doing("ingest")
    BY Facts DEF Channel, Doing, Top
  <2> QED BY <2>1, <2>2 DEF Quiet
<1>3. source = "log" => queue' = <<>> /\ observed' = NonePending
  BY DEF Channel, Quiet
<1>4. source' = source
  BY DEF Quiet
<1>5. (\A k \in 1 .. Len(todo) : /\ todo[k].op = "ingest" => source = "log"
                                 /\ todo[k].op = "ingestObs" => source = "observed")'
  BY <1>1, LoopsOfChannel
<1> QED BY <1>2, <1>3, <1>4, <1>5 DEF Channel

\* What a frame of the stack, or of no loop, inherits.
LEMMA FrameInherits ==
  ASSUME Typed
  PROVE  /\ \A k \in 1 .. Len(todo) : Inherits(todo[k])
         /\ \A f : f.op \notin Loops => Inherits(f)
<1>1. ASSUME NEW k \in 1 .. Len(todo) PROVE Inherits(todo[k])
  <2>1. todo[k].rest \in Seq(Event)
    BY Blocks
  <2>2. Suffix(todo[k].rest, todo[k].rest)
    BY <2>1, SameSuffix
  <2> QED BY <2>2 DEF Inherits
<1> QED BY <1>1 DEF Inherits

(* The outer calls keep their blocks when the innermost are replaced. *)
LEMMA SplicedInherits ==
  ASSUME Typed, Typed', NEW n \in 1 .. Len(todo), NEW pre, Len(pre) \in Nat,
         Spliced(todo', todo, n, pre), \A k \in 1 .. Len(pre) : Inherits(pre[k])
  PROVE  \A k \in 1 .. Len(todo') : Inherits(todo'[k])
<1>1. Len(todo') \in Nat /\ Len(todo) \in Nat
  BY Facts, LenProperties DEF Typed, Stack, Sound
<1> TAKE k \in 1 .. Len(todo')
<1>2. CASE k \in 1 .. Len(pre)
  BY <1>2 DEF Spliced
<1>3. CASE k \notin 1 .. Len(pre)
  <2>1. k \in Len(pre) + 1 .. Len(todo')
    BY <1>1, <1>3
  <2>2. PICK i \in n + 1 .. Len(todo) : todo'[k] = todo[i]
    BY <2>1 DEF Spliced
  <2>3. i \in 1 .. Len(todo)
    BY <1>1, <2>2
  <2> QED BY <2>2, <2>3, FrameInherits
<1> QED BY <1>2, <1>3

\* A return.
LEMMA PopInherits ==
  ASSUME Typed, Typed', todo # <<>>, todo' = Tail(todo)
  PROVE  \A k \in 1 .. Len(todo') : Inherits(todo'[k])
<1>1. Spliced(todo', todo, 1, <<>>)
  <2>1. todo \in Seq(FrameType)
    BY DEF Typed, Stack, Sound
  <2> QED BY <2>1, PopTop
<1> DEFINE pre == <<>>
<1>2. Len(pre) = 0 /\ Spliced(todo', todo, 1, pre)
  BY <1>1
<1> HIDE DEF pre
<1>3. 1 \in 1 .. Len(todo) /\ Len(pre) \in Nat /\ \A k \in 1 .. Len(pre) : Inherits(pre[k])
  BY <1>2, Facts
<1> QED BY <1>2, <1>3, SplicedInherits

\* The innermost call replaced by others.
LEMMA PushInherits ==
  ASSUME Typed, Typed', todo # <<>>, NEW pre, Sound(pre), todo' = pre \o Tail(todo),
         \A k \in 1 .. Len(pre) : Inherits(pre[k])
  PROVE  \A k \in 1 .. Len(todo') : Inherits(todo'[k])
<1>1. todo \in Seq(FrameType) /\ pre \in Seq(FrameType) /\ Len(pre) \in Nat
  BY LenProperties DEF Typed, Stack, Sound
<1>2. Spliced(todo', todo, 1, pre)
  BY <1>1, SpliceTop
<1>3. 1 \in 1 .. Len(todo)
  BY Facts
<1> QED BY <1>1, <1>2, <1>3, SplicedInherits

\* No refusal: the counts stay, and an attempt that was counted stays or goes.
Patient == errors' = errors /\ skips' = skips /\ park' \in {park, NoPark}

(* The exit of the agent and a pass of the tailer are quiet. *)
LEMMA OutsideQuiet ==
  ASSUME Typed, Exit \/ TailerPass \/ UNCHANGED vars
  PROVE  Quiet /\ Patient
BY FrameInherits
   DEF Exit, TailerPass, vars, agent, handle, losses, Quiet, Patient

(* The read of a block makes no event pending that the log did not hold. *)
LEMMA ReadTailQuiet ==
  ASSUME Typed, Typed', ReadTail
  PROVE  Quiet /\ Patient
<1>1. todo # <<>> /\ Doing("log")
  BY DEF ReadTail, Doing
<1>2. \A k \in 1 .. Len(todo') : Inherits(todo'[k])
  <2>1. CASE Return
    BY <1>1, <2>1, PopInherits DEF Return
  <2>2. CASE ~Return
    <3>1. held /\ cursor <= Len(file) /\ todo' = Reading \o Tail(todo)
      <4>1. cursor \in Nat /\ Len(file) \in Nat
        BY Facts DEF Typed, MeterTyped
      <4>2. held /\ ~(cursor > Len(file))
        BY <2>2 DEF ReadTail
      <4>3. todo' = Reading \o Tail(todo)
        BY <2>2, <4>2 DEF ReadTail, Reading, Block, DrainTo
      <4> QED BY <4>1, <4>2, <4>3
    <3>2. /\ DrainTo = cursor => Reading = <<Frame("trunc", Top.mode)>>
          /\ DrainTo # cursor => Reading = <<Block, Frame("trunc", Top.mode)>>
          /\ Sound(Reading)
      BY <1>1, <3>1, ReadTailFrames
    <3>3. Inherits(Frame("trunc", Top.mode))
      BY DEF Inherits, Frame, Loops
    <3>4. DrainTo # cursor => Inherits(Block)
      BY <1>1, <3>1 DEF Inherits
    <3>5. \A k \in 1 .. Len(Reading) : Inherits(Reading[k])
      BY <3>2, <3>3, <3>4
    <3> QED BY <1>1, <3>1, <3>2, <3>5, PushInherits
  <2> QED BY <2>1, <2>2
<1>3. held' = held /\ (cursor' = cursor \/ cursor' = Len(file))
  BY DEF ReadTail
<1> QED BY <1>2, <1>3 DEF ReadTail, agent, Quiet, Patient

(* A commit moves an event from its block to the ledger. *)
LEMMA CommitQuiet ==
  ASSUME Typed, Typed', Commit
  PROVE  Quiet /\ Patient
<1> DEFINE e == Head(Top.rest)
           after == [Top EXCEPT !.rest = Tail(@)]
           pre == (IF Breaches(e) THEN StopFrames ELSE <<>>) \o <<after>>
<1>1. /\ todo # <<>> /\ WellFormed(after) /\ after.op = Top.op /\ after.from = Top.from
      /\ after.to = Top.to /\ after.rest = Tail(Top.rest) /\ Top.op \in Loops
      /\ Top.rest \in Seq(Event) /\ Top.rest # <<>>
  BY AfterEvent DEF Commit, InLoop
<1>2. todo' = pre \o Tail(todo)
  BY DEF Commit
<1>3. Inherits(after)
  <2>1. Suffix(Tail(Top.rest), Top.rest)
    BY <1>1, TailSuffix
  <2>2. 1 \in 1 .. Len(todo) /\ todo[1] = Top
    BY <1>1, Facts
  <2> HIDE DEF after
  <2> QED BY <1>1, <2>1, <2>2 DEF Inherits
<1>4. Sound(pre) /\ \A k \in 1 .. Len(pre) : Inherits(pre[k])
  <2> HIDE DEF e, after
  <2>1. CASE Breaches(e)
    <3>1. pre = StopFrames \o <<after>>
      BY <2>1
    <3>2. /\ Sound(pre) /\ Len(pre) = 6 /\ pre[6] = after
          /\ \A k \in 1 .. 5 : pre[k] = StopFrames[k]
      BY <1>1, <3>1, StopThen
    <3> HIDE DEF pre
    <3>3. \A k \in 1 .. 5 : pre[k].op \notin Loops
      BY <3>2, NewFrames DEF Frame, Loops
    <3>4. \A k \in 1 .. 6 : k \in 1 .. 5 \/ k = 6
      OBVIOUS
    <3> QED BY <1>3, <3>2, <3>3, <3>4, FrameInherits
  <2>2. CASE ~Breaches(e)
    <3>1. pre = <<after>>
      <4>1. <<after>> \in Seq({after})
        OBVIOUS
      <4> QED BY <2>2, <4>1, ConcatEmptySeq
    <3>2. Sound(pre) /\ Len(pre) = 1 /\ pre[1] = after
      BY <1>1, <3>1, OneFrame DEF Loops
    <3> HIDE DEF pre
    <3> QED BY <1>3, <3>2
  <2> QED BY <2>1, <2>2
<1> HIDE DEF pre
<1>5. \A k \in 1 .. Len(todo') : Inherits(todo'[k])
  BY <1>1, <1>2, <1>4, PushInherits
<1> QED BY <1>5 DEF Commit, agent, handle, Quiet, Patient

(* The advance of the cursor gives up only what was drained. *)
LEMMA AdvanceQuiet ==
  ASSUME Typed, Typed', Advance
  PROVE  Quiet /\ Patient
<1>1. todo # <<>> /\ todo' = Tail(todo)
  BY DEF Advance, Return, Doing
<1>2. \A k \in 1 .. Len(todo') : Inherits(todo'[k])
  BY <1>1, PopInherits
<1> QED BY <1>2 DEF Advance, agent, Quiet, Patient

(* A refusal leaves the cursor, or moves it to the end of the block. *)
LEMMA LogRefusedQuiet ==
  ASSUME Typed, Typed', NEW busy \in BOOLEAN, LogRefused(busy)
  PROVE  Quiet
<1>1. todo # <<>> /\ todo' = Tail(todo) /\ Doing("ingest")
  BY LogRefusedMeans DEF Doing
<1>2. \A k \in 1 .. Len(todo') : Inherits(todo'[k])
  BY <1>1, PopInherits
<1>3. held' = held /\ (cursor' = cursor \/ (held /\ cursor' = Top.to))
  BY LogRefusedMeans
<1> QED BY <1>1, <1>2, <1>3 DEF LogRefused, agent, Quiet

(* The check of the size changes the call stack only. *)
LEMMA TruncateCheckQuiet ==
  ASSUME Typed, Typed', TruncateCheck
  PROVE  Quiet /\ Patient
<1> DEFINE len == Len(file)
           due == held /\ len >= Cap /\ cursor >= len /\ TailerPast(tailer', len)
           cut == [Top EXCEPT !.op = "cut", !.to = len]
<1>1. todo # <<>> /\ Top \in FrameType /\ WellFormed(Top) /\ Top.op = "trunc" /\ Len(file) \in Nat
  BY Facts DEF TruncateCheck, Doing, Top
<1>2. CASE due
  <2>1. todo' = <<cut>> \o Tail(todo)
    BY <1>2 DEF TruncateCheck
  <2>2. cut.op = "cut" /\ WellFormed(cut)
    <3>1. /\ cut.op = "cut" /\ cut.to = Len(file) /\ cut.mode = Top.mode /\ cut.from = Top.from
          /\ cut.rest = Top.rest /\ cut \in FrameType
      BY <1>1 DEF FrameType
    <3> HIDE DEF cut
    <3> QED BY <1>1, <3>1 DEF WellFormed, Loops
  <2> HIDE DEF cut
  <2> DEFINE pre == <<cut>>
  <2>3. Sound(pre) /\ Len(pre) = 1 /\ pre[1] = cut /\ todo' = pre \o Tail(todo)
    BY <2>1, <2>2, OneFrame
  <2> HIDE DEF pre
  <2>4. \A k \in 1 .. Len(pre) : Inherits(pre[k])
    BY <2>2, <2>3 DEF Inherits, Loops
  <2>5. \A k \in 1 .. Len(todo') : Inherits(todo'[k])
    BY <1>1, <2>3, <2>4, PushInherits
  <2> QED BY <2>5 DEF TruncateCheck, agent, losses, Quiet, Patient
<1>3. CASE ~due
  <2>1. todo' = <<>> \o Tail(todo)
    BY <1>3 DEF TruncateCheck
  <2>2. Tail(todo) \in Seq(FrameType)
    BY <1>1, HeadTailProperties DEF Typed, Stack, Sound
  <2>3. todo' = Tail(todo)
    BY <2>1, <2>2, ConcatEmptySeq
  <2>4. \A k \in 1 .. Len(todo') : Inherits(todo'[k])
    BY <1>1, <2>3, PopInherits
  <2> QED BY <2>4 DEF TruncateCheck, agent, losses, Quiet, Patient
<1> QED BY <1>2, <1>3

(* The cut, the end of a drain and the drop of the handle add nothing. *)
LEMMA PopsQuiet ==
  ASSUME Typed, Typed', Truncate \/ ObservedDone \/ Drop \/ (ReadQueue /\ Return)
  PROVE  Quiet /\ Patient
<1>1. todo # <<>> /\ todo' = Tail(todo)
  BY DEF Truncate, ObservedDone, Drop, ReadQueue, Return, Doing
<1>2. \A k \in 1 .. Len(todo') : Inherits(todo'[k])
  BY <1>1, PopInherits
<1>3. CASE Truncate
  BY <1>2, <1>3 DEF Truncate, Quiet, Patient
<1>4. CASE ObservedDone
  BY <1>2, <1>4 DEF ObservedDone, agent, losses, Quiet, Patient
<1>5. CASE Drop
  BY <1>2, <1>5 DEF Drop, Gone, Quiet, Patient
<1>6. CASE ReadQueue /\ Return
  <2>1. UNCHANGED queue
    BY <1>6, ReadQueueMeans, SpliceTop DEF ReadQueue, Return
  <2> QED BY <1>2, <1>6, <2>1 DEF ReadQueue, losses, Quiet, Patient
<1> QED BY <1>3, <1>4, <1>5, <1>6

(* The kill may leave a half-written line for ever half. *)
LEMMA KillQuiet ==
  ASSUME Typed, Typed', Kill
  PROVE  Quiet /\ Patient
<1>1. todo # <<>> /\ Doing("kill") /\ row' = row
  BY DEF Kill, Doing
<1>2. \A k \in 1 .. Len(todo') : Inherits(todo'[k])
  <2>1. CASE Return
    BY <1>1, <2>1, PopInherits DEF Return
  <2>2. CASE ~Return
    <3> DEFINE pre == <<>>
    <3>1. Spliced(todo', todo, 3, pre) /\ Len(todo) >= 3 /\ Len(todo) \in Nat /\ Len(pre) = 0
      BY <1>1, <2>2, PopThree, Facts DEF Kill
    <3> HIDE DEF pre
    <3>2. 3 \in 1 .. Len(todo) /\ Len(pre) \in Nat /\ \A k \in 1 .. Len(pre) : Inherits(pre[k])
      BY <3>1
    <3> QED BY <3>1, <3>2, SplicedInherits
  <2> QED BY <2>1, <2>2
<1> QED BY <1>2 DEF Kill, Quiet, Patient

(* A tick, stop or reap begins with calls that hold no events yet. *)
LEMMA OperationQuiet ==
  ASSUME Typed, Typed', Tick \/ Stop \/ Reap
  PROVE  Quiet /\ Patient
<1>1. \A k \in 1 .. Len(todo') : todo'[k].op \notin Loops
  <2>1. CASE Tick
    BY <2>1, NewFrames DEF Tick, Frame, Loops
  <2>2. CASE Stop
    BY <2>2, NewFrames DEF Stop, Frame, Loops
  <2>3. CASE Reap
    BY <2>3, NewFrames DEF Reap, Frame, Loops
  <2> QED BY <2>1, <2>2, <2>3
<1>2. \A k \in 1 .. Len(todo') : Inherits(todo'[k])
  BY <1>1, FrameInherits
<1> QED BY <1>2 DEF Tick, Stop, Reap, agent, handle, losses, Quiet, Patient

(* What ends a generation leaves nothing on the call stack. *)
LEMMA EmptyQuiet ==
  ASSUME Typed, Typed', StopAgain \/ Launch \/ Crash \/ Adopt \/ Reconcile
  PROVE  Quiet /\ Patient
<1>1. todo' = <<>>
  BY DEF StopAgain, Launch, Crash, Adopt, Reconcile, Attach, Ready
<1>2. \A k \in 1 .. Len(todo') : Inherits(todo'[k])
  BY <1>1
<1> QED BY <1>1, <1>2 DEF StopAgain, Launch, Crash, Adopt, Reconcile, Attach, Anchor, Gone, agent,
                          handle, losses, Quiet, Patient

-----------------------------------------------------------------------------
(* The order of what is pending, step by step *)

\* What is pending are events.
LEMMA PendEvents ==
  ASSUME Typed
  PROVE  /\ Pend \subseteq Event /\ \A e \in Pend : e.id \in Nat /\ e.id \in Ids /\ e.seq \in Nat
         /\ \A q \in Members(queue) : q.id \in Nat /\ q.id \in Ids
         /\ produced \in Nat /\ \A i \in 1 .. Len(file) : file[i].id \in Nat
<1>0. Ids \subseteq Nat
  BY DEF Ids
<1>1. ASSUME NEW e \in Pend PROVE e \in Event
  <2>1. \/ \E i \in Reach : e = At(i)
        \/ e \in Members(observed.events) \/ \E k \in 1 .. Len(todo) : e \in Members(todo[k].rest)
    BY <1>1 DEF Pend
  <2>2. ASSUME NEW i \in Reach PROVE At(i) \in Event
    <3>1. file[i] \in Chunk
      BY Facts DEF Reach
    <3> QED BY <3>1 DEF At, Event, Chunk
  <2>3. ASSUME NEW k \in 1 .. Len(todo) PROVE Members(todo[k].rest) \subseteq Event
    <3>1. todo[k].rest \in Seq(Event)
      BY Blocks
    <3> QED BY <3>1, LenProperties DEF Members
  <2> QED BY <2>1, <2>2, <2>3, Blocks
<1>2. \A e \in Pend : e.id \in Ids /\ e.seq \in Nat
  BY <1>1 DEF Event
<1>3. \A q \in Members(queue) : q.id \in Ids
  BY Blocks
<1>4. produced \in Nat
  BY DEF Typed, MeterTyped
<1>5. \A i \in 1 .. Len(file) : file[i].id \in Ids
  BY Facts DEF Chunk
<1> QED BY <1>0, <1>1, <1>2, <1>3, <1>4, <1>5

\* The rest of a line begins no line.
LEMMA WriteRestLoses ==
  ASSUME Typed, Typed', Channel, WriteRest
  PROVE  Loses /\ Channel' /\ Patient /\ observed' = observed
<1>1. half.id \in Ids /\ seq \in Nat /\ Len(file) \in Nat /\ half # NoHalf
  BY Facts DEF WriteRest, Typed, MeterTyped, Ids
<1> DEFINE c == [id |-> half.id, seq |-> seq', part |-> "rest"]
<1>2. c \in Chunk /\ file' = Append(file, c) /\ c.part = "rest"
  BY <1>1 DEF Chunk, WriteRest, Appended
<1> HIDE DEF c
<1>3. /\ Len(file') = Len(file) + 1
      /\ \A i \in 1 .. Len(file) : file'[i] = file[i]
      /\ file'[Len(file) + 1] = c
  BY <1>2, AppendChunk
<1>4. \A i \in 1 .. Len(file') : i \in 1 .. Len(file) \/ i = Len(file) + 1
  BY <1>1, <1>3
<1>5. /\ produced' = produced /\ source' = source /\ held' = held /\ todo' = todo
      /\ observed' = observed /\ queue' = queue /\ cursor' = cursor /\ half' = NoHalf
  BY DEF WriteRest, Appended, handle
<1>6. Suffix(observed.events, observed.events)
  BY Blocks, SameSuffix
<1>7. Loses
  BY <1>2, <1>3, <1>4, <1>5, <1>6, FrameInherits DEF Loses, Within
<1>8. Channel'
  BY <1>1, <1>5, <1>7, LoopsOfChannel DEF Channel
<1>9. Patient
  BY DEF Patient, WriteRest, Appended, handle
<1> QED BY <1>5, <1>7, <1>8, <1>9

(* A refusal in the buffer keeps a suffix of its block. *)
LEMMA ObservedRefusedLoses ==
  ASSUME Typed, Typed', Channel, NEW busy \in BOOLEAN, ObservedRefused(busy)
  PROVE  Loses /\ Channel' /\ source = "observed"
<1>1. /\ Doing("ingestObs") /\ todo # <<>> /\ todo' = Tail(todo)
      /\ 1 \in 1 .. Len(todo) /\ todo[1] = Top /\ Top.op = "ingestObs"
  BY ObservedRefusedMeans, Facts DEF Doing, Top
<1>2. source = "observed"
  BY <1>1 DEF Channel
<1>3. \A k \in 1 .. Len(todo') : Inherits(todo'[k])
  BY <1>1, PopInherits
<1>4. \/ Suffix(observed'.events, observed.events)
      \/ Suffix(observed'.events, Top.rest)
  <2>0. Top.rest \in Seq(Event)
    BY <1>1, LoopTop
  <2>1. CASE Keep(busy) = <<>> \/ ~held
    <3>1. observed'.events = <<>>
      BY <2>1, ObservedRefusedMeans, NonePendingTyped
    <3> QED BY <2>0, <3>1, SameSuffix
  <2>2. CASE ~(Keep(busy) = <<>> \/ ~held)
    <3>1. observed'.events = Keep(busy)
      BY <2>2, ObservedRefusedMeans
    <3>2. Suffix(Keep(busy), Left) /\ Suffix(Left, Top.rest)
      BY <1>1, KeepBounds
    <3>3. PICK n \in Nat : /\ Len(Keep(busy)) + n = Len(Left)
                           /\ \A i \in 1 .. Len(Keep(busy)) : Keep(busy)[i] = Left[n + i]
      BY <3>2 DEF Suffix
    <3>4. PICK m \in Nat : /\ Len(Left) + m = Len(Top.rest)
                           /\ \A i \in 1 .. Len(Left) : Left[i] = Top.rest[m + i]
      BY <3>2 DEF Suffix
    <3>5. Keep(busy) \in Seq(Event) /\ Left \in Seq(Event)
      BY <1>1, KeepBounds
    <3>6. Len(Keep(busy)) \in Nat /\ Len(Left) \in Nat /\ Len(Top.rest) \in Nat
      BY <2>0, <3>5, LenProperties
    <3>7. m + n \in Nat /\ Len(Keep(busy)) + (m + n) = Len(Top.rest)
      BY <3>3, <3>4, <3>6
    <3>8. \A i \in 1 .. Len(Keep(busy)) : Keep(busy)[i] = Top.rest[(m + n) + i]
      <4> TAKE i \in 1 .. Len(Keep(busy))
      <4>1. n + i \in 1 .. Len(Left) /\ m + (n + i) = (m + n) + i
        BY <3>3, <3>6
      <4>2. Left[n + i] = Top.rest[m + (n + i)]
        BY <3>4, <4>1
      <4> QED BY <3>3, <4>1, <4>2
    <3>9. Suffix(Keep(busy), Top.rest)
      BY <3>7, <3>8 DEF Suffix
    <3> QED BY <3>1, <3>9
  <2> QED BY <2>1, <2>2
<1>5. /\ produced' = produced /\ source' = source /\ held' = held /\ queue' = queue
      /\ file' = file /\ cursor' = cursor /\ half' = half
  BY ObservedRefusedMeans DEF agent
<1>6. Loses
  <2>1. \/ Suffix(observed'.events, observed.events)
        \/ \E k \in 1 .. Len(todo) : Suffix(observed'.events, todo[k].rest)
    BY <1>1, <1>4
  <2> QED BY <1>3, <1>5, <2>1 DEF Loses, Within
<1>7. Channel'
  BY <1>2, <1>5, <1>6, LoopsOfChannel DEF Channel
<1> QED BY <1>2, <1>6, <1>7

\* A new line, and a new completion, are younger than all there is.
LEMMA WriteLineOrder ==
  ASSUME Typed, Typed', Channel, Ordered, WriteLine
  PROVE  /\ Channel' /\ Ordered' /\ Members(queue') = {} /\ queue' = <<>>
         /\ Pend' \subseteq Pend \cup {[id |-> produced', seq |-> seq']}
         /\ Patient /\ observed' = observed /\ produced' = produced + 1
<1>1. PICK part \in {"line"} \cup Parts : Appended(part, produced')
  BY DEF WriteLine
<1>2. /\ produced \in Nat /\ produced' = produced + 1 /\ produced' \in Ids /\ seq' \in Nat
      /\ Len(file) \in Nat /\ produced' \in Nat
  BY Facts DEF WriteLine, Typed, MeterTyped, Ids
<1> DEFINE c == [id |-> produced', seq |-> seq', part |-> part]
<1>3. c \in Chunk /\ file' = Append(file, c) /\ c.id = produced' /\ c.seq = seq'
  BY <1>1, <1>2 DEF Chunk, Appended
<1> HIDE DEF c
<1>4. /\ Len(file') = Len(file) + 1 /\ DOMAIN file' = 1 .. Len(file) + 1
      /\ \A i \in 1 .. Len(file) : file'[i] = file[i]
      /\ file'[Len(file) + 1] = c
  BY <1>3, AppendChunk
<1>5. \A i \in 1 .. Len(file') : i \in 1 .. Len(file) \/ i = Len(file) + 1
  BY <1>2, <1>4
<1>6. /\ source' = source /\ held' = held /\ todo' = todo /\ observed' = observed
      /\ queue' = queue /\ cursor' = cursor /\ source = "log"
      /\ errors' = errors /\ skips' = skips /\ park' = park
  BY <1>1 DEF WriteLine, Appended, handle
<1>7. Channel'
  BY <1>6 DEF Channel
<1>8. queue' = <<>> /\ Members(queue') = {}
  BY <1>6 DEF Channel, Members
<1>9. ASSUME NEW e \in Pend' PROVE e \in Pend \/ e = [id |-> produced', seq |-> seq']
  <2>1. CASE e \in Members(observed.events) \/ \E k \in 1 .. Len(todo) : e \in Members(todo[k].rest)
    BY <2>1 DEF Pend
  <2>2. ASSUME NEW i \in Reach', e = At(i)' PROVE e \in Pend \/ e = [id |-> produced', seq |-> seq']
    <3>1. CASE i \in 1 .. Len(file)
      <4>1. i \in Reach /\ e = At(i)
        BY <1>4, <1>6, <2>2, <3>1 DEF Reach, First, Within, At
      <4> QED BY <4>1 DEF Pend
    <3>2. CASE i = Len(file) + 1
      BY <1>3, <1>4, <2>2, <3>2 DEF At
    <3> QED BY <1>5, <2>2, <3>1, <3>2 DEF Reach
  <2>3. \/ \E i \in Reach' : e = At(i)'
        \/ e \in Members(observed.events) \/ \E k \in 1 .. Len(todo) : e \in Members(todo[k].rest)
    BY <1>6 DEF Pend
  <2> QED BY <2>1, <2>2, <2>3
<1>10. DOMAIN file = 1 .. Len(file)
  BY Facts
<1>11. InOrderLines'
  <2> SUFFICES ASSUME NEW i \in 1 .. Len(file'), NEW j \in 1 .. Len(file'), First(i)', First(j)',
                      i < j
               PROVE  file'[i].id < file'[j].id
    BY <1>4 DEF InOrderLines
  <2>1. i \in 1 .. Len(file)
    BY <1>2, <1>4
  <2>2. CASE j \in 1 .. Len(file)
    BY <1>4, <1>10, <2>1, <2>2 DEF Ordered, InOrderLines, First
  <2>3. CASE j = Len(file) + 1
    <3>1. file[i].id <= produced /\ file'[i] = file[i] /\ file'[j].id = produced + 1
      BY <1>2, <1>3, <1>4, <2>1, <2>3 DEF Ordered, First
    <3>2. file[i].id \in Nat
      BY <2>1, Facts DEF Chunk, Ids
    <3> QED BY <1>2, <3>1, <3>2
  <2> QED BY <1>5, <2>2, <2>3
<1>12. (\A i \in 1 .. Len(file) : First(i) => file[i].id <= produced)'
  <2> SUFFICES ASSUME NEW i \in 1 .. Len(file'), First(i)' PROVE file'[i].id <= produced'
    OBVIOUS
  <2>1. CASE i \in 1 .. Len(file)
    <3>1. file[i].id <= produced /\ file'[i] = file[i] /\ file[i].id \in Nat
      BY <1>4, <2>1, Facts DEF Ordered, First, Chunk, Ids
    <3> QED BY <1>2, <3>1
  <2>2. CASE i = Len(file) + 1
    BY <1>2, <1>3, <1>4, <2>2
  <2> QED BY <1>5, <2>1, <2>2
<1>13. \A e \in Pend' : e.id <= produced'
  <2> SUFFICES ASSUME NEW e \in Pend PROVE e.id <= produced'
    BY <1>2, <1>9
  <2>1. e.id <= produced /\ produced \in Int
    BY <1>2 DEF Ordered
  <2>2. e.id \in Int
    BY PendEvents
  <2> QED BY <1>2, <2>1, <2>2
<1>14. \A k \in 1 .. Len(todo) : todo[k].op = "ingest" =>
         \A e \in Members(todo[k].rest), i \in 1 .. Len(file') :
           i > todo[k].to /\ file'[i].part # "rest" => e.id < file'[i].id
  <2> SUFFICES ASSUME NEW k \in 1 .. Len(todo), todo[k].op = "ingest",
                      NEW e \in Members(todo[k].rest), NEW i \in 1 .. Len(file'),
                      i > todo[k].to, file'[i].part # "rest"
               PROVE  e.id < file'[i].id
    OBVIOUS
  <2>1. CASE i \in 1 .. Len(file)
    BY <1>4, <2>1 DEF Ordered, First
  <2>2. CASE i = Len(file) + 1
    <3>1. e \in Pend
      BY DEF Pend
    <3>2. e.id <= produced /\ e.id \in Nat /\ file'[i].id = produced + 1
      BY <1>2, <1>3, <1>4, <2>2, <3>1, PendEvents DEF Ordered
    <3> QED BY <1>2, <3>2
  <2> QED BY <1>5, <2>1, <2>2
<1>15. Ordered'
  <2>1. Increasing(queue') /\ Increasing(observed'.events)
        /\ \A k \in 1 .. Len(todo') : Increasing(todo'[k].rest)
    BY <1>6 DEF Ordered
  <2>2. (\A k \in 1 .. Len(todo) : todo[k].op = "ingest" =>
           \A e \in Members(todo[k].rest), i \in 1 .. Len(file) :
             i > todo[k].to /\ First(i) => e.id < file[i].id)'
    BY <1>6, <1>14 DEF First
  <2> QED BY <1>8, <1>11, <1>12, <1>13, <2>1, <2>2 DEF Ordered
<1> QED BY <1>2, <1>6, <1>7, <1>8, <1>9, <1>15 DEF Patient

(* A forwarded completion is younger than all that are queued. *)
LEMMA ForwardOrder ==
  ASSUME Typed, Typed', Channel, Ordered, Forward
  PROVE  /\ Channel' /\ Ordered' /\ Pend' = Pend /\ produced' = produced + 1
         /\ Members(queue') = Members(queue) \cup {[id |-> produced']}
         /\ Patient /\ observed' = observed /\ UNCHANGED <<minted, rows, gen, stale>>
<1>1. /\ produced \in Nat /\ produced' = produced + 1 /\ produced' \in Ids /\ produced' \in Nat
      /\ queue \in Seq([id : Ids]) /\ queue' = Append(queue, [id |-> produced'])
  BY Facts DEF Forward, Typed, MeterTyped, Ids
<1>2. /\ Len(queue) \in Nat /\ Len(queue') = Len(queue) + 1
      /\ DOMAIN queue = 1 .. Len(queue) /\ DOMAIN queue' = 1 .. Len(queue) + 1
      /\ \A i \in 1 .. Len(queue) : queue'[i] = queue[i]
      /\ queue'[Len(queue) + 1] = [id |-> produced']
  <2>1. [id |-> produced'] \in [id : Ids]
    BY <1>1
  <2> QED BY <1>1, <2>1, AppendProperties, LenProperties
<1>3. \A i \in 1 .. Len(queue) + 1 : i \in 1 .. Len(queue) \/ i = Len(queue) + 1
  BY <1>2
<1>4. /\ source' = source /\ held' = held /\ todo' = todo /\ observed' = observed
      /\ file' = file /\ cursor' = cursor /\ half' = half /\ source = "observed"
      /\ errors' = errors /\ skips' = skips /\ park' = park
  BY DEF Forward, handle, losses
<1>5. Channel'
  BY <1>4 DEF Channel
<1>6. Members(queue') = Members(queue) \cup {[id |-> produced']}
  <2>1. Members(queue') = {queue'[i] : i \in 1 .. Len(queue) + 1}
    BY <1>2 DEF Members
  <2>2. Members(queue) = {queue[i] : i \in 1 .. Len(queue)}
    BY <1>2 DEF Members
  <2>3. Len(queue) + 1 \in 1 .. Len(queue) + 1 /\ \A i \in 1 .. Len(queue) : i \in 1 .. Len(queue) + 1
    BY <1>2
  <2> QED BY <1>2, <1>3, <2>1, <2>2, <2>3
<1>7. Pend' = Pend
  BY <1>4 DEF Pend, Reach, First, Within, At
<1>8. \A q \in Members(queue) : q.id <= produced /\ q.id \in Nat
  BY PendEvents DEF Ordered
<1>9. Increasing(queue')
  <2> SUFFICES ASSUME NEW i \in 1 .. Len(queue) + 1, NEW j \in 1 .. Len(queue) + 1, i < j
               PROVE  queue'[i].id < queue'[j].id
    BY <1>2 DEF Increasing
  <2>1. i \in 1 .. Len(queue)
    BY <1>2
  <2>2. CASE j \in 1 .. Len(queue)
    BY <1>2, <2>1, <2>2 DEF Ordered, Increasing
  <2>3. CASE j = Len(queue) + 1
    <3>1. queue[i] \in Members(queue)
      BY <1>2, <2>1 DEF Members
    <3>2. queue'[j].id = produced + 1 /\ queue'[i] = queue[i]
      BY <1>1, <1>2, <2>1, <2>3
    <3> QED BY <1>1, <1>8, <3>1, <3>2
  <2> QED BY <1>3, <2>2, <2>3
<1>10. /\ \A e \in Pend' : e.id <= produced'
       /\ \A q \in Members(queue') : q.id <= produced' /\ \A e \in Pend' : e.id < q.id
  <2>1. \A e \in Pend : e.id <= produced /\ e.id \in Nat
    BY PendEvents DEF Ordered
  <2>2. \A q \in Members(queue) : \A e \in Pend : e.id < q.id
    BY DEF Ordered
  <2>3. \A e \in Pend : e.id <= produced' /\ e.id < produced'
    BY <1>1, <2>1
  <2>4. \A q \in Members(queue) : q.id <= produced'
    BY <1>1, <1>8
  <2> QED BY <1>1, <1>6, <1>7, <2>2, <2>3, <2>4
<1>11. InOrderLines' /\ (\A i \in 1 .. Len(file) : First(i) => file[i].id <= produced)'
  <2>1. InOrderLines'
    BY <1>4 DEF Ordered, InOrderLines, First
  <2>2. ASSUME NEW i \in 1 .. Len(file), First(i) PROVE file[i].id <= produced'
    <3>1. file[i].id <= produced /\ file[i].id \in Nat
      BY <2>2, PendEvents DEF Ordered
    <3> QED BY <1>1, <3>1
  <2> QED BY <1>4, <2>1, <2>2 DEF First
<1>12. Ordered'
  <2>1. Increasing(observed'.events) /\ \A k \in 1 .. Len(todo') : Increasing(todo'[k].rest)
    BY <1>4 DEF Ordered
  <2>2. (\A k \in 1 .. Len(todo) : todo[k].op = "ingest" =>
           \A e \in Members(todo[k].rest), i \in 1 .. Len(file) :
             i > todo[k].to /\ First(i) => e.id < file[i].id)'
    BY <1>4 DEF First, Ordered
  <2> QED BY <1>9, <1>10, <1>11, <2>1, <2>2 DEF Ordered
<1> QED BY <1>1, <1>4, <1>5, <1>6, <1>7, <1>12 DEF Patient, Forward, handle

\* The drain of the queue: its loop holds what was parked and what was queued.
LEMMA ReadQueueOrder ==
  ASSUME Typed, Typed', Channel, Ordered, ReadQueue, source = "observed",
         todo' = <<ObsLoop>> \o Tail(todo), queue' = <<>>
  PROVE  /\ Channel' /\ Ordered' /\ Pend' \subseteq Pend \cup Members(Minted)
         /\ \A e \in Members(Minted) : \E q \in Members(queue) : e.id = q.id
         /\ Patient /\ observed' = observed
<1>1. /\ todo # <<>> /\ WellFormed(ObsLoop) /\ ObsLoop.op = "ingestObs"
      /\ ObsLoop.rest = Fetched /\ todo[1] = Top /\ Top.op = "obs"
      /\ UNCHANGED <<source, half, produced, file, held, cursor, park, observed, errors, skips>>
  BY ReadQueueMeans DEF losses
<1>2. file = <<>> /\ half = NoHalf /\ cursor = 0 /\ Len(file) = 0
  <2>1. file = <<>> /\ half = NoHalf /\ cursor = 0
    BY DEF Channel
  <2> QED BY <2>1, EmptySeq
<1>3. /\ Len(todo') \in Nat
      /\ \A k \in 1 .. Len(todo') : todo'[k] = ObsLoop \/ (k \in 1 .. Len(todo) /\ todo'[k] = todo[k])
  <2>1. todo \in Seq(FrameType) /\ ObsLoop \in FrameType
    BY <1>1 DEF Typed, Stack, Sound, WellFormed
  <2>2. <<ObsLoop>> \in Seq(FrameType) /\ Len(<<ObsLoop>>) = 1 /\ <<ObsLoop>>[1] = ObsLoop
    BY <2>1
  <2>3. todo' \in Seq(FrameType) /\ Spliced(todo', todo, 1, <<ObsLoop>>)
    BY <1>1, <2>1, <2>2, SpliceTop
  <2>4. Len(todo') \in Nat
    BY <2>3, LenProperties
  <2>5. \A k \in 1 .. Len(todo') : k = 1 \/ k \in 2 .. Len(todo')
    BY <2>4
  <2>6. todo'[1] = ObsLoop \/ Len(todo') = 0
    BY <2>2, <2>3, <2>4 DEF Spliced
  <2>7. ASSUME NEW k \in 2 .. Len(todo') PROVE k \in 1 .. Len(todo) /\ todo'[k] = todo[k]
    <3>1. k - 1 + 1 \in 2 .. Len(todo) /\ todo'[k] = todo[k - 1 + 1]
      BY <2>2, <2>3, <2>7 DEF Spliced
    <3>2. k - 1 + 1 = k
      OBVIOUS
    <3>3. k \in 2 .. Len(todo)
      BY <3>1, <3>2
    <3> QED BY <3>1, <3>2, <3>3
  <2>8. \A k \in 1 .. Len(todo') : k # 1 => k \in 2 .. Len(todo')
    BY <2>5
  <2>9. \A k \in 1 .. Len(todo') : Len(todo') # 0
    BY <2>4
  <2> QED BY <2>4, <2>6, <2>7, <2>8, <2>9
<1>4. Channel'
  BY <1>1, <1>2, <1>3 DEF Channel
<1>5. Reach' = {}
  BY <1>1, <1>2 DEF Reach
<1>6. Members(Fetched) = Members(observed.events) \cup Members(Minted)
  BY FetchedEvents
<1>7. ASSUME NEW e \in Pend' PROVE e \in Pend \cup Members(Minted)
  <2>1. \/ e \in Members(observed.events) \/ \E k \in 1 .. Len(todo') : e \in Members(todo'[k].rest)
    BY <1>1, <1>5, <1>7 DEF Pend
  <2>2. Members(observed.events) \subseteq Pend /\ \A k \in 1 .. Len(todo) : Members(todo[k].rest) \subseteq Pend
    BY DEF Pend
  <2> QED BY <1>1, <1>3, <1>6, <2>1, <2>2
<1>8. /\ Len(queue) \in Nat /\ DOMAIN queue = 1 .. Len(queue)
      /\ Minted \in Seq(Event) /\ Len(Minted) = Len(queue) /\ DOMAIN Minted = 1 .. Len(queue)
      /\ \A n \in 1 .. Len(queue) : Minted[n].id = queue[n].id /\ queue[n] \in Members(queue)
  <2>1. queue \in Seq([id : Ids]) /\ Minted \in Seq(Event) /\ Len(Minted) = Len(queue)
    BY FetchedEvents DEF Typed, MeterTyped
  <2>2. Len(queue) \in Nat /\ DOMAIN queue = 1 .. Len(queue)
    BY <2>1, LenProperties
  <2>3. DOMAIN Minted = 1 .. Len(queue)
    BY <2>1, LenProperties
  <2>4. \A n \in 1 .. Len(queue) : Minted[n].id = queue[n].id
    <3> TAKE n \in 1 .. Len(queue)
    <3>1. Minted[n] = [id |-> queue[n].id, seq |-> minted + n]
      BY FetchedEvents, SMT
    <3> QED BY <3>1
  <2> QED BY <2>1, <2>2, <2>3, <2>4 DEF Members
<1>9. \A e \in Members(Minted) : \E q \in Members(queue) : e.id = q.id
  BY <1>8 DEF Members
<1>10. Increasing(Fetched)
  <2> DEFINE m == Len(observed.events)
  <2>1. m \in Nat /\ Len(Fetched) = m + Len(queue) /\ DOMAIN Fetched = 1 .. Len(Fetched)
        /\ DOMAIN observed.events = 1 .. m
    <3>1. Fetched \in Seq(Event) /\ Len(Fetched) = m + Len(queue)
      BY FetchedEvents
    <3>2. observed.events \in Seq(Event)
      BY Blocks
    <3>3. DOMAIN Fetched = 1 .. Len(Fetched)
      BY <3>1, LenProperties
    <3>4. m \in Nat /\ DOMAIN observed.events = 1 .. m
      BY <3>2, LenProperties
    <3> QED BY <3>1, <3>3, <3>4
  <2>2. \A i \in 1 .. Len(Fetched) : Fetched[i] = IF i <= m THEN observed.events[i] ELSE Minted[i - m]
    BY FetchedEvents
  <2> HIDE DEF m
  <2>3. \A i \in 1 .. m : i \in 1 .. Len(Fetched) /\ Fetched[i] = observed.events[i]
                          /\ observed.events[i] \in Members(observed.events)
    <3>1. \A i \in 1 .. m : i \in 1 .. Len(Fetched) /\ i <= m
      BY <1>8, <2>1
    <3> QED BY <2>1, <2>2, <3>1 DEF Members
  <2>4. \A i \in 1 .. Len(Fetched) : i \in 1 .. m
           \/ (i - m \in 1 .. Len(queue) /\ Fetched[i] = Minted[i - m])
    <3>1. \A i \in 1 .. Len(Fetched) : i \in 1 .. m \/ (i - m \in 1 .. Len(queue) /\ ~(i <= m))
      BY <1>8, <2>1
    <3> QED BY <2>2, <3>1
  <2> SUFFICES ASSUME NEW i \in 1 .. Len(Fetched), NEW j \in 1 .. Len(Fetched), i < j
               PROVE  Fetched[i].id < Fetched[j].id
    BY <2>1 DEF Increasing
  <2>5. CASE j \in 1 .. m
    <3>1. i \in 1 .. m
      BY <2>1, <2>5
    <3>2. observed.events[i].id < observed.events[j].id
      BY <2>1, <2>5, <3>1 DEF Ordered, Increasing
    <3> QED BY <2>3, <2>5, <3>1, <3>2
  <2>6. CASE j \notin 1 .. m /\ i \in 1 .. m
    <3>1. Fetched[j].id = queue[j - m].id /\ queue[j - m] \in Members(queue)
      BY <1>8, <2>4, <2>6
    <3>2. Fetched[i] \in Pend
      BY <2>3, <2>6 DEF Pend
    <3> QED BY <3>1, <3>2 DEF Ordered
  <2>7. CASE j \notin 1 .. m /\ i \notin 1 .. m
    <3>1. /\ Fetched[j].id = queue[j - m].id /\ Fetched[i].id = queue[i - m].id
          /\ i - m \in 1 .. Len(queue) /\ j - m \in 1 .. Len(queue)
      BY <1>8, <2>4, <2>7
    <3>2. i - m < j - m
      BY <2>1
    <3>3. queue[i - m].id < queue[j - m].id
      BY <1>8, <3>1, <3>2 DEF Ordered, Increasing
    <3> QED BY <3>1, <3>3
  <2> QED BY <2>5, <2>6, <2>7
<1>11. \A e \in Pend' : e.id <= produced
  BY <1>7, <1>9 DEF Ordered
<1>12. Ordered'
  <2>1. InOrderLines' /\ (\A i \in 1 .. Len(file) : First(i) => file[i].id <= produced)'
    BY <1>1 DEF Ordered, InOrderLines, First
  <2>2. Increasing(queue') /\ Members(queue') = {}
    BY EmptySeq DEF Increasing, Members
  <2>3. Increasing(observed'.events) /\ \A k \in 1 .. Len(todo') : Increasing(todo'[k].rest)
    BY <1>1, <1>3, <1>10 DEF Ordered
  <2>4. (\A k \in 1 .. Len(todo) : todo[k].op = "ingest" =>
           \A e \in Members(todo[k].rest), i \in 1 .. Len(file) :
             i > todo[k].to /\ First(i) => e.id < file[i].id)'
    BY <1>1, <1>2
  <2> QED BY <1>1, <1>11, <2>1, <2>2, <2>3, <2>4 DEF Ordered
<1>13. Patient
  BY <1>1 DEF Patient
<1> QED BY <1>1, <1>4, <1>7, <1>9, <1>12, <1>13

-----------------------------------------------------------------------------
(* Refusals and skips *)

\* What k skips have cost beyond the first refusal, and what the event that is
\* parked has cost since.
Spent(k) == k * (ParkMax - 1)
Failed == IF source = "log" THEN park.attempts ELSE observed.attempts
Count(e, s, n) ==
  /\ e = MaxErrors \/ e >= Spent(s) + n
  /\ s > 0 => e >= Spent(s) + 1

\* Every skip is of an event older than all that is pending or queued.
Low(m) == /\ skips <= m /\ \A e \in Pend : e.id > m
          /\ \A q \in Members(queue) : q.id > m
Room == \E m \in 0 .. produced : Low(m)
Thrift == Room /\ Count(errors, skips, Failed) /\ (~held => park = NoPark)

\* The saturated counter covers the skips there is room for.
LEMMA Saturated ==
  ASSUME Typed, NEW s \in 1 .. MaxEvents
  PROVE  MaxErrors >= Spent(s) + 1 /\ Spent(s) \in Nat
<1>1. MaxEvents \in Nat /\ ParkMax \in Nat /\ ParkMax >= 1 /\ s \in Nat /\ s <= MaxEvents /\ s >= 1
  BY Facts
<1> DEFINE p == ParkMax - 1
           d == MaxEvents - s
<1>2. p \in Nat /\ d \in Nat /\ ParkMax = p + 1 /\ MaxEvents = s + d
  BY <1>1
<1> HIDE DEF p, d
<1>3. s * p \in Nat /\ d * p \in Nat
  BY <1>1, <1>2
<1>4. MaxErrors = s * p + d * p + s + d
  <2>1. MaxErrors = (s + d) * (p + 1)
    BY <1>2 DEF MaxErrors
  <2>2. (s + d) * (p + 1) = s * p + d * p + s + d
    BY <1>1, <1>2
  <2> QED BY <2>1, <2>2
<1>5. Spent(s) = s * p
  BY <1>1, <1>2 DEF Spent
<1> QED BY <1>1, <1>2, <1>3, <1>4, <1>5

\* One more skip costs ParkMax - 1.
LEMMA SpentNext ==
  ASSUME Typed, NEW s \in Nat
  PROVE  Spent(s) \in Nat /\ Spent(s + 1) = Spent(s) + (ParkMax - 1)
<1>1. ParkMax \in Nat /\ ParkMax >= 1
  BY Facts
<1> DEFINE p == ParkMax - 1
<1>2. p \in Nat
  BY <1>1
<1> HIDE DEF p
<1>3. s * p \in Nat /\ (s + 1) * p = s * p + p
  BY <1>2
<1> QED BY <1>3 DEF Spent, p

\* A refusal that does not skip is paid for unless it is contention.
LEMMA CountStay ==
  ASSUME Typed, Typed', NEW s \in Nat, NEW n \in Nat, NEW t \in Nat, Count(errors, s, n),
         \/ errors' = errors /\ t <= n
         \/ errors' = Min2(errors + 1, MaxErrors) /\ t <= n + 1
  PROVE  Count(errors', s, t)
<1>0. errors \in 0 .. MaxErrors /\ errors' \in 0 .. MaxErrors /\ MaxErrors \in Nat
  BY Facts DEF Typed, MeterTyped
<1>1. errors \in 0 .. MaxErrors /\ errors' \in 0 .. MaxErrors /\ MaxErrors \in Nat /\ Spent(s) \in Nat
  <2>1. Spent(s) \in Nat
    BY SpentNext
  <2> QED BY <1>0, <2>1
<1>2. errors <= errors'
  BY <1>1 DEF Min2
<1>3. s > 0 => errors' >= Spent(s) + 1
  BY <1>1, <1>2 DEF Count
<1>4. errors' = MaxErrors \/ errors' >= Spent(s) + t
  BY <1>1 DEF Count, Min2
<1> QED BY <1>3, <1>4 DEF Count

\* A skip has been paid for by the attempts on the event it gives up.
LEMMA CountSkip ==
  ASSUME Typed, Typed', NEW s \in Nat, NEW n \in Nat, NEW t \in Nat, Count(errors, s, n),
         \/ errors' = errors /\ t <= n
         \/ errors' = Min2(errors + 1, MaxErrors) /\ t <= n + 1,
         t >= ParkMax, s + 1 <= MaxEvents, NEW u \in 0 .. 1
  PROVE  Count(errors', s + 1, u)
<1>1. errors \in 0 .. MaxErrors /\ errors' \in 0 .. MaxErrors /\ MaxErrors \in Nat
  BY Facts DEF Typed, MeterTyped
<1>2. Spent(s) \in Nat /\ Spent(s + 1) = Spent(s) + (ParkMax - 1) /\ ParkMax \in Nat /\ ParkMax >= 1
  <2>1. Spent(s) \in Nat /\ Spent(s + 1) = Spent(s) + (ParkMax - 1)
    BY SpentNext
  <2>2. ParkMax \in Nat /\ ParkMax >= 1
    BY Facts
  <2> QED BY <2>1, <2>2
<1>3. MaxErrors >= Spent(s + 1) + 1
  <2>1. s + 1 \in 1 .. MaxEvents
    BY Facts
  <2> QED BY <2>1, Saturated
<1>4. errors' = MaxErrors \/ errors' >= Spent(s) + ParkMax
  BY <1>1, <1>2 DEF Count, Min2
<1>5. errors' >= Spent(s + 1) + 1
  BY <1>1, <1>2, <1>3, <1>4
<1> QED BY <1>1, <1>2, <1>5 DEF Count

\* A loop of a tick is the only one.
LEMMA OnlyLoop ==
  ASSUME Typed, Doing("ingest") \/ Doing("ingestObs"), Top.mode = "mid", todo' = Tail(todo), Typed'
  PROVE  \A k \in 1 .. Len(todo') : todo'[k].op \notin Loops /\ Members(todo'[k].rest) = {}
<1>1. todo # <<>> /\ 1 \in 1 .. Len(todo) /\ todo[1] = Top
  BY Facts DEF Doing
<1>2. Spliced(todo', todo, 1, <<>>) /\ Len(todo') \in Nat /\ Len(todo) \in Nat
  <2>1. todo \in Seq(FrameType)
    BY DEF Typed, Stack, Sound
  <2>2. todo' \in Seq(FrameType) /\ Spliced(todo', todo, 1, <<>>)
    BY <1>1, <2>1, PopTop
  <2> QED BY <2>1, <2>2, LenProperties
<1>3. ASSUME NEW k \in 1 .. Len(todo') PROVE k + 1 \in 2 .. Len(todo) /\ todo'[k] = todo[k + 1]
  <2>1. Len(<<>>) = 0
    BY EmptySeq
  <2>2. k \in Len(<<>>) + 1 .. Len(todo')
    BY <2>1
  <2>3. k - Len(<<>>) + 1 \in 2 .. Len(todo) /\ todo'[k] = todo[k - Len(<<>>) + 1]
    BY <1>2, <2>2 DEF Spliced
  <2>4. k - Len(<<>>) + 1 = k + 1
    BY <2>1
  <2> QED BY <2>3, <2>4
<1>4. ASSUME NEW k \in 2 .. Len(todo) PROVE todo[k].op \notin Loops /\ Members(todo[k].rest) = {}
  <2>1. k \in 1 .. Len(todo) /\ 1 \in 1 .. k - 1
    BY <1>2
  <2>2. todo[k].op \notin Loops
    BY <1>1, <2>1 DEF Typed, Stack, Sound
  <2> QED BY <2>1, <2>2, Blocks
<1> QED BY <1>3, <1>4

\* A handle that goes takes its park along.
LEMMA ParkOfHandle ==
  ASSUME [Next]_vars, ~held => park = NoPark
  PROVE  (~held => park = NoPark)'
<1>1. CASE UNCHANGED vars \/ WriteLine \/ WriteRest \/ Forward \/ Exit \/ TailerPass
  <2>1. CASE WriteLine \/ WriteRest
    <3>1. \E part, id : Appended(part, id)
      BY <2>1 DEF WriteLine, WriteRest
    <3> QED BY <3>1 DEF Appended, handle
  <2>2. CASE UNCHANGED vars \/ Forward \/ Exit \/ TailerPass
    BY <2>2 DEF vars, handle, Forward, Exit, TailerPass
  <2> QED BY <1>1, <2>1, <2>2
<1>2. CASE Drain
  <2>1. CASE ReadTail \/ Commit \/ Advance \/ TruncateCheck
    BY <2>1 DEF ReadTail, Commit, Advance, TruncateCheck, handle
  <2>2. CASE Truncate \/ ReadQueue \/ ObservedDone
    BY <2>2 DEF Truncate, ReadQueue, ObservedDone
  <2>3. ASSUME NEW busy \in BOOLEAN, LogRefused(busy) PROVE (~held => park = NoPark)'
    BY <2>3, LogRefusedMeans
  <2>4. ASSUME NEW busy \in BOOLEAN, ObservedRefused(busy) PROVE (~held => park = NoPark)'
    BY <2>4, ObservedRefusedMeans
  <2> QED BY <1>2, <2>1, <2>2, <2>3, <2>4 DEF Drain
<1>3. CASE Kill \/ Drop \/ Tick \/ Stop \/ Reap \/ StopAgain
  BY <1>3 DEF Kill, Drop, Gone, Tick, Stop, Reap, StopAgain, handle
<1>4. CASE Launch \/ Crash \/ Adopt \/ Reconcile
  BY <1>4 DEF Launch, Crash, Adopt, Attach, Reconcile, handle
<1> QED BY <1>1, <1>2, <1>3, <1>4 DEF Next

\* No refusal: what was counted stays counted.
LEMMA PatientCount ==
  ASSUME Typed, Typed', Count(errors, skips, Failed), Patient, source' = source,
         observed' \in {observed, NonePending}
  PROVE  Count(errors', skips', Failed')
<1>1. /\ Failed \in Nat /\ Failed' \in Nat /\ skips \in Nat
  BY DEF Typed, MeterTyped, Failed
<1>2. NonePending.attempts = 0 /\ NoPark.attempts = 0
  BY NonePendingTyped, NoHalfTyped
<1>3. Failed' <= Failed
  <2>1. park'.attempts <= park.attempts
    <3>1. park'.attempts \in Nat /\ park.attempts \in Nat
      BY DEF Typed, MeterTyped
    <3> QED BY <1>2, <3>1 DEF Patient
  <2>2. observed'.attempts <= observed.attempts
    <3>1. observed'.attempts \in Nat /\ observed.attempts \in Nat
      BY DEF Typed, MeterTyped
    <3> QED BY <1>2, <3>1
  <2> QED BY <2>1, <2>2 DEF Failed
<1>4. errors' = errors /\ skips' = skips
  BY DEF Patient
<1> QED BY <1>1, <1>3, <1>4, CountStay

\* No skip: what is pending, or becomes it, is younger than what was skipped.
LEMMA RoomStays ==
  ASSUME Typed, Room, skips' = skips, produced' \in Nat, produced <= produced',
         \A e \in Pend' : e \in Pend \/ e.id = produced + 1 \/ \E q \in Members(queue) : e.id = q.id,
         \A q \in Members(queue') : q \in Members(queue) \/ q.id = produced + 1
  PROVE  Room'
<1>1. PICK m \in 0 .. produced : Low(m)
  BY DEF Room
<1>2. produced \in Nat
  BY DEF Typed, MeterTyped
<1>3. m \in 0 .. produced' /\ m \in Nat /\ m <= produced
  BY <1>2
<1>4. Low(m)'
  <2>1. ASSUME NEW q \in Members(queue') PROVE q.id > m
    <3>1. CASE q \in Members(queue)
      BY <1>1, <3>1 DEF Low
    <3>2. CASE q.id = produced + 1
      BY <1>2, <1>3, <3>2
    <3> QED BY <3>1, <3>2
  <2>2. ASSUME NEW e \in Pend' PROVE e.id > m
    <3>1. CASE e \in Pend \/ \E q \in Members(queue) : e.id = q.id
      BY <1>1, <3>1 DEF Low
    <3>2. CASE e.id = produced + 1
      BY <1>2, <1>3, <3>2
    <3> QED BY <2>2, <3>1, <3>2
  <2>3. skips' <= m
    BY <1>1 DEF Low
  <2> QED BY <2>1, <2>2, <2>3 DEF Low
<1> QED BY <1>3, <1>4 DEF Room

\* The event a loop offers next is pending.
LEMMA HeadPending ==
  ASSUME Typed, InLoop
  PROVE  /\ todo # <<>> /\ 1 \in 1 .. Len(todo) /\ todo[1] = Top
         /\ Top.rest \in Seq(Event) /\ Len(Top.rest) \in Nat /\ 1 \in DOMAIN Top.rest
         /\ Head(Top.rest) = Top.rest[1] /\ Head(Top.rest) \in Members(Top.rest)
         /\ Members(Top.rest) \subseteq Pend
<1>1. Doing("ingest") \/ Doing("ingestObs")
  BY DEF InLoop
<1>2. todo # <<>> /\ 1 \in 1 .. Len(todo) /\ todo[1] = Top
  BY <1>1, Facts DEF Doing
<1>3. Top.rest \in Seq(Event) /\ Top.rest # <<>>
  BY <1>1, LoopTop DEF InLoop
<1> DEFINE r == Top.rest
<1> HIDE DEF r
<1>4. r \in Seq(Event) /\ r # <<>>
  BY <1>3 DEF r
<1>5. Len(r) \in Nat /\ DOMAIN r = 1 .. Len(r) /\ 1 \in 1 .. Len(r) /\ Head(r) = r[1]
  BY <1>4, LenProperties, TailSuffix
<1>6. Head(r) \in Members(r)
  BY <1>5 DEF Members
<1>7. Members(Top.rest) \subseteq Pend
  BY <1>2 DEF Pend
<1> QED BY <1>2, <1>3, <1>5, <1>6, <1>7 DEF r

\* The drain of a tick skips its block once the attempts on it are spent.
LEMMA LogRefusedThrift ==
  ASSUME Typed, Typed', Channel, Ordered, Thrift, NEW busy \in BOOLEAN, LogRefused(busy)
  PROVE  Room' /\ Count(errors', skips', Failed')
<1>1. /\ Doing("ingest") /\ InLoop /\ todo' = Tail(todo) /\ todo # <<>>
      /\ UNCHANGED <<source, file, queue, produced, held, observed>>
  BY LogRefusedMeans DEF agent, Doing
<1>2. source = "log" /\ queue = <<>> /\ observed = NonePending
  <2>1. todo[1].op = "ingest" /\ 1 \in 1 .. Len(todo)
    BY <1>1, Facts DEF Doing, Top
  <2> QED BY <2>1 DEF Channel
<1> DEFINE t == LogTries(busy)
<1>3. park.attempts \in Nat /\ park'.attempts \in Nat /\ skips \in Nat /\ t \in Nat
      /\ \/ errors' = errors /\ t <= park.attempts
         \/ errors' = Min2(errors + 1, MaxErrors) /\ t <= park.attempts + 1
  <2>1. park.attempts \in Nat /\ park'.attempts \in Nat /\ skips \in Nat
    BY DEF Typed, MeterTyped
  <2>2. errors' = IF busy THEN errors ELSE Min2(errors + 1, MaxErrors)
    BY LogRefusedMeans
  <2> QED BY <2>1, <2>2 DEF LogTries, Attempts
<1> HIDE DEF t
<1>4. Failed = park.attempts /\ Failed' = park'.attempts
  BY <1>1, <1>2 DEF Failed
<1>5. CASE ~LogSkips(busy)
  <2>1. skips' = skips /\ \/ park' = park \/ park'.attempts = t
    BY <1>5, LogRefusedMeans DEF t
  <2>2. Count(errors', skips, park'.attempts)
    <3>1. CASE park' = park
      BY <1>3, <1>4, <3>1, CountStay DEF Thrift
    <3>2. CASE park'.attempts = t
      BY <1>3, <1>4, <3>2, CountStay DEF Thrift
    <3> QED BY <2>1, <3>1, <3>2
  <2>3. Pend' \subseteq Pend /\ Members(queue') \subseteq Members(queue)
    BY LogRefusedQuiet, QuietLoses, LosesPending
  <2>4. produced \in Nat
    BY DEF Typed, MeterTyped
  <2>5. Room'
    BY <1>1, <2>1, <2>3, <2>4, RoomStays DEF Thrift
  <2> QED BY <1>4, <2>1, <2>2, <2>5
<1>6. CASE LogSkips(busy)
  <2>1. /\ Top.mode = "mid" /\ t >= ParkMax /\ skips' = skips + 1
        /\ held => cursor' = Top.to
        /\ park' = IF ~held THEN park ELSE NoPark
    BY <1>6, LogRefusedMeans DEF LogSkips, GiveUp, t
  <2>2. park'.attempts = 0
    BY <2>1, NoHalfTyped DEF Thrift
  <2>3. PICK e \in Pend : e \in Members(Top.rest) /\ todo[1] = Top /\ 1 \in 1 .. Len(todo)
    BY <1>1, HeadPending
  <2>4. e.id \in Nat /\ e.id <= produced /\ produced \in 0 .. MaxEvents /\ MaxEvents \in Nat
    BY <2>3, PendEvents, Facts DEF Ordered, Typed, MeterTyped
  <2>5. skips + 1 <= e.id
    <3>1. PICK m \in 0 .. produced : Low(m)
      BY DEF Thrift, Room
    <3>2. skips <= m /\ e.id > m
      BY <2>3, <3>1 DEF Low
    <3> QED BY <1>3, <2>4, <3>1, <3>2
  <2>6. Count(errors', skips + 1, 0)
    <3>1. skips + 1 <= MaxEvents /\ 0 \in 0 .. 1
      BY <1>3, <2>4, <2>5
    <3>2. Count(errors, skips, park.attempts)
      BY <1>4 DEF Thrift
    <3> QED BY <1>3, <2>1, <3>1, <3>2, CountSkip
  <2>7. ASSUME NEW g \in Pend' PROVE g.id > e.id
    <3>1. \A k \in 1 .. Len(todo') : todo'[k].op # "ingest" /\ Members(todo'[k].rest) = {}
      BY <1>1, <2>1, OnlyLoop DEF Loops
    <3>2. Members(observed'.events) = {}
      BY <1>1, <1>2, NonePendingTyped, EmptySeq DEF Members
    <3>3. PICK i \in Reach' : g = At(i)'
      BY <2>7, <3>1, <3>2 DEF Pend
    <3>4. i \in 1 .. Len(file) /\ held /\ First(i) /\ i > Top.to
      BY <1>1, <2>1, <3>1, <3>3 DEF Reach, Within, First
    <3>5. e.id < file[i].id
      BY <1>1, <2>3, <3>4 DEF Ordered, Doing, Top
    <3>6. g.id = file[i].id /\ file[i].id \in Nat
      BY <1>1, <3>3, <3>4, PendEvents DEF At
    <3> QED BY <2>4, <3>5, <3>6
  <2>8. Members(queue') = {}
    BY <1>1, <1>2, EmptySeq DEF Members
  <2>9. Low(e.id)' /\ e.id \in 0 .. produced'
    <3>1. skips' <= e.id /\ e.id \in 0 .. produced'
      BY <1>1, <2>1, <2>4, <2>5
    <3> QED BY <2>7, <2>8, <3>1 DEF Low
  <2>10. Room'
    BY <2>9 DEF Room
  <2> QED BY <1>4, <2>1, <2>2, <2>6, <2>10
<1> QED BY <1>5, <1>6

\* What follows the first of an increasing sequence is younger.
LEMMA IncreasingTail ==
  ASSUME NEW t \in Seq(Event), t # <<>>, Increasing(t)
  PROVE  /\ Tail(t) \in Seq(Event) /\ Increasing(Tail(t))
         /\ \A g \in Members(Tail(t)) : Head(t).id < g.id
         /\ Head(t) \in Members(t) /\ Members(Tail(t)) \subseteq Members(t)
<1>1. /\ Len(t) \in Nat /\ DOMAIN t = 1 .. Len(t) /\ Head(t) = t[1] /\ Len(t) > 0
      /\ Tail(t) \in Seq(Event) /\ Suffix(Tail(t), t)
  BY LenProperties, TailSuffix
<1>2. /\ Len(Tail(t)) = Len(t) - 1 /\ \A i \in 1 .. Len(t) - 1 : Tail(t)[i] = t[i + 1]
  BY HeadTailProperties
<1>3. DOMAIN Tail(t) = 1 .. Len(t) - 1
  <2> DEFINE u == Tail(t)
  <2> HIDE DEF u
  <2>1. u \in Seq(Event) /\ Len(u) = Len(t) - 1
    BY <1>1, <1>2 DEF u
  <2> QED BY <2>1, LenProperties DEF u
<1>4. ASSUME NEW g \in Members(Tail(t)) PROVE Head(t).id < g.id
  <2>1. PICK i \in 1 .. Len(t) - 1 : g = Tail(t)[i]
    BY <1>3 DEF Members
  <2>2. 1 \in DOMAIN t /\ i + 1 \in DOMAIN t /\ 1 < i + 1
    BY <1>1
  <2>3. t[1].id < t[i + 1].id
    BY <2>2 DEF Increasing
  <2> QED BY <1>1, <1>2, <2>1, <2>3
<1>5. Head(t) \in Members(t)
  BY <1>1 DEF Members
<1> QED BY <1>1, <1>4, <1>5, SuffixKeeps

\* The drain of the queue skips the event that is refused again and again.
LEMMA ObservedRefusedThrift ==
  ASSUME Typed, Typed', Channel, Ordered, Thrift, NEW busy \in BOOLEAN, ObservedRefused(busy)
  PROVE  Room' /\ Count(errors', skips', Failed')
<1>1. /\ Doing("ingestObs") /\ InLoop /\ todo' = Tail(todo) /\ todo # <<>>
      /\ UNCHANGED <<source, file, queue, produced, held>>
      /\ observed' = IF Keep(busy) = <<>> \/ ~held THEN NonePending
                     ELSE [events |-> Keep(busy),
                           attempts |-> IF ObsSkips(busy) THEN 1 ELSE ObsTries(busy)]
      /\ skips' = IF ObsSkips(busy) THEN skips + 1 ELSE skips
      /\ errors' = IF busy THEN errors ELSE Min2(errors + 1, MaxErrors)
  BY ObservedRefusedMeans DEF agent, Doing
<1>2. source = "observed" /\ Channel' /\ Loses
  BY ObservedRefusedLoses
<1>3. file = <<>> /\ Len(file) = 0
  BY <1>2, EmptySeq DEF Channel
<1> DEFINE t == ObsTries(busy)
<1>4. observed.attempts \in Nat /\ observed'.attempts \in Nat /\ skips \in Nat /\ t \in Nat
      /\ \/ errors' = errors /\ t <= observed.attempts
         \/ errors' = Min2(errors + 1, MaxErrors) /\ t <= observed.attempts + 1
  <2>1. observed.attempts \in Nat /\ observed'.attempts \in Nat /\ skips \in Nat
    BY DEF Typed, MeterTyped
  <2> QED BY <1>1, <2>1 DEF ObsTries, Attempts
<1> HIDE DEF t
<1>5. Failed = observed.attempts /\ Failed' = observed'.attempts
  BY <1>1, <1>2 DEF Failed
<1>6. CASE ~ObsSkips(busy)
  <2>1. skips' = skips /\ observed'.attempts \in {0, t}
    <3>1. observed' \in {NonePending, [events |-> Keep(busy), attempts |-> t]}
      BY <1>1, <1>6 DEF t
    <3> QED BY <1>1, <1>6, <3>1, NonePendingTyped
  <2>2. Count(errors', skips, observed'.attempts)
    <3>1. CASE observed'.attempts = t
      BY <1>4, <1>5, <3>1, CountStay DEF Thrift
    <3>2. CASE observed'.attempts = 0
      <4>1. \/ errors' = errors /\ 0 <= observed.attempts
            \/ errors' = Min2(errors + 1, MaxErrors) /\ 0 <= observed.attempts + 1
        BY <1>4
      <4> QED BY <1>4, <1>5, <3>2, <4>1, CountStay DEF Thrift
    <3> QED BY <2>1, <3>1, <3>2
  <2>3. Pend' \subseteq Pend /\ Members(queue') \subseteq Members(queue)
    BY <1>2, LosesPending
  <2>4. produced \in Nat
    BY DEF Typed, MeterTyped
  <2>5. Room'
    BY <1>1, <2>1, <2>3, <2>4, RoomStays DEF Thrift
  <2> QED BY <1>5, <2>1, <2>2, <2>5
<1>7. CASE ObsSkips(busy)
  <2>1. /\ Left # <<>> /\ t >= ParkMax /\ skips' = skips + 1 /\ Keep(busy) = Tail(Left)
        /\ observed' = IF Tail(Left) = <<>> \/ ~held THEN NonePending
                       ELSE [events |-> Tail(Left), attempts |-> 1]
    BY <1>1, <1>7 DEF ObsSkips, GiveUp, t, Keep
  <2>2. observed'.attempts \in 0 .. 1 /\ observed'.events \in {<<>>, Tail(Left)}
    <3>1. observed' = NonePending
          \/ (observed'.events = Tail(Left) /\ observed'.attempts = 1)
      BY <2>1
    <3>2. NonePending.events = <<>> /\ NonePending.attempts = 0
      BY NonePendingTyped
    <3> QED BY <3>1, <3>2
  <2>3. /\ Left \in Seq(Event) /\ Suffix(Left, Top.rest) /\ Top.rest \in Seq(Event)
        /\ Members(Top.rest) \subseteq Pend /\ Increasing(Top.rest)
    <3>1. todo[1] = Top /\ 1 \in 1 .. Len(todo) /\ Top.rest \in Seq(Event)
          /\ Members(Top.rest) \subseteq Pend
      BY <1>1, HeadPending
    <3>2. Left \in Seq(Event) /\ Suffix(Left, Top.rest)
      BY <1>1, KeepBounds
    <3> QED BY <3>1, <3>2 DEF Ordered
  <2>4. Members(Left) \subseteq Pend /\ Increasing(Left)
    <3>1. Members(Left) \subseteq Members(Top.rest) /\ (Increasing(Top.rest) => Increasing(Left))
      BY <2>3, SuffixKeeps
    <3> QED BY <2>3, <3>1
  <2>5. PICK e \in Pend : \A g \in Members(Tail(Left)) : e.id < g.id /\ g \in Pend
    <3>1. /\ \A g \in Members(Tail(Left)) : Head(Left).id < g.id
          /\ Head(Left) \in Members(Left) /\ Members(Tail(Left)) \subseteq Members(Left)
      BY <2>1, <2>3, <2>4, IncreasingTail
    <3> QED BY <2>4, <3>1
  <2>6. e.id \in Nat /\ e.id <= produced /\ produced \in 0 .. MaxEvents /\ MaxEvents \in Nat
    BY PendEvents, Facts DEF Ordered, Typed, MeterTyped
  <2>7. skips + 1 <= e.id
    <3>1. PICK m \in 0 .. produced : Low(m)
      BY DEF Thrift, Room
    <3>2. skips <= m /\ e.id > m
      BY <3>1 DEF Low
    <3> QED BY <1>4, <2>6, <3>1, <3>2
  <2>8. Count(errors', skips + 1, observed'.attempts)
    <3>1. skips + 1 <= MaxEvents
      BY <1>4, <2>6, <2>7
    <3>2. Count(errors, skips, observed.attempts)
      BY <1>5 DEF Thrift
    <3> QED BY <1>4, <2>1, <2>2, <3>1, <3>2, CountSkip
  <2>9. ASSUME NEW g \in Pend' PROVE g.id > e.id
    <3>1. Top.mode = "mid"
      BY <1>1, <2>1, LoopTop DEF Left
    <3>2. \A k \in 1 .. Len(todo') : Members(todo'[k].rest) = {}
      BY <1>1, <3>1, OnlyLoop
    <3>3. Reach' = {}
      BY <1>1, <1>3 DEF Reach
    <3>4. g \in Members(observed'.events)
      BY <2>9, <3>2, <3>3 DEF Pend
    <3>5. g \in Members(Tail(Left))
      <4>1. Members(<<>>) = {}
        BY DEF Members
      <4> QED BY <2>2, <3>4, <4>1
    <3>6. e.id < g.id /\ g.id \in Nat
      BY <2>5, <3>5, PendEvents
    <3> QED BY <2>6, <3>6
  <2>10. \A q \in Members(queue') : q.id > e.id
    <3>1. \A q \in Members(queue) : e.id < q.id /\ q.id \in Nat
      BY PendEvents DEF Ordered
    <3> QED BY <1>1, <2>6, <3>1
  <2>11. Low(e.id)' /\ e.id \in 0 .. produced'
    <3>1. skips' <= e.id /\ e.id \in 0 .. produced'
      BY <1>1, <2>1, <2>6, <2>7
    <3> QED BY <2>9, <2>10, <3>1 DEF Low
  <2>12. Room'
    BY <2>11 DEF Room
  <2> QED BY <1>5, <2>1, <2>8, <2>12
<1> QED BY <1>6, <1>7

\* What keeps a parked event honest, together.
Metered == Typed /\ Channel /\ Ordered /\ Thrift

(* The initial state has no event anywhere. *)
LEMMA InitMetered ==
  ASSUME Init
  PROVE  Metered
<1>1. Typed
  BY InitTyped
<1>2. /\ file = <<>> /\ half = NoHalf /\ cursor = 0 /\ queue = <<>> /\ observed = NonePending
      /\ todo = <<>> /\ held = FALSE /\ park = NoPark /\ errors = 0 /\ skips = 0 /\ produced = 0
  BY DEF Init
<1>3. /\ Len(file) = 0 /\ Len(todo) = 0 /\ observed.events = <<>> /\ observed.attempts = 0
      /\ park.attempts = 0 /\ DOMAIN file = {} /\ 1 .. 0 = {} /\ Members(<<>>) = {}
      /\ DOMAIN queue = {} /\ DOMAIN observed.events = {}
  BY <1>2, EmptySeq, NonePendingTyped, NoHalfTyped DEF Members
<1>4. Channel
  BY <1>2, <1>3 DEF Channel
<1>5. Pend = {}
  BY <1>2, <1>3 DEF Pend, Reach
<1>6. Ordered
  BY <1>2, <1>3, <1>5 DEF Ordered, InOrderLines, Increasing
<1>7. Room
  <2>1. Low(0)
    BY <1>2, <1>3, <1>5 DEF Low
  <2>2. 0 \in 0 .. produced
    BY <1>2
  <2> QED BY <2>1, <2>2 DEF Room
<1>8. Count(errors, skips, Failed)
  <2>1. Spent(0) = 0
    BY Facts, <1>1 DEF Spent
  <2>2. Failed = 0
    BY <1>3 DEF Failed
  <2> QED BY <1>2, <2>1, <2>2 DEF Count
<1> QED BY <1>1, <1>2, <1>4, <1>6, <1>7, <1>8 DEF Metered, Thrift

\* A step that takes nothing on and refuses nothing.
LEMMA LosesMetered ==
  ASSUME Metered, Typed', Loses, Channel', Patient, observed' \in {observed, NonePending}
  PROVE  Channel' /\ Ordered' /\ Room' /\ Count(errors', skips', Failed')
<1>0. Typed /\ Channel /\ Ordered /\ Thrift
  BY DEF Metered
<1>1. Pend' \subseteq Pend /\ Members(queue') \subseteq Members(queue) /\ Ordered'
  BY <1>0, LosesPending, LosesOrdered
<1>2. produced' = produced /\ source' = source /\ skips' = skips
  BY DEF Loses, Patient
<1>3. produced \in Nat
  BY <1>0 DEF Typed, MeterTyped
<1>4. Room'
  BY <1>0, <1>1, <1>2, <1>3, RoomStays DEF Thrift
<1>5. Count(errors', skips', Failed')
  BY <1>0, <1>2, PatientCount DEF Thrift
<1> QED BY <1>1, <1>4, <1>5

\* A quiet step is one.
LEMMA QuietMetered ==
  ASSUME Metered, Typed', Quiet, Patient
  PROVE  Channel' /\ Ordered' /\ Room' /\ Count(errors', skips', Failed')
<1>0. Typed /\ Channel
  BY DEF Metered
<1>1. Loses /\ Channel'
  BY <1>0, QuietLoses, QuietChannel
<1>2. observed' \in {observed, NonePending}
  BY DEF Quiet
<1> QED BY <1>1, <1>2, LosesMetered

\* The steps that bring something new.
LEMMA NewMetered ==
  ASSUME Metered, Typed', WriteLine \/ Forward
         \/ (ReadQueue /\ source = "observed" /\ queue' = <<>> /\ todo' = <<ObsLoop>> \o Tail(todo))
  PROVE  Channel' /\ Ordered' /\ Room' /\ Count(errors', skips', Failed')
<1>0. Typed /\ Channel /\ Ordered /\ Thrift /\ produced \in Nat
  <2>1. Typed /\ Channel /\ Ordered /\ Thrift
    BY DEF Metered
  <2>2. produced \in Nat
    BY <2>1 DEF Typed, MeterTyped
  <2> QED BY <2>1, <2>2
<1>m. Members(<<>>) = {}
  BY DEF Members
<1>1. CASE WriteLine
  <2>1. /\ Channel' /\ Ordered' /\ Members(queue') = {}
        /\ Pend' \subseteq Pend \cup {[id |-> produced', seq |-> seq']}
        /\ Patient /\ observed' = observed /\ produced' = produced + 1
    BY <1>0, <1>1, WriteLineOrder
  <2>2. source' = source
    BY <1>1 DEF WriteLine, Appended
  <2>3. Count(errors', skips', Failed')
    BY <1>0, <2>1, <2>2, PatientCount DEF Thrift
  <2>4. \A e \in Pend' : e \in Pend \/ e.id = produced + 1
    BY <2>1
  <2>5. Room'
    BY <1>0, <2>1, <2>4, RoomStays DEF Thrift, Patient
  <2> QED BY <2>1, <2>3, <2>5
<1>2. CASE Forward
  <2>1. /\ Channel' /\ Ordered' /\ Pend' = Pend /\ produced' = produced + 1
        /\ Members(queue') = Members(queue) \cup {[id |-> produced']}
        /\ Patient /\ observed' = observed
    BY <1>0, <1>2, ForwardOrder
  <2>2. source' = source
    BY <1>2 DEF Forward
  <2>3. Count(errors', skips', Failed')
    BY <1>0, <2>1, <2>2, PatientCount DEF Thrift
  <2>4. \A q \in Members(queue') : q \in Members(queue) \/ q.id = produced + 1
    BY <2>1
  <2>5. Room'
    BY <1>0, <2>1, <2>4, RoomStays DEF Thrift, Patient
  <2> QED BY <2>1, <2>3, <2>5
<1>3. CASE ReadQueue /\ source = "observed" /\ queue' = <<>> /\ todo' = <<ObsLoop>> \o Tail(todo)
  <2>1. /\ Channel' /\ Ordered' /\ Pend' \subseteq Pend \cup Members(Minted)
        /\ \A e \in Members(Minted) : \E q \in Members(queue) : e.id = q.id
        /\ Patient /\ observed' = observed
    BY <1>0, <1>3, ReadQueueOrder
  <2>2. source' = source /\ produced' = produced /\ Members(queue') = {}
    BY <1>3, <1>m DEF ReadQueue
  <2>3. Count(errors', skips', Failed')
    BY <1>0, <2>1, <2>2, PatientCount DEF Thrift
  <2>4. \A e \in Pend' : e \in Pend \/ \E q \in Members(queue) : e.id = q.id
    BY <2>1
  <2>5. Room'
    BY <1>0, <2>1, <2>2, <2>4, RoomStays DEF Thrift, Patient
  <2> QED BY <2>1, <2>3, <2>5
<1> QED BY <1>1, <1>2, <1>3

(* Every step keeps the order of the events and the counts of refusals. *)
LEMMA NextMetered ==
  ASSUME Metered, [Next]_vars
  PROVE  Metered'
<1>0. Typed /\ Channel /\ Ordered /\ Thrift /\ Typed'
  BY NextTyped DEF Metered
<1>1. (~held => park = NoPark)'
  BY <1>0, ParkOfHandle DEF Thrift
<1> SUFFICES Channel' /\ Ordered' /\ Room' /\ Count(errors', skips', Failed')
  BY <1>0, <1>1 DEF Metered, Thrift
<1>2. CASE Exit \/ TailerPass \/ UNCHANGED vars
  BY <1>0, <1>2, OutsideQuiet, QuietMetered
<1>3. CASE WriteLine \/ Forward
  BY <1>0, <1>3, NewMetered
<1>4. CASE WriteRest
  BY <1>0, <1>4, WriteRestLoses, LosesMetered
<1>5. CASE ReadQueue
  <2>1. CASE Return
    BY <1>0, <1>5, <2>1, PopsQuiet, QuietMetered
  <2>2. CASE ~Return
    <3>1. source = "observed" /\ queue' = <<>> /\ todo' = <<ObsLoop>> \o Tail(todo)
      BY <1>0, <1>5, <2>2, ReadQueueMeans
    <3> QED BY <1>0, <1>5, <3>1, NewMetered
  <2> QED BY <2>1, <2>2
<1>6. CASE ReadTail \/ Commit \/ Advance \/ TruncateCheck
  <2>1. Quiet /\ Patient
    BY <1>0, <1>6, ReadTailQuiet, CommitQuiet, AdvanceQuiet, TruncateCheckQuiet
  <2> QED BY <1>0, <2>1, QuietMetered
<1>7. CASE Truncate \/ ObservedDone \/ Drop
  BY <1>0, <1>7, PopsQuiet, QuietMetered
<1>8. ASSUME NEW busy \in BOOLEAN, LogRefused(busy)
      PROVE  Channel' /\ Ordered' /\ Room' /\ Count(errors', skips', Failed')
  <2>1. Loses /\ Channel'
    BY <1>0, <1>8, LogRefusedQuiet, QuietLoses, QuietChannel
  <2>2. Ordered'
    BY <1>0, <2>1, LosesOrdered
  <2>3. Room' /\ Count(errors', skips', Failed')
    BY <1>0, <1>8, LogRefusedThrift
  <2> QED BY <2>1, <2>2, <2>3
<1>9. ASSUME NEW busy \in BOOLEAN, ObservedRefused(busy)
      PROVE  Channel' /\ Ordered' /\ Room' /\ Count(errors', skips', Failed')
  <2>1. Loses /\ Channel'
    BY <1>0, <1>9, ObservedRefusedLoses
  <2>2. Ordered'
    BY <1>0, <2>1, LosesOrdered
  <2>3. Room' /\ Count(errors', skips', Failed')
    BY <1>0, <1>9, ObservedRefusedThrift
  <2> QED BY <2>1, <2>2, <2>3
<1>10. CASE Kill
  BY <1>0, <1>10, KillQuiet, QuietMetered
<1>11. CASE Tick \/ Stop \/ Reap
  BY <1>0, <1>11, OperationQuiet, QuietMetered
<1>12. CASE StopAgain \/ Launch \/ Crash \/ Adopt \/ Reconcile
  BY <1>0, <1>12, EmptyQuiet, QuietMetered
<1> QED
  BY <1>2, <1>3, <1>4, <1>5, <1>6, <1>7, <1>8, <1>9, <1>10, <1>11, <1>12 DEF Next, Drain

\* Contention never costs usage: every mid-run skip has been paid for by
\* refusals that were not contention, ParkMax of them for the first.
THEOREM PatienceIsKept == Spec => []BusyNeverSkips
<1>1. Init => Metered
  BY InitMetered
<1>2. Metered /\ [Next]_vars => Metered'
  BY NextMetered
<1>3. Metered => BusyNeverSkips
  <2> SUFFICES ASSUME Metered, skips > 0
               PROVE  errors >= ParkMax + (skips - 1) * (ParkMax - 1)
    BY DEF BusyNeverSkips
  <2>1. skips \in Nat /\ ParkMax \in Nat /\ skips - 1 \in Nat
    BY Facts DEF Metered, Typed, MeterTyped
  <2>2. errors >= Spent(skips) + 1
    BY DEF Metered, Thrift, Count
  <2>3. Spent(skips - 1 + 1) = Spent(skips - 1) + (ParkMax - 1)
    BY <2>1, SpentNext DEF Metered
  <2>4. Spent(skips) = (skips - 1) * (ParkMax - 1) + (ParkMax - 1) /\ (skips - 1) * (ParkMax - 1) \in Int
    BY <2>1, <2>3 DEF Spent
  <2> QED BY <2>1, <2>2, <2>4
<1> QED BY <1>1, <1>2, <1>3, PTL DEF Spec

-----------------------------------------------------------------------------
(* The ledger *)

\* Only the loop under way holds events, and only while the handle is held: this
\* is what a breach in the middle of a block breaks.
RestOnTop ==
  /\ \A k \in 2 .. Len(todo) : todo[k].rest = <<>>
  /\ InLoop => held

\* The hypothesis: a commit that stops the instance is the last of its block.
BreachEndsBlock == InLoop /\ Breaches(Head(Top.rest)) => Len(Top.rest) = 1

(* A step that replaces the top frames keeps the others. *)
LEMMA SplicedRest ==
  ASSUME Typed, Typed', RestOnTop, NEW n \in 1 .. Len(todo), NEW pre, Len(pre) \in Nat,
         Spliced(todo', todo, n, pre), \A k \in 2 .. Len(pre) : pre[k].rest = <<>>,
         Len(pre) # 0 => pre[1].rest = <<>> \/ held'
  PROVE  RestOnTop'
<1>1. Len(todo') \in Nat /\ Len(todo) \in Nat
  BY Facts, LenProperties DEF Typed, Stack, Sound
<1>2. ASSUME NEW k \in 1 .. Len(todo'), k \notin 1 .. Len(pre) PROVE todo'[k].rest = <<>>
  <2>1. k \in Len(pre) + 1 .. Len(todo')
    BY <1>1, <1>2
  <2>2. PICK i \in n + 1 .. Len(todo) : todo'[k] = todo[i]
    BY <2>1 DEF Spliced
  <2>3. i \in 2 .. Len(todo)
    BY <1>1, <2>2
  <2> QED BY <2>2, <2>3 DEF RestOnTop
<1>3. ASSUME NEW k \in 2 .. Len(todo') PROVE todo'[k].rest = <<>>
  <2>1. CASE k \in 1 .. Len(pre)
    <3>1. k \in 2 .. Len(pre)
      BY <2>1
    <3> QED BY <2>1, <3>1 DEF Spliced
  <2>2. CASE k \notin 1 .. Len(pre)
    <3>1. k \in 1 .. Len(todo')
      BY <1>1
    <3> QED BY <1>2, <2>2, <3>1
  <2> QED BY <2>1, <2>2
<1>4. ASSUME InLoop' PROVE held'
  <2>1. todo' # <<>> /\ Head(todo').rest # <<>>
    BY <1>4 DEF InLoop, Doing, Top
  <2>2. todo'[1] = Head(todo') /\ 1 \in 1 .. Len(todo')
    <3>1. todo' \in Seq(FrameType)
      BY DEF Typed, Stack, Sound
    <3> QED BY <1>1, <2>1, <3>1, EmptySeq
  <2>3. CASE 1 \in 1 .. Len(pre)
    BY <2>1, <2>2, <2>3 DEF Spliced
  <2>4. CASE 1 \notin 1 .. Len(pre)
    BY <1>2, <2>1, <2>2, <2>4
  <2> QED BY <2>3, <2>4
<1> QED BY <1>3, <1>4 DEF RestOnTop

(* A return keeps the frames below. *)
LEMMA PopRest ==
  ASSUME Typed, Typed', RestOnTop, todo # <<>>, todo' = Tail(todo)
  PROVE  RestOnTop'
<1>1. Spliced(todo', todo, 1, <<>>)
  <2>1. todo \in Seq(FrameType)
    BY DEF Typed, Stack, Sound
  <2> QED BY <2>1, PopTop
<1> DEFINE pre == <<>>
<1>2. Len(pre) = 0 /\ Spliced(todo', todo, 1, pre)
  BY <1>1
<1> HIDE DEF pre
<1>3. /\ 1 \in 1 .. Len(todo) /\ Len(pre) \in Nat /\ \A k \in 2 .. Len(pre) : pre[k].rest = <<>>
      /\ Len(pre) # 0 => pre[1].rest = <<>> \/ held'
  BY <1>2, Facts
<1> QED BY <1>2, <1>3, SplicedRest

(* A call keeps them as well. *)
LEMMA PushRest ==
  ASSUME Typed, Typed', RestOnTop, todo # <<>>, NEW pre, Sound(pre), todo' = pre \o Tail(todo),
         \A k \in 2 .. Len(pre) : pre[k].rest = <<>>, pre[1].rest = <<>> \/ held'
  PROVE  RestOnTop'
<1>1. todo \in Seq(FrameType) /\ pre \in Seq(FrameType) /\ Len(pre) \in Nat
  BY LenProperties DEF Typed, Stack, Sound
<1>2. Spliced(todo', todo, 1, pre)
  BY <1>1, SpliceTop
<1>3. 1 \in 1 .. Len(todo)
  BY Facts
<1> QED BY <1>1, <1>2, <1>3, SplicedRest

\* A stack of new calls holds nothing.
LEMMA NewRest ==
  ASSUME Typed', \A k \in 1 .. Len(todo') : todo'[k].op \notin Loops
  PROVE  RestOnTop'
<1>1. Sound(todo') /\ Len(todo') \in Nat
  <2>1. Sound(todo') /\ todo' \in Seq(FrameType)
    BY DEF Typed, Stack, Sound
  <2> QED BY <2>1, LenProperties
<1>2. \A k \in 1 .. Len(todo') : todo'[k].rest = <<>>
  BY <1>1 DEF Sound, WellFormed
<1>3. \A k \in 2 .. Len(todo') : todo'[k].rest = <<>>
  BY <1>1, <1>2
<1>4. ~InLoop'
  <2> SUFFICES ASSUME todo' # <<>>, Head(todo').op \in Loops PROVE FALSE
    BY DEF InLoop, Doing, Loops
  <2>1. todo' \in Seq(FrameType)
    BY <1>1 DEF Sound
  <2>2. todo'[1] = Head(todo') /\ 1 \in 1 .. Len(todo')
    BY <1>1, <2>1, EmptySeq
  <2> QED BY <2>2
<1> QED BY <1>3, <1>4 DEF RestOnTop

\* A step that leaves stack and handle alone.
LEMMA SameRest ==
  ASSUME RestOnTop, todo' = todo, held' = held
  PROVE  RestOnTop'
BY DEF RestOnTop, InLoop, Doing, Top

\* The drain of the log takes its block on while the handle is held.
LEMMA ReadTailRest ==
  ASSUME Typed, Typed', RestOnTop, ReadTail
  PROVE  RestOnTop'
<1>1. todo # <<>> /\ Doing("log")
  BY DEF ReadTail, Doing
<1>2. CASE Return
  BY <1>1, <1>2, PopRest DEF Return
<1>3. CASE ~Return
  <2>1. held /\ cursor <= Len(file) /\ todo' = Reading \o Tail(todo)
    <3>1. cursor \in Nat /\ Len(file) \in Nat
      BY Facts DEF Typed, MeterTyped
    <3>2. held /\ ~(cursor > Len(file))
      BY <1>3 DEF ReadTail
    <3>3. todo' = Reading \o Tail(todo)
      BY <1>3, <3>2 DEF ReadTail, Reading, Block, DrainTo
    <3> QED BY <3>1, <3>2, <3>3
  <2>2. /\ DrainTo = cursor => Reading = <<Frame("trunc", Top.mode)>>
        /\ DrainTo # cursor => Reading = <<Block, Frame("trunc", Top.mode)>>
        /\ Sound(Reading)
    BY <1>1, <2>1, ReadTailFrames
  <2>3. Frame("trunc", Top.mode).rest = <<>>
    BY DEF Frame
  <2>4. \A k \in 2 .. Len(Reading) : Reading[k].rest = <<>>
    BY <2>2, <2>3
  <2>5. held'
    BY <2>1 DEF ReadTail
  <2> QED BY <1>1, <2>1, <2>2, <2>4, <2>5, PushRest
<1> QED BY <1>2, <1>3

\* A commit that stops the instance leaves an empty block behind its stop.
LEMMA CommitRest ==
  ASSUME Typed, Typed', RestOnTop, BreachEndsBlock, Commit
  PROVE  RestOnTop'
<1> DEFINE e == Head(Top.rest)
           after == [Top EXCEPT !.rest = Tail(@)]
           pre == (IF Breaches(e) THEN StopFrames ELSE <<>>) \o <<after>>
<1>1. /\ todo # <<>> /\ WellFormed(after) /\ after.op = Top.op /\ after.rest = Tail(Top.rest)
      /\ Top.op \in Loops /\ Top.rest \in Seq(Event) /\ Top.rest # <<>>
  BY AfterEvent DEF Commit, InLoop
<1>2. todo' = pre \o Tail(todo) /\ InLoop /\ held' = held
  BY DEF Commit, handle
<1>3. held'
  BY <1>2 DEF RestOnTop
<1>4. Breaches(e) => after.rest = <<>>
  <2> SUFFICES ASSUME Breaches(e) PROVE Tail(Top.rest) = <<>>
    BY <1>1
  <2>1. Len(Top.rest) = 1
    BY <1>2 DEF BreachEndsBlock
  <2> DEFINE u == Tail(Top.rest)
  <2>2. u \in Seq(Event) /\ Len(u) = 0
    BY <1>1, <2>1, HeadTailProperties
  <2> HIDE DEF u
  <2> QED BY <2>2, EmptySeq DEF u
<1> HIDE DEF e, after
<1>5. /\ Sound(pre) /\ \A k \in 2 .. Len(pre) : pre[k].rest = <<>>
  <2>1. CASE Breaches(e)
    <3>1. pre = StopFrames \o <<after>>
      BY <2>1
    <3>2. /\ Sound(pre) /\ Len(pre) = 6 /\ pre[6] = after
          /\ \A k \in 1 .. 5 : pre[k] = StopFrames[k]
      BY <1>1, <3>1, StopThen
    <3> HIDE DEF pre
    <3>3. \A k \in 1 .. 5 : pre[k].rest = <<>>
      BY <3>2, NewFrames DEF Frame
    <3>4. \A k \in 2 .. 6 : k \in 1 .. 5 \/ k = 6
      OBVIOUS
    <3> QED BY <1>4, <2>1, <3>2, <3>3, <3>4
  <2>2. CASE ~Breaches(e)
    <3>1. pre = <<after>>
      <4>1. <<after>> \in Seq({after})
        OBVIOUS
      <4> QED BY <2>2, <4>1, ConcatEmptySeq
    <3>2. Sound(pre) /\ Len(pre) = 1 /\ pre[1] = after
      BY <1>1, <3>1, OneFrame DEF Loops
    <3> HIDE DEF pre
    <3>3. \A k \in 2 .. Len(pre) : FALSE
      BY <3>2
    <3> QED BY <3>2, <3>3
  <2> QED BY <2>1, <2>2
<1> HIDE DEF pre
<1> QED BY <1>1, <1>2, <1>3, <1>5, PushRest

(* The check of the size keeps the blocks of the outer drains. *)
LEMMA TruncateCheckRest ==
  ASSUME Typed, Typed', RestOnTop, TruncateCheck
  PROVE  RestOnTop'
<1> DEFINE len == Len(file)
           due == held /\ len >= Cap /\ cursor >= len /\ TailerPast(tailer', len)
           cut == [Top EXCEPT !.op = "cut", !.to = len]
<1>1. /\ todo # <<>> /\ Top \in FrameType /\ WellFormed(Top) /\ Top.op = "trunc"
      /\ Len(file) \in Nat
  BY Facts DEF TruncateCheck, Doing, Top
<1>2. CASE due
  <2>1. todo' = <<cut>> \o Tail(todo)
    BY <1>2 DEF TruncateCheck
  <2>2. cut.op = "cut" /\ WellFormed(cut) /\ cut.rest = <<>>
    <3>1. /\ cut.op = "cut" /\ cut.to = Len(file) /\ cut.mode = Top.mode /\ cut.from = Top.from
          /\ cut.rest = Top.rest /\ cut \in FrameType
      BY <1>1 DEF FrameType
    <3> HIDE DEF cut
    <3> QED BY <1>1, <3>1 DEF WellFormed, Loops
  <2> HIDE DEF cut
  <2> DEFINE pre == <<cut>>
  <2>3. Sound(pre) /\ Len(pre) = 1 /\ pre[1] = cut /\ todo' = pre \o Tail(todo)
    BY <2>1, <2>2, OneFrame
  <2> HIDE DEF pre
  <2>4. \A k \in 2 .. Len(pre) : FALSE
    BY <2>3
  <2> QED BY <1>1, <2>2, <2>3, <2>4, PushRest
<1>3. CASE ~due
  <2>1. todo' = <<>> \o Tail(todo)
    BY <1>3 DEF TruncateCheck
  <2>2. Tail(todo) \in Seq(FrameType)
    BY <1>1, HeadTailProperties DEF Typed, Stack, Sound
  <2>3. todo' = Tail(todo)
    BY <2>1, <2>2, ConcatEmptySeq
  <2> QED BY <1>1, <2>3, PopRest
<1> QED BY <1>2, <1>3

(* The kill keeps the blocks of the outer drains. *)
LEMMA KillRest ==
  ASSUME Typed, Typed', RestOnTop, Kill
  PROVE  RestOnTop'
<1>1. todo # <<>> /\ Doing("kill") /\ row' = row
  BY DEF Kill, Doing
<1>2. CASE Return
  BY <1>1, <1>2, PopRest DEF Return
<1>3. CASE ~Return
  <2> DEFINE pre == <<>>
  <2>1. Spliced(todo', todo, 3, pre) /\ Len(todo) >= 3 /\ Len(todo) \in Nat /\ Len(pre) = 0
    BY <1>1, <1>3, PopThree, Facts DEF Kill
  <2> HIDE DEF pre
  <2>2. /\ 3 \in 1 .. Len(todo) /\ Len(pre) \in Nat /\ \A k \in 2 .. Len(pre) : pre[k].rest = <<>>
        /\ Len(pre) # 0 => pre[1].rest = <<>> \/ held'
    BY <2>1
  <2> QED BY <2>1, <2>2, SplicedRest
<1> QED BY <1>2, <1>3

(* When a breach ends its block, every step leaves the outer drains without  *)
(* events.                                                                   *)
LEMMA NextRest ==
  ASSUME Typed, Typed', RestOnTop, BreachEndsBlock, [Next]_vars
  PROVE  RestOnTop'
<1>1. CASE WriteLine \/ WriteRest \/ Forward \/ Exit \/ TailerPass \/ UNCHANGED vars
  <2>1. todo' = todo /\ held' = held
    <3>1. CASE WriteLine \/ WriteRest
      <4>1. \E part, id : Appended(part, id)
        BY <3>1 DEF WriteLine, WriteRest
      <4> QED BY <4>1 DEF Appended, handle
    <3>2. CASE Forward \/ Exit \/ TailerPass \/ UNCHANGED vars
      BY <3>2 DEF vars, handle, Forward, Exit, TailerPass
    <3> QED BY <1>1, <3>1, <3>2
  <2> QED BY <2>1, SameRest
<1>2. CASE ReadTail \/ Commit \/ TruncateCheck \/ Kill
  BY <1>2, ReadTailRest, CommitRest, TruncateCheckRest, KillRest
<1>3. CASE Advance \/ Truncate \/ ObservedDone \/ Drop
  <2>1. todo # <<>> /\ todo' = Tail(todo)
    BY <1>3 DEF Advance, Truncate, ObservedDone, Drop, Return, Doing
  <2> QED BY <2>1, PopRest
<1>4. ASSUME NEW busy \in BOOLEAN, LogRefused(busy) \/ ObservedRefused(busy) PROVE RestOnTop'
  <2>1. todo # <<>> /\ todo' = Tail(todo)
    BY <1>4, LogRefusedMeans, ObservedRefusedMeans DEF Doing
  <2> QED BY <2>1, PopRest
<1>5. CASE ReadQueue
  <2>1. CASE Return
    BY <1>5, <2>1, ReadQueueMeans, PopRest DEF Return
  <2>2. CASE ~Return
    <3>1. /\ todo # <<>> /\ todo' = <<ObsLoop>> \o Tail(todo) /\ held'
          /\ WellFormed(ObsLoop) /\ ObsLoop.op = "ingestObs"
      BY <1>5, <2>2, ReadQueueMeans
    <3> DEFINE pre == <<ObsLoop>>
    <3>2. Sound(pre) /\ Len(pre) = 1 /\ todo' = pre \o Tail(todo)
      BY <3>1, OneFrame
    <3> HIDE DEF pre
    <3>3. \A k \in 2 .. Len(pre) : FALSE
      BY <3>2
    <3> QED BY <3>1, <3>2, <3>3, PushRest
  <2> QED BY <2>1, <2>2
<1>6. CASE Tick \/ Stop \/ Reap
  <2>1. \A k \in 1 .. Len(todo') : todo'[k].op \notin Loops
    <3>1. CASE Tick
      BY <3>1, NewFrames DEF Tick, Frame, Loops
    <3>2. CASE Stop
      BY <3>2, NewFrames DEF Stop, Frame, Loops
    <3>3. CASE Reap
      BY <3>3, NewFrames DEF Reap, Frame, Loops
    <3> QED BY <1>6, <3>1, <3>2, <3>3
  <2> QED BY <2>1, NewRest
<1>7. CASE StopAgain \/ Launch \/ Crash \/ Adopt \/ Reconcile
  <2>1. todo' = <<>>
    BY <1>7 DEF StopAgain, Launch, Crash, Adopt, Reconcile, Attach, Ready
  <2> QED BY <2>1, NewRest
<1> QED BY <1>1, <1>2, <1>3, <1>4, <1>5, <1>6, <1>7 DEF Next, Drain

\* The number of the last event that the source has numbered.
LastSeq == IF source = "log" THEN seq ELSE minted

\* The events that are pending are numbered in the order of their ids.
SameOrder ==
  /\ \A e, f \in Pend : e.id <= f.id <=> e.seq <= f.seq
  /\ \A e \in Pend : e.seq <= LastSeq

\* A row of a pending event has the key that the event would be committed under,
\* and, unless the generation could not be advanced, is the only one that has.
Recorded ==
  \A e \in Pend, r \in rows :
    /\ r.id = e.id => r.gen = gen /\ r.seq = e.seq
    /\ ~stale /\ r.gen = gen /\ r.seq = e.seq => r.id = e.id

\* No row is ahead of what was produced and numbered; what is queued has none.
Behind ==
  /\ \A r \in rows : /\ r.gen <= gen /\ r.id <= produced
                     /\ ~stale /\ r.gen = gen => r.seq <= LastSeq
  /\ \A q \in Members(queue), r \in rows : r.id # q.id

Keys == SameOrder /\ Recorded /\ Behind

(* Ids, generations and sequence numbers are naturals. *)
LEMMA LedgerTypes ==
  ASSUME Typed
  PROVE  /\ produced \in Nat /\ gen \in Nat /\ seq \in Nat /\ minted \in Nat /\ LastSeq \in Nat
         /\ \A r \in rows : r.gen \in Nat /\ r.seq \in Nat /\ r.id \in Nat /\ r.id \in Ids
         /\ \A e \in Pend : e.id \in Nat /\ e.seq \in Nat
<1>1. produced \in Nat /\ gen \in Nat /\ seq \in Nat /\ minted \in Nat
  BY Facts DEF Typed, MeterTyped
<1>2. \A r \in rows : r.gen \in Nat /\ r.seq \in Nat /\ r.id \in Nat /\ r.id \in Ids
  <2>1. rows \subseteq [gen : 0 .. MaxGen, seq : Nat, id : Ids]
    BY DEF Typed, MeterTyped
  <2>2. 0 .. MaxGen \subseteq Nat /\ Ids \subseteq Nat
    BY Facts DEF Ids
  <2> QED BY <2>1, <2>2
<1>3. \A e \in Pend : e.id \in Nat /\ e.seq \in Nat
  BY PendEvents
<1> QED BY <1>1, <1>2, <1>3 DEF LastSeq

\* A step that only loses keeps the keys apart.
LEMMA KeysLose ==
  ASSUME Keys, Pend' \subseteq Pend, Members(queue') \subseteq Members(queue),
         rows' = rows, gen' = gen, stale' = stale, LastSeq' = LastSeq, produced' = produced
  PROVE  Keys'
BY DEF Keys, SameOrder, Recorded, Behind

\* A commit records the event under its key.
LEMMA KeysCommit ==
  ASSUME Metered, Typed', Keys, NoDoubleCount, RestOnTop, Commit
  PROVE  Keys' /\ NoDoubleCount'
<1>0. Typed /\ Ordered
  BY DEF Metered
<1>1. InLoop /\ held
  BY DEF Commit, RestOnTop
<1>2. PICK e \in Pend : e = Head(Top.rest)
  BY <1>0, <1>1, HeadPending
<1> DEFINE new == [gen |-> gen, seq |-> e.seq, id |-> e.id]
<1>3. /\ rows' = IF \E r \in rows : r.gen = gen /\ r.seq = e.seq THEN rows ELSE rows \cup {new}
      /\ UNCHANGED <<source, seq, queue, gen, stale, produced, minted>>
  BY <1>1, <1>2 DEF Commit, Replay, Key, agent, handle
<1>4. Pend' \subseteq Pend /\ Members(queue') \subseteq Members(queue)
  <2>1. Channel
    BY DEF Metered
  <2> QED BY <1>0, <2>1, CommitQuiet, QuietLoses, LosesPending
<1>5. LastSeq' = LastSeq
  BY <1>3 DEF LastSeq
<1>6. CASE rows' = rows
  BY <1>3, <1>4, <1>5, <1>6, KeysLose DEF NoDoubleCount
<1>7. CASE rows' = rows \cup {new} /\ \A r \in rows : ~(r.gen = gen /\ r.seq = e.seq)
  <2>1. new.gen = gen /\ new.seq = e.seq /\ new.id = e.id
    OBVIOUS
  <2> HIDE DEF new
  <2>2. \A r \in rows : r.id # e.id
    BY <1>7 DEF Keys, Recorded
  <2>3. NoDoubleCount'
    BY <1>7, <2>1, <2>2 DEF NoDoubleCount
  <2>4. SameOrder'
    BY <1>4, <1>5 DEF Keys, SameOrder
  <2>5. ASSUME NEW f \in Pend
        PROVE  /\ new.id = f.id => new.gen = gen /\ new.seq = f.seq
               /\ new.gen = gen /\ new.seq = f.seq => new.id = f.id
    <3>1. e.id <= f.id <=> e.seq <= f.seq
      BY DEF Keys, SameOrder
    <3>2. f.id <= e.id <=> f.seq <= e.seq
      BY DEF Keys, SameOrder
    <3>3. e.id \in Nat /\ e.seq \in Nat /\ f.id \in Nat /\ f.seq \in Nat
      BY <1>0, LedgerTypes
    <3> QED BY <2>1, <3>1, <3>2, <3>3
  <2>6. Recorded'
    BY <1>3, <1>4, <1>7, <2>5 DEF Keys, Recorded
  <2>7. new.gen <= gen /\ new.id <= produced /\ new.seq <= LastSeq
    <3>1. e.id <= produced /\ e.seq <= LastSeq /\ gen \in Nat
      BY <1>0, LedgerTypes DEF Ordered, Keys, SameOrder
    <3> QED BY <2>1, <3>1
  <2>8. ASSUME NEW q \in Members(queue) PROVE new.id # q.id
    <3>1. e.id < q.id /\ e.id \in Nat
      BY <1>0, LedgerTypes DEF Ordered
    <3> QED BY <2>1, <3>1
  <2>9. Behind'
    BY <1>3, <1>4, <1>5, <1>7, <2>7, <2>8 DEF Keys, Behind
  <2> QED BY <2>3, <2>4, <2>6, <2>9 DEF Keys
<1> QED BY <1>3, <1>6, <1>7

\* A new line has the next number.
LEMMA KeysWriteLine ==
  ASSUME Metered, Typed', Keys, WriteLine
  PROVE  Keys' /\ rows' = rows
<1>0. Typed /\ Ordered /\ Channel
  BY DEF Metered
<1>1. /\ Members(queue') = {} /\ produced' = produced + 1
      /\ Pend' \subseteq Pend \cup {[id |-> produced', seq |-> seq']}
  BY <1>0, WriteLineOrder
<1>2. source = "log" /\ seq' = seq + 1 /\ UNCHANGED <<source, gen, stale, rows>>
  BY DEF WriteLine, Appended, handle
<1>3. LastSeq = seq /\ LastSeq' = seq + 1
  BY <1>2 DEF LastSeq
<1>4. /\ produced \in Nat /\ seq \in Nat
      /\ \A e \in Pend : e.id \in Nat /\ e.seq \in Nat /\ e.id <= produced /\ e.seq <= seq
      /\ \A r \in rows : r.gen \in Nat /\ r.seq \in Nat /\ r.id \in Nat /\ r.id <= produced
                         /\ (~stale /\ r.gen = gen => r.seq <= seq)
  BY <1>0, <1>3, LedgerTypes DEF Ordered, Keys, SameOrder, Behind
<1> DEFINE new == [id |-> produced', seq |-> seq']
<1>5. new.id = produced + 1 /\ new.seq = seq + 1
  BY <1>1, <1>2
<1>6. Pend' \subseteq Pend \cup {new}
  BY <1>1
<1> HIDE DEF new
<1>7. SameOrder'
  <2>1. ASSUME NEW e \in Pend', NEW f \in Pend' PROVE e.id <= f.id <=> e.seq <= f.seq
    <3>1. CASE e \in Pend /\ f \in Pend
      BY <3>1 DEF Keys, SameOrder
    <3>2. CASE e \in Pend /\ f = new
      BY <1>4, <1>5, <3>2
    <3>3. CASE e = new /\ f \in Pend
      BY <1>4, <1>5, <3>3
    <3>4. CASE e = new /\ f = new
      BY <1>4, <1>5, <3>4
    <3> QED BY <1>6, <3>1, <3>2, <3>3, <3>4
  <2>2. \A e \in Pend' : e.seq <= seq + 1
    BY <1>4, <1>5, <1>6
  <2> QED BY <1>3, <2>1, <2>2 DEF SameOrder
<1>8. Recorded'
  <2>1. ASSUME NEW r \in rows
        PROVE  r.id # new.id /\ ~(~stale /\ r.gen = gen /\ r.seq = new.seq)
    BY <1>4, <1>5
  <2> QED BY <1>2, <1>6, <2>1 DEF Keys, Recorded
<1>9. Behind'
  <2>1. \A r \in rows : r.id <= produced + 1 /\ (~stale /\ r.gen = gen => r.seq <= seq + 1)
    BY <1>4
  <2> QED BY <1>1, <1>2, <1>3, <2>1 DEF Keys, Behind
<1> QED BY <1>2, <1>7, <1>8, <1>9 DEF Keys

\* A new completion has no number yet, and no row.
LEMMA KeysForward ==
  ASSUME Metered, Typed', Keys, Forward
  PROVE  Keys' /\ rows' = rows
<1>0. Typed /\ Ordered /\ Channel
  BY DEF Metered
<1>1. /\ Pend' = Pend /\ produced' = produced + 1
      /\ Members(queue') = Members(queue) \cup {[id |-> produced']}
  BY <1>0, ForwardOrder
<1>2. UNCHANGED <<source, seq, gen, stale, rows, minted>>
  BY DEF Forward, handle
<1>3. LastSeq' = LastSeq
  BY <1>2 DEF LastSeq
<1>4. \A r \in rows : r.id \in Nat /\ r.id <= produced /\ r.id <= produced + 1 /\ r.id # produced + 1
  <2>1. produced \in Nat /\ \A r \in rows : r.id \in Nat /\ r.id <= produced
    BY <1>0, LedgerTypes DEF Keys, Behind
  <2> QED BY <2>1
<1>5. \A q \in Members(queue') : q \in Members(queue) \/ q.id = produced + 1
  BY <1>1
<1>6. SameOrder' /\ Recorded'
  BY <1>1, <1>2, <1>3 DEF Keys, SameOrder, Recorded
<1>7. Behind'
  BY <1>1, <1>2, <1>3, <1>4, <1>5 DEF Keys, Behind
<1> QED BY <1>2, <1>6, <1>7 DEF Keys

\* The drain of the queue numbers what it takes in the order of the queue.
LEMMA KeysReadQueue ==
  ASSUME Metered, Typed', Keys, ReadQueue, source = "observed", queue' = <<>>,
         todo' = <<ObsLoop>> \o Tail(todo), minted' = minted + Len(queue)
  PROVE  Keys' /\ rows' = rows
<1>0. Typed /\ Ordered /\ Channel
  BY DEF Metered
<1>1. Pend' \subseteq Pend \cup Members(Minted)
  BY <1>0, ReadQueueOrder
<1>2. UNCHANGED <<source, gen, stale, rows, produced>>
  BY DEF ReadQueue
<1>3. LastSeq = minted /\ LastSeq' = minted + Len(queue) /\ minted \in Nat /\ Len(queue) \in Nat
  BY <1>0, <1>2, LedgerTypes, Facts DEF LastSeq
<1>4. /\ \A e \in Pend : e.id \in Nat /\ e.seq \in Nat /\ e.seq <= minted
      /\ \A r \in rows : r.gen \in Nat /\ r.seq \in Nat /\ r.id \in Nat
                         /\ (~stale /\ r.gen = gen => r.seq <= minted)
  BY <1>0, <1>3, LedgerTypes DEF Keys, SameOrder, Behind
<1>5. \A e \in Members(Minted) :
        \E n \in 1 .. Len(queue) : /\ e.id = queue[n].id /\ e.seq = minted + n
                                   /\ queue[n] \in Members(queue) /\ queue[n].id \in Nat
  <2>1. Minted \in Seq(Event) /\ Len(Minted) = Len(queue)
    BY <1>0, FetchedEvents
  <2>2. DOMAIN Minted = 1 .. Len(queue)
    BY <2>1, LenProperties
  <2>3. queue \in Seq([id : Ids])
    BY <1>0 DEF Typed, MeterTyped
  <2>4. DOMAIN queue = 1 .. Len(queue)
    BY <2>3, LenProperties
  <2> SUFFICES ASSUME NEW n \in 1 .. Len(queue)
               PROVE  /\ Minted[n].id = queue[n].id /\ Minted[n].seq = minted + n
                      /\ queue[n] \in Members(queue) /\ queue[n].id \in Nat
    BY <2>2 DEF Members
  <2>5. Minted[n] = [id |-> queue[n].id, seq |-> minted + n]
    BY <1>0, FetchedEvents, SMT
  <2>6. queue[n] \in Members(queue)
    BY <2>4 DEF Members
  <2>7. queue[n].id \in Nat
    BY <1>0, <2>6, PendEvents
  <2> QED BY <2>5, <2>6, <2>7
<1>6. \A m, n \in 1 .. Len(queue) : m < n => queue[m].id < queue[n].id
  <2>1. queue \in Seq([id : Ids])
    BY <1>0 DEF Typed, MeterTyped
  <2>2. DOMAIN queue = 1 .. Len(queue)
    BY <2>1, LenProperties
  <2> QED BY <1>0, <2>2 DEF Ordered, Increasing
<1>7. \A e \in Pend, q \in Members(queue) : e.id < q.id
  BY <1>0 DEF Ordered
<1>8. SameOrder'
  <2>1. ASSUME NEW e \in Pend', NEW f \in Pend' PROVE e.id <= f.id <=> e.seq <= f.seq
    <3>1. CASE e \in Pend /\ f \in Pend
      BY <3>1 DEF Keys, SameOrder
    <3>2. CASE e \in Pend /\ f \in Members(Minted)
      <4>1. PICK n \in 1 .. Len(queue) : /\ f.id = queue[n].id /\ f.seq = minted + n
                                         /\ queue[n] \in Members(queue) /\ queue[n].id \in Nat
        BY <1>5, <3>2
      <4>2. e.id < f.id
        BY <1>7, <3>2, <4>1
      <4>3. e.seq < f.seq
        BY <1>3, <1>4, <3>2, <4>1
      <4> QED BY <1>3, <1>4, <3>2, <4>1, <4>2, <4>3
    <3>3. CASE e \in Members(Minted) /\ f \in Pend
      <4>1. PICK n \in 1 .. Len(queue) : /\ e.id = queue[n].id /\ e.seq = minted + n
                                         /\ queue[n] \in Members(queue) /\ queue[n].id \in Nat
        BY <1>5, <3>3
      <4>2. f.id < e.id
        BY <1>7, <3>3, <4>1
      <4>3. f.seq < e.seq
        BY <1>3, <1>4, <3>3, <4>1
      <4> QED BY <1>3, <1>4, <3>3, <4>1, <4>2, <4>3
    <3>4. CASE e \in Members(Minted) /\ f \in Members(Minted)
      <4>1. PICK m \in 1 .. Len(queue) : e.id = queue[m].id /\ e.seq = minted + m /\ e.id \in Nat
        BY <1>5, <3>4
      <4>2. PICK n \in 1 .. Len(queue) : f.id = queue[n].id /\ f.seq = minted + n /\ f.id \in Nat
        BY <1>5, <3>4
      <4>3. (m < n => e.id < f.id) /\ (n < m => f.id < e.id) /\ (m = n => e.id = f.id)
        BY <1>6, <4>1, <4>2
      <4>4. e.seq <= f.seq <=> m <= n
        BY <1>3, <4>1, <4>2
      <4>5. m < n \/ n < m \/ m = n
        OBVIOUS
      <4>6. e.id <= f.id <=> m <= n
        BY <4>1, <4>2, <4>3, <4>5
      <4> QED BY <4>4, <4>6
    <3> QED BY <1>1, <3>1, <3>2, <3>3, <3>4
  <2>2. ASSUME NEW e \in Pend' PROVE e.seq <= LastSeq'
    <3>1. CASE e \in Pend
      BY <1>3, <1>4, <3>1
    <3>2. CASE e \in Members(Minted)
      BY <1>3, <1>5, <3>2
    <3> QED BY <1>1, <3>1, <3>2
  <2> QED BY <2>1, <2>2 DEF SameOrder
<1>9. Recorded'
  <2>1. ASSUME NEW e \in Members(Minted), NEW r \in rows
        PROVE  r.id # e.id /\ ~(~stale /\ r.gen = gen /\ r.seq = e.seq)
    <3>1. PICK n \in 1 .. Len(queue) : /\ e.id = queue[n].id /\ e.seq = minted + n
                                       /\ queue[n] \in Members(queue)
      BY <1>5
    <3>2. r.id # e.id
      BY <3>1 DEF Keys, Behind
    <3>3. ~(~stale /\ r.gen = gen /\ r.seq = e.seq)
      BY <1>3, <1>4, <3>1
    <3> QED BY <3>2, <3>3
  <2> QED BY <1>1, <1>2, <2>1 DEF Keys, Recorded
<1>10. Behind'
  <2>1. Members(queue') = {}
    BY DEF Members
  <2>2. \A r \in rows : ~stale /\ r.gen = gen => r.seq <= minted + Len(queue)
    BY <1>3, <1>4
  <2> QED BY <1>2, <1>3, <2>1, <2>2 DEF Keys, Behind
<1> QED BY <1>2, <1>8, <1>9, <1>10 DEF Keys

\* A fresh handle has nothing pending, and a generation of its own: if it could
\* not have one, it is marked as stale.
LEMMA KeysAttach ==
  ASSUME Metered, Typed', Keys, Launch \/ Adopt
  PROVE  Keys' /\ rows' = rows
<1>0. Typed
  BY DEF Metered
<1>1. /\ rows' = rows /\ produced' = produced /\ todo' = todo /\ todo = <<>> /\ file' = file
      /\ observed' = NonePending /\ cursor' = Len(file) /\ queue' \in {queue, <<>>}
      /\ \/ gen' = gen + 1 /\ stale' = FALSE
         \/ gen' = gen /\ stale' = TRUE
  BY DEF Launch, Adopt, Attach, Anchor, Ready
<1>2. Pend' = {}
  <2>1. Reach' = {}
    <3>1. Len(todo') = 0 /\ Len(file) \in Nat
      BY <1>0, <1>1, Facts
    <3>2. \A i \in 1 .. Len(file) : ~(i > Len(file))
      BY <3>1
    <3> QED BY <1>1, <3>1, <3>2 DEF Reach, Within
  <2>2. Members(observed'.events) = {}
    <3>1. observed'.events = <<>>
      BY <1>1, NonePendingTyped
    <3> QED BY <3>1 DEF Members
  <2> QED BY <1>1, <2>1, <2>2 DEF Pend
<1>3. SameOrder' /\ Recorded'
  BY <1>2 DEF SameOrder, Recorded
<1>4. Members(queue') \subseteq Members(queue)
  BY <1>1 DEF Members
<1>5. \A r \in rows : r.gen \in Nat /\ gen \in Nat /\ r.gen <= gen /\ r.id <= produced
  BY <1>0, LedgerTypes DEF Keys, Behind
<1>6. \A r \in rows : r.gen <= gen' /\ (~stale' => r.gen # gen')
  BY <1>1, <1>5
<1>7. Behind'
  BY <1>1, <1>4, <1>5, <1>6 DEF Keys, Behind
<1> QED BY <1>1, <1>3, <1>7 DEF Keys

\* The other steps neither number nor record.
LEMMA KeysKept ==
  ASSUME Metered, Typed', Keys, Loses,
         UNCHANGED <<rows, gen, stale, seq, minted>>
  PROVE  Keys' /\ rows' = rows
<1>1. Pend' \subseteq Pend /\ Members(queue') \subseteq Members(queue)
  BY LosesPending DEF Metered
<1>2. LastSeq' = LastSeq /\ produced' = produced
  BY DEF LastSeq, Loses
<1> QED BY <1>1, <1>2, KeysLose

(* Steps that neither commit nor mint nor begin a generation. *)
LEMMA Uncounted ==
  ASSUME Metered, Typed',
         \/ WriteRest \/ Exit \/ TailerPass \/ UNCHANGED vars
         \/ ReadTail \/ Advance \/ TruncateCheck \/ Truncate \/ ObservedDone
         \/ Drop \/ Kill \/ Tick \/ Stop \/ Reap \/ StopAgain \/ Crash \/ Reconcile
         \/ (ReadQueue /\ Return)
         \/ \E busy \in BOOLEAN : LogRefused(busy) \/ ObservedRefused(busy)
  PROVE  Loses /\ UNCHANGED <<rows, gen, stale, seq, minted>>
<1>0. Typed /\ Channel
  BY DEF Metered
<1>1. CASE WriteRest
  BY <1>0, <1>1, WriteRestLoses DEF WriteRest, Appended, handle
<1>2. CASE Exit \/ TailerPass \/ UNCHANGED vars
  <2>1. Loses
    BY <1>0, <1>2, OutsideQuiet, QuietLoses
  <2> QED BY <1>2, <2>1 DEF Exit, TailerPass, vars, agent, handle
<1>3. CASE ReadTail \/ Advance \/ TruncateCheck
  <2>1. Quiet
    BY <1>0, <1>3, ReadTailQuiet, AdvanceQuiet, TruncateCheckQuiet
  <2>2. Loses
    BY <1>0, <2>1, QuietLoses
  <2> QED BY <1>3, <2>2 DEF ReadTail, Advance, TruncateCheck, agent
<1>4. CASE Truncate \/ ObservedDone \/ Drop
  <2>1. Loses
    BY <1>0, <1>4, PopsQuiet, QuietLoses
  <2> QED BY <1>4, <2>1 DEF Truncate, ObservedDone, Drop, Gone, agent
<1>5. CASE Kill
  <2>1. Loses
    BY <1>0, <1>5, KillQuiet, QuietLoses
  <2> QED BY <1>5, <2>1 DEF Kill
<1>6. CASE Tick \/ Stop \/ Reap
  <2>1. Loses
    BY <1>0, <1>6, OperationQuiet, QuietLoses
  <2> QED BY <1>6, <2>1 DEF Tick, Stop, Reap, agent, handle
<1>7. CASE StopAgain \/ Crash \/ Reconcile
  <2>1. Loses
    BY <1>0, <1>7, EmptyQuiet, QuietLoses
  <2> QED BY <1>7, <2>1 DEF StopAgain, Gone, Crash, Reconcile, agent, handle
<1>8. CASE ReadQueue /\ Return
  <2>1. Quiet
    BY <1>0, <1>8, PopsQuiet
  <2>2. Loses
    BY <1>0, <2>1, QuietLoses
  <2>3. minted' = minted
    BY <1>0, <1>8, ReadQueueMeans, SpliceTop DEF ReadQueue, Return
  <2> QED BY <1>8, <2>2, <2>3 DEF ReadQueue
<1>9. ASSUME NEW busy \in BOOLEAN, LogRefused(busy) PROVE Loses /\ UNCHANGED <<rows, gen, stale, seq, minted>>
  <2>1. Loses
    BY <1>0, <1>9, LogRefusedQuiet, QuietLoses
  <2>2. UNCHANGED <<rows, gen, stale, seq, minted>>
    BY <1>9, LogRefusedMeans DEF agent
  <2> QED BY <2>1, <2>2
<1>10. ASSUME NEW busy \in BOOLEAN, ObservedRefused(busy) PROVE Loses /\ UNCHANGED <<rows, gen, stale, seq, minted>>
  <2>1. Loses
    BY <1>0, <1>10, ObservedRefusedLoses
  <2>2. UNCHANGED <<rows, gen, stale, seq, minted>>
    BY <1>10, ObservedRefusedMeans DEF agent
  <2> QED BY <2>1, <2>2
<1> QED BY <1>1, <1>2, <1>3, <1>4, <1>5, <1>6, <1>7, <1>8, <1>9, <1>10

LedgerInv == Metered /\ RestOnTop /\ Keys /\ NoDoubleCount

(* Every step keeps the ledger free of repetitions. *)
LEMMA NextLedger ==
  ASSUME LedgerInv, BreachEndsBlock, [Next]_vars
  PROVE  LedgerInv'
<1>0. Metered /\ RestOnTop /\ Keys /\ NoDoubleCount /\ Typed
  BY DEF LedgerInv, Metered
<1>1. Metered' /\ Typed'
  BY <1>0, NextMetered DEF Metered
<1>2. RestOnTop'
  BY <1>0, <1>1, NextRest
<1> SUFFICES Keys' /\ NoDoubleCount'
  BY <1>1, <1>2 DEF LedgerInv
<1>3. CASE Commit
  BY <1>0, <1>1, <1>3, KeysCommit
<1>4. rows' = rows => NoDoubleCount'
  BY <1>0 DEF NoDoubleCount
<1>5. CASE WriteLine \/ Forward \/ Launch \/ Adopt
  BY <1>0, <1>1, <1>4, <1>5, KeysWriteLine, KeysForward, KeysAttach
<1>6. CASE ReadQueue /\ ~Return
  <2>1. /\ source = "observed" /\ queue' = <<>> /\ todo' = <<ObsLoop>> \o Tail(todo)
        /\ minted' = minted + Len(queue)
    BY <1>0, <1>6, ReadQueueMeans
  <2> QED BY <1>0, <1>1, <1>4, <1>6, <2>1, KeysReadQueue
<1>7. CASE ~(Commit \/ WriteLine \/ Forward \/ Launch \/ Adopt \/ (ReadQueue /\ ~Return))
  <2>1. \/ WriteRest \/ Exit \/ TailerPass \/ UNCHANGED vars
        \/ ReadTail \/ Advance \/ TruncateCheck \/ Truncate \/ ObservedDone
        \/ Drop \/ Kill \/ Tick \/ Stop \/ Reap \/ StopAgain \/ Crash \/ Reconcile
        \/ (ReadQueue /\ Return)
        \/ \E busy \in BOOLEAN : LogRefused(busy) \/ ObservedRefused(busy)
    BY <1>7 DEF Next, Drain
  <2>2. Loses /\ UNCHANGED <<rows, gen, stale, seq, minted>>
    BY <1>0, <1>1, <2>1, Uncounted
  <2> QED BY <1>0, <1>1, <1>4, <2>2, KeysKept
<1> QED BY <1>3, <1>5, <1>6, <1>7

\* No event counts twice: not one of a parked block, of a log that was cut, or of
\* a process that was adopted; as long as a breach ends its block, for behind one
\* that does not, the drain goes on without a handle (the run double_count).
THEOREM NoEventCountsTwice == Spec /\ []BreachEndsBlock => []NoDoubleCount
<1>1. Init => LedgerInv
  <2> SUFFICES ASSUME Init PROVE LedgerInv
    OBVIOUS
  <2>1. Metered
    BY InitMetered
  <2>2. todo = <<>> /\ rows = {} /\ held = FALSE /\ observed = NonePending /\ queue = <<>>
    BY DEF Init
  <2>3. Len(todo) = 0 /\ observed.events = <<>> /\ Members(<<>>) = {}
    BY <2>2, NonePendingTyped, EmptySeq DEF Members
  <2>4. RestOnTop
    BY <2>2, <2>3 DEF RestOnTop, InLoop, Doing
  <2>5. Pend = {}
    BY <2>2, <2>3 DEF Pend, Reach
  <2>6. Keys
    BY <2>2, <2>5 DEF Keys, SameOrder, Recorded, Behind
  <2>7. NoDoubleCount
    BY <2>2 DEF NoDoubleCount
  <2> QED BY <2>1, <2>4, <2>6, <2>7 DEF LedgerInv
<1>2. LedgerInv /\ BreachEndsBlock /\ [Next]_vars => LedgerInv'
  BY NextLedger
<1>3. LedgerInv => NoDoubleCount
  BY DEF LedgerInv
<1> QED BY <1>1, <1>2, <1>3, PTL DEF Spec

-----------------------------------------------------------------------------
(* The tailer *)

\* The hypothesis: a stop whose kill is not confirmed does not return to a drain
\* whose block its own drain has cut off the log.
ReturnsInside ==
  Doing("kill") /\ alive' /\ Len(todo) > 3 /\ todo[4].op = "ingest" =>
    todo[4].to <= Len(file)

\* A loop that waits, waits for the stop that lets go of its handle.
Below ==
  \A k \in 2 .. Len(todo) : held /\ todo[k].op \in Loops => todo[k - 1].op = "drop"

\* The cursor and the block under way are inside the file, a cut was decided
\* when the tailer had all of it, and an operation that goes on without a handle
\* finds neither process nor, in metadata mode, a raw log.
Readers ==
  /\ held => cursor <= Len(file)
  /\ Below
  /\ Doing("ingest") /\ held => Top.to <= Len(file)
  /\ Doing("cut") => (capture => tailer >= Top.to)
  /\ ~held /\ todo # <<>> => ~alive /\ (metadata /\ capture => file = <<>>)

\* Whatever the tailer has not taken yet may go.
Clear == metadata /\ capture => LinesIn(tailer, Len(file)) \subseteq excused

\* Before call i, the log will still be read for the last time, or its tailer
\* taken along.
Due(i) == \E j \in 1 .. i - 1 : todo[j].op \in {"log", "trunc"} /\ todo[j].mode = "terminal"

\* The handle is let go of after the kill and the drain behind it.
Killing(i) == i > 2 /\ todo[i - 2].op = "kill"

Shown ==
  \A i \in 1 .. Len(todo) : todo[i].op = "drop" /\ todo[i].mode # "live" =>
    Killing(i) \/ (~alive /\ (Due(i) \/ Clear))

OutputInv == Typed /\ Readers /\ Shown /\ OutputKept

\* The lines the tailer has yet to take get fewer as it moves on.
LEMMA LinesShrink ==
  ASSUME Typed, NEW n \in Nat, n >= tailer
  PROVE  LinesIn(n, Len(file)) \subseteq LinesIn(tailer, Len(file))
<1>1. tailer \in Nat /\ Len(file) \in Nat
  BY Facts DEF Typed, MeterTyped
<1>2. \A j \in n + 1 .. Len(file) : j \in tailer + 1 .. Len(file)
  BY <1>1
<1> QED BY <1>2 DEF LinesIn

\* The loops of a stack that stays wait as before.
LEMMA SameBelow ==
  ASSUME Below, todo' = todo, held' => held
  PROVE  Below'
BY DEF Below

\* Replacing the innermost call leaves the loops below as they wait, unless it
\* was the drop they wait for.
LEMMA SplicedBelow ==
  ASSUME Typed, Typed', Below, held' => held /\ Top.op # "drop", todo # <<>>,
         NEW pre, Len(pre) \in Nat, Spliced(todo', todo, 1, pre),
         \A k \in 2 .. Len(pre) : pre[k].op \in Loops => pre[k - 1].op = "drop"
  PROVE  /\ Below'
         /\ held' /\ Len(pre) = 0 => ~Doing("ingest")' /\ ~Doing("ingestObs")'
<1>1. Len(todo') \in Nat /\ Len(todo) \in Nat /\ todo[1] = Top
  BY Facts, LenProperties DEF Typed, Stack, Sound
<1>2. ASSUME NEW k \in 1 .. Len(todo'), k \notin 1 .. Len(pre), held', todo'[k].op \in Loops
      PROVE  k > 1 /\ todo'[k - 1].op = "drop"
  <2>1. k \in Len(pre) + 1 .. Len(todo')
    BY <1>1, <1>2
  <2> DEFINE i == k - Len(pre) + 1
  <2>2. i \in 2 .. Len(todo) /\ todo'[k] = todo[i]
    BY <2>1 DEF Spliced
  <2>3. todo[i - 1].op = "drop"
    BY <1>2, <2>2 DEF Below
  <2>4. i - 1 # 1
    BY <1>1, <1>2, <2>3
  <2>5. k - 1 \in Len(pre) + 1 .. Len(todo') /\ (k - 1) - Len(pre) + 1 = i - 1
    BY <1>1, <2>1, <2>2, <2>4
  <2>6. todo'[k - 1] = todo[(k - 1) - Len(pre) + 1]
    BY <2>5 DEF Spliced
  <2> QED BY <1>1, <2>1, <2>3, <2>5, <2>6
<1>3. Below'
  <2> SUFFICES ASSUME NEW k \in 2 .. Len(todo'), held', todo'[k].op \in Loops
               PROVE  todo'[k - 1].op = "drop"
    BY DEF Below
  <2>1. CASE k \in 1 .. Len(pre)
    <3>1. k \in 2 .. Len(pre) /\ todo'[k] = pre[k]
      BY <2>1 DEF Spliced
    <3>2. pre[k - 1].op = "drop"
      BY <3>1
    <3>3. k - 1 \in 1 .. Len(pre)
      BY <3>1
    <3>4. todo'[k - 1] = pre[k - 1]
      BY <3>3 DEF Spliced
    <3> QED BY <3>2, <3>4
  <2>2. CASE k \notin 1 .. Len(pre)
    <3>1. k \in 1 .. Len(todo')
      BY <1>1
    <3> QED BY <1>2, <2>2, <3>1
  <2> QED BY <2>1, <2>2
<1>4. ASSUME held', Len(pre) = 0 PROVE ~Doing("ingest")' /\ ~Doing("ingestObs")'
  <2> SUFFICES ASSUME todo' # <<>>, Head(todo').op \in Loops PROVE FALSE
    BY DEF Doing, Loops
  <2>1. todo' \in Seq(FrameType)
    BY DEF Typed, Stack, Sound
  <2>2. todo'[1] = Head(todo') /\ 1 \in 1 .. Len(todo') /\ 1 \notin 1 .. Len(pre)
    BY <1>1, <1>4, <2>1, EmptySeq
  <2>3. 1 > 1
    BY <1>2, <1>4, <2>2 DEF Loops
  <2> QED BY <2>3
<1> QED BY <1>3, <1>4

\* Replacing the innermost call leaves the drops below as they wait, unless it
\* was what they wait for.
LEMMA SplicedShown ==
  ASSUME Typed, Typed', Shown, todo # <<>>,
         NEW pre, Len(pre) \in Nat, Spliced(todo', todo, 1, pre),
         alive' => alive, ~alive /\ Clear => Clear',
         Top.op = "kill" => ~alive' /\ Len(pre) = 0,
         Top.op \in {"log", "trunc"} /\ Top.mode = "terminal" =>
           Clear' \/ \E j \in 1 .. Len(pre) : pre[j].op \in {"log", "trunc"} /\ pre[j].mode = "terminal",
         \A k \in 1 .. Len(pre) : pre[k].op = "drop" => k > 2 /\ pre[k - 2].op = "kill"
  PROVE  Shown'
<1>1. /\ Len(todo') \in Nat /\ Len(todo) \in Nat /\ todo[1] = Top
      /\ \A k \in 1 .. Len(pre) : todo'[k] = pre[k]
  <2>1. Len(todo') \in Nat /\ Len(todo) \in Nat /\ todo[1] = Top
    BY Facts, LenProperties DEF Typed, Stack, Sound
  <2> QED BY <2>1 DEF Spliced
<1> SUFFICES ASSUME NEW i \in 1 .. Len(todo'), todo'[i].op = "drop", todo'[i].mode # "live"
             PROVE  Killing(i)' \/ (~alive' /\ (Due(i)' \/ Clear'))
  BY DEF Shown
<1>2. CASE i \in 1 .. Len(pre)
  <2>1. i > 2 /\ pre[i - 2].op = "kill"
    BY <1>1, <1>2
  <2>2. i - 2 \in 1 .. Len(pre)
    BY <1>1, <1>2, <2>1
  <2> QED BY <1>1, <2>1, <2>2 DEF Killing
<1>3. CASE i \notin 1 .. Len(pre)
  <2> DEFINE m == i - Len(pre) + 1
  <2>1. i \in Len(pre) + 1 .. Len(todo')
    BY <1>1, <1>3
  <2>2. m \in 2 .. Len(todo) /\ todo'[i] = todo[m]
    BY <2>1 DEF Spliced
  <2>3. \A j \in 2 .. m - 1 : /\ j + Len(pre) - 1 \in Len(pre) + 1 .. i - 1
                              /\ todo'[j + Len(pre) - 1] = todo[j]
    <3> TAKE j \in 2 .. m - 1
    <3>0. /\ j \in Nat /\ Len(pre) \in Nat /\ i \in Nat /\ Len(todo') \in Nat
          /\ j >= 2 /\ j <= i - Len(pre) /\ i <= Len(todo')
      <4>1. j >= 2 /\ j <= m - 1 /\ j \in Int
        BY <2>2
      <4>2. m - 1 = i - Len(pre)
        BY <2>2
      <4> QED BY <1>1, <2>1, <4>1, <4>2
    <3>1. j + Len(pre) - 1 \in Len(pre) + 1 .. i - 1 /\ j + Len(pre) - 1 \in Len(pre) + 1 .. Len(todo')
      BY <3>0
    <3>2. (j + Len(pre) - 1) - Len(pre) + 1 = j
      BY <3>0
    <3>3. \A k \in Len(pre) + 1 .. Len(todo') : todo'[k] = todo[k - Len(pre) + 1]
      BY DEF Spliced
    <3>4. todo'[j + Len(pre) - 1] = todo[(j + Len(pre) - 1) - Len(pre) + 1]
      BY <3>1, <3>3
    <3> QED BY <3>1, <3>2, <3>4
  <2>4. Killing(m) \/ (~alive /\ (Due(m) \/ Clear))
    BY <2>2 DEF Shown
  <2>5. m \in Nat /\ i \in Nat /\ i = m + Len(pre) - 1
    BY <1>1, <2>2
  <2> HIDE DEF m
  <2>6. CASE Killing(m)
    <3>1. m > 2 /\ todo[m - 2].op = "kill"
      BY <2>6 DEF Killing
    <3>2. CASE m - 2 = 1
      <4>1. Top.op = "kill" /\ ~alive' /\ Len(pre) = 0
        BY <1>1, <3>1, <3>2
      <4>2. m = 3 /\ i = 2
        BY <2>5, <3>2, <4>1
      <4>3. todo'[1] = todo[2]
        BY <2>3, <4>1, <4>2
      <4>4. todo[2] = Frame("log", "terminal")
        <5>1. 1 \in 1 .. Len(todo) /\ todo[1].op = "kill"
          BY <1>1, <2>2, <4>1
        <5> QED BY <5>1 DEF Typed, Stack, Sound
      <4>5. Due(i)'
        BY <4>2, <4>3, <4>4 DEF Due, Frame
      <4> QED BY <4>1, <4>5
    <3>3. CASE m - 2 # 1
      <4>1. m - 2 \in 2 .. m - 1
        BY <2>5, <3>1, <3>3
      <4>2. (m - 2) + Len(pre) - 1 = i - 2 /\ i > 2
        BY <1>1, <2>5, <3>1, <3>3
      <4>3. todo'[i - 2] = todo[m - 2]
        BY <2>3, <4>1, <4>2
      <4> QED BY <3>1, <4>2, <4>3 DEF Killing
    <3> QED BY <3>2, <3>3
  <2>7. CASE ~alive /\ Clear
    BY <2>7
  <2>8. CASE ~alive /\ Due(m)
    <3>1. PICK j \in 1 .. m - 1 : todo[j].op \in {"log", "trunc"} /\ todo[j].mode = "terminal"
      BY <2>8 DEF Due
    <3>2. CASE j = 1
      <4>1. Top.op \in {"log", "trunc"} /\ Top.mode = "terminal"
        BY <1>1, <3>1, <3>2
      <4>2. CASE Clear'
        BY <2>8, <4>2
      <4>3. CASE \E k \in 1 .. Len(pre) : pre[k].op \in {"log", "trunc"} /\ pre[k].mode = "terminal"
        <5>1. PICK k \in 1 .. Len(pre) : pre[k].op \in {"log", "trunc"} /\ pre[k].mode = "terminal"
          BY <4>3
        <5>2. k \in 1 .. i - 1 /\ todo'[k] = pre[k]
          BY <1>1, <2>1
        <5>3. Due(i)'
          BY <5>1, <5>2 DEF Due
        <5> QED BY <2>8, <5>3
      <4> QED BY <4>1, <4>2, <4>3
    <3>3. CASE j # 1
      <4>1. j \in 2 .. m - 1
        BY <2>5, <3>3
      <4>2. j + Len(pre) - 1 \in Len(pre) + 1 .. i - 1 /\ todo'[j + Len(pre) - 1] = todo[j]
        BY <2>3, <4>1
      <4>3. j + Len(pre) - 1 \in 1 .. i - 1
        BY <1>1, <4>2
      <4>4. Due(i)'
        BY <3>1, <4>2, <4>3 DEF Due
      <4> QED BY <2>8, <4>4
    <3> QED BY <3>2, <3>3
  <2> QED BY <2>4, <2>6, <2>7, <2>8
<1> QED BY <1>2, <1>3

\* The drops of a stack that stays wait as before.
LEMMA SameShown ==
  ASSUME Shown, todo' = todo, alive' => alive, ~alive /\ Clear => Clear'
  PROVE  Shown'
<1> SUFFICES ASSUME NEW i \in 1 .. Len(todo), todo[i].op = "drop", todo[i].mode # "live"
             PROVE  Killing(i)' \/ (~alive' /\ (Due(i)' \/ Clear'))
  BY DEF Shown
<1>1. Killing(i)' = Killing(i) /\ Due(i)' = Due(i)
  BY DEF Killing, Due
<1>2. Killing(i) \/ (~alive /\ (Due(i) \/ Clear))
  BY DEF Shown
<1> QED BY <1>1, <1>2

\* The steps of the agent and the tailer, and those that end every operation.
LEMMA NoOperation ==
  ASSUME todo' = <<>>
  PROVE  Below' /\ Shown' /\ ~Doing("ingest")' /\ ~Doing("cut")'
<1>1. Len(todo') = 0 /\ todo' = <<>>
  BY EmptySeq
<1>2. Below'
  BY <1>1 DEF Below
<1>3. Shown'
  BY <1>1 DEF Shown
<1> QED BY <1>1, <1>2, <1>3 DEF Doing

\* The steps outside of every operation: the agent writes only while it lives,
\* the tailer only gains on it.
LEMMA OutsideOutput ==
  ASSUME OutputInv, Typed', todo' = todo, held' = held, cursor' = cursor, capture' = capture,
         metadata' = metadata, Len(file) <= Len(file'), tailer <= tailer',
         alive' => alive, alive \/ (file' = file /\ excused \subseteq excused'),
         unshown' = unshown
  PROVE  OutputInv'
<1>1. Typed /\ Readers /\ Shown /\ Below
  BY DEF OutputInv, Readers
<1>2. cursor \in Nat /\ Len(file) \in Nat /\ Len(file') \in Nat /\ tailer \in Nat /\ tailer' \in Nat
  BY <1>1, Facts, LenProperties DEF Typed, MeterTyped
<1>3. (held => cursor <= Len(file))'
  BY <1>1, <1>2 DEF Readers
<1>4. Below'
  BY <1>1, SameBelow
<1>5. (Doing("ingest") /\ held => Top.to <= Len(file))'
  <2>1. Top' = Top /\ Doing("ingest")' = Doing("ingest")
    BY DEF Top, Doing
  <2> SUFFICES ASSUME Doing("ingest"), held
               PROVE  Top.to <= Len(file')
    BY <2>1
  <2>2. Top.to \in Nat
    BY <1>1, LoopTop
  <2>3. Top.to <= Len(file)
    BY <1>1 DEF Readers
  <2> QED BY <1>2, <2>2, <2>3
<1>6. (Doing("cut") => (capture => tailer >= Top.to))'
  <2>1. Top' = Top /\ Doing("cut")' = Doing("cut")
    BY DEF Top, Doing
  <2> SUFFICES ASSUME Doing("cut"), capture PROVE tailer' >= Top.to
    BY <2>1
  <2>2. Top.to \in Nat
    BY <1>1, Facts DEF Doing, FrameType
  <2>3. tailer >= Top.to
    BY <1>1 DEF Readers
  <2> QED BY <1>2, <2>2, <2>3
<1>7. (~held /\ todo # <<>> => ~alive /\ (metadata /\ capture => file = <<>>))'
  BY <1>1 DEF Readers
<1>8. ASSUME ~alive, Clear PROVE Clear'
  <2>1. LinesIn(tailer', Len(file)) \subseteq LinesIn(tailer, Len(file))
    BY <1>1, <1>2, LinesShrink
  <2>2. file' = file /\ excused \subseteq excused'
    BY <1>8
  <2>3. LinesIn(tailer, Len(file))' = LinesIn(tailer', Len(file))
    BY <2>2 DEF LinesIn
  <2> SUFFICES ASSUME metadata, capture PROVE LinesIn(tailer, Len(file))' \subseteq excused'
    BY DEF Clear
  <2>4. LinesIn(tailer, Len(file)) \subseteq excused
    BY <1>8 DEF Clear
  <2> QED BY <2>1, <2>2, <2>3, <2>4
<1>9. Shown'
  BY <1>1, <1>8, SameShown
<1>10. Readers'
  BY <1>3, <1>4, <1>5, <1>6, <1>7 DEF Readers
<1> QED BY <1>9, <1>10 DEF OutputInv, OutputKept

\* The agent appends to its log, its listener queues, it ends; the tailer passes.
LEMMA AgentOutput ==
  ASSUME OutputInv, Typed',
         WriteLine \/ WriteRest \/ Forward \/ Exit \/ TailerPass \/ UNCHANGED vars
  PROVE  OutputInv'
<1>1. Typed /\ Len(file) \in Nat /\ tailer \in Nat
  BY Facts DEF OutputInv, Typed, MeterTyped
<1>2. CASE WriteLine \/ WriteRest
  <2>1. PICK part, id : Appended(part, id)
    BY <1>2 DEF WriteLine, WriteRest
  <2> DEFINE c == [id |-> id, seq |-> seq', part |-> part]
  <2>2. file' = Append(file, c)
    BY <2>1 DEF Appended
  <2> HIDE DEF c
  <2>3. file \in Seq(Chunk)
    BY <1>1 DEF Typed, MeterTyped
  <2>4. Len(file') = Len(file) + 1
    BY <2>2, <2>3
  <2>5. Len(file) <= Len(file') /\ tailer <= tailer'
    BY <1>1, <2>1, <2>4 DEF Appended, handle
  <2>6. alive /\ alive' = alive
    BY <1>2, <2>1 DEF WriteLine, WriteRest, Appended
  <2> QED BY <2>1, <2>5, <2>6, OutsideOutput DEF Appended, handle
<1>3. CASE Forward \/ Exit \/ UNCHANGED vars
  <2>1. Len(file) <= Len(file') /\ tailer <= tailer'
    BY <1>1, <1>3 DEF Forward, Exit, vars, agent, handle
  <2> QED BY <1>3, <2>1, OutsideOutput DEF Forward, Exit, vars, agent, handle, losses
<1>4. CASE TailerPass
  <2>1. tailer <= tailer'
    <3>1. CatchUp \in Nat /\ (CatchUp = tailer \/ CatchUp \in tailer + 1 .. Len(file))
      BY <1>1, CatchUpBounds
    <3> QED BY <1>1, <1>4, <3>1 DEF TailerPass
  <2>2. Len(file) <= Len(file')
    BY <1>1, <1>4 DEF TailerPass, agent
  <2> QED BY <1>4, <2>1, <2>2, OutsideOutput DEF TailerPass, agent, losses
<1> QED BY <1>2, <1>3, <1>4

\* An operation begins with a handle, and with the drains its drop waits for.
LEMMA OperationOutput ==
  ASSUME OutputInv, Typed', Tick \/ Stop \/ Reap
  PROVE  OutputInv'
<1>1. Typed /\ Readers /\ unshown = {}
  BY DEF OutputInv, OutputKept
<1>2. /\ held /\ UNCHANGED <<alive, file, held, cursor, capture, tailer, metadata, unshown>>
      /\ todo' \in {TickFrames, StopFrames, ReapFrames}
  BY DEF Tick, Stop, Reap, agent, handle, losses
<1>3. /\ \A k \in 1 .. Len(todo') : todo'[k].op \notin Loops
      /\ Len(todo') \in {2, 5, 3} /\ Head(todo') = todo'[1] /\ todo'[1].op = "log"
  <2>1. CASE todo' = TickFrames
    BY <2>1, NewFrames DEF Frame, Loops
  <2>2. CASE todo' = StopFrames
    BY <2>2, NewFrames DEF Frame, Loops
  <2>3. CASE todo' = ReapFrames
    BY <2>3, NewFrames DEF Frame, Loops
  <2> QED BY <1>2, <2>1, <2>2, <2>3
<1>4. ~Doing("ingest")' /\ ~Doing("cut")'
  BY <1>3 DEF Doing
<1>5. Below'
  BY <1>3 DEF Below
<1>6. Readers'
  BY <1>1, <1>2, <1>4, <1>5 DEF Readers
<1>7. CASE todo' = TickFrames
  <2>1. \A k \in 1 .. Len(todo') : todo'[k].op # "drop"
    BY <1>7, NewFrames DEF Frame
  <2>2. Shown'
    BY <2>1 DEF Shown
  <2> QED BY <1>1, <1>2, <1>6, <2>2 DEF OutputInv, OutputKept
<1>8. CASE todo' = StopFrames
  <2>1. /\ Len(todo') = 5 /\ todo'[3].op = "kill"
        /\ \A k \in 1 .. 5 : todo'[k].op = "drop" => k = 5
    BY <1>8, NewFrames DEF Frame
  <2>2. Killing(5)'
    BY <2>1 DEF Killing
  <2>3. Shown'
    BY <2>1, <2>2 DEF Shown
  <2> QED BY <1>1, <1>2, <1>6, <2>3 DEF OutputInv, OutputKept
<1>9. CASE todo' = ReapFrames
  <2>1. /\ Len(todo') = 3 /\ todo'[1] = Frame("log", "terminal")
        /\ \A k \in 1 .. 3 : todo'[k].op = "drop" => k = 3
        /\ todo'[3] = Frame("drop", IF alive THEN "live" ELSE "terminal")
    BY <1>9, NewFrames DEF Frame
  <2>2. Due(3)'
    BY <2>1 DEF Due, Frame
  <2>3. todo'[3].mode # "live" => ~alive'
    BY <1>2, <2>1 DEF Frame
  <2>4. Shown'
    BY <2>1, <2>2, <2>3 DEF Shown
  <2> QED BY <1>1, <1>2, <1>6, <2>4 DEF OutputInv, OutputKept
<1> QED BY <1>2, <1>7, <1>8, <1>9

\* What ends or begins a generation leaves no operation; an attach reads from the
\* end of the log.
LEMMA GenerationOutput ==
  ASSUME OutputInv, Typed', StopAgain \/ Launch \/ Crash \/ Adopt \/ Reconcile
  PROVE  OutputInv'
<1>1. todo' = <<>> /\ unshown' = unshown
  BY DEF StopAgain, Launch, Crash, Adopt, Reconcile, Attach, Ready, Gone, losses
<1>2. Below' /\ Shown' /\ ~Doing("ingest")' /\ ~Doing("cut")'
  BY <1>1, NoOperation
<1>3. (held => cursor <= Len(file))'
  <2>1. Typed /\ (held => cursor <= Len(file)) /\ Len(file) \in Nat
    BY Facts DEF OutputInv, Readers
  <2>2. CASE StopAgain \/ Crash
    BY <2>2 DEF StopAgain, Crash, Gone
  <2>3. CASE Launch \/ Adopt
    BY <2>1, <2>3 DEF Launch, Adopt, Attach, Anchor
  <2>4. CASE Reconcile
    BY <2>1, <2>4 DEF Reconcile, agent, handle
  <2> QED BY <2>2, <2>3, <2>4
<1>4. Readers'
  BY <1>1, <1>2, <1>3 DEF Readers
<1> QED BY <1>1, <1>2, <1>4 DEF OutputInv, OutputKept

\* The tailer's debt stays settled when nothing is written or released.
LEMMA SameClear ==
  ASSUME Clear, UNCHANGED <<metadata, capture, tailer, file>>, excused \subseteq excused'
  PROVE  Clear'
BY DEF Clear, LinesIn

\* An empty log has nothing to show.
LEMMA EmptyClear ==
  ASSUME metadata' /\ capture' => file' = <<>>, tailer' \in Nat
  PROVE  Clear'
<1> SUFFICES ASSUME metadata', capture' PROVE LinesIn(tailer, Len(file))' \subseteq excused'
  BY DEF Clear
<1>1. Len(file') = 0
  BY EmptySeq
<1>2. \A n \in Nat : \A j \in n + 1 .. 0 : FALSE
  OBVIOUS
<1>3. \A j \in tailer' + 1 .. Len(file') : FALSE
  BY <1>1, <1>2
<1> QED BY <1>3 DEF LinesIn

\* A return shows no cut, and no loop unless the handle is gone.
LEMMA PopLoops ==
  ASSUME Typed, Typed', Below, todo # <<>>, todo' = Tail(todo), held' => held /\ Top.op # "drop"
  PROVE  /\ Below' /\ ~Doing("cut")'
         /\ held' => ~Doing("ingest")' /\ ~Doing("ingestObs")'
<1> DEFINE pre == <<>>
<1>1. Spliced(todo', todo, 1, pre) /\ Len(pre) = 0 /\ todo' \in Seq(FrameType)
  <2>1. todo \in Seq(FrameType)
    BY DEF Typed, Stack, Sound
  <2> QED BY <2>1, PopTop
<1> HIDE DEF pre
<1>2. Len(pre) \in Nat /\ \A k \in 2 .. Len(pre) : pre[k].op \in Loops => FALSE
  BY <1>1
<1>3. Below' /\ (held' => ~Doing("ingest")' /\ ~Doing("ingestObs")')
  BY <1>1, <1>2, SplicedBelow
<1>4. ~Doing("cut")'
  <2> SUFFICES ASSUME todo' # <<>>, Head(todo').op = "cut" PROVE FALSE
    BY DEF Doing
  <2>1. Len(todo') \in Nat /\ Len(todo) \in Nat /\ todo'[1] = Head(todo') /\ 1 \in 1 .. Len(todo')
    BY <1>1, Facts, EmptySeq, LenProperties
  <2>2. 1 \in Len(pre) + 1 .. Len(todo')
    BY <1>1, <2>1
  <2>3. PICK i \in 2 .. Len(todo) : todo'[1] = todo[i]
    BY <1>1, <2>2 DEF Spliced
  <2>4. todo[i].op # "cut"
    BY <2>1, <2>3 DEF Typed, Stack, Sound
  <2> QED BY <2>1, <2>3, <2>4
<1> QED BY <1>3, <1>4

\* A return: the log as it was or empty, the cursor inside it, and no last drain
\* given up.
LEMMA PopOutput ==
  ASSUME OutputInv, Typed', todo # <<>>, todo' = Tail(todo),
         alive' => alive, ~alive /\ Clear => Clear',
         held' => held /\ Top.op # "drop",
         Top.op = "kill" => ~alive',
         Top.op \in {"log", "trunc"} /\ Top.mode = "terminal" => Clear',
         held' => cursor' <= Len(file'),
         ~held' => ~alive' /\ (metadata' /\ capture' => file' = <<>>),
         unshown' = {}
  PROVE  OutputInv'
<1>1. Typed /\ Readers /\ Shown /\ Below
  BY DEF OutputInv, Readers
<1> DEFINE pre == <<>>
<1>2. Spliced(todo', todo, 1, pre) /\ Len(pre) = 0 /\ todo' \in Seq(FrameType)
  <2>1. todo \in Seq(FrameType)
    BY <1>1 DEF Typed, Stack, Sound
  <2> QED BY <2>1, PopTop
<1> HIDE DEF pre
<1>3. Len(pre) \in Nat /\ \A k \in 2 .. Len(pre) : pre[k].op \in Loops => FALSE
  BY <1>2
<1>4. Below' /\ ~Doing("cut")' /\ (held' => ~Doing("ingest")')
  BY <1>1, PopLoops
<1>5. Shown'
  <2>1. \A k \in 1 .. Len(pre) : pre[k].op = "drop" => k > 2 /\ pre[k - 2].op = "kill"
    BY <1>2
  <2>2. Top.op \in {"log", "trunc"} /\ Top.mode = "terminal" => Clear'
    OBVIOUS
  <2>3. Top.op = "kill" => ~alive' /\ Len(pre) = 0
    BY <1>2
  <2> QED BY <1>1, <1>2, <1>3, <2>1, <2>2, <2>3, SplicedShown
<1>6. Readers'
  BY <1>4 DEF Readers
<1> QED BY <1>5, <1>6 DEF OutputInv, OutputKept

\* A call: what it is handed fits the file, and the last drain stays due.
LEMMA PushOutput ==
  ASSUME OutputInv, Typed', todo # <<>>, NEW pre, Sound(pre), pre # <<>>,
         todo' = pre \o Tail(todo), Top.op \notin {"drop", "kill"},
         UNCHANGED <<alive, file, held, cursor, capture, metadata, unshown>>,
         ~alive /\ Clear => Clear',
         Top.op \in {"log", "trunc"} /\ Top.mode = "terminal" =>
           Clear' \/ \E j \in 1 .. Len(pre) : pre[j].op \in {"log", "trunc"} /\ pre[j].mode = "terminal",
         \A k \in 2 .. Len(pre) : pre[k].op \in Loops => pre[k - 1].op = "drop",
         \A k \in 1 .. Len(pre) : pre[k].op = "drop" => k > 2 /\ pre[k - 2].op = "kill",
         pre[1].op = "ingest" /\ held =>
           pre[1].to <= Len(file),
         pre[1].op = "cut" => (capture => tailer' >= pre[1].to)
  PROVE  OutputInv'
<1>1. Typed /\ Readers /\ Shown /\ Below /\ OutputKept
  BY DEF OutputInv, Readers
<1>2. Spliced(todo', todo, 1, pre) /\ todo' \in Seq(FrameType)
  <2>1. todo \in Seq(FrameType) /\ pre \in Seq(FrameType)
    BY <1>1 DEF Typed, Stack, Sound
  <2> QED BY <2>1, SpliceTop
<1>3. Len(pre) \in Nat /\ 1 \in 1 .. Len(pre)
  <2>1. pre \in Seq(FrameType)
    BY DEF Sound
  <2> QED BY <2>1, LenProperties, EmptySeq
<1>4. Below'
  BY <1>1, <1>2, <1>3, SplicedBelow
<1>5. Shown'
  BY <1>1, <1>2, <1>3, SplicedShown
<1>6. todo' # <<>> => Top' = pre[1]
  <2>1. todo' # <<>> => Head(todo') = todo'[1]
    BY <1>2
  <2>2. todo'[1] = pre[1]
    BY <1>2, <1>3 DEF Spliced
  <2> QED BY <2>1, <2>2 DEF Top
<1>7. (Doing("ingest") /\ held => Top.to <= Len(file))'
  BY <1>6 DEF Doing, Top
<1>8. (Doing("cut") => (capture => tailer >= Top.to))'
  BY <1>6 DEF Doing, Top
<1>9. Readers'
  BY <1>1, <1>4, <1>7, <1>8 DEF Readers
<1> QED BY <1>1, <1>5, <1>9 DEF OutputInv, OutputKept

\* The read of the tail: a block at the cursor and the check behind it, or a
\* return that leaves nothing to show or calls it lost.
LEMMA ReadTailOutput ==
  ASSUME OutputInv, Typed', ReadTail
  PROVE  OutputInv'
<1>1. /\ Typed /\ Readers /\ unshown = {} /\ todo # <<>> /\ Doing("log") /\ Top.op = "log"
      /\ cursor \in Nat /\ Len(file) \in Nat /\ tailer \in Nat
      /\ UNCHANGED <<alive, file, held, capture, metadata, tailer, unshown>>
      /\ excused \subseteq excused'
  BY Facts DEF OutputInv, OutputKept, ReadTail, Doing, Top, agent, Typed, MeterTyped
<1>2. ASSUME Clear PROVE Clear'
  BY <1>1, <1>2, SameClear
<1> DEFINE Given == /\ Return
                    /\ Top.mode = "terminal" =>
                         IdsOf(file) \subseteq excused' \/ ~held \/ (held /\ cursor > Len(file))
           Pushed == /\ held /\ cursor <= Len(file) /\ cursor' = cursor
                     /\ todo' = Reading \o Tail(todo)
<1>3. Given \/ Pushed
  <2>1. CASE Fault /\ Return /\ excused' = IF Top.mode = "terminal" THEN excused \cup IdsOf(file)
                                          ELSE excused
    BY <2>1
  <2>2. CASE ~held /\ Return
    BY <2>2
  <2>3. CASE held /\ cursor > Len(file) /\ Return
    BY <2>3
  <2>4. CASE held /\ ~(cursor > Len(file)) /\ UNCHANGED cursor
             /\ todo' = (IF DrainTo = cursor THEN <<>> ELSE <<Block>>)
                          \o <<Frame("trunc", Top.mode)>> \o Tail(todo)
    <3>1. cursor <= Len(file)
      BY <1>1, <2>4
    <3> QED BY <2>4, <3>1 DEF Reading
  <2> QED BY <2>1, <2>2, <2>3, <2>4 DEF ReadTail, Block, DrainTo
<1>4. CASE Given
  <2>1. Top.mode = "terminal" => Clear'
    <3> SUFFICES ASSUME Top.mode = "terminal" PROVE Clear'
      OBVIOUS
    <3>1. CASE IdsOf(file) \subseteq excused'
      <4>1. LinesIn(tailer, Len(file)) \subseteq IdsOf(file)
        <5>1. \A i \in tailer + 1 .. Len(file) : i \in DOMAIN file
          BY <1>1, Facts
        <5> QED BY <5>1 DEF LinesIn, IdsOf
      <4>2. LinesIn(tailer, Len(file))' = LinesIn(tailer, Len(file))
        BY <1>1 DEF LinesIn
      <4> QED BY <3>1, <4>1, <4>2 DEF Clear
    <3>2. CASE ~held
      <4>1. metadata' /\ capture' => file' = <<>>
        BY <1>1, <3>2 DEF Readers
      <4> QED BY <1>1, <4>1, EmptyClear
    <3>3. CASE held /\ cursor > Len(file)
      BY <1>1, <3>3 DEF Readers
    <3> QED BY <1>4, <3>1, <3>2, <3>3
  <2>2. held' => cursor' <= Len(file')
    BY <1>1 DEF ReadTail, Readers
  <2>3. ~held' => ~alive' /\ (metadata' /\ capture' => file' = <<>>)
    BY <1>1 DEF Readers
  <2>4. todo' = Tail(todo)
    BY <1>4 DEF Return
  <2> QED BY <1>1, <1>2, <2>1, <2>2, <2>3, <2>4, PopOutput
<1>5. CASE Pushed
  <2>1. held /\ cursor <= Len(file) /\ todo' = Reading \o Tail(todo) /\ cursor' = cursor
    BY <1>5
  <2>2. /\ DrainTo = cursor => Reading = <<Frame("trunc", Top.mode)>>
        /\ DrainTo # cursor => Reading = <<Block, Frame("trunc", Top.mode)>>
        /\ Sound(Reading) /\ DrainTo \in cursor .. Len(file)
    BY <1>1, <2>1, ReadTailFrames
  <2>3. /\ Frame("trunc", Top.mode).mode = Top.mode /\ Frame("trunc", Top.mode).op = "trunc"
        /\ Block.op = "ingest" /\ Block.from = cursor /\ Block.to = DrainTo
    BY DEF Frame, Block
  <2>4. /\ \A k \in 1 .. Len(Reading) : Reading[k].op \in {"ingest", "trunc"}
        /\ \A k \in 2 .. Len(Reading) : Reading[k].op = "trunc"
        /\ Reading # <<>>
        /\ \E j \in 1 .. Len(Reading) : Reading[j].op = "trunc" /\ Reading[j].mode = Top.mode
        /\ Reading[1].op = "ingest" => Reading[1] = Block /\ DrainTo # cursor
    <3>1. CASE DrainTo = cursor
      <4>1. Len(Reading) = 1 /\ Reading[1] = Frame("trunc", Top.mode)
        BY <2>2, <3>1
      <4> QED BY <2>3, <4>1, EmptySeq
    <3>2. CASE DrainTo # cursor
      <4>1. Len(Reading) = 2 /\ Reading[1] = Block /\ Reading[2] = Frame("trunc", Top.mode)
        BY <2>2, <3>2
      <4> QED BY <2>3, <3>2, <4>1, EmptySeq
    <3> QED BY <3>1, <3>2
  <2>5. Reading[1].op = "ingest" /\ held =>
          Reading[1].to <= Len(file)
    BY <1>1, <2>2, <2>3, <2>4
  <2> DEFINE pre == Reading
  <2>6. /\ Sound(pre) /\ pre # <<>> /\ todo' = pre \o Tail(todo)
        /\ \A k \in 2 .. Len(pre) : pre[k].op \in Loops => FALSE
        /\ \A k \in 1 .. Len(pre) : pre[k].op = "drop" => FALSE
        /\ pre[1].op = "cut" => FALSE
        /\ pre[1].op = "ingest" /\ held =>
             pre[1].to <= Len(file)
        /\ \E j \in 1 .. Len(pre) : pre[j].op = "trunc" /\ pre[j].mode = Top.mode
    <3>1. \A k \in 2 .. Len(pre) : pre[k].op \in Loops => FALSE
      BY <2>4 DEF Loops
    <3>2. \A k \in 1 .. Len(pre) : pre[k].op = "drop" => FALSE
      BY <2>4
    <3>3. pre[1].op = "cut" => FALSE
      BY <2>2, <2>3
    <3> QED BY <2>1, <2>2, <2>4, <2>5, <3>1, <3>2, <3>3
  <2> HIDE DEF pre
  <2>7. Top.op \in {"log", "trunc"} /\ Top.mode = "terminal" =>
           Clear' \/ \E j \in 1 .. Len(pre) : pre[j].op \in {"log", "trunc"} /\ pre[j].mode = "terminal"
    BY <2>6
  <2> QED BY <1>1, <1>2, <2>1, <2>6, <2>7, PushOutput
<1> QED BY <1>3, <1>4, <1>5

\* The steps of a loop leave the log alone; the cursor stays or passes the block.
LEMMA LoopOutput ==
  ASSUME OutputInv, Typed',
         \/ Advance \/ ObservedDone \/ (ReadQueue /\ Return)
         \/ \E busy \in BOOLEAN : LogRefused(busy) \/ ObservedRefused(busy)
  PROVE  OutputInv'
<1>1. /\ todo # <<>> /\ todo' = Tail(todo) /\ Top.op \in {"ingest", "ingestObs", "obs"}
      /\ cursor' = cursor \/ (held /\ Doing("ingest") /\ cursor' = Top.to)
      /\ UNCHANGED <<alive, file, held, capture, metadata, tailer, unshown>>
      /\ excused \subseteq excused'
  <2>1. CASE Advance
    BY <2>1 DEF Advance, Doing, Return, Top, agent
  <2>2. CASE ObservedDone
    BY <2>2 DEF ObservedDone, Doing, Return, Top, agent, losses
  <2>3. CASE ReadQueue /\ Return
    BY <2>3 DEF ReadQueue, Doing, Return, Top, agent, losses
  <2>4. CASE \E busy \in BOOLEAN : LogRefused(busy)
    <3>1. PICK busy \in BOOLEAN : LogRefused(busy)
      BY <2>4
    <3> QED BY <3>1, LogRefusedMeans DEF Doing, Top, agent
  <2>5. CASE \E busy \in BOOLEAN : ObservedRefused(busy)
    <3>1. PICK busy \in BOOLEAN : ObservedRefused(busy)
      BY <2>5
    <3> QED BY <3>1, ObservedRefusedMeans DEF Doing, Top, agent
  <2> QED BY <2>1, <2>2, <2>3, <2>4, <2>5
<1>2. Readers /\ unshown = {}
  BY DEF OutputInv, OutputKept
<1>3. held' => cursor' <= Len(file')
  BY <1>1, <1>2 DEF Readers
<1>4. ~held' => ~alive' /\ (metadata' /\ capture' => file' = <<>>)
  BY <1>1, <1>2 DEF Readers
<1>5. ASSUME Clear PROVE Clear'
  BY <1>1, <1>5, SameClear
<1> QED BY <1>1, <1>2, <1>3, <1>4, <1>5, PopOutput

\* The listener's block is pushed on the same log.
LEMMA ReadQueueOutput ==
  ASSUME OutputInv, Typed', ReadQueue, ~Return
  PROVE  OutputInv'
<1>1. Typed
  BY DEF OutputInv
<1>2. /\ todo # <<>> /\ Top.op = "obs" /\ todo' = <<ObsLoop>> \o Tail(todo)
      /\ UNCHANGED <<alive, file, held, cursor, capture, metadata, tailer, losses>>
      /\ WellFormed(ObsLoop) /\ ObsLoop.op = "ingestObs"
  BY <1>1, ReadQueueMeans
<1>3. Sound(<<ObsLoop>>) /\ Len(<<ObsLoop>>) = 1 /\ <<ObsLoop>>[1] = ObsLoop
  BY <1>2, OneFrame
<1>4. UNCHANGED <<unshown, excused>>
  BY <1>2 DEF losses
<1>5. ASSUME Clear PROVE Clear'
  BY <1>2, <1>4, <1>5, SameClear
<1> DEFINE pre == <<ObsLoop>>
<1>6. /\ Sound(pre) /\ pre # <<>> /\ todo' = pre \o Tail(todo) /\ Len(pre) = 1
      /\ pre[1].op = "ingestObs"
  BY <1>2, <1>3
<1> HIDE DEF pre
<1>7. \A k \in 1 .. Len(pre) : pre[k].op = "drop" => FALSE
  BY <1>6
<1>8. \A k \in 2 .. Len(pre) : pre[k].op \in Loops => FALSE
  BY <1>6
<1> QED BY <1>2, <1>4, <1>5, <1>6, <1>7, <1>8, PushOutput

\* A commit leaves the rest of its block, below a whole stop if it breaches.
LEMMA CommitOutput ==
  ASSUME OutputInv, Typed', Commit
  PROVE  OutputInv'
<1> DEFINE e == Head(Top.rest)
           after == [Top EXCEPT !.rest = Tail(@)]
           pre == (IF Breaches(e) THEN StopFrames ELSE <<>>) \o <<after>>
<1>0. Typed /\ Readers
  BY DEF OutputInv
<1>1. /\ todo # <<>> /\ WellFormed(after) /\ after.op = Top.op /\ after.from = Top.from
      /\ after.to = Top.to /\ Top.op \in Loops
  BY <1>0, AfterEvent DEF Commit
<1>2. /\ todo' = pre \o Tail(todo) /\ excused \subseteq excused'
      /\ UNCHANGED <<alive, file, held, cursor, capture, metadata, tailer, unshown>>
  BY DEF Commit, agent, handle
<1>3. ASSUME Clear PROVE Clear'
  BY <1>2, <1>3, SameClear
<1>4. Top.op \notin {"drop", "kill", "log", "trunc", "cut"}
  BY <1>1 DEF Loops
<1>5. after.op = "ingest" /\ held =>
        after.to <= Len(file)
  BY <1>0, <1>1 DEF Readers, Doing, Top
<1>6. CASE Breaches(e)
  <2> HIDE DEF e, after
  <2>1. pre = StopFrames \o <<after>>
    BY <1>6
  <2>2. /\ Sound(pre) /\ Len(pre) = 6 /\ \A k \in 1 .. 5 : pre[k] = StopFrames[k]
    BY <1>1, <2>1, StopThen
  <2> HIDE DEF pre
  <2>3. /\ pre[1].op = "log" /\ pre[2].op = "obs" /\ pre[3].op = "kill" /\ pre[4].op = "log"
        /\ pre[5].op = "drop" /\ pre[6].op \in Loops
    <3>1. /\ pre[1].op = "log" /\ pre[2].op = "obs" /\ pre[3].op = "kill" /\ pre[4].op = "log"
          /\ pre[5].op = "drop"
      BY <2>2, NewFrames DEF Frame
    <3>2. pre[6] = after
      BY <1>1, <2>1, StopThen
    <3> QED BY <1>1, <3>1, <3>2
  <2>4. \A k \in 2 .. Len(pre) : pre[k].op \in Loops => pre[k - 1].op = "drop"
    <3>1. \A k \in 2 .. 6 : k \in {2, 3, 4, 5, 6}
      OBVIOUS
    <3>2. \A k \in {2, 3, 4, 5} : pre[k].op \notin Loops
      BY <2>3 DEF Loops
    <3>3. pre[6 - 1].op = "drop"
      BY <2>3
    <3> QED BY <2>2, <2>3, <3>1, <3>2, <3>3
  <2>5. \A k \in 1 .. Len(pre) : pre[k].op = "drop" => k > 2 /\ pre[k - 2].op = "kill"
    <3>1. \A k \in 1 .. 6 : k \in {1, 2, 3, 4, 6} \/ k = 5
      OBVIOUS
    <3>2. \A k \in {1, 2, 3, 4, 6} : pre[k].op # "drop"
      BY <2>3 DEF Loops
    <3>3. pre[5 - 2].op = "kill"
      BY <2>3
    <3> QED BY <2>2, <3>1, <3>2, <3>3
  <2>6. pre # <<>> /\ pre[1].op # "ingest" /\ pre[1].op # "cut"
    <3>1. pre[1].op # "ingest" /\ pre[1].op # "cut"
      BY <2>3
    <3>2. ASSUME pre = <<>> PROVE FALSE
      <4>1. Len(pre) = 0
        BY <3>2
      <4> QED BY <2>2, <4>1
    <3> QED BY <3>1, <3>2
  <2> QED BY <1>1, <1>2, <1>3, <1>4, <2>2, <2>4, <2>5, <2>6, PushOutput
<1>7. CASE ~Breaches(e)
  <2> HIDE DEF e, after
  <2>1. pre = <<after>>
    <3>1. <<after>> \in Seq({after})
      OBVIOUS
    <3> QED BY <1>7, <3>1, ConcatEmptySeq
  <2>2. after.op # "kill" /\ after.op # "drop" /\ after.op # "cut"
    BY <1>1 DEF Loops
  <2>3. Sound(pre) /\ Len(pre) = 1 /\ pre[1] = after
    BY <1>1, <2>1, <2>2, OneFrame
  <2> HIDE DEF pre
  <2>4. /\ pre # <<>> /\ pre[1].op # "cut"
        /\ \A k \in 2 .. Len(pre) : pre[k].op \in Loops => FALSE
        /\ \A k \in 1 .. Len(pre) : pre[k].op = "drop" => FALSE
    BY <2>2, <2>3, EmptySeq
  <2>5. pre[1].op = "ingest" /\ held =>
          pre[1].to <= Len(file)
    BY <1>5, <2>3
  <2> QED BY <1>1, <1>2, <1>3, <1>4, <2>3, <2>4, <2>5, PushOutput
<1> QED BY <1>6, <1>7

\* The check of the size: the last one takes the tailer along, and a cut is only
\* decided when both readers have the file.
LEMMA TruncateCheckOutput ==
  ASSUME OutputInv, Typed', TruncateCheck
  PROVE  OutputInv'
<1> DEFINE len == Len(file)
           due == held /\ len >= Cap /\ cursor >= len /\ TailerPast(tailer', len)
           cut == [Top EXCEPT !.op = "cut", !.to = len]
<1>1. /\ Typed /\ Readers /\ unshown = {} /\ todo # <<>> /\ Top \in FrameType /\ WellFormed(Top)
      /\ Top.op = "trunc" /\ Len(file) \in Nat /\ tailer \in Nat
      /\ tailer' = IF Top.mode = "terminal" /\ held THEN CatchUp ELSE tailer
      /\ UNCHANGED <<alive, file, held, cursor, capture, metadata, unshown, excused>>
  BY Facts DEF OutputInv, OutputKept, TruncateCheck, Doing, Top, agent, losses, Typed, MeterTyped
<1>2. /\ CatchUp \in Nat /\ (CatchUp = tailer \/ CatchUp \in tailer + 1 .. Len(file))
      /\ capture => \A i \in tailer + 1 .. Len(file) : Ends(file[i]) => i <= CatchUp
  BY <1>1, CatchUpBounds
<1>3. tailer' \in Nat /\ tailer' >= tailer
  BY <1>1, <1>2
<1>4. ASSUME Clear PROVE Clear'
  <2>1. LinesIn(tailer', Len(file)) \subseteq LinesIn(tailer, Len(file))
    BY <1>1, <1>3, LinesShrink
  <2>2. LinesIn(tailer, Len(file))' = LinesIn(tailer', Len(file))
    BY <1>1 DEF LinesIn
  <2> QED BY <1>1, <1>4, <2>1, <2>2 DEF Clear
<1>5. ASSUME Top.mode = "terminal" PROVE Clear'
  <2>1. CASE held
    <3> SUFFICES ASSUME metadata', capture' PROVE LinesIn(tailer, Len(file))' \subseteq excused'
      BY DEF Clear
    <3>1. tailer' = CatchUp /\ capture
      BY <1>1, <1>5, <2>1
    <3>2. ASSUME NEW j \in CatchUp + 1 .. Len(file), Ends(file[j]) PROVE FALSE
      <4>1. j \in tailer + 1 .. Len(file)
        BY <1>1, <1>2
      <4>2. j <= CatchUp
        BY <1>2, <3>1, <3>2, <4>1
      <4> QED BY <1>1, <1>2, <4>2
    <3>3. LinesIn(tailer, Len(file))' = LinesIn(CatchUp, Len(file))
      BY <1>1, <3>1 DEF LinesIn
    <3>4. LinesIn(CatchUp, Len(file)) = {}
      BY <3>2 DEF LinesIn
    <3> QED BY <3>3, <3>4
  <2>2. CASE ~held
    <3>1. metadata' /\ capture' => file' = <<>>
      BY <1>1, <2>2 DEF Readers
    <3> QED BY <1>3, <3>1, EmptyClear
  <2> QED BY <2>1, <2>2
<1>6. CASE due
  <2>0. todo' = <<cut>> \o Tail(todo) /\ TailerPast(tailer', Len(file))
    BY <1>6 DEF TruncateCheck
  <2> HIDE DEF due
  <2>1. /\ cut.op = "cut" /\ cut.to = Len(file) /\ cut.from = Top.from
        /\ cut.rest = Top.rest /\ cut \in FrameType
    BY <1>1 DEF FrameType
  <2>2. WellFormed(cut)
    BY <1>1, <2>1 DEF WellFormed, Loops
  <2> HIDE DEF cut
  <2>3. Sound(<<cut>>) /\ Len(<<cut>>) = 1 /\ <<cut>>[1] = cut
    BY <2>1, <2>2, OneFrame
  <2> DEFINE pre == <<cut>>
  <2>4. /\ Sound(pre) /\ Len(pre) = 1 /\ pre # <<>> /\ pre[1] = cut /\ todo' = pre \o Tail(todo)
        /\ \A k \in 2 .. Len(pre) : pre[k].op \in Loops => FALSE
        /\ \A k \in 1 .. Len(pre) : pre[k].op = "drop" => FALSE
    BY <2>0, <2>1, <2>3, EmptySeq
  <2> HIDE DEF pre
  <2>5. pre[1].op # "ingest" /\ (pre[1].op = "cut" => (capture => tailer' >= pre[1].to))
    BY <2>0, <2>1, <2>4 DEF TailerPast
  <2> QED BY <1>1, <1>4, <1>5, <2>4, <2>5, PushOutput
<1>7. CASE ~due
  <2>1. todo' = <<>> \o Tail(todo)
    BY <1>7 DEF TruncateCheck
  <2> HIDE DEF due
  <2>2. Tail(todo) \in Seq(FrameType)
    BY <1>1, HeadTailProperties DEF Typed, Stack, Sound
  <2>3. todo' = Tail(todo)
    BY <2>1, <2>2, ConcatEmptySeq
  <2>4. held' => cursor' <= Len(file')
    BY <1>1 DEF Readers
  <2>5. ~held' => ~alive' /\ (metadata' /\ capture' => file' = <<>>)
    BY <1>1 DEF Readers
  <2> QED BY <1>1, <1>4, <1>5, <2>3, <2>4, <2>5, PopOutput
<1> QED BY <1>6, <1>7

\* The cut takes nothing the tailer has not: it was past the length that is cut.
LEMMA TruncateOutput ==
  ASSUME OutputInv, Typed', Truncate
  PROVE  OutputInv'
<1>1. /\ Typed /\ Readers /\ unshown = {} /\ todo # <<>> /\ todo' = Tail(todo) /\ Top.op = "cut"
      /\ Doing("cut") /\ Top.to \in Nat /\ tailer \in Nat /\ Len(file) \in Nat
      /\ UNCHANGED <<alive, held, capture, metadata>> /\ excused \subseteq excused'
  BY Facts DEF OutputInv, OutputKept, Truncate, Doing, Return, Top, Typed, MeterTyped, FrameType
<1>2. capture => LinesIn(tailer, Top.to) = {}
  <2> SUFFICES ASSUME capture, NEW j \in tailer + 1 .. Top.to PROVE FALSE
    BY DEF LinesIn
  <2>1. tailer >= Top.to
    BY <1>1 DEF Readers
  <2> QED BY <1>1, <2>1
<1>3. unshown' = {}
  BY <1>1, <1>2 DEF Truncate
<1>4. \/ file' = <<>> /\ cursor' = 0 /\ tailer' = 0
      \/ UNCHANGED <<file, cursor, tailer>>
  BY DEF Truncate
<1>5. held' => cursor' <= Len(file')
  <2>1. Len(<<>>) = 0
    OBVIOUS
  <2> QED BY <1>1, <1>4, <2>1 DEF Readers
<1>6. ~held' => ~alive' /\ (metadata' /\ capture' => file' = <<>>)
  BY <1>1, <1>4 DEF Readers
<1>7. ASSUME Clear PROVE Clear'
  <2>1. CASE file' = <<>> /\ tailer' = 0
    BY <2>1, EmptyClear
  <2>2. CASE UNCHANGED <<file, cursor, tailer>>
    BY <1>1, <1>7, <2>2, SameClear
  <2> QED BY <1>4, <2>1, <2>2
<1> QED BY <1>1, <1>3, <1>5, <1>6, <1>7, PopOutput

\* The kill, confirmed, or the return that keeps the handle: into no drain, or
\* into one that is still inside its log.
LEMMA KillOutput ==
  ASSUME OutputInv, Typed', Kill, ReturnsInside
  PROVE  OutputInv'
<1>1. /\ Typed /\ Readers /\ Shown /\ Below /\ unshown = {} /\ Doing("kill") /\ todo # <<>>
      /\ Top.op = "kill" /\ Len(todo) \in Nat /\ todo[1] = Top /\ 1 \in 1 .. Len(todo)
      /\ UNCHANGED <<file, held, cursor, capture, metadata, tailer, unshown>>
      /\ excused \subseteq excused'
  BY Facts DEF OutputInv, OutputKept, Readers, Kill, Doing, Top
<1>2. ASSUME Clear PROVE Clear'
  BY <1>1, <1>2, SameClear
<1>3. CASE alive' = FALSE /\ Return
  <2>1. todo' = Tail(todo)
    BY <1>3 DEF Return
  <2>2. held' => cursor' <= Len(file')
    BY <1>1 DEF Readers
  <2>3. ~held' => ~alive' /\ (metadata' /\ capture' => file' = <<>>)
    BY <1>1, <1>3 DEF Readers
  <2> QED BY <1>1, <1>2, <1>3, <2>1, <2>2, <2>3, PopOutput
<1>4. CASE alive /\ alive' = alive /\ todo' = SubSeq(todo, 4, Len(todo))
  <2>1. held /\ held'
    BY <1>1, <1>4 DEF Readers
  <2>2. /\ 3 <= Len(todo) /\ todo[2] = Frame("log", "terminal")
        /\ todo[3] = Frame("drop", "terminal")
    BY <1>1 DEF Typed, Stack, Sound
  <2>3. /\ Len(todo') = Len(todo) - 3
        /\ \A k \in 1 .. Len(todo') : todo'[k] = todo[k + 3] /\ k + 3 \in 4 .. Len(todo)
    <3>1. Spliced(todo', todo, 3, <<>>)
      BY <1>1, <1>4, PopThree DEF Kill
    <3>2. Len(<<>>) = 0
      OBVIOUS
    <3>3. /\ Len(todo') = 0 + Len(todo) - 3
          /\ \A k \in 0 + 1 .. Len(todo') :
               k - 0 + 3 \in 3 + 1 .. Len(todo) /\ todo'[k] = todo[k - 0 + 3]
      BY <3>1, <3>2 DEF Spliced
    <3>4. \A k \in 1 .. Len(todo') : k \in 0 + 1 .. Len(todo') /\ k - 0 + 3 = k + 3
      OBVIOUS
    <3> QED BY <1>1, <3>3, <3>4
  <2>4. todo' # <<>> => Len(todo) > 3 /\ Top' = todo[4]
    <3>1. todo' \in Seq(FrameType)
      BY DEF Typed, Stack, Sound
    <3>2. todo' # <<>> => 1 \in 1 .. Len(todo') /\ Head(todo') = todo'[1]
      BY <3>1, EmptySeq, LenProperties
    <3>3. todo' # <<>> => todo'[1] = todo[1 + 3] /\ Len(todo') > 0
      BY <2>3, <3>2
    <3> QED BY <1>1, <2>3, <3>2, <3>3 DEF Top
  <2>5. Below'
    <3> SUFFICES ASSUME NEW k \in 2 .. Len(todo'), todo'[k].op \in Loops
                 PROVE  todo'[k - 1].op = "drop"
      BY DEF Below
    <3>1. k \in 1 .. Len(todo') /\ k - 1 \in 1 .. Len(todo') /\ (k - 1) + 3 = (k + 3) - 1
      BY <1>1, <2>3
    <3>2. todo'[k] = todo[k + 3] /\ todo'[k - 1] = todo[(k + 3) - 1] /\ k + 3 \in 2 .. Len(todo)
      BY <1>1, <2>3, <3>1
    <3> QED BY <1>1, <2>1, <3>2 DEF Below
  <2>6. (Doing("ingest") /\ held => Top.to <= Len(file))'
    BY <1>1, <1>4, <2>4 DEF ReturnsInside, Doing, Top
  <2>7. ~Doing("cut")'
    <3> SUFFICES ASSUME todo' # <<>>, Head(todo').op = "cut" PROVE FALSE
      BY DEF Doing
    <3>1. 4 \in 1 .. Len(todo) /\ todo[4].op = "cut"
      BY <1>1, <2>4 DEF Top
    <3>2. 4 = 1
      BY <1>1, <3>1 DEF Typed, Stack, Sound
    <3> QED BY <3>2
  <2>8. Shown'
    <3> SUFFICES ASSUME NEW i \in 1 .. Len(todo'), todo'[i].op = "drop", todo'[i].mode # "live"
                 PROVE  Killing(i)'
      BY DEF Shown
    <3>1. todo'[i] = todo[i + 3] /\ i + 3 \in 4 .. Len(todo) /\ i + 3 \in 1 .. Len(todo)
      BY <1>1, <2>3
    <3>2. Killing(i + 3)
      <4>1. todo[i + 3].op = "drop" /\ todo[i + 3].mode # "live"
        BY <3>1
      <4>2. Killing(i + 3) \/ (~alive /\ (Due(i + 3) \/ Clear))
        BY <1>1, <3>1, <4>1 DEF Shown
      <4> QED BY <1>4, <4>2
    <3>3. todo[(i + 3) - 2].op = "kill"
      BY <3>2 DEF Killing
    <3>4. i # 1 /\ i # 2
      BY <2>2, <3>3 DEF Frame
    <3>5. i - 2 \in 1 .. Len(todo') /\ (i - 2) + 3 = (i + 3) - 2 /\ i > 2
      BY <1>1, <2>3, <3>4
    <3>6. todo'[i - 2] = todo[(i + 3) - 2]
      BY <2>3, <3>5
    <3> QED BY <3>3, <3>5, <3>6 DEF Killing
  <2>9. Readers'
    BY <1>1, <2>1, <2>5, <2>6, <2>7 DEF Readers
  <2> QED BY <1>1, <2>8, <2>9 DEF OutputInv, OutputKept
<1> QED BY <1>3, <1>4 DEF Kill

\* The drop: unless it cuts a live process off, the log it unlinks has been shown.
LEMMA DropOutput ==
  ASSUME OutputInv, Typed', Drop
  PROVE  OutputInv'
<1>1. /\ Typed /\ Readers /\ Shown /\ unshown = {} /\ Doing("drop") /\ todo # <<>>
      /\ Top.op = "drop" /\ Len(todo) \in Nat /\ todo[1] = Top /\ 1 \in 1 .. Len(todo)
      /\ todo' = Tail(todo) /\ ~held' /\ ~alive'
      /\ UNCHANGED <<capture, metadata, tailer>> /\ tailer \in Nat
      /\ excused \subseteq excused'
  BY Facts DEF OutputInv, OutputKept, Drop, Gone, Return, Doing, Top, Typed, MeterTyped
<1>2. metadata' /\ capture' => file' = <<>>
  BY <1>1 DEF Drop
<1>3. Clear'
  BY <1>1, <1>2, EmptyClear
<1>4. metadata /\ capture /\ Top.mode # "live" => LinesIn(tailer, Len(file)) \subseteq excused
  <2> SUFFICES ASSUME metadata, capture, Top.mode # "live"
               PROVE  LinesIn(tailer, Len(file)) \subseteq excused
    OBVIOUS
  <2>1. Killing(1) \/ Due(1) \/ Clear
    BY <1>1 DEF Shown
  <2>2. ~Killing(1)
    BY DEF Killing
  <2>3. ~Due(1)
    <3>1. \A j \in 1 .. 1 - 1 : FALSE
      OBVIOUS
    <3> QED BY <3>1 DEF Due
  <2> QED BY <2>1, <2>2, <2>3 DEF Clear
<1>5. unshown' = {}
  BY <1>1, <1>4 DEF Drop
<1> QED BY <1>1, <1>2, <1>3, <1>5, PopOutput

\* Nothing is read, cut or shown yet.
LEMMA InitOutput ==
  ASSUME Init
  PROVE  OutputInv
<1>1. Typed
  BY InitTyped
<1>2. Len(todo) = 0 /\ todo = <<>> /\ Len(file) = 0 /\ cursor = 0 /\ unshown = {}
  BY EmptySeq DEF Init
<1>3. Below /\ Shown
  <2>1. \A k \in 2 .. 0 : FALSE
    OBVIOUS
  <2>2. \A k \in 1 .. 0 : FALSE
    OBVIOUS
  <2> QED BY <1>2, <2>1, <2>2 DEF Below, Shown
<1>4. Readers
  BY <1>2, <1>3 DEF Readers, Doing
<1> QED BY <1>1, <1>2, <1>3, <1>4 DEF OutputInv, OutputKept

\* Every step keeps the tailer's share, under the hypothesis on the kill.
LEMMA NextOutput ==
  ASSUME OutputInv, [Next]_vars, [ReturnsInside]_vars
  PROVE  OutputInv'
<1>1. Typed'
  BY NextTyped DEF OutputInv
<1>2. CASE WriteLine \/ WriteRest \/ Forward \/ Exit \/ TailerPass \/ UNCHANGED vars
  BY <1>1, <1>2, AgentOutput
<1>3. CASE ReadTail
  BY <1>1, <1>3, ReadTailOutput
<1>4. CASE Commit
  BY <1>1, <1>4, CommitOutput
<1>5. CASE TruncateCheck
  BY <1>1, <1>5, TruncateCheckOutput
<1>6. CASE Truncate
  BY <1>1, <1>6, TruncateOutput
<1>7. CASE ReadQueue
  BY <1>1, <1>7, ReadQueueOutput, LoopOutput
<1>8. CASE \/ Advance \/ ObservedDone
           \/ \E busy \in BOOLEAN : LogRefused(busy) \/ ObservedRefused(busy)
  BY <1>1, <1>8, LoopOutput
<1>9. CASE Kill

  <2>2. CASE ReturnsInside
    BY <1>1, <1>9, <2>2, KillOutput
  <2>3. CASE UNCHANGED vars
    BY <1>1, <2>3, AgentOutput
  <2> QED BY <2>2, <2>3
<1>10. CASE Drop
  BY <1>1, <1>10, DropOutput
<1>11. CASE Tick \/ Stop \/ Reap
  BY <1>1, <1>11, OperationOutput
<1>12. CASE StopAgain \/ Launch \/ Crash \/ Adopt \/ Reconcile
  BY <1>1, <1>12, GenerationOutput
<1> QED
  BY <1>2, <1>3, <1>4, <1>5, <1>6, <1>7, <1>8, <1>9, <1>10, <1>11, <1>12 DEF Next, Drain

\* A whole line the length check has seen reaches output.log before the cut or
\* the unlink takes it (usage.rs, maybe_truncate_raw_log; spawn.rs), as long as
\* no stop whose kill stays unconfirmed returns to a drain whose block has been
\* cut off meanwhile.
THEOREM WholeLinesAreShown == Spec /\ [][ReturnsInside]_vars => []OutputKept
<1>1. Init => OutputInv
  BY InitOutput
<1>2. OutputInv /\ [Next]_vars /\ [ReturnsInside]_vars => OutputInv'
  BY NextOutput
<1>3. OutputInv => OutputKept
  BY DEF OutputInv
<1> QED BY <1>1, <1>2, <1>3, PTL DEF Spec

-----------------------------------------------------------------------------
(* Instances that meet the hypotheses *)

\* Only the last event of all may stop the instance: nothing follows it in a block.
LEMMA LastEventEndsBlock ==
  ASSUME Metered, StopAt \subseteq {MaxEvents}
  PROVE  BreachEndsBlock
<1> SUFFICES ASSUME InLoop, Breaches(Head(Top.rest)) PROVE Len(Top.rest) = 1
  BY DEF BreachEndsBlock
<1>1. Typed /\ Ordered
  BY DEF Metered
<1>2. /\ todo # <<>> /\ Top.rest # <<>> /\ Top.rest \in Seq(Event) /\ Len(todo) \in Nat
      /\ MaxEvents \in Nat /\ todo[1] = Top /\ 1 \in 1 .. Len(todo)
  BY <1>1, Facts, AfterEvent DEF InLoop
<1>3. /\ Len(Top.rest) \in Nat \ {0} /\ DOMAIN Top.rest = 1 .. Len(Top.rest)
      /\ Head(Top.rest) = Top.rest[1]
  BY <1>2, LenProperties, EmptySeq
<1>4. Head(Top.rest).id = MaxEvents
  BY DEF Breaches
<1>5. Increasing(Top.rest)
  BY <1>1, <1>2 DEF Ordered
<1>6. ASSUME Len(Top.rest) # 1 PROVE FALSE
  <2>0. \A n \in Nat \ {0} : n # 1 => 1 \in 1 .. n /\ 2 \in 1 .. n
    OBVIOUS
  <2>1. 1 \in 1 .. Len(Top.rest) /\ 2 \in 1 .. Len(Top.rest)
    BY <1>3, <1>6, <2>0
  <2>2. Top.rest[1].id < Top.rest[2].id
    BY <1>3, <1>5, <2>1 DEF Increasing
  <2>3. Top.rest[2] \in Event
    BY <1>2, <2>1
  <2>4. Top.rest[2].id \in 1 .. MaxEvents
    BY <2>3 DEF Event, Ids
  <2> QED BY <1>2, <1>3, <1>4, <2>2, <2>4
<1> QED BY <1>6

\* Where only the last event may cross a ceiling that stops the instance, no
\* event is in the ledger twice ("never a double-count", usage.rs:146), whatever
\* is read again: the hypothesis of NoEventCountsTwice is met by itself.
THEOREM LastBreachNeverDoubles ==
  ASSUME StopAt \subseteq {MaxEvents}
  PROVE  Spec => []NoDoubleCount
<1>1. Init => Metered
  BY InitMetered
<1>2. Metered /\ [Next]_vars => Metered'
  BY NextMetered
<1>3. Metered => BreachEndsBlock
  BY LastEventEndsBlock
<1>4. Spec => []BreachEndsBlock
  BY <1>1, <1>2, <1>3, PTL DEF Spec
<1>5. Spec /\ []BreachEndsBlock => []NoDoubleCount
  BY NoEventCountsTwice
<1> QED BY <1>4, <1>5, PTL
-----------------------------------------------------------------------------
(* The account *)

\* The hypothesis: a stop whose kill is not confirmed returns to no drain.
KillReturns == Doing("kill") /\ alive' => Len(todo) = 3

\* A chunk that ends a line follows the part it ends; the part the agent has
\* begun is the last chunk; what is cut inside its text is ended by the next
\* chunk, or has still to be, or is lost; what does not live writes no more.
Lines ==
  /\ \A p \in 2 .. Len(file) : file[p].part = "rest" =>
       file[p - 1].id = file[p].id /\ file[p - 1].part \in Parts
  /\ half # NoHalf /\ file # <<>> =>
       file[Len(file)].id = half.id /\ file[Len(file)].part = half.part
  /\ \A p \in 1 .. Len(file) : file[p].part = "torn" =>
       \/ file[p].id \in excused
       \/ p < Len(file) /\ file[p + 1].part = "rest"
       \/ p = Len(file) /\ half # NoHalf
  /\ ~alive => half = NoHalf
  /\ row = "down" => ~alive

\* The cursor leaves no line in two, unless its first part has settled it.
Whole ==
  /\ held /\ cursor < Len(file) /\ file[cursor + 1].part = "rest" =>
       file[cursor + 1].id \in Settled
  /\ half # NoHalf =>
       half.id \in Settled \/ (held /\ cursor < Len(file) /\ file # <<>>)

\* The block of a loop: what the loop has still to commit is still unread, and
\* all that lies between the cursor and its end is settled, in its rest, or cut
\* off by the end itself.
InBlock ==
  /\ Doing("ingest") /\ held =>
       /\ cursor <= Top.to /\ IdsOf(Top.rest) \subseteq Unread
       /\ \A p \in cursor + 1 .. Top.to :
            \/ file[p].id \in Settled \cup IdsOf(Top.rest)
            \/ Top.mode = "terminal" /\ p = Top.to /\ file[p].part = "torn"
  /\ Doing("ingestObs") => IdsOf(observed.events) \subseteq Settled \cup IdsOf(Top.rest)
  /\ Doing("cut") => held /\ cursor >= Top.to

\* Nothing that can still be read would be lost with the handle.
Drained == Unread \subseteq Settled

\* Call f reads a log of n chunks to its end for the last time.
LastRead(f, n) ==
  f.mode = "terminal" /\ (f.op = "log" \/ (f.op = "ingest" /\ f.to = n))

\* Call f takes what the listener has queued for the last time.
LastFetch(f) == f.mode = "terminal" /\ f.op \in {"obs", "ingestObs"}

\* A handle is let go of after both drains, and holds nothing when it is gone.
Waits ==
  \A i \in 1 .. Len(todo) : todo[i].op = "drop" /\ todo[i].mode # "live" =>
    \/ Killing(i)
    \/ ~alive /\ ((\E j \in 1 .. i - 1 : LastRead(todo[j], Len(file))) \/ Drained)
Fetches ==
  \A i \in 1 .. Len(todo) : todo[i].op = "drop" =>
    (\E j \in 1 .. i - 1 : LastFetch(todo[j])) \/ observed.events = <<>>
Quit == ~held => observed.events = <<>> /\ queue = <<>>
Tidy == Waits /\ Fetches /\ Quit

Account == Lines /\ Whole /\ InBlock /\ Tidy /\ Accounted

\* Rows, announcements and excuses are never taken back.
LEMMA SettledGrows ==
  ASSUME [Next]_vars
  PROVE  Settled \subseteq Settled' /\ excused \subseteq excused'
<1>1. rows \subseteq rows' /\ announced \subseteq announced' /\ excused \subseteq excused'
  <2>1. CASE WriteLine \/ WriteRest
    BY <2>1 DEF WriteLine, WriteRest, Appended
  <2>2. CASE Forward \/ Exit \/ TailerPass \/ UNCHANGED vars
    BY <2>2 DEF Forward, Exit, TailerPass, vars, losses
  <2>3. CASE ReadTail \/ Commit \/ Advance
    BY <2>3 DEF ReadTail, Commit, Advance
  <2>4. CASE TruncateCheck \/ Truncate \/ ReadQueue \/ ObservedDone
    BY <2>4 DEF TruncateCheck, Truncate, ReadQueue, ObservedDone, losses
  <2>5. ASSUME NEW busy \in BOOLEAN, LogRefused(busy) \/ ObservedRefused(busy)
        PROVE  rows \subseteq rows' /\ announced \subseteq announced' /\ excused \subseteq excused'
    BY <2>5, LogRefusedMeans, ObservedRefusedMeans
  <2>6. CASE Kill \/ Drop \/ StopAgain \/ Crash
    BY <2>6 DEF Kill, Drop, StopAgain, Gone, Crash
  <2>7. CASE Tick \/ Stop \/ Reap \/ Reconcile
    BY <2>7 DEF Tick, Stop, Reap, Reconcile, losses
  <2>8. CASE Launch \/ Adopt
    BY <2>8 DEF Launch, Adopt, Attach
  <2> QED BY <2>1, <2>2, <2>3, <2>4, <2>5, <2>6, <2>7, <2>8 DEF Next, Drain
<1>2. Counted \subseteq Counted'
  BY <1>1 DEF Counted
<1> QED BY <1>1, <1>2 DEF Settled

-----------------------------------------------------------------------------
(* The lines of the log *)

\* Steps that write nothing and end nothing.
LEMMA SameLines ==
  ASSUME Lines, UNCHANGED <<file, half, alive>>, excused \subseteq excused',
         row' = "down" => row = "down" \/ ~alive
  PROVE  Lines'
BY DEF Lines

\* An empty log has no lines.
LEMMA EmptyLines ==
  ASSUME file' = <<>>, ~alive' => half' = NoHalf, row' = "down" => ~alive'
  PROVE  Lines'
<1>1. Len(file') = 0
  BY EmptySeq
<1>2. (\A p \in 2 .. 0 : FALSE) /\ (\A p \in 1 .. 0 : FALSE)
  OBVIOUS
<1> QED BY <1>1, <1>2 DEF Lines

\* The end of the process leaves what it had begun, and calls it lost.
LEMMA EndLines ==
  ASSUME Typed, Lines, file' = file, half' = NoHalf, excused \subseteq excused',
         half = NoHalf \/ Unfinished \subseteq excused', row' = "down" => ~alive'
  PROVE  Lines'
<1>1. ASSUME NEW p \in 1 .. Len(file), file[p].part = "torn"
      PROVE  file[p].id \in excused' \/ (p < Len(file) /\ file[p + 1].part = "rest")
  <2>1. CASE p = Len(file) /\ half # NoHalf
    <3>1. file # <<>>
      BY Facts, EmptySeq
    <3>2. file[p].id = half.id /\ half.part = "torn"
      BY <1>1, <2>1, <3>1 DEF Lines
    <3> QED BY <2>1, <3>2 DEF Unfinished
  <2> QED BY <1>1, <2>1 DEF Lines
<1>2. \A p \in 2 .. Len(file) : file[p].part = "rest" =>
        file[p - 1].id = file[p].id /\ file[p - 1].part \in Parts
  BY DEF Lines
<1> QED BY <1>1, <1>2 DEF Lines

\* What a write of the agent adds to the log: a line, its first part, or the
\* chunk that ends it.
New == file'[Len(file) + 1]
(* What the agent appends, by either of its writes. *)
LEMMA WriteMeans ==
  ASSUME Typed, WriteLine \/ WriteRest
  PROVE  /\ Len(file) \in Nat /\ Len(file') = Len(file) + 1
         /\ \A p \in 1 .. Len(file) : file'[p] = file[p]
         /\ \/ /\ half = NoHalf /\ produced' = produced + 1 /\ New.id = produced'
               /\ New.part \in {"line"} \cup Parts
               /\ half' = IF New.part = "line" THEN NoHalf
                          ELSE [id |-> produced', part |-> New.part]
            \/ /\ half # NoHalf /\ half.part \in Parts /\ half' = NoHalf /\ produced' = produced
               /\ New.part = "rest" /\ New.id = half.id
         /\ alive /\ excused' = IF held THEN excused ELSE excused \cup {New.id}
         /\ UNCHANGED <<source, metadata, row, alive, queue, gen, handle, rows, todo, faults,
                        errors, skips, announced, unshown>>
<1>1. /\ file \in Seq(Chunk) /\ Len(file) \in Nat
      /\ half # NoHalf => half.part \in Parts
  BY Facts DEF Typed, MeterTyped
<1>2. ASSUME NEW part, NEW id, Appended(part, id)
      PROVE  /\ Len(file') = Len(file) + 1 /\ \A p \in 1 .. Len(file) : file'[p] = file[p]
             /\ New.id = id /\ New.part = part
             /\ excused' = IF held THEN excused ELSE excused \cup {New.id}
             /\ UNCHANGED <<source, metadata, row, alive, queue, gen, handle, rows, todo,
                            faults, errors, skips, announced, unshown>>
  <2> DEFINE c == [id |-> id, seq |-> seq', part |-> part]
  <2>1. file' = Append(file, c)
    BY <1>2 DEF Appended
  <2>2. c.id = id /\ c.part = part
    OBVIOUS
  <2> HIDE DEF c
  <2>3. /\ Len(file') = Len(file) + 1 /\ New = c
        /\ \A p \in 1 .. Len(file) : file'[p] = file[p]
    BY <1>1, <2>1 DEF New
  <2> HIDE DEF New
  <2> QED BY <1>2, <2>2, <2>3 DEF Appended
<1>3. CASE WriteLine
  <2>1. PICK part \in {"line"} \cup Parts :
          /\ Appended(part, produced')
          /\ half' = IF part = "line" THEN NoHalf ELSE [id |-> produced', part |-> part]
    BY <1>3 DEF WriteLine
  <2>2. half = NoHalf /\ produced' = produced + 1 /\ alive
    BY <1>3 DEF WriteLine
  <2>3. New.id = produced' /\ New.part = part
    BY <1>2, <2>1
  <2>4. /\ Len(file') = Len(file) + 1 /\ \A p \in 1 .. Len(file) : file'[p] = file[p]
        /\ excused' = IF held THEN excused ELSE excused \cup {New.id}
        /\ UNCHANGED <<source, metadata, row, alive, queue, gen, handle, rows, todo,
                       faults, errors, skips, announced, unshown>>
    BY <1>2, <2>1
  <2> QED BY <1>1, <2>1, <2>2, <2>3, <2>4
<1>4. CASE WriteRest
  <2>1. half # NoHalf /\ half' = NoHalf /\ produced' = produced /\ Appended("rest", half.id) /\ alive
    BY <1>4 DEF WriteRest
  <2>2. New.id = half.id /\ New.part = "rest"
    BY <1>2, <2>1
  <2>3. /\ Len(file') = Len(file) + 1 /\ \A p \in 1 .. Len(file) : file'[p] = file[p]
        /\ excused' = IF held THEN excused ELSE excused \cup {New.id}
        /\ UNCHANGED <<source, metadata, row, alive, queue, gen, handle, rows, todo,
                       faults, errors, skips, announced, unshown>>
    BY <1>2, <2>1
  <2>4. half.part \in Parts /\ Len(file) \in Nat
    BY <1>1, <2>1
  <2> HIDE DEF New
  <2> QED BY <2>1, <2>2, <2>3, <2>4
<1> QED BY <1>3, <1>4

\* A line, or its first part, goes behind whole ones; the rest behind its part.
LEMMA WriteLines ==
  ASSUME Typed, Lines, WriteLine \/ WriteRest
  PROVE  Lines'
<1>1. /\ Len(file) \in Nat /\ Len(file') = Len(file) + 1 /\ Parts \subseteq {"json", "torn"}
      /\ \A p \in 1 .. Len(file) : file'[p] = file[p]
      /\ alive /\ alive' = alive /\ row' = row /\ excused \subseteq excused'
  BY Facts, WriteMeans
<1> DEFINE n == Len(file) + 1
<1>2. n \in Nat /\ Len(file') = n /\ file'[n] = New /\ 1 .. Len(file') = 1 .. Len(file) \cup {n}
      /\ \A p \in 2 .. n : p = n \/ (p \in 2 .. Len(file) /\ p - 1 \in 1 .. Len(file) /\ p \in 1 .. Len(file))
  BY <1>1 DEF New
<1>3. \/ /\ half = NoHalf /\ New.part \in {"line"} \cup Parts /\ New.id = produced'
         /\ half' = IF New.part = "line" THEN NoHalf ELSE [id |-> produced', part |-> New.part]
      \/ /\ half # NoHalf /\ half.part \in Parts /\ half' = NoHalf
         /\ New.part = "rest" /\ New.id = half.id
  BY WriteMeans
<1>4. \A p \in 2 .. Len(file') : file'[p].part = "rest" =>
        file'[p - 1].id = file'[p].id /\ file'[p - 1].part \in Parts
  <2> SUFFICES ASSUME NEW p \in 2 .. n, file'[p].part = "rest"
               PROVE  file'[p - 1].id = file'[p].id /\ file'[p - 1].part \in Parts
    BY <1>2
  <2>1. CASE p = n
    <3>1. half # NoHalf /\ half.part \in Parts /\ New.id = half.id
      BY <1>1, <1>2, <1>3, <2>1
    <3>2. p - 1 = Len(file) /\ Len(file) \in 1 .. Len(file)
      BY <1>1, <2>1
    <3>3. file # <<>>
      BY <3>2, EmptySeq
    <3>4. file[Len(file)].id = half.id /\ file[Len(file)].part = half.part
      BY <3>1, <3>3 DEF Lines
    <3> QED BY <1>1, <1>2, <2>1, <3>1, <3>2, <3>4
  <2>2. CASE p # n
    <3>1. p \in 2 .. Len(file) /\ file'[p] = file[p] /\ file'[p - 1] = file[p - 1]
      BY <1>1, <1>2, <2>2
    <3> QED BY <3>1 DEF Lines
  <2> QED BY <2>1, <2>2
<1>5. half' # NoHalf => file'[Len(file')].id = half'.id /\ file'[Len(file')].part = half'.part
  BY <1>2, <1>3
<1>6. \A p \in 1 .. Len(file') : file'[p].part = "torn" =>
        \/ file'[p].id \in excused'
        \/ p < Len(file') /\ file'[p + 1].part = "rest"
        \/ p = Len(file') /\ half' # NoHalf
  <2> SUFFICES ASSUME NEW p \in 1 .. n, file'[p].part = "torn"
               PROVE  \/ file'[p].id \in excused'
                      \/ p < n /\ file'[p + 1].part = "rest"
                      \/ p = n /\ half' # NoHalf
    BY <1>2
  <2>1. CASE p = n
    <3>1. New.part = "torn" /\ half' = [id |-> produced', part |-> New.part]
      BY <1>2, <1>3, <2>1
    <3>2. half' # NoHalf
      BY <3>1 DEF NoHalf
    <3> QED BY <2>1, <3>2
  <2>2. CASE p # n
    <3>1. p \in 1 .. Len(file) /\ file'[p] = file[p]
      BY <1>1, <1>2, <2>2
    <3>2. CASE file[p].id \in excused
      BY <1>1, <3>1, <3>2
    <3>3. CASE p < Len(file) /\ file[p + 1].part = "rest"
      <4>1. p + 1 \in 1 .. Len(file) /\ p < n
        BY <1>1, <3>1, <3>3
      <4> QED BY <1>1, <3>3, <4>1
    <3>4. CASE p = Len(file) /\ half # NoHalf
      <4>1. New.part = "rest" /\ p + 1 = n /\ p < n
        BY <1>1, <1>3, <3>4
      <4> QED BY <1>2, <4>1
    <3> QED BY <3>1, <3>2, <3>3, <3>4 DEF Lines
  <2> QED BY <2>1, <2>2
<1>7. (~alive' => half' = NoHalf) /\ (row' = "down" => ~alive')
  BY <1>1 DEF Lines
<1> QED BY <1>4, <1>5, <1>6, <1>7 DEF Lines

\* The lines of the log through every step.
LEMMA NextLines ==
  ASSUME Typed, Lines, [Next]_vars
  PROVE  Lines'
<1>0. excused \subseteq excused'
  BY SettledGrows
<1>1. CASE WriteLine \/ WriteRest
  BY <1>1, WriteLines
<1>2. CASE Forward \/ TailerPass \/ UNCHANGED vars
  BY <1>0, <1>2, SameLines DEF Forward, TailerPass, vars, agent
<1>3. CASE ReadTail \/ Commit \/ Advance \/ TruncateCheck
  BY <1>0, <1>3, SameLines DEF ReadTail, Commit, Advance, TruncateCheck, agent
<1>4. CASE ReadQueue \/ ObservedDone
  BY <1>0, <1>4, SameLines DEF ReadQueue, ObservedDone, agent
<1>5. ASSUME NEW busy \in BOOLEAN, LogRefused(busy) \/ ObservedRefused(busy)
      PROVE  Lines'
  BY <1>0, <1>5, LogRefusedMeans, ObservedRefusedMeans, SameLines DEF agent
<1>6. CASE Tick \/ Stop \/ Reap \/ Crash \/ Adopt \/ Reconcile
  BY <1>0, <1>6, SameLines DEF Tick, Stop, Reap, Crash, Adopt, Attach, Reconcile, agent
<1>7. CASE Truncate
  <2>1. CASE file' = file
    BY <1>0, <1>7, <2>1, SameLines DEF Truncate
  <2>2. CASE file' = <<>>
    BY <1>7, <2>2, EmptyLines DEF Truncate, Lines
  <2> QED BY <1>7, <2>1, <2>2 DEF Truncate
<1>8. CASE Exit
  BY <1>0, <1>8, EndLines DEF Exit, Lines
<1>9. CASE Kill
  <2>1. CASE alive' = FALSE /\ half' = NoHalf
    BY <1>0, <1>9, <2>1, EndLines DEF Kill
  <2>2. CASE UNCHANGED <<alive, half>>
    BY <1>0, <1>9, <2>2, SameLines DEF Kill
  <2> QED BY <1>9, <2>1, <2>2 DEF Kill
<1>10. CASE Drop
  <2>1. CASE file' = file
    BY <1>0, <1>10, <2>1, EndLines DEF Drop, Gone
  <2>2. CASE file' = <<>>
    BY <1>10, <2>2, EmptyLines DEF Drop, Gone
  <2> QED BY <1>10, <2>1, <2>2 DEF Drop
<1>11. CASE StopAgain
  BY <1>0, <1>11, EndLines DEF StopAgain, Gone, Lines
<1>12. CASE Launch
  <2>1. half = NoHalf
    BY <1>12 DEF Launch, Lines
  <2> QED BY <1>0, <1>12, <2>1, EndLines DEF Launch, Attach
<1> QED
  BY <1>1, <1>2, <1>3, <1>4, <1>5, <1>6, <1>7, <1>8, <1>9, <1>10, <1>11, <1>12 DEF Next, Drain

-----------------------------------------------------------------------------
(* Lines in two parts *)

\* Steps that leave the log and the cursor alone.
LEMMA SameWhole ==
  ASSUME Whole, UNCHANGED <<file, held, cursor>>, half' = half \/ half' = NoHalf,
         Settled \subseteq Settled'
  PROVE  Whole'
BY DEF Whole

\* What a drain leaves behind when the cursor passes the end of its block.
LEMMA Passed ==
  ASSUME Typed, Readers, InBlock, Doing("ingest"), held, Settled \subseteq Settled',
         IdsOf(Top.rest) \subseteq Settled', Top.mode = "terminal" => CutOff(Top.to) \subseteq Settled'
  PROVE  /\ \A p \in cursor + 1 .. Top.to : file[p].id \in Settled'
         /\ cursor <= Top.to /\ Top.to <= Len(file) /\ Top.to \in Nat /\ cursor \in Nat
         /\ Len(file) \in Nat
<1>1. /\ Len(file) \in Nat /\ Top.to \in Nat /\ cursor \in Nat /\ DOMAIN file = 1 .. Len(file)
      /\ cursor <= Top.to /\ Top.to <= Len(file)
  BY Facts, LoopTop DEF Typed, MeterTyped, InBlock, Readers
<1>2. ASSUME NEW p \in cursor + 1 .. Top.to PROVE file[p].id \in Settled'
  <2>1. CASE file[p].id \in Settled \cup IdsOf(Top.rest)
    BY <2>1
  <2>2. CASE Top.mode = "terminal" /\ p = Top.to /\ file[p].part = "torn"
    <3>1. p \in DOMAIN file
      BY <1>1
    <3>2. file[p].id \in CutOff(Top.to)
      BY <2>2, <3>1 DEF CutOff
    <3> QED BY <2>2, <3>2
  <2> QED BY <1>2, <2>1, <2>2 DEF InBlock
<1> QED BY <1>1, <1>2

(* An advance past a whole block leaves no line in two. *)
LEMMA PassWhole ==
  ASSUME Typed, Lines, Whole, cursor <= Top.to, Top.to <= Len(file), Top.to \in Nat,
         \A p \in cursor + 1 .. Top.to : file[p].id \in Settled', held,
         Settled \subseteq Settled', cursor' = Top.to, UNCHANGED <<file, half, held>>
  PROVE  Whole'
<1>1. Len(file) \in Nat /\ cursor \in Nat
  BY Facts DEF Typed, MeterTyped
<1>2. ASSUME cursor' < Len(file), file[cursor' + 1].part = "rest"
      PROVE  file[cursor' + 1].id \in Settled'
  <2>1. CASE cursor' = cursor
    BY <1>2, <2>1 DEF Whole
  <2>2. CASE cursor' # cursor
    <3>1. Top.to \in cursor + 1 .. Top.to /\ Top.to + 1 \in 2 .. Len(file) /\ (Top.to + 1) - 1 = Top.to
      BY <1>1, <1>2, <2>2
    <3>2. file[Top.to].id = file[Top.to + 1].id
      BY <1>2, <3>1 DEF Lines
    <3>3. file[Top.to].id \in Settled'
      BY <3>1
    <3> QED BY <3>2, <3>3
  <2> QED BY <2>1, <2>2
<1>3. ASSUME half # NoHalf, ~(cursor' < Len(file)) PROVE half.id \in Settled'
  <2>1. CASE half.id \in Settled
    BY <2>1
  <2>2. CASE cursor < Len(file) /\ file # <<>>
    <3>1. file[Len(file)].id = half.id
      BY <1>3, <2>2 DEF Lines
    <3>2. Len(file) \in cursor + 1 .. Top.to
      BY <1>1, <1>3, <2>2
    <3> QED BY <3>1, <3>2
  <2> QED BY <1>3, <2>1, <2>2 DEF Whole
<1>4. half # NoHalf => half.id \in Settled' \/ (cursor' < Len(file) /\ file # <<>>)
  <2>1. cursor' < Len(file) => file # <<>>
    <3>1. file = <<>> => Len(file) = 0
      BY EmptySeq
    <3> QED BY <1>1, <3>1
  <2> QED BY <1>3, <2>1
<1> QED BY <1>2, <1>4 DEF Whole

(* A write of the agent leaves the cursor between lines, or before the half  *)
(* line.                                                                     *)
LEMMA WriteWhole ==
  ASSUME Typed, Whole, Readers, WriteLine \/ WriteRest
  PROVE  Whole'
<1>1. /\ Len(file) \in Nat /\ Len(file') = Len(file) + 1 /\ cursor \in Nat
      /\ \A p \in 1 .. Len(file) : file'[p] = file[p]
      /\ UNCHANGED <<held, cursor, rows, announced>>
      /\ held => cursor <= Len(file)
  <2>1. cursor \in Nat /\ (held => cursor <= Len(file))
    BY DEF Typed, MeterTyped, Readers
  <2> QED BY <2>1, WriteMeans DEF handle
<1>2. /\ excused' = IF held THEN excused ELSE excused \cup {New.id}
      /\ \/ half = NoHalf /\ (half' = NoHalf \/ half'.id = New.id) /\ New.part # "rest"
         \/ half # NoHalf /\ half' = NoHalf /\ New.id = half.id
  <2>1. Parts \subseteq {"json", "torn"}
    BY Facts
  <2> QED BY <2>1, WriteMeans
<1>3. Settled \subseteq Settled'
  BY <1>1, <1>2 DEF Settled, Counted
<1>4. ASSUME held, cursor < Len(file'), file'[cursor + 1].part = "rest"
      PROVE  file'[cursor + 1].id \in Settled'
  <2>1. CASE cursor < Len(file)
    <3>1. cursor + 1 \in 1 .. Len(file)
      BY <1>1, <2>1
    <3> QED BY <1>1, <1>3, <1>4, <2>1, <3>1 DEF Whole
  <2>2. CASE ~(cursor < Len(file))
    <3>1. cursor = Len(file)
      BY <1>1, <1>4, <2>2
    <3>2. file'[cursor + 1] = New
      BY <3>1 DEF New
    <3>3. half # NoHalf /\ New.id = half.id
      BY <1>2, <1>4, <3>2
    <3>4. half.id \in Settled
      BY <2>2, <3>3 DEF Whole
    <3> QED BY <1>3, <3>2, <3>3, <3>4
  <2> QED BY <2>1, <2>2
<1>5. ASSUME half' # NoHalf
      PROVE  half'.id \in Settled' \/ (held' /\ cursor' < Len(file') /\ file' # <<>>)
  <2>1. CASE held
    <3>1. cursor' < Len(file') /\ Len(file') # 0
      BY <1>1, <2>1
    <3>2. file' = <<>> => Len(file') = 0
      OBVIOUS
    <3> QED BY <1>1, <2>1, <3>1, <3>2
  <2>2. CASE ~held
    BY <1>2, <1>5, <2>2 DEF Settled
  <2> QED BY <2>1, <2>2
<1> QED BY <1>1, <1>4, <1>5 DEF Whole

\* No step cuts a line in two unless its first part settles it.
LEMMA NextWhole ==
  ASSUME Typed, Lines, Whole, InBlock, Readers, [Next]_vars
  PROVE  Whole'
<1>0. Settled \subseteq Settled'
  BY SettledGrows
<1>1. CASE WriteLine \/ WriteRest
  BY <1>1, WriteWhole
<1>2. CASE Forward \/ Exit \/ TailerPass \/ UNCHANGED vars
  BY <1>0, <1>2, SameWhole DEF Forward, Exit, TailerPass, vars, agent, handle
<1>3. CASE ReadTail
  <2>1. cursor' = cursor
    <3>1. held => ~(cursor > Len(file))
      <4>1. cursor \in Nat /\ Len(file) \in Nat
        BY Facts DEF Typed, MeterTyped
      <4> QED BY <4>1 DEF Readers
    <3> QED BY <1>3, <3>1 DEF ReadTail
  <2> QED BY <1>0, <1>3, <2>1, SameWhole DEF ReadTail, agent
<1>4. CASE Commit \/ TruncateCheck
  BY <1>0, <1>4, SameWhole DEF Commit, TruncateCheck, agent, handle
<1>5. CASE ReadQueue \/ ObservedDone
  BY <1>0, <1>5, SameWhole DEF ReadQueue, ObservedDone, agent
<1>6. ASSUME NEW busy \in BOOLEAN, ObservedRefused(busy) PROVE Whole'
  BY <1>0, <1>6, ObservedRefusedMeans, SameWhole DEF agent
<1>7. ASSUME NEW busy \in BOOLEAN, LogRefused(busy) PROVE Whole'
  <2>1. /\ Doing("ingest") /\ UNCHANGED <<file, half, held>>
        /\ cursor' = IF LogSkips(busy) /\ held THEN Top.to ELSE cursor
        /\ announced' = IF LogSkips(busy) \/ Top.mode = "terminal"
                        THEN announced \cup IdsOf(Top.rest) ELSE announced
    BY <1>7, LogRefusedMeans DEF agent
  <2>2. CASE LogSkips(busy) /\ held
    <3>1. IdsOf(Top.rest) \subseteq Settled'
      BY <2>1, <2>2 DEF Settled
    <3>2. Top.mode # "terminal"
      BY <2>2 DEF LogSkips
    <3>3. /\ \A p \in cursor + 1 .. Top.to : file[p].id \in Settled'
          /\ cursor <= Top.to /\ Top.to <= Len(file) /\ Top.to \in Nat
      BY <1>0, <2>1, <2>2, <3>1, <3>2, Passed
    <3> QED BY <1>0, <2>1, <2>2, <3>3, PassWhole
  <2>3. CASE ~(LogSkips(busy) /\ held)
    BY <1>0, <2>1, <2>3, SameWhole
  <2> QED BY <2>2, <2>3
<1>8. CASE Advance
  <2>1. /\ Doing("ingest") /\ Top.rest = <<>> /\ UNCHANGED <<file, half, held>>
        /\ cursor' = IF held THEN Top.to ELSE cursor
        /\ excused' = IF held /\ Top.mode = "terminal" THEN excused \cup CutOff(Top.to)
                      ELSE excused
    BY <1>8 DEF Advance, agent
  <2>2. CASE held
    <3>1. IdsOf(Top.rest) \subseteq Settled'
      BY <2>1 DEF IdsOf
    <3>2. Top.mode = "terminal" => CutOff(Top.to) \subseteq Settled'
      BY <2>1, <2>2 DEF Settled
    <3>3. /\ \A p \in cursor + 1 .. Top.to : file[p].id \in Settled'
          /\ cursor <= Top.to /\ Top.to <= Len(file) /\ Top.to \in Nat
      BY <1>0, <2>1, <2>2, <3>1, <3>2, Passed
    <3> QED BY <1>0, <2>1, <2>2, <3>3, PassWhole
  <2>3. CASE ~held
    BY <1>0, <2>1, <2>3, SameWhole
  <2> QED BY <2>2, <2>3
<1>9. CASE Truncate
  <2>1. CASE UNCHANGED <<file, cursor>>
    BY <1>0, <1>9, <2>1, SameWhole DEF Truncate
  <2>2. CASE /\ file' = <<>> /\ cursor' = 0
             /\ excused' = excused \cup {file[i].id : i \in Top.to + 1 .. Len(file)}
    <3>1. half' = half /\ held' = held /\ Doing("cut") /\ Len(file) \in Nat /\ cursor \in Nat
          /\ Top.to \in Nat
      BY <1>9, Facts DEF Truncate, Typed, MeterTyped, Doing, FrameType
    <3>2. cursor >= Top.to
      BY <3>1 DEF InBlock
    <3>3. ASSUME half # NoHalf PROVE half.id \in Settled'
      <4>1. CASE half.id \in Settled
        BY <1>0, <4>1
      <4>2. CASE cursor < Len(file) /\ file # <<>>
        <5>1. file[Len(file)].id = half.id
          BY <3>3, <4>2 DEF Lines
        <5>2. Len(file) \in Top.to + 1 .. Len(file)
          BY <3>1, <3>2, <4>2
        <5>3. half.id \in excused'
          BY <2>2, <5>1, <5>2
        <5> QED BY <5>3 DEF Settled
      <4> QED BY <3>3, <4>1, <4>2 DEF Whole
    <3>4. ~(cursor' < Len(file'))
      BY <2>2, EmptySeq
    <3> QED BY <3>1, <3>3, <3>4 DEF Whole
  <2> QED BY <1>9, <2>1, <2>2 DEF Truncate
<1>10. CASE Tick \/ Stop \/ Reap \/ Reconcile
  BY <1>0, <1>10, SameWhole DEF Tick, Stop, Reap, Reconcile, agent, handle
<1>11. CASE Kill
  BY <1>0, <1>11, SameWhole DEF Kill
<1>12. CASE Drop \/ StopAgain
  BY <1>12 DEF Drop, StopAgain, Gone, Whole
<1>13. CASE Crash
  <2>1. held' = FALSE /\ half' = half /\ excused' = excused \cup Unread \cup InHand
    BY <1>13 DEF Crash
  <2>2. ASSUME half # NoHalf PROVE half.id \in Settled'
    <3>1. CASE half.id \in Settled
      BY <1>0, <3>1
    <3>2. CASE held /\ cursor < Len(file) /\ file # <<>>
      <4>1. file[Len(file)].id = half.id
        BY <2>2, <3>2 DEF Lines
      <4>2. Len(file) \in cursor + 1 .. Len(file)
        BY <3>2, Facts DEF Typed, MeterTyped
      <4>3. half.id \in Unread
        BY <3>2, <4>1, <4>2 DEF Unread
      <4> QED BY <2>1, <4>3 DEF Settled
    <3> QED BY <2>2, <3>1, <3>2 DEF Whole
  <2> QED BY <2>1, <2>2 DEF Whole
<1>14. CASE Launch \/ Adopt
  <2>1. /\ file' = file /\ cursor' = Len(file) /\ ~held
        /\ half' = half \/ half' = NoHalf
    BY <1>14 DEF Launch, Adopt, Attach, Anchor
  <2>2. ~(cursor' < Len(file'))
    BY <2>1, Facts
  <2> QED BY <1>0, <2>1, <2>2 DEF Whole
<1> QED
  BY <1>1, <1>2, <1>3, <1>4, <1>5, <1>6, <1>7, <1>8, <1>9, <1>10, <1>11, <1>12, <1>13, <1>14
  DEF Next, Drain

-----------------------------------------------------------------------------
(* Handles that are gone *)

\* Without a handle nothing is queued or parked.
LEMMA NextQuit ==
  ASSUME Quit, [Next]_vars
  PROVE  Quit'
<1>0. NonePending.events = <<>>
  BY DEF NonePending
<1>1. CASE WriteLine \/ WriteRest
  BY <1>1 DEF WriteLine, WriteRest, Appended, handle, Quit
<1>2. CASE Forward \/ Exit \/ TailerPass \/ UNCHANGED vars
  BY <1>2 DEF Forward, Exit, TailerPass, vars, agent, handle, Quit
<1>3. CASE ReadTail \/ Commit \/ Advance \/ TruncateCheck \/ Truncate
  BY <1>3 DEF ReadTail, Commit, Advance, TruncateCheck, Truncate, agent, handle, Quit
<1>4. CASE ReadQueue
  BY <1>4 DEF ReadQueue, Quit
<1>5. CASE ObservedDone \/ Kill
  BY <1>0, <1>5 DEF ObservedDone, Kill, agent, Quit
<1>6. ASSUME NEW busy \in BOOLEAN, LogRefused(busy) \/ ObservedRefused(busy) PROVE Quit'
  BY <1>0, <1>6, LogRefusedMeans, ObservedRefusedMeans DEF agent, Quit
<1>7. CASE Drop \/ StopAgain \/ Crash
  BY <1>0, <1>7 DEF Drop, StopAgain, Gone, Crash, Quit
<1>8. CASE Tick \/ Stop \/ Reap \/ Reconcile
  BY <1>8 DEF Tick, Stop, Reap, Reconcile, agent, handle, Quit
<1>9. CASE Launch \/ Adopt
  BY <1>9 DEF Launch, Adopt, Attach, Quit
<1> QED BY <1>1, <1>2, <1>3, <1>4, <1>5, <1>6, <1>7, <1>8, <1>9 DEF Next, Drain

-----------------------------------------------------------------------------
(* The block of a loop *)

\* Outside of a loop there is nothing to show.
LEMMA NoBlock ==
  ASSUME held' => ~Doing("ingest")' /\ ~Doing("ingestObs")', Quit', ~Doing("cut")'
  PROVE  InBlock'
<1>1. ~held' => IdsOf(observed.events)' = {}
  BY DEF Quit, IdsOf
<1> QED BY <1>1 DEF InBlock

\* A step outside of every call; the log may have grown.
LEMMA KeptBlock ==
  ASSUME Typed, InBlock, Readers, UNCHANGED <<todo, held, cursor, observed>>,
         Len(file') \in Nat, Len(file) <= Len(file'), \A p \in 1 .. Len(file) : file'[p] = file[p],
         Settled \subseteq Settled'
  PROVE  InBlock'
<1>1. Len(file) \in Nat /\ cursor \in Nat /\ Top' = Top
  BY Facts DEF Typed, MeterTyped, Top
<1>2. Doing("ingest")' = Doing("ingest") /\ Doing("ingestObs")' = Doing("ingestObs")
      /\ Doing("cut")' = Doing("cut")
  BY DEF Doing
<1>3. Unread \subseteq Unread'
  <2> SUFFICES ASSUME held, NEW i \in cursor + 1 .. Len(file)
               PROVE  \E j \in cursor + 1 .. Len(file') : file'[j].id = file[i].id
    BY DEF Unread
  <2>1. i \in cursor + 1 .. Len(file') /\ i \in 1 .. Len(file)
    BY <1>1
  <2> QED BY <2>1
<1>4. ASSUME Doing("ingest"), held
      PROVE  /\ cursor <= Top.to /\ IdsOf(Top.rest) \subseteq Unread'
             /\ \A p \in cursor + 1 .. Top.to :
                  \/ file'[p].id \in Settled' \cup IdsOf(Top.rest)
                  \/ Top.mode = "terminal" /\ p = Top.to /\ file'[p].part = "torn"
  <2>1. cursor <= Top.to /\ IdsOf(Top.rest) \subseteq Unread'
    BY <1>3, <1>4 DEF InBlock
  <2>2. Top.to \in Nat /\ Top.to <= Len(file)
    BY <1>4, LoopTop DEF Readers
  <2>3. ASSUME NEW p \in cursor + 1 .. Top.to
        PROVE  \/ file'[p].id \in Settled' \cup IdsOf(Top.rest)
               \/ Top.mode = "terminal" /\ p = Top.to /\ file'[p].part = "torn"
    <3>1. p \in 1 .. Len(file)
      BY <1>1, <2>2
    <3>2. file'[p] = file[p]
      BY <3>1
    <3>3. \/ file[p].id \in Settled \cup IdsOf(Top.rest)
          \/ Top.mode = "terminal" /\ p = Top.to /\ file[p].part = "torn"
      BY <1>4 DEF InBlock
    <3> QED BY <3>2, <3>3
  <2> QED BY <2>1, <2>3
<1>5. IdsOf(Top.rest)' = IdsOf(Top.rest) /\ IdsOf(observed.events)' = IdsOf(observed.events)
  BY <1>1 DEF IdsOf
<1> QED BY <1>1, <1>2, <1>4, <1>5 DEF InBlock

\* A return.
LEMMA PopBlock ==
  ASSUME Typed, Typed', Readers, Quit', todo # <<>>, todo' = Tail(todo),
         held' => held /\ Top.op # "drop"
  PROVE  InBlock'
<1>1. ~Doing("cut")' /\ (held' => ~Doing("ingest")' /\ ~Doing("ingestObs")')
  BY PopLoops DEF Readers
<1> QED BY <1>1, NoBlock

\* A call.
LEMMA PushTop ==
  ASSUME Typed, Typed', todo # <<>>, NEW pre, pre \in Seq(FrameType), pre # <<>>,
         todo' = pre \o Tail(todo)
  PROVE  Top' = pre[1] /\ todo' # <<>>
<1>1. todo \in Seq(FrameType)
  BY DEF Typed, Stack, Sound
<1>2. Spliced(todo', todo, 1, pre) /\ todo' \in Seq(FrameType)
  BY <1>1, SpliceTop
<1>3. Len(pre) \in Nat /\ 1 \in 1 .. Len(pre) /\ Len(todo') \in Nat /\ Len(todo) \in Nat
      /\ Len(todo) # 0
  BY <1>1, <1>2, LenProperties, EmptySeq
<1>4. todo'[1] = pre[1] /\ Len(todo') = Len(pre) + Len(todo) - 1
  BY <1>2, <1>3 DEF Spliced
<1>5. todo' # <<>>
  <2>1. Len(todo') # 0
    BY <1>3, <1>4
  <2> QED BY <2>1, EmptySeq
<1> QED BY <1>2, <1>4, <1>5 DEF Top

\* A committed event is in the ledger, its own row or the row of its replay, or
\* lost to a generation that could not move on.
LEMMA CommitSettles ==
  ASSUME LedgerInv, Commit
  PROVE  Head(Top.rest).id \in Settled'
<1> DEFINE e == Head(Top.rest)
<1>1. /\ Typed /\ InLoop /\ held /\ Recorded
      /\ rows' = IF Replay(e) THEN rows ELSE rows \cup {[gen |-> Key(e).gen, seq |-> e.seq, id |-> e.id]}
      /\ excused' = IF stale /\ Replay(e) THEN excused \cup {e.id} ELSE excused
  BY DEF LedgerInv, Metered, RestOnTop, Keys, Commit
<1>2. e \in Pend
  BY <1>1, HeadPending
<1>3. CASE ~Replay(e)
  <2>1. [gen |-> Key(e).gen, seq |-> e.seq, id |-> e.id] \in rows'
    BY <1>1, <1>3
  <2>2. e.id \in Counted'
    BY <2>1 DEF Counted
  <2> QED BY <2>2 DEF Settled
<1>4. CASE Replay(e) /\ ~stale
  <2>1. PICK r \in rows : r.gen = Key(e).gen /\ r.seq = e.seq
    BY <1>4 DEF Replay
  <2>2. r.gen = gen
    BY <1>1, <2>1 DEF Key
  <2>3. r.id = e.id
    BY <1>1, <1>2, <1>4, <2>1, <2>2 DEF Recorded
  <2>4. r \in rows'
    BY <1>1, <1>4
  <2>5. e.id \in Counted'
    BY <2>3, <2>4 DEF Counted
  <2> QED BY <2>5 DEF Settled
<1>5. CASE Replay(e) /\ stale
  BY <1>1, <1>5 DEF Settled
<1> QED BY <1>3, <1>4, <1>5

\* A block that has just been read: every chunk that does not parse is the rest of
\* a line that does, or that is settled, or a line that was never finished.
LEMMA BlockRead ==
  ASSUME Typed, Lines, Whole, held, cursor <= Len(file), DrainTo # cursor
  PROVE  /\ cursor <= DrainTo /\ IdsOf(ParseBlock(cursor, DrainTo)) \subseteq Unread
         /\ \A p \in cursor + 1 .. DrainTo :
              \/ file[p].id \in Settled \cup IdsOf(ParseBlock(cursor, DrainTo))
              \/ Top.mode = "terminal" /\ p = DrainTo /\ file[p].part = "torn"
<1> DEFINE s == ParseBlock(cursor, DrainTo)
<1>1. /\ file \in Seq(Chunk) /\ Len(file) \in Nat /\ cursor \in Nat /\ DOMAIN file = 1 .. Len(file)
      /\ Parts \subseteq {"json", "torn"}
      /\ \A p \in 1 .. Len(file) : file[p].part \in {"line", "rest", "json", "torn"}
  <2>1. /\ file \in Seq(Chunk) /\ cursor \in Nat /\ Parts \subseteq {"json", "torn"}
        /\ Len(file) \in Nat /\ DOMAIN file = 1 .. Len(file)
        /\ \A p \in 1 .. Len(file) : file[p] \in Chunk
    BY Facts DEF Typed, MeterTyped
  <2>2. \A p \in 1 .. Len(file) : file[p].part \in {"line", "rest"} \cup Parts
    BY <2>1 DEF Chunk
  <2> QED BY <2>1, <2>2
<1>2. /\ DrainTo \in Nat /\ cursor <= DrainTo /\ DrainTo <= Len(file)
      /\ Top.mode # "terminal" => Ends(file[DrainTo])
  BY <1>1, PlanDrainBounds DEF DrainTo
<1>3a. s = ParseBlock(cursor, DrainTo)
  OBVIOUS
<1> HIDE DEF s
<1>3. /\ s \in Seq(Event)
      /\ \A e \in Members(s) : \E i \in cursor + 1 .. DrainTo : e = At(i)
      /\ \A i \in cursor + 1 .. DrainTo : Parses(i, DrainTo) => At(i) \in Members(s)
  <2>1. /\ s \in Seq(Event)
        /\ \A e \in Members(s) : \E i \in cursor + 1 .. DrainTo : First(i) /\ e = At(i)
        /\ \A i \in cursor + 1 .. DrainTo : Parses(i, DrainTo) => At(i) \in Members(s)
    <3>1. file \in Seq(Chunk) /\ cursor \in Nat /\ DrainTo \in Nat /\ DrainTo <= Len(file)
      BY <1>1, <1>2
    <3>2. s \in Seq(Event)
      BY <1>3a, <3>1, ParseBlockEvents
    <3>3. \A e \in Members(s) : \E i \in cursor + 1 .. DrainTo : First(i) /\ e = At(i)
      BY <1>3a, <3>1, ParseBlockEvents
    <3>4. \A i \in cursor + 1 .. DrainTo : Parses(i, DrainTo) => At(i) \in Members(s)
      BY <1>3a, <3>1, ParseBlockEvents
    <3> QED BY <3>2, <3>3, <3>4
  <2> QED BY <2>1
<1>4. IdsOf(s) = {e.id : e \in Members(s)}
  BY DEF IdsOf, Members
<1>5. IdsOf(s) \subseteq Unread
  <2> SUFFICES ASSUME NEW e \in Members(s) PROVE e.id \in Unread
    BY <1>4
  <2>1. PICK i \in cursor + 1 .. DrainTo : e = At(i)
    BY <1>3
  <2>2. i \in cursor + 1 .. Len(file)
    BY <1>1, <1>2
  <2>3. e.id = file[i].id
    BY <2>1 DEF At
  <2> QED BY <2>2, <2>3 DEF Unread
<1>6. ASSUME NEW p \in cursor + 1 .. DrainTo, Parses(p, DrainTo) PROVE file[p].id \in IdsOf(s)
  <2>1. At(p) \in Members(s) /\ At(p).id = file[p].id
    BY <1>3, <1>6 DEF At
  <2> QED BY <1>4, <2>1
<1>7. ASSUME NEW p \in cursor + 1 .. DrainTo
      PROVE  \/ file[p].id \in Settled \cup IdsOf(s)
             \/ Top.mode = "terminal" /\ p = DrainTo /\ file[p].part = "torn"
  <2>0. p \in 1 .. Len(file) /\ file[p].part \in {"line", "rest", "json", "torn"}
    BY <1>1, <1>2
  <2>1. CASE file[p].part \in {"line", "json"}
    BY <1>6, <2>1 DEF Parses
  <2>2. CASE file[p].part = "rest"
    <3>1. CASE p = cursor + 1
      <4>1. cursor < Len(file)
        BY <1>1, <1>2, <3>1
      <4> QED BY <2>2, <3>1, <4>1 DEF Whole
    <3>2. CASE p # cursor + 1
      <4>1. p - 1 \in cursor + 1 .. DrainTo /\ p \in 2 .. Len(file) /\ (p - 1) + 1 = p /\ p - 1 < DrainTo
        BY <1>1, <1>2, <3>2
      <4>2. file[p - 1].id = file[p].id /\ file[p - 1].part \in Parts
        BY <2>2, <4>1 DEF Lines
      <4>3. Parses(p - 1, DrainTo)
        BY <1>1, <2>2, <4>1, <4>2 DEF Parses
      <4> QED BY <1>6, <4>1, <4>2, <4>3
    <3> QED BY <3>1, <3>2
  <2>3. CASE file[p].part = "torn"
    <3>1. CASE p < DrainTo /\ file[p + 1].part = "rest"
      <4>1. Parses(p, DrainTo)
        BY <2>3, <3>1 DEF Parses
      <4> QED BY <1>6, <4>1
    <3>2. CASE p < DrainTo /\ file[p + 1].part # "rest"
      <4>1. p # Len(file)
        BY <1>1, <1>2, <3>2
      <4>2. file[p].id \in excused
        BY <2>0, <2>3, <3>2, <4>1 DEF Lines
      <4> QED BY <4>2 DEF Settled
    <3>3. CASE p = DrainTo
      <4>1. Top.mode = "terminal"
        BY <1>2, <2>3, <3>3 DEF Ends
      <4> QED BY <2>3, <3>3, <4>1
    <3>4. p < DrainTo \/ p = DrainTo
      BY <1>1, <1>2
    <3> QED BY <3>1, <3>2, <3>3, <3>4
  <2> QED BY <2>0, <2>1, <2>2, <2>3
<1> QED BY <1>2, <1>5, <1>7 DEF s

\* The events of a list are its first one and those behind it.
LEMMA HeadIds ==
  ASSUME NEW s \in Seq(Event), s # <<>>
  PROVE  IdsOf(s) = {Head(s).id} \cup IdsOf(Tail(s))
<1> DEFINE n == Len(s)
           t == Tail(s)
<1>1. /\ n \in Nat \ {0} /\ DOMAIN s = 1 .. n /\ Head(s) = s[1]
      /\ t \in Seq(Event) /\ Len(t) = n - 1 /\ \A i \in 1 .. Len(t) : t[i] = s[i + 1]
  BY LenProperties, EmptySeq, HeadTailProperties
<1>2. DOMAIN t = 1 .. Len(t)
  BY <1>1, LenProperties
<1> HIDE DEF n, t
<1>3. /\ 1 \in 1 .. n /\ \A i \in 1 .. n - 1 : i + 1 \in 1 .. n
      /\ \A i \in 1 .. n : i = 1 \/ (i - 1 \in 1 .. n - 1 /\ (i - 1) + 1 = i)
  BY <1>1
<1>4. ASSUME NEW i \in 1 .. n PROVE s[i].id \in {Head(s).id} \cup IdsOf(t)
  <2>1. CASE i = 1
    BY <1>1, <2>1
  <2>2. CASE i - 1 \in 1 .. n - 1 /\ (i - 1) + 1 = i
    <3>1. i - 1 \in DOMAIN t /\ t[i - 1] = s[i]
      BY <1>1, <1>2, <2>2
    <3> QED BY <3>1 DEF IdsOf
  <2> QED BY <1>3, <2>1, <2>2
<1>5. Head(s).id \in IdsOf(s)
  BY <1>1, <1>3 DEF IdsOf
<1>6. ASSUME NEW i \in DOMAIN t PROVE t[i].id \in IdsOf(s)
  <2>1. t[i] = s[i + 1] /\ i + 1 \in DOMAIN s
    BY <1>1, <1>2, <1>3
  <2> QED BY <2>1 DEF IdsOf
<1>7. IdsOf(s) \subseteq {Head(s).id} \cup IdsOf(t)
  BY <1>1, <1>4 DEF IdsOf
<1>8. IdsOf(t) \subseteq IdsOf(s)
  BY <1>6 DEF IdsOf
<1> QED BY <1>5, <1>7, <1>8 DEF t

\* The commit keeps what is left of its block, unless it stops the instance.
LEMMA CommitBlock ==
  ASSUME LedgerInv, Typed', InBlock, Quit', Commit
  PROVE  InBlock'
<1> DEFINE e == Head(Top.rest)
           after == [Top EXCEPT !.rest = Tail(@)]
           pre == (IF Breaches(e) THEN StopFrames ELSE <<>>) \o <<after>>
<1>0. Typed /\ InLoop /\ UNCHANGED <<file, held, cursor, observed>>
  BY DEF LedgerInv, Metered, Commit, agent, handle
<1>1. /\ todo # <<>> /\ WellFormed(after) /\ after.op = Top.op /\ after.mode = Top.mode
      /\ after.to = Top.to /\ after.rest = Tail(Top.rest)
      /\ Top.op \in Loops /\ Top.rest \in Seq(Event) /\ Top.rest # <<>>
  BY <1>0, AfterEvent DEF InLoop
<1>2. todo' = pre \o Tail(todo)
  BY DEF Commit
<1>3. CASE Breaches(e)
  <2> HIDE DEF e, after
  <2>1. pre = StopFrames \o <<after>>
    BY <1>3
  <2>2. Sound(pre) /\ Len(pre) = 6 /\ pre[1] = StopFrames[1]
    BY <1>1, <2>1, StopThen
  <2> HIDE DEF pre
  <2>3. pre \in Seq(FrameType) /\ pre # <<>>
    <3>1. pre = <<>> => Len(pre) = 0
      BY EmptySeq
    <3> QED BY <2>2, <3>1 DEF Sound
  <2>4. Top'.op = "log"
    <3>1. Top' = pre[1]
      BY <1>0, <1>1, <1>2, <2>3, PushTop
    <3> QED BY <2>2, <3>1, NewFrames DEF Frame
  <2> QED BY <2>4, NoBlock DEF Doing, Top
<1>4. CASE ~Breaches(e)
  <2> HIDE DEF after
  <2>1. pre = <<after>>
    <3>1. <<after>> \in Seq({after})
      OBVIOUS
    <3> HIDE DEF e
    <3>2. pre = <<>> \o <<after>>
      BY <1>4
    <3> HIDE DEF pre
    <3> QED BY <3>1, <3>2, ConcatEmptySeq
  <2> HIDE DEF pre
  <2>2. pre \in Seq(FrameType) /\ pre # <<>> /\ pre[1] = after
    <3>1. after \in FrameType
      BY <1>1 DEF WellFormed
    <3> QED BY <2>1, <3>1
  <2>3. Top' = after /\ todo' # <<>>
    BY <1>0, <1>1, <1>2, <2>2, PushTop
  <2>4. Top'.op = Top.op /\ Top'.mode = Top.mode /\ Top'.to = Top.to /\ Top'.rest = Tail(Top.rest)
    BY <1>1, <2>3
  <2>5. Settled \subseteq Settled' /\ e.id \in Settled'
    <3>1. [Next]_vars
      BY DEF Next, Drain
    <3> QED BY <3>1, SettledGrows, CommitSettles
  <2>6. IdsOf(Top.rest) = {e.id} \cup IdsOf(Tail(Top.rest))
    BY <1>1, HeadIds
  <2> HIDE DEF e
  <2>7. Unread' = Unread /\ IdsOf(observed.events)' = IdsOf(observed.events)
        /\ IdsOf(Top.rest)' = IdsOf(Tail(Top.rest))
    BY <1>0, <2>4 DEF Unread, IdsOf
  <2>8. Doing("ingest")' = Doing("ingest") /\ Doing("ingestObs")' = Doing("ingestObs")
        /\ ~Doing("cut")'
    BY <1>1, <2>3, <2>4 DEF Doing, Top, Loops
  <2>9. ASSUME Doing("ingest"), held
        PROVE  /\ cursor <= Top.to /\ IdsOf(Tail(Top.rest)) \subseteq Unread
               /\ \A p \in cursor + 1 .. Top.to :
                    \/ file[p].id \in Settled' \cup IdsOf(Tail(Top.rest))
                    \/ Top.mode = "terminal" /\ p = Top.to /\ file[p].part = "torn"
    <3>1. /\ cursor <= Top.to /\ IdsOf(Top.rest) \subseteq Unread
          /\ \A p \in cursor + 1 .. Top.to :
               \/ file[p].id \in Settled \cup IdsOf(Top.rest)
               \/ Top.mode = "terminal" /\ p = Top.to /\ file[p].part = "torn"
      BY <2>9 DEF InBlock
    <3> QED BY <2>5, <2>6, <3>1
  <2>10. Doing("ingestObs") => IdsOf(observed.events) \subseteq Settled' \cup IdsOf(Tail(Top.rest))
    <3>1. Doing("ingestObs") => IdsOf(observed.events) \subseteq Settled \cup IdsOf(Top.rest)
      BY DEF InBlock
    <3> QED BY <2>5, <2>6, <3>1
  <2> QED BY <1>0, <2>4, <2>7, <2>8, <2>9, <2>10 DEF InBlock
<1> QED BY <1>3, <1>4

\* The calls that hold something to lose.
LEMMA NextBlock ==
  ASSUME LedgerInv, Typed', Readers, Lines, Whole, InBlock, Quit', [Next]_vars, [KillReturns]_vars
  PROVE  InBlock'
<1>0. Typed /\ Settled \subseteq Settled' /\ Len(file) \in Nat /\ Len(file') \in Nat
      /\ cursor \in Nat
  <2>1. Typed
    BY DEF LedgerInv, Metered
  <2>2. file' \in Seq(Chunk) /\ cursor \in Nat
    BY <2>1 DEF Typed, MeterTyped
  <2> QED BY <2>1, <2>2, Facts, SettledGrows, LenProperties
<1>1. CASE WriteLine \/ WriteRest
  BY <1>0, <1>1, WriteMeans, KeptBlock DEF handle
<1>2. CASE Forward \/ Exit \/ TailerPass \/ UNCHANGED vars
  <2>1. UNCHANGED <<todo, held, cursor, observed, file>>
    BY <1>2 DEF Forward, Exit, TailerPass, vars, agent, handle
  <2> QED BY <1>0, <2>1, KeptBlock
<1>3. CASE Advance \/ ObservedDone \/ Truncate
  BY <1>0, <1>3, PopBlock DEF Advance, ObservedDone, Truncate, Doing, Return, Top
<1>4. ASSUME NEW busy \in BOOLEAN, LogRefused(busy) \/ ObservedRefused(busy) PROVE InBlock'
  BY <1>0, <1>4, LogRefusedMeans, ObservedRefusedMeans, PopBlock DEF Doing, Top
<1>5. CASE ReadTail
  <2>1. todo # <<>> /\ Doing("log") /\ Top.op = "log" /\ UNCHANGED <<file, held, observed>>
    BY <1>5 DEF ReadTail, Doing, Top, agent
  <2>2. CASE todo' = Tail(todo)
    BY <1>0, <2>1, <2>2, PopBlock
  <2>3. CASE held /\ ~(cursor > Len(file)) /\ cursor' = cursor /\ todo' = Reading \o Tail(todo)
    <3>1. cursor <= Len(file)
      BY <1>0, <2>3
    <3>2. /\ DrainTo = cursor => Reading = <<Frame("trunc", Top.mode)>>
          /\ DrainTo # cursor => Reading = <<Block, Frame("trunc", Top.mode)>>
          /\ Sound(Reading)
      BY <1>0, <2>1, <3>1, ReadTailFrames
    <3>3. Reading \in Seq(FrameType) /\ Reading # <<>>
      <4>1. Reading \in Seq(FrameType)
        BY <3>2 DEF Sound
      <4> DEFINE pre == Reading
      <4>2. Len(pre) = 1 \/ Len(pre) = 2
        BY <3>2
      <4> HIDE DEF pre
      <4>3. pre # <<>>
        BY <4>2, EmptySeq
      <4> QED BY <4>1, <4>3 DEF pre
    <3>4. Top' = Reading[1]
      <4>1. todo' = Reading \o Tail(todo)
        BY <2>3
      <4> DEFINE pre == Reading
      <4>2. pre \in Seq(FrameType) /\ pre # <<>> /\ todo' = pre \o Tail(todo)
        BY <3>3, <4>1
      <4>3. Typed /\ todo # <<>>
        BY <1>0, <2>1
      <4> HIDE DEF pre
      <4>4. Top' = pre[1]
        BY <4>2, <4>3, PushTop
      <4> QED BY <4>4 DEF pre
    <3>5. CASE DrainTo = cursor
      <4>1. Top'.op = "trunc"
        BY <3>2, <3>4, <3>5 DEF Frame
      <4> QED BY <4>1, NoBlock DEF Doing, Top
    <3>6. CASE DrainTo # cursor
      <4>1. Top' = Block
        BY <3>2, <3>4, <3>6
      <4>2. /\ Top'.op = "ingest" /\ Top'.mode = Top.mode /\ Top'.to = DrainTo
            /\ Top'.rest = ParseBlock(cursor, DrainTo)
        BY <4>1 DEF Block
      <4>3. /\ cursor <= DrainTo /\ IdsOf(ParseBlock(cursor, DrainTo)) \subseteq Unread
            /\ \A p \in cursor + 1 .. DrainTo :
                 \/ file[p].id \in Settled \cup IdsOf(ParseBlock(cursor, DrainTo))
                 \/ Top.mode = "terminal" /\ p = DrainTo /\ file[p].part = "torn"
        BY <1>0, <2>3, <3>1, <3>6, BlockRead
      <4>4. /\ Unread' = Unread /\ IdsOf(Top.rest)' = IdsOf(ParseBlock(cursor, DrainTo))
            /\ ~Doing("ingestObs")' /\ ~Doing("cut")'
        BY <2>1, <2>3, <4>2 DEF Unread, IdsOf, Doing, Top
      <4> HIDE DEF DrainTo, Top
      <4>5. (Doing("ingest") /\ held =>
               /\ cursor <= Top.to /\ IdsOf(Top.rest) \subseteq Unread
               /\ \A p \in cursor + 1 .. Top.to :
                    \/ file[p].id \in Settled \cup IdsOf(Top.rest)
                    \/ Top.mode = "terminal" /\ p = Top.to /\ file[p].part = "torn")'
        BY <1>0, <2>1, <2>3, <4>2, <4>3, <4>4
      <4> QED BY <4>4, <4>5 DEF InBlock
    <3> QED BY <3>5, <3>6
  <2> QED BY <1>5, <2>2, <2>3 DEF ReadTail, Return, Reading, Block, DrainTo
<1>6. CASE Commit
  BY <1>6, CommitBlock
<1>7. CASE TruncateCheck
  <2> DEFINE cut == [Top EXCEPT !.op = "cut", !.to = Len(file)]
  <2>1. /\ todo # <<>> /\ Top \in FrameType /\ Top.op = "trunc" /\ held' = held
        /\ UNCHANGED <<file, cursor>>
    BY <1>0, <1>7, Facts DEF TruncateCheck, Doing, Top, agent
  <2>2. CASE held /\ cursor >= Len(file) /\ todo' = <<cut>> \o Tail(todo)
    <3>1. cut \in FrameType /\ cut.op = "cut" /\ cut.to = Len(file)
      BY <1>0, <2>1 DEF FrameType
    <3> HIDE DEF cut
    <3>2. <<cut>> \in Seq(FrameType) /\ <<cut>> # <<>> /\ <<cut>>[1] = cut
      BY <3>1
    <3>3. Top' = cut
      <4>1. todo' = <<cut>> \o Tail(todo)
        BY <2>2
      <4> DEFINE pre == <<cut>>
      <4>2. pre \in Seq(FrameType) /\ pre # <<>> /\ pre[1] = cut /\ todo' = pre \o Tail(todo)
        BY <3>2, <4>1
      <4> HIDE DEF pre
      <4>3. Top' = pre[1]
        BY <1>0, <2>1, <4>2, PushTop
      <4> QED BY <4>2, <4>3
    <3>4. ~Doing("ingest")' /\ ~Doing("ingestObs")'
      BY <3>1, <3>3 DEF Doing, Top
    <3>5. held' /\ cursor' >= Top'.to
      BY <2>1, <2>2, <3>1, <3>3
    <3> QED BY <3>4, <3>5 DEF InBlock
  <2>3. CASE todo' = <<>> \o Tail(todo)
    <3>1. Tail(todo) \in Seq(FrameType)
      BY <1>0, <2>1, HeadTailProperties DEF Typed, Stack, Sound
    <3>2. todo' = Tail(todo)
      BY <2>3, <3>1, ConcatEmptySeq
    <3> QED BY <1>0, <2>1, <3>2, PopBlock
  <2> QED BY <1>7, <2>2, <2>3 DEF TruncateCheck
<1>8. CASE ReadQueue
  <2>1. /\ todo # <<>> /\ Top.op = "obs" /\ held' = held /\ observed' = observed
        /\ WellFormed(ObsLoop) /\ ObsLoop.op = "ingestObs" /\ ObsLoop.rest = Fetched
    BY <1>0, <1>8, ReadQueueMeans
  <2>2. CASE Return
    BY <1>0, <2>1, <2>2, PopBlock DEF Return
  <2>3. CASE todo' = <<ObsLoop>> \o Tail(todo)
    <3> DEFINE pre == <<ObsLoop>>
    <3>1. pre \in Seq(FrameType) /\ pre # <<>> /\ pre[1] = ObsLoop /\ todo' = pre \o Tail(todo)
      BY <2>1, <2>3 DEF WellFormed
    <3> HIDE DEF pre
    <3>2. Top' = ObsLoop
      BY <1>0, <2>1, <3>1, PushTop
    <3>3. ~Doing("ingest")' /\ ~Doing("cut")'
      BY <2>1, <3>2 DEF Doing, Top
    <3>4. IdsOf(observed.events)' \subseteq IdsOf(Top.rest)'
      <4>1. IdsOf(observed.events) \subseteq IdsOf(Fetched)
        BY <1>0, FetchedEvents
      <4>2. IdsOf(observed.events)' = IdsOf(observed.events) /\ IdsOf(Top.rest)' = IdsOf(Fetched)
        BY <2>1, <3>2 DEF IdsOf
      <4> QED BY <4>1, <4>2
    <3> QED BY <3>3, <3>4 DEF InBlock
  <2> QED BY <1>0, <1>8, <2>2, <2>3, ReadQueueMeans
<1>9. CASE Tick \/ Stop \/ Reap
  <2>1. todo' \in {TickFrames, StopFrames, ReapFrames}
    BY <1>9 DEF Tick, Stop, Reap
  <2>2. Head(todo').op = "log"
    <3>1. Head(TickFrames) = TickFrames[1] /\ Head(StopFrames) = StopFrames[1]
          /\ Head(ReapFrames) = ReapFrames[1]
      BY NewFrames
    <3> QED BY <2>1, <3>1, NewFrames DEF Frame
  <2> QED BY <2>2, NoBlock DEF Doing
<1>10. CASE Kill
  <2>1. todo # <<>> /\ Top.op = "kill" /\ held' = held /\ Doing("kill") /\ Len(todo) \in Nat
    BY <1>0, <1>10, Facts DEF Kill, Doing, Top
  <2>2. CASE Return
    BY <1>0, <2>1, <2>2, PopBlock DEF Return
  <2>3. CASE UNCHANGED vars
    <3>1. UNCHANGED <<todo, held, cursor, observed, file>>
      BY <2>3 DEF vars, agent, handle
    <3> QED BY <1>0, <3>1, KeptBlock
  <2>4. CASE KillReturns /\ alive /\ alive' = alive /\ todo' = SubSeq(todo, 4, Len(todo))
    <3>1. Len(todo) = 3
      BY <2>1, <2>4 DEF KillReturns
    <3>2. todo' = <<>>
      BY <2>4, <3>1, SubSeqEmpty
    <3> QED BY <3>2, NoBlock DEF Doing
  <2> QED BY <1>10, <2>2, <2>3, <2>4 DEF Kill
<1>11. CASE Drop
  BY <1>0, <1>11, PopBlock DEF Drop, Gone, Doing, Return
<1>12. CASE StopAgain \/ Crash \/ Launch \/ Adopt \/ Reconcile
  <2>1. todo' = <<>>
    BY <1>12 DEF StopAgain, Gone, Crash, Launch, Adopt, Attach, Reconcile, Ready
  <2> QED BY <2>1, NoBlock DEF Doing
<1>13. CASE Drain
  BY <1>3, <1>4, <1>5, <1>6, <1>7, <1>8, <1>13 DEF Drain
<1> QED BY <1>1, <1>2, <1>9, <1>10, <1>11, <1>12, <1>13 DEF Next
-----------------------------------------------------------------------------
(* The drops *)

\* What lies below a replaced call has moved, as it was.
LEMMA Moved ==
  ASSUME Typed, Typed', todo # <<>>, NEW pre, Len(pre) \in Nat, Spliced(todo', todo, 1, pre),
         NEW i \in 1 .. Len(todo'), i \notin 1 .. Len(pre)
  PROVE  \E m \in 2 .. Len(todo) :
           /\ i = m + Len(pre) - 1 /\ todo'[i] = todo[m]
           /\ \A j \in 2 .. m - 1 : /\ j + Len(pre) - 1 \in Len(pre) + 1 .. i - 1
                                    /\ todo'[j + Len(pre) - 1] = todo[j]
<1>1. /\ Len(todo') \in Nat /\ Len(todo) \in Nat
      /\ \A k \in Len(pre) + 1 .. Len(todo') :
           k - Len(pre) + 1 \in 2 .. Len(todo) /\ todo'[k] = todo[k - Len(pre) + 1]
  <2>1. Len(todo') \in Nat /\ Len(todo) \in Nat
    BY Facts, LenProperties DEF Typed, Stack, Sound
  <2>2. \A k \in Len(pre) + 1 .. Len(todo') :
          k - Len(pre) + 1 \in 1 + 1 .. Len(todo) /\ todo'[k] = todo[k - Len(pre) + 1]
    BY DEF Spliced
  <2>3. 1 + 1 = 2
    OBVIOUS
  <2>4. \A k \in Len(pre) + 1 .. Len(todo') :
          k - Len(pre) + 1 \in 2 .. Len(todo) /\ todo'[k] = todo[k - Len(pre) + 1]
    BY <2>2, <2>3
  <2> QED BY <2>1, <2>4
<1> DEFINE m == i - Len(pre) + 1
<1>2. i \in Len(pre) + 1 .. Len(todo')
  BY <1>1
<1>3. m \in 2 .. Len(todo) /\ todo'[i] = todo[m] /\ i = m + Len(pre) - 1
  BY <1>1, <1>2
<1> HIDE DEF m
<1>4. ASSUME NEW j \in 2 .. m - 1
      PROVE  /\ j + Len(pre) - 1 \in Len(pre) + 1 .. i - 1
             /\ todo'[j + Len(pre) - 1] = todo[j]
  <2>1. /\ j + Len(pre) - 1 \in Len(pre) + 1 .. i - 1
        /\ j + Len(pre) - 1 \in Len(pre) + 1 .. Len(todo')
        /\ (j + Len(pre) - 1) - Len(pre) + 1 = j
    BY <1>1, <1>2, <1>3
  <2> QED BY <1>1, <2>1
<1> QED BY <1>3, <1>4

\* The drops below a replaced call still wait for their kill or their drain.
LEMMA SplicedWaits ==
  ASSUME Typed, Typed', Waits, todo # <<>>,
         NEW pre, Len(pre) \in Nat, Spliced(todo', todo, 1, pre),
         alive' => alive, ~alive => Drained' \/ Len(file') = Len(file),
         ~alive /\ Drained => Drained',
         Top.op = "kill" => ~alive' /\ Len(pre) = 0,
         ~alive /\ LastRead(Top, Len(file)) =>
           Drained' \/ \E j \in 1 .. Len(pre) : LastRead(pre[j], Len(file')),
         \A k \in 1 .. Len(pre) : pre[k].op = "drop" => k > 2 /\ pre[k - 2].op = "kill"
  PROVE  Waits'
<1>1. /\ Len(todo') \in Nat /\ Len(todo) \in Nat /\ todo[1] = Top
      /\ \A k \in 1 .. Len(pre) : todo'[k] = pre[k]
  <2>1. Len(todo') \in Nat /\ Len(todo) \in Nat /\ todo[1] = Top
    BY Facts, LenProperties DEF Typed, Stack, Sound
  <2> QED BY <2>1 DEF Spliced
<1> DEFINE Read(i) == \E j \in 1 .. i - 1 : LastRead(todo'[j], Len(file'))
<1> SUFFICES ASSUME NEW i \in 1 .. Len(todo'), todo'[i].op = "drop", todo'[i].mode # "live"
             PROVE  Killing(i)' \/ (~alive' /\ (Read(i) \/ Drained'))
  BY DEF Waits
<1>2. CASE i \in 1 .. Len(pre)
  <2>1. i > 2 /\ pre[i - 2].op = "kill"
    BY <1>1, <1>2
  <2>2. i - 2 \in 1 .. Len(pre)
    BY <1>1, <1>2, <2>1
  <2> QED BY <1>1, <2>1, <2>2 DEF Killing
<1>3. CASE i \notin 1 .. Len(pre)
  <2>1. PICK m \in 2 .. Len(todo) :
          /\ i = m + Len(pre) - 1 /\ todo'[i] = todo[m]
          /\ \A j \in 2 .. m - 1 : /\ j + Len(pre) - 1 \in Len(pre) + 1 .. i - 1
                                   /\ todo'[j + Len(pre) - 1] = todo[j]
    BY <1>3, Moved
  <2>2. m \in Nat /\ i \in Nat /\ m \in 1 .. Len(todo) /\ i > Len(pre)
    BY <1>1, <2>1
  <2>3. \/ Killing(m)
        \/ ~alive /\ ((\E j \in 1 .. m - 1 : LastRead(todo[j], Len(file))) \/ Drained)
    BY <2>1, <2>2 DEF Waits
  <2>4. CASE Killing(m)
    <3>1. m > 2 /\ todo[m - 2].op = "kill"
      BY <2>4 DEF Killing
    <3>2. CASE m - 2 = 1
      <4>1. Top.op = "kill" /\ ~alive' /\ Len(pre) = 0
        BY <1>1, <3>1, <3>2
      <4>2. m = 3 /\ i = 2 /\ 2 \in 2 .. m - 1 /\ 2 + Len(pre) - 1 = 1
        BY <2>1, <2>2, <3>2, <4>1
      <4>3. todo'[1] = todo[2]
        BY <2>1, <4>2
      <4>4. todo[2] = Frame("log", "terminal")
        <5>1. 1 \in 1 .. Len(todo) /\ todo[1].op = "kill"
          BY <1>1, <2>1, <4>1
        <5> QED BY <5>1 DEF Typed, Stack, Sound
      <4>5. LastRead(todo'[1], Len(file')) /\ 1 \in 1 .. i - 1
        BY <4>2, <4>3, <4>4 DEF LastRead, Frame
      <4> QED BY <4>1, <4>5
    <3>3. CASE m - 2 # 1
      <4>1. m - 2 \in 2 .. m - 1 /\ (m - 2) + Len(pre) - 1 = i - 2 /\ i > 2
        BY <1>1, <2>1, <2>2, <3>1, <3>3
      <4>2. todo'[i - 2] = todo[m - 2]
        BY <2>1, <4>1
      <4> QED BY <3>1, <4>1, <4>2 DEF Killing
    <3> QED BY <3>2, <3>3
  <2>5. CASE ~alive /\ Drained
    BY <2>5
  <2>6. CASE ~alive /\ \E j \in 1 .. m - 1 : LastRead(todo[j], Len(file))
    <3>1. PICK j \in 1 .. m - 1 : LastRead(todo[j], Len(file))
      BY <2>6
    <3>2. CASE Drained'
      BY <2>6, <3>2
    <3>3. CASE j = 1 /\ ~Drained'
      <4>1. PICK k \in 1 .. Len(pre) : LastRead(pre[k], Len(file'))
        BY <1>1, <2>6, <3>1, <3>3
      <4>2. k \in 1 .. i - 1 /\ todo'[k] = pre[k]
        BY <1>1, <2>2
      <4> QED BY <2>6, <4>1, <4>2
    <3>4. CASE j # 1 /\ ~Drained'
      <4>1. j \in 2 .. m - 1
        BY <2>2, <3>4
      <4>2. j + Len(pre) - 1 \in 1 .. i - 1 /\ todo'[j + Len(pre) - 1] = todo[j]
        <5>1. j + Len(pre) - 1 \in Len(pre) + 1 .. i - 1 /\ todo'[j + Len(pre) - 1] = todo[j]
          BY <2>1, <4>1
        <5> QED BY <1>1, <5>1
      <4>3. Len(file') = Len(file)
        BY <2>6, <3>4
      <4>4. LastRead(todo'[j + Len(pre) - 1], Len(file'))
        BY <3>1, <4>2, <4>3
      <4> QED BY <2>6, <4>2, <4>4
    <3> QED BY <3>2, <3>3, <3>4
  <2> QED BY <2>3, <2>4, <2>5, <2>6
<1> QED BY <1>2, <1>3

\* The drops below a replaced call still wait for the listener's drain.
LEMMA SplicedFetches ==
  ASSUME Typed, Typed', Fetches, todo # <<>>,
         NEW pre, Len(pre) \in Nat, Spliced(todo', todo, 1, pre),
         Top.mode # "mid" /\ observed.events = <<>> => observed'.events = <<>>,
         LastFetch(Top) => observed'.events = <<>> \/ \E j \in 1 .. Len(pre) : LastFetch(pre[j]),
         \A k \in 1 .. Len(pre) : pre[k].op = "drop" => \E j \in 1 .. k - 1 : LastFetch(pre[j])
  PROVE  Fetches'
<1>1. /\ Len(todo') \in Nat /\ Len(todo) \in Nat /\ todo[1] = Top
      /\ \A k \in 1 .. Len(pre) : todo'[k] = pre[k]
  <2>1. Len(todo') \in Nat /\ Len(todo) \in Nat /\ todo[1] = Top
    BY Facts, LenProperties DEF Typed, Stack, Sound
  <2> QED BY <2>1 DEF Spliced
<1> SUFFICES ASSUME NEW i \in 1 .. Len(todo'), todo'[i].op = "drop"
             PROVE  (\E j \in 1 .. i - 1 : LastFetch(todo'[j])) \/ observed'.events = <<>>
  BY DEF Fetches, LastFetch
<1>2. CASE i \in 1 .. Len(pre)
  <2>1. PICK j \in 1 .. i - 1 : LastFetch(pre[j])
    BY <1>1, <1>2
  <2>2. j \in 1 .. Len(pre)
    BY <1>1, <1>2
  <2> QED BY <1>1, <2>1, <2>2
<1>3. CASE i \notin 1 .. Len(pre)
  <2>1. PICK m \in 2 .. Len(todo) :
          /\ i = m + Len(pre) - 1 /\ todo'[i] = todo[m]
          /\ \A j \in 2 .. m - 1 : /\ j + Len(pre) - 1 \in Len(pre) + 1 .. i - 1
                                   /\ todo'[j + Len(pre) - 1] = todo[j]
    BY <1>3, Moved
  <2>2. m \in Nat /\ i \in Nat /\ m \in 1 .. Len(todo) /\ i > Len(pre) /\ 1 \in 1 .. m - 1
    BY <1>1, <2>1
  <2>3. Top.mode # "mid"
    BY <1>1, <2>1, <2>2 DEF Typed, Stack, Sound
  <2>4. CASE observed.events = <<>>
    BY <2>3, <2>4
  <2>5. CASE \E j \in 1 .. m - 1 : LastFetch(todo[j])
    <3>1. PICK j \in 1 .. m - 1 : LastFetch(todo[j])
      BY <2>5
    <3>2. CASE j = 1
      <4>1. CASE \E k \in 1 .. Len(pre) : LastFetch(pre[k])
        <5>1. PICK k \in 1 .. Len(pre) : LastFetch(pre[k])
          BY <4>1
        <5>2. k \in 1 .. i - 1 /\ todo'[k] = pre[k]
          BY <1>1, <2>2
        <5> QED BY <5>1, <5>2
      <4> QED BY <1>1, <3>1, <3>2, <4>1
    <3>3. CASE j # 1
      <4>1. j \in 2 .. m - 1
        BY <2>2, <3>3
      <4>2. j + Len(pre) - 1 \in Len(pre) + 1 .. i - 1 /\ todo'[j + Len(pre) - 1] = todo[j]
        BY <2>1, <4>1
      <4>3. j + Len(pre) - 1 \in 1 .. i - 1
        BY <1>1, <4>2
      <4> QED BY <3>1, <4>2, <4>3
    <3> QED BY <3>2, <3>3
  <2> QED BY <2>1, <2>2, <2>4, <2>5 DEF Fetches
<1> QED BY <1>2, <1>3

\* A return.
LEMMA PopTidy ==
  ASSUME Typed, Typed', Waits, Fetches, todo # <<>>, todo' = Tail(todo),
         alive' => alive, ~alive => Drained' \/ Len(file') = Len(file),
         ~alive /\ Drained => Drained', Top.op = "kill" => ~alive',
         ~alive /\ LastRead(Top, Len(file)) => Drained',
         Top.mode # "mid" /\ observed.events = <<>> => observed'.events = <<>>,
         LastFetch(Top) => observed'.events = <<>>
  PROVE  Waits' /\ Fetches'
<1> DEFINE pre == <<>>
<1>1. Spliced(todo', todo, 1, pre) /\ Len(pre) = 0
  <2>1. todo \in Seq(FrameType)
    BY DEF Typed, Stack, Sound
  <2> QED BY <2>1, PopTop
<1> HIDE DEF pre
<1>2. Len(pre) \in Nat /\ \A k \in 1 .. Len(pre) : FALSE
  BY <1>1
<1>3. Waits'
  BY <1>1, <1>2, SplicedWaits
<1>4. Fetches'
  BY <1>1, <1>2, SplicedFetches
<1> QED BY <1>3, <1>4

\* A call.
LEMMA PushTidy ==
  ASSUME Typed, Typed', Waits, Fetches, todo # <<>>, NEW pre, pre \in Seq(FrameType),
         todo' = pre \o Tail(todo), Top.op # "kill", UNCHANGED <<alive, file, held, cursor, observed>>,
         Settled \subseteq Settled',
         ~alive /\ LastRead(Top, Len(file)) =>
           Drained' \/ \E j \in 1 .. Len(pre) : LastRead(pre[j], Len(file)),
         LastFetch(Top) => \E j \in 1 .. Len(pre) : LastFetch(pre[j]),
         \A k \in 1 .. Len(pre) : pre[k].op = "drop" =>
           /\ k > 2 /\ pre[k - 2].op = "kill"
           /\ \E j \in 1 .. k - 1 : LastFetch(pre[j])
  PROVE  Waits' /\ Fetches'
<1>1. Spliced(todo', todo, 1, pre) /\ Len(pre) \in Nat
  <2>1. todo \in Seq(FrameType)
    BY DEF Typed, Stack, Sound
  <2> QED BY <2>1, SpliceTop, LenProperties
<1>2. Drained => Drained'
  BY DEF Drained, Unread
<1>3. Waits'
  BY <1>1, <1>2, SplicedWaits
<1>4. Fetches'
  BY <1>1, SplicedFetches
<1> QED BY <1>3, <1>4

\* A step outside of every call: the log of a process that is gone stays.
LEMMA SameTidy ==
  ASSUME Waits, Fetches, todo' = todo, alive' => alive, observed' = observed,
         ~alive => UNCHANGED <<file, held, cursor>>, Settled \subseteq Settled'
  PROVE  Waits' /\ Fetches'
<1>1. ASSUME ~alive, Drained PROVE Drained'
  BY <1>1 DEF Drained, Unread
<1>2. Fetches'
  BY DEF Fetches, LastFetch
<1>3. Waits'
  <2> SUFFICES ASSUME NEW i \in 1 .. Len(todo), todo[i].op = "drop", todo[i].mode # "live"
               PROVE  \/ Killing(i)'
                      \/ ~alive' /\ ((\E j \in 1 .. i - 1 : LastRead(todo'[j], Len(file'))) \/ Drained')
    BY DEF Waits
  <2>1. Killing(i)' = Killing(i)
    BY DEF Killing
  <2>2. \/ Killing(i)
        \/ ~alive /\ ((\E j \in 1 .. i - 1 : LastRead(todo[j], Len(file))) \/ Drained)
    BY DEF Waits
  <2> QED BY <1>1, <2>1, <2>2
<1> QED BY <1>2, <1>3

\* No operation, no drop.
LEMMA NoTidy ==
  ASSUME todo' = <<>>
  PROVE  Waits' /\ Fetches'
<1>1. Len(todo') = 0
  BY EmptySeq
<1>2. \A i \in 1 .. 0 : FALSE
  OBVIOUS
<1>3. \A i \in 1 .. Len(todo') : FALSE
  BY <1>1, <1>2
<1> QED BY <1>3 DEF Waits, Fetches

\* As the cursor moves on there is less to read, and nothing at the end.
LEMMA UnreadShrinks ==
  ASSUME Typed, UNCHANGED <<file, held>>, cursor' \in Nat, held => cursor <= cursor'
  PROVE  /\ Unread' \subseteq Unread
         /\ cursor' = Len(file) => Unread' = {}
<1>1. cursor \in Nat /\ Len(file) \in Nat
  BY Facts DEF Typed, MeterTyped
<1>2. ASSUME held, NEW i \in cursor' + 1 .. Len(file) PROVE i \in cursor + 1 .. Len(file)
  <2> DEFINE c == cursor'
  <2>1. cursor <= c /\ c \in Nat /\ i \in c + 1 .. Len(file)
    BY <1>2
  <2> HIDE DEF c
  <2> QED BY <1>1, <2>1
<1>3. cursor' = Len(file) => \A i \in cursor' + 1 .. Len(file) : FALSE
  BY <1>1
<1> QED BY <1>2, <1>3 DEF Unread

\* The last read of a log that grows no more: what it leaves unread is settled.
LEMMA LastReadDrains ==
  ASSUME Typed, Readers, Lines, InBlock, ~alive, held, Doing("ingest"), LastRead(Top, Len(file)),
         Settled \subseteq Settled', IdsOf(Top.rest) \subseteq Settled',
         UNCHANGED <<file, held, cursor>>
  PROVE  Drained'
<1>1. Top.mode = "terminal" /\ Top.to = Len(file)
  BY DEF LastRead, Doing, Top
<1>2. CutOff(Top.to) \subseteq Settled'
  <2> SUFFICES ASSUME Top.to \in DOMAIN file, file[Top.to].part = "torn"
               PROVE  file[Top.to].id \in Settled'
    BY DEF CutOff
  <2>1. half = NoHalf /\ Len(file) \in Nat /\ Len(file) \in 1 .. Len(file)
    BY <1>1, Facts DEF Lines
  <2>2. file[Len(file)].id \in excused
    BY <1>1, <2>1 DEF Lines
  <2> QED BY <1>1, <2>2 DEF Settled
<1>3. \A p \in cursor + 1 .. Top.to : file[p].id \in Settled'
  BY <1>2, Passed
<1> QED BY <1>1, <1>3 DEF Drained, Unread

\* The steps of a loop.
LEMMA LoopTidy ==
  ASSUME LedgerInv, Typed', Readers, Lines, InBlock, Waits, Fetches,
         \/ Advance \/ ObservedDone
         \/ \E busy \in BOOLEAN : LogRefused(busy) \/ ObservedRefused(busy)
  PROVE  Waits' /\ Fetches'
<1>0. Typed /\ Settled \subseteq Settled' /\ NonePending.events = <<>> /\ cursor' \in Nat
  <2>1. Typed /\ cursor' \in Nat /\ [Next]_vars
    BY DEF LedgerInv, Metered, Typed, MeterTyped, Next, Drain
  <2> QED BY <2>1, SettledGrows DEF NonePending
<1>1. CASE Advance
  <2>1. /\ todo # <<>> /\ todo' = Tail(todo) /\ Top.op = "ingest" /\ Doing("ingest")
        /\ UNCHANGED <<alive, file, held, observed>>
        /\ cursor' = IF held THEN Top.to ELSE cursor
    BY <1>1 DEF Advance, Doing, Return, Top, agent
  <2>2. held => cursor <= cursor'
    BY <2>1 DEF InBlock
  <2>3. Unread' \subseteq Unread /\ (cursor' = Len(file) => Unread' = {})
    BY <1>0, <2>1, <2>2, UnreadShrinks
  <2>4. Drained => Drained'
    BY <1>0, <2>3 DEF Drained
  <2>5. LastRead(Top, Len(file)) => Drained'
    <3>1. LastRead(Top, Len(file)) => Top.to = Len(file)
      BY <2>1 DEF LastRead
    <3>2. ~held => Unread' = {}
      BY <2>1 DEF Unread
    <3>3. LastRead(Top, Len(file)) => Unread' = {}
      BY <2>1, <2>3, <3>1, <3>2
    <3> QED BY <3>3 DEF Drained
  <2>6. ~LastFetch(Top)
    BY <2>1 DEF LastFetch
  <2> QED BY <1>0, <2>1, <2>4, <2>5, <2>6, PopTidy
<1>2. ASSUME NEW busy \in BOOLEAN, LogRefused(busy) PROVE Waits' /\ Fetches'
  <2>1. /\ todo # <<>> /\ todo' = Tail(todo) /\ Top.op = "ingest" /\ Doing("ingest")
        /\ UNCHANGED <<alive, file, held, observed>>
        /\ cursor' = IF LogSkips(busy) /\ held THEN Top.to ELSE cursor
        /\ Top.mode = "terminal" => IdsOf(Top.rest) \subseteq announced'
    BY <1>2, LogRefusedMeans DEF Doing, Top, agent
  <2>2. held => cursor <= cursor'
    <3>1. cursor \in Nat
      BY <1>0 DEF Typed, MeterTyped
    <3> QED BY <2>1, <3>1 DEF InBlock
  <2>3. Unread' \subseteq Unread
    BY <1>0, <2>1, <2>2, UnreadShrinks
  <2>4. Drained => Drained'
    BY <1>0, <2>3 DEF Drained
  <2>5. ASSUME ~alive, LastRead(Top, Len(file)) PROVE Drained'
    <3>1. CASE ~held
      <4>1. Unread' = {}
        BY <2>1, <3>1 DEF Unread
      <4> QED BY <4>1 DEF Drained
    <3>2. CASE held
      <4>1. Top.mode = "terminal"
        BY <2>5 DEF LastRead
      <4>2. cursor' = cursor /\ IdsOf(Top.rest) \subseteq Settled'
        BY <2>1, <4>1 DEF LogSkips, Settled
      <4> QED BY <1>0, <2>1, <2>5, <3>2, <4>2, LastReadDrains
    <3> QED BY <3>1, <3>2
  <2>6. ~LastFetch(Top)
    BY <2>1 DEF LastFetch
  <2> QED BY <1>0, <2>1, <2>4, <2>5, <2>6, PopTidy
<1>3. CASE ObservedDone
  <2>1. /\ todo # <<>> /\ todo' = Tail(todo) /\ Top.op = "ingestObs"
        /\ UNCHANGED <<alive, file, held, cursor>> /\ observed'.events = <<>>
    BY <1>0, <1>3 DEF ObservedDone, Doing, Return, Top, agent
  <2>2. (Drained => Drained') /\ ~LastRead(Top, Len(file))
    BY <1>0, <2>1 DEF Drained, Unread, LastRead
  <2> QED BY <1>0, <2>1, <2>2, PopTidy
<1>4. ASSUME NEW busy \in BOOLEAN, ObservedRefused(busy) PROVE Waits' /\ Fetches'
  <2>1. /\ todo # <<>> /\ todo' = Tail(todo) /\ Top.op = "ingestObs"
        /\ UNCHANGED <<alive, file, held, cursor>>
        /\ observed' = IF Keep(busy) = <<>> \/ ~held THEN NonePending
                       ELSE [events |-> Keep(busy),
                             attempts |-> IF ObsSkips(busy) THEN 1 ELSE ObsTries(busy)]
    BY <1>4, ObservedRefusedMeans DEF Doing, Top, agent
  <2>2. (Drained => Drained') /\ ~LastRead(Top, Len(file))
    BY <1>0, <2>1 DEF Drained, Unread, LastRead
  <2>3. Top.mode = "terminal" => observed'.events = <<>>
    <3>1. Top.mode = "terminal" => Keep(busy) = <<>>
      BY DEF Keep, ObsSkips, Left
    <3> QED BY <1>0, <2>1, <3>1
  <2>4. Top.mode # "live"
    <3>1. WellFormed(Top) /\ Top \in FrameType
      BY <1>0, <2>1, Facts
    <3> QED BY <2>1, <3>1 DEF WellFormed
  <2>5. Top.mode \in {"mid", "terminal"}
    <3>1. Top \in FrameType
      BY <1>0, <2>1, Facts
    <3> QED BY <2>4, <3>1 DEF FrameType
  <2> HIDE DEF Keep, ObsSkips, ObsTries
  <2> QED BY <1>0, <2>1, <2>2, <2>3, <2>5, PopTidy DEF LastFetch
<1> QED BY <1>1, <1>2, <1>3, <1>4

\* The read of the tail: the last one hands its block on, or has none.
LEMMA ReadTailTidy ==
  ASSUME Typed, Typed', Readers, Waits, Fetches, ReadTail
  PROVE  Waits' /\ Fetches'
<1>1. /\ todo # <<>> /\ Doing("log") /\ Top.op = "log"
      /\ cursor \in Nat /\ Len(file) \in Nat
      /\ UNCHANGED <<alive, file, held, observed>>
  BY Facts DEF ReadTail, Doing, Top, agent, Typed, MeterTyped
<1>2. Settled \subseteq Settled'
  <2>1. [Next]_vars
    BY DEF Next, Drain
  <2> QED BY <2>1, SettledGrows
<1>3. ~LastFetch(Top)
  BY <1>1 DEF LastFetch
<1> DEFINE Given == /\ Return /\ cursor' = cursor
                    /\ Top.mode = "terminal" => IdsOf(file) \subseteq excused' \/ ~held
           Pushed == /\ held /\ cursor <= Len(file) /\ cursor' = cursor
                     /\ todo' = Reading \o Tail(todo)
<1>4. Given \/ Pushed
  <2>1. CASE Fault /\ Return /\ UNCHANGED cursor
             /\ excused' = IF Top.mode = "terminal" THEN excused \cup IdsOf(file) ELSE excused
    BY <2>1
  <2>2. CASE ~held /\ Return /\ UNCHANGED cursor
    BY <2>2
  <2>3. CASE held /\ cursor > Len(file)
    BY <1>1, <2>3 DEF Readers
  <2>4. CASE held /\ ~(cursor > Len(file)) /\ UNCHANGED cursor
             /\ todo' = (IF DrainTo = cursor THEN <<>> ELSE <<Block>>)
                          \o <<Frame("trunc", Top.mode)>> \o Tail(todo)
    <3>1. cursor <= Len(file)
      BY <1>1, <2>4
    <3> QED BY <2>4, <3>1 DEF Reading
  <2> QED BY <2>1, <2>2, <2>3, <2>4 DEF ReadTail, Block, DrainTo
<1>5. CASE Given
  <2>1. todo' = Tail(todo) /\ cursor' = cursor
    BY <1>5 DEF Return
  <2>2. Unread' = Unread
    BY <1>1, <2>1 DEF Unread
  <2>3. Drained => Drained'
    BY <1>2, <2>2 DEF Drained
  <2>4. LastRead(Top, Len(file)) => Drained'
    <3> SUFFICES ASSUME Top.mode = "terminal" PROVE Drained'
      BY DEF LastRead
    <3>1. CASE IdsOf(file) \subseteq excused'
      <4>1. \A i \in cursor + 1 .. Len(file) : i \in DOMAIN file
        BY <1>1, Facts
      <4>2. Unread \subseteq IdsOf(file)
        BY <4>1 DEF Unread, IdsOf
      <4> QED BY <2>2, <3>1, <4>2 DEF Drained, Settled
    <3>2. CASE ~held
      BY <2>2, <3>2 DEF Drained, Unread
    <3> QED BY <1>5, <3>1, <3>2
  <2> QED BY <1>1, <1>3, <2>1, <2>3, <2>4, PopTidy
<1>6. CASE Pushed
  <2>1. held /\ cursor <= Len(file) /\ todo' = Reading \o Tail(todo) /\ cursor' = cursor
    BY <1>6
  <2>2. /\ DrainTo = cursor => Reading = <<Frame("trunc", Top.mode)>>
        /\ DrainTo # cursor => Reading = <<Block, Frame("trunc", Top.mode)>>
        /\ Sound(Reading)
    BY <1>1, <2>1, ReadTailFrames
  <2>3. Frame("trunc", Top.mode).op = "trunc"
        /\ Block.op = "ingest" /\ Block.mode = Top.mode /\ Block.to = DrainTo
    BY DEF Frame, Block
  <2>4. \A k \in 1 .. Len(Reading) : Reading[k].op # "drop"
    BY <2>2, <2>3
  <2>5. ASSUME LastRead(Top, Len(file))
        PROVE  Drained' \/ \E j \in 1 .. Len(Reading) : LastRead(Reading[j], Len(file))
    <3>1. Top.mode = "terminal"
      BY <2>5 DEF LastRead
    <3>2. DrainTo = Len(file)
      BY <3>1 DEF DrainTo, PlanDrain
    <3>3. CASE DrainTo = cursor
      <4>1. \A i \in cursor + 1 .. Len(file) : FALSE
        BY <1>1, <3>2, <3>3
      <4>2. Unread' = {}
        BY <1>1, <2>1, <4>1 DEF Unread
      <4> QED BY <4>2 DEF Drained
    <3>4. CASE DrainTo # cursor
      <4>1. 1 \in 1 .. Len(Reading) /\ Reading[1] = Block
        BY <2>2, <3>4
      <4>2. LastRead(Block, Len(file))
        BY <2>3, <3>1, <3>2 DEF LastRead
      <4> QED BY <4>1, <4>2
    <3> QED BY <3>3, <3>4
  <2> DEFINE pre == Reading
  <2>6. /\ pre \in Seq(FrameType) /\ todo' = pre \o Tail(todo)
        /\ \A k \in 1 .. Len(pre) : pre[k].op = "drop" => FALSE
        /\ ~alive /\ LastRead(Top, Len(file)) =>
             Drained' \/ \E j \in 1 .. Len(pre) : LastRead(pre[j], Len(file))
    <3>1. \A k \in 1 .. Len(pre) : pre[k].op = "drop" => FALSE
      BY <2>4
    <3>2. ~alive /\ LastRead(Top, Len(file)) =>
             Drained' \/ \E j \in 1 .. Len(pre) : LastRead(pre[j], Len(file))
      BY <2>5
    <3> QED BY <2>1, <2>2, <3>1, <3>2 DEF Sound
  <2> HIDE DEF pre
  <2> QED BY <1>1, <1>2, <1>3, <2>1, <2>6, PushTidy
<1> QED BY <1>4, <1>5, <1>6

\* The commit: what is left of the block, below a whole stop if it breaches.
LEMMA CommitTidy ==
  ASSUME Typed, Typed', Waits, Fetches, Commit
  PROVE  Waits' /\ Fetches'
<1> DEFINE e == Head(Top.rest)
           after == [Top EXCEPT !.rest = Tail(@)]
           pre == (IF Breaches(e) THEN StopFrames ELSE <<>>) \o <<after>>
<1>1. /\ todo # <<>> /\ WellFormed(after) /\ after.op = Top.op /\ after.mode = Top.mode
      /\ after.to = Top.to /\ Top.op \in Loops
  BY AfterEvent DEF Commit
<1>2. todo' = pre \o Tail(todo) /\ UNCHANGED <<alive, file, held, cursor, observed>>
  BY DEF Commit, agent, handle
<1>3. Settled \subseteq Settled'
  <2>1. [Next]_vars
    BY DEF Next, Drain
  <2> QED BY <2>1, SettledGrows
<1>4. (LastRead(Top, Len(file)) => LastRead(after, Len(file)))
      /\ (LastFetch(Top) => LastFetch(after)) /\ Top.op # "kill" /\ after.op # "drop"
  BY <1>1 DEF LastRead, LastFetch, Loops
<1>5. CASE Breaches(e)
  <2> HIDE DEF e, after
  <2>1. pre = StopFrames \o <<after>>
    BY <1>5
  <2>2. /\ Sound(pre) /\ Len(pre) = 6 /\ \A k \in 1 .. 5 : pre[k] = StopFrames[k]
        /\ pre[6] = after
    BY <1>1, <2>1, StopThen
  <2> HIDE DEF pre
  <2>3. /\ pre[1].op = "log" /\ pre[2].op = "obs" /\ pre[2].mode = "terminal"
        /\ pre[3].op = "kill" /\ pre[4].op = "log" /\ pre[5].op = "drop"
    BY <2>2, NewFrames DEF Frame
  <2>4. LastFetch(pre[2])
    BY <2>3 DEF LastFetch
  <2>5. ASSUME NEW k \in 1 .. Len(pre), pre[k].op = "drop"
        PROVE  k > 2 /\ pre[k - 2].op = "kill" /\ \E j \in 1 .. k - 1 : LastFetch(pre[j])
    <3>1. k = 5
      <4>1. k \in {1, 2, 3, 4, 5, 6}
        BY <2>2
      <4> QED BY <1>4, <2>2, <2>3, <2>5, <4>1
    <3>2. pre[5 - 2].op = "kill" /\ 2 \in 1 .. 5 - 1
      BY <2>3
    <3> QED BY <2>4, <3>1, <3>2
  <2>6. 6 \in 1 .. Len(pre) /\ pre \in Seq(FrameType)
    BY <2>2 DEF Sound
  <2>7. LastRead(Top, Len(file)) => \E j \in 1 .. Len(pre) : LastRead(pre[j], Len(file))
    BY <1>4, <2>2, <2>6
  <2>8. LastFetch(Top) => \E j \in 1 .. Len(pre) : LastFetch(pre[j])
    BY <1>4, <2>2, <2>6
  <2> QED BY <1>1, <1>2, <1>3, <1>4, <2>5, <2>6, <2>7, <2>8, PushTidy
<1>6. CASE ~Breaches(e)
  <2> HIDE DEF e, after
  <2>1. pre = <<after>>
    <3>1. <<after>> \in Seq({after})
      OBVIOUS
    <3>2. pre = <<>> \o <<after>>
      BY <1>6
    <3> HIDE DEF pre
    <3> QED BY <3>1, <3>2, ConcatEmptySeq
  <2> HIDE DEF pre
  <2>2. Len(pre) = 1 /\ pre[1] = after /\ pre \in Seq(FrameType)
    BY <1>1, <2>1 DEF WellFormed
  <2>3. \A k \in 1 .. Len(pre) : pre[k].op = "drop" => FALSE
    BY <1>4, <2>2
  <2>4. LastRead(Top, Len(file)) => \E j \in 1 .. Len(pre) : LastRead(pre[j], Len(file))
    BY <1>4, <2>2
  <2>5. LastFetch(Top) => \E j \in 1 .. Len(pre) : LastFetch(pre[j])
    BY <1>4, <2>2
  <2> QED BY <1>1, <1>2, <1>3, <1>4, <2>2, <2>3, <2>4, <2>5, PushTidy
<1> QED BY <1>5, <1>6

\* The last drains are done when the handle goes.
LEMMA NextTidy ==
  ASSUME LedgerInv, Typed', Readers, Lines, InBlock, Tidy, [Next]_vars, [KillReturns]_vars
  PROVE  Tidy'
<1>0. /\ Typed /\ Waits /\ Fetches /\ Quit /\ Quit' /\ Settled \subseteq Settled'
      /\ NonePending.events = <<>> /\ Channel
  <2>1. Typed /\ Channel
    BY DEF LedgerInv, Metered
  <2>2. Waits /\ Fetches /\ Quit
    BY DEF Tidy
  <2> QED BY <2>1, <2>2, NextQuit, SettledGrows DEF NonePending
<1> SUFFICES Waits' /\ Fetches'
  BY <1>0 DEF Tidy
<1>1. CASE WriteLine \/ WriteRest
  <2>1. alive /\ UNCHANGED <<alive, todo, observed>>
    BY <1>0, <1>1, WriteMeans DEF handle
  <2> QED BY <1>0, <2>1, SameTidy
<1>2. CASE Forward \/ Exit \/ TailerPass \/ UNCHANGED vars
  <2>1. UNCHANGED <<todo, held, cursor, observed, file>> /\ (alive' => alive)
    BY <1>2 DEF Forward, Exit, TailerPass, vars, agent, handle
  <2> QED BY <1>0, <2>1, SameTidy
<1>3. CASE ReadTail
  BY <1>0, <1>3, ReadTailTidy
<1>4. CASE Commit
  BY <1>0, <1>4, CommitTidy
<1>5. CASE Advance \/ ObservedDone \/ \E busy \in BOOLEAN : LogRefused(busy) \/ ObservedRefused(busy)
  BY <1>0, <1>5, LoopTidy
<1>6. CASE TruncateCheck
  <2>1. /\ todo # <<>> /\ Top \in FrameType /\ Top.op = "trunc" /\ Len(file) \in Nat
        /\ Tail(todo) \in Seq(FrameType)
        /\ UNCHANGED <<alive, file, held, cursor, observed>>
    BY <1>0, <1>6, Facts, HeadTailProperties DEF TruncateCheck, Doing, Top, agent, Typed, Stack, Sound
  <2>2. ~LastRead(Top, Len(file)) /\ ~LastFetch(Top)
    BY <2>1 DEF LastRead, LastFetch
  <2> DEFINE cut == [Top EXCEPT !.op = "cut", !.to = Len(file)]
  <2>3. CASE todo' = <<cut>> \o Tail(todo)
    <3>1. cut \in FrameType /\ cut.op = "cut"
      BY <2>1 DEF FrameType
    <3> HIDE DEF cut
    <3> DEFINE pre == <<cut>>
    <3>2. /\ pre \in Seq(FrameType) /\ todo' = pre \o Tail(todo)
          /\ \A k \in 1 .. Len(pre) : pre[k].op = "drop" => FALSE
      BY <2>3, <3>1
    <3> HIDE DEF pre
    <3> QED BY <1>0, <2>1, <2>2, <3>2, PushTidy
  <2>4. CASE todo' = <<>> \o Tail(todo)
    <3>1. todo' = Tail(todo)
      BY <2>1, <2>4, ConcatEmptySeq
    <3>2. Drained => Drained'
      BY <1>0, <2>1 DEF Drained, Unread
    <3> QED BY <1>0, <2>1, <2>2, <3>1, <3>2, PopTidy
  <2> QED BY <1>6, <2>3, <2>4 DEF TruncateCheck
<1>7. CASE Truncate
  <2>1. /\ todo # <<>> /\ todo' = Tail(todo) /\ Top.op = "cut"
        /\ UNCHANGED <<alive, held, observed>>
    BY <1>7 DEF Truncate, Doing, Return, Top
  <2>2. ~LastRead(Top, Len(file)) /\ ~LastFetch(Top)
    BY <2>1 DEF LastRead, LastFetch
  <2>3. CASE UNCHANGED <<file, cursor>>
    <3>1. Drained => Drained'
      BY <1>0, <2>1, <2>3 DEF Drained, Unread
    <3> QED BY <1>0, <2>1, <2>2, <2>3, <3>1, PopTidy
  <2>4. CASE file' = <<>> /\ cursor' = 0
    <3>1. Len(file') = 0
      BY <2>4
    <3>2. \A i \in 0 + 1 .. 0 : FALSE
      OBVIOUS
    <3>3. Unread' = {}
      BY <2>4, <3>1, <3>2 DEF Unread
    <3>4. Drained'
      BY <3>3 DEF Drained
    <3> QED BY <1>0, <2>1, <2>2, <3>4, PopTidy
  <2> QED BY <1>7, <2>3, <2>4 DEF Truncate
<1>8. CASE ReadQueue
  <2>1. /\ todo # <<>> /\ Top.op = "obs" /\ WellFormed(ObsLoop) /\ ObsLoop.op = "ingestObs"
        /\ ObsLoop.mode = Top.mode
        /\ UNCHANGED <<alive, file, held, cursor, observed>>
    BY <1>0, <1>8, ReadQueueMeans
  <2>2. ~LastRead(Top, Len(file)) /\ (LastFetch(Top) => LastFetch(ObsLoop))
    BY <2>1 DEF LastRead, LastFetch
  <2>3. CASE todo' = <<ObsLoop>> \o Tail(todo)
    <3> DEFINE pre == <<ObsLoop>>
    <3>1. /\ pre \in Seq(FrameType) /\ todo' = pre \o Tail(todo) /\ Len(pre) = 1
          /\ pre[1] = ObsLoop
      BY <2>1, <2>3 DEF WellFormed
    <3> HIDE DEF pre
    <3>2. \A k \in 1 .. Len(pre) : pre[k].op = "drop" => FALSE
      BY <2>1, <3>1
    <3>3. LastFetch(Top) => \E j \in 1 .. Len(pre) : LastFetch(pre[j])
      BY <2>2, <3>1
    <3> QED BY <1>0, <2>1, <2>2, <3>1, <3>2, <3>3, PushTidy
  <2>4. CASE ~(held /\ source = "observed" /\ observed.events \o queue # <<>>)
    <3>1. todo' = Tail(todo)
      BY <1>8, <2>4 DEF ReadQueue, Return
    <3>2. observed.events = <<>>
      <4>1. CASE ~held
        BY <1>0, <4>1 DEF Quit
      <4>2. CASE source # "observed"
        BY <1>0, <4>2 DEF Channel, Typed, MeterTyped
      <4>3. CASE observed.events \o queue = <<>>
        <5>1. observed.events \in Seq(Event) /\ queue \in Seq([id : Ids])
          BY <1>0 DEF Typed, MeterTyped
        <5>2. Len(observed.events) \in Nat /\ Len(queue) \in Nat
          BY <5>1, LenProperties
        <5>3. Len(observed.events \o queue) = Len(observed.events) + Len(queue)
          BY <5>1
        <5>4. Len(observed.events \o queue) = 0
          BY <4>3
        <5>5. Len(observed.events) = 0
          BY <5>2, <5>3, <5>4
        <5> QED BY <5>1, <5>5, EmptySeq
      <4> QED BY <2>4, <4>1, <4>2, <4>3
    <3>3. Drained => Drained'
      BY <1>0, <2>1 DEF Drained, Unread
    <3> QED BY <1>0, <2>1, <2>2, <3>1, <3>2, <3>3, PopTidy
  <2> QED BY <1>8, <2>3, <2>4 DEF ReadQueue, ObsLoop, Fetched, Minted
<1>9. CASE Tick \/ Stop \/ Reap
  <2>1. CASE todo' = TickFrames
    <3>1. \A i \in 1 .. Len(todo') : todo'[i].op # "drop"
      BY <2>1, NewFrames DEF Frame
    <3> QED BY <3>1 DEF Waits, Fetches
  <2>2. CASE todo' = StopFrames
    <3>1. /\ Len(todo') = 5 /\ todo'[3].op = "kill" /\ LastFetch(todo'[2])
          /\ \A k \in 1 .. 5 : todo'[k].op = "drop" => k = 5
      BY <2>2, NewFrames DEF Frame, LastFetch
    <3>2. Killing(5)'
      BY <3>1 DEF Killing
    <3>3. Waits'
      BY <3>1, <3>2 DEF Waits
    <3>4. Fetches'
      BY <3>1 DEF Fetches, LastFetch
    <3> QED BY <3>3, <3>4
  <2>3. CASE todo' = ReapFrames /\ alive' = alive
    <3>1. /\ Len(todo') = 3 /\ LastFetch(todo'[2])
          /\ LastRead(todo'[1], Len(file'))
          /\ \A k \in 1 .. 3 : todo'[k].op = "drop" => k = 3
          /\ todo'[3] = Frame("drop", IF alive THEN "live" ELSE "terminal")
      BY <2>3, NewFrames DEF Frame, LastFetch, LastRead
    <3>2. todo'[3].mode # "live" => ~alive'
      BY <2>3, <3>1 DEF Frame
    <3>3. Waits'
      BY <3>1, <3>2 DEF Waits, LastRead
    <3>4. Fetches'
      BY <3>1 DEF Fetches, LastFetch
    <3> QED BY <3>3, <3>4
  <2> QED BY <1>9, <2>1, <2>2, <2>3 DEF Tick, Stop, Reap, agent
<1>10. CASE Kill
  <2>1. /\ todo # <<>> /\ Top.op = "kill" /\ Doing("kill") /\ Len(todo) \in Nat
        /\ UNCHANGED <<held, cursor, file, observed>>
    BY <1>0, <1>10, Facts DEF Kill, Doing, Top
  <2>2. (Drained => Drained') /\ ~LastRead(Top, Len(file)) /\ ~LastFetch(Top)
    BY <1>0, <2>1 DEF Drained, Unread, LastRead, LastFetch
  <2>3. CASE Return /\ alive' = FALSE
    BY <1>0, <2>1, <2>2, <2>3, PopTidy DEF Return
  <2>4. CASE UNCHANGED vars
    <3>1. UNCHANGED <<todo, held, cursor, observed, file, alive>>
      BY <2>4 DEF vars, agent, handle
    <3> QED BY <1>0, <3>1, SameTidy
  <2>5. CASE KillReturns /\ alive /\ alive' = alive /\ todo' = SubSeq(todo, 4, Len(todo))
    <3>1. Len(todo) = 3
      BY <2>1, <2>5 DEF KillReturns
    <3>2. todo' = <<>>
      BY <2>5, <3>1, SubSeqEmpty
    <3> QED BY <3>2, NoTidy
  <2> QED BY <1>10, <2>3, <2>4, <2>5 DEF Kill
<1>11. CASE Drop
  <2>1. /\ todo # <<>> /\ todo' = Tail(todo) /\ Top.op = "drop" /\ ~alive' /\ ~held'
        /\ observed'.events = <<>>
    BY <1>0, <1>11 DEF Drop, Gone, Doing, Return, Top
  <2>2. Drained'
    BY <2>1 DEF Drained, Unread
  <2> QED BY <1>0, <2>1, <2>2, PopTidy
<1>12. CASE StopAgain \/ Crash \/ Launch \/ Adopt \/ Reconcile
  <2>1. todo' = <<>>
    BY <1>12 DEF StopAgain, Gone, Crash, Launch, Adopt, Attach, Reconcile, Ready
  <2> QED BY <2>1, NoTidy
<1> QED
  BY <1>1, <1>2, <1>3, <1>4, <1>5, <1>6, <1>7, <1>8, <1>9, <1>10, <1>11, <1>12 DEF Next, Drain

-----------------------------------------------------------------------------
(* What is owed *)

\* Where an event that has been reported must be.
Owed == Settled \cup Unread \cup InHand

\* The lists of the stack, the queue and the park are in hand.
LEMMA HandHolds ==
  ASSUME Typed'
  PROVE  /\ IdsOf(queue)' \subseteq Owed' /\ IdsOf(observed.events)' \subseteq Owed'
         /\ \A k \in 1 .. Len(todo') : IdsOf(todo'[k].rest) \subseteq Owed'
         /\ todo' # <<>> => IdsOf(Top'.rest) \subseteq Owed'
         /\ Settled' \subseteq Owed' /\ Unread' \subseteq Owed'
<1>1. todo' \in Seq(FrameType)
  BY DEF Typed, Stack, Sound
<1>2. DOMAIN todo' = 1 .. Len(todo') /\ Len(todo') \in Nat
  BY <1>1, LenProperties
<1>3. ASSUME NEW k \in 1 .. Len(todo') PROVE IdsOf(todo'[k].rest) \subseteq InHand'
  <2>1. IdsOf(todo'[k].rest) = IdsOf(todo[k].rest)'
    BY DEF IdsOf
  <2> QED BY <1>2, <2>1 DEF InHand
<1>4. todo' # <<>> => 1 \in 1 .. Len(todo') /\ Top' = todo'[1]
  BY <1>1, <1>2, EmptySeq DEF Top
<1>5. IdsOf(queue)' \subseteq InHand' /\ IdsOf(observed.events)' \subseteq InHand'
  BY DEF InHand
<1> QED BY <1>3, <1>4, <1>5 DEF Owed

\* A step after which all that was owed still is.
LEMMA StillOwed ==
  ASSUME Typed, RestOnTop, Accounted, Settled \subseteq Settled', Typed',
         Finished' \subseteq Finished \cup Owed', Unread \subseteq Owed',
         IdsOf(queue) \subseteq Owed', IdsOf(observed.events) \subseteq Owed',
         todo # <<>> => IdsOf(Top.rest) \subseteq Owed'
  PROVE  Accounted'
<1>1. InHand \subseteq Owed'
  <2>1. \A k \in DOMAIN todo : k = 1 \/ k \in 2 .. Len(todo)
    BY Facts
  <2>2. ASSUME NEW k \in DOMAIN todo PROVE IdsOf(todo[k].rest) \subseteq Owed'
    <3>1. CASE k = 1
      <4>1. todo # <<>> /\ todo[1] = Top
        BY <2>2, <3>1, Facts
      <4> QED BY <3>1, <4>1
    <3>2. CASE k \in 2 .. Len(todo)
      <4>1. todo[k].rest = <<>>
        BY <3>2 DEF RestOnTop
      <4> QED BY <4>1 DEF IdsOf
    <3> QED BY <2>1, <3>1, <3>2
  <2> QED BY <2>2 DEF InHand
<1>2. Settled \subseteq Owed'
  BY DEF Owed
<1>3. Finished' \subseteq Owed'
  BY <1>1, <1>2 DEF Accounted
<1> QED BY <1>3 DEF Accounted, Owed

\* What has been reported in full, when the agent begins nothing new.
LEMMA SameFinished ==
  ASSUME produced' = produced, Typed',
         half' = half \/ half = NoHalf \/ (half' = NoHalf /\ Unfinished \subseteq Settled')
  PROVE  Finished' \subseteq Finished \cup Owed'
<1>1. Settled' \subseteq Owed'
  BY HandHolds
<1>2. half = NoHalf => Unfinished = {}
  BY DEF Unfinished, NoHalf
<1>3. half' = half => Unfinished' = Unfinished
  BY DEF Unfinished
<1> QED BY <1>1, <1>2, <1>3 DEF Finished

\* Steps that read, move or settle nothing.
LEMMA QuietAccount ==
  ASSUME Typed, RestOnTop, Accounted, Settled \subseteq Settled', Typed',
         UNCHANGED <<file, held, cursor, queue, observed, produced>>,
         half' = half \/ half = NoHalf \/ (half' = NoHalf /\ Unfinished \subseteq Settled'),
         todo' = todo \/ (todo # <<>> => Top.rest = <<>>)
  PROVE  Accounted'
<1>1. Finished' \subseteq Finished \cup Owed'
  BY SameFinished
<1>2. Unread' = Unread /\ IdsOf(queue)' = IdsOf(queue)
      /\ IdsOf(observed.events)' = IdsOf(observed.events)
  BY DEF Unread, IdsOf
<1>3. Unread \subseteq Owed' /\ IdsOf(queue) \subseteq Owed' /\ IdsOf(observed.events) \subseteq Owed'
  BY <1>2, HandHolds
<1>4. todo # <<>> => IdsOf(Top.rest) \subseteq Owed'
  <2>1. CASE todo' = todo
    <3>1. Top' = Top
      BY <2>1 DEF Top
    <3> QED BY <2>1, <3>1, HandHolds
  <2>2. CASE todo # <<>> => Top.rest = <<>>
    BY <2>2 DEF IdsOf
  <2> QED BY <2>1, <2>2
<1> QED BY <1>1, <1>3, <1>4, StillOwed

\* The agent reports: on the log, where the cursor has yet to pass, or into it
\* while nobody reads.
LEMMA WriteAccount ==
  ASSUME Typed, RestOnTop, Readers, Accounted, Typed', WriteLine \/ WriteRest
  PROVE  Accounted'
<1>1. /\ Len(file) \in Nat /\ Len(file') = Len(file) + 1
      /\ \A p \in 1 .. Len(file) : file'[p] = file[p]
      /\ \/ /\ half = NoHalf /\ produced' = produced + 1 /\ New.id = produced'
         \/ /\ half # NoHalf /\ half' = NoHalf /\ produced' = produced /\ New.id = half.id
      /\ excused' = IF held THEN excused ELSE excused \cup {New.id}
      /\ UNCHANGED <<queue, held, cursor, observed, todo, rows, announced>>
  BY WriteMeans DEF handle
<1>2. cursor \in Nat /\ (held => cursor <= Len(file)) /\ produced \in Nat
  BY Facts DEF Typed, MeterTyped, Readers
<1>3. Settled \subseteq Settled'
  BY <1>1 DEF Settled, Counted
<1>4. Unread \subseteq Unread'
  <2> SUFFICES ASSUME held, NEW i \in cursor + 1 .. Len(file)
               PROVE  \E j \in cursor + 1 .. Len(file') : file'[j].id = file[i].id
    BY <1>1 DEF Unread
  <2>1. i \in cursor + 1 .. Len(file') /\ i \in 1 .. Len(file)
    BY <1>1, <1>2
  <2> QED BY <1>1, <2>1
<1>5. New.id \in Settled' \cup Unread'
  <2>1. CASE held
    <3>1. Len(file) + 1 \in cursor + 1 .. Len(file')
      BY <1>1, <1>2, <2>1
    <3>2. file'[Len(file) + 1].id \in Unread'
      BY <1>1, <2>1, <3>1 DEF Unread
    <3> QED BY <3>2 DEF New
  <2>2. CASE ~held
    BY <1>1, <2>2 DEF Settled
  <2> QED BY <2>1, <2>2
<1>6. Finished' \subseteq Finished \cup {New.id}
  <2>1. CASE half = NoHalf /\ produced' = produced + 1 /\ New.id = produced'
    <3>1. \A i \in 1 .. produced + 1 : i \in 1 .. produced \/ i = produced + 1
      BY <1>2
    <3>2. Unfinished = {}
      BY <2>1 DEF Unfinished, NoHalf
    <3> HIDE DEF New
    <3> QED BY <2>1, <3>1, <3>2 DEF Finished
  <2>2. CASE half # NoHalf /\ produced' = produced /\ New.id = half.id
    <3>1. Unfinished \subseteq {half.id}
      BY DEF Unfinished
    <3> HIDE DEF New
    <3> QED BY <2>2, <3>1 DEF Finished
  <2> QED BY <1>1, <2>1, <2>2
<1>7. /\ IdsOf(queue)' = IdsOf(queue) /\ IdsOf(observed.events)' = IdsOf(observed.events)
      /\ Top' = Top
  BY <1>1 DEF IdsOf, Top
<1>8. /\ IdsOf(queue) \subseteq Owed' /\ IdsOf(observed.events) \subseteq Owed'
      /\ todo # <<>> => IdsOf(Top.rest) \subseteq Owed'
      /\ Settled' \subseteq Owed' /\ Unread' \subseteq Owed'
  BY <1>1, <1>7, HandHolds
<1> HIDE DEF New
<1>9. Finished' \subseteq Finished \cup Owed' /\ Unread \subseteq Owed'
  BY <1>4, <1>5, <1>6, <1>8
<1> QED BY <1>3, <1>8, <1>9, StillOwed

\* The listener queues what it has observed.
LEMMA ForwardAccount ==
  ASSUME Typed, RestOnTop, Accounted, Settled \subseteq Settled', Typed', Forward
  PROVE  Accounted'
<1>1. /\ produced' = produced + 1 /\ half' = half /\ queue' = Append(queue, [id |-> produced'])
      /\ UNCHANGED <<file, held, cursor, observed, todo>> /\ produced \in Nat
  BY DEF Forward, handle, Typed, MeterTyped
<1>2. queue \in Seq([id : Ids])
  BY DEF Typed, MeterTyped
<1>3. /\ Len(queue) \in Nat /\ DOMAIN queue = 1 .. Len(queue) /\ Len(queue') = Len(queue) + 1
      /\ DOMAIN queue' = 1 .. Len(queue) + 1
      /\ \A i \in 1 .. Len(queue) : queue'[i] = queue[i]
      /\ queue'[Len(queue) + 1].id = produced'
  <2> DEFINE c == [id |-> produced']
  <2>1. c.id = produced' /\ queue' = Append(queue, c)
    BY <1>1
  <2> HIDE DEF c
  <2>2. queue' \in Seq([id : Ids])
    BY DEF Typed, MeterTyped
  <2>3. DOMAIN queue' = 1 .. Len(queue') /\ DOMAIN queue = 1 .. Len(queue) /\ Len(queue) \in Nat
    BY <1>2, <2>2, LenProperties
  <2> QED BY <1>2, <2>1, <2>3
<1>4. IdsOf(queue) \subseteq IdsOf(queue)' /\ produced' \in IdsOf(queue)'
  <2>1. Len(queue) + 1 \in 1 .. Len(queue) + 1 /\ \A i \in 1 .. Len(queue) : i \in 1 .. Len(queue) + 1
    BY <1>3
  <2>2. \A i \in 1 .. Len(queue) + 1 : queue'[i].id \in IdsOf(queue)'
    BY <1>3 DEF IdsOf
  <2>3. \A i \in 1 .. Len(queue) : queue[i].id \in IdsOf(queue)'
    BY <1>3, <2>1, <2>2
  <2>4. IdsOf(queue) = {queue[i].id : i \in 1 .. Len(queue)}
    BY <1>3 DEF IdsOf
  <2>5. produced' \in IdsOf(queue)'
    BY <1>3, <2>1, <2>2
  <2> QED BY <2>3, <2>4, <2>5
<1>5. Finished' \subseteq Finished \cup {produced'}
  <2>1. \A i \in 1 .. produced + 1 : i \in 1 .. produced \/ i = produced + 1
    BY <1>1
  <2>2. Unfinished' = Unfinished
    BY <1>1 DEF Unfinished
  <2> QED BY <1>1, <2>1, <2>2 DEF Finished
<1>6. /\ Unread' = Unread /\ IdsOf(observed.events)' = IdsOf(observed.events) /\ Top' = Top
  BY <1>1 DEF Unread, IdsOf, Top
<1>7. /\ Unread \subseteq Owed' /\ IdsOf(observed.events) \subseteq Owed'
      /\ todo # <<>> => IdsOf(Top.rest) \subseteq Owed'
      /\ IdsOf(queue)' \subseteq Owed'
  BY <1>1, <1>6, HandHolds
<1>8. Finished' \subseteq Finished \cup Owed' /\ IdsOf(queue) \subseteq Owed'
  BY <1>4, <1>5, <1>7
<1> QED BY <1>7, <1>8, StillOwed

\* What the commit takes off the block is in the ledger, or lost with a replay.
LEMMA CommitAccount ==
  ASSUME LedgerInv, Accounted, Typed', Commit
  PROVE  Accounted'
<1> DEFINE e == Head(Top.rest)
           after == [Top EXCEPT !.rest = Tail(@)]
           pre == (IF Breaches(e) THEN StopFrames ELSE <<>>) \o <<after>>
<1>0. Typed /\ RestOnTop /\ InLoop /\ Settled \subseteq Settled' /\ e.id \in Settled'
      /\ UNCHANGED <<file, held, cursor, queue, observed, produced, half>>
  <2>1. Typed /\ RestOnTop
    BY DEF LedgerInv, Metered
  <2>2. [Next]_vars
    BY DEF Next, Drain
  <2> QED BY <2>1, <2>2, SettledGrows, CommitSettles DEF Commit, agent, handle
<1>1. /\ todo # <<>> /\ WellFormed(after) /\ after.rest = Tail(Top.rest) /\ after.op \in Loops
      /\ Top.op \in Loops /\ Top.rest \in Seq(Event) /\ Top.rest # <<>>
  BY <1>0, AfterEvent DEF InLoop
<1>2. todo' = pre \o Tail(todo)
  BY DEF Commit
<1>3. IdsOf(Top.rest) = {e.id} \cup IdsOf(Tail(Top.rest))
  BY <1>1, HeadIds
<1>4. \E k \in 1 .. Len(todo') : todo'[k] = after
  <2> HIDE DEF e, after
  <2>1. Len(pre) \in Nat \ {0} /\ pre[Len(pre)] = after /\ pre \in Seq(FrameType)
    <3>1. CASE Breaches(e)
      <4>1. pre = StopFrames \o <<after>>
        BY <3>1
      <4>2. /\ Sound(StopFrames \o <<after>>) /\ Len(StopFrames \o <<after>>) = 6
            /\ (StopFrames \o <<after>>)[6] = after
        BY <1>1, StopThen
      <4> HIDE DEF pre
      <4>5. Sound(pre) /\ Len(pre) = 6 /\ pre[6] = after
        BY <4>1, <4>2
      <4>3. 6 \in Nat \ {0} /\ pre \in Seq(FrameType)
        BY <4>5 DEF Sound
      <4> QED BY <4>5, <4>3
    <3>2. CASE ~Breaches(e)
      <4>1. pre = <<after>>
        <5>1. <<after>> \in Seq({after})
          OBVIOUS
        <5>2. pre = <<>> \o <<after>>
          BY <3>2
        <5> HIDE DEF pre
        <5> QED BY <5>1, <5>2, ConcatEmptySeq
      <4> HIDE DEF pre
      <4> QED BY <1>1, <4>1 DEF WellFormed
    <3> QED BY <3>1, <3>2
  <2> HIDE DEF pre
  <2>2. Spliced(todo', todo, 1, pre) /\ Len(todo) \in Nat \ {0} /\ Len(todo') \in Nat
    <3>1. todo \in Seq(FrameType) /\ todo' \in Seq(FrameType)
      BY <1>0 DEF Typed, Stack, Sound
    <3> QED BY <1>1, <1>2, <2>1, <3>1, SpliceTop, LenProperties, EmptySeq
  <2>3. Len(pre) \in 1 .. Len(todo') /\ todo'[Len(pre)] = pre[Len(pre)]
    <3>1. Len(todo') = Len(pre) + Len(todo) - 1 /\ \A k \in 1 .. Len(pre) : todo'[k] = pre[k]
      BY <2>2 DEF Spliced
    <3> QED BY <2>1, <2>2, <3>1
  <2> QED BY <2>1, <2>3
<1>5. IdsOf(Tail(Top.rest)) \subseteq Owed'
  <2>1. PICK k \in 1 .. Len(todo') : todo'[k] = after
    BY <1>4
  <2>2. todo'[k].rest = Tail(Top.rest)
    BY <1>1, <2>1
  <2>3. IdsOf(todo'[k].rest) \subseteq Owed'
    BY HandHolds
  <2> QED BY <2>2, <2>3
<1> HIDE DEF e
<1>6. /\ Unread' = Unread /\ IdsOf(queue)' = IdsOf(queue)
      /\ IdsOf(observed.events)' = IdsOf(observed.events)
  BY <1>0 DEF Unread, IdsOf
<1>7. /\ Unread \subseteq Owed' /\ IdsOf(observed.events) \subseteq Owed'
      /\ IdsOf(queue) \subseteq Owed' /\ Settled' \subseteq Owed'
  BY <1>6, HandHolds
<1>8. IdsOf(Top.rest) \subseteq Owed' /\ Finished' \subseteq Finished \cup Owed'
  BY <1>0, <1>3, <1>5, <1>7, SameFinished
<1> QED BY <1>0, <1>7, <1>8, StillOwed

\* The cursor passes a block when all of it is settled; a block that is refused
\* is still unread.
LEMMA LogAccount ==
  ASSUME LedgerInv, Accounted, Typed', Readers, InBlock,
         Advance \/ \E busy \in BOOLEAN : LogRefused(busy)
  PROVE  Accounted'
<1>0. Typed /\ RestOnTop /\ Settled \subseteq Settled'
  <2>1. Typed /\ RestOnTop /\ [Next]_vars
    BY DEF LedgerInv, Metered, Next, Drain
  <2> QED BY <2>1, SettledGrows
<1>1. /\ Doing("ingest") /\ UNCHANGED <<file, held, queue, observed, produced, half>>
      /\ \/ held /\ cursor' = Top.to /\ IdsOf(Top.rest) \subseteq Settled'
            /\ (Top.mode = "terminal" => CutOff(Top.to) \subseteq Settled')
         \/ cursor' = cursor
            /\ (IdsOf(Top.rest) \subseteq Settled' \/ held)
  <2>1. CASE Advance
    <3>1. /\ Doing("ingest") /\ UNCHANGED <<file, held, queue, observed, produced, half>>
          /\ Top.rest = <<>>
          /\ cursor' = IF held THEN Top.to ELSE cursor
          /\ excused' = IF held /\ Top.mode = "terminal" THEN excused \cup CutOff(Top.to)
                        ELSE excused
      BY <2>1 DEF Advance, agent
    <3>2. IdsOf(Top.rest) \subseteq Settled'
      BY <3>1 DEF IdsOf
    <3> QED BY <3>1, <3>2 DEF Settled
  <2>2. ASSUME NEW busy \in BOOLEAN, LogRefused(busy)
        PROVE  /\ Doing("ingest") /\ UNCHANGED <<file, held, queue, observed, produced, half>>
               /\ \/ held /\ cursor' = Top.to /\ IdsOf(Top.rest) \subseteq Settled'
                     /\ (Top.mode = "terminal" => CutOff(Top.to) \subseteq Settled')
                  \/ cursor' = cursor
                     /\ (IdsOf(Top.rest) \subseteq Settled' \/ held)
    <3>1. /\ Doing("ingest") /\ UNCHANGED <<file, held, queue, observed, produced, half>> /\ InLoop
          /\ cursor' = IF LogSkips(busy) /\ held THEN Top.to ELSE cursor
          /\ announced' = IF LogSkips(busy) \/ Top.mode = "terminal"
                          THEN announced \cup IdsOf(Top.rest) ELSE announced
      BY <2>2, LogRefusedMeans DEF agent
    <3>2. held
      BY <1>0, <3>1 DEF RestOnTop
    <3>3. LogSkips(busy) => Top.mode # "terminal" /\ IdsOf(Top.rest) \subseteq Settled'
      <4>1. LogSkips(busy) => Top.mode # "terminal"
        BY DEF LogSkips
      <4> QED BY <3>1, <4>1 DEF Settled
    <3> QED BY <3>1, <3>2, <3>3
  <2> QED BY <2>1, <2>2
<1>2. todo # <<>>
  BY <1>1 DEF Doing
<1>3. /\ IdsOf(queue)' = IdsOf(queue) /\ IdsOf(observed.events)' = IdsOf(observed.events)
  BY <1>1 DEF IdsOf
<1>4. /\ IdsOf(observed.events) \subseteq Owed' /\ IdsOf(queue) \subseteq Owed'
      /\ Settled' \subseteq Owed' /\ Unread' \subseteq Owed'
  BY <1>3, HandHolds
<1>5. Finished' \subseteq Finished \cup Owed'
  BY <1>1, SameFinished
<1>6. CASE held /\ cursor' = Top.to /\ IdsOf(Top.rest) \subseteq Settled'
           /\ (Top.mode = "terminal" => CutOff(Top.to) \subseteq Settled')
  <2>1. /\ \A p \in cursor + 1 .. Top.to : file[p].id \in Settled'
        /\ cursor <= Top.to /\ Top.to <= Len(file) /\ Top.to \in Nat /\ cursor \in Nat
        /\ Len(file) \in Nat
    BY <1>0, <1>1, <1>6, Passed
  <2>2. Unread \subseteq Owed'
    <3> SUFFICES ASSUME NEW i \in cursor + 1 .. Len(file) PROVE file[i].id \in Owed'
      BY <1>6 DEF Unread
    <3>1. CASE i \in cursor + 1 .. Top.to
      BY <1>4, <2>1, <3>1
    <3>2. CASE i \in Top.to + 1 .. Len(file)
      <4>1. file[i].id \in Unread'
        BY <1>1, <1>6, <3>2 DEF Unread
      <4> QED BY <1>4, <4>1
    <3> QED BY <2>1, <3>1, <3>2
  <2> QED BY <1>0, <1>2, <1>4, <1>5, <1>6, <2>2, StillOwed
<1>7. CASE cursor' = cursor /\ (IdsOf(Top.rest) \subseteq Settled' \/ held)
  <2>1. Unread' = Unread
    BY <1>1, <1>7 DEF Unread
  <2>2. IdsOf(Top.rest) \subseteq Settled' \cup Unread'
    <3>1. held => IdsOf(Top.rest) \subseteq Unread
      BY <1>1 DEF InBlock
    <3> QED BY <1>7, <2>1, <3>1
  <2> QED BY <1>0, <1>2, <1>4, <1>5, <2>1, <2>2, StillOwed
<1> QED BY <1>1, <1>6, <1>7

\* What the listener's loop gives up is announced, and what it keeps is parked.
LEMMA ListenerAccount ==
  ASSUME LedgerInv, Accounted, Typed', InBlock,
         ReadQueue \/ ObservedDone \/ \E busy \in BOOLEAN : ObservedRefused(busy)
  PROVE  Accounted'
<1>0. Typed /\ RestOnTop /\ Settled \subseteq Settled'
  <2>1. Typed /\ RestOnTop /\ [Next]_vars
    BY DEF LedgerInv, Metered, Next, Drain
  <2> QED BY <2>1, SettledGrows
<1>1. /\ UNCHANGED <<file, held, cursor, produced, half>> /\ todo # <<>>
  <2>1. CASE ReadQueue \/ ObservedDone
    BY <2>1 DEF ReadQueue, ObservedDone, Doing, agent
  <2>2. ASSUME NEW busy \in BOOLEAN, ObservedRefused(busy)
        PROVE  UNCHANGED <<file, held, cursor, produced, half>> /\ todo # <<>>
    BY <2>2, ObservedRefusedMeans DEF Doing, agent
  <2> QED BY <2>1, <2>2
<1>2. Unread' = Unread
  BY <1>1 DEF Unread
<1>3. /\ Settled' \subseteq Owed' /\ Unread \subseteq Owed' /\ Finished' \subseteq Finished \cup Owed'
      /\ IdsOf(queue)' \subseteq Owed' /\ IdsOf(observed.events)' \subseteq Owed'
  BY <1>1, <1>2, HandHolds, SameFinished
<1>4. CASE ReadQueue
  <2>1. /\ todo # <<>> /\ WellFormed(Top) /\ Top.op = "obs" /\ WellFormed(ObsLoop)
        /\ ObsLoop.rest = Fetched /\ observed' = observed
        /\ \/ todo' = <<ObsLoop>> \o Tail(todo)
           \/ queue' = queue
    BY <1>0, <1>4, ReadQueueMeans, Facts
  <2>2. Top.rest = <<>>
    BY <2>1 DEF WellFormed, Loops
  <2>3. IdsOf(Top.rest) = {} /\ IdsOf(observed.events)' = IdsOf(observed.events)
    BY <2>1, <2>2 DEF IdsOf
  <2>4. IdsOf(queue) \subseteq Owed'
    <3>1. CASE queue' = queue
      <4>1. IdsOf(queue)' = IdsOf(queue)
        BY <3>1 DEF IdsOf
      <4> QED BY <1>3, <4>1
    <3>2. CASE todo' = <<ObsLoop>> \o Tail(todo)
      <4> DEFINE pre == <<ObsLoop>>
      <4>1. pre \in Seq(FrameType) /\ pre # <<>> /\ pre[1] = ObsLoop /\ todo' = pre \o Tail(todo)
        BY <2>1, <3>2 DEF WellFormed
      <4> HIDE DEF pre
      <4>2. Top' = ObsLoop /\ todo' # <<>>
        BY <1>0, <2>1, <4>1, PushTop
      <4>3. IdsOf(Fetched) \subseteq Owed'
        BY <2>1, <4>2, HandHolds
      <4>4. IdsOf(queue) \subseteq IdsOf(Fetched)
        BY <1>0, FetchedEvents
      <4> QED BY <4>3, <4>4
    <3> QED BY <2>1, <3>1, <3>2
  <2> QED BY <1>0, <1>3, <2>3, <2>4, StillOwed
<1>5. CASE ObservedDone
  <2>1. Doing("ingestObs") /\ Top.rest = <<>> /\ queue' = queue
    BY <1>5 DEF ObservedDone, agent
  <2>2. IdsOf(Top.rest) = {} /\ IdsOf(queue)' = IdsOf(queue)
    BY <2>1 DEF IdsOf
  <2>3. IdsOf(observed.events) \subseteq Settled
    BY <2>1, <2>2 DEF InBlock
  <2> QED BY <1>0, <1>3, <2>2, <2>3, StillOwed
<1>6. ASSUME NEW busy \in BOOLEAN, ObservedRefused(busy) PROVE Accounted'
  <2>1. /\ Doing("ingestObs") /\ InLoop /\ queue' = queue
        /\ observed' = IF Keep(busy) = <<>> \/ ~held THEN NonePending
                       ELSE [events |-> Keep(busy),
                             attempts |-> IF ObsSkips(busy) THEN 1 ELSE ObsTries(busy)]
        /\ announced' = announced \cup (IdsOf(Top.rest) \ IdsOf(Keep(busy)))
    BY <1>6, ObservedRefusedMeans DEF agent
  <2> DEFINE keep == Keep(busy)
  <2>2. held
    BY <1>0, <2>1 DEF RestOnTop
  <2>3. (keep = <<>>) \/ observed'.events = keep
    BY <2>1, <2>2
  <2>4. announced' = announced \cup (IdsOf(Top.rest) \ IdsOf(keep))
    BY <2>1
  <2> HIDE DEF keep
  <2>5. IdsOf(keep) \subseteq Owed'
    <3>1. CASE keep = <<>>
      BY <3>1 DEF IdsOf
    <3>2. CASE observed'.events = keep
      <4>1. IdsOf(observed.events)' = IdsOf(keep)
        BY <3>2 DEF IdsOf
      <4> QED BY <1>3, <4>1
    <3> QED BY <2>3, <3>1, <3>2
  <2>6. IdsOf(Top.rest) \subseteq Owed'
    BY <1>3, <2>4, <2>5 DEF Settled
  <2>7. IdsOf(observed.events) \subseteq Owed'
    <3>1. IdsOf(observed.events) \subseteq Settled \cup IdsOf(Top.rest)
      BY <2>1 DEF InBlock
    <3> QED BY <1>0, <1>3, <2>6, <3>1
  <2>8. IdsOf(queue)' = IdsOf(queue)
    BY <2>1 DEF IdsOf
  <2> QED BY <1>0, <1>3, <2>6, <2>7, <2>8, StillOwed
<1> QED BY <1>4, <1>5, <1>6

\* What the queue, the park and the loop under way hold is in hand.
LEMMA HeldInHand ==
  ASSUME Typed
  PROVE  /\ IdsOf(queue) \subseteq InHand /\ IdsOf(observed.events) \subseteq InHand
         /\ todo # <<>> => IdsOf(Top.rest) \subseteq InHand
<1>1. todo # <<>> => 1 \in DOMAIN todo /\ todo[1] = Top
  BY Facts
<1>2. \A k \in DOMAIN todo : IdsOf(todo[k].rest) \subseteq InHand
  BY DEF InHand
<1>3. todo # <<>> => IdsOf(Top.rest) \subseteq InHand
  BY <1>1, <1>2
<1> QED BY <1>3 DEF InHand

\* Only the two loops hold events.
LEMMA NoRest ==
  ASSUME Typed, todo # <<>>, Top.op \notin Loops
  PROVE  Top.rest = <<>> /\ IdsOf(Top.rest) = {}
<1>1. Top.rest = <<>>
  BY Facts DEF WellFormed
<1> QED BY <1>1 DEF IdsOf

\* Steps that begin no event and excuse the part they end.
LEMMA QuietSteps ==
  ASSUME LedgerInv, Accounted, Typed', Readers,
         \/ Exit \/ TailerPass \/ UNCHANGED vars \/ ReadTail \/ TruncateCheck
         \/ Kill \/ Tick \/ Stop \/ Reap \/ Reconcile
  PROVE  Accounted'
<1>0. Typed /\ RestOnTop /\ Settled \subseteq Settled'
  <2>1. Typed /\ RestOnTop /\ [Next]_vars
    BY DEF LedgerInv, Metered, Next, Drain
  <2> QED BY <2>1, SettledGrows
<1>1. CASE TailerPass \/ UNCHANGED vars \/ Reconcile
  BY <1>0, <1>1, QuietAccount DEF TailerPass, Reconcile, vars, agent, handle
<1>2. CASE Exit
  <2>1. Unfinished \subseteq Settled'
    BY <1>2 DEF Exit, Settled
  <2> QED BY <1>0, <1>2, <2>1, QuietAccount DEF Exit, handle
<1>3. CASE ReadTail
  <2>1. /\ todo # <<>> /\ Top.op = "log"
        /\ UNCHANGED <<file, held, queue, observed, produced, half>>
    BY <1>3 DEF ReadTail, Doing, Top, agent
  <2>2. Top.rest = <<>>
    BY <1>0, <2>1, NoRest DEF Loops
  <2>3. cursor' = cursor
    <3>1. held => ~(cursor > Len(file))
      <4>1. cursor \in Nat /\ Len(file) \in Nat
        BY <1>0, Facts DEF Typed, MeterTyped
      <4> QED BY <4>1 DEF Readers
    <3> QED BY <1>3, <3>1 DEF ReadTail
  <2> QED BY <1>0, <2>1, <2>2, <2>3, QuietAccount
<1>4. CASE TruncateCheck
  <2>1. /\ todo # <<>> /\ Top.op = "trunc"
        /\ UNCHANGED <<file, held, cursor, queue, observed, produced, half>>
    BY <1>4 DEF TruncateCheck, Doing, Top, agent
  <2>2. Top.rest = <<>>
    BY <1>0, <2>1, NoRest DEF Loops
  <2> QED BY <1>0, <2>1, <2>2, QuietAccount
<1>5. CASE Kill
  <2>1. /\ todo # <<>> /\ Top.op = "kill"
        /\ UNCHANGED <<file, held, cursor, queue, observed, produced>>
    BY <1>5 DEF Kill, Doing, Top
  <2>2. Top.rest = <<>>
    BY <1>0, <2>1, NoRest DEF Loops
  <2>3. half' = half \/ (half' = NoHalf /\ Unfinished \subseteq Settled')
    <3>1. CASE alive' = FALSE /\ half' = NoHalf
      <4>1. Unfinished \subseteq excused'
        BY <1>5, <3>1 DEF Kill
      <4> QED BY <3>1, <4>1 DEF Settled
    <3>2. CASE UNCHANGED half
      BY <3>2
    <3> QED BY <1>5, <3>1, <3>2 DEF Kill
  <2> QED BY <1>0, <2>1, <2>2, <2>3, QuietAccount
<1>6. CASE Tick \/ Stop \/ Reap
  BY <1>0, <1>6, QuietAccount DEF Tick, Stop, Reap, Ready, agent, handle
<1> QED BY <1>1, <1>2, <1>3, <1>4, <1>5, <1>6

\* The cut takes what both readers have passed, and excuses what came since.
LEMMA CutAccount ==
  ASSUME LedgerInv, Accounted, Typed', InBlock, Truncate
  PROVE  Accounted'
<1>0. Typed /\ RestOnTop /\ Settled \subseteq Settled'
  <2>1. Typed /\ RestOnTop /\ [Next]_vars
    BY DEF LedgerInv, Metered, Next, Drain
  <2> QED BY <2>1, SettledGrows
<1>1. /\ Doing("cut") /\ todo # <<>> /\ Top.op = "cut"
      /\ UNCHANGED <<held, queue, observed, produced, half>>
  BY DEF Truncate, Doing, Top
<1>2. Top.rest = <<>> /\ IdsOf(Top.rest) = {}
  BY <1>0, <1>1, NoRest DEF Loops
<1>3. CASE UNCHANGED <<file, cursor>>
  BY <1>0, <1>1, <1>2, <1>3, QuietAccount
<1>4. CASE excused' = excused \cup {file[i].id : i \in Top.to + 1 .. Len(file)}
  <2>1. held /\ cursor >= Top.to /\ cursor \in Nat /\ Len(file) \in Nat /\ Top.to \in Nat
    <3>1. Top \in FrameType
      BY <1>0, <1>1, Facts
    <3> QED BY <1>0, <1>1, <3>1, Facts DEF InBlock, FrameType, Typed, MeterTyped
  <2>2. \A i \in cursor + 1 .. Len(file) : i \in Top.to + 1 .. Len(file)
    BY <2>1
  <2>3. Unread \subseteq excused'
    BY <1>4, <2>2 DEF Unread
  <2>4. /\ IdsOf(queue)' = IdsOf(queue) /\ IdsOf(observed.events)' = IdsOf(observed.events)
    BY <1>1 DEF IdsOf
  <2>5. /\ IdsOf(queue) \subseteq Owed' /\ IdsOf(observed.events) \subseteq Owed'
        /\ Settled' \subseteq Owed' /\ Finished' \subseteq Finished \cup Owed'
    BY <1>1, <2>4, HandHolds, SameFinished
  <2>6. Unread \subseteq Owed'
    BY <2>3, <2>5 DEF Settled
  <2> QED BY <1>0, <1>2, <2>5, <2>6, StillOwed
<1> QED BY <1>3, <1>4 DEF Truncate

\* A handle is let go of when nothing in it is owed, or what is owed is excused.
LEMMA GoneAccount ==
  ASSUME LedgerInv, Accounted, Typed', Lines, Tidy, Drop \/ StopAgain \/ Crash
  PROVE  Accounted'
<1>0. Typed /\ RestOnTop /\ Settled \subseteq Settled'
  <2>1. Typed /\ RestOnTop /\ [Next]_vars
    BY DEF LedgerInv, Metered, Next, Drain
  <2> QED BY <2>1, SettledGrows
<1>1. Settled' \subseteq Owed' /\ excused' \subseteq Settled'
  BY HandHolds DEF Settled
<1>2. CASE Drop
  <2>1. /\ todo # <<>> /\ Top.op = "drop" /\ half' = NoHalf /\ produced' = produced
        /\ excused' = excused \cup Unfinished \cup IdsOf(queue)
                        \cup (IF Top.mode = "live" THEN Unread ELSE {})
    BY <1>2 DEF Drop, Gone, Doing, Top
  <2>2. Unfinished \subseteq Settled' /\ IdsOf(queue) \subseteq Settled'
        /\ (Top.mode = "live" => Unread \subseteq Settled')
    BY <1>1, <2>1
  <2>3. IdsOf(Top.rest) = {}
    BY <1>0, <2>1, NoRest DEF Loops
  <2>4. /\ 1 \in 1 .. Len(todo) /\ todo[1] = Top /\ ~Killing(1) /\ \A j \in 1 .. 1 - 1 : FALSE
    BY <1>0, <2>1, Facts DEF Killing
  <2>5. observed.events = <<>>
    BY <2>1, <2>4 DEF Tidy, Fetches
  <2>6. Top.mode # "live" => Drained
    BY <2>1, <2>4 DEF Tidy, Waits
  <2>7. Unread \subseteq Settled'
    BY <1>0, <2>2, <2>6 DEF Drained
  <2>8. IdsOf(observed.events) = {}
    BY <2>5 DEF IdsOf
  <2>9. Finished' \subseteq Finished \cup Owed'
    BY <2>1, <2>2, SameFinished
  <2> QED BY <1>0, <1>1, <2>2, <2>3, <2>7, <2>8, <2>9, StillOwed
<1>3. CASE StopAgain \/ Crash
  <2>1. Unread \cup InHand \subseteq excused'
    BY <1>3 DEF StopAgain, Crash
  <2>2. /\ Unread \subseteq Owed' /\ IdsOf(queue) \subseteq Owed'
        /\ IdsOf(observed.events) \subseteq Owed'
        /\ todo # <<>> => IdsOf(Top.rest) \subseteq Owed'
    BY <1>0, <1>1, <2>1, HeldInHand
  <2>3. produced' = produced /\ (half' = half \/ half = NoHalf)
    BY <1>3 DEF StopAgain, Crash, Gone, Lines
  <2>4. Finished' \subseteq Finished \cup Owed'
    BY <2>3, SameFinished
  <2> QED BY <1>0, <2>2, <2>4, StillOwed
<1> QED BY <1>2, <1>3

\* A new handle finds nothing owed to the one before.
LEMMA AttachAccount ==
  ASSUME LedgerInv, Accounted, Typed', Lines, Tidy, Launch \/ Adopt
  PROVE  Accounted'
<1>0. Typed /\ RestOnTop /\ Settled \subseteq Settled'
  <2>1. Typed /\ RestOnTop /\ [Next]_vars
    BY DEF LedgerInv, Metered, Next
  <2> QED BY <2>1, SettledGrows
<1>1. ~held /\ todo = <<>> /\ produced' = produced /\ (half' = half \/ half = NoHalf)
  BY DEF Launch, Adopt, Ready, Attach, Lines
<1>2. queue = <<>> /\ observed.events = <<>>
  BY <1>1 DEF Tidy, Quit
<1>3. Unread = {} /\ IdsOf(queue) = {} /\ IdsOf(observed.events) = {}
  BY <1>1, <1>2 DEF Unread, IdsOf
<1>4. Finished' \subseteq Finished \cup Owed'
  BY <1>1, SameFinished
<1> QED BY <1>0, <1>1, <1>3, <1>4, StillOwed

\* Every step keeps the account.
LEMMA NextAccount ==
  ASSUME LedgerInv, LedgerInv', Readers, Account, [Next]_vars, [KillReturns]_vars
  PROVE  Account'
<1>0. Typed /\ Typed' /\ RestOnTop /\ Lines /\ Whole /\ InBlock /\ Tidy /\ Accounted
      /\ Settled \subseteq Settled'
  BY SettledGrows DEF LedgerInv, Metered, Account
<1>1. Lines'
  BY <1>0, NextLines
<1>2. Whole'
  BY <1>0, NextWhole
<1>3. Tidy'
  BY <1>0, NextTidy
<1>4. InBlock'
  <2>1. Quit'
    BY <1>3 DEF Tidy
  <2> QED BY <1>0, <2>1, NextBlock
<1>5. Accounted'
  <2>1. CASE WriteLine \/ WriteRest
    BY <1>0, <2>1, WriteAccount
  <2>2. CASE Forward
    BY <1>0, <2>2, ForwardAccount
  <2>3. CASE \/ Exit \/ TailerPass \/ UNCHANGED vars \/ ReadTail \/ TruncateCheck
             \/ Kill \/ Tick \/ Stop \/ Reap \/ Reconcile
    BY <1>0, <2>3, QuietSteps
  <2>4. CASE Commit
    BY <1>0, <2>4, CommitAccount
  <2>5. CASE Advance \/ \E busy \in BOOLEAN : LogRefused(busy)
    BY <1>0, <2>5, LogAccount
  <2>6. CASE ReadQueue \/ ObservedDone \/ \E busy \in BOOLEAN : ObservedRefused(busy)
    BY <1>0, <2>6, ListenerAccount
  <2>7. CASE Truncate
    BY <1>0, <2>7, CutAccount
  <2>8. CASE Drop \/ StopAgain \/ Crash
    BY <1>0, <2>8, GoneAccount
  <2>9. CASE Launch \/ Adopt
    BY <1>0, <2>9, AttachAccount
  <2> QED BY <2>1, <2>2, <2>3, <2>4, <2>5, <2>6, <2>7, <2>8, <2>9 DEF Next, Drain
<1> QED BY <1>1, <1>2, <1>3, <1>4, <1>5 DEF Account

\* At the start nothing is owed.
LEMMA InitAccount ==
  ASSUME Init
  PROVE  Account
<1>1. /\ todo = <<>> /\ file = <<>> /\ held = FALSE /\ alive = FALSE /\ half = NoHalf
      /\ queue = <<>> /\ observed = NonePending /\ produced = 0 /\ Len(file) = 0 /\ Len(todo) = 0
  BY EmptySeq DEF Init
<1>2. (\A p \in 2 .. 0 : FALSE) /\ (\A p \in 1 .. 0 : FALSE)
  OBVIOUS
<1>3. Lines
  BY <1>1, <1>2 DEF Lines
<1>4. Whole /\ InBlock
  BY <1>1 DEF Whole, InBlock, Doing
<1>5. Tidy
  BY <1>1, <1>2 DEF Tidy, Waits, Fetches, Quit, NonePending
<1>6. Accounted
  BY <1>1, <1>2 DEF Accounted, Finished
<1> QED BY <1>3, <1>4, <1>5, <1>6 DEF Account

\* The first state of the ledger.
LEMMA InitLedger ==
  ASSUME Init
  PROVE  LedgerInv
<1>1. Metered
  BY InitMetered
<1>2. todo = <<>> /\ rows = {} /\ held = FALSE /\ observed = NonePending /\ queue = <<>>
  BY DEF Init
<1>3. Len(todo) = 0 /\ observed.events = <<>> /\ Members(<<>>) = {}
  BY <1>2, NonePendingTyped, EmptySeq DEF Members
<1>4. RestOnTop
  BY <1>2, <1>3 DEF RestOnTop, InLoop, Doing
<1>5. Pend = {}
  BY <1>2, <1>3 DEF Pend, Reach
<1>6. Keys
  BY <1>2, <1>5 DEF Keys, SameOrder, Recorded, Behind
<1>7. NoDoubleCount
  BY <1>2 DEF NoDoubleCount
<1> QED BY <1>1, <1>4, <1>6, <1>7 DEF LedgerInv

\* A stop that returns from no drain returns to no block that was cut off.
LEMMA ReturnsFromOne ==
  ASSUME Typed, [KillReturns]_vars
  PROVE  [ReturnsInside]_vars
<1>1. ASSUME KillReturns, Doing("kill"), alive', Len(todo) > 3 PROVE FALSE
  <2>1. Len(todo) = 3
    BY <1>1 DEF KillReturns
  <2> QED BY <1>1, <2>1
<1>2. KillReturns => ReturnsInside
  BY <1>1 DEF ReturnsInside
<1> QED BY <1>2

\* No usage is lost in silence (usage.rs, the drains and their parks), as long as
\* a breach ends its block and a stop whose kill stays unconfirmed does not return
\* to a drain: all that was reported is in the ledger, announced, in a documented
\* gap, or still to be read.
THEOREM NoUsageLostInSilence ==
  Spec /\ []BreachEndsBlock /\ [][KillReturns]_vars => []Accounted
<1>1. Init => LedgerInv /\ OutputInv /\ Account
  BY InitLedger, InitOutput, InitAccount
<1>2. /\ LedgerInv /\ OutputInv /\ Account /\ BreachEndsBlock
      /\ [Next]_vars /\ [KillReturns]_vars
      => LedgerInv' /\ OutputInv' /\ Account'
  <2> SUFFICES ASSUME LedgerInv, OutputInv, Account, BreachEndsBlock,
                      [Next]_vars, [KillReturns]_vars
               PROVE  LedgerInv' /\ OutputInv' /\ Account'
    OBVIOUS
  <2>1. LedgerInv'
    BY NextLedger
  <2>2. OutputInv'
    BY ReturnsFromOne, NextOutput DEF OutputInv
  <2>3. Account'
    BY <2>1, NextAccount DEF OutputInv
  <2> QED BY <2>1, <2>2, <2>3
<1>3. Account => Accounted
  BY DEF Account
<1> QED BY <1>1, <1>2, <1>3, PTL DEF Spec

-----------------------------------------------------------------------------
(* Where no ceiling stops the instance *)

\* A stop that kills is the operation itself: it was begun by no drain.
Outermost == \A k \in 1 .. Len(todo) : todo[k].op = "kill" => Len(todo) = k + 2

\* Replacing the innermost calls by others that kill nothing leaves it so.
LEMMA SplicedOutermost ==
  ASSUME Typed, Typed', Outermost, NEW n \in 1 .. Len(todo), NEW pre, Len(pre) \in Nat,
         Spliced(todo', todo, n, pre), \A k \in 1 .. Len(pre) : pre[k].op # "kill"
  PROVE  Outermost'
<1>1. Len(todo') \in Nat /\ Len(todo) \in Nat
  BY Facts, LenProperties DEF Typed, Stack, Sound
<1>2. ASSUME NEW k \in 1 .. Len(todo'), todo'[k].op = "kill" PROVE Len(todo') = k + 2
  <2>1. k \in Len(pre) + 1 .. Len(todo')
    <3>1. k \notin 1 .. Len(pre)
      BY <1>2 DEF Spliced
    <3> QED BY <1>1, <3>1
  <2> DEFINE i == k - Len(pre) + n
  <2>2. i \in n + 1 .. Len(todo) /\ todo'[k] = todo[i] /\ Len(todo') = Len(pre) + Len(todo) - n
    BY <2>1 DEF Spliced
  <2>3. i \in 1 .. Len(todo) /\ k = i + Len(pre) - n
    BY <1>1, <2>2
  <2> HIDE DEF i
  <2>4. Len(todo) = i + 2
    BY <1>2, <2>2, <2>3 DEF Outermost
  <2> QED BY <1>1, <2>2, <2>3, <2>4
<1> QED BY <1>2 DEF Outermost

(* A return leaves it so. *)
LEMMA PopOutermost ==
  ASSUME Typed, Typed', Outermost, todo # <<>>, todo' = Tail(todo)
  PROVE  Outermost'
<1> DEFINE pre == <<>>
<1>1. Spliced(todo', todo, 1, pre) /\ Len(pre) = 0
  <2>1. todo \in Seq(FrameType)
    BY DEF Typed, Stack, Sound
  <2> QED BY <2>1, PopTop
<1> HIDE DEF pre
<1>2. 1 \in 1 .. Len(todo) /\ Len(pre) \in Nat /\ \A k \in 1 .. Len(pre) : FALSE
  BY <1>1, Facts
<1> QED BY <1>1, <1>2, SplicedOutermost

(* So does a call that kills nothing. *)
LEMMA PushOutermost ==
  ASSUME Typed, Typed', Outermost, todo # <<>>, NEW pre \in Seq(FrameType),
         todo' = pre \o Tail(todo), \A k \in 1 .. Len(pre) : pre[k].op # "kill"
  PROVE  Outermost'
<1>1. todo \in Seq(FrameType) /\ Len(pre) \in Nat
  BY LenProperties DEF Typed, Stack, Sound
<1>2. Spliced(todo', todo, 1, pre)
  BY <1>1, SpliceTop
<1>3. 1 \in 1 .. Len(todo)
  BY Facts
<1> QED BY <1>1, <1>2, <1>3, SplicedOutermost

(* In particular a call of one frame. *)
LEMMA PushOne ==
  ASSUME Typed, Typed', Outermost, todo # <<>>, NEW f, WellFormed(f), f.op # "kill",
         todo' = <<f>> \o Tail(todo)
  PROVE  Outermost'
<1> DEFINE pre == <<f>>
<1>1. /\ pre \in Seq(FrameType) /\ todo' = pre \o Tail(todo)
      /\ \A k \in 1 .. Len(pre) : pre[k].op # "kill"
  BY DEF WellFormed
<1> HIDE DEF pre
<1> QED BY <1>1, PushOutermost

\* No commit pushes a stop where no ceiling asks for one.
LEMMA NextOutermost ==
  ASSUME StopAt = {}, Typed, Typed', Outermost, [Next]_vars
  PROVE  Outermost'
<1>1. CASE WriteLine \/ WriteRest \/ Forward \/ Exit \/ TailerPass \/ UNCHANGED vars
  <2>1. todo' = todo
    <3>1. CASE WriteLine \/ WriteRest
      BY <3>1, WriteMeans
    <3>2. CASE Forward \/ Exit \/ TailerPass \/ UNCHANGED vars
      BY <3>2 DEF vars, handle, Forward, Exit, TailerPass
    <3> QED BY <1>1, <3>1, <3>2
  <2> QED BY <2>1 DEF Outermost
<1>2. CASE ReadTail
  <2>1. todo # <<>> /\ Doing("log")
    BY <1>2 DEF ReadTail, Doing
  <2>2. CASE Return
    BY <2>1, <2>2, PopOutermost DEF Return
  <2>3. CASE ~Return
    <3>1. held /\ cursor <= Len(file) /\ todo' = Reading \o Tail(todo)
      <4>1. cursor \in Nat /\ Len(file) \in Nat
        BY Facts DEF Typed, MeterTyped
      <4>2. held /\ ~(cursor > Len(file))
        BY <1>2, <2>3 DEF ReadTail
      <4>3. todo' = Reading \o Tail(todo)
        BY <1>2, <2>3, <4>2 DEF ReadTail, Reading, Block, DrainTo
      <4> QED BY <4>1, <4>2, <4>3
    <3>2. /\ DrainTo = cursor => Reading = <<Frame("trunc", Top.mode)>>
          /\ DrainTo # cursor => Reading = <<Block, Frame("trunc", Top.mode)>>
          /\ Sound(Reading)
      BY <2>1, <3>1, ReadTailFrames
    <3>3. Frame("trunc", Top.mode).op # "kill" /\ Block.op # "kill"
      BY DEF Frame, Block
    <3>4. Reading \in Seq(FrameType) /\ \A k \in 1 .. Len(Reading) : Reading[k].op # "kill"
      BY <3>2, <3>3 DEF Sound
    <3> QED BY <2>1, <3>1, <3>4, PushOutermost
  <2> QED BY <2>2, <2>3
<1>3. CASE Commit
  <2> DEFINE e == Head(Top.rest)
             after == [Top EXCEPT !.rest = Tail(@)]
  <2>1. /\ todo # <<>> /\ WellFormed(after) /\ after.op \in Loops
    BY <1>3, AfterEvent DEF Commit, InLoop
  <2>2. ~Breaches(e)
    BY DEF Breaches
  <2>3. todo' = <<>> \o <<after>> \o Tail(todo)
    BY <1>3, <2>2 DEF Commit
  <2> HIDE DEF after
  <2> DEFINE one == <<after>>
  <2>4. one \in Seq({after})
    OBVIOUS
  <2>5. <<>> \o one = one
    BY <2>4, ConcatEmptySeq
  <2>6. todo' = <<after>> \o Tail(todo)
    BY <2>3, <2>5
  <2> QED BY <2>1, <2>6, PushOne DEF Loops
<1>4. CASE TruncateCheck
  <2> DEFINE len == Len(file)
             due == held /\ len >= Cap /\ cursor >= len /\ TailerPast(tailer', len)
             cut == [Top EXCEPT !.op = "cut", !.to = len]
  <2>1. /\ todo # <<>> /\ Top \in FrameType /\ WellFormed(Top) /\ Top.op = "trunc"
        /\ Len(file) \in Nat
    BY <1>4, Facts DEF TruncateCheck, Doing, Top
  <2>2. CASE due
    <3>1. todo' = <<cut>> \o Tail(todo)
      BY <1>4, <2>2 DEF TruncateCheck
    <3>2. cut.op = "cut" /\ WellFormed(cut)
      <4>1. /\ cut.op = "cut" /\ cut.to = Len(file) /\ cut.mode = Top.mode /\ cut.from = Top.from
            /\ cut.rest = Top.rest /\ cut \in FrameType
        BY <2>1 DEF FrameType
      <4> HIDE DEF cut
      <4> QED BY <2>1, <4>1 DEF WellFormed, Loops
    <3> HIDE DEF cut
    <3> QED BY <2>1, <3>1, <3>2, PushOne
  <2>3. CASE ~due
    <3>1. todo' = <<>> \o Tail(todo)
      BY <1>4, <2>3 DEF TruncateCheck
    <3>2. Tail(todo) \in Seq(FrameType)
      BY <2>1, HeadTailProperties DEF Typed, Stack, Sound
    <3>3. todo' = Tail(todo)
      BY <3>1, <3>2, ConcatEmptySeq
    <3> QED BY <2>1, <3>3, PopOutermost
  <2> QED BY <2>2, <2>3
<1>5. CASE Kill
  <2>1. todo # <<>> /\ Doing("kill") /\ row' = row
    BY <1>5 DEF Kill, Doing
  <2>2. CASE Return
    BY <2>1, <2>2, PopOutermost DEF Return
  <2>3. CASE ~Return
    <3> DEFINE pre == <<>>
    <3>1. Spliced(todo', todo, 3, pre) /\ Len(todo) >= 3 /\ Len(todo) \in Nat /\ Len(pre) = 0
      BY <1>5, <2>1, <2>3, PopThree, Facts DEF Kill
    <3> HIDE DEF pre
    <3>2. /\ 3 \in 1 .. Len(todo) /\ Len(pre) \in Nat /\ \A k \in 1 .. Len(pre) : FALSE
      BY <3>1
    <3> QED BY <3>1, <3>2, SplicedOutermost
  <2> QED BY <2>2, <2>3
<1>6. CASE Advance \/ Truncate \/ ObservedDone \/ Drop
  <2>1. todo # <<>> /\ todo' = Tail(todo)
    BY <1>6 DEF Advance, Truncate, ObservedDone, Drop, Return, Doing
  <2> QED BY <2>1, PopOutermost
<1>7. ASSUME NEW busy \in BOOLEAN, LogRefused(busy) \/ ObservedRefused(busy) PROVE Outermost'
  <2>1. todo # <<>> /\ todo' = Tail(todo)
    BY <1>7, LogRefusedMeans, ObservedRefusedMeans DEF Doing
  <2> QED BY <2>1, PopOutermost
<1>8. CASE ReadQueue
  <2>1. CASE Return
    BY <1>8, <2>1, ReadQueueMeans, PopOutermost DEF Return
  <2>2. CASE ~Return
    <3>1. /\ todo # <<>> /\ todo' = <<ObsLoop>> \o Tail(todo)
          /\ WellFormed(ObsLoop) /\ ObsLoop.op = "ingestObs"
      BY <1>8, <2>2, ReadQueueMeans
    <3> QED BY <3>1, PushOne
  <2> QED BY <2>1, <2>2
<1>9. CASE Tick \/ Stop \/ Reap
  <2>1. CASE todo' = TickFrames \/ todo' = ReapFrames
    <3>1. CASE todo' = TickFrames
      <4>1. Len(todo') = 2 /\ \A k \in 1 .. 2 : todo'[k].op # "kill"
        BY <3>1, NewFrames DEF Frame
      <4> QED BY <4>1 DEF Outermost
    <3>2. CASE todo' = ReapFrames
      <4>1. Len(todo') = 3 /\ \A k \in 1 .. 3 : todo'[k].op # "kill"
        BY <3>2, NewFrames DEF Frame
      <4> QED BY <4>1 DEF Outermost
    <3> QED BY <2>1, <3>1, <3>2
  <2>2. CASE todo' = StopFrames
    <3>1. Len(todo') = 5 /\ \A k \in 1 .. 5 : todo'[k].op = "kill" => k = 3
      BY <2>2, NewFrames DEF Frame
    <3> QED BY <3>1 DEF Outermost
  <2> QED BY <1>9, <2>1, <2>2 DEF Tick, Stop, Reap
<1>10. CASE StopAgain \/ Launch \/ Crash \/ Adopt \/ Reconcile
  <2>1. todo' = <<>>
    BY <1>10 DEF StopAgain, Launch, Crash, Adopt, Reconcile, Attach, Ready
  <2>2. Len(todo') = 0
    BY <2>1, EmptySeq
  <2>3. \A k \in 1 .. Len(todo') : FALSE
    BY <2>2
  <2> QED BY <2>3 DEF Outermost
<1> QED
  BY <1>1, <1>2, <1>3, <1>4, <1>5, <1>6, <1>7, <1>8, <1>9, <1>10 DEF Next, Drain

\* Then both hypotheses are met: no event breaches, and a kill is on the stop's
\* own stack.
LEMMA NoCeiling ==
  ASSUME StopAt = {}, Typed, Outermost
  PROVE  BreachEndsBlock /\ (Doing("kill") => Len(todo) = 3)
<1>1. BreachEndsBlock
  BY DEF BreachEndsBlock, Breaches
<1>2. ASSUME Doing("kill") PROVE Len(todo) = 3
  <2>1. 1 \in 1 .. Len(todo) /\ todo[1].op = "kill"
    BY <1>2, Facts DEF Doing, Top
  <2>2. Len(todo) = 1 + 2
    BY <2>1 DEF Outermost
  <2> QED BY <2>2
<1> QED BY <1>1, <1>2

\* Where no ceiling stops the instance from inside a drain, no usage is lost in
\* silence and no whole line goes unshown, with no further hypothesis.
THEOREM NoCeilingLosesNothing ==
  ASSUME StopAt = {}
  PROVE  Spec => [](NoDoubleCount /\ Accounted /\ OutputKept)
<1>1. Init => Typed /\ Outermost
  <2>1. Init => Len(todo) = 0
    BY EmptySeq DEF Init
  <2>2. \A k \in 1 .. 0 : FALSE
    OBVIOUS
  <2> QED BY <2>1, <2>2, InitTyped DEF Outermost
<1>2. Typed /\ Outermost /\ [Next]_vars => Typed' /\ Outermost'
  BY NextTyped, NextOutermost
<1>3. /\ Typed /\ Outermost
      => BreachEndsBlock /\ [KillReturns]_vars /\ [ReturnsInside]_vars
  <2> SUFFICES ASSUME Typed, Outermost
               PROVE  BreachEndsBlock /\ [KillReturns]_vars /\ [ReturnsInside]_vars
    OBVIOUS
  <2>1. BreachEndsBlock /\ KillReturns
    BY NoCeiling DEF KillReturns
  <2> QED BY <2>1, ReturnsFromOne
<1>4. Spec => []BreachEndsBlock /\ [][KillReturns]_vars /\ [][ReturnsInside]_vars
  BY <1>1, <1>2, <1>3, PTL DEF Spec
<1> QED
  BY <1>4, NoEventCountsTwice, NoUsageLostInSilence, WholeLinesAreShown, PTL
=============================================================================
