---------------------------- MODULE BudgetProofs ----------------------------
(***************************************************************************)
(* Proofs about Budget, for all settings, usage sizes, failures and        *)
(* interleavings: the types, that no breach is recorded twice in a Run and *)
(* no crossing is missed, that the fence of a Run survives relaunches and  *)
(* adoptions, and that a pause or stop that was taken holds.               *)
(***************************************************************************)
EXTENDS Budget, SequenceTheorems, TLAPS

USE DEF Dimensions, Scopes, Actions, Unset, Within, Holds

-----------------------------------------------------------------------------
(* The decision core *)

Sums == [Scopes -> [Dimensions -> Nat]]

(* A setting in force names an action and has a ceiling or none. *)
LEMMA SettingTypes ==
  /\ \A c \in Settings : c \in Setting
  /\ Unconfigured \in Setting
  BY SettingsAssumption DEF Unconfigured, Setting

(* The set of one task has that task as its only member. *)
LEMMA Singleton ==
  ASSUME NEW S, NEW x \in S
  PROVE  <<x>> \in Seq(S) /\ Len(<<x>>) = 1 /\ <<x>>[1] = x
  OBVIOUS

\* One dimension fires at most one breach, and never a latched one.
LEMMA FiresShape ==
  ASSUME NEW c \in Setting, NEW sums, NEW latched, NEW d \in Dimensions,
         run \in 0 .. MaxRuns
  PROVE  \/ Fires(c, sums, latched, d) = <<>>
         \/ \E b \in Breach :
              /\ Fires(c, sums, latched, d) = <<b>>
              /\ b.run = run /\ b.dimension = d /\ b.action = c.action[d]
              /\ KeyOf(b) \notin latched
              /\ Armed(c, d) /\ evaluate(c.limit[d], sums, d) # Within
  <1>1. evaluate(c.limit[d], sums, d) \in Scopes \cup {Within}
    BY DEF evaluate
  <1>2. c.action[d] \in Actions
    BY DEF Setting
  <1> DEFINE b == [run |-> run, dimension |-> d,
                   scope |-> evaluate(c.limit[d], sums, d),
                   action |-> c.action[d]]
  <1>3. CASE Fires(c, sums, latched, d) = <<>>
    BY <1>3
  <1>4. CASE Fires(c, sums, latched, d) # <<>>
    <2>1. /\ Fires(c, sums, latched, d) = <<b>>
          /\ Armed(c, d) /\ evaluate(c.limit[d], sums, d) # Within
          /\ KeyOf(b) \notin latched
      BY <1>4 DEF Fires, KeyOf
    <2>2. b \in Breach
      BY <1>1, <1>2, <2>1 DEF Breach
    <2> QED
      BY <2>1, <2>2
  <1> QED
    BY <1>3, <1>4

\* What an evaluation commits: breaches of this Run, none of them latched, all
\* of different dimensions.
LEMMA DecideShape ==
  ASSUME NEW c \in Setting, NEW sums, NEW latched, run \in 0 .. MaxRuns
  PROVE  LET fired == decide(c, sums, latched) IN
         /\ fired \in Seq(Breach)
         /\ \A i \in DOMAIN fired :
              /\ fired[i].run = run
              /\ fired[i].action = c.action[fired[i].dimension]
              /\ KeyOf(fired[i]) \notin latched
              /\ Armed(c, fired[i].dimension)
              /\ evaluate(c.limit[fired[i].dimension], sums,
                          fired[i].dimension) # Within
         /\ \A i, j \in DOMAIN fired :
              fired[i].dimension = fired[j].dimension => i = j
  <1> DEFINE t == Fires(c, sums, latched, "tokens")
             e == Fires(c, sums, latched, "dollars")
             Good(b) == /\ b.run = run /\ b.action = c.action[b.dimension]
                        /\ KeyOf(b) \notin latched /\ Armed(c, b.dimension)
                        /\ evaluate(c.limit[b.dimension], sums, b.dimension) # Within
  <1>1. decide(c, sums, latched) = t \o e
    BY DEF decide
  <1>2. t = <<>> \/ \E b \in Breach : t = <<b>> /\ b.dimension = "tokens" /\ Good(b)
    BY FiresShape
  <1>3. e = <<>> \/ \E b \in Breach : e = <<b>> /\ b.dimension = "dollars" /\ Good(b)
    BY FiresShape
  <1> HIDE DEF t, e, Good
  <1>4. /\ t \in Seq(Breach) /\ Len(t) \in {0, 1}
        /\ \A i \in 1 .. Len(t) : t[i].dimension = "tokens" /\ Good(t[i])
    <2>1. CASE t = <<>>
      BY <2>1
    <2>2. CASE t # <<>>
      <3>1. PICK b \in Breach : t = <<b>> /\ b.dimension = "tokens" /\ Good(b)
        BY <1>2, <2>2
      <3>2. t \in Seq(Breach) /\ Len(t) = 1 /\ t[1] = b
        BY <3>1, Singleton
      <3>3. \A i \in 1 .. Len(t) : i = 1
        BY <3>2
      <3> QED
        BY <3>1, <3>2, <3>3
    <2> QED
      BY <2>1, <2>2
  <1>5. /\ e \in Seq(Breach) /\ Len(e) \in {0, 1}
        /\ \A i \in 1 .. Len(e) : e[i].dimension = "dollars" /\ Good(e[i])
    <2>1. CASE e = <<>>
      BY <2>1
    <2>2. CASE e # <<>>
      <3>1. PICK b \in Breach : e = <<b>> /\ b.dimension = "dollars" /\ Good(b)
        BY <1>3, <2>2
      <3>2. e \in Seq(Breach) /\ Len(e) = 1 /\ e[1] = b
        BY <3>1, Singleton
      <3>3. \A i \in 1 .. Len(e) : i = 1
        BY <3>2
      <3> QED
        BY <3>1, <3>2, <3>3
    <2> QED
      BY <2>1, <2>2
  <1> DEFINE fired == t \o e
  <1>6. /\ fired \in Seq(Breach) /\ Len(fired) = Len(t) + Len(e)
        /\ \A i \in 1 .. Len(fired) :
             fired[i] = IF i <= Len(t) THEN t[i] ELSE e[i - Len(t)]
    BY <1>4, <1>5, ConcatProperties
  <1>7. DOMAIN fired = 1 .. Len(fired)
    BY <1>6
  <1> HIDE DEF fired
  <1>8. ASSUME NEW i \in DOMAIN fired
        PROVE  /\ Good(fired[i])
               /\ i <= Len(t) => fired[i].dimension = "tokens"
               /\ ~(i <= Len(t)) => fired[i].dimension = "dollars"
    <2>1. CASE i <= Len(t)
      <3>1. i \in 1 .. Len(t) /\ fired[i] = t[i]
        BY <1>4, <1>6, <1>7, <2>1
      <3> QED
        BY <1>4, <2>1, <3>1
    <2>2. CASE ~(i <= Len(t))
      <3>1. i - Len(t) \in 1 .. Len(e) /\ fired[i] = e[i - Len(t)]
        BY <1>4, <1>5, <1>6, <1>7, <2>2
      <3> QED
        BY <1>5, <2>2, <3>1
    <2> QED
      BY <2>1, <2>2
  <1>9. ASSUME NEW i \in DOMAIN fired, NEW j \in DOMAIN fired,
               fired[i].dimension = fired[j].dimension
        PROVE  i = j
    <2>1. (i <= Len(t)) <=> (j <= Len(t))
      BY <1>8, <1>9
    <2> QED
      BY <2>1, <1>4, <1>5, <1>6, <1>7
  <1>10. decide(c, sums, latched) = fired
    BY <1>1 DEF fired
  <1> QED
    BY <1>6, <1>8, <1>9, <1>10 DEF Good

-----------------------------------------------------------------------------
(* What an evaluation writes *)

(* What waits after a commit is what waited before and what it adds. *)
LEMMA MembersConcat ==
  ASSUME NEW S, NEW s \in Seq(S), NEW t \in Seq(S)
  PROVE  Members(s \o t) = Members(s) \cup Members(t)
  <1>1. /\ s \o t \in Seq(S) /\ Len(s \o t) = Len(s) + Len(t)
        /\ \A i \in 1 .. Len(s) + Len(t) :
             (s \o t)[i] = IF i <= Len(s) THEN s[i] ELSE t[i - Len(s)]
    BY ConcatProperties
  <1>2. /\ DOMAIN (s \o t) = 1 .. Len(s) + Len(t)
        /\ DOMAIN s = 1 .. Len(s) /\ DOMAIN t = 1 .. Len(t)
        /\ Len(s) \in Nat /\ Len(t) \in Nat
    BY <1>1
  <1> DEFINE c == s \o t
  <1> HIDE DEF c
  <1>3. ASSUME NEW i \in DOMAIN c
        PROVE  c[i] \in Members(s) \cup Members(t)
    <2>1. CASE i <= Len(s)
      BY <1>1, <1>2, <2>1 DEF Members, c
    <2>2. CASE ~(i <= Len(s))
      <3>1. i - Len(s) \in DOMAIN t /\ c[i] = t[i - Len(s)]
        BY <1>1, <1>2, <2>2 DEF c
      <3> QED
        BY <3>1 DEF Members
    <2> QED
      BY <2>1, <2>2
  <1>4. ASSUME NEW i \in DOMAIN s
        PROVE  s[i] \in Members(c)
    <2>1. i \in DOMAIN c /\ c[i] = s[i]
      BY <1>1, <1>2 DEF c
    <2> QED
      BY <2>1 DEF Members
  <1>5. ASSUME NEW i \in DOMAIN t
        PROVE  t[i] \in Members(c)
    <2>1. i + Len(s) \in DOMAIN c /\ c[i + Len(s)] = t[i]
      BY <1>1, <1>2 DEF c
    <2> QED
      BY <2>1 DEF Members
  <1> QED
    BY <1>3, <1>4, <1>5 DEF Members, c

(* Taking the first task leaves the others. *)
LEMMA MembersTail ==
  ASSUME NEW S, NEW s \in Seq(S), s # <<>>
  PROVE  /\ Tail(s) \in Seq(S) /\ Head(s) \in S
         /\ Members(s) = {Head(s)} \cup Members(Tail(s))
  <1>1. /\ Tail(s) \in Seq(S) /\ Head(s) \in S /\ Len(Tail(s)) = Len(s) - 1
        /\ \A i \in 1 .. Len(Tail(s)) : Tail(s)[i] = s[i + 1]
        /\ Len(s) \in Nat \ {0}
    BY HeadTailProperties, EmptySeq
  <1> DEFINE t == Tail(s)
  <1>2. DOMAIN s = 1 .. Len(s) /\ DOMAIN t = 1 .. Len(s) - 1 /\ Head(s) = s[1]
    BY <1>1
  <1> HIDE DEF t
  <1>3. ASSUME NEW i \in DOMAIN s
        PROVE  s[i] \in {Head(s)} \cup Members(t)
    <2>1. CASE i = 1
      BY <1>2, <2>1
    <2>2. CASE i # 1
      <3>1. i - 1 \in DOMAIN t /\ t[i - 1] = s[i]
        BY <1>1, <1>2, <2>2 DEF t
      <3> QED
        BY <3>1 DEF Members
    <2> QED
      BY <2>1, <2>2
  <1>4. ASSUME NEW i \in DOMAIN t
        PROVE  t[i] \in Members(s)
    <2>1. i + 1 \in DOMAIN s /\ t[i] = s[i + 1]
      BY <1>1, <1>2 DEF t
    <2> QED
      BY <2>1 DEF Members
  <1>5. Head(s) \in Members(s)
    BY <1>1, <1>2 DEF Members
  <1> QED
    BY <1>1, <1>3, <1>4, <1>5 DEF Members, t

(* The latch of a breach is a latch. *)
LEMMA KeyTypes == \A b \in Breach : KeyOf(b) \in Key
  BY DEF Breach, KeyOf, Key

(* The tasks that follow an evaluation are tasks. *)
LEMMA ActionsTypes ==
  ASSUME NEW fired \in Seq(Breach)
  PROVE  ActionsOf(fired) \in Seq(Tasks)
  <1>1. DOMAIN fired = 1 .. Len(fired) /\ Len(fired) \in Nat
    OBVIOUS
  <1>2. \A b \in Breach : b.action \in Tasks
    BY DEF Tasks, Breach
  <1>3. \A i \in 1 .. Len(fired) : fired[i] \in Breach
    OBVIOUS
  <1>4. ActionsOf(fired) \in [1 .. Len(fired) -> Tasks]
    BY <1>1, <1>2, <1>3 DEF ActionsOf
  <1> QED
    BY <1>1, <1>4, IsASeq

(* The commit of breaches and latches keeps the types. *)
LEMMA CommitTypes ==
  ASSUME TypeOK, NEW c \in Setting, NEW sums, NEW latched,
         NEW rest \in Seq(Tasks),
         CommitBreaches(decide(c, sums, latched), rest)
  PROVE  /\ breaches' \in Seq(Breach) /\ latches' \subseteq Breach
         /\ fence' \subseteq Key /\ todo' \in Seq(Tasks)
         /\ hold' \in Holds /\ blocked' \in BOOLEAN
  <1> DEFINE fired == decide(c, sums, latched)
  <1>1. fired \in Seq(Breach)
    BY DecideShape DEF TypeOK
  <1> HIDE DEF fired
  <1>2. Members(fired) \subseteq Breach
    BY <1>1 DEF Members
  <1>3. ActionsOf(fired) \in Seq(Tasks)
    BY <1>1, ActionsTypes
  <1>4. Blocks(fired) \subseteq Key
    BY <1>2, KeyTypes DEF Blocks
  <1>5. /\ breaches' = breaches \o fired /\ latches' = latches \cup Members(fired)
        /\ fence' = IF listener THEN fence \cup Blocks(fired) ELSE fence
        /\ todo' = ActionsOf(fired) \o rest
        /\ hold' = IF Acts(fired) THEN "committed" ELSE hold
        /\ blocked' = (blocked \/ Blocks(fired) # {})
    BY DEF CommitBreaches, fired
  <1>6. breaches' \in Seq(Breach) /\ todo' \in Seq(Tasks)
    BY <1>1, <1>3, <1>5, ConcatProperties DEF TypeOK
  <1>7. latches' \subseteq Breach /\ fence' \subseteq Key
    BY <1>2, <1>4, <1>5 DEF TypeOK
  <1> QED
    BY <1>5, <1>6, <1>7 DEF TypeOK

(* The rollups stay naturals when a size is added. *)
LEMMA CountedTypes ==
  ASSUME NEW sum \in [Dimensions -> Nat], NEW n \in Nat, NEW rate \in Nat
  PROVE  /\ Counted(sum, n, rate) \in [Dimensions -> Nat]
         /\ \A d \in Dimensions : sum[d] <= Counted(sum, n, rate)[d]
  <1>1. n * rate \in Nat
    OBVIOUS
  <1> QED
    BY <1>1 DEF Counted

(* A failed read of settings or totals costs a fault, nothing else. *)
LEMMA ReadsTypes ==
  ASSUME TypeOK, NEW c, NEW lost, Reads(c, lost)
  PROVE  c \in Setting /\ faults' \subseteq FaultKinds
  BY SettingTypes DEF TypeOK, Reads, Attempt

-----------------------------------------------------------------------------
(* Types *)

(* An evaluation at the end of a launch or an adoption keeps the types. *)
LEMMA EnforceTypes ==
  ASSUME TypeOK, up, todo # <<>>, EnforceBudget
  PROVE  TypeOK'
  <1>1. PICK c \in {config, Unconfigured}, lost \in RollupLosses :
          /\ Reads(c, lost)
          /\ CommitBreaches(decide(c, ReadTotals(total, lost), Latched(c)), Tail(todo))
    BY DEF EnforceBudget
  <1>2. c \in Setting /\ faults' \subseteq FaultKinds
    BY <1>1, ReadsTypes
  <1>3. Tail(todo) \in Seq(Tasks)
    BY MembersTail DEF TypeOK
  <1>4. /\ breaches' \in Seq(Breach) /\ latches' \subseteq Breach
        /\ fence' \subseteq Key /\ todo' \in Seq(Tasks)
        /\ hold' \in Holds /\ blocked' \in BOOLEAN
    BY <1>1, <1>2, <1>3, CommitTypes
  <1> QED
    BY <1>2, <1>4 DEF TypeOK, EnforceBudget, fixed

(* A launch that goes on keeps the types, whatever it could read. *)
LEMMA LaunchedTypes ==
  ASSUME TypeOK, run' \in 0 .. MaxRuns, NEW sums, NEW rest \in Seq(Tasks),
         NEW read, Launched(sums, rest, read)
  PROVE  /\ row' \in Rows /\ held' \in BOOLEAN /\ listener' \in BOOLEAN
         /\ fence' \subseteq Key /\ faults' \subseteq FaultKinds
         /\ todo' \in Seq(Tasks) /\ recorded' \in BOOLEAN
  <1>1. PICK c \in {config, Unconfigured}, lost \in SUBSET (Dimensions \X Scopes) :
          /\ IF read THEN Reads(c, lost)
             ELSE c = config /\ lost = {} /\ Attempt("record", FALSE)
          /\ fence' = IF listener' THEN RunStartFence(c, ReadTotals(sums, lost)) ELSE {}
    BY DEF Launched
  <1>2. c \in Setting /\ faults' \subseteq FaultKinds
    <2>1. CASE read
      BY <1>1, <2>1, ReadsTypes
    <2>2. CASE ~read
      BY <1>1, <2>2, SettingTypes DEF TypeOK, Attempt
    <2> QED
      BY <2>1, <2>2
  <1>3. decide(c, ReadTotals(sums, lost), {}) \in Seq(Breach)
    BY <1>2, DecideShape DEF TypeOK
  <1>4. RunStartFence(c, ReadTotals(sums, lost)) \subseteq Key
    BY <1>3, KeyTypes DEF RunStartFence, Blocks, Members
  <1> QED
    BY <1>1, <1>2, <1>4 DEF Launched, Rows

(* So does one that opens a Run. *)
LEMMA OpensRunTypes ==
  ASSUME TypeOK, NEW read, OpensRun(read)
  PROVE  /\ row' \in Rows /\ held' \in BOOLEAN /\ listener' \in BOOLEAN
         /\ fence' \subseteq Key /\ faults' \subseteq FaultKinds
         /\ todo' \in Seq(Tasks) /\ recorded' \in BOOLEAN
         /\ run' \in 0 .. MaxRuns /\ total' \in [Scopes -> [Dimensions -> Nat]]
         /\ blocked' \in BOOLEAN
  <1>1. run' \in 0 .. MaxRuns
    BY BoundsAssumption DEF TypeOK, OpensRun
  <1>2. total' \in [Scopes -> [Dimensions -> Nat]] /\ blocked' \in BOOLEAN
    BY DEF TypeOK, OpensRun, NewSums, Zero
  <1>3. <<"fenced">> \in Seq(Tasks)
    BY DEF Tasks
  <1>4. Launched(NewSums, <<"fenced">>, read)
    BY DEF OpensRun
  <1> QED
    BY <1>1, <1>2, <1>3, <1>4, LaunchedTypes

(* ingest_usage keeps the types. *)
LEMMA UsageTypes ==
  ASSUME TypeOK, NEW n \in Sizes, Usage(n)
  PROVE  TypeOK'
  <1>1. PICK c \in {config, Unconfigured}, lost \in RollupLosses :
          LET sums == [s \in Scopes |-> Counted(total[s], n, c.rate)] IN
            /\ Reads(c, lost)
            /\ total' = sums
            /\ CommitBreaches(decide(c, ReadTotals(sums, lost), Latched(c)), todo)
    BY DEF Usage
  <1> DEFINE sums == [s \in Scopes |-> Counted(total[s], n, c.rate)]
  <1>2. c \in Setting /\ faults' \subseteq FaultKinds
    BY <1>1, ReadsTypes
  <1>3. c.rate \in Nat /\ n \in Nat
    BY <1>2, SizesAssumption DEF Setting
  <1>4. sums \in [Scopes -> [Dimensions -> Nat]]
    BY <1>3, CountedTypes DEF TypeOK
  <1> HIDE DEF sums
  <1>5. /\ breaches' \in Seq(Breach) /\ latches' \subseteq Breach
        /\ fence' \subseteq Key /\ todo' \in Seq(Tasks)
        /\ hold' \in Holds /\ blocked' \in BOOLEAN
    BY <1>1, <1>2, CommitTypes DEF TypeOK, sums
  <1>6. total' \in [Scopes -> [Dimensions -> Nat]]
    BY <1>1, <1>4 DEF sums
  <1> QED
    BY <1>2, <1>5, <1>6 DEF TypeOK, Usage, fixed

(* The start of a Run keeps the types. *)
LEMMA StartTypes ==
  ASSUME TypeOK, Start
  PROVE  TypeOK'
  <1>1. OpensRun(TRUE)
    BY DEF Start
  <1> QED
    BY <1>1, OpensRunTypes DEF TypeOK, Start, fixed

(* A restart timer that fires keeps the types, with the Run or a new one. *)
LEMMA RelaunchTypes ==
  ASSUME TypeOK, Relaunch \/ RelaunchRejected
  PROVE  TypeOK'
  <1>1. timers' \in Nat
    <2>1. timers \in Nat /\ timers > 0 /\ timers' = timers - 1
      BY DEF TypeOK, Relaunch, RelaunchRejected
    <2> QED
      BY <2>1
  <1>2. CASE RelaunchRejected
    BY <1>1, <1>2 DEF TypeOK, RelaunchRejected, fixed, ledger, history
  <1>3. CASE /\ Relaunch /\ Launched(total, <<"fenced", "reapply">>, TRUE)
             /\ UNCHANGED <<run, total, history>>
    <2>1. <<"fenced", "reapply">> \in Seq(Tasks)
      BY DEF Tasks
    <2>2. run' \in 0 .. MaxRuns
      BY <1>3 DEF TypeOK
    <2>3. /\ row' \in Rows /\ held' \in BOOLEAN /\ listener' \in BOOLEAN
          /\ fence' \subseteq Key /\ faults' \subseteq FaultKinds
          /\ todo' \in Seq(Tasks) /\ recorded' \in BOOLEAN
      BY <1>3, <2>1, <2>2, LaunchedTypes
    <2> QED
      BY <1>1, <1>3, <2>3 DEF TypeOK, Relaunch, fixed, history
  <1>4. CASE Relaunch /\ OpensRun(~recorded) /\ hold' = HeldInRun
    <2>1. hold' \in Holds
      BY <1>4 DEF TypeOK, HeldInRun
    <2> QED
      BY <1>1, <1>4, <2>1, OpensRunTypes DEF TypeOK, Relaunch, fixed
  <1> QED
    BY <1>2, <1>3, <1>4 DEF Relaunch

\* The steps that take the first task off the list.
LEMMA TaskTypes ==
  ASSUME TypeOK, todo # <<>>
  PROVE  /\ Tail(todo) \in Seq(Tasks)
         /\ \A a \in Tasks : <<a>> \o Tail(todo) \in Seq(Tasks)
  <1>1. Tail(todo) \in Seq(Tasks)
    BY MembersTail DEF TypeOK
  <1>2. ASSUME NEW a \in Tasks
        PROVE  <<a>> \o Tail(todo) \in Seq(Tasks)
    BY <1>1, Singleton, ConcatProperties
  <1> QED
    BY <1>1, <1>2

(* The re-application of latched actions keeps the types. *)
LEMMA ReapplyTypes ==
  ASSUME TypeOK, Reapply
  PROVE  TypeOK'
  <1>1. todo # <<>>
    BY DEF Reapply, Doing
  <1>2. todo' \in Seq(Tasks) /\ hold' \in Holds
        /\ faults' \subseteq FaultKinds
    <2>1. CASE \E i \in Spent(config) :
                 /\ \A j \in Spent(config) : j <= i
                 /\ todo' = <<breaches[i].action>> \o Tail(todo)
                 /\ hold' = "committed" /\ UNCHANGED faults
      <3>1. PICK i \in Spent(config) :
                 /\ todo' = <<breaches[i].action>> \o Tail(todo)
                 /\ hold' = "committed" /\ UNCHANGED faults
        BY <2>1
      <3>2. breaches[i].action \in Tasks
        BY <3>1 DEF Spent, Tasks
      <3> QED
        BY <1>1, <3>1, <3>2, TaskTypes DEF TypeOK
    <2>2. CASE /\ Spent(config) = {} /\ todo' = Tail(todo)
               /\ UNCHANGED <<hold, faults>>
      BY <1>1, <2>2, TaskTypes DEF TypeOK
    <2>3. CASE /\ Attempt("config", FALSE) \/ Attempt("breaches", FALSE)
               /\ todo' = Tail(todo) /\ UNCHANGED hold
      BY <1>1, <2>3, TaskTypes DEF TypeOK, Attempt
    <2> QED
      BY <2>1, <2>2, <2>3 DEF Reapply
  <1> QED
    BY <1>2 DEF TypeOK, Reapply, fixed, ledger, engine

(* The pauses, stops and notes that a breach asks for keep the types. *)
LEMMA ActionTypes ==
  ASSUME TypeOK,
         \/ SkipFenced \/ EnforcementFails \/ NoteBreach
         \/ EnforcePause \/ EnforceStop \/ FinishStop
  PROVE  TypeOK'
  <1>1. todo # <<>>
    BY DEF SkipFenced, EnforcementFails, NoteBreach, EnforcePause, EnforceStop,
         FinishStop, Doing
  <1>2. /\ Tail(todo) \in Seq(Tasks) /\ <<"finish">> \o Tail(todo) \in Seq(Tasks)
    BY <1>1, TaskTypes DEF Tasks
  <1>3. CASE SkipFenced \/ EnforcementFails \/ NoteBreach
    <2>1. /\ todo' = Tail(todo)
          /\ UNCHANGED <<config, fixed, row, operator, ledger, engine, history>>
      BY <1>3 DEF SkipFenced, EnforcementFails, NoteBreach
    <2>2. faults' \subseteq FaultKinds
      BY <1>3 DEF SkipFenced, EnforcementFails, NoteBreach, Attempt, TypeOK
    <2> QED
      BY <1>2, <2>1, <2>2 DEF TypeOK, fixed, ledger, engine, history
  <1>t. /\ Taken \in Holds
        /\ Refused \in Holds
    BY DEF TypeOK, Taken, Refused
  <1>4. CASE EnforcePause
    <2>1. hold' \in Holds
      BY <1>4, <1>t DEF EnforcePause
    <2>2. row' \in Rows /\ operator' \in BOOLEAN
      BY <1>4 DEF EnforcePause, TypeOK, Rows
    <2> QED
      BY <1>2, <1>4, <2>1, <2>2 DEF TypeOK, EnforcePause, fixed, ledger, engine
  <1>5. CASE EnforceStop
    <2>1. hold' \in Holds
      BY <1>5, <1>t DEF EnforceStop
    <2>2. row' \in Rows
      BY <1>5 DEF EnforceStop, TypeOK, Rows
    <2>3. todo' \in Seq(Tasks)
      BY <1>2, <1>5 DEF EnforceStop
    <2> QED
      BY <1>5, <2>1, <2>2, <2>3 DEF TypeOK, EnforceStop, fixed, ledger, engine
  <1>6. CASE FinishStop
    BY <1>2, <1>6 DEF TypeOK, FinishStop, Unsupervised, Rows, fixed, ledger, history
  <1> QED
    BY <1>3, <1>4, <1>5, <1>6

(* Pauses, stops and exits that no breach asked for keep the types. *)
LEMMA LifecycleTypes ==
  ASSUME TypeOK,
         \/ Stop \/ Pause \/ Resume \/ ReapClean \/ \E again \in BOOLEAN : Reap(again)
         \/ \E c \in Settings : Configure(c)
  PROVE  TypeOK'
  <1>1. CASE Stop
    <2>1. <<"finish">> \in Seq(Tasks)
      BY DEF Tasks
    <2> QED
      BY <1>1, <2>1 DEF TypeOK, Stop, Rows, fixed, ledger, engine, history
  <1>2. CASE Pause \/ Resume
    BY <1>2 DEF TypeOK, Pause, Resume, Rows, fixed, ledger, engine, history
  <1>3. CASE ReapClean
    BY <1>3 DEF TypeOK, ReapClean, Unsupervised, Rows, fixed, history
  <1>4. CASE \E again \in BOOLEAN : Reap(again)
    <2>1. PICK again \in BOOLEAN : Reap(again)
      BY <1>4
    <2>2. timers' \in {timers, timers + 1} /\ recorded' \in {recorded, FALSE}
      BY <2>1 DEF Reap
    <2>3. timers' \in Nat /\ recorded' \in BOOLEAN
      <3>1. timers \in Nat /\ recorded \in BOOLEAN
        BY DEF TypeOK
      <3>2. timers' \in Nat
        BY <2>2, <3>1
      <3> QED
        BY <2>2, <3>1, <3>2, Zenon
    <2>4. /\ row' = "failed" /\ held' = FALSE /\ listener' = FALSE /\ fence' = {}
          /\ UNCHANGED <<config, fixed, operator, run, total, latches, breaches, up, todo,
                         faults, history>>
      BY <2>1 DEF Reap, Unsupervised
    <2> QED
      BY <2>3, <2>4 DEF TypeOK, Rows, fixed, history
  <1>5. CASE \E c \in Settings : Configure(c)
    BY <1>5 DEF TypeOK, Configure, fixed, ledger, engine
  <1> QED
    BY <1>1, <1>2, <1>3, <1>4, <1>5

(* The close, crash and adoption of an engine keep the types. *)
LEMMA SessionTypes ==
  ASSUME TypeOK, Close \/ Crash \/ OpenAdopts \/ OpenReconciles
  PROVE  TypeOK'
  <1>1. <<>> \in Seq(Tasks) /\ <<"enforce">> \in Seq(Tasks)
    BY DEF Tasks
  <1>2. CASE Close
    BY <1>1, <1>2 DEF TypeOK, Close, Gone, Unsupervised, Rows, fixed, ledger, history
  <1>3. CASE Crash
    BY <1>1, <1>3 DEF TypeOK, Crash, Gone, Unsupervised, Attempt, fixed, ledger, history
  <1>4. CASE OpenAdopts
    <2>1. ResumedReasons(config) \subseteq Key
      BY KeyTypes DEF ResumedReasons, Members, TypeOK
    <2>2. fence' \subseteq Key /\ faults' \subseteq FaultKinds
      BY <1>4, <2>1 DEF OpenAdopts, Attempt, TypeOK
    <2>3. listener' \in BOOLEAN
      BY <1>4 DEF OpenAdopts
    <2> QED
      BY <1>1, <1>4, <2>2, <2>3 DEF TypeOK, OpenAdopts, fixed, ledger, history
  <1>5. CASE OpenReconciles
    BY <1>5 DEF TypeOK, OpenReconciles, Rows, fixed, ledger, history
  <1> QED
    BY <1>2, <1>3, <1>4, <1>5

\* Every variable keeps its type, whatever the settings, the usage and the
\* calls that fail.
THEOREM TypeCorrect == Spec => []TypeOK
  <1>1. Init => TypeOK
    <2> SUFFICES ASSUME Init PROVE TypeOK
      OBVIOUS
    <2>1. total \in [Scopes -> [Dimensions -> Nat]] /\ run \in 0 .. MaxRuns
      BY BoundsAssumption DEF Init, Zero
    <2>2. breaches \in Seq(Breach) /\ todo \in Seq(Tasks)
      BY DEF Init
    <2> QED
      BY <2>1, <2>2 DEF Init, TypeOK, Rows
  <1>2. TypeOK /\ [Next]_vars => TypeOK'
    <2> SUFFICES ASSUME TypeOK, [Next]_vars PROVE TypeOK'
      OBVIOUS
    <2>1. CASE \E n \in Sizes : Usage(n)
      BY <2>1, UsageTypes
    <2>2. CASE Start \/ Relaunch \/ RelaunchRejected \/ Reapply
      BY <2>2, StartTypes, RelaunchTypes, ReapplyTypes
    <2>3. CASE EnforceFenced \/ EnforceAdopted
      BY <2>3, EnforceTypes DEF EnforceFenced, EnforceAdopted, Doing
    <2>4. CASE \/ SkipFenced \/ EnforcementFails \/ NoteBreach
               \/ EnforcePause \/ EnforceStop \/ FinishStop
      BY <2>4, ActionTypes
    <2>5. CASE \/ Stop \/ Pause \/ Resume \/ ReapClean \/ \E again \in BOOLEAN : Reap(again)
               \/ \E c \in Settings : Configure(c)
      BY <2>5, LifecycleTypes
    <2>6. CASE Close \/ Crash \/ OpenAdopts \/ OpenReconciles
      BY <2>6, SessionTypes
    <2>7. CASE UNCHANGED vars
      BY <2>7 DEF TypeOK, vars, fixed, ledger, engine, history
    <2> QED
      BY <2>1, <2>2, <2>3, <2>4, <2>5, <2>6, <2>7 DEF Next
  <1> QED
    BY <1>1, <1>2, PTL DEF Spec

-----------------------------------------------------------------------------
(* A breach is recorded once in a Run: the latches are the breaches *)

LatchInv == latches = Members(breaches) /\ OncePerRun

\* What an evaluation commits was not recorded before.
LEMMA FiredIsNew ==
  ASSUME TypeOK, LatchInv, NEW c \in Setting, NEW sums,
         NEW b \in Members(decide(c, sums, Latched(c)))
  PROVE  b \notin Members(breaches)
  <1> DEFINE fired == decide(c, sums, Latched(c))
  <1>1. PICK i \in DOMAIN fired : b = fired[i]
    BY DEF Members
  <1>2. b.run = run /\ b.action = c.action[b.dimension] /\ KeyOf(b) \notin Latched(c)
    BY <1>1, DecideShape DEF TypeOK
  <1>3. b \in latches => KeyOf(b) \in Latched(c)
    BY <1>2 DEF Latched
  <1> QED
    BY <1>2, <1>3 DEF LatchInv

(* A commit of what fires records no breach twice and latches all of it. *)
LEMMA CommitOnce ==
  ASSUME TypeOK, LatchInv, NEW c \in Setting, NEW sums, NEW rest,
         CommitBreaches(decide(c, sums, Latched(c)), rest)
  PROVE  LatchInv'
  <1> DEFINE fired == decide(c, sums, Latched(c))
  <1>1. /\ fired \in Seq(Breach)
        /\ \A i, j \in DOMAIN fired : fired[i].dimension = fired[j].dimension => i = j
    BY DecideShape DEF TypeOK
  <1>2. \A b \in Members(fired) : b \notin Members(breaches)
    BY FiredIsNew
  <1>3. breaches' = breaches \o fired /\ latches' = latches \cup Members(fired)
    BY DEF CommitBreaches
  <1> HIDE DEF fired
  <1>4. latches' = Members(breaches')
    BY <1>1, <1>3, MembersConcat DEF TypeOK, LatchInv
  <1> DEFINE n == Len(breaches)
  <1>5. /\ n \in Nat /\ DOMAIN breaches = 1 .. n
        /\ Len(fired) \in Nat /\ DOMAIN fired = 1 .. Len(fired)
        /\ DOMAIN breaches' = 1 .. n + Len(fired)
        /\ \A i \in 1 .. n + Len(fired) :
             breaches'[i] = IF i <= n THEN breaches[i] ELSE fired[i - n]
    BY <1>1, <1>3, ConcatProperties DEF TypeOK
  <1> HIDE DEF n
  <1>6. ASSUME NEW i \in DOMAIN breaches', NEW j \in DOMAIN breaches',
               breaches'[i] = breaches'[j]
        PROVE  i = j
    <2>1. /\ i <= n => i \in DOMAIN breaches /\ breaches'[i] = breaches[i]
          /\ j <= n => j \in DOMAIN breaches /\ breaches'[j] = breaches[j]
          /\ ~(i <= n) => i - n \in DOMAIN fired /\ breaches'[i] = fired[i - n]
          /\ ~(j <= n) => j - n \in DOMAIN fired /\ breaches'[j] = fired[j - n]
      BY <1>5
    <2>2. CASE i <= n /\ j <= n
      BY <1>6, <2>1, <2>2 DEF LatchInv, OncePerRun
    <2>3. CASE ~(i <= n) /\ ~(j <= n)
      <3>1. i - n = j - n
        BY <1>1, <1>6, <2>1, <2>3
      <3> QED
        BY <1>5, <3>1
    <2>4. CASE i <= n /\ ~(j <= n)
      BY <1>2, <1>6, <2>1, <2>4 DEF Members
    <2>5. CASE ~(i <= n) /\ j <= n
      BY <1>2, <1>6, <2>1, <2>5 DEF Members
    <2> QED
      BY <2>2, <2>3, <2>4, <2>5
  <1> QED
    BY <1>4, <1>6 DEF LatchInv, OncePerRun

(* So does the evaluation of a usage event. *)
LEMMA UsageOnce ==
  ASSUME TypeOK, LatchInv, NEW n \in Sizes, Usage(n)
  PROVE  LatchInv'
  <1>1. PICK c \in {config, Unconfigured}, lost \in RollupLosses :
          LET sums == [s \in Scopes |-> Counted(total[s], n, c.rate)] IN
            /\ Reads(c, lost)
            /\ CommitBreaches(decide(c, ReadTotals(sums, lost), Latched(c)), todo)
    BY DEF Usage
  <1> QED
    BY <1>1, ReadsTypes, CommitOnce

(* So does the evaluation of a launch or an adoption. *)
LEMMA EnforceOnce ==
  ASSUME TypeOK, LatchInv, EnforceBudget
  PROVE  LatchInv'
  <1>1. PICK c \in {config, Unconfigured}, lost \in RollupLosses :
          /\ Reads(c, lost)
          /\ CommitBreaches(decide(c, ReadTotals(total, lost), Latched(c)), Tail(todo))
    BY DEF EnforceBudget
  <1> QED
    BY <1>1, ReadsTypes, CommitOnce

\* The latches are exactly the recorded breaches, and no breach is recorded
\* twice.
THEOREM BreachLatched == Spec => []LatchInv
  <1>1. Init => LatchInv
    BY DEF Init, LatchInv, OncePerRun, Members
  <1>2. TypeOK /\ LatchInv /\ [Next]_vars => LatchInv'
    <2> SUFFICES ASSUME TypeOK, LatchInv, [Next]_vars PROVE LatchInv'
      OBVIOUS
    <2>1. CASE \E n \in Sizes : Usage(n)
      BY <2>1, UsageOnce
    <2>2. CASE EnforceFenced \/ EnforceAdopted
      BY <2>2, EnforceOnce DEF EnforceFenced, EnforceAdopted
    <2>3. CASE UNCHANGED <<latches, breaches>>
      BY <2>3 DEF LatchInv, OncePerRun, Members
    <2>4. CASE ~(\E n \in Sizes : Usage(n)) /\ ~EnforceFenced /\ ~EnforceAdopted
      <3>1. UNCHANGED <<latches, breaches>>
        BY <2>4 DEF Next, vars, ledger, Start, Relaunch, RelaunchRejected, SkipFenced, EnforcementFails,
              Reapply,
              NoteBreach, EnforcePause, EnforceStop, Stop, FinishStop, Pause,
              Resume, Reap, ReapClean, Configure, Close, Crash, OpenAdopts, OpenReconciles
      <3> QED
        BY <2>3, <3>1
    <2> QED
      BY <2>1, <2>2, <2>4
  <1> QED
    BY <1>1, <1>2, TypeCorrect, PTL DEF Spec

\* "at most one breach per (dimension, scope) per Run and action": through
\* relaunches, adoptions, changes of the settings and failing reads no breach
\* is recorded twice, because a latch is written with each breach and read
\* before the next.
THEOREM BreachOnce == Spec => []OncePerRun
  <1>1. LatchInv => OncePerRun
    BY DEF LatchInv
  <1> QED
    BY <1>1, BreachLatched, PTL

-----------------------------------------------------------------------------
(* A crossing is recorded *)

\* A dimension at one of its ceilings is reported as reached, in a scope that
\* is at its ceiling.
LEMMA EvaluateReached ==
  ASSUME NEW c \in Setting, NEW sums \in Sums, NEW d \in Dimensions
  PROVE  LET e == evaluate(c.limit[d], sums, d) IN
         /\ e # Within => e \in Scopes /\ Reached(c.limit[d][e], sums[e][d])
         /\ \A s \in Scopes : Reached(c.limit[d][s], sums[s][d]) => e # Within
  BY DEF evaluate

\* What is due and not latched is among what fires.
LEMMA DecideFires ==
  ASSUME TypeOK, NEW c \in Setting, NEW sums, NEW latched, NEW d \in Dimensions,
         Armed(c, d), evaluate(c.limit[d], sums, d) # Within,
         [dimension |-> d, scope |-> evaluate(c.limit[d], sums, d)] \notin latched
  PROVE  [run |-> run, dimension |-> d, scope |-> evaluate(c.limit[d], sums, d),
          action |-> c.action[d]] \in Members(decide(c, sums, latched))
  <1> DEFINE b == [run |-> run, dimension |-> d,
                   scope |-> evaluate(c.limit[d], sums, d), action |-> c.action[d]]
             t == Fires(c, sums, latched, "tokens")
             e == Fires(c, sums, latched, "dollars")
  <1>1. Fires(c, sums, latched, d) = <<b>>
    BY DEF Fires
  <1>2. b \in Members(Fires(c, sums, latched, d))
    <2> HIDE DEF b
    <2>1. Members(<<b>>) = {b}
      BY DEF Members
    <2> QED
      BY <1>1, <2>1
  <1>3. t \in Seq(Breach) /\ e \in Seq(Breach)
    <2>1. ASSUME NEW x \in Dimensions
          PROVE  Fires(c, sums, latched, x) \in Seq(Breach)
      <3>1. CASE Fires(c, sums, latched, x) = <<>>
        BY <3>1
      <3>2. CASE Fires(c, sums, latched, x) # <<>>
        <4>1. PICK y \in Breach : Fires(c, sums, latched, x) = <<y>>
          BY <3>2, FiresShape DEF TypeOK
        <4> QED
          BY <4>1, Singleton
      <3> QED
        BY <3>1, <3>2
    <2> QED
      BY <2>1
  <1>4. Members(decide(c, sums, latched)) = Members(t) \cup Members(e)
    BY <1>3, MembersConcat DEF decide
  <1> QED
    BY <1>2, <1>4

(* A new Run leaves the totals of the instance. *)
LEMMA OpensRunSums ==
  ASSUME TypeOK, NEW read, OpensRun(read)
  PROVE  total'["cumulative"] = total["cumulative"]
  BY DEF OpensRun, NewSums, TypeOK

(* When every read is answered, the totals read are the totals. *)
LEMMA NothingLost ==
  ASSUME NEW sums \in Sums
  PROVE  ReadTotals(sums, {}) = sums
  BY DEF ReadTotals, Sums

\* A usage event whose commit could read its settings and totals leaves no
\* dimension at a ceiling without a breach of this Run under the configured
\* action: a latch never hides a crossing that was not recorded.
THEOREM CrossingRecorded == Spec => CrossingIsRecorded
  <1> DEFINE Crossing ==
        total["cumulative"] # total'["cumulative"] /\ faults' = faults =>
          \A d \in Dimensions, s \in Scopes :
            Armed(config, d) /\ AtCeiling(d, s)' =>
              \E b \in Members(breaches') :
                /\ b.run = run /\ b.dimension = d /\ b.action = config.action[d]
                /\ AtCeiling(d, b.scope)'
  <1>1. ASSUME TypeOK, TypeOK', LatchInv, [Next]_vars PROVE Crossing
    <2> SUFFICES ASSUME total["cumulative"] # total'["cumulative"], faults' = faults,
                        NEW d \in Dimensions, NEW s \in Scopes,
                        Armed(config, d), AtCeiling(d, s)'
                 PROVE  \E b \in Members(breaches') :
                          /\ b.run = run /\ b.dimension = d
                          /\ b.action = config.action[d] /\ AtCeiling(d, b.scope)'
      OBVIOUS
    <2>1. PICK n \in Sizes : Usage(n)
      <3>1. CASE UNCHANGED total
        BY <3>1
      <3>2. CASE Start \/ Relaunch
        <4>1. UNCHANGED total \/ \E read \in BOOLEAN : OpensRun(read)
          BY <3>2 DEF Start, Relaunch
        <4> QED
          BY <1>1, <3>1, <4>1, OpensRunSums
      <3> QED
        BY <1>1, <3>1, <3>2 DEF Next, vars, ledger, RelaunchRejected, SkipFenced,
             EnforcementFails, Reapply, EnforceFenced, EnforceAdopted, EnforceBudget,
             NoteBreach, EnforcePause, EnforceStop, Stop, FinishStop, Pause,
             Resume, Reap, ReapClean, Configure, Close, Crash, OpenAdopts, OpenReconciles
    <2>2. /\ config' = config
          /\ CommitBreaches(decide(config, total', Latched(config)), todo)
      <3>1. PICK c \in {config, Unconfigured}, lost \in RollupLosses :
              LET sums == [x \in Scopes |-> Counted(total[x], n, c.rate)] IN
                /\ Reads(c, lost) /\ total' = sums
                /\ CommitBreaches(decide(c, ReadTotals(sums, lost), Latched(c)), todo)
        BY <2>1 DEF Usage
      <3>2. c = config /\ lost = {}
        BY <1>1, <3>1 DEF Reads, Attempt, TypeOK
      <3>3. ReadTotals(total', {}) = total'
        BY <1>1, NothingLost DEF TypeOK, Sums
      <3> QED
        BY <2>1, <3>1, <3>2, <3>3 DEF Usage
    <2> DEFINE fired == decide(config, total', Latched(config))
    <2>3. config \in Setting /\ total' \in Sums
      BY <1>1, SettingTypes DEF TypeOK, Sums
    <2>4. Reached(config.limit[d][s], total'[s][d])
      BY <1>1, <2>2, <2>3 DEF AtCeiling, Reached, Setting, Sums
    <2>5. PICK e \in Scopes : /\ e = evaluate(config.limit[d], total', d)
                              /\ e # Within /\ Reached(config.limit[d][e], total'[e][d])
      BY <2>3, <2>4, EvaluateReached
    <2>6. AtCeiling(d, e)'
      BY <2>2, <2>3, <2>5 DEF AtCeiling, Reached, Setting, Sums
    <2>7. Members(breaches') = Members(breaches) \cup Members(fired)
      <3>1. fired \in Seq(Breach) /\ breaches \in Seq(Breach)
        BY <1>1, <2>3, DecideShape DEF TypeOK
      <3> QED
        BY <2>2, <3>1, MembersConcat DEF CommitBreaches
    <2>8. CASE [dimension |-> d, scope |-> e] \notin Latched(config)
      <3>1. [run |-> run, dimension |-> d, scope |-> e, action |-> config.action[d]]
              \in Members(fired)
        BY <1>1, <2>3, <2>5, <2>8, DecideFires
      <3> QED
        BY <2>6, <2>7, <3>1
    <2>9. CASE [dimension |-> d, scope |-> e] \in Latched(config)
      <3>1. PICK l \in latches : /\ l.run = run /\ l.action = config.action[l.dimension]
                                 /\ KeyOf(l) = [dimension |-> d, scope |-> e]
        BY <2>9 DEF Latched
      <3>2. l \in Members(breaches') /\ l.dimension = d /\ l.scope = e
        BY <1>1, <2>7, <3>1 DEF LatchInv, KeyOf
      <3> QED
        BY <2>6, <3>1, <3>2
    <2> QED
      BY <2>8, <2>9
  <1>2. TypeOK /\ LatchInv /\ TypeOK' /\ [Next]_vars => [Crossing]_vars
    BY <1>1
  <1> QED
    BY <1>2, TypeCorrect, BreachLatched, PTL DEF Spec, CrossingIsRecorded

-----------------------------------------------------------------------------
(* The fence survives relaunches and adoptions *)

\* A dimension is at a ceiling whose action is block.
BlockReached(sums) ==
  \E d \in Dimensions :
    /\ Armed(config, d) /\ config.action[d] = "block"
    /\ evaluate(config.limit[d], sums, d) # Within

\* Why a listener of a blocked Run is born fenced: a relaunch finds the ceiling
\* still reached, an adoption finds the breach.
FenceInv ==
  faults \subseteq {"crash"} /\ blocked =>
    /\ ResumedReasons(config) # {}
    /\ BlockReached(total)
    /\ listener => fence # {}

\* An evaluation that could read everything, over totals that only grow.
LEMMA CommitFence ==
  ASSUME TypeOK, FenceInv, total' \in Sums, config' = config, run' = run,
         listener' = listener, faults \subseteq {"crash"},
         \A s \in Scopes, d \in Dimensions : total[s][d] <= total'[s][d],
         NEW rest, CommitBreaches(decide(config, total', Latched(config)), rest)
  PROVE  FenceInv'
  <1> SUFFICES ASSUME blocked'
               PROVE  /\ ResumedReasons(config)' # {} /\ BlockReached(total)'
                      /\ listener' => fence' # {}
    BY DEF FenceInv
  <1> DEFINE fired == decide(config, total', Latched(config))
  <1>1. config \in Setting
    BY SettingTypes DEF TypeOK
  <1>2. /\ fired \in Seq(Breach)
        /\ \A i \in DOMAIN fired :
             /\ fired[i].run = run
             /\ fired[i].action = config.action[fired[i].dimension]
             /\ Armed(config, fired[i].dimension)
             /\ evaluate(config.limit[fired[i].dimension], total', fired[i].dimension) # Within
    BY <1>1, DecideShape DEF TypeOK
  <1>3. /\ breaches' = breaches \o fired
        /\ fence' = IF listener THEN fence \cup Blocks(fired) ELSE fence
        /\ blocked' = (blocked \/ Blocks(fired) # {})
    BY DEF CommitBreaches
  <1> HIDE DEF fired
  <1>4. Members(breaches') = Members(breaches) \cup Members(fired)
    BY <1>2, <1>3, MembersConcat DEF TypeOK
  <1>5. CASE blocked
    <2>1. ResumedReasons(config) # {} /\ BlockReached(total) /\ (listener => fence # {})
      BY <1>5 DEF FenceInv
    <2>2. ResumedReasons(config)' # {}
      BY <1>4, <2>1 DEF ResumedReasons
    <2>3. PICK d \in Dimensions : /\ Armed(config, d) /\ config.action[d] = "block"
                                  /\ evaluate(config.limit[d], total, d) # Within
      BY <2>1 DEF BlockReached
    <2>4. total \in Sums
      BY DEF TypeOK, Sums
    <2>5. PICK s \in Scopes : Reached(config.limit[d][s], total[s][d])
      BY <1>1, <2>3, <2>4, EvaluateReached
    <2>6. Reached(config.limit[d][s], total'[s][d])
      <3>1. total[s][d] <= total'[s][d] /\ total[s][d] \in Nat /\ total'[s][d] \in Nat
        BY <2>4 DEF Sums
      <3>2. config.limit[d][s] \in Nat \cup {Unset}
        BY <1>1 DEF Setting
      <3> QED
        BY <2>5, <3>1, <3>2 DEF Reached
    <2>7. evaluate(config.limit[d], total', d) # Within
      BY <1>1, <2>6, EvaluateReached
    <2>8. BlockReached(total)'
      BY <2>3, <2>7 DEF BlockReached, Armed, evaluate, Reached
    <2> QED
      BY <1>3, <2>1, <2>2, <2>8
  <1>6. CASE ~blocked
    <2>1. Blocks(fired) # {}
      BY <1>3, <1>6
    <2>2. PICK b \in Members(fired) : b.action = "block"
      BY <2>1 DEF Blocks
    <2>3. PICK i \in DOMAIN fired : b = fired[i]
      BY <2>2 DEF Members
    <2>4. b \in Breach
      BY <1>2, <2>3
    <2>8. b.dimension \in Dimensions
      BY <2>4 DEF Breach
    <2>5. /\ b.run = run /\ config.action[b.dimension] = "block"
          /\ Armed(config, b.dimension)
          /\ evaluate(config.limit[b.dimension], total', b.dimension) # Within
      BY <1>2, <2>2, <2>3
    <2>6. ResumedReasons(config)' # {}
      BY <1>4, <2>2, <2>5 DEF ResumedReasons
    <2>7. BlockReached(total)'
      BY <2>8, <2>5 DEF BlockReached, Armed, evaluate, Reached
    <2> QED
      BY <1>3, <2>1, <2>6, <2>7
  <1> QED
    BY <1>5, <1>6

\* With every read answered, an evaluation sees the settings and the totals.
LEMMA ReadsAll ==
  ASSUME TypeOK, NEW c, NEW lost, Reads(c, lost), faults' \subseteq {"crash"}
  PROVE  c = config /\ lost = {} /\ faults' = faults
  BY DEF Reads, Attempt

(* A usage event lowers no total. *)
LEMMA UsageGrows ==
  ASSUME TypeOK, NEW n \in Sizes, NEW c \in Setting,
         total' = [s \in Scopes |-> Counted(total[s], n, c.rate)]
  PROVE  /\ total' \in Sums
         /\ \A s \in Scopes, d \in Dimensions : total[s][d] <= total'[s][d]
  <1>1. n \in Nat /\ c.rate \in Nat
    BY SizesAssumption DEF Setting
  <1>2. \A s \in Scopes : /\ total'[s] = Counted(total[s], n, c.rate)
                          /\ total[s] \in [Dimensions -> Nat]
    BY DEF TypeOK
  <1>3. \A s \in Scopes : /\ total'[s] \in [Dimensions -> Nat]
                          /\ \A d \in Dimensions : total[s][d] <= total'[s][d]
    BY <1>1, <1>2, CountedTypes
  <1> QED
    BY <1>3 DEF Sums

(* A usage event fences the listener when a block fires, and never lifts a   *)
(* fence.                                                                    *)
LEMMA UsageFence ==
  ASSUME TypeOK, FenceInv, NEW n \in Sizes, Usage(n)
  PROVE  FenceInv'
  <1> SUFFICES ASSUME faults' \subseteq {"crash"} PROVE FenceInv'
    BY DEF FenceInv
  <1>1. PICK c \in {config, Unconfigured}, lost \in RollupLosses :
          LET sums == [s \in Scopes |-> Counted(total[s], n, c.rate)] IN
            /\ Reads(c, lost) /\ total' = sums
            /\ CommitBreaches(decide(c, ReadTotals(sums, lost), Latched(c)), todo)
    BY DEF Usage
  <1>2. c = config /\ lost = {} /\ faults' = faults
    BY <1>1, ReadsAll
  <1>3. /\ total' \in Sums
        /\ \A s \in Scopes, d \in Dimensions : total[s][d] <= total'[s][d]
    BY <1>1, <1>2, UsageGrows, SettingTypes DEF TypeOK
  <1>4. CommitBreaches(decide(config, total', Latched(config)), todo)
    BY <1>1, <1>2, <1>3, NothingLost
  <1> QED
    BY <1>2, <1>3, <1>4, CommitFence DEF Usage

(* An evaluation fences the listener when a block fires. *)
LEMMA EnforceFence ==
  ASSUME TypeOK, FenceInv, EnforceBudget
  PROVE  FenceInv'
  <1> SUFFICES ASSUME faults' \subseteq {"crash"} PROVE FenceInv'
    BY DEF FenceInv
  <1>1. PICK c \in {config, Unconfigured}, lost \in RollupLosses :
          /\ Reads(c, lost)
          /\ CommitBreaches(decide(c, ReadTotals(total, lost), Latched(c)), Tail(todo))
    BY DEF EnforceBudget
  <1>2. c = config /\ lost = {} /\ faults' = faults
    BY <1>1, ReadsAll
  <1>3. total' = total /\ total \in Sums
    BY DEF EnforceBudget, TypeOK, Sums
  <1>4. \A s \in Scopes, d \in Dimensions : total[s][d] <= total'[s][d]
    BY <1>3 DEF Sums
  <1>5. CommitBreaches(decide(config, total', Latched(config)), Tail(todo))
    BY <1>1, <1>2, <1>3, NothingLost
  <1> QED
    BY <1>2, <1>3, <1>4, <1>5, CommitFence DEF EnforceBudget

(* A relaunch of the Run binds a listener that is born with its fence; a new *)
(* Run has no block behind it.                                               *)
LEMMA RelaunchFence ==
  ASSUME TypeOK, FenceInv, Relaunch
  PROVE  FenceInv'
  <1> SUFFICES ASSUME faults' \subseteq {"crash"}, blocked' PROVE FenceInv'
    BY DEF FenceInv
  <1>0. /\ Launched(total, <<"fenced", "reapply">>, TRUE)
        /\ UNCHANGED <<run, total, history>>
    BY DEF Relaunch, OpensRun
  <1>1. PICK c \in {config, Unconfigured}, lost \in SUBSET (Dimensions \X Scopes) :
          /\ Reads(c, lost)
          /\ fence' = IF listener' THEN RunStartFence(c, ReadTotals(total, lost)) ELSE {}
    BY <1>0 DEF Launched
  <1>2. c = config /\ lost = {} /\ faults' = faults
    BY <1>1, ReadsAll
  <1>3. UNCHANGED <<config, run, total, latches, breaches, blocked>>
    BY <1>0 DEF Relaunch, history
  <1>4. ResumedReasons(config) # {} /\ BlockReached(total)
    BY <1>2, <1>3 DEF FenceInv
  <1>5. ReadTotals(total, lost) = total
    BY <1>2, NothingLost DEF TypeOK, Sums
  <1>6. RunStartFence(config, total) # {}
    <2>1. PICK d \in Dimensions : /\ Armed(config, d) /\ config.action[d] = "block"
                                  /\ evaluate(config.limit[d], total, d) # Within
      BY <1>4 DEF BlockReached
    <2>2. [run |-> run, dimension |-> d, scope |-> evaluate(config.limit[d], total, d),
           action |-> config.action[d]] \in Members(decide(config, total, {}))
      BY <2>1, DecideFires, SettingTypes DEF TypeOK
    <2> QED
      BY <2>1, <2>2 DEF RunStartFence, Blocks
  <1>7. ResumedReasons(config)' # {} /\ BlockReached(total)'
    BY <1>3, <1>4 DEF ResumedReasons, Members, BlockReached, Armed, evaluate, Reached
  <1> QED
    BY <1>1, <1>2, <1>5, <1>6, <1>7 DEF FenceInv

(* An adoption reads the recorded block and binds a fenced listener. *)
LEMMA AdoptFence ==
  ASSUME TypeOK, FenceInv, OpenAdopts
  PROVE  FenceInv'
  <1> SUFFICES ASSUME faults' \subseteq {"crash"}, blocked' PROVE FenceInv'
    BY DEF FenceInv
  <1>1. faults' = faults /\ fence' = IF listener' THEN ResumedReasons(config) ELSE {}
    BY DEF OpenAdopts, Attempt
  <1>2. UNCHANGED <<config, run, total, latches, breaches, blocked>>
    BY DEF OpenAdopts, ledger, history
  <1>3. ResumedReasons(config) # {} /\ BlockReached(total)
    BY <1>1, <1>2 DEF FenceInv
  <1>4. ResumedReasons(config)' # {} /\ BlockReached(total)'
    BY <1>2, <1>3 DEF ResumedReasons, Members, BlockReached, Armed, evaluate, Reached
  <1> QED
    BY <1>1, <1>3, <1>4 DEF FenceInv

\* The steps that leave the Run, its settings and its records alone, and either
\* keep the listener as it is or unbind it.
LEMMA KeptFence ==
  ASSUME FenceInv, faults \subseteq faults',
         UNCHANGED <<config, run, total, latches, breaches, blocked>>,
         UNCHANGED <<listener, fence>> \/ ~listener'
  PROVE  FenceInv'
  <1> SUFFICES ASSUME faults' \subseteq {"crash"}, blocked' PROVE FenceInv'
    BY DEF FenceInv
  <1>1. ResumedReasons(config) # {} /\ BlockReached(total) /\ (listener => fence # {})
    BY DEF FenceInv
  <1>2. ResumedReasons(config)' # {} /\ BlockReached(total)'
    BY <1>1 DEF ResumedReasons, Members, BlockReached, Armed, evaluate, Reached
  <1> QED
    BY <1>1, <1>2 DEF FenceInv

\* "no request can slip through between bind and raise": once a block has fired
\* in a Run, and as long as the settings stay, every listener of that Run is
\* fenced from the moment it is bound, at a relaunch and at an adoption.
THEOREM FenceHolds == Spec => []FenceSurvives
  <1>1. Init => FenceInv
    BY DEF Init, FenceInv
  <1>2. TypeOK /\ FenceInv /\ [Next]_vars => FenceInv'
    <2> SUFFICES ASSUME TypeOK, FenceInv, [Next]_vars PROVE FenceInv'
      OBVIOUS
    <2>1. CASE \E n \in Sizes : Usage(n)
      BY <2>1, UsageFence
    <2>2. CASE EnforceFenced \/ EnforceAdopted
      BY <2>2, EnforceFence DEF EnforceFenced, EnforceAdopted
    <2>3. CASE Start \/ \E c \in Settings : Configure(c)
      BY <2>3 DEF Start, OpensRun, Configure, FenceInv
    <2>4. CASE Relaunch
      BY <2>4, RelaunchFence
    <2>5. CASE OpenAdopts
      BY <2>5, AdoptFence
    <2>6. CASE \/ UNCHANGED vars \/ SkipFenced \/ EnforcementFails \/ Reapply \/ NoteBreach
               \/ EnforcePause \/ EnforceStop \/ Stop \/ Pause \/ Resume
               \/ OpenReconciles \/ RelaunchRejected
      <3>1. /\ UNCHANGED <<config, run, total, latches, breaches, blocked>>
            /\ UNCHANGED <<listener, fence>> /\ faults \subseteq faults'
        BY <2>6 DEF vars, ledger, engine, history, SkipFenced, EnforcementFails, Reapply, Attempt,
             NoteBreach, EnforcePause, EnforceStop, Stop, Pause, Resume, OpenReconciles,
             RelaunchRejected
      <3> QED
        BY <3>1, KeptFence
    <2>7. CASE \/ FinishStop \/ ReapClean \/ \E again \in BOOLEAN : Reap(again)
               \/ Close \/ Crash
      <3>1. /\ UNCHANGED <<config, run, total, latches, breaches, blocked>>
            /\ ~listener' /\ faults \subseteq faults'
        BY <2>7 DEF FinishStop, Reap, ReapClean, Close, Crash, Gone, Unsupervised, Attempt,
             ledger, history
      <3> QED
        BY <3>1, KeptFence
    <2> QED
      BY <2>1, <2>2, <2>3, <2>4, <2>5, <2>6, <2>7 DEF Next
  <1>3. FenceInv => FenceSurvives
    BY DEF FenceInv, FenceSurvives
  <1> QED
    BY <1>1, <1>2, <1>3, TypeCorrect, PTL DEF Spec

-----------------------------------------------------------------------------
(* A pause or stop that was taken holds *)

\* What a restart timer can do to an action that was taken while none slept:
\* the one that sleeps now was planned when the agent, paused or stopped, was
\* found gone, and finds the record that was kept for it.
TimerInv ==
  /\ hold = "enforced" =>
       \/ timers = 0
       \/ timers = 1 /\ row = "failed" /\ recorded /\ ~held /\ todo = <<>>
  /\ ~up => timers = 0
  /\ row \in {"running", "paused"} => recorded

(* A commit of breaches takes no action: what it finds enforced stays so. *)
LEMMA CommitTimer ==
  ASSUME TimerInv, NEW fired, NEW rest, CommitBreaches(fired, rest),
         UNCHANGED <<row, recorded, up, timers>>, held \/ todo # <<>>
  PROVE  TimerInv'
  <1>1. hold' = "enforced" => hold = "enforced"
    BY DEF CommitBreaches
  <1>2. hold = "enforced" => timers = 0
    BY DEF TimerInv
  <1> QED
    BY <1>1, <1>2 DEF TimerInv

(* Every timer that fires leaves none behind an action it could undo. *)
LEMMA LaunchTimer ==
  ASSUME TypeOK, TimerInv, Start \/ Relaunch
  PROVE  TimerInv'
  <1>1. recorded' = TRUE
    BY Zenon DEF Start, Relaunch, OpensRun, Launched
  <1>2. up /\ up' = up
    BY DEF Start, Relaunch, Ready
  <1>3. hold' = "enforced" => timers' = 0
    <2>1. CASE Start
      BY <2>1 DEF Start
    <2>2. CASE Relaunch
      <3>1. hold' = "enforced" => hold = "enforced"
        BY <2>2 DEF Relaunch, HeldInRun, history
      <3>2. timers > 0 /\ timers' = timers - 1 /\ timers \in Nat
        BY <2>2 DEF Relaunch, TypeOK
      <3>3. hold = "enforced" => timers = 0 \/ timers = 1
        BY DEF TimerInv
      <3> QED
        BY <3>1, <3>2, <3>3
    <2> QED
      BY <2>1, <2>2
  <1> QED
    BY <1>1, <1>2, <1>3 DEF TimerInv

(* The gate rejects no timer of an agent that failed. *)
LEMMA RejectedTimer ==
  ASSUME TypeOK, TimerInv, RelaunchRejected
  PROVE  TimerInv'
  <1>1. timers > 0 /\ timers \in Nat /\ row # "failed" /\ up
    BY DEF RelaunchRejected, Ready, TypeOK, next_state, Accepts, Target
  <1>2. hold # "enforced"
    BY <1>1 DEF TimerInv
  <1> QED
    BY <1>1, <1>2 DEF RelaunchRejected, TimerInv, ledger, history

(* An exit plans at most one relaunch of an enforced action, and keeps the   *)
(* record for it.                                                            *)
LEMMA ReapTimer ==
  ASSUME TypeOK, TimerInv, ReapClean \/ \E again \in BOOLEAN : Reap(again)
  PROVE  TimerInv'
  <1>1. /\ row \in {"running", "paused"} /\ held /\ todo = <<>> /\ up
        /\ UNCHANGED <<up, todo, hold>> /\ ~held' /\ row' \in {"failed", "stopped"}
    BY DEF Reap, ReapClean, Ready, Unsupervised, history
  <1>2. recorded /\ (hold = "enforced" => timers = 0)
    BY <1>1 DEF TimerInv
  <1>3. \/ timers' = timers
        \/ timers' = timers + 1 /\ recorded' = recorded /\ row' = "failed"
    BY DEF Reap, ReapClean
  <1>4. hold' = "enforced" =>
          \/ timers' = 0
          \/ timers' = 1 /\ row' = "failed" /\ recorded' /\ ~held' /\ todo' = <<>>
    <2>1. CASE timers' = timers
      BY <1>1, <1>2, <2>1
    <2>2. CASE timers' = timers + 1 /\ recorded' = recorded /\ row' = "failed"
      <3>1. hold' = "enforced" => timers' = 1
        BY <1>1, <1>2, <2>2
      <3>2. recorded'
        BY <1>2, <2>2, Zenon
      <3> QED
        BY <1>1, <2>2, <3>1, <3>2
    <2> QED
      BY <1>3, <2>1, <2>2
  <1> QED
    BY <1>1, <1>4 DEF TimerInv

(* An action that is taken while a timer sleeps is overhung. *)
LEMMA TaskTimer ==
  ASSUME TimerInv,
         \/ SkipFenced \/ EnforcementFails \/ NoteBreach \/ Reapply
         \/ EnforcePause \/ EnforceStop \/ FinishStop
  PROVE  TimerInv'
  <1>1. todo # <<>> /\ up /\ UNCHANGED <<up, timers>>
    BY DEF SkipFenced, EnforcementFails, NoteBreach, Reapply, EnforcePause, EnforceStop,
         FinishStop, Doing, engine
  <1>2. hold = "enforced" => timers = 0
    BY <1>1 DEF TimerInv
  <1>3. hold' = "enforced" => hold = "enforced" \/ timers = 0
    BY DEF SkipFenced, EnforcementFails, NoteBreach, Reapply, EnforcePause, EnforceStop,
         FinishStop, Taken, Refused, history
  <1>4. row' \in {"running", "paused"} => recorded'
    <2>1. CASE EnforcePause
      BY <2>1 DEF EnforcePause, TimerInv, ledger, next_state, Accepts, InvalidTransition
    <2>2. CASE EnforceStop
      BY <2>2 DEF EnforceStop, TimerInv, ledger
    <2>3. CASE FinishStop
      BY <2>3 DEF FinishStop
    <2>4. CASE SkipFenced \/ EnforcementFails \/ NoteBreach \/ Reapply
      BY <2>4 DEF SkipFenced, EnforcementFails, NoteBreach, Reapply, TimerInv, ledger
    <2> QED
      BY <2>1, <2>2, <2>3, <2>4
  <1> QED
    BY <1>1, <1>2, <1>3, <1>4 DEF TimerInv

(* Operators and new settings plan no relaunch. *)
LEMMA LifecycleTimer ==
  ASSUME TimerInv, Stop \/ Pause \/ Resume \/ \E c \in Settings : Configure(c)
  PROVE  TimerInv'
  <1>1. CASE Stop
    BY <1>1 DEF Stop, Ready, TimerInv, ledger, engine, history
  <1>2. CASE Pause
    BY <1>2 DEF Pause, Ready, TimerInv, ledger, engine, history, next_state, Accepts,
         InvalidTransition
  <1>3. CASE Resume
    BY <1>3 DEF Resume, Ready, TimerInv, ledger, engine, next_state, Accepts,
         InvalidTransition
  <1>4. CASE \E c \in Settings : Configure(c)
    BY <1>4 DEF Configure, TimerInv, ledger, engine
  <1> QED
    BY <1>1, <1>2, <1>3, <1>4

(* No timer outlives its engine. *)
LEMMA SessionTimer ==
  ASSUME TimerInv, Close \/ Crash \/ OpenAdopts \/ OpenReconciles
  PROVE  TimerInv'
  <1>1. timers' = 0
    BY DEF Close, Crash, Gone, OpenAdopts, OpenReconciles, TimerInv
  <1>2. row' \in {"running", "paused"} => recorded'
    BY DEF Close, Crash, OpenAdopts, OpenReconciles, TimerInv, ledger
  <1> QED
    BY <1>1, <1>2 DEF TimerInv

\* Once an action is taken while no timer sleeps, at most one timer can come to
\* sleep under it, and that one finds the Run in the record; no timer outlives
\* the engine that planned it, and a process that is up has its Run recorded.
THEOREM TimersKeepTheRun == Spec => []TimerInv
  <1>1. Init => TimerInv
    BY DEF Init, TimerInv
  <1>2. TypeOK /\ TimerInv /\ [Next]_vars => TimerInv'
    <2> SUFFICES ASSUME TypeOK, TimerInv, [Next]_vars PROVE TimerInv'
      OBVIOUS
    <2>1. CASE \E n \in Sizes : Usage(n)
      BY <2>1, CommitTimer DEF Usage
    <2>2. CASE EnforceFenced \/ EnforceAdopted
      BY <2>2, CommitTimer DEF EnforceFenced, EnforceAdopted, EnforceBudget, Doing
    <2>3. CASE Start \/ Relaunch \/ RelaunchRejected
      BY <2>3, LaunchTimer, RejectedTimer
    <2>4. CASE \/ SkipFenced \/ EnforcementFails \/ NoteBreach \/ Reapply
               \/ EnforcePause \/ EnforceStop \/ FinishStop
      BY <2>4, TaskTimer
    <2>5. CASE ReapClean \/ \E again \in BOOLEAN : Reap(again)
      BY <2>5, ReapTimer
    <2>6. CASE Stop \/ Pause \/ Resume \/ \E c \in Settings : Configure(c)
      BY <2>6, LifecycleTimer
    <2>7. CASE Close \/ Crash \/ OpenAdopts \/ OpenReconciles
      BY <2>7, SessionTimer
    <2>8. CASE UNCHANGED vars
      BY <2>8 DEF vars, ledger, engine, history, TimerInv
    <2> QED
      BY <2>1, <2>2, <2>3, <2>4, <2>5, <2>6, <2>7, <2>8 DEF Next
  <1> QED
    BY <1>1, <1>2, TypeCorrect, PTL DEF Spec

\* A pause or stop of this Run that the settings still ask for.
IsSpent(b) ==
  /\ b.run = run /\ b.action = config.action[b.dimension]
  /\ b.action \in {"pause", "stop"}

\* Why an enforced action is never lost: its record can be found, a relaunched
\* process is still waiting for it, a breach's pause is not an operator's, and
\* nothing is left to do while no engine is open.
HoldInv ==
  faults = {} =>
    /\ hold # "none" => \E b \in Members(breaches) : IsSpent(b)
    /\ InForce /\ row = "running" => "reapply" \in Members(todo)
    /\ InForce /\ row = "paused" => ~operator
    /\ ~up => todo = <<>>

(* An empty list of tasks has no task. *)
LEMMA NothingToDo == Members(<<>>) = {}
  BY DEF Members

(* What a commit fires is among the tasks that follow it. *)
LEMMA CommitHold ==
  ASSUME TypeOK, HoldInv, faults = {}, up, up', config' = config, run' = run,
         row' = row, operator' = operator, NEW sums, NEW rest \in Seq(Tasks),
         "reapply" \in Members(todo) => "reapply" \in Members(rest),
         CommitBreaches(decide(config, sums, Latched(config)), rest)
  PROVE  HoldInv'
  <1> DEFINE fired == decide(config, sums, Latched(config))
  <1>1. /\ fired \in Seq(Breach)
        /\ \A i \in DOMAIN fired :
             /\ fired[i].run = run
             /\ fired[i].action = config.action[fired[i].dimension]
    BY DecideShape, SettingTypes DEF TypeOK
  <1>2. /\ breaches' = breaches \o fired /\ todo' = ActionsOf(fired) \o rest
        /\ hold' = IF Acts(fired) THEN "committed" ELSE hold
    BY DEF CommitBreaches
  <1> HIDE DEF fired
  <1>3. Members(breaches') = Members(breaches) \cup Members(fired)
    BY <1>1, <1>2, MembersConcat DEF TypeOK
  <1>4. Members(todo') = Members(ActionsOf(fired)) \cup Members(rest)
    BY <1>1, <1>2, ActionsTypes, MembersConcat
  <1>5. \A b \in Members(fired) : b.run = run /\ b.action = config.action[b.dimension]
    BY <1>1 DEF Members
  <1>6. hold' # "none" => \E b \in Members(breaches') : IsSpent(b)'
    <2>1. CASE Acts(fired)
      <3>1. PICK b \in Members(fired) : b.action \in {"pause", "stop"}
        BY <2>1 DEF Acts
      <3>2. b \in Members(breaches') /\ b.run = run' /\ b.action = config'.action[b.dimension]
        BY <1>3, <1>5, <3>1
      <3> QED
        BY <3>1, <3>2 DEF IsSpent
    <2>2. CASE ~Acts(fired)
      BY <1>2, <1>3, <2>2 DEF HoldInv, IsSpent
    <2> QED
      BY <2>1, <2>2
  <1>7. InForce' => InForce
    BY <1>2 DEF InForce
  <1> QED
    BY <1>4, <1>6, <1>7 DEF HoldInv, Members

(* A usage event keeps what was enforced, or has the enforcement ahead. *)
LEMMA UsageHold ==
  ASSUME TypeOK, HoldInv, NEW n \in Sizes, Usage(n)
  PROVE  HoldInv'
  <1> SUFFICES ASSUME faults' = {} PROVE HoldInv'
    BY DEF HoldInv
  <1>1. PICK c \in {config, Unconfigured}, lost \in RollupLosses :
          LET sums == [s \in Scopes |-> Counted(total[s], n, c.rate)] IN
            /\ Reads(c, lost)
            /\ CommitBreaches(decide(c, ReadTotals(sums, lost), Latched(c)), todo)
    BY DEF Usage
  <1>2. c = config /\ faults = {}
    BY <1>1, ReadsAll
  <1>3. up /\ todo \in Seq(Tasks)
    BY DEF Usage, Ready, Doing, TypeOK
  <1> QED
    BY <1>1, <1>2, <1>3, CommitHold DEF Usage

(* The evaluation of a launch or an adoption keeps it as well. *)
LEMMA EnforceHold ==
  ASSUME TypeOK, HoldInv, EnforceFenced \/ EnforceAdopted
  PROVE  HoldInv'
  <1> SUFFICES ASSUME faults' = {} PROVE HoldInv'
    BY DEF HoldInv
  <1>1. EnforceBudget
    BY DEF EnforceFenced, EnforceAdopted
  <1>2. PICK c \in {config, Unconfigured}, lost \in RollupLosses :
          /\ Reads(c, lost)
          /\ CommitBreaches(decide(c, ReadTotals(total, lost), Latched(c)), Tail(todo))
    BY <1>1 DEF EnforceBudget
  <1>3. c = config /\ faults = {}
    BY <1>2, ReadsAll
  <1>4. up /\ todo # <<>> /\ Head(todo) # "reapply"
    BY DEF EnforceFenced, EnforceAdopted, Doing
  <1>5. /\ Tail(todo) \in Seq(Tasks)
        /\ "reapply" \in Members(todo) => "reapply" \in Members(Tail(todo))
    BY <1>4, MembersTail DEF TypeOK
  <1> QED
    BY <1>1, <1>2, <1>3, <1>4, <1>5, CommitHold DEF EnforceBudget

\* The steps that leave the records and the settings alone and do not take the
\* reapplication off the list.
LEMMA KeptHold ==
  ASSUME HoldInv, UNCHANGED <<config, run, breaches>>, faults \subseteq faults',
         hold' # "none" => hold # "none",
         InForce' /\ row' = "running" => "reapply" \in Members(todo)',
         InForce' /\ row' = "paused" => ~operator',
         ~up' => todo' = <<>>
  PROVE  HoldInv'
  <1> SUFFICES ASSUME faults' = {} PROVE HoldInv'
    BY DEF HoldInv
  <1>1. faults = {}
    OBVIOUS
  <1>2. Members(breaches') = Members(breaches) /\ \A b : IsSpent(b)' <=> IsSpent(b)
    BY DEF IsSpent
  <1> QED
    BY <1>1, <1>2 DEF HoldInv

(* A pause or stop that a breach asked for takes effect. *)
LEMMA TaskHold ==
  ASSUME TypeOK, HoldInv,
         \/ SkipFenced \/ EnforcementFails \/ NoteBreach
         \/ EnforcePause \/ EnforceStop \/ FinishStop
  PROVE  HoldInv'
  <1> SUFFICES ASSUME faults' = {} PROVE HoldInv'
    BY DEF HoldInv
  <1>1. /\ UNCHANGED <<config, run, breaches, faults, up>>
        /\ up /\ todo # <<>> /\ Head(todo) # "reapply"
    BY DEF SkipFenced, EnforcementFails, NoteBreach, EnforcePause, EnforceStop,
         FinishStop, Attempt, Doing, ledger, engine
  <1>2. "reapply" \in Members(todo) => "reapply" \in Members(Tail(todo))
    BY <1>1, MembersTail DEF TypeOK
  <1>3. HoldInv /\ faults = {}
    BY <1>1
  <1>4. CASE SkipFenced \/ EnforcementFails \/ NoteBreach
    <2>1. UNCHANGED <<row, operator, hold>> /\ todo' = Tail(todo)
      BY <1>4 DEF SkipFenced, EnforcementFails, NoteBreach, history
    <2>2. Members(todo)' = Members(Tail(todo))
      BY <2>1 DEF Members
    <2> QED
      BY <1>1, <1>2, <1>3, <2>1, <2>2, KeptHold DEF HoldInv, InForce
  <1>5. CASE EnforcePause
    <2>1. /\ todo' = Tail(todo) /\ hold' \in {hold, Taken, Refused}
          /\ \/ row' = "paused" /\ operator' = FALSE
             \/ hold' = Refused /\ UNCHANGED <<row, operator>>
      BY <1>5 DEF EnforcePause
    <2>2. Members(todo)' = Members(Tail(todo))
      BY <2>1 DEF Members
    <2> QED
      BY <1>1, <1>2, <1>3, <2>1, <2>2, KeptHold DEF HoldInv, InForce, Taken, Refused
  <1>6. CASE EnforceStop
    <2>1. /\ operator' = operator
          /\ \/ row' = "stopping" /\ hold' = Taken
             \/ hold' = Refused /\ row' = row /\ todo' = Tail(todo)
      BY <1>6 DEF EnforceStop
    <2>2. todo' = Tail(todo) => Members(todo)' = Members(Tail(todo))
      BY DEF Members
    <2> QED
      BY <1>1, <1>2, <1>3, <2>1, <2>2, KeptHold DEF HoldInv, InForce, Taken, Refused
  <1>7. CASE FinishStop
    <2>1. row' = "stopped" /\ hold' = hold
      BY <1>7 DEF FinishStop, history
    <2> QED
      BY <1>1, <1>3, <2>1, KeptHold
  <1> QED
    BY <1>4, <1>5, <1>6, <1>7

(* The re-application restores what the relaunch lifted. *)
LEMMA ReapplyHold ==
  ASSUME TypeOK, HoldInv, Reapply
  PROVE  HoldInv'
  <1> SUFFICES ASSUME faults' = {} PROVE HoldInv'
    BY DEF HoldInv
  <1>1. UNCHANGED <<config, run, breaches, up, row, operator>> /\ up
    BY DEF Reapply, Doing, ledger, engine
  <1>2. faults = {} /\ UNCHANGED faults
    BY DEF Reapply, Attempt
  <1>3. Spent(config) # {} <=> \E b \in Members(breaches) : IsSpent(b)
    BY DEF Spent, Members, IsSpent
  <1>4. ~InForce' /\ (hold' # "none" => Spent(config) # {})
    <2>1. CASE \E i \in Spent(config) : hold' = "committed"
      BY <2>1 DEF InForce
    <2>2. CASE Spent(config) = {} /\ hold' = hold
      BY <1>2, <1>3, <2>2 DEF HoldInv, InForce, TypeOK
    <2> QED
      BY <1>2, <2>1, <2>2 DEF Reapply, Attempt
  <1>5. Members(breaches') = Members(breaches) /\ \A b : IsSpent(b)' <=> IsSpent(b)
    BY <1>1 DEF IsSpent
  <1> QED
    BY <1>1, <1>3, <1>4, <1>5 DEF HoldInv

(* A launch that keeps the Run has its re-application ahead; a timer that    *)
(* opens another finds no action that was taken before it slept.             *)
LEMMA LaunchHold ==
  ASSUME TypeOK, HoldInv, TimerInv, Start \/ Relaunch
  PROVE  HoldInv'
  <1> SUFFICES ASSUME faults' = {} PROVE HoldInv'
    BY DEF HoldInv
  <1>1. CASE Start
    BY <1>1 DEF Start, Ready, HoldInv, InForce
  <1>2. CASE /\ Relaunch /\ Launched(total, <<"fenced", "reapply">>, TRUE)
             /\ UNCHANGED <<run, total, history>>
    <2>1. /\ UNCHANGED <<config, run, breaches, hold, up>> /\ up
          /\ row' = "running" /\ todo' = <<"fenced", "reapply">>
          /\ faults \subseteq faults'
      BY <1>2 DEF Relaunch, Launched, Reads, Attempt, Ready, history
    <2>2. "reapply" \in Members(todo)'
      BY <2>1 DEF Members
    <2> QED
      BY <2>1, <2>2, KeptHold
  <1>3. CASE Relaunch /\ OpensRun(~recorded) /\ hold' = HeldInRun
    <2>1. ~recorded
      BY <1>3 DEF OpensRun, Launched, Attempt
    <2>2. timers \in Nat /\ timers > 0 /\ up /\ up' = up
      BY <1>3 DEF Relaunch, Ready, TypeOK
    <2>3. hold # "enforced"
      BY <2>1, <2>2 DEF TimerInv
    <2>4. hold' = "none"
      BY <1>3, <2>3 DEF HeldInRun
    <2> QED
      BY <2>2, <2>4 DEF HoldInv, InForce
  <1> QED
    BY <1>1, <1>2, <1>3 DEF Relaunch

(* Operators, exits and new settings do not undo an enforced action          *)
(* unnoticed.                                                                *)
LEMMA LifecycleHold ==
  ASSUME TypeOK, HoldInv,
         \/ Stop \/ Pause \/ Resume \/ ReapClean \/ \E again \in BOOLEAN : Reap(again)
         \/ RelaunchRejected \/ \E c \in Settings : Configure(c)
  PROVE  HoldInv'
  <1>1. CASE Resume \/ \E c \in Settings : Configure(c)
    BY <1>1 DEF Resume, Configure, HoldInv, InForce, engine
  <1>2. CASE Stop \/ ReapClean \/ \E again \in BOOLEAN : Reap(again)
    <2>1. /\ UNCHANGED <<config, run, breaches, hold, up, faults>> /\ up
          /\ row' \in {"stopping", "stopped", "failed"}
      BY <1>2 DEF Stop, Reap, ReapClean, Ready, ledger, engine, history
    <2> QED
      BY <2>1, KeptHold DEF InForce
  <1>3. CASE Pause
    <2>1. /\ UNCHANGED <<config, run, breaches, hold, up, faults, todo>> /\ up
          /\ row = "running" /\ row' = "paused" /\ todo = <<>>
      BY <1>3 DEF Pause, Ready, ledger, engine, history, next_state, Accepts, Target, InvalidTransition
    <2>2. faults = {} => ~InForce
      BY <2>1, NothingToDo DEF HoldInv
    <2>3. CASE faults = {}
      BY <2>1, <2>2, <2>3, KeptHold DEF InForce
    <2>4. CASE faults # {}
      BY <2>1, <2>4 DEF HoldInv
    <2> QED
      BY <2>3, <2>4
  <1>4. CASE RelaunchRejected
    BY <1>4, KeptHold DEF RelaunchRejected, Ready, HoldInv, InForce, ledger, history
  <1> QED
    BY <1>1, <1>2, <1>3, <1>4

(* Nor does an engine that closes and is opened again. *)
LEMMA SessionHold ==
  ASSUME TypeOK, HoldInv, Close \/ Crash \/ OpenAdopts \/ OpenReconciles
  PROVE  HoldInv'
  <1> SUFFICES ASSUME faults' = {} PROVE HoldInv'
    BY DEF HoldInv
  <1>1. /\ UNCHANGED <<config, run, breaches, hold, faults, operator>>
        /\ todo = <<>> /\ faults = {}
    BY DEF Close, Crash, OpenAdopts, OpenReconciles, Attempt, Ready, HoldInv,
         ledger, history
  <1>2. InForce => row # "running"
    BY <1>1, NothingToDo DEF HoldInv
  <1>3. InForce /\ row = "paused" => ~operator
    BY <1>1 DEF HoldInv
  <1>4. /\ InForce' => row' # "running" /\ InForce
        /\ row' = "paused" => row = "paused"
        /\ ~up' => todo' = <<>>
    BY <1>1, <1>2, <1>3 DEF Close, Crash, OpenAdopts, OpenReconciles, Gone, InForce
  <1> QED
    BY <1>1, <1>3, <1>4, KeptHold

\* A pause or stop that was taken for a breach while no restart timer slept
\* stays in force until an operator resumes or starts the agent or changes the
\* settings: whatever timer fires later finds the Run in the record and takes
\* the action again before its operation ends, and neither an exit, a stop, a
\* session's end nor an adoption undoes it.  One taken while an earlier timer
\* slept stays in force for its Run: that timer may open another one.
THEOREM BreachStaysEnforced == Spec => []BreachHolds
  <1>1. Init => HoldInv
    BY DEF Init, HoldInv
  <1>2. TypeOK /\ TimerInv /\ HoldInv /\ [Next]_vars => HoldInv'
    <2> SUFFICES ASSUME TypeOK, TimerInv, HoldInv, [Next]_vars PROVE HoldInv'
      OBVIOUS
    <2>1. CASE \E n \in Sizes : Usage(n)
      BY <2>1, UsageHold
    <2>2. CASE EnforceFenced \/ EnforceAdopted
      BY <2>2, EnforceHold
    <2>3. CASE Start \/ Relaunch
      BY <2>3, LaunchHold
    <2>4. CASE Reapply
      BY <2>4, ReapplyHold
    <2>5. CASE \/ SkipFenced \/ EnforcementFails \/ NoteBreach
               \/ EnforcePause \/ EnforceStop \/ FinishStop
      BY <2>5, TaskHold
    <2>6. CASE \/ Stop \/ Pause \/ Resume \/ ReapClean \/ \E again \in BOOLEAN : Reap(again)
               \/ RelaunchRejected \/ \E c \in Settings : Configure(c)
      BY <2>6, LifecycleHold
    <2>7. CASE Close \/ Crash \/ OpenAdopts \/ OpenReconciles
      BY <2>7, SessionHold
    <2>8. CASE UNCHANGED vars
      BY <2>8 DEF vars, fixed, ledger, engine, history, HoldInv, InForce, IsSpent, Members
    <2> QED
      BY <2>1, <2>2, <2>3, <2>4, <2>5, <2>6, <2>7, <2>8 DEF Next
  <1>3. HoldInv => BreachHolds
    BY NothingToDo DEF HoldInv, BreachHolds, Ready
  <1> QED
    BY <1>1, <1>2, <1>3, TypeCorrect, TimersKeepTheRun, PTL DEF Spec
=============================================================================
