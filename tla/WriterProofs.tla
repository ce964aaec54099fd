---------------------------- MODULE WriterProofs ----------------------------
(***************************************************************************)
(* Proofs about Writer, for any jobs, batch bound, failures and            *)
(* interleavings of callers with the thread: the types, that every answer  *)
(* is true and stays true, and that hooks follow commits.                  *)
(***************************************************************************)
EXTENDS Writer, SequenceTheorems, TLAPS

Ran == [job : Jobs, ok : BOOLEAN]

\* Only a taken job has left a trace: a pending one can still be given up, and
\* an abandoned one never runs.
Traces ==
  /\ \A j \in Jobs : j \in trans \/ j \in base => job[j] = "taken"
  /\ \A i \in 1 .. Len(ran) : job[ran[i].job] = "taken"
  /\ \A j \in Jobs : job[j] = "pending" => answer[j] = "none"

\* A job that ran waits for its answer, and stands once in the batch.
Waiting ==
  /\ \A i \in 1 .. Len(ran) : answer[ran[i].job] = "none"
  /\ \A i, k \in 1 .. Len(ran) : ran[i].job = ran[k].job => i = k
  /\ stage \notin {"running", "acking", "undoing"} => ran = <<>>

\* What the transaction holds, and what became of it.
Transaction ==
  /\ stage # "running" => trans = {} /\ ~ lost
  /\ lost => trans = {}
  /\ \A j \in trans : \E i \in 1 .. Len(ran) : ran[i].job = j /\ ran[i].ok
  /\ stage = "running" =>
       \A i \in 1 .. Len(ran) :
         /\ ran[i].job \notin base
         /\ ran[i].ok /\ ~ lost => ran[i].job \in trans
  /\ stage = "acking" => \A i \in 1 .. Len(ran) : ran[i].ok <=> ran[i].job \in base
  /\ stage = "undoing" => \A i \in 1 .. Len(ran) : ran[i].job \notin base

\* What is durable is answered ok, or about to be.
Durable ==
  /\ \A j \in base :
       \/ answer[j] = "ok"
       \/ /\ answer[j] = "none" /\ stage = "acking"
          /\ \E i \in 1 .. Len(ran) : ran[i].job = j
  /\ \A j \in Jobs : answer[j] = "ok" => j \in base

WriterInv ==
  WriterTypeOK /\ Traces /\ Waiting /\ Transaction /\ Durable /\ HooksFollowCommits

(* The tail of a queue without duplicates has the rest of it, in order. *)
LEMMA TailFacts ==
  ASSUME NEW S, NEW s \in Seq(S), s # <<>>
  PROVE  /\ Tail(s) \in Seq(S) /\ Head(s) \in S /\ Head(s) = s[1]
         /\ Len(s) \in Nat \ {0} /\ Len(Tail(s)) = Len(s) - 1
         /\ \A i \in 1 .. Len(Tail(s)) : Tail(s)[i] = s[i + 1]
  BY HeadTailProperties, EmptySeq, LenProperties

(* A queue with a new member has the old ones and that one. *)
LEMMA AppendFacts ==
  ASSUME NEW S, NEW s \in Seq(S), NEW e \in S
  PROVE  /\ Append(s, e) \in Seq(S) /\ Len(s) \in Nat
         /\ Len(Append(s, e)) = Len(s) + 1
         /\ \A i \in 1 .. Len(s) : Append(s, e)[i] = s[i]
         /\ Append(s, e)[Len(s) + 1] = e
  BY AppendProperties, LenProperties

(* A non-empty queue is its head and its tail. *)
LEMMA SplitFacts ==
  ASSUME NEW S, NEW s \in Seq(S), NEW n \in 0 .. Len(s)
  PROVE  SubSeq(s, 1, n) \in Seq(S) /\ SubSeq(s, n + 1, Len(s)) \in Seq(S)
  <1>1. Len(s) \in Nat /\ \A i \in 1 .. Len(s) : s[i] \in S
    BY ElementOfSeq, LenProperties
  <1>2. \A i \in 1 .. n : s[i] \in S
    BY <1>1
  <1>3. \A i \in n + 1 .. Len(s) : s[i] \in S
    BY <1>1
  <1> QED
    BY <1>1, <1>2, <1>3, SubSeqProperties

(* A writer starts with nothing queued and nothing done. *)
LEMMA InitInv == WriterInit => WriterInv
  <1> SUFFICES ASSUME WriterInit PROVE WriterInv
    OBVIOUS
  <1>1. /\ channel = <<>> /\ batch = <<>> /\ ran = <<>> /\ Len(ran) = 0
        /\ trans = {} /\ base = {} /\ hooked = {} /\ lost = FALSE
        /\ \A j \in Jobs : job[j] = "new" /\ answer[j] = "none"
    BY EmptySeq DEF WriterInit
  <1>2. stage \in {"idle", "exited"}
    BY DEF WriterInit
  <1>3. WriterTypeOK
    <2>1. <<>> \in Seq(Jobs) /\ <<>> \in Seq(Ran)
      BY EmptySeq
    <2> QED
      BY <1>1, <1>2, <2>1 DEF WriterInit, WriterTypeOK, Claims, Stages, Answers, Ran
  <1>4. Traces /\ Waiting /\ Transaction /\ Durable
    BY <1>1, <1>2 DEF Traces, Waiting, Transaction, Durable
  <1>5. HooksFollowCommits
    BY <1>1, WriterAssumption DEF HooksFollowCommits
  <1> QED
    BY <1>3, <1>4, <1>5 DEF WriterInv

USE DEF WriterInv

(* submit queues a job that was never queued before, or refuses it. *)
LEMMA SendInv ==
  ASSUME WriterInv, NEW j \in Jobs, Send(j)  PROVE WriterInv'
  <1>0. UNCHANGED <<writer, stage, batch, ran, lost, trans, base, hooked>>
    BY DEF Send
  <1>1. job[j] = "new" /\ answer[j] = "none"
    BY DEF Send
  <1>2. CASE answer' = [answer EXCEPT ![j] = "refused"] /\ UNCHANGED <<job, channel>>
    <2>1. WriterTypeOK'
      BY <1>0, <1>2 DEF WriterTypeOK, Answers
    <2>2. Traces' /\ Waiting'
      BY <1>0, <1>1, <1>2 DEF Traces, Waiting, WriterTypeOK
    <2>3. Transaction' /\ Durable' /\ HooksFollowCommits'
      BY <1>0, <1>1, <1>2
      DEF Transaction, Durable, HooksFollowCommits, Traces, WriterTypeOK
    <2> QED
      BY <2>1, <2>2, <2>3
  <1>3. CASE /\ job' = [job EXCEPT ![j] = "pending"] /\ UNCHANGED answer
             /\ channel' = Append(channel, j)
    <2>1. channel' \in Seq(Jobs)
      BY <1>3, AppendFacts DEF WriterTypeOK
    <2>2. WriterTypeOK'
      BY <1>0, <1>3, <2>1 DEF WriterTypeOK, Claims
    <2>3. Traces' /\ Waiting'
      BY <1>0, <1>1, <1>3 DEF Traces, Waiting, WriterTypeOK
    <2>4. Transaction' /\ Durable' /\ HooksFollowCommits'
      BY <1>0, <1>3 DEF Transaction, Durable, HooksFollowCommits
    <2> QED
      BY <2>2, <2>3, <2>4
  <1> QED
    BY <1>2, <1>3 DEF Send

(* A caller whose timeout claims its job first takes it from the thread for  *)
(* good.                                                                     *)
LEMMA AckTimeoutInv ==
  ASSUME WriterInv, NEW j \in Jobs, AckTimeout(j)  PROVE WriterInv'
  <1> USE DEF AckTimeout, Abandon
  <1>1. WriterTypeOK'
    BY DEF WriterTypeOK, Claims, Stages, Answers
  <1>2. Traces'
    BY DEF Traces, WriterTypeOK
  <1>3. Waiting' /\ Transaction' /\ Durable' /\ HooksFollowCommits'
    BY DEF Waiting, Transaction, Durable, HooksFollowCommits, Traces, WriterTypeOK
  <1> QED
    BY <1>1, <1>2, <1>3

(* Dropping the handle closes the channel. *)
LEMMA DropInv ==
  ASSUME WriterInv, DropWriter  PROVE WriterInv'
  BY DEF DropWriter, WriterTypeOK, Traces, Waiting, Transaction, Durable,
         HooksFollowCommits, Stages

(* A batch opens with nothing in its transaction. *)
LEMMA NextBatchInv ==
  ASSUME WriterInv, NextBatch  PROVE WriterInv'
  <1> USE DEF NextBatch
  <1>1. WriterTypeOK'
    <2> DEFINE n == IF Len(channel) < BatchMax THEN Len(channel) ELSE BatchMax
    <2>1. n \in 0 .. Len(channel)
      BY WriterAssumption, LenProperties DEF WriterTypeOK
    <2>2. batch' = SubSeq(channel, 1, n) /\ channel' = SubSeq(channel, n + 1, Len(channel))
      OBVIOUS
    <2> HIDE DEF n
    <2>3. channel \in Seq(Jobs)
      BY DEF WriterTypeOK
    <2>4. batch' \in Seq(Jobs) /\ channel' \in Seq(Jobs)
      BY <2>1, <2>2, <2>3, SplitFacts
    <2> QED
      BY <2>4 DEF WriterTypeOK, Stages
  <1>2. Traces' /\ Waiting' /\ Transaction' /\ Durable' /\ HooksFollowCommits'
    BY DEF Waiting, Transaction, Durable, HooksFollowCommits, Traces, WriterTypeOK
  <1> QED
    BY <1>1, <1>2

(* BEGIN opens the transaction of the batch. *)
LEMMA BeginInv ==
  ASSUME WriterInv, Begin  PROVE WriterInv'
  BY EmptySeq DEF Begin, WriterTypeOK, Traces, Waiting, Transaction, Durable,
         HooksFollowCommits, Stages

(* A job whose caller gave up is passed over. *)
LEMMA SkipInv ==
  ASSUME WriterInv, Skip  PROVE WriterInv'
  <1>1. WriterTypeOK'
    BY TailFacts DEF Skip, WriterTypeOK, Stages
  <1> QED
    BY <1>1 DEF Skip, Traces, Waiting, Transaction, Durable, HooksFollowCommits

(* A transaction that cannot begin answers its jobs with the error. *)
LEMMA RefuseInv ==
  ASSUME WriterInv, Refuse  PROVE WriterInv'
  <1> DEFINE h == Head(batch)
  <1>1. h \in Jobs /\ Tail(batch) \in Seq(Jobs) /\ job[h] = "pending"
    BY TailFacts DEF Refuse, Take, WriterTypeOK
  <1>2. WriterTypeOK'
    BY <1>1 DEF Refuse, WriterTypeOK, Claims, Answers
  <1>3. \A i \in 1 .. Len(ran) : ran[i].job # h
    BY <1>1 DEF Traces
  <1>4. Traces'
    BY <1>1 DEF Refuse, Traces, WriterTypeOK
  <1>5. Waiting' /\ Transaction'
    BY <1>1, <1>3 DEF Refuse, Waiting, Transaction, WriterTypeOK
  <1>6. Durable' /\ HooksFollowCommits'
    BY <1>1 DEF Refuse, Durable, HooksFollowCommits, Traces, WriterTypeOK
  <1> QED
    BY <1>2, <1>4, <1>5, <1>6

(* A job runs in its savepoint, and its failure leaves the others alone. *)
LEMMA RunJobInv ==
  ASSUME WriterInv, RunJob  PROVE WriterInv'
  <1> DEFINE h == Head(batch)
  <1>1. h \in Jobs /\ Tail(batch) \in Seq(Jobs) /\ job[h] = "pending"
    BY TailFacts DEF RunJob, Take, WriterTypeOK
  <1>2. PICK o \in Outcomes(h) :
          ran' = Append(ran, [job |-> h, ok |-> o.ok]) /\ trans' = o.trans /\ lost' = o.lost
    BY DEF RunJob
  <1> DEFINE e == [job |-> h, ok |-> o.ok]
  <1>9. \/ o.trans = trans \cup {h} /\ o.ok = TRUE /\ o.lost = FALSE
        \/ o.trans = trans /\ o.ok = FALSE /\ o.lost = FALSE
        \/ o.trans = {} /\ o.ok = FALSE /\ o.lost = TRUE
    BY DEF Outcomes
  <1>3. o.ok \in BOOLEAN /\ o.lost \in BOOLEAN /\ o.trans \subseteq Jobs /\ e \in Ran
    <2>1. o.ok \in BOOLEAN /\ o.lost \in BOOLEAN
      BY <1>9
    <2>2. o.trans \subseteq Jobs
      BY <1>1, <1>9 DEF WriterTypeOK
    <2> QED
      BY <1>1, <2>1, <2>2 DEF Ran
  <1>4. /\ ran' \in Seq(Ran) /\ Len(ran) \in Nat /\ Len(ran') = Len(ran) + 1
        /\ \A i \in 1 .. Len(ran) : ran'[i] = ran[i]
        /\ ran'[Len(ran) + 1] = e
    <2>1. ran \in Seq(Ran)
      BY DEF WriterTypeOK, Ran
    <2> HIDE DEF e
    <2> QED
      BY <1>2, <1>3, <2>1, AppendFacts DEF e
  <1>5. e.job = h /\ e.ok = o.ok
    OBVIOUS
  <1> HIDE DEF e, h
  <1>6. /\ job' = [job EXCEPT ![h] = "taken"] /\ batch' = Tail(batch)
        /\ UNCHANGED <<writer, channel, stage, base, hooked, answer>>
        /\ stage = "running" /\ ~ lost
    BY DEF RunJob, h
  <1>7. WriterTypeOK'
    BY <1>1, <1>2, <1>3, <1>4, <1>6 DEF WriterTypeOK, Claims, Ran
  <1>8. /\ \A i \in 1 .. Len(ran) : ran[i].job # h
        /\ h \notin trans /\ h \notin base /\ answer[h] = "none"
    BY <1>1 DEF Traces
  <1>10. Traces'
    <2>1. \A j \in Jobs : j \in trans' \/ j \in base' => job'[j] = "taken"
      BY <1>1, <1>2, <1>6, <1>9 DEF Traces, WriterTypeOK
    <2>2. \A i \in 1 .. Len(ran') : job'[ran'[i].job] = "taken"
      <3>1. \A i \in 1 .. Len(ran) : job'[ran[i].job] = "taken"
        BY <1>6, <1>8 DEF Traces, WriterTypeOK
      <3>2. job'[h] = "taken"
        BY <1>1, <1>6 DEF WriterTypeOK
      <3> QED
        BY <3>1, <3>2, <1>4, <1>5
    <2>3. \A j \in Jobs : job'[j] = "pending" => answer'[j] = "none"
      BY <1>1, <1>6 DEF Traces, WriterTypeOK
    <2> QED
      BY <2>1, <2>2, <2>3 DEF Traces
  <1>11. Waiting'
    BY <1>4, <1>5, <1>6, <1>8 DEF Waiting
  <1>12. Transaction'
    <2>1. \A j \in trans' : \E i \in 1 .. Len(ran') : ran'[i].job = j /\ ran'[i].ok
      <3>1. SUFFICES ASSUME NEW j \in trans'
                     PROVE  \E i \in 1 .. Len(ran') : ran'[i].job = j /\ ran'[i].ok
        OBVIOUS
      <3>2. CASE j \in trans
        BY <3>2, <1>4 DEF Transaction
      <3>3. CASE j \notin trans
        BY <3>3, <1>2, <1>4, <1>5, <1>9
      <3> QED
        BY <3>2, <3>3
    <2>2. \A i \in 1 .. Len(ran') :
            /\ ran'[i].job \notin base'
            /\ ran'[i].ok /\ ~ lost' => ran'[i].job \in trans'
      BY <1>2, <1>4, <1>5, <1>6, <1>8, <1>9 DEF Transaction
    <2> QED
      BY <2>1, <2>2, <1>2, <1>6, <1>9 DEF Transaction
  <1>13. Durable' /\ HooksFollowCommits'
    BY <1>4, <1>6 DEF Durable, HooksFollowCommits
  <1> QED
    BY <1>7, <1>10, <1>11, <1>12, <1>13

(* The end of a batch makes durable what ran, or nothing. *)
LEMMA EndBatchInv ==
  ASSUME WriterInv, EndBatch  PROVE WriterInv'
  <1>0. /\ UNCHANGED <<writer, channel, job, batch, ran, hooked, answer>>
        /\ trans' = {} /\ lost' = FALSE
    BY DEF EndBatch
  <1>1. CASE stage = "running" /\ ~ lost /\ stage' = "acking" /\ base' = base \cup trans
    <2>1. WriterTypeOK'
      BY <1>0, <1>1 DEF WriterTypeOK, Stages
    <2>2. Traces' /\ Waiting'
      BY <1>0, <1>1 DEF Traces, Waiting
    <2>3. \A i \in 1 .. Len(ran) : ran[i].ok <=> ran[i].job \in base'
      <3>1. SUFFICES ASSUME NEW i \in 1 .. Len(ran)
                     PROVE  ran[i].ok <=> ran[i].job \in base'
        OBVIOUS
      <3>2. ran[i].ok => ran[i].job \in trans
        BY <1>1 DEF Transaction
      <3>3. ran[i].job \in trans => ran[i].ok
        BY DEF Transaction, Waiting
      <3>4. ran[i].job \notin base
        BY <1>1 DEF Transaction
      <3> QED
        BY <1>1, <3>2, <3>3, <3>4
    <2>4. Transaction'
      BY <1>0, <1>1, <2>3 DEF Transaction
    <2>5. Durable'
      <3>1. \A j \in base : answer[j] = "ok"
        BY <1>1 DEF Durable
      <3>2. \A j \in trans : \E i \in 1 .. Len(ran) : ran[i].job = j
        BY DEF Transaction
      <3>3. \A j \in trans : answer[j] = "none"
        BY <3>2 DEF Waiting
      <3>4. \A j \in base' : \/ answer'[j] = "ok"
                             \/ /\ answer'[j] = "none" /\ stage' = "acking"
                                /\ \E i \in 1 .. Len(ran') : ran'[i].job = j
        BY <1>0, <1>1, <3>1, <3>2, <3>3
      <3>5. \A j \in Jobs : answer'[j] = "ok" => j \in base'
        BY <1>0, <1>1 DEF Durable
      <3> QED
        BY <3>4, <3>5 DEF Durable
    <2>6. HooksFollowCommits'
      BY <1>0, <1>1 DEF HooksFollowCommits
    <2> QED
      BY <2>1, <2>2, <2>4, <2>5, <2>6
  <1>2. CASE stage = "running" /\ stage' = "undoing" /\ base' = base
    <2>1. WriterTypeOK'
      BY <1>0, <1>2 DEF WriterTypeOK, Stages
    <2>2. Traces' /\ Waiting'
      BY <1>0, <1>2 DEF Traces, Waiting
    <2>3. Transaction' /\ Durable' /\ HooksFollowCommits'
      BY <1>0, <1>2 DEF Transaction, Durable, HooksFollowCommits
    <2> QED
      BY <2>1, <2>2, <2>3
  <1>3. CASE stage = "refusing" /\ stage' = "idle" /\ base' = base
    <2>1. WriterTypeOK'
      BY <1>0, <1>3 DEF WriterTypeOK, Stages
    <2>2. Traces' /\ Waiting'
      BY <1>0, <1>3 DEF Traces, Waiting
    <2>3. Transaction' /\ Durable' /\ HooksFollowCommits'
      BY <1>0, <1>3 DEF Transaction, Durable, HooksFollowCommits
    <2> QED
      BY <2>1, <2>2, <2>3
  <1>4. lost => base \cup trans = base
    BY DEF Transaction
  <1> QED
    BY <1>1, <1>2, <1>3, <1>4 DEF EndBatch, Verdict, WriterTypeOK

(* The job at the head of the answers has run. *)
LEMMA HeadRan ==
  ASSUME WriterInv, ran # <<>>
  PROVE  /\ Head(ran) \in Ran /\ Head(ran) = ran[1] /\ 1 \in 1 .. Len(ran)
         /\ Tail(ran) \in Seq(Ran) /\ Len(Tail(ran)) = Len(ran) - 1
         /\ Len(ran) \in Nat \ {0}
         /\ \A i \in 1 .. Len(Tail(ran)) : Tail(ran)[i] = ran[i + 1]
  <1>1. ran \in Seq(Ran)
    BY DEF WriterTypeOK, Ran
  <1> QED
    BY <1>1, TailFacts

(* A hook runs after the commit it belongs to. *)
LEMMA RunHookInv ==
  ASSUME WriterInv, RunHook  PROVE WriterInv'
  <1>1. /\ ran[1].ok /\ ran[1].job \in Jobs /\ stage = "acking"
        /\ 1 \in 1 .. Len(ran) /\ hooked' = hooked \cup {ran[1].job}
    BY HeadRan DEF RunHook, HookDue, Ran
  <1>2. ran[1].job \in base
    BY <1>1 DEF Transaction
  <1>3. WriterTypeOK'
    BY <1>1 DEF RunHook, WriterTypeOK
  <1>4. HooksFollowCommits'
    BY <1>1, <1>2 DEF RunHook, HooksFollowCommits
  <1> QED
    BY <1>3, <1>4 DEF RunHook, Traces, Waiting, Transaction, Durable

(* A caller is answered after its hooks. *)
LEMMA FinishInv ==
  ASSUME WriterInv, Finish  PROVE WriterInv'
  <1> DEFINE h == ran[1].job
             v == IF stage = "acking" /\ ran[1].ok THEN "ok" ELSE "err"
  <1>1. /\ ran # <<>> /\ h \in Jobs /\ ran[1].ok \in BOOLEAN /\ 1 \in 1 .. Len(ran)
        /\ Len(ran) \in Nat \ {0} /\ Len(ran') = Len(ran) - 1 /\ ran' \in Seq(Ran)
        /\ \A i \in 1 .. Len(ran') : ran'[i] = ran[i + 1]
    BY HeadRan DEF Finish, Ran
  <1>2. /\ stage \in {"acking", "undoing"}
        /\ answer' = [answer EXCEPT ![h] = v]
        /\ UNCHANGED <<writer, channel, job, stage, batch, lost, trans, base, hooked>>
    BY HeadRan DEF Finish
  <1>3. stage = "acking" /\ ran[1].ok /\ h \in Hooking => h \in hooked
    BY <1>1, HeadRan DEF Finish, HookDue
  <1>4. \A i \in 1 .. Len(ran') : i + 1 \in 1 .. Len(ran) /\ ran'[i].job # h
    <2>1. \A i \in 1 .. Len(ran') : i + 1 \in 1 .. Len(ran) /\ i + 1 # 1
      BY <1>1
    <2> QED
      BY <1>1, <2>1 DEF Waiting
  <1>5. v = "ok" <=> h \in base
    BY <1>1, <1>2 DEF Transaction
  <1>6. v \in {"ok", "err"}
    OBVIOUS
  <1> HIDE DEF v, h
  <1>7. WriterTypeOK'
    BY <1>1, <1>2, <1>6 DEF WriterTypeOK, Answers, Ran
  <1>8. job[h] = "taken"
    BY <1>1 DEF Traces, h
  <1>14. \A i \in 1 .. Len(ran') : /\ ran'[i].job \in Jobs
                                   /\ job[ran'[i].job] = "taken"
                                   /\ answer[ran'[i].job] = "none"
    <2> SUFFICES ASSUME NEW i \in 1 .. Len(ran')
                 PROVE  /\ ran'[i].job \in Jobs /\ job[ran'[i].job] = "taken"
                        /\ answer[ran'[i].job] = "none"
      OBVIOUS
    <2>1. i + 1 \in 1 .. Len(ran) /\ ran'[i] = ran[i + 1]
      BY <1>1, <1>4
    <2>2. job[ran[i + 1].job] = "taken" /\ answer[ran[i + 1].job] = "none"
      BY <2>1 DEF Traces, Waiting
    <2>3. ran \in Seq(Ran)
      BY DEF WriterTypeOK, Ran
    <2>4. ran[i + 1] \in Ran
      BY <2>1, <2>3, ElementOfSeq
    <2> QED
      BY <2>1, <2>2, <2>4 DEF Ran
  <1>9. Traces'
    <2>1. \A j \in Jobs : job'[j] = "pending" => answer'[j] = "none"
      BY <1>1, <1>2, <1>8 DEF Traces, WriterTypeOK
    <2> QED
      BY <1>2, <1>14, <2>1 DEF Traces
  <1>10. Waiting'
    <2>1. \A i \in 1 .. Len(ran') : answer'[ran'[i].job] = "none"
      BY <1>2, <1>4, <1>14 DEF WriterTypeOK
    <2>2. \A i, k \in 1 .. Len(ran') : ran'[i].job = ran'[k].job => i = k
      BY <1>1, <1>4 DEF Waiting
    <2> QED
      BY <1>2, <2>1, <2>2 DEF Waiting
  <1>11. Transaction'
    BY <1>1, <1>2, <1>4 DEF Transaction
  <1>12. Durable'
    <2>1. SUFFICES ASSUME NEW j \in base
                   PROVE  \/ answer'[j] = "ok"
                          \/ /\ answer'[j] = "none" /\ stage' = "acking"
                             /\ \E i \in 1 .. Len(ran') : ran'[i].job = j
      <3>1. \A j \in Jobs : answer'[j] = "ok" => j \in base'
        BY <1>1, <1>2, <1>5 DEF Durable, WriterTypeOK
      <3> QED
        BY <1>2, <3>1 DEF Durable
    <2>2. j \in Jobs
      BY DEF WriterTypeOK
    <2>3. CASE j = h
      BY <2>3, <1>1, <1>2, <1>5 DEF WriterTypeOK
    <2>4. CASE j # h
      <3>1. answer'[j] = answer[j]
        BY <2>2, <2>4, <1>2 DEF WriterTypeOK
      <3>2. CASE answer[j] = "ok"
        BY <3>1, <3>2
      <3>3. CASE answer[j] # "ok"
        <4>1. PICK i \in 1 .. Len(ran) : ran[i].job = j
          BY <3>3 DEF Durable
        <4>2. i # 1
          BY <4>1, <2>4 DEF h
        <4>3. i - 1 \in 1 .. Len(ran') /\ ran'[i - 1].job = j
          BY <4>1, <4>2, <1>1
        <4> QED
          BY <3>1, <3>3, <4>3, <1>2 DEF Durable
      <3> QED
        BY <3>2, <3>3
    <2> QED
      BY <2>3, <2>4
  <1>13. HooksFollowCommits'
    <2>1. v = "ok" => stage = "acking" /\ ran[1].ok
      BY DEF v
    <2>2. h \in Hooking /\ v = "ok" => h \in hooked
      BY <1>3, <2>1
    <2> QED
      BY <1>1, <1>2, <2>2, WriterAssumption DEF HooksFollowCommits, WriterTypeOK
  <1> QED
    BY <1>7, <1>9, <1>10, <1>11, <1>12, <1>13

(* Each step of the thread keeps the invariant. *)
LEMMA LoopInv ==
  ASSUME WriterInv, Loop  PROVE WriterInv'
  <1>1. /\ UNCHANGED <<writer, channel, job, batch, ran, lost, trans, base, hooked, answer>>
        /\ stage' \in {"idle", "exited"} /\ stage # "running"
        /\ ran = <<>> /\ Len(ran) = 0
    BY EmptySeq DEF Loop, Waiting
  <1>2. WriterTypeOK'
    BY <1>1 DEF WriterTypeOK, Stages
  <1>3. Traces' /\ Waiting'
    BY <1>1 DEF Traces, Waiting
  <1>4. Transaction' /\ Durable' /\ HooksFollowCommits'
    BY <1>1 DEF Transaction, Durable, HooksFollowCommits
  <1> QED
    BY <1>2, <1>3, <1>4

(* A step that changes nothing keeps it. *)
LEMMA StutterInv ==
  ASSUME WriterInv, UNCHANGED writerVars  PROVE WriterInv'
  BY DEF writerVars, WriterTypeOK, Traces, Waiting, Transaction, Durable,
         HooksFollowCommits

(* So every step of the writer and its callers does. *)
LEMMA StepInv ==
  ASSUME WriterInv, [WriterNext]_writerVars  PROVE WriterInv'
  BY SendInv, AckTimeoutInv, DropInv, NextBatchInv, BeginInv, SkipInv, RefuseInv,
     RunJobInv, EndBatchInv, RunHookInv, FinishInv, LoopInv, StutterInv
  DEF WriterNext, Thread

\* The invariant the two results rest on, and with it the types.
THEOREM WriterInductive == WriterSpec => []WriterInv
  BY InitInv, StepInv, PTL DEF WriterSpec

\* Whatever jobs fail, time out or are abandoned, and wherever SQLite gives a
\* transaction up, no caller is told something about its write that is not,
\* or does not stay, true.
THEOREM AnswersAreHonest == WriterSpec => []AnswerHonest
  <1>1. WriterInv => AnswerHonest
    BY DEF Durable, AnswerHonest, WriterTypeOK
  <1> QED
    BY <1>1, WriterInductive, PTL

\* A post-commit hook (the wire fence, the Run snapshot) runs for durable work
\* only, and before the caller of that work is answered.
THEOREM HooksAreOrdered == WriterSpec => []HooksFollowCommits
  <1>1. WriterInv => HooksFollowCommits
    OBVIOUS
  <1> QED
    BY <1>1, WriterInductive, PTL
=============================================================================
