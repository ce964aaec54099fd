------------------------------- MODULE Writer -------------------------------
(***************************************************************************)
(* The store writer: the one thread of an engine process that writes       *)
(* state.db.  Callers send jobs over a channel; the thread collects a      *)
(* batch, runs it in one transaction with a savepoint per job, commits,    *)
(* runs the hooks the jobs registered (a breach with action `block` raises *)
(* the wire fence this way) and answers each caller.  A caller waits       *)
(* ACK_BOUND for its job to be taken and abandons it when that passes.     *)
(* Every job is one caller's.  Source: store/writer.rs.                    *)
(***************************************************************************)
EXTENDS Integers, Sequences, FiniteSets

CONSTANTS
  Jobs,       \* the jobs that may be sent
  Acked,      \* those sent with call; the others are submitted
  Hooking,    \* those that register a post-commit hook
  BatchMax    \* BATCH_MAX_EVENTS (every job weighs one event)

ASSUME WriterAssumption ==
  Acked \subseteq Jobs /\ Hooking \subseteq Jobs /\ BatchMax \in Nat \ {0}

VARIABLES
  writer,   \* the handle: open, dropped, or closed (a read-only engine)
  channel,  \* jobs sent and not yet received
  job,      \* each job's claim word, "new" before it is sent
  stage,    \* where the thread is
  batch,    \* jobs of the batch still to be run or refused
  ran,      \* jobs run and not yet answered, with their results
  lost,     \* SQLite rolled the batch's transaction back by itself
  trans,    \* jobs whose statements are in the open transaction
  base,     \* jobs whose statements are durable in state.db
  hooked,   \* jobs whose hook has run
  answer    \* what finish told; for a submitted job, "err" is counted

writerVars == <<writer, channel, job, stage, batch, ran, lost, trans, base,
                hooked, answer>>

Claims == {"new", "pending", "taken", "abandoned"}
Stages == {"idle", "begin", "running", "refusing", "acking", "undoing", "exited"}
Answers == {"none", "ok", "err", "busy", "refused"}

WriterInit ==
  /\ writer \in {"open", "closed"}
  /\ channel = <<>> /\ batch = <<>> /\ ran = <<>>
  /\ job = [j \in Jobs |-> "new"]
  /\ answer = [j \in Jobs |-> "none"]
  /\ stage = (IF writer = "open" THEN "idle" ELSE "exited")
  /\ lost = FALSE
  /\ trans = {} /\ base = {} /\ hooked = {}

------------------------------------------------------------------------------
(* Callers. *)

\* call and submit: a closed writer refuses at once, without a thread.
Send(j) ==
  /\ job[j] = "new" /\ answer[j] = "none"
  /\ \/ /\ writer = "closed"
        /\ answer' = [answer EXCEPT ![j] = "refused"]
        /\ UNCHANGED <<job, channel>>
     \/ /\ writer = "open"
        /\ job' = [job EXCEPT ![j] = "pending"]
        /\ channel' = Append(channel, j)
        /\ UNCHANGED answer
  /\ UNCHANGED <<writer, stage, batch, ran, lost, trans, base, hooked>>

\* Seeded fault: the caller gives up without claiming its job.
GiveUpUnclaimed(j) == job

\* The claim of a caller whose ACK_BOUND has passed: PENDING to ABANDONED.
Abandon(j) == [job EXCEPT ![j] = "abandoned"]

\* The bound passes while the job is unclaimed.  A caller that loses the
\* claim to the thread waits on, which is no step.
AckTimeout(j) ==
  /\ j \in Acked /\ job[j] = "pending" /\ answer[j] = "none"
  /\ job' = Abandon(j)
  /\ answer' = [answer EXCEPT ![j] = "busy"]
  /\ UNCHANGED <<writer, channel, stage, batch, ran, lost, trans, base, hooked>>

\* The last handle is dropped: nobody is inside a call any more.
DropWriter ==
  /\ writer = "open"
  /\ \A j \in Acked : job[j] = "new" \/ answer[j] # "none"
  /\ writer' = "dropped"
  /\ UNCHANGED <<channel, job, stage, batch, ran, lost, trans, base, hooked,
                 answer>>

------------------------------------------------------------------------------
(* The thread. *)

\* The batch takes what is queued, up to the bound.  A batch of submitted
\* jobs waits BATCH_WINDOW for company: the thread may take this step late.
NextBatch ==
  /\ stage = "idle" /\ channel # <<>>
  /\ LET n == IF Len(channel) < BatchMax THEN Len(channel) ELSE BatchMax
     IN  /\ batch' = SubSeq(channel, 1, n)
         /\ channel' = SubSeq(channel, n + 1, Len(channel))
  /\ stage' = "begin"
  /\ UNCHANGED <<writer, job, ran, lost, trans, base, hooked, answer>>

\* BEGIN IMMEDIATE, or its failure.
Begin ==
  /\ stage = "begin"
  /\ stage' \in {"running", "refusing"}
  /\ UNCHANGED <<writer, channel, job, batch, ran, lost, trans, base, hooked,
                 answer>>

\* take: an abandoned job is skipped.
Take(j) == job[j] = "pending"

Skip ==
  /\ stage \in {"running", "refusing"} /\ batch # <<>>
  /\ ~ Take(Head(batch))
  /\ batch' = Tail(batch)
  /\ UNCHANGED <<writer, channel, job, stage, ran, lost, trans, base, hooked,
                 answer>>

\* A job of a batch that never began, or whose transaction is gone.
Refuse ==
  /\ stage = "refusing" \/ (stage = "running" /\ lost)
  /\ batch # <<>> /\ Take(Head(batch))
  /\ batch' = Tail(batch)
  /\ job' = [job EXCEPT ![Head(batch)] = "taken"]
  /\ answer' = [answer EXCEPT ![Head(batch)] = "err"]
  /\ UNCHANGED <<writer, channel, stage, ran, lost, trans, base, hooked>>

\* What one job leaves in the transaction: its statements, nothing (its
\* savepoint is rolled back on an error or a panic), or no transaction.
Outcomes(j) ==
  { [ok |-> TRUE, trans |-> trans \cup {j}, lost |-> FALSE],
    [ok |-> FALSE, trans |-> trans, lost |-> FALSE],
    [ok |-> FALSE, trans |-> {}, lost |-> TRUE] }

RunJob ==
  /\ stage = "running" /\ ~ lost
  /\ batch # <<>> /\ Take(Head(batch))
  /\ \E o \in Outcomes(Head(batch)) :
       /\ ran' = Append(ran, [job |-> Head(batch), ok |-> o.ok])
       /\ trans' = o.trans
       /\ lost' = o.lost
  /\ job' = [job EXCEPT ![Head(batch)] = "taken"]
  /\ batch' = Tail(batch)
  /\ UNCHANGED <<writer, channel, stage, base, hooked, answer>>

\* Where the batch goes from a COMMIT that SQLite accepts.
Verdict == stage' = IF lost THEN "undoing" ELSE "acking"

\* COMMIT: it stands, it fails and is rolled back, or there is nothing left
\* to commit.
EndBatch ==
  /\ stage \in {"running", "refusing"} /\ batch = <<>>
  /\ \/ stage = "running" /\ Verdict /\ base' = base \cup trans
     \/ stage = "running" /\ ~ lost /\ stage' = "undoing" /\ base' = base
     \/ stage = "refusing" /\ stage' = "idle" /\ base' = base
  /\ trans' = {} /\ lost' = FALSE
  /\ UNCHANGED <<writer, channel, job, batch, ran, hooked, answer>>

\* Seeded fault: hooks run whatever became of the batch.
HookEarly(r) == r.ok /\ r.job \in Hooking /\ stage \in {"running", "acking", "undoing"}

\* A hook runs for a job that succeeded in a batch that committed.
HookDue(r) == r.ok /\ r.job \in Hooking /\ stage = "acking"

RunHook ==
  /\ ran # <<>> /\ HookDue(Head(ran)) /\ Head(ran).job \notin hooked
  /\ hooked' = hooked \cup {Head(ran).job}
  /\ UNCHANGED <<writer, channel, job, stage, batch, ran, lost, trans, base,
                 answer>>

\* finish, in the order the jobs ran.
Finish ==
  /\ stage \in {"acking", "undoing"} /\ ran # <<>>
  /\ HookDue(Head(ran)) => Head(ran).job \in hooked
  /\ answer' = [answer EXCEPT ![Head(ran).job] =
                  IF stage = "acking" /\ Head(ran).ok THEN "ok" ELSE "err"]
  /\ ran' = Tail(ran)
  /\ UNCHANGED <<writer, channel, job, stage, batch, lost, trans, base, hooked>>

\* Seeded fault: the loop ends with the channel's closing.
ExitAtOnce == writer = "dropped"

\* recv fails once the channel is closed and empty.
Drained == writer = "dropped" /\ channel = <<>>

\* The loop goes on to the next batch, or ends.
Loop ==
  /\ \/ stage \in {"acking", "undoing"} /\ ran = <<>> /\ stage' = "idle"
     \/ stage = "idle" /\ Drained /\ stage' = "exited"
  /\ UNCHANGED <<writer, channel, job, batch, ran, lost, trans, base, hooked,
                 answer>>

Thread == NextBatch \/ Begin \/ Skip \/ Refuse \/ RunJob \/ EndBatch \/ RunHook
            \/ Finish \/ Loop

WriterNext ==
  \/ \E j \in Jobs : Send(j) \/ AckTimeout(j)
  \/ DropWriter
  \/ Thread

\* The thread's loop does not stop while there is work for it.
WriterSpec == WriterInit /\ [][WriterNext]_writerVars /\ WF_writerVars(Thread)

------------------------------------------------------------------------------
WriterTypeOK ==
  /\ writer \in {"open", "closed", "dropped"}
  /\ channel \in Seq(Jobs) /\ batch \in Seq(Jobs)
  /\ ran \in Seq([job : Jobs, ok : BOOLEAN])
  /\ job \in [Jobs -> Claims] /\ answer \in [Jobs -> Answers]
  /\ stage \in Stages /\ lost \in BOOLEAN
  /\ trans \subseteq Jobs /\ base \subseteq Jobs /\ hooked \subseteq Jobs

\* A caller is told the truth, and it stays true: what is acknowledged is
\* durable, and a write that was refused, failed or timed out is never
\* applied, not even by a batch that runs after the caller went away (the
\* claim word, savepoints, commit_batch's lost and COMMIT error paths).
AnswerHonest ==
  \A j \in Jobs :
    /\ answer[j] = "ok" => j \in base
    /\ answer[j] \in {"err", "busy", "refused"} => j \notin base

\* The fence and the Run snapshot follow the store: a hook runs for durable
\* work only, and before the caller that caused it is answered, so a caller
\* never goes on with a breach recorded and the wire still open.
HooksFollowCommits ==
  /\ hooked \subseteq base
  /\ \A j \in Hooking : answer[j] = "ok" => j \in hooked

\* Every caller is answered, and dropping the handle ends the thread, with
\* everything that was queued answered first.
WriterSettles ==
  /\ \A j \in Jobs : job[j] # "new" ~> answer[j] # "none"
  /\ writer = "dropped"
       ~> stage = "exited" /\ \A j \in Jobs : job[j] # "new" => answer[j] # "none"
=============================================================================
