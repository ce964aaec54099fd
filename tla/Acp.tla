-------------------------------- MODULE Acp --------------------------------
(***************************************************************************)
(* The engine's ACP connection to one agent.  The supervisor's thread      *)
(* performs the handshake and sends prompts over the agent's stdin; a      *)
(* reader thread takes the agent's lines from its stdout, hands responses  *)
(* to the request that waits for them or ends the turn in flight, and      *)
(* refuses the agent's own requests.  The two threads share the stdin, the *)
(* waiters and the turn, each behind a lock.  Updates, malformed lines and *)
(* the queue of notices change none of this and are left out.              *)
(* Sources: acp/{connection,client}.rs, ports/process_backend.rs.          *)
(***************************************************************************)
EXTENDS Integers, Sequences, FiniteSets

CONSTANTS
  MaxIds,       \* bound: requests the engine sends
  MaxStrays,    \* bound: responses to nothing, or a second time
  MaxAsks       \* bound: requests of the agent

ASSUME AcpAssumption == MaxIds \in Nat /\ MaxStrays \in Nat /\ MaxAsks \in Nat

VARIABLES
  stdin,      \* StdinState
  pending,    \* the request ids with a waiter
  inbox,      \* what the waiter of the request under way was sent
  prompt,     \* prompt_id, 0 for None
  session,    \* session_id: the request that established it, 0 for None
  nextId,     \* next_id
  caller,     \* the supervisor's thread: where it is, in which request
  acpReader,  \* the reader's thread
  stdout,     \* the agent's stdout, unread lines
  owed,       \* the requests that reached the agent and are not answered
  stuck,      \* the request in a write that was given up, which may yet land
  serving,    \* the agent process lives
  strays, asks

acpVars == <<stdin, pending, inbox, prompt, session, nextId, caller, acpReader,
             stdout, owed, stuck, serving, strays, asks>>

written == <<stdin, owed, stuck>>
agentVars == <<serving, strays, asks>>

Ask == 0        \* a line of the agent that is a request of its own

At(where, method, id) == [at |-> where, method |-> method, id |-> id]

AcpInit ==
  /\ stdin = "live" /\ pending = {} /\ inbox = "none" /\ prompt = 0 /\ session = 0
  /\ nextId = 1 /\ caller = At("request", "initialize", 0) /\ acpReader = "reading"
  /\ stdout = <<>> /\ owed = {} /\ stuck = 0 /\ serving = TRUE
  /\ strays = 0 /\ asks = 0

------------------------------------------------------------------------------
\* write_stdin_bounded.  A write that is given up leaves the pipe to a thread
\* that may still complete it, and the handle without one for good.
Written(id) ==
  stdin = "live" /\ serving /\ owed' = owed \cup {id} /\ UNCHANGED <<stdin, stuck>>

TimesOut(id) ==
  stdin = "live" /\ stdin' = "timedOut" /\ stuck' = id /\ UNCHANGED owed

WriteFails == UNCHANGED written

------------------------------------------------------------------------------
(* handshake *)

\* The waiter is registered before the request is written.
SendRequest ==
  /\ caller.at = "request" /\ nextId <= MaxIds
  /\ pending' = pending \cup {nextId}
  /\ inbox' = "none" /\ nextId' = nextId + 1
  /\ caller' = At("write", caller.method, nextId)
  /\ UNCHANGED <<written, prompt, session, acpReader, stdout, agentVars>>

\* A load that fails is followed by session/new; any other failure refuses.
Declined ==
  IF caller.method = "load" THEN At("request", "new", 0) ELSE At("refused", "none", 0)

WriteRequest ==
  /\ caller.at = "write"
  /\ \/ Written(caller.id) /\ caller' = [caller EXCEPT !.at = "await"]
     \/ TimesOut(caller.id) /\ caller' = Declined
     \/ WriteFails /\ caller' = Declined
  /\ UNCHANGED <<pending, inbox, prompt, session, nextId, acpReader, stdout, agentVars>>

\* await_response, bounded by the handshake's one deadline.  An error, no answer
\* in time, or one that cannot be used declines; a load result is not looked at.
AwaitResponse ==
  /\ caller.at = "await"
  /\ \/ /\ inbox = "ok" /\ caller.method = "initialize"
        /\ \E next \in {"load", "new"} : caller' = At("request", next, 0)
        /\ UNCHANGED session
     \/ /\ inbox = "ok" /\ caller.method # "initialize"
        /\ caller' = At("idle", "none", 0) /\ session' = caller.id
     \/ /\ inbox # "ok" \/ caller.method # "load"
        /\ caller' = Declined /\ UNCHANGED session
  /\ inbox' = "none"
  /\ UNCHANGED <<written, pending, prompt, nextId, acpReader, stdout, agentVars>>

------------------------------------------------------------------------------
(* send_prompt, with the lock of prompt_id from the check to the mark *)

BeginPrompt ==
  /\ caller.at = "idle" /\ prompt = 0 /\ nextId <= MaxIds
  /\ nextId' = nextId + 1 /\ caller' = At("sending", "prompt", nextId)
  /\ UNCHANGED <<written, pending, inbox, prompt, session, acpReader, stdout, agentVars>>

WritePrompt ==
  /\ caller.at = "sending"
  /\ \/ Written(caller.id) /\ caller' = [caller EXCEPT !.at = "mark"]
     \/ TimesOut(caller.id) /\ caller' = At("idle", "none", 0)
     \/ WriteFails /\ caller' = At("idle", "none", 0)
  /\ UNCHANGED <<pending, inbox, prompt, session, nextId, acpReader, stdout, agentVars>>

MarkPrompt ==
  /\ caller.at = "mark"
  /\ prompt' = caller.id /\ caller' = At("idle", "none", 0)
  /\ UNCHANGED <<written, pending, inbox, session, nextId, acpReader, stdout, agentVars>>

\* Seeded fault: the lock is released for the write.
PromptUnlocked == TRUE

PromptLockFree == caller.at \notin {"sending", "mark"}

\* cancel_turn, before the stop ladder: a notification, which may time out.
CancelTurn ==
  /\ caller.at = "idle" /\ prompt # 0
  /\ stdin = "live" /\ stdin' = "timedOut"
  /\ UNCHANGED <<pending, inbox, prompt, session, nextId, caller, acpReader, stdout, owed, stuck, agentVars>>

\* The instance is dropped, or its start refused: the stdin is closed.
DropConnection ==
  /\ caller.at \in {"idle", "refused"}
  /\ caller' = At("dropped", "none", 0) /\ stdin' = "none"
  /\ UNCHANGED <<pending, inbox, prompt, session, nextId, acpReader, stdout, owed, stuck, agentVars>>

------------------------------------------------------------------------------
(* run_reader *)

\* The receiving half of the waiter is still held.
Waits(id) == caller.at \in {"write", "await"} /\ caller.id = id

\* route_response: the waiter first; else the turn is taken, whatever its id.
RouteResponse ==
  /\ acpReader = "reading" /\ stdout # <<>> /\ Head(stdout) # Ask
  /\ LET id == Head(stdout) IN
       IF id \in pending
       THEN /\ pending' = pending \ {id}
            /\ \E outcome \in {"ok", "error"} :
                 inbox' = IF Waits(id) THEN outcome ELSE inbox
            /\ UNCHANGED prompt
       ELSE PromptLockFree /\ prompt' = 0 /\ UNCHANGED <<pending, inbox>>
  /\ stdout' = Tail(stdout)
  /\ UNCHANGED <<written, session, nextId, caller, acpReader, agentVars>>

\* A request of the agent is refused over the same stdin.
RouteRequest ==
  /\ acpReader = "reading" /\ stdout # <<>> /\ Head(stdout) = Ask
  /\ stdin' \in IF stdin = "live" THEN {"live", "timedOut"} ELSE {stdin}
  /\ stdout' = Tail(stdout)
  /\ UNCHANGED <<pending, inbox, prompt, session, nextId, caller, acpReader, owed, stuck, agentVars>>

\* The end of the stream, a line that cannot be read, or the shutdown flag.
StdoutEnds ==
  /\ acpReader = "reading" /\ acpReader' = "failing"
  /\ UNCHANGED <<written, pending, inbox, prompt, session, nextId, caller, stdout, agentVars>>

FailWaiters ==
  /\ acpReader = "failing" /\ acpReader' = "clearing"
  /\ pending' = {}
  /\ inbox' = IF Waits(caller.id) /\ caller.id \in pending THEN "error" ELSE inbox
  /\ UNCHANGED <<written, prompt, session, nextId, caller, stdout, agentVars>>

ClearTurn ==
  /\ acpReader = "clearing" /\ PromptLockFree
  /\ prompt' = 0 /\ acpReader' = "closing"
  /\ UNCHANGED <<written, pending, inbox, session, nextId, caller, stdout, agentVars>>

\* The reader's own clone is dropped, which closes the stdin too.
ReaderDrops ==
  /\ acpReader = "closing" /\ acpReader' = "gone" /\ stdin' = "none"
  /\ UNCHANGED <<pending, inbox, prompt, session, nextId, caller, stdout, owed, stuck, agentVars>>

------------------------------------------------------------------------------
(* The agent *)

Answer(id) ==
  /\ serving /\ id \in owed
  /\ owed' = owed \ {id} /\ stdout' = Append(stdout, id)
  /\ UNCHANGED <<stdin, pending, inbox, prompt, session, nextId, caller, acpReader, stuck, agentVars>>

\* It answers twice, or what it was not asked.
StrayAnswer(id) ==
  /\ serving /\ id < nextId /\ id \notin owed /\ strays < MaxStrays
  /\ stdout' = Append(stdout, id) /\ strays' = strays + 1
  /\ UNCHANGED <<written, pending, inbox, prompt, session, nextId, caller, acpReader, serving, asks>>

AgentAsks ==
  /\ serving /\ asks < MaxAsks
  /\ stdout' = Append(stdout, Ask) /\ asks' = asks + 1
  /\ UNCHANGED <<written, pending, inbox, prompt, session, nextId, caller, acpReader, serving, strays>>

\* A write that was given up completes after all.
LateWrite ==
  /\ serving /\ stuck # 0
  /\ owed' = owed \cup {stuck} /\ stuck' = 0
  /\ UNCHANGED <<stdin, pending, inbox, prompt, session, nextId, caller, acpReader, stdout, agentVars>>

AgentEnds ==
  /\ serving /\ serving' = FALSE
  /\ UNCHANGED <<written, pending, inbox, prompt, session, nextId, caller, acpReader, stdout, strays, asks>>

Caller ==
  \/ SendRequest \/ WriteRequest \/ AwaitResponse
  \/ BeginPrompt \/ WritePrompt \/ MarkPrompt \/ CancelTurn \/ DropConnection

Reading ==
  RouteResponse \/ RouteRequest \/ StdoutEnds \/ FailWaiters \/ ClearTurn \/ ReaderDrops

AgentSide ==
  \/ \E id \in 1 .. MaxIds : Answer(id) \/ StrayAnswer(id)
  \/ AgentAsks \/ LateWrite \/ AgentEnds

AcpNext == Caller \/ Reading \/ AgentSide

AcpSpec == AcpInit /\ [][AcpNext]_acpVars

------------------------------------------------------------------------------
AcpTypeOK ==
  /\ stdin \in {"live", "timedOut", "none"} /\ inbox \in {"none", "ok", "error"}
  /\ pending \subseteq Nat \ {0} /\ owed \subseteq Nat \ {0}
  /\ prompt \in Nat /\ session \in Nat /\ stuck \in Nat /\ nextId \in Nat \ {0}
  /\ caller \in [at : {"request", "write", "await", "refused", "idle", "sending", "mark", "dropped"},
                 method : {"initialize", "load", "new", "prompt", "none"}, id : Nat]
  /\ acpReader \in {"reading", "failing", "clearing", "closing", "gone"}
  /\ stdout \in Seq(Nat) /\ serving \in BOOLEAN /\ strays \in Nat /\ asks \in Nat

Unrouted == { stdout[i] : i \in DOMAIN stdout } \ {Ask}

\* The prompts that are with the agent or whose answers are unread.
Turns == { id \in owed \cup Unrouted : session # 0 /\ id > session }

Routing == acpReader \in {"reading", "failing", "clearing"}

\* "ACP serializes turns per session" (connection.rs), whatever order the
\* write, the answer and the two threads' locks come in, and however late a
\* write that timed out lands: while responses are routed, an agent that
\* answers once has one turn at most; a turn that is reported in flight can
\* still end, because its answer is still to be read; and the answer to a
\* request that waits is not routed past it.
Correlated ==
  /\ Routing /\ strays = 0 => Cardinality(Turns) <= 1
  /\ Routing /\ prompt # 0 => prompt \in Turns
  /\ acpReader = "reading" /\ caller.at = "await" /\ inbox = "none" =>
       caller.id \in owed \cup Unrouted
=============================================================================
