----------------------------- MODULE AcpProofs -----------------------------
(***************************************************************************)
(* Proofs about Acp, for any number of requests, stray answers and         *)
(* requests of the agent and every interleaving of the two threads with    *)
(* it: answers reach the request or the turn they belong to.               *)
(***************************************************************************)
EXTENDS Acp, SequenceTheorems, FiniteSetTheorems, TLAPS

\* The requests that are with the agent, on their way back, or in a write that
\* was given up.
Open == owed \cup Unrouted \cup ({stuck} \ {0})

\* No id is used before it is minted.
Minted ==
  /\ \A id \in pending \cup Open : id < nextId
  /\ prompt < nextId /\ session < nextId /\ caller.id < nextId
  /\ caller.at \in {"write", "await"} => nextId = caller.id + 1 /\ caller.id > 0

\* The handshake comes first; a prompt under way holds the lock of the turn.
Phases ==
  /\ caller.at \in {"request", "write", "await", "refused"} => session = 0 /\ prompt = 0
  /\ caller.at \in {"request", "write", "await"} => caller.method \in {"initialize", "load", "new"}
  /\ caller.at \in {"idle", "sending", "mark"} => session # 0
  /\ caller.at \in {"sending", "mark"} => prompt = 0 /\ caller.id > session
  /\ prompt # 0 => session # 0 /\ prompt > session

\* Waiters belong to the handshake; the answer to the one that is awaited is
\* still to be routed.
Waiters ==
  /\ session # 0 => \A id \in pending : id <= session
  /\ acpReader = "reading" /\ inbox = "none" /\ caller.at \in {"write", "await"} =>
       caller.id \in pending
  /\ acpReader = "reading" /\ inbox = "none" /\ caller.at = "await" =>
       caller.id \in owed \cup Unrouted

\* The answer to a turn that is marked, or about to be, is still to be routed.
InFlight ==
  Routing => /\ prompt # 0 => prompt \in owed \cup Unrouted
             /\ caller.at = "mark" => caller.id \in owed \cup Unrouted

\* No answer is twice on its way.
Distinct ==
  \A i, k \in 1 .. Len(stdout) : stdout[i] = stdout[k] /\ stdout[i] # Ask => i = k

\* An agent that answers once has each request in one place.
Once ==
  /\ Distinct
  /\ owed \cap Unrouted = {} /\ stuck \notin owed \cup Unrouted
  /\ caller.at \in {"write", "sending"} => caller.id \notin Open

\* What is open from the handshake has its waiter ...
Waited ==
  acpReader = "reading" =>
    /\ \A id \in Open : session = 0 \/ id <= session => id \in pending
    /\ caller.at = "write" => caller.id \in pending

\* ... and the rest is one turn: the marked one, the one that is about to be,
\* or one whose write was given up, after which nothing is written.
Single ==
  \A id \in Open :
    session # 0 /\ id > session =>
      \/ id = prompt
      \/ caller.at = "mark" /\ id = caller.id
      \/ stdin # "live" /\ \A other \in Open : other > session => other = id

AcpInv ==
  /\ AcpTypeOK /\ Minted /\ Phases /\ Waiters /\ InFlight
  /\ strays = 0 => Once
  /\ strays = 0 /\ Routing => Waited /\ Single

------------------------------------------------------------------------------
\* A line is taken from the agent's stdout.
LEMMA PopFacts ==
  ASSUME AcpTypeOK, stdout # <<>>, stdout' = Tail(stdout)
  PROVE  /\ stdout' \in Seq(Nat) /\ Head(stdout) \in Nat
         /\ Unrouted = Unrouted' \cup ({Head(stdout)} \ {Ask})
         /\ Distinct => Head(stdout) \notin Unrouted'
         /\ Distinct => Distinct'
<1>1. /\ stdout \in Seq(Nat) /\ stdout' \in Seq(Nat) /\ Head(stdout) \in Nat
      /\ Head(stdout) = stdout[1]
      /\ Len(stdout) \in Nat \ {0} /\ Len(stdout') = Len(stdout) - 1
      /\ \A i \in 1 .. Len(stdout') : stdout'[i] = stdout[i + 1]
  BY HeadTailProperties, EmptySeq, LenProperties DEF AcpTypeOK
<1>2. DOMAIN stdout = 1 .. Len(stdout) /\ DOMAIN stdout' = 1 .. Len(stdout')
  BY <1>1, LenProperties
<1>3. ASSUME NEW x \in Unrouted
      PROVE  x = Head(stdout) \/ x \in Unrouted'
  <2>1. PICK i \in 1 .. Len(stdout) : stdout[i] = x /\ x # Ask
    BY <1>2 DEF Unrouted
  <2>2. CASE i = 1
    BY <1>1, <2>1, <2>2
  <2>3. CASE i # 1
    <3>1. i - 1 \in 1 .. Len(stdout') /\ stdout'[i - 1] = stdout[(i - 1) + 1]
      BY <1>1, <2>3
    <3>2. stdout'[i - 1] = x
      BY <1>1, <2>1, <3>1
    <3> QED
      BY <1>2, <2>1, <3>1, <3>2 DEF Unrouted
  <2> QED
    BY <2>2, <2>3
<1>4. ASSUME NEW x \in Unrouted'
      PROVE  \E i \in 1 .. Len(stdout') : x = stdout[i + 1] /\ x # Ask /\ i + 1 \in 1 .. Len(stdout)
  BY <1>1, <1>2 DEF Unrouted
<1>5. Unrouted' \subseteq Unrouted
  BY <1>2, <1>4 DEF Unrouted
<1>6. Head(stdout) # Ask => Head(stdout) \in Unrouted
  BY <1>1, <1>2 DEF Unrouted
<1>7. Unrouted = Unrouted' \cup ({Head(stdout)} \ {Ask})
  BY <1>3, <1>5, <1>6 DEF Unrouted
<1>8. Distinct => Head(stdout) \notin Unrouted'
  BY <1>1, <1>4 DEF Distinct
<1>9. ASSUME Distinct
      PROVE  Distinct'
  <2> SUFFICES ASSUME NEW i \in 1 .. Len(stdout'), NEW k \in 1 .. Len(stdout'),
                      stdout'[i] = stdout'[k], stdout'[i] # Ask
               PROVE  i = k
    BY DEF Distinct
  <2>1. i + 1 \in 1 .. Len(stdout) /\ k + 1 \in 1 .. Len(stdout)
    BY <1>1
  <2> QED
    BY <1>1, <1>9, <2>1 DEF Distinct
<1> QED
  BY <1>1, <1>7, <1>8, <1>9

\* The agent writes a line.
LEMMA PushFacts ==
  ASSUME AcpTypeOK, NEW x \in Nat, stdout' = Append(stdout, x)
  PROVE  /\ stdout' \in Seq(Nat)
         /\ Unrouted' = Unrouted \cup ({x} \ {Ask})
         /\ Distinct /\ x \notin Unrouted => Distinct'
<1>1. /\ stdout \in Seq(Nat) /\ stdout' \in Seq(Nat) /\ Len(stdout) \in Nat
      /\ Len(stdout') = Len(stdout) + 1
      /\ \A i \in 1 .. Len(stdout) : stdout'[i] = stdout[i]
      /\ stdout'[Len(stdout) + 1] = x
  BY AppendProperties, LenProperties DEF AcpTypeOK
<1>2. DOMAIN stdout = 1 .. Len(stdout) /\ DOMAIN stdout' = 1 .. Len(stdout')
  BY <1>1, LenProperties
<1>3. \A i \in 1 .. Len(stdout') : i \in 1 .. Len(stdout) \/ i = Len(stdout) + 1
  BY <1>1
<1>4. \A i \in 1 .. Len(stdout) + 1 : i \in 1 .. Len(stdout')
  BY <1>1
<1>5. Unrouted' \subseteq Unrouted \cup ({x} \ {Ask})
  BY <1>1, <1>2, <1>3 DEF Unrouted
<1>6. Unrouted \subseteq Unrouted'
  BY <1>1, <1>2, <1>4 DEF Unrouted
<1>7. x # Ask => x \in Unrouted'
  BY <1>1, <1>2, <1>4 DEF Unrouted
<1>8. ASSUME Distinct, x \notin Unrouted
      PROVE  Distinct'
  <2>1. \A i \in 1 .. Len(stdout) : stdout[i] = x => x = Ask
    BY <1>2, <1>8 DEF Unrouted
  <2> QED
    BY <1>1, <1>3, <1>8, <2>1 DEF Distinct
<1> QED
  BY <1>1, <1>5, <1>6, <1>7, <1>8

\* A step that leaves the stdout alone.
LEMMA SameLines ==
  ASSUME UNCHANGED stdout
  PROVE  Unrouted' = Unrouted /\ (Distinct' <=> Distinct)
BY DEF Unrouted, Distinct

\* A fresh id has its waiter before anything of it is written.
LEMMA SendRequestKeeps ==
  ASSUME AcpInv, SendRequest
  PROVE  AcpInv'
<1>1. Unrouted' = Unrouted /\ (Distinct' <=> Distinct)
  BY SameLines DEF SendRequest
<1>2. AcpTypeOK' /\ Minted' /\ Phases'
  BY <1>1 DEF AcpInv, AcpTypeOK, Minted, Phases, Open, SendRequest, At,
              written, agentVars
<1>3. Waiters' /\ InFlight'
  BY <1>1 DEF AcpInv, AcpTypeOK, Minted, Phases, Waiters, InFlight, Routing,
              SendRequest, At, written, agentVars
<1>4. strays' = 0 => Once'
  BY <1>1 DEF AcpInv, AcpTypeOK, Minted, Phases, Once, Open, SendRequest, At,
              written, agentVars
<1>5. strays' = 0 /\ Routing' => Waited' /\ Single'
  BY <1>1 DEF AcpInv, AcpTypeOK, Minted, Phases, Once, Waited, Single, Open,
              Routing, SendRequest, At, written, agentVars
<1> QED
  BY <1>2, <1>3, <1>4, <1>5 DEF AcpInv

\* What reaches the agent, now or late, is the request that has its waiter.
LEMMA WriteRequestKeeps ==
  ASSUME AcpInv, WriteRequest
  PROVE  AcpInv'
<1>1. Unrouted' = Unrouted /\ (Distinct' <=> Distinct)
  BY SameLines DEF WriteRequest
<1>2. AcpTypeOK' /\ Minted' /\ Phases'
  BY <1>1 DEF AcpInv, AcpTypeOK, Minted, Phases, Open, WriteRequest, At,
              Written, TimesOut, WriteFails, Declined, written, agentVars
<1>3. Waiters' /\ InFlight'
  BY <1>1 DEF AcpInv, AcpTypeOK, Minted, Phases, Waiters, InFlight, Routing,
              WriteRequest, At, Written, TimesOut, WriteFails, Declined,
              written, agentVars
<1>4. strays' = 0 => Once'
  BY <1>1 DEF AcpInv, AcpTypeOK, Minted, Phases, Once, Open, WriteRequest, At,
              Written, TimesOut, WriteFails, Declined, written, agentVars
<1>5. strays' = 0 /\ Routing' => Waited' /\ Single'
  BY <1>1 DEF AcpInv, AcpTypeOK, Minted, Phases, Once, Waited, Single, Open,
              Routing, WriteRequest, At, Written, TimesOut, WriteFails,
              Declined, written, agentVars
<1> QED
  BY <1>2, <1>3, <1>4, <1>5 DEF AcpInv

\* A session is established with its request the last one minted, so that no
\* turn is open when it begins.
LEMMA AwaitResponseKeeps ==
  ASSUME AcpInv, AwaitResponse
  PROVE  AcpInv'
<1>1. Unrouted' = Unrouted /\ (Distinct' <=> Distinct)
  BY SameLines DEF AwaitResponse
<1>2. AcpTypeOK' /\ Minted' /\ Phases'
  BY <1>1 DEF AcpInv, AcpTypeOK, Minted, Phases, Open, AwaitResponse, At,
              Declined, written, agentVars
<1>3. Waiters' /\ InFlight'
  BY <1>1 DEF AcpInv, AcpTypeOK, Minted, Phases, Waiters, InFlight, Routing,
              AwaitResponse, At, Declined, written, agentVars
<1>4. strays' = 0 => Once'
  BY <1>1 DEF AcpInv, AcpTypeOK, Minted, Phases, Once, Open, AwaitResponse,
              At, Declined, written, agentVars
<1>5. strays' = 0 /\ Routing' => Waited' /\ Single'
  BY <1>1 DEF AcpInv, AcpTypeOK, Minted, Phases, Once, Waited, Single, Open,
              Routing, AwaitResponse, At, Declined, written, agentVars
<1> QED
  BY <1>2, <1>3, <1>4, <1>5 DEF AcpInv

\* With no turn marked and the lock taken, the fresh id is in no one's hands.
LEMMA BeginPromptKeeps ==
  ASSUME AcpInv, BeginPrompt
  PROVE  AcpInv'
<1>1. Unrouted' = Unrouted /\ (Distinct' <=> Distinct)
  BY SameLines DEF BeginPrompt
<1> QED
  BY <1>1 DEF AcpInv, AcpTypeOK, Minted, Phases, Waiters, InFlight, Once,
              Waited, Single, Open, Routing, BeginPrompt, At, written,
              agentVars

\* The turn is with the agent before it is marked; a write that is given up
\* leaves a pipe on which no other turn can be written.
LEMMA WritePromptKeeps ==
  ASSUME AcpInv, WritePrompt
  PROVE  AcpInv'
<1>1. Unrouted' = Unrouted /\ (Distinct' <=> Distinct)
  BY SameLines DEF WritePrompt
<1>2. AcpTypeOK'
  BY DEF AcpInv, AcpTypeOK, Phases, WritePrompt, At, Written, TimesOut,
         WriteFails, written, agentVars
<1>3. Minted' /\ Phases'
  BY <1>1 DEF AcpInv, AcpTypeOK, Minted, Phases, Open, WritePrompt, At,
              Written, TimesOut, WriteFails, written, agentVars
<1>4. Waiters' /\ InFlight'
  BY <1>1 DEF AcpInv, AcpTypeOK, Minted, Phases, Waiters, InFlight, Routing,
              WritePrompt, At, Written, TimesOut, WriteFails, written,
              agentVars
<1>5. strays' = 0 => Once'
  BY <1>1 DEF AcpInv, AcpTypeOK, Minted, Phases, Once, Open, WritePrompt, At,
              Written, TimesOut, WriteFails, written, agentVars
<1>6. strays' = 0 /\ Routing' => Waited' /\ Single'
  BY <1>1 DEF AcpInv, AcpTypeOK, Minted, Phases, Once, Waited, Single, Open,
              Routing, WritePrompt, At, Written, TimesOut, WriteFails,
              written, agentVars
<1> QED
  BY <1>2, <1>3, <1>4, <1>5, <1>6 DEF AcpInv

\* The mark is set before the reader can take it.
LEMMA MarkPromptKeeps ==
  ASSUME AcpInv, MarkPrompt
  PROVE  AcpInv'
<1>1. Unrouted' = Unrouted /\ (Distinct' <=> Distinct)
  BY SameLines DEF MarkPrompt
<1>2. AcpTypeOK' /\ Minted' /\ Phases'
  BY <1>1 DEF AcpInv, AcpTypeOK, Minted, Phases, Open, MarkPrompt, At,
              written, agentVars
<1>3. Waiters' /\ InFlight'
  BY <1>1 DEF AcpInv, AcpTypeOK, Minted, Phases, Waiters, InFlight, Routing,
              MarkPrompt, At, written, agentVars
<1>4. strays' = 0 => Once'
  BY <1>1 DEF AcpInv, AcpTypeOK, Minted, Phases, Once, Open, MarkPrompt, At,
              written, agentVars
<1>5. strays' = 0 /\ Routing' => Waited' /\ Single'
  BY <1>1 DEF AcpInv, AcpTypeOK, Minted, Phases, Once, Waited, Single, Open,
              Routing, MarkPrompt, At, written, agentVars
<1> QED
  BY <1>2, <1>3, <1>4, <1>5 DEF AcpInv

\* The pipe may be lost; no request is written.
LEMMA CancelTurnKeeps ==
  ASSUME AcpInv, CancelTurn
  PROVE  AcpInv'
<1>1. Unrouted' = Unrouted /\ (Distinct' <=> Distinct)
  BY SameLines DEF CancelTurn
<1> QED
  BY <1>1 DEF AcpInv, AcpTypeOK, Minted, Phases, Waiters, InFlight, Once,
              Waited, Single, Open, Routing, CancelTurn, agentVars

\* Nothing is written after the stdin is closed.
LEMMA DropConnectionKeeps ==
  ASSUME AcpInv, DropConnection
  PROVE  AcpInv'
<1>1. Unrouted' = Unrouted /\ (Distinct' <=> Distinct)
  BY SameLines DEF DropConnection
<1> QED
  BY <1>1 DEF AcpInv, AcpTypeOK, Minted, Phases, Waiters, InFlight, Once,
              Waited, Single, Open, Routing, DropConnection, At, agentVars

\* The reader stops reading.
LEMMA StdoutEndsKeeps ==
  ASSUME AcpInv, StdoutEnds
  PROVE  AcpInv'
<1>1. Unrouted' = Unrouted /\ (Distinct' <=> Distinct)
  BY SameLines DEF StdoutEnds
<1> QED
  BY <1>1 DEF AcpInv, AcpTypeOK, Minted, Phases, Waiters, InFlight, Once,
              Waited, Single, Open, Routing, StdoutEnds, written, agentVars

\* The reader fails the waiters.
LEMMA FailWaitersKeeps ==
  ASSUME AcpInv, FailWaiters
  PROVE  AcpInv'
<1>1. Unrouted' = Unrouted /\ (Distinct' <=> Distinct)
  BY SameLines DEF FailWaiters
<1>2. AcpTypeOK' /\ Minted' /\ Phases'
  BY <1>1 DEF AcpInv, AcpTypeOK, Minted, Phases, Open, FailWaiters, written,
              agentVars
<1>3. Waiters' /\ InFlight'
  BY <1>1 DEF AcpInv, Waiters, InFlight, Routing, FailWaiters, written,
              agentVars
<1>4. strays' = 0 => Once'
  BY <1>1 DEF AcpInv, Once, Open, FailWaiters, written, agentVars
<1>5. strays' = 0 /\ Routing' => Waited' /\ Single'
  BY <1>1 DEF AcpInv, Waited, Single, Open, Routing, FailWaiters, written,
              agentVars
<1> QED
  BY <1>2, <1>3, <1>4, <1>5 DEF AcpInv

\* Past this step the reader routes nothing.
LEMMA ClearTurnKeeps ==
  ASSUME AcpInv, ClearTurn
  PROVE  AcpInv'
<1>1. Unrouted' = Unrouted /\ (Distinct' <=> Distinct)
  BY SameLines DEF ClearTurn
<1> QED
  BY <1>1 DEF AcpInv, AcpTypeOK, Minted, Phases, Waiters, InFlight, Once,
              Waited, Single, Open, Routing, ClearTurn, PromptLockFree,
              written, agentVars

\* Its clone's drop closes the stdin.
LEMMA ReaderDropsKeeps ==
  ASSUME AcpInv, ReaderDrops
  PROVE  AcpInv'
<1>1. Unrouted' = Unrouted /\ (Distinct' <=> Distinct)
  BY SameLines DEF ReaderDrops
<1> QED
  BY <1>1 DEF AcpInv, AcpTypeOK, Minted, Phases, Waiters, InFlight, Once,
              Waited, Single, Open, Routing, ReaderDrops, agentVars

\* A late write moves its request to the agent.
LEMMA LateWriteKeeps ==
  ASSUME AcpInv, LateWrite
  PROVE  AcpInv'
<1>1. Unrouted' = Unrouted /\ (Distinct' <=> Distinct)
  BY SameLines DEF LateWrite
<1>2. 0 \notin Unrouted
  BY DEF Unrouted, Ask
<1>3. AcpTypeOK' /\ Minted' /\ Phases'
  BY <1>1 DEF AcpInv, AcpTypeOK, Minted, Phases, Open, LateWrite, agentVars
<1>4. Waiters' /\ InFlight'
  BY <1>1 DEF AcpInv, AcpTypeOK, Minted, Phases, Waiters, InFlight, Routing,
              LateWrite, agentVars
<1>5. strays' = 0 => Once'
  BY <1>1, <1>2 DEF AcpInv, AcpTypeOK, Minted, Phases, Once, Open, LateWrite,
                    agentVars
<1>6. strays' = 0 /\ Routing' => Waited' /\ Single'
  BY <1>1 DEF AcpInv, AcpTypeOK, Minted, Phases, Once, Waited, Single, Open,
              Routing, LateWrite, agentVars
<1> QED
  BY <1>3, <1>4, <1>5, <1>6 DEF AcpInv

\* The agent's death answers nothing.
LEMMA AgentEndsKeeps ==
  ASSUME AcpInv, AgentEnds
  PROVE  AcpInv'
<1>1. Unrouted' = Unrouted /\ (Distinct' <=> Distinct)
  BY SameLines DEF AgentEnds
<1>2. AcpTypeOK'
  BY DEF AcpInv, AcpTypeOK, AgentEnds, written, agentVars
<1> QED
  BY <1>1, <1>2 DEF AcpInv, Minted, Phases, Waiters, InFlight, Once, Waited,
                    Single, Open, Routing, AgentEnds, written, agentVars

\* An answer ends its waiter or, when it has none, the one open turn.
LEMMA RouteResponseKeeps ==
  ASSUME AcpInv, RouteResponse
  PROVE  AcpInv'
<1>1. /\ stdout' \in Seq(Nat) /\ Head(stdout) \in Nat
      /\ Unrouted = Unrouted' \cup ({Head(stdout)} \ {Ask})
      /\ Distinct => Head(stdout) \notin Unrouted'
      /\ Distinct => Distinct'
  BY PopFacts DEF AcpInv, RouteResponse
<1> DEFINE id == Head(stdout)
<1>2. /\ id # 0 /\ acpReader = "reading"
      /\ UNCHANGED <<stdin, owed, stuck, session, nextId, caller, acpReader, serving, strays, asks>>
      /\ Unrouted = Unrouted' \cup {id}
      /\ Open = Open' \cup {id}
  BY <1>1 DEF RouteResponse, Open, Ask, written, agentVars
<1>3. CASE id \in pending
  <2>1. /\ pending' = pending \ {id} /\ UNCHANGED prompt
        /\ IF Waits(id) THEN inbox' \in {"ok", "error"} ELSE UNCHANGED inbox
    BY <1>3 DEF RouteResponse
  <2>2. session # 0 => id <= session
    BY <1>3 DEF AcpInv, Waiters
  <2>3. AcpTypeOK'
    BY <1>1, <1>2, <2>1 DEF AcpInv, AcpTypeOK
  <2>4. Minted' /\ Phases'
    BY <1>2, <2>1 DEF AcpInv, AcpTypeOK, Minted, Phases
  <2>5. Waiters'
    BY <1>2, <2>1 DEF AcpInv, AcpTypeOK, Minted, Waiters, Waits
  <2>6. InFlight'
    BY <1>2, <2>1, <2>2 DEF AcpInv, AcpTypeOK, Phases, InFlight, Routing
  <2>7. strays' = 0 => Once'
    BY <1>1, <1>2 DEF AcpInv, Once
  <2>8. strays' = 0 /\ Routing' => Single'
    BY <1>2, <2>1 DEF AcpInv, Single, Routing
  <2>9. strays' = 0 => id \notin Open'
    BY <1>1, <1>2 DEF AcpInv, Once, Open
  <2>10. strays' = 0 /\ caller.at = "write" => id # caller.id
    BY <1>2 DEF AcpInv, Once
  <2>11. strays' = 0 /\ Routing' => Waited'
    BY <1>2, <2>1, <2>9, <2>10 DEF AcpInv, Waited, Routing
  <2> QED
    BY <2>3, <2>4, <2>5, <2>6, <2>7, <2>8, <2>11 DEF AcpInv
<1>4. CASE id \notin pending
  <2>1. prompt' = 0 /\ UNCHANGED <<pending, inbox>> /\ caller.at \notin {"sending", "mark"}
    BY <1>4 DEF RouteResponse, PromptLockFree
  <2>2. AcpTypeOK'
    BY <1>1, <1>2, <2>1 DEF AcpInv, AcpTypeOK
  <2>3. Minted' /\ Phases'
    BY <1>2, <2>1 DEF AcpInv, AcpTypeOK, Minted, Phases
  <2>4. Waiters'
    BY <1>2, <1>4, <2>1 DEF AcpInv, AcpTypeOK, Waiters
  <2>5. InFlight'
    BY <1>2, <2>1 DEF InFlight
  <2>6. strays' = 0 => Once'
    BY <1>1, <1>2 DEF AcpInv, Once
  <2>7. strays' = 0 => Waited'
    BY <1>2, <2>1 DEF AcpInv, Waited, Routing
  <2>8. ASSUME strays = 0
        PROVE  Single'
    <3>1. id \notin Open'
      BY <1>1, <1>2, <2>8 DEF AcpInv, Once, Open
    <3>2. Single /\ Waited
      BY <1>2, <2>8 DEF AcpInv, Routing
    <3>3. session # 0 /\ id > session
      BY <1>1, <1>2, <1>4, <3>2 DEF AcpInv, AcpTypeOK, Waited
    <3>4. \/ id = prompt
          \/ stdin # "live" /\ \A other \in Open : other > session => other = id
      BY <1>2, <2>1, <3>2, <3>3 DEF Single
    <3> QED
      BY <1>2, <2>1, <3>1, <3>2, <3>3, <3>4 DEF Single
  <2> QED
    BY <1>2, <2>2, <2>3, <2>4, <2>5, <2>6, <2>7, <2>8 DEF AcpInv
<1> QED
  BY <1>3, <1>4

\* A request of the agent answers nothing.
LEMMA RouteRequestKeeps ==
  ASSUME AcpInv, RouteRequest
  PROVE  AcpInv'
<1>1. /\ stdout' \in Seq(Nat) /\ Head(stdout) \in Nat
      /\ Unrouted = Unrouted' \cup ({Head(stdout)} \ {Ask})
      /\ Distinct => Head(stdout) \notin Unrouted'
      /\ Distinct => Distinct'
  BY PopFacts DEF AcpInv, RouteRequest
<1> QED
  BY <1>1 DEF AcpInv, AcpTypeOK, Minted, Phases, Waiters, InFlight, Once,
              Waited, Single, Open, Routing, RouteRequest, agentVars, Ask

\* An answer moves its request from the agent to the stdout.
LEMMA AnswerKeeps ==
  ASSUME AcpInv, NEW id \in 1 .. MaxIds, Answer(id)
  PROVE  AcpInv'
<1>1. /\ id \in Nat
      /\ stdout' \in Seq(Nat)
      /\ Unrouted' = Unrouted \cup ({id} \ {Ask})
      /\ Distinct /\ id \notin Unrouted => Distinct'
  BY PushFacts DEF AcpInv, Ask, Answer
<1>2. AcpTypeOK' /\ Minted' /\ Phases'
  BY <1>1 DEF AcpInv, AcpTypeOK, Minted, Phases, Open, Answer, agentVars, Ask
<1>3. Waiters' /\ InFlight'
  BY <1>1 DEF AcpInv, AcpTypeOK, Minted, Phases, Waiters, InFlight, Routing,
              Answer, agentVars, Ask
<1>4. strays' = 0 => Once'
  BY <1>1 DEF AcpInv, AcpTypeOK, Minted, Phases, Once, Open, Answer,
              agentVars, Ask
<1>5. strays' = 0 /\ Routing' => Waited' /\ Single'
  BY <1>1 DEF AcpInv, AcpTypeOK, Minted, Phases, Once, Waited, Single, Open,
              Routing, Answer, agentVars, Ask
<1> QED
  BY <1>2, <1>3, <1>4, <1>5 DEF AcpInv

\* Beyond a stray answer only the first parts of the invariant are claimed.
LEMMA StrayAnswerKeeps ==
  ASSUME AcpInv, NEW id \in 1 .. MaxIds, StrayAnswer(id)
  PROVE  AcpInv'
<1>1. /\ id \in Nat
      /\ stdout' \in Seq(Nat)
      /\ Unrouted' = Unrouted \cup ({id} \ {Ask})
      /\ Distinct /\ id \notin Unrouted => Distinct'
  BY PushFacts DEF AcpInv, Ask, StrayAnswer
<1> QED
  BY <1>1 DEF AcpInv, AcpTypeOK, Minted, Phases, Waiters, InFlight, Once,
              Waited, Single, Open, Routing, StrayAnswer, written, Ask

\* The agent's own request is no answer.
LEMMA AgentAsksKeeps ==
  ASSUME AcpInv, AgentAsks
  PROVE  AcpInv'
<1>1. /\ Ask \in Nat
      /\ stdout' \in Seq(Nat)
      /\ Unrouted' = Unrouted \cup ({Ask} \ {Ask})
      /\ Distinct /\ Ask \notin Unrouted => Distinct'
  BY PushFacts DEF AcpInv, Ask, AgentAsks
<1>2. 0 \notin Unrouted
  BY DEF Unrouted, Ask
<1> QED
  BY <1>1, <1>2 DEF AcpInv, AcpTypeOK, Minted, Phases, Waiters, InFlight,
                    Once, Waited, Single, Open, Routing, AgentAsks, written,
                    Ask

\* Nothing is open when the agent is launched.
LEMMA AcpInitial ==
  ASSUME AcpAssumption, AcpInit
  PROVE  AcpInv
<1>1. stdout \in Seq(Nat) /\ Len(stdout) = 0 /\ DOMAIN stdout = {}
  BY EmptySeq DEF AcpInit
<1>2. Unrouted = {} /\ Distinct
  BY <1>1 DEF Unrouted, Distinct
<1>3. AcpTypeOK
  BY <1>1 DEF AcpInit, AcpTypeOK, At
<1>4. Minted /\ Phases /\ Waiters /\ InFlight
  BY <1>2 DEF AcpInit, Minted, Phases, Waiters, InFlight, Open, At
<1>5. Once /\ Waited /\ Single
  BY <1>2 DEF AcpInit, Once, Waited, Single, Open, At
<1> QED
  BY <1>3, <1>4, <1>5 DEF AcpInv

\* A step of the others.
LEMMA AcpStutters ==
  ASSUME AcpInv, UNCHANGED acpVars
  PROVE  AcpInv'
<1>1. Unrouted' = Unrouted /\ (Distinct' <=> Distinct)
  BY SameLines DEF acpVars
<1> QED
  BY <1>1 DEF AcpInv, AcpTypeOK, Minted, Phases, Waiters, InFlight, Once,
              Waited, Single,
              Open, Routing, acpVars

\* The connection keeps its bookkeeping, whatever the order of the caller's
\* steps, the reader's and the agent's: every answer that is still to come
\* has its waiter or is the one turn.
THEOREM AcpInductive == AcpAssumption /\ AcpSpec => []AcpInv
<1>1. AcpAssumption /\ AcpInit => AcpInv
  BY AcpInitial
<1>2. AcpInv /\ [AcpNext]_acpVars => AcpInv'
  <2> SUFFICES ASSUME AcpInv, [AcpNext]_acpVars
               PROVE  AcpInv'
    OBVIOUS
  <2>1. CASE Caller
    BY <2>1, SendRequestKeeps, WriteRequestKeeps, AwaitResponseKeeps, BeginPromptKeeps,
       WritePromptKeeps, MarkPromptKeeps, CancelTurnKeeps, DropConnectionKeeps DEF Caller
  <2>2. CASE Reading
    BY <2>2, RouteResponseKeeps, RouteRequestKeeps, StdoutEndsKeeps, FailWaitersKeeps,
       ClearTurnKeeps, ReaderDropsKeeps DEF Reading
  <2>3. CASE AgentSide
    BY <2>3, AnswerKeeps, StrayAnswerKeeps, AgentAsksKeeps, LateWriteKeeps, AgentEndsKeeps
       DEF AgentSide
  <2>4. CASE UNCHANGED acpVars
    BY <2>4, AcpStutters
  <2> QED
    BY <2>1, <2>2, <2>3, <2>4 DEF AcpNext
<1> QED
  BY <1>1, <1>2, PTL DEF AcpSpec

\* A set without two elements.
LEMMA AtMostOne ==
  ASSUME NEW T, \A x, y \in T : x = y
  PROVE  Cardinality(T) <= 1
<1>1. CASE T = {}
  BY <1>1, FS_EmptySet
<1>2. CASE T # {}
  <2>1. PICK x : T = {x}
    BY <1>2
  <2>2. Cardinality({x}) = 1
    BY FS_Singleton
  <2> QED
    BY <2>1, <2>2
<1> QED
  BY <1>1, <1>2

\* Requests and turns are correlated with their answers, for any number of
\* requests, stray answers and requests of the agent: one turn at a time, a
\* turn in flight can still end, and no awaited answer is routed past its
\* waiter.
THEOREM TurnsAreCorrelated == AcpAssumption /\ AcpSpec => []Correlated
<1>1. AcpInv => Correlated
  <2> SUFFICES ASSUME AcpInv
               PROVE  Correlated
    OBVIOUS
  <2>1. ASSUME Routing, strays = 0
        PROVE  Cardinality(Turns) <= 1
    <3>1. Single /\ Turns \subseteq Open /\ \A id \in Turns : session # 0 /\ id > session
      BY <2>1 DEF AcpInv, Turns, Open
    <3>2. session \in Nat /\ (caller.at = "mark" => prompt = 0)
      BY DEF AcpInv, AcpTypeOK, Phases
    <3>3. \A x, y \in Turns : x = y
      BY <3>1, <3>2 DEF Single
    <3> QED
      BY <3>3, AtMostOne
  <2>2. Routing /\ prompt # 0 => prompt \in Turns
    BY DEF AcpInv, Phases, InFlight, Turns
  <2>3. acpReader = "reading" /\ caller.at = "await" /\ inbox = "none" =>
          caller.id \in owed \cup Unrouted
    BY DEF AcpInv, Waiters
  <2> QED
    BY <2>1, <2>2, <2>3 DEF Correlated
<1> QED
  BY <1>1, AcpInductive, PTL
=============================================================================
