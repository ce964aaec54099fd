------------------------------- MODULE Outbox -------------------------------
(***************************************************************************)
(* The export of committed events to a host on a disk that may not last.   *)
(* Every committed event is appended to the outbox in the transaction of   *)
(* its commit, under an increasing seq; at its byte cap the append drops   *)
(* the acknowledged prefix and then, only as far as it must, the oldest    *)
(* entries nobody has acknowledged.  The host pulls by cursor and          *)
(* acknowledges; its requests may be repeated, late or lost, and it may    *)
(* restart with nothing but what it acknowledged.                          *)
(* Sources: domain/outbox.rs, store/run_store_sqlite.rs.                   *)
(***************************************************************************)
EXTENDS Integers, FiniteSets, FiniteSetsExt

CONSTANTS
  Bytes,         \* the size of the n-th event
  OutboxCap,     \* OUTBOX_MAX_BYTES
  PageMax,       \* bound: entries a pull asks for
  MaxAppends,    \* bound: events committed
  MaxRestarts    \* bound: restarts of the host

ASSUME OutboxAssumption ==
  /\ MaxAppends \in Nat /\ MaxRestarts \in Nat /\ OutboxCap \in Nat
  /\ PageMax \in Nat \ {0} /\ Bytes \in [1 .. MaxAppends -> Nat \ {0}]

VARIABLES
  seqs,      \* the outbox rows: the seqs still retained
  minted,    \* the AUTOINCREMENT counter of the table
  acked,     \* outbox_meta.ack_seq, 0 for none
  pulledTo,  \* the host's own cursor, or None
  storedTo,  \* how far it has stored for good, and said so
  pulled,    \* the entries it holds
  toldLost,  \* the floor it was refused below: it gave up what lies under it
  restarts

outboxVars == <<seqs, minted, acked, pulledTo, storedTo, pulled, toldLost, restarts>>

None == -1

OutboxInit ==
  /\ seqs = {} /\ minted = 0 /\ acked = 0
  /\ pulledTo = None /\ storedTo = 0 /\ pulled = {} /\ toldLost = 0 /\ restarts = 0

------------------------------------------------------------------------------
(* outbox_bounds. *)

RetainedFrom == IF seqs = {} THEN 1 ELSE Min(seqs)
TailSeq == IF seqs = {} THEN 0 ELSE Max(seqs)

\* total_bytes: the running sum over the rows.
Size(S) == FoldSet(LAMBDA s, sum : sum + Bytes[s], 0, S)

\* What is still over the cap once every row below s is dropped.
NeedAfter(s, incoming) == Size({t \in seqs : t >= s}) + incoming - OutboxCap

\* The rows an append of this size drops: none under the cap; else the
\* acknowledged prefix and, while still over, the oldest of the others.
\* The last row always stays, so the bounds survive.
Dropped(incoming) ==
  { s \in seqs : /\ Size(seqs) + incoming > OutboxCap
                 /\ s < TailSeq
                 /\ s <= acked \/ NeedAfter(s, incoming) > 0 }

\* append_outbox, inside the job that commits the event.
AppendOutbox ==
  /\ minted < MaxAppends
  /\ minted' = minted + 1
  /\ seqs' = (seqs \ Dropped(Bytes[minted + 1])) \cup {minted + 1}
  /\ UNCHANGED <<acked, pulledTo, storedTo, pulled, toldLost, restarts>>

------------------------------------------------------------------------------
(* export_core and ack_core. *)

\* Seeded fault: a cursor far below the floor is served from the floor.
BelowFloorClamped(after) == FALSE

\* select_batch refuses a cursor whose window begins with dropped entries.
BelowFloor(after) == after + 1 < RetainedFrom

\* The first entries after the cursor, at most n.
Page(after, n) ==
  { s \in seqs : s > after /\ Cardinality({t \in seqs : t > after /\ t < s}) < n }

\* A pull without a cursor resumes from the durable one.
After == IF pulledTo = None THEN acked ELSE pulledTo

\* One pull, bounds and page read in one snapshot.  Refused below the floor,
\* the host knows what it lost and resumes at the floor.
Pull(n) ==
  /\ \/ /\ BelowFloor(After)
        /\ pulledTo' = RetainedFrom - 1
        /\ toldLost' = RetainedFrom - 1
        /\ UNCHANGED pulled
     \/ /\ ~ BelowFloor(After) /\ After <= TailSeq
        /\ pulled' = pulled \cup Page(After, n)
        /\ pulledTo' = (IF Page(After, n) = {} THEN After ELSE Max(Page(After, n)))
        /\ UNCHANGED toldLost
  /\ UNCHANGED <<seqs, minted, acked, storedTo, restarts>>

\* The host stores what it has pulled before it acknowledges it.
Store ==
  /\ pulledTo > storedTo /\ storedTo' = pulledTo
  /\ UNCHANGED <<seqs, minted, acked, pulledTo, pulled, toldLost, restarts>>

\* The cursor never goes back.
AckTarget(given) == IF given > acked THEN given ELSE acked

\* An acknowledgement of anything the host has stored, perhaps a late or a
\* repeated one; past the tail it is refused.
AckExport(given) ==
  /\ AckTarget(given) <= TailSeq
  /\ acked' = AckTarget(given)
  /\ UNCHANGED <<seqs, minted, pulledTo, storedTo, pulled, toldLost, restarts>>

\* The host loses what it has not stored, its cursor included.
RestartHost ==
  /\ restarts < MaxRestarts /\ restarts' = restarts + 1
  /\ pulled' = {s \in pulled : s <= storedTo}
  /\ pulledTo' = None
  /\ UNCHANGED <<seqs, minted, acked, storedTo, toldLost>>

OutboxNext ==
  \/ AppendOutbox
  \/ \E n \in 1 .. PageMax : Pull(n)
  \/ Store
  \/ \E given \in 1 .. storedTo : AckExport(given)
  \/ RestartHost

OutboxSpec == OutboxInit /\ [][OutboxNext]_outboxVars

------------------------------------------------------------------------------
Seqs == 1 .. MaxAppends

OutboxTypeOK ==
  /\ seqs \subseteq Seqs /\ pulled \subseteq Seqs
  /\ minted \in 0 .. MaxAppends /\ acked \in 0 .. minted
  /\ pulledTo \in {None} \cup 0 .. minted
  /\ storedTo \in 0 .. minted /\ toldLost \in 0 .. minted
  /\ restarts \in 0 .. MaxRestarts

\* No silent loss: whatever the next pull leaves out, because it lies below
\* its cursor, the host holds or was refused for - through evictions, repeated
\* and late acknowledgements, and restarts of the host.  And nothing is lost
\* without need: the newest entry dropped without an acknowledgement would
\* not fit under the cap with what is kept.
ExportLossless ==
  /\ \A s \in 1 .. After : s \in pulled \/ s <= toldLost
  /\ RetainedFrom - 1 > acked => Size(seqs \cup {RetainedFrom - 1}) > OutboxCap
=============================================================================
