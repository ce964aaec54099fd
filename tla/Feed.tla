-------------------------------- MODULE Feed --------------------------------
(***************************************************************************)
(* How a committed event of one instance reaches a host.  The supervisor   *)
(* commits one to several events in one writer job and then, still under   *)
(* its lock, publishes them on a bounded broadcast ring; a crash between   *)
(* the two loses them from the ring.  A host streams the ring over         *)
(* GET /v0/events and heals every gap (connect, lag frame) with            *)
(* resync_events, which reads the rows past a per-family count.  Run       *)
(* events are on the ring and in the outbox, but resync does not carry     *)
(* them.  Sources: domain/{bus,resync}.rs, domain/supervisor/mod.rs,       *)
(* store/{run_store_sqlite,sqlite}.rs, hekma-host/src/control/sse.rs.      *)
(***************************************************************************)
EXTENDS Integers, Sequences, SequencesExt, FiniteSets

CONSTANTS
  Families,    \* the families resync reads: transitions, breaches, usage
  FamilyOf,    \* the family of the n-th event; "run" is none of Families
  JobMax,      \* bound: events one writer job commits
  Ring,        \* EVENT_BUS_CAPACITY
  MaxEvents,   \* bound: events committed
  MaxCrashes,  \* bound: engine crashes
  MaxBreaks,   \* bound: streams that end while the engine is up
  MaxRemoves   \* bound: removals of the instance

ASSUME FeedAssumption ==
  /\ MaxEvents \in Nat /\ MaxCrashes \in Nat /\ MaxBreaks \in Nat
  /\ MaxRemoves \in Nat /\ Ring \in Nat \ {0} /\ JobMax \in Nat \ {0}
  /\ FamilyOf \in [1 .. MaxEvents -> Families \cup {"run"}]

VARIABLES
  committed,   \* how many events have been committed
  rowlog,      \* the instance's event rows, in commit order
  unpublished, \* committed by the operation under way, to be published
  published,   \* what this engine has sent on the bus
  stream,      \* the host holds an open stream
  position,    \* the stream's receiver: how far it has read
  due,         \* the host owes itself a resync
  got,         \* the events the host holds
  resyncAt,    \* its ResyncCursor
  madeIn,      \* which registration of the name the cursor was made in
  registered,  \* the registrations of the name so far
  skewed,      \* a cursor of an earlier registration has been accepted
  crashes, breaks

feedVars == <<committed, rowlog, unpublished, published, stream, position, due,
              got, resyncAt, madeIn, registered, skewed, crashes, breaks>>

START == [f \in Families |-> 0]

FeedInit ==
  /\ committed = 0 /\ rowlog = <<>> /\ unpublished = <<>> /\ published = <<>>
  /\ stream = FALSE /\ position = 0 /\ due = FALSE /\ got = {}
  /\ resyncAt = START /\ madeIn = 1 /\ registered = 1 /\ skewed = FALSE
  /\ crashes = 0 /\ breaks = 0

\* The instance's rows of one family, and a row's ordinal among them.
RowsOf(f) == {i \in DOMAIN rowlog : FamilyOf[rowlog[i]] = f}
Ordinal(f, i) == Cardinality({j \in RowsOf(f) : j <= i})
Counts == [f \in Families |-> Cardinality(RowsOf(f))]

------------------------------------------------------------------------------
(* The engine. *)

\* One writer job: the rows (and the outbox rows) of its events in one
\* transaction.  The lock is held until they are published.
CommitEvents(k) ==
  /\ unpublished = <<>> /\ committed + k <= MaxEvents
  /\ LET new == [i \in 1 .. k |-> committed + i]
     IN  /\ rowlog' = rowlog \o new
         /\ unpublished' = new
  /\ committed' = committed + k
  /\ UNCHANGED <<published, stream, position, due, got, resyncAt, madeIn,
                 registered, skewed, crashes, breaks>>

\* EventBus::publish.
Publish ==
  /\ unpublished # <<>>
  /\ published' = Append(published, Head(unpublished))
  /\ unpublished' = Tail(unpublished)
  /\ UNCHANGED <<committed, rowlog, stream, position, due, got, resyncAt, madeIn,
                 registered, skewed, crashes, breaks>>

\* The engine dies and is opened again: the bus is new, streams have ended.
CrashFeed ==
  /\ crashes < MaxCrashes /\ crashes' = crashes + 1
  /\ published' = <<>> /\ unpublished' = <<>>
  /\ stream' = FALSE /\ position' = 0
  /\ UNCHANGED <<committed, rowlog, due, got, resyncAt, madeIn, registered,
                 skewed, breaks>>

\* The instance is removed (its rows go with it) and the name registered anew.
RemoveInstance ==
  /\ registered <= MaxRemoves /\ unpublished = <<>>
  /\ rowlog' = <<>>
  /\ registered' = registered + 1
  /\ UNCHANGED <<committed, unpublished, published, stream, position, due, got,
                 resyncAt, madeIn, skewed, crashes, breaks>>

------------------------------------------------------------------------------
(* The stream. *)

\* EventBus::subscribe: at the current tail.
SubscribeAt == Len(published)

\* live_events: the host connects, and resyncs after it has subscribed.
Connect ==
  /\ ~ stream /\ stream' = TRUE
  /\ position' = SubscribeAt
  /\ due' = TRUE
  /\ UNCHANGED <<committed, rowlog, unpublished, published, got, resyncAt, madeIn,
                 registered, skewed, crashes, breaks>>

Lagging == Len(published) - position > Ring

\* One event as one frame.
Receive ==
  /\ stream /\ position < Len(published) /\ ~ Lagging
  /\ got' = got \cup {published[position + 1]}
  /\ position' = position + 1
  /\ UNCHANGED <<committed, rowlog, unpublished, published, stream, due, resyncAt,
                 madeIn, registered, skewed, crashes, breaks>>

\* Seeded fault: the lag is skipped without a frame.
LagSilent == due

\* The lagged frame tells the host of the gap.
LagFrame == TRUE

\* Lagged(n): the receiver goes on at the oldest event the ring retains.
Lag ==
  /\ stream /\ Lagging
  /\ position' = Len(published) - Ring
  /\ due' = LagFrame
  /\ UNCHANGED <<committed, rowlog, unpublished, published, stream, got, resyncAt,
                 madeIn, registered, skewed, crashes, breaks>>

\* The shutdown signal of the API, or a connection that drops.
EndStream ==
  /\ stream /\ breaks < MaxBreaks /\ breaks' = breaks + 1
  /\ stream' = FALSE /\ position' = 0
  /\ UNCHANGED <<committed, rowlog, unpublished, published, due, got, resyncAt,
                 madeIn, registered, skewed, crashes>>

------------------------------------------------------------------------------
(* resync_events. *)

\* Seeded fault: a cursor at the end of a family is taken for a truncated one.
TruncatedAtEnd == \E f \in Families : resyncAt[f] >= Counts[f]

\* reject_truncated_family: a family's count is below the cursor.
Truncated == \E f \in Families : resyncAt[f] > Counts[f]

\* The rows a batch carries: those past the cursor's position.
Batch(f) == {rowlog[i] : i \in {j \in RowsOf(f) : Ordinal(f, j) > resyncAt[f]}}

\* The position after a batch: what each family held in the snapshot.
NextPosition == Counts

\* read_committed and assemble.  A host whose cursor is refused starts over.
Resync ==
  /\ stream /\ due
  /\ \/ /\ Truncated
        /\ resyncAt' = START
        /\ madeIn' = registered
        /\ UNCHANGED <<got, due, skewed>>
     \/ /\ ~ Truncated
        /\ got' = got \cup UNION {Batch(f) : f \in Families}
        /\ skewed' = (skewed \/ (madeIn # registered /\ resyncAt # START))
        /\ resyncAt' = NextPosition
        /\ madeIn' = registered
        /\ due' = FALSE
  /\ UNCHANGED <<committed, rowlog, unpublished, published, stream, position,
                 registered, crashes, breaks>>

Host == Connect \/ Receive \/ Lag \/ Resync

FeedNext ==
  \/ \E k \in 1 .. JobMax : CommitEvents(k)
  \/ Publish \/ CrashFeed \/ RemoveInstance \/ EndStream
  \/ Host

\* The operation under way finishes; the host reads, and resyncs, again and
\* again (Resync on its own: a busy stream must not starve it).
FeedSpec == FeedInit /\ [][FeedNext]_feedVars
              /\ WF_feedVars(Publish) /\ WF_feedVars(Host) /\ WF_feedVars(Resync)

------------------------------------------------------------------------------
Event == 1 .. MaxEvents

FeedTypeOK ==
  /\ committed \in 0 .. MaxEvents
  /\ rowlog \in Seq(Event) /\ unpublished \in Seq(Event) /\ published \in Seq(Event)
  /\ stream \in BOOLEAN /\ due \in BOOLEAN /\ skewed \in BOOLEAN
  /\ position \in 0 .. Len(published)
  /\ got \subseteq Event
  /\ resyncAt \in [Families -> 0 .. MaxEvents]
  /\ registered \in 1 .. MaxRemoves + 1 /\ madeIn \in 1 .. registered
  /\ crashes \in 0 .. MaxCrashes /\ breaks \in 0 .. MaxBreaks

\* The committed events that neither the host holds nor its stream still
\* brings or replaces by a lag frame.
Missing ==
  { e \in ToSet(rowlog) : /\ FamilyOf[e] # "run"
                          /\ e \notin got \cup ToSet(unpublished)
                          /\ \A i \in position + 1 .. Len(published) : published[i] # e }

\* Subscribe first and resync then leaves no gap: a host with no resync
\* outstanding misses no committed event of the families resync carries,
\* whatever was lost to lag, to a crash between commit and publish, or to a
\* broken stream.  A cursor of an earlier registration of the name is set
\* aside: once the new rows reach its counts it is accepted, and the rows
\* before it are skipped (resync.rs:265).
NoSilentGap == stream /\ ~ due /\ ~ skewed => Missing = {}

\* Every committed event reaches a host that keeps reading, unless its
\* instance is removed first.
FeedDelivers ==
  \A e \in Event :
    e \in ToSet(rowlog) /\ FamilyOf[e] # "run"
      ~> e \in got \/ e \notin ToSet(rowlog) \/ skewed
=============================================================================
