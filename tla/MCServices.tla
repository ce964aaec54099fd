----------------------------- MODULE MCServices -----------------------------
(* An instance of the services around the supervisor.  They share no state,
   so a behaviour moves one of them only, chosen at the start. *)
EXTENDS Writer, Feed, Outbox, Exporter, Runs, Adoption, Acp

CONSTANT Parts

VARIABLE part

vars == <<writerVars, feedVars, outboxVars, exporterVars, runsVars, adoptionVars, acpVars, part>>

InWriter(A) == part = "writer" /\ A /\ UNCHANGED <<feedVars, outboxVars, exporterVars, runsVars, adoptionVars, acpVars, part>>
InFeed(A) == part = "feed" /\ A /\ UNCHANGED <<writerVars, outboxVars, exporterVars, runsVars, adoptionVars, acpVars, part>>
InOutbox(A) == part = "outbox" /\ A /\ UNCHANGED <<writerVars, feedVars, exporterVars, runsVars, adoptionVars, acpVars, part>>
InExporter(A) == part = "exporter" /\ A /\ UNCHANGED <<writerVars, feedVars, outboxVars, runsVars, adoptionVars, acpVars, part>>
InRuns(A) == part = "runs" /\ A /\ UNCHANGED <<writerVars, feedVars, outboxVars, exporterVars, adoptionVars, acpVars, part>>
InAdoption(A) == part = "adoption" /\ A /\ UNCHANGED <<writerVars, feedVars, outboxVars, exporterVars, runsVars, acpVars, part>>
InAcp(A) == part = "acp" /\ A /\ UNCHANGED <<writerVars, feedVars, outboxVars, exporterVars, runsVars, adoptionVars, part>>

\* Engines are alike: they are opened in the order of their numbers.
InOrder == \A d, e \in Engines : d < e /\ at[e] # "new" => at[d] # "new"

Init ==
  /\ part \in Parts
  /\ WriterInit /\ FeedInit /\ OutboxInit /\ ExporterInit /\ RunsInit /\ AdoptionInit
  /\ AcpInit
  /\ part # "writer" => writer = "open"

Next ==
  \/ InWriter(WriterNext)
  \/ InFeed(FeedNext)
  \/ InOutbox(OutboxNext)
  \/ InExporter(ExporterNext)
  \/ InRuns(RunsNext)
  \/ InAdoption(AdoptionNext /\ InOrder')
  \/ InAcp(AcpNext)

\* The fairness of WriterSpec and FeedSpec.
Spec ==
  /\ Init /\ [][Next]_vars
  /\ WF_vars(InWriter(Thread))
  /\ WF_vars(InFeed(Publish)) /\ WF_vars(InFeed(Host)) /\ WF_vars(InFeed(Resync))

\* Two submitted jobs and two acknowledged ones; one of each has a hook.
MCJobs == 1 .. 4
MCAcked == {1, 2}
MCHooking == {2, 3}

MCFamilies == {"transition", "usage"}
MCFamilyOf == <<"transition", "usage", "run", "transition">>

MCBytes == <<1, 1, 1, 2, 1, 2>>
=============================================================================
