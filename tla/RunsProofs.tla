----------------------------- MODULE RunsProofs -----------------------------
(***************************************************************************)
(* What holds of the Runs of one instance, for any number of them: open    *)
(* Runs form a tree under one owner and carry its status, the published    *)
(* snapshot is the rows but for the notices still due, and an open Run     *)
(* says what the process does.  One inductive invariant, one lemma for     *)
(* each action.                                                            *)
(***************************************************************************)
EXTENDS Runs, FiniteSetTheorems, TLAPS

-----------------------------------------------------------------------------
(* Tables of Runs *)

Row == [status : Open \cup {"none", "ended"}, owner : BOOLEAN,
        above : SUBSET RunId, anomaly : BOOLEAN]
Table == [RunId -> Row]

OwnersIn(rs) == {r \in RunId : rs[r].owner /\ rs[r].status \in Open}

\* There is at most one open owner, and every other open Run lies below it, in
\* its status.
OneOwner(rs) == \A a, b \in OwnersIn(rs) : a = b
Below(rs) ==
  \A r \in RunId : rs[r].status \in Open /\ ~ rs[r].owner =>
    \E o \in OwnersIn(rs) : o \in rs[r].above /\ rs[o].status = rs[r].status
Tree(rs) == rs \in Table /\ OneOwner(rs) /\ Below(rs)

\* What every write but a removal leaves alone: who owns, and the unused rows.
Keeps(rs, now) ==
  \A r \in RunId : now[r].owner = rs[r].owner /\ (rs[r] = NoRow => now[r] = NoRow)

\* A move of the open owner takes the Runs below along.
LEMMA MoveTree ==
  ASSUME NEW rs, Tree(rs), NEW o \in OwnersIn(rs),
         NEW status \in Open \cup {"ended"}, NEW anomaly \in BOOLEAN,
         NEW new, new = MoveOwner(rs, o, status, anomaly)
  PROVE  /\ Tree(new) /\ Keeps(rs, new) /\ new[o].status = status
         /\ OwnersIn(new) = IF status \in Open THEN {o} ELSE {}
<1> DEFINE Moves(r) == rs[o].status # status /\ o \in rs[r].above /\ rs[r].status \in Open
<1>1. rs \in Table /\ o \in RunId /\ rs[o].owner /\ rs[o].status \in Open
  BY DEF Tree, OwnersIn
<1>3. new = [r \in RunId |-> new[r]]
  BY DEF MoveOwner
<1>4. ASSUME NEW r \in RunId
      PROVE  /\ new[r] \in Row /\ new[r].owner = rs[r].owner /\ new[r].above = rs[r].above
             /\ rs[r] = NoRow => new[r] = NoRow
             /\ new[r].status = IF r = o \/ Moves(r) THEN status ELSE rs[r].status
  <2>1. rs[r] \in Row /\ (r = o \/ Moves(r) => rs[r] # NoRow)
    BY <1>1 DEF Table, NoRow, Open
  <2>2. CASE r = o
    <3>1. new[r] = [rs[r] EXCEPT !.status = status, !.anomaly = anomaly]
      BY <1>1, <2>2 DEF MoveOwner
    <3> HIDE DEF Moves
    <3>2. ASSUME NEW row \in Row, row = rs[r]
          PROVE  /\ new[r] \in Row /\ new[r].owner = row.owner /\ new[r].above = row.above
                 /\ new[r].status = status
      BY <3>1, <3>2 DEF Row
    <3> QED BY <2>1, <2>2, <3>2
  <2>3. CASE r # o /\ Moves(r)
    <3>1. new[r] = [rs[r] EXCEPT !.status = status]
      BY <1>1, <2>3 DEF MoveOwner, Descendants
    <3> HIDE DEF Moves
    <3>2. ASSUME NEW row \in Row, row = rs[r]
          PROVE  /\ new[r] \in Row /\ new[r].owner = row.owner /\ new[r].above = row.above
                 /\ new[r].status = status
      BY <3>1, <3>2 DEF Row
    <3> QED BY <2>1, <2>3, <3>2
  <2>4. CASE r # o /\ ~ Moves(r)
    <3>1. new[r] = rs[r]
      BY <1>1, <2>4 DEF MoveOwner, Descendants
    <3> QED BY <2>1, <2>4, <3>1
  <2> QED BY <2>2, <2>3, <2>4
<1>5. new \in Table
  BY <1>3, <1>4 DEF Table
<1>6. Keeps(rs, new) /\ new[o].status = status
  BY <1>1, <1>4 DEF Keeps
<1>7. ASSUME NEW r \in OwnersIn(new) PROVE r = o
  <2>1. r \in RunId /\ rs[r].owner /\ new[r].status \in Open
    BY <1>4 DEF OwnersIn
  <2>2. rs[r].status \in Open \/ r = o
    BY <1>4, <2>1
  <2> QED BY <2>1, <2>2 DEF OwnersIn, Tree, OneOwner
<1>8. OwnersIn(new) = IF status \in Open THEN {o} ELSE {}
  <2>1. o \in OwnersIn(new) <=> status \in Open
    BY <1>1, <1>4 DEF OwnersIn
  <2> QED BY <1>7, <2>1
<1>9. Below(new)
  <2> SUFFICES ASSUME NEW r \in RunId, new[r].status \in Open, ~ new[r].owner
               PROVE  \E p \in OwnersIn(new) : p \in new[r].above
                                               /\ new[p].status = new[r].status
    BY DEF Below
  <2>1. ~ rs[r].owner /\ rs[r].status \in Open /\ r # o
    BY <1>1, <1>4
  <2>2. o \in rs[r].above /\ rs[o].status = rs[r].status
    BY <2>1 DEF Tree, OneOwner, Below
  <2>3. new[r].status = status
    BY <1>4, <2>1, <2>2
  <2> QED BY <1>4, <1>6, <1>8, <2>2, <2>3
<1> QED BY <1>5, <1>6, <1>7, <1>8, <1>9 DEF Tree, OneOwner

\* Ending open owners ends what is below them.
LEMMA EndTree ==
  ASSUME NEW rs, Tree(rs), NEW S \in SUBSET OwnersIn(rs)
  PROVE  /\ Tree(EndOwners(rs, S)) /\ Keeps(rs, EndOwners(rs, S))
         /\ OwnersIn(EndOwners(rs, S)) = OwnersIn(rs) \ S
         /\ S = {} => EndOwners(rs, S) = rs
<1>1. CASE S = {}
  <2>1. EndOwners(rs, S) = rs
    BY <1>1 DEF EndOwners, Tree, Table
  <2> QED BY <1>1, <2>1 DEF Keeps
<1>2. CASE S # {}
  <2> DEFINE o == CHOOSE p \in S : TRUE
             new == MoveOwner(rs, o, "ended", rs[o].anomaly)
  <2>1. o \in S /\ o \in OwnersIn(rs) /\ o \in RunId
    BY <1>2 DEF OwnersIn
  <2>2. rs[o].anomaly \in BOOLEAN
    BY <2>1 DEF Tree, Table, Row
  <2>3. EndOwners(rs, S) = new
    BY <1>2 DEF EndOwners, MoveOwner
  <2>4. OwnersIn(rs) \ S = {}
    BY <2>1 DEF Tree, OneOwner
  <2> HIDE DEF o
  <2>5. Tree(new) /\ Keeps(rs, new) /\ OwnersIn(new) = {}
    BY <2>1, <2>2, MoveTree DEF Open
  <2> QED BY <1>2, <2>3, <2>4, <2>5
<1> QED BY <1>1, <1>2

\* A transition moves the open owner where its table says, or nothing.
LEMMA ProjectTree ==
  ASSUME Tree(runs), NEW new, NEW relaunching,
         NEW rs, rs = project_transition(new, relaunching)
  PROVE  /\ Tree(rs) /\ Keeps(runs, rs) /\ OwnersIn(rs) \subseteq OwnersIn(runs)
         /\ ~ Projects(new) => rs = runs
         /\ new \in {"running", "paused"} => OwnersIn(rs) = OwnersIn(runs)
         /\ new = "running" => \A o \in OwnersIn(rs) : rs[o].status = "active"
         /\ new = "paused" => \A o \in OwnersIn(rs) : rs[o].status = "held"
         /\ new = "stopped" \/ (new = "failed" /\ ~ relaunching) => OwnersIn(rs) = {}
<1>1. OpenOwners = OwnersIn(runs)
  BY DEF OpenOwners, OwnersIn
<1>2. CASE OpenOwners = {} \/ ~ Projects(new)
  <2>1. rs = runs
    BY <1>2 DEF project_transition, Tree, Table
  <2> QED BY <1>1, <1>2, <2>1 DEF Keeps, Projects
<1>3. CASE OpenOwners # {} /\ Projects(new)
  <2> DEFINE o == CHOOSE p \in OpenOwners : TRUE
             status == Projected(o, new, relaunching)
             anomaly == IF new = "running" THEN FALSE
                        ELSE new = "failed" \/ runs[o].anomaly
  <2>1. o \in OwnersIn(runs) /\ o \in RunId /\ runs[o].status \in Open
    BY <1>1, <1>3 DEF OwnersIn
  <2>2. status \in Open \cup {"ended"}
        /\ (new = "running" => status = "active")
        /\ (new = "paused" => status = "held")
        /\ (new = "stopped" \/ (new = "failed" /\ ~ relaunching) => status = "ended")
    BY <2>1 DEF Projected, Open
  <2>3. anomaly \in BOOLEAN
    BY <2>1 DEF Tree, Table, Row
  <2>4. rs = MoveOwner(runs, o, status, anomaly)
    BY <1>3 DEF project_transition, MoveOwner
  <2> HIDE DEF o, status, anomaly
  <2>5. /\ Tree(rs) /\ Keeps(runs, rs) /\ rs[o].status = status
        /\ OwnersIn(rs) = IF status \in Open THEN {o} ELSE {}
    BY <2>1, <2>2, <2>3, <2>4, MoveTree
  <2>6. OwnersIn(runs) = {o}
    BY <2>1 DEF Tree, OneOwner
  <2> QED BY <1>3, <2>2, <2>5, <2>6 DEF Open
<1> QED BY <1>2, <1>3

\* The launched Run is the one open owner.
LEMMA EnsureTree ==
  ASSUME Tree(runs), NEW id \in RunId, runs[id].owner \/ runs[id] = NoRow,
         NEW rs, rs = ensure_supervised(id)
  PROVE  /\ Tree(rs) /\ OwnersIn(rs) = {id}
         /\ \A r \in RunId \ {id} : /\ rs[r].owner = runs[r].owner
                                    /\ runs[r] = NoRow => rs[r] = NoRow
         /\ id \in OwnersIn(runs) => rs = runs
<1> DEFINE S == OpenOwners \ {id}
           replaced == EndOwners(runs, S)
<1>1. OpenOwners = OwnersIn(runs) /\ runs \in Table
  BY DEF OpenOwners, OwnersIn, Tree
<1>2. S \in SUBSET OwnersIn(runs)
  BY <1>1
<1> HIDE DEF S
<1>3. /\ Tree(replaced) /\ Keeps(runs, replaced)
      /\ OwnersIn(replaced) = OwnersIn(runs) \ S
      /\ S = {} => replaced = runs
  BY <1>2, EndTree
<1>4. CASE runs[id].status \in Open
  <2>1. id \in OwnersIn(runs)
    BY <1>4 DEF OwnersIn, NoRow, Open
  <2>2. S = {} /\ OwnersIn(runs) = {id}
    BY <1>1, <2>1 DEF S, Tree, OneOwner
  <2>3. rs = runs
    BY <1>3, <1>4, <2>2 DEF ensure_supervised, S
  <2> QED BY <2>2, <2>3
<1>5. CASE runs[id].status \notin Open
  <2>1. id \notin OwnersIn(runs) /\ OwnersIn(replaced) = {}
    BY <1>1, <1>3, <1>5 DEF OwnersIn, S
  <2>2. replaced \in Table /\ (replaced[id].owner \/ runs[id] = NoRow)
    BY <1>3 DEF Tree, Keeps
  <2>3. PICK row \in Row : /\ rs = [replaced EXCEPT ![id] = row]
                           /\ row.owner /\ row.status = "active"
    <3>1. replaced[id] \in Row
      BY <2>2 DEF Table
    <3>2. CASE runs[id].status = "ended"
      <4> DEFINE row == [replaced[id] EXCEPT !.status = "active"]
      <4>1. rs = [replaced EXCEPT ![id] = row]
        BY <1>5, <3>2 DEF ensure_supervised, S
      <4>2. row \in Row /\ row.status = "active" /\ row.owner
        BY <2>2, <3>1, <3>2 DEF Row, Open, NoRow
      <4> QED BY <4>1, <4>2
    <3>3. CASE runs[id].status # "ended"
      <4> DEFINE row == [NoRow EXCEPT !.status = "active", !.owner = TRUE]
      <4>1. rs = [replaced EXCEPT ![id] = row]
        BY <1>5, <3>3 DEF ensure_supervised, S
      <4>2. row \in Row /\ row.status = "active" /\ row.owner
        BY DEF Row, Open, NoRow
      <4> QED BY <4>1, <4>2
    <3> QED BY <3>2, <3>3
  <2> HIDE DEF replaced
  <2>4. rs \in Table /\ rs[id] = row /\ \A r \in RunId \ {id} : rs[r] = replaced[r]
    BY <2>2, <2>3 DEF Table
  <2>5. OwnersIn(rs) = {id}
    <3>1. id \in OwnersIn(rs)
      BY <2>3, <2>4 DEF OwnersIn, Open
    <3>2. ASSUME NEW r \in OwnersIn(rs), r # id PROVE FALSE
      BY <2>1, <2>4, <3>2 DEF OwnersIn
    <3> QED BY <3>1, <3>2
  <2>6. Below(rs)
    <3> SUFFICES ASSUME NEW r \in RunId, rs[r].status \in Open, ~ rs[r].owner
                 PROVE  FALSE
      BY DEF Below
    <3>1. r # id /\ rs[r] = replaced[r]
      BY <2>3, <2>4
    <3> QED BY <1>3, <2>1, <3>1 DEF Tree, Below
  <2>7. Tree(rs)
    BY <2>4, <2>5, <2>6 DEF Tree, OneOwner
  <2> QED BY <1>3, <2>1, <2>4, <2>5, <2>7 DEF Keeps
<1> QED BY <1>4, <1>5

\* A child opens below an open Run, in its status.
LEMMA ChildTree ==
  ASSUME NEW rs, Tree(rs), NEW c \in RunId, rs[c] = NoRow,
         NEW parent \in RunId, rs[parent].status \in Open,
         NEW new \in Table, \A r \in RunId \ {c} : new[r] = rs[r],
         ~ new[c].owner, new[c].status = rs[parent].status,
         new[c].above = rs[parent].above \cup {parent}
  PROVE  Tree(new) /\ OwnersIn(new) = OwnersIn(rs)
<1>1. OwnersIn(new) = OwnersIn(rs)
  BY DEF OwnersIn, NoRow, Open
<1>2. c # parent /\ \A o \in OwnersIn(rs) : o # c
  BY DEF OwnersIn, NoRow, Open
<1>3. Below(new)
  <2> SUFFICES ASSUME NEW r \in RunId, new[r].status \in Open, ~ new[r].owner
               PROVE  \E o \in OwnersIn(rs) : o \in new[r].above
                                              /\ new[o].status = new[r].status
    BY <1>1 DEF Below
  <2>1. CASE r # c
    <3>1. new[r] = rs[r]
      BY <2>1
    <3>2. PICK o \in OwnersIn(rs) : o \in rs[r].above /\ rs[o].status = rs[r].status
      BY <3>1 DEF Tree, Below
    <3>3. new[o] = rs[o]
      BY <1>2, <3>2 DEF OwnersIn
    <3> QED BY <3>1, <3>2, <3>3
  <2>2. CASE r = c
    <3>1. PICK o \in OwnersIn(rs) : /\ o \in rs[parent].above \cup {parent}
                                    /\ rs[o].status = rs[parent].status
      <4>1. CASE rs[parent].owner
        BY <4>1 DEF OwnersIn
      <4>2. CASE ~ rs[parent].owner
        BY <4>2 DEF Tree, Below
      <4> QED BY <4>1, <4>2
    <3>2. new[o] = rs[o]
      BY <1>2, <3>1 DEF OwnersIn
    <3> QED BY <2>2, <3>1, <3>2
  <2> QED BY <2>1, <2>2
<1> QED BY <1>1, <1>3 DEF Tree, OneOwner

\* Closing a child leaves the others under their owner.
LEMMA CloseTree ==
  ASSUME NEW rs, Tree(rs), NEW c \in RunId, ~ rs[c].owner,
         NEW new, new = [rs EXCEPT ![c].status = "ended"]
  PROVE  /\ Tree(new) /\ OwnersIn(new) = OwnersIn(rs)
         /\ \A r \in RunId \ {c} : new[r] = rs[r]
         /\ new[c].owner = rs[c].owner
<1>1. rs \in Table /\ rs[c] \in Row
  BY DEF Tree, Table
<1>2. PICK row \in Row : /\ new = [rs EXCEPT ![c] = row] /\ row.status = "ended"
                         /\ row.owner = rs[c].owner
  <2> DEFINE row == [rs[c] EXCEPT !.status = "ended"]
  <2>1. row \in Row /\ row.status = "ended" /\ row.owner = rs[c].owner
    BY <1>1 DEF Row
  <2>2. new = [rs EXCEPT ![c] = row]
    OBVIOUS
  <2> QED BY <2>1, <2>2
<1>3. new \in Table /\ new[c] = row /\ \A r \in RunId \ {c} : new[r] = rs[r]
  BY <1>1, <1>2 DEF Table
<1>4. OwnersIn(new) = OwnersIn(rs) /\ \A o \in OwnersIn(rs) : o # c
  BY <1>2, <1>3 DEF OwnersIn
<1>5. Below(new)
  <2> SUFFICES ASSUME NEW r \in RunId, new[r].status \in Open, ~ new[r].owner
               PROVE  \E o \in OwnersIn(rs) : o \in new[r].above
                                              /\ new[o].status = new[r].status
    BY <1>4 DEF Below
  <2>1. r # c
    BY <1>2, <1>3 DEF Open
  <2>2. new[r] = rs[r]
    BY <1>3, <2>1
  <2>3. PICK o \in OwnersIn(rs) : o \in rs[r].above /\ rs[o].status = rs[r].status
    BY <2>2 DEF Tree, Below
  <2>4. new[o] = rs[o]
    BY <1>3, <1>4, <2>3 DEF OwnersIn
  <2> QED BY <2>2, <2>3, <2>4
<1> QED BY <1>2, <1>3, <1>4, <1>5 DEF Tree, OneOwner

-----------------------------------------------------------------------------
(* The invariant *)

RunsTyped ==
  /\ lifecycle \in Rows /\ phase \in {"up", "down", "adopting", "sweeping"}
  /\ snapshot \in Table /\ ownerOf \in RunId \cup {NoRun}
  /\ born \in 0 .. MaxRuns /\ recorded \in 0 .. born
  /\ underway \in Underway /\ deleted \subseteq 1 .. born

\* Rows are minted in order, and the rows of a removed instance are gone.
Rowless == \A r \in RunId : r > born \/ r \in deleted => runs[r] = NoRow

\* The recorded Run is an owner; while there is a process it is the open one.
Kept ==
  /\ recorded # NoRun => runs[recorded].owner
  /\ underway \in RunId => underway = recorded
  /\ underway \notin {Stopping, Nothing} => phase = "up" /\ lifecycle = "starting"
  /\ underway = Launched \/ lifecycle \in {"running", "paused"} => recorded \in OpenOwners

\* The snapshot while the engine has one.
Exact ==
  /\ \A r \in RunId \ deleted : snapshot[r] = Entry(runs[r])
  /\ ownerOf \in OpenOwners \/ (OpenOwners = {} /\ ownerOf \in {NoRun} \cup deleted)
Shown == phase # "down" => Exact

\* What the Run says of its process, unless a write of it failed.
Says(rs, state) ==
  /\ state = "running" => \A o \in OwnersIn(rs) : rs[o].status = "active"
  /\ state = "paused" => \A o \in OwnersIn(rs) : rs[o].status = "held"
Lingers == lifecycle \in NoProcess => OpenOwners = {} \/ planned \/ refused
Truth == ~ unprojected => Says(runs, lifecycle) /\ (phase = "up" => Lingers)

RunsInv == RunsTyped /\ Tree(runs) /\ Rowless /\ Kept /\ Shown /\ Truth

\* The owners of the model are those of its table.
LEMMA Owners == OpenOwners = OwnersIn(runs) /\ OpenOwners' = OwnersIn(runs')
BY DEF OpenOwners, OwnersIn

\* A write keeps the snapshot exact: changing only the records it touched is
\* enough, and so is looking for an open owner among them.
LEMMA WriteExact ==
  ASSUME Exact, Tree(runs), NEW rs, Tree(rs), Write(rs), deleted' = deleted,
         snapshot \in Table, ownerOf \in RunId \cup {NoRun}
  PROVE  Exact' /\ runs' = rs /\ snapshot' \in Table /\ ownerOf' \in RunId \cup {NoRun}
<1> DEFINE changed == {r \in RunId : rs[r] # runs[r]}
           opened == {r \in changed : rs[r].owner /\ rs[r].status \in Open}
<1>1. /\ runs' = rs
      /\ snapshot' = [r \in RunId |-> IF r \in changed THEN Entry(rs[r]) ELSE snapshot[r]]
      /\ ownerOf' = IF opened # {} THEN CHOOSE r \in opened : TRUE
                    ELSE IF ownerOf \in changed THEN NoRun ELSE ownerOf
  BY DEF Write
<1>2. runs \in Table /\ rs \in Table
  BY DEF Tree
<1>3. snapshot' \in Table
  <2>1. ASSUME NEW r \in RunId PROVE Entry(rs[r]) \in Row
    <3>1. NoRow \in Row /\ rs[r] \in Row
      BY <1>2 DEF Row, NoRow, Table
    <3> QED BY <3>1 DEF Entry
  <2> QED BY <1>1, <2>1 DEF Table
<1>4. \A r \in RunId \ deleted' : snapshot'[r] = Entry(runs'[r])
  <2> SUFFICES ASSUME NEW r \in RunId, r \notin deleted
               PROVE  snapshot'[r] = Entry(rs[r])
    BY <1>1
  <2>1. CASE r \in changed
    BY <1>1, <2>1
  <2>2. CASE r \notin changed
    BY <1>1, <2>2 DEF Exact
  <2> QED BY <2>1, <2>2
<1>5. /\ OpenOwners = OwnersIn(runs) /\ OpenOwners' = OwnersIn(rs)
      /\ opened = OwnersIn(rs) \cap changed
      /\ \A r \in RunId \ changed : r \in OwnersIn(rs) <=> r \in OwnersIn(runs)
  BY <1>1, Owners DEF OwnersIn
<1>6. changed \subseteq RunId
  OBVIOUS
<1> HIDE DEF changed, opened
<1>7. CASE opened # {}
  <2>1. ownerOf' \in opened
    BY <1>1, <1>7
  <2> QED BY <1>1, <1>3, <1>4, <1>5, <1>6, <2>1 DEF Exact
<1>8. CASE opened = {}
  <2>1. OwnersIn(rs) \subseteq OwnersIn(runs)
    BY <1>5, <1>8 DEF OwnersIn
  <2>2. CASE ownerOf \in OwnersIn(runs)
    <3>1. CASE ownerOf \in changed
      <4>1. OwnersIn(rs) = {} /\ ownerOf' = NoRun
        BY <1>1, <1>5, <1>8, <2>1, <2>2, <3>1 DEF Tree, OneOwner
      <4> QED BY <1>1, <1>3, <1>4, <1>5, <4>1 DEF Exact
    <3>2. CASE ownerOf \notin changed
      <4>1. ownerOf' = ownerOf /\ ownerOf \in OwnersIn(rs) /\ ownerOf \in RunId
        BY <1>1, <1>5, <1>8, <2>2, <3>2 DEF OwnersIn
      <4> QED BY <1>1, <1>3, <1>4, <1>5, <4>1 DEF Exact
    <3> QED BY <3>1, <3>2
  <2>3. CASE ownerOf \notin OwnersIn(runs)
    <3>1. OwnersIn(runs) = {} /\ ownerOf \in {NoRun} \cup deleted
      BY <1>5, <2>3 DEF Exact
    <3>2. OwnersIn(rs) = {} /\ ownerOf' \in {NoRun, ownerOf}
      BY <1>1, <1>8, <2>1, <3>1
    <3> QED BY <1>1, <1>3, <1>4, <1>5, <3>1, <3>2 DEF Exact
  <2> QED BY <2>2, <2>3
<1> QED BY <1>7, <1>8

\* What a transition does to the Runs: they stay a tree under the same owners
\* while there is a process, they say what it says, and the snapshot follows.
LEMMA TransitionMoves ==
  ASSUME RunsInv, phase # "down", NEW new \in Rows, NEW relaunching \in BOOLEAN,
         Transition(new, relaunching), deleted' = deleted
  PROVE  /\ lifecycle' = new /\ Tree(runs') /\ Keeps(runs, runs')
         /\ Exact' /\ snapshot' \in Table /\ ownerOf' \in RunId \cup {NoRun}
         /\ OpenOwners' \subseteq OpenOwners
         /\ new \in {"starting", "running", "paused"} => OpenOwners' = OpenOwners
         /\ ~ unprojected' /\ new \in {"running", "paused"} => Says(runs', new)
         /\ ~ unprojected' /\ (new = "stopped" \/ (new = "failed" /\ ~ relaunching))
              => OpenOwners' = {}
<1>1. Tree(runs) /\ Exact /\ snapshot \in Table /\ ownerOf \in RunId \cup {NoRun}
  BY DEF RunsInv, RunsTyped, Shown
<1>2. lifecycle' = new
  BY DEF Transition
<1> DEFINE rs == project_transition(new, relaunching)
<1>3. /\ Tree(rs) /\ Keeps(runs, rs) /\ OwnersIn(rs) \subseteq OwnersIn(runs)
      /\ ~ Projects(new) => rs = runs
      /\ new \in {"running", "paused"} => OwnersIn(rs) = OwnersIn(runs)
      /\ new = "running" => \A o \in OwnersIn(rs) : rs[o].status = "active"
      /\ new = "paused" => \A o \in OwnersIn(rs) : rs[o].status = "held"
      /\ new = "stopped" \/ (new = "failed" /\ ~ relaunching) => OwnersIn(rs) = {}
  BY <1>1, ProjectTree
<1>4. CASE Write(rs)
  <2> HIDE DEF rs
  <2>1. Exact' /\ runs' = rs /\ snapshot' \in Table /\ ownerOf' \in RunId \cup {NoRun}
    BY <1>1, <1>3, <1>4, WriteExact
  <2>2. new = "starting" => rs = runs
    BY <1>3 DEF Projects
  <2> QED BY <1>2, <1>3, <2>1, <2>2, Owners DEF Says
<1>5. CASE Projects(new) /\ Unwritten /\ unprojected' = TRUE
  <2>1. runs' = runs /\ snapshot' = snapshot /\ ownerOf' = ownerOf
    BY <1>5 DEF Unwritten
  <2>2. Exact'
    BY <1>1, <2>1, Owners DEF Exact
  <2> QED BY <1>1, <1>2, <1>5, <2>1, <2>2, Owners DEF Keeps
<1> QED BY <1>4, <1>5 DEF Transition

\* What owners keep, their rows' absence and the recorded Run keep, too.
LEMMA KeepsRows ==
  ASSUME RunsInv, Keeps(runs, runs'), born' = born, deleted' = deleted,
         recorded' \in {recorded, NoRun}
  PROVE  Rowless' /\ (recorded' # NoRun => runs'[recorded'].owner)
         /\ recorded' \in 0 .. born'
<1>1. /\ Rowless /\ recorded \in 0 .. born /\ born \in 0 .. MaxRuns
      /\ recorded # NoRun => runs[recorded].owner
  BY DEF RunsInv, RunsTyped, Kept
<1>2. Rowless'
  BY <1>1 DEF Rowless, Keeps
<1>3. recorded' \in 0 .. born'
  BY <1>1, RunsAssumption DEF NoRun
<1>4. recorded' # NoRun => recorded' = recorded /\ recorded \in RunId
  BY <1>1, RunsAssumption DEF NoRun, RunId
<1> QED BY <1>1, <1>2, <1>3, <1>4 DEF Keeps

\* The invariant holds initially.
LEMMA RunsInitInv == RunsInit => RunsInv
<1> SUFFICES ASSUME RunsInit PROVE RunsInv
  OBVIOUS
<1> USE DEF RunsInit
<1>1. NoRow \in Row /\ NoRow.status = "none" /\ ~ NoRow.owner
  BY DEF NoRow, Row
<1>2. /\ runs \in Table /\ snapshot \in Table
      /\ \A r \in RunId : runs[r] = NoRow /\ snapshot[r] = NoRow
  BY <1>1 DEF Table
<1>3. OwnersIn(runs) = {} /\ OpenOwners = {}
  BY <1>1, <1>2 DEF OwnersIn, OpenOwners
<1>4. Tree(runs)
  BY <1>1, <1>2, <1>3 DEF Tree, OneOwner, Below, Open
<1>5. RunsTyped
  BY <1>2, RunsAssumption DEF RunsTyped, Rows, NoRun, Underway
<1>6. Rowless /\ Kept
  BY <1>2 DEF Rowless, Kept, NoRun, Nothing, RunId, Launched
<1>7. Shown
  BY <1>1, <1>2, <1>3 DEF Shown, Exact, Entry, NoRun, Open
<1>8. Truth
  BY <1>3 DEF Truth, Says, Lingers
<1> QED BY <1>4, <1>5, <1>6, <1>7, <1>8 DEF RunsInv

-----------------------------------------------------------------------------
(* Every step keeps it *)

\* The numbers of the ids, for the proofs that compare them.
LEMMA RunIds ==
  ASSUME RunsInv
  PROVE  /\ born \in Nat /\ MaxRuns \in Nat /\ born <= MaxRuns /\ recorded \in 0 .. born
         /\ RunId \subseteq Nat \ {0} /\ recorded \in RunId \cup {NoRun}
         /\ recorded \in Underway /\ NoRun \in Underway /\ Nothing \in Underway
         /\ Launched \in Underway /\ Stopping \in Underway
         /\ Launched \notin RunId \cup {NoRun} /\ Stopping \notin RunId \cup {NoRun}
         /\ Nothing \notin RunId \cup {NoRun} /\ Launched \notin {Stopping, Nothing}
         /\ recorded # Launched /\ NoRun \notin RunId
         /\ born < MaxRuns => born + 1 \in RunId
BY RunsAssumption
   DEF RunsInv, RunsTyped, RunId, NoRun, Underway, Launched, Stopping, Nothing

\* A launch begins with the Run it keeps.
LEMMA BeginKeeps ==
  ASSUME RunsInv, NEW relaunch \in BOOLEAN, BeginLaunch(relaunch)
  PROVE  RunsInv'
<1>1. /\ phase = "up" /\ Transition("starting", FALSE) /\ underway' \in {recorded, NoRun}
      /\ UNCHANGED <<born, recorded, phase, refused, deleted, opens>>
  BY DEF BeginLaunch
<1>2. /\ lifecycle' = "starting" /\ Tree(runs') /\ Keeps(runs, runs') /\ Exact'
      /\ snapshot' \in Table /\ ownerOf' \in RunId \cup {NoRun}
  BY <1>1, TransitionMoves DEF Rows
<1>3. Rowless' /\ (recorded' # NoRun => runs'[recorded'].owner) /\ recorded' \in 0 .. born'
  BY <1>1, <1>2, KeepsRows
<1>4. RunsTyped'
  BY <1>1, <1>2, <1>3, RunIds DEF RunsInv, RunsTyped, Rows
<1>5. Kept'
  BY <1>1, <1>2, <1>3, RunIds DEF Kept
<1>6. Shown' /\ Truth'
  BY <1>2 DEF Shown, Truth, Says, Lingers, NoProcess
<1> QED BY <1>2, <1>3, <1>4, <1>5, <1>6 DEF RunsInv

\* A refused relaunch is remembered.
LEMMA RefuseKeeps == RunsInv /\ RefuseRelaunch => RunsInv'
<1> SUFFICES ASSUME RunsInv, RefuseRelaunch PROVE RunsInv'
  OBVIOUS
<1>1. /\ refused' = (refused \/ lifecycle \in NoProcess)
      /\ UNCHANGED <<lifecycle, runs, born, recorded, underway, snapshot, ownerOf, phase,
                     unprojected, deleted>>
  BY DEF RefuseRelaunch
<1>2. RunsTyped' /\ Rowless' /\ Kept' /\ Shown' /\ Tree(runs')
  BY <1>1, Owners DEF RunsInv, RunsTyped, Rowless, Kept, Shown, Exact
<1>3. Truth'
  BY <1>1 DEF RunsInv, Truth, Lingers
<1> QED BY <1>2, <1>3 DEF RunsInv

\* The record and the Run of a launch are written together.
LEMMA RecordKeeps == RunsInv /\ RecordLaunch => RunsInv'
<1> SUFFICES ASSUME RunsInv, RecordLaunch PROVE RunsInv'
  OBVIOUS
<1> DEFINE id == IF underway = NoRun THEN born + 1 ELSE underway
           rs == ensure_supervised(id)
<1>1. /\ phase = "up" /\ underway \in RunId \cup {NoRun}
      /\ underway = NoRun => born < MaxRuns
      /\ Write(rs) /\ recorded' = id
      /\ born' = (IF underway = NoRun THEN born + 1 ELSE born)
      /\ underway' = Launched /\ unprojected' = FALSE
      /\ UNCHANGED <<lifecycle, phase, deleted>>
  BY DEF RecordLaunch
<1>2. /\ RunsTyped /\ Tree(runs) /\ Rowless /\ Kept /\ Exact
      /\ snapshot \in Table /\ ownerOf \in RunId \cup {NoRun}
  BY <1>1 DEF RunsInv, RunsTyped, Shown
<1>3. /\ id \in RunId /\ id \in 0 .. born' /\ born' \in 0 .. MaxRuns /\ born <= born'
      /\ \A r \in RunId : r > born' => r > born /\ r # id
  BY <1>1, <1>2, RunIds DEF Kept, NoRun
<1>4. (runs[id].owner \/ runs[id] = NoRow) /\ id \notin deleted
  <2>1. CASE underway = NoRun
    BY <1>1, <1>2, <1>3, <2>1, RunIds DEF RunsTyped, Rowless
  <2>2. CASE underway # NoRun
    <3>1. id = recorded /\ runs[id].owner
      BY <1>1, <1>2, <1>3, <2>2, RunIds DEF Kept
    <3>2. runs[id] # NoRow
      BY <3>1 DEF NoRow
    <3> QED BY <1>2, <1>3, <3>1, <3>2 DEF Rowless
  <2> QED BY <2>1, <2>2
<1>5. lifecycle = "starting"
  BY <1>1, <1>2, RunIds DEF Kept
<1> HIDE DEF id
<1>6. /\ Tree(rs) /\ OwnersIn(rs) = {id}
      /\ \A r \in RunId \ {id} : runs[r] = NoRow => rs[r] = NoRow
  BY <1>2, <1>3, <1>4, EnsureTree
<1> HIDE DEF rs
<1>7. Exact' /\ runs' = rs /\ snapshot' \in Table /\ ownerOf' \in RunId \cup {NoRun}
  BY <1>1, <1>2, <1>6, WriteExact
<1>8. Rowless'
  BY <1>1, <1>2, <1>3, <1>4, <1>6, <1>7 DEF Rowless
<1>9. Kept'
  <2>1. rs[id].owner /\ id \in OpenOwners'
    BY <1>6, <1>7, Owners DEF OwnersIn
  <2> QED BY <1>1, <1>5, <1>7, <2>1, RunIds DEF Kept
<1>10. RunsTyped'
  <2>1. deleted' \subseteq 1 .. born'
    BY <1>1, <1>2, <1>3, RunIds DEF RunsTyped
  <2> QED BY <1>1, <1>2, <1>3, <1>7, <2>1, RunIds DEF RunsTyped
<1>11. Shown' /\ Truth'
  BY <1>1, <1>5, <1>7 DEF Shown, Truth, Says, Lingers, NoProcess
<1> QED BY <1>6, <1>7, <1>8, <1>9, <1>10, <1>11 DEF RunsInv

\* A failed launch ends its Run, or a relaunch is planned.
LEMMA FailLaunchKeeps ==
  ASSUME RunsInv, NEW relaunching \in BOOLEAN, FailLaunch(relaunching)
  PROVE  RunsInv'
<1>1. /\ phase = "up" /\ Transition("failed", relaunching) /\ underway' = Nothing
      /\ planned' = (planned \/ relaunching)
      /\ UNCHANGED <<born, recorded, phase, refused, deleted, opens>>
  BY DEF FailLaunch
<1>2. /\ lifecycle' = "failed" /\ Tree(runs') /\ Keeps(runs, runs') /\ Exact'
      /\ snapshot' \in Table /\ ownerOf' \in RunId \cup {NoRun}
      /\ ~ unprojected' /\ ~ relaunching => OpenOwners' = {}
  BY <1>1, TransitionMoves DEF Rows
<1>3. Rowless' /\ (recorded' # NoRun => runs'[recorded'].owner) /\ recorded' \in 0 .. born'
  BY <1>1, <1>2, KeepsRows
<1>4. RunsTyped'
  BY <1>1, <1>2, <1>3, RunIds DEF RunsInv, RunsTyped, Rows
<1>5. Kept'
  BY <1>1, <1>2, <1>3, RunIds DEF Kept
<1>6. Shown' /\ Truth'
  BY <1>1, <1>2 DEF Shown, Truth, Says, Lingers
<1> QED BY <1>2, <1>3, <1>4, <1>5, <1>6 DEF RunsInv

\* A launch that became ready has its Run open.
LEMMA ReadyKeeps == RunsInv /\ Ready => RunsInv'
<1> SUFFICES ASSUME RunsInv, Ready PROVE RunsInv'
  OBVIOUS
<1>1. /\ phase = "up" /\ underway = Launched /\ Transition("running", FALSE)
      /\ underway' = Nothing
      /\ UNCHANGED <<born, recorded, phase, planned, refused, deleted>>
  BY DEF Ready
<1>2. /\ lifecycle' = "running" /\ Tree(runs') /\ Keeps(runs, runs') /\ Exact'
      /\ snapshot' \in Table /\ ownerOf' \in RunId \cup {NoRun}
      /\ OpenOwners' = OpenOwners
      /\ ~ unprojected' => Says(runs', "running")
  BY <1>1, TransitionMoves DEF Rows
<1>3. Rowless' /\ (recorded' # NoRun => runs'[recorded'].owner) /\ recorded' \in 0 .. born'
  BY <1>1, <1>2, KeepsRows
<1>4. RunsTyped'
  BY <1>1, <1>2, <1>3, RunIds DEF RunsInv, RunsTyped, Rows
<1>5. Kept'
  BY <1>1, <1>2, <1>3, RunIds DEF RunsInv, Kept
<1>6. Shown' /\ Truth'
  BY <1>1, <1>2 DEF Shown, Truth, Lingers, NoProcess
<1> QED BY <1>2, <1>3, <1>4, <1>5, <1>6 DEF RunsInv

\* Pause and resume take the Run along; a stop begins.
LEMMA CommandKeeps ==
  ASSUME RunsInv, NEW c \in Commands, Command(c)
  PROVE  RunsInv'
<1>1. /\ phase = "up" /\ underway = Nothing /\ Transition(next_state(lifecycle, c), FALSE)
      /\ underway' = (IF c = "stop" THEN Stopping ELSE Nothing)
      /\ UNCHANGED <<born, recorded, phase, planned, refused, deleted>>
      /\ c # "start" /\ next_state(lifecycle, c) # InvalidTransition
  BY DEF Command
<1> DEFINE new == next_state(lifecycle, c)
<1>2. /\ lifecycle \in {"running", "paused"} /\ new \in {"stopping", "paused", "running"}
      /\ new \in Rows
  BY <1>1 DEF next_state, Accepts, Target, Commands, Rows
<1> HIDE DEF new
<1>3. /\ lifecycle' = new /\ Tree(runs') /\ Keeps(runs, runs') /\ Exact'
      /\ snapshot' \in Table /\ ownerOf' \in RunId \cup {NoRun}
      /\ new \in {"running", "paused"} => OpenOwners' = OpenOwners
      /\ ~ unprojected' /\ new \in {"running", "paused"} => Says(runs', new)
  BY <1>1, <1>2, TransitionMoves DEF new
<1>4. Rowless' /\ (recorded' # NoRun => runs'[recorded'].owner) /\ recorded' \in 0 .. born'
  BY <1>1, <1>3, KeepsRows
<1>5. RunsTyped'
  BY <1>1, <1>2, <1>3, <1>4, RunIds DEF RunsInv, RunsTyped
<1>6. Kept'
  BY <1>1, <1>2, <1>3, <1>4, RunIds DEF RunsInv, Kept
<1>7. Shown' /\ Truth'
  BY <1>1, <1>2, <1>3 DEF Shown, Truth, Lingers, NoProcess, Says
<1> QED BY <1>3, <1>4, <1>5, <1>6, <1>7 DEF RunsInv

\* A confirmed stop ends the Run and what is below it.
LEMMA ConfirmKeeps == RunsInv /\ ConfirmStopped => RunsInv'
<1> SUFFICES ASSUME RunsInv, ConfirmStopped PROVE RunsInv'
  OBVIOUS
<1>1. /\ phase = "up" /\ Transition("stopped", FALSE) /\ recorded' = NoRun
      /\ underway' = Nothing /\ UNCHANGED <<born, phase, planned, refused, deleted>>
  BY DEF ConfirmStopped
<1>2. /\ lifecycle' = "stopped" /\ Tree(runs') /\ Keeps(runs, runs') /\ Exact'
      /\ snapshot' \in Table /\ ownerOf' \in RunId \cup {NoRun}
      /\ ~ unprojected' => OpenOwners' = {}
  BY <1>1, TransitionMoves DEF Rows
<1>3. Rowless' /\ (recorded' # NoRun => runs'[recorded'].owner) /\ recorded' \in 0 .. born'
  BY <1>1, <1>2, KeepsRows
<1>4. RunsTyped'
  BY <1>1, <1>2, <1>3, RunIds DEF RunsInv, RunsTyped, Rows
<1>5. Kept'
  BY <1>1, <1>2, <1>3, RunIds DEF Kept
<1>6. Shown' /\ Truth'
  BY <1>1, <1>2 DEF Shown, Truth, Says, Lingers
<1> QED BY <1>2, <1>3, <1>4, <1>5, <1>6 DEF RunsInv

\* A crash ends the Run, or keeps it for the planned relaunch.
LEMMA CrashKeeps ==
  ASSUME RunsInv, NEW relaunching \in BOOLEAN, CrashAgent(relaunching)
  PROVE  RunsInv'
<1>1. /\ phase = "up" /\ underway = Nothing /\ Transition("failed", relaunching)
      /\ planned' = (planned \/ relaunching) /\ recorded' \in {recorded, NoRun}
      /\ UNCHANGED <<born, underway, phase, refused, deleted>>
  BY DEF CrashAgent
<1>2. /\ lifecycle' = "failed" /\ Tree(runs') /\ Keeps(runs, runs') /\ Exact'
      /\ snapshot' \in Table /\ ownerOf' \in RunId \cup {NoRun}
      /\ ~ unprojected' /\ ~ relaunching => OpenOwners' = {}
  BY <1>1, TransitionMoves DEF Rows
<1>3. Rowless' /\ (recorded' # NoRun => runs'[recorded'].owner) /\ recorded' \in 0 .. born'
  BY <1>1, <1>2, KeepsRows
<1>4. RunsTyped'
  BY <1>1, <1>2, <1>3, RunIds DEF RunsInv, RunsTyped, Rows
<1>5. Kept'
  BY <1>1, <1>2, <1>3, RunIds DEF Kept
<1>6. Shown' /\ Truth'
  BY <1>1, <1>2 DEF Shown, Truth, Says, Lingers
<1> QED BY <1>2, <1>3, <1>4, <1>5, <1>6 DEF RunsInv

\* A child opens below an open Run, under the same owner.
LEMMA OpenChildKeeps ==
  ASSUME RunsInv, NEW parent \in RunId, OpenChild(parent)
  PROVE  RunsInv'
<1> DEFINE c == born + 1
           rs == [runs EXCEPT ![c] = [NoRow EXCEPT !.status = runs[parent].status,
                                                   !.above = runs[parent].above \cup {parent}]]
<1>1. /\ phase = "up" /\ underway \in {Nothing, Stopping} /\ born < MaxRuns
      /\ runs[parent].status \in Open /\ born' = c /\ Write(rs)
      /\ UNCHANGED <<lifecycle, recorded, underway, phase, planned, refused, unprojected,
                     deleted>>
  BY DEF OpenChild
<1>2. /\ RunsTyped /\ Tree(runs) /\ Rowless /\ Kept /\ Exact /\ Truth
      /\ snapshot \in Table /\ ownerOf \in RunId \cup {NoRun}
  BY <1>1 DEF RunsInv, RunsTyped, Shown
<1>3. /\ c \in RunId /\ c \notin deleted /\ c > born /\ runs[c] = NoRow /\ recorded # c
      /\ recorded \in 0 .. c /\ c \in 0 .. MaxRuns /\ deleted \subseteq 1 .. c
      /\ \A r \in RunId : r > c => r > born /\ r # c
  BY <1>1, <1>2, RunIds DEF RunsTyped, Rowless
<1>4. PICK row \in Row : /\ rs = [runs EXCEPT ![c] = row] /\ ~ row.owner
                         /\ row.status = runs[parent].status
                         /\ row.above = runs[parent].above \cup {parent}
  <2> DEFINE row == [NoRow EXCEPT !.status = runs[parent].status,
                                  !.above = runs[parent].above \cup {parent}]
  <2>1. runs[parent].status \in Open /\ runs[parent].above \cup {parent} \in SUBSET RunId
    BY <1>1, <1>2 DEF Tree, Table, Row
  <2>2. row \in Row /\ ~ row.owner /\ row.status = runs[parent].status
        /\ row.above = runs[parent].above \cup {parent}
    BY <2>1 DEF NoRow, Row
  <2>3. rs = [runs EXCEPT ![c] = row]
    OBVIOUS
  <2> QED BY <2>2, <2>3
<1> HIDE DEF rs, c
<1>5. /\ Tree(rs) /\ OwnersIn(rs) = OwnersIn(runs)
      /\ \A r \in RunId \ {c} : rs[r] = runs[r]
  <2>1. /\ rs \in Table /\ \A r \in RunId \ {c} : rs[r] = runs[r]
        /\ ~ rs[c].owner /\ rs[c].status = runs[parent].status
        /\ rs[c].above = runs[parent].above \cup {parent}
    BY <1>2, <1>3, <1>4 DEF Tree, Table
  <2> QED BY <1>1, <1>2, <1>3, <2>1, ChildTree
<1>6. Exact' /\ runs' = rs /\ snapshot' \in Table /\ ownerOf' \in RunId \cup {NoRun}
  BY <1>1, <1>2, <1>5, WriteExact
<1>7. OpenOwners' = OpenOwners /\ (recorded # NoRun => runs'[recorded] = runs[recorded])
      /\ \A o \in OwnersIn(runs) : runs'[o].status = runs[o].status
  <2>1. \A o \in OwnersIn(runs) : o \in RunId /\ o # c
    BY <1>3 DEF OwnersIn, NoRow
  <2> QED BY <1>3, <1>5, <1>6, <2>1, RunIds, Owners
<1>8. RunsTyped' /\ Rowless'
  BY <1>1, <1>2, <1>3, <1>5, <1>6 DEF RunsTyped, Rowless
<1>9. Kept'
  BY <1>1, <1>2, <1>7, RunIds DEF Kept
<1>10. Shown' /\ Truth'
  BY <1>1, <1>2, <1>5, <1>6, <1>7 DEF Shown, Truth, Says, Lingers
<1> QED BY <1>5, <1>6, <1>8, <1>9, <1>10 DEF RunsInv

\* A closed child is nobody's owner.
LEMMA CloseKeeps ==
  ASSUME RunsInv, NEW c \in RunId, CloseRun(c)
  PROVE  RunsInv'
<1> DEFINE rs == [runs EXCEPT ![c].status = "ended"]
<1>1. /\ phase = "up" /\ ~ runs[c].owner /\ runs[c].status \in Open /\ Write(rs)
      /\ UNCHANGED <<lifecycle, born, recorded, underway, phase, planned, refused,
                     unprojected, deleted>>
  BY DEF CloseRun
<1>2. /\ RunsTyped /\ Tree(runs) /\ Rowless /\ Kept /\ Exact /\ Truth
      /\ snapshot \in Table /\ ownerOf \in RunId \cup {NoRun}
  BY <1>1 DEF RunsInv, RunsTyped, Shown
<1>3. /\ Tree(rs) /\ OwnersIn(rs) = OwnersIn(runs)
      /\ \A r \in RunId \ {c} : rs[r] = runs[r]
      /\ rs[c].owner = runs[c].owner
  BY <1>1, <1>2, CloseTree
<1> HIDE DEF rs
<1>4. Exact' /\ runs' = rs /\ snapshot' \in Table /\ ownerOf' \in RunId \cup {NoRun}
  BY <1>1, <1>2, <1>3, WriteExact
<1>5. OpenOwners' = OpenOwners /\ (recorded # NoRun => runs'[recorded].owner)
      /\ \A o \in OwnersIn(runs) : runs'[o].status = runs[o].status
  <2>1. \A o \in OwnersIn(runs) : o \in RunId /\ o # c
    BY <1>1 DEF OwnersIn
  <2> QED BY <1>2, <1>3, <1>4, <2>1, RunIds, Owners DEF Kept
<1>6. RunsTyped'
  BY <1>1, <1>2, <1>4 DEF RunsTyped
<1>7. Rowless'
  <2>1. runs[c] # NoRow
    BY <1>1 DEF NoRow, Open
  <2> QED BY <1>1, <1>2, <1>3, <1>4, <2>1 DEF Rowless
<1>8. Kept'
  BY <1>1, <1>2, <1>5 DEF Kept
<1>9. Shown' /\ Truth'
  BY <1>1, <1>2, <1>3, <1>4, <1>5 DEF Shown, Truth, Says, Lingers
<1> QED BY <1>3, <1>4, <1>6, <1>7, <1>8, <1>9 DEF RunsInv

\* A table without rows.
LEMMA NoRows ==
  ASSUME NEW rs, rs = [r \in RunId |-> NoRow]
  PROVE  Tree(rs) /\ OwnersIn(rs) = {} /\ rs \in Table /\ Entry(NoRow) = NoRow
<1>1. NoRow \in Row /\ NoRow.status = "none" /\ ~ NoRow.owner
  BY DEF NoRow, Row
<1>2. rs \in Table /\ \A r \in RunId : rs[r] = NoRow
  BY <1>1 DEF Table
<1>3. OwnersIn(rs) = {}
  BY <1>1, <1>2 DEF OwnersIn
<1> QED BY <1>1, <1>2, <1>3 DEF Tree, OneOwner, Below, Open, Entry

\* The rows of a removed instance are gone; the snapshot still shows them.
LEMMA RemoveKeeps == RunsInv /\ RemoveAgent => RunsInv'
<1> SUFFICES ASSUME RunsInv, RemoveAgent PROVE RunsInv'
  OBVIOUS
<1>1. /\ phase = "up" /\ underway' = Nothing
      /\ deleted' = deleted \cup {r \in RunId : runs[r] # NoRow}
      /\ runs' = [r \in RunId |-> NoRow] /\ lifecycle' = "registered" /\ recorded' = NoRun
      /\ UNCHANGED <<born, snapshot, ownerOf, phase, planned>>
  BY DEF RemoveAgent
<1>2. RunsTyped /\ Rowless /\ Exact
  BY <1>1 DEF RunsInv, Shown
<1>3. Tree(runs') /\ OpenOwners' = {} /\ (\A r \in RunId : runs'[r] = NoRow)
      /\ Entry(NoRow) = NoRow
  BY <1>1, NoRows, Owners
<1>4. deleted' \subseteq 1 .. born'
  <2>1. \A r \in RunId : runs[r] # NoRow => r \in 1 .. born
    BY <1>2, RunIds DEF Rowless
  <2> QED BY <1>1, <1>2, <2>1 DEF RunsTyped
<1>5. RunsTyped'
  BY <1>1, <1>2, <1>4, RunIds DEF RunsTyped, Rows, NoRun
<1>6. Rowless' /\ Kept'
  BY <1>1, <1>3, RunIds DEF Rowless, Kept
<1>7. Exact'
  <2>1. ASSUME NEW r \in RunId \ deleted' PROVE snapshot'[r] = Entry(runs'[r])
    BY <1>1, <1>2, <1>3 DEF Exact
  <2>2. ownerOf \in {NoRun} \cup deleted'
    <3>1. ownerOf \in OpenOwners => runs[ownerOf] # NoRow /\ ownerOf \in RunId
      BY DEF OpenOwners, NoRow
    <3> QED BY <1>1, <1>2, <3>1 DEF Exact
  <2> QED BY <1>1, <1>3, <2>1, <2>2 DEF Exact
<1>8. Shown' /\ Truth'
  BY <1>1, <1>3, <1>7 DEF Shown, Truth, Says, Lingers
<1> QED BY <1>3, <1>5, <1>6, <1>8 DEF RunsInv

\* An engine that goes away takes its snapshot along.
LEMMA DownKeeps == RunsInv /\ EngineDown => RunsInv'
<1> SUFFICES ASSUME RunsInv, EngineDown PROVE RunsInv'
  OBVIOUS
<1>1. /\ phase' = "down" /\ underway' = Nothing /\ ownerOf' = NoRun /\ deleted' = {}
      /\ snapshot' = [r \in RunId |-> NoRow]
      /\ UNCHANGED <<lifecycle, runs, born, recorded, unprojected>>
  BY DEF EngineDown
<1>2. snapshot' \in Table
  BY <1>1, NoRows
<1>3. RunsTyped'
  BY <1>1, <1>2, RunIds DEF RunsInv, RunsTyped
<1>4. Rowless' /\ Kept' /\ Tree(runs')
  BY <1>1, RunIds, Owners DEF RunsInv, Rowless, Kept
<1>5. Shown' /\ Truth'
  BY <1>1 DEF RunsInv, Shown, Truth
<1> QED BY <1>3, <1>4, <1>5 DEF RunsInv

\* The initial snapshot is that of the rows.
LEMMA PublishInitialKeeps == RunsInv /\ PublishInitial => RunsInv'
<1> SUFFICES ASSUME RunsInv, PublishInitial PROVE RunsInv'
  OBVIOUS
<1>1. /\ phase = "down" /\ phase' = "adopting"
      /\ snapshot' = [r \in RunId |-> Entry(runs[r])]
      /\ ownerOf' = (IF OpenOwners = {} THEN NoRun ELSE CHOOSE r \in OpenOwners : TRUE)
      /\ UNCHANGED <<lifecycle, runs, born, recorded, underway, unprojected, deleted>>
  BY DEF PublishInitial
<1>2. snapshot' \in Table
  <2>1. ASSUME NEW r \in RunId PROVE Entry(runs[r]) \in Row
    BY DEF RunsInv, Tree, Table, Entry, NoRow, Row
  <2> QED BY <1>1, <2>1 DEF Table
<1>3. /\ OpenOwners' = OpenOwners
      /\ ownerOf' \in OpenOwners \/ (OpenOwners = {} /\ ownerOf' = NoRun)
      /\ OpenOwners \subseteq RunId
  BY <1>1, Owners DEF OwnersIn
<1>4. Exact'
  BY <1>1, <1>3 DEF Exact
<1>5. RunsTyped'
  BY <1>1, <1>2, <1>3 DEF RunsInv, RunsTyped
<1>6. Rowless' /\ Kept' /\ Tree(runs')
  BY <1>1, <1>3, RunIds DEF RunsInv, Rowless, Kept
<1>7. Shown' /\ Truth'
  BY <1>1, <1>4 DEF RunsInv, Shown, Truth
<1> QED BY <1>5, <1>6, <1>7 DEF RunsInv

\* Adoption keeps the Run of a process that is there, and fails a row whose
\* process is gone.
LEMMA AdoptKeeps == RunsInv /\ Adopt => RunsInv'
<1> SUFFICES ASSUME RunsInv, Adopt PROVE RunsInv'
  OBVIOUS
<1>1. /\ phase = "adopting" /\ phase' = "sweeping"
      /\ UNCHANGED <<born, underway, planned, refused, deleted>>
  BY DEF Adopt
<1>2. /\ RunsTyped /\ Tree(runs) /\ Rowless /\ Kept /\ Exact /\ Truth
      /\ snapshot \in Table /\ ownerOf \in RunId \cup {NoRun}
      /\ underway \in {Stopping, Nothing}
  BY <1>1 DEF RunsInv, RunsTyped, Shown, Kept
<1>3. ASSUME runs' = runs, snapshot' = snapshot, ownerOf' = ownerOf, recorded' = recorded,
             lifecycle' = lifecycle, unprojected' = unprojected
      PROVE  RunsInv'
  <2>1. RunsTyped' /\ Rowless' /\ Tree(runs')
    BY <1>1, <1>2, <1>3 DEF RunsTyped, Rowless
  <2>2. Kept' /\ Shown' /\ Truth'
    BY <1>1, <1>2, <1>3, RunIds, Owners DEF Kept, Shown, Exact, Truth
  <2> QED BY <2>1, <2>2 DEF RunsInv
<1>4. ASSUME recorded # NoRun, Write(ensure_supervised(recorded)),
             UNCHANGED <<lifecycle, recorded, unprojected>>
      PROVE  RunsInv'
  <2> DEFINE rs == ensure_supervised(recorded)
  <2>1. recorded \in RunId /\ runs[recorded].owner
    BY <1>2, <1>4, RunIds DEF Kept
  <2>2. /\ Tree(rs) /\ OwnersIn(rs) = {recorded}
        /\ \A r \in RunId \ {recorded} : runs[r] = NoRow => rs[r] = NoRow
        /\ recorded \in OwnersIn(runs) => rs = runs
    BY <1>2, <2>1, EnsureTree
  <2> HIDE DEF rs
  <2>3. Exact' /\ runs' = rs /\ snapshot' \in Table /\ ownerOf' \in RunId \cup {NoRun}
    BY <1>1, <1>2, <1>4, <2>2, WriteExact DEF rs
  <2>4. RunsTyped'
    BY <1>1, <1>2, <1>4, <2>3 DEF RunsTyped
  <2>5. Rowless'
    <3>1. runs[recorded] # NoRow
      BY <2>1 DEF NoRow
    <3> QED BY <1>1, <1>2, <2>1, <2>2, <2>3, <3>1 DEF Rowless
  <2>6. Kept'
    <3>1. rs[recorded].owner /\ recorded \in OpenOwners'
      BY <2>2, <2>3, Owners DEF OwnersIn
    <3> QED BY <1>1, <1>2, <1>4, <2>3, <3>1, RunIds DEF Kept
  <2>7. Truth'
    <3>1. lifecycle \in {"running", "paused"} => rs = runs
      BY <1>2, <2>2, Owners DEF Kept
    <3> QED BY <1>1, <1>2, <1>4, <2>3, <3>1 DEF Truth, Says
  <2> QED BY <2>2, <2>3, <2>4, <2>5, <2>6, <2>7 DEF RunsInv, Shown
<1>5. ASSUME recorded' = NoRun, Transition("failed", FALSE)
      PROVE  RunsInv'
  <2>1. /\ lifecycle' = "failed" /\ Tree(runs') /\ Keeps(runs, runs') /\ Exact'
        /\ snapshot' \in Table /\ ownerOf' \in RunId \cup {NoRun}
    BY <1>1, <1>5, TransitionMoves DEF Rows
  <2>2. Rowless' /\ recorded' \in 0 .. born'
    BY <1>1, <1>5, <2>1, KeepsRows
  <2>3. RunsTyped'
    BY <1>1, <1>2, <2>1, <2>2 DEF RunsTyped, Rows
  <2>4. Kept' /\ Truth' /\ Shown'
    BY <1>1, <1>2, <1>5, <2>1, RunIds DEF Kept, Truth, Says, Shown
  <2> QED BY <2>1, <2>2, <2>3, <2>4 DEF RunsInv
<1>6. ASSUME recorded' = NoRun, lifecycle \notin {"running", "paused"}, Unwritten,
             UNCHANGED <<lifecycle, unprojected>>
      PROVE  RunsInv'
  <2>1. /\ runs' = runs /\ snapshot' = snapshot
        /\ ownerOf' = ownerOf /\ OpenOwners' = OpenOwners
    BY <1>6, Owners DEF Unwritten
  <2>2. RunsTyped' /\ Rowless' /\ Tree(runs')
    BY <1>1, <1>2, <1>6, <2>1, RunIds DEF RunsTyped, Rowless, NoRun
  <2>3. Kept' /\ Shown' /\ Truth'
    BY <1>1, <1>2, <1>6, <2>1, RunIds DEF Kept, Shown, Exact, Truth
  <2> QED BY <2>2, <2>3 DEF RunsInv
<1> QED BY <1>3, <1>4, <1>5, <1>6 DEF Adopt, Unwritten

\* The sweep ends what an instance without a process left open.
LEMMA SweepKeeps == RunsInv /\ Sweep => RunsInv'
<1> SUFFICES ASSUME RunsInv, Sweep PROVE RunsInv'
  OBVIOUS
<1>1. /\ phase = "sweeping" /\ phase' = "up"
      /\ UNCHANGED <<lifecycle, born, recorded, underway, planned, deleted>>
  BY DEF Sweep
<1>2. /\ RunsTyped /\ Tree(runs) /\ Rowless /\ Kept /\ Exact /\ Truth
      /\ snapshot \in Table /\ ownerOf \in RunId \cup {NoRun}
      /\ underway \in {Stopping, Nothing}
  BY <1>1 DEF RunsInv, RunsTyped, Shown, Kept
<1>3. CASE /\ Write(EndOwners(runs, WithoutProcess))
           /\ unprojected' = (unprojected /\ lifecycle \notin NoProcess)
  <2> DEFINE rs == EndOwners(runs, WithoutProcess)
  <2>1. WithoutProcess \in SUBSET OwnersIn(runs)
    BY Owners DEF WithoutProcess
  <2>2. /\ Tree(rs) /\ Keeps(runs, rs) /\ OwnersIn(rs) = OwnersIn(runs) \ WithoutProcess
        /\ WithoutProcess = {} => rs = runs
    BY <1>2, <2>1, EndTree
  <2> HIDE DEF rs
  <2>3. Exact' /\ runs' = rs /\ snapshot' \in Table /\ ownerOf' \in RunId \cup {NoRun}
    BY <1>1, <1>2, <1>3, <2>2, WriteExact DEF rs
  <2>4. /\ Rowless' /\ recorded' \in 0 .. born'
        /\ recorded' # NoRun => runs'[recorded'].owner
    BY <1>1, <2>2, <2>3, KeepsRows
  <2>5. RunsTyped'
    BY <1>1, <1>2, <2>3 DEF RunsTyped
  <2>6. lifecycle \in NoProcess => OpenOwners' = {}
    BY <2>2, <2>3, Owners DEF WithoutProcess
  <2>7. lifecycle \notin NoProcess => rs = runs
    BY <2>2 DEF WithoutProcess
  <2>8. Kept'
    BY <1>1, <1>2, <2>3, <2>4, <2>7, RunIds, Owners DEF Kept, NoProcess
  <2>9. Truth'
    BY <1>1, <1>2, <1>3, <2>3, <2>6, <2>7 DEF Truth, Says, Lingers, NoProcess
  <2> QED BY <2>2, <2>3, <2>4, <2>5, <2>8, <2>9 DEF RunsInv, Shown
<1>4. CASE Unwritten /\ unprojected' = (unprojected \/ WithoutProcess # {})
  <2>1. /\ runs' = runs /\ snapshot' = snapshot
        /\ ownerOf' = ownerOf /\ OpenOwners' = OpenOwners
    BY <1>4, Owners DEF Unwritten
  <2>2. RunsTyped' /\ Rowless' /\ Tree(runs')
    BY <1>1, <1>2, <2>1 DEF RunsTyped, Rowless
  <2>3. Kept' /\ Shown' /\ Truth'
    BY <1>1, <1>2, <1>4, <2>1, RunIds DEF Kept, Shown, Exact, Truth, Lingers, WithoutProcess
  <2> QED BY <2>2, <2>3 DEF RunsInv
<1> QED BY <1>3, <1>4 DEF Sweep

\* The invariant holds in every reachable state of the Runs.
THEOREM RunsInvariance == RunsSpec => []RunsInv
<1>1. RunsInit => RunsInv
  BY RunsInitInv
<1>2. RunsInv /\ [RunsNext]_runsVars => RunsInv'
  <2> SUFFICES ASSUME RunsInv, [RunsNext]_runsVars PROVE RunsInv'
    OBVIOUS
  <2>1. ASSUME NEW b \in BOOLEAN, BeginLaunch(b) \/ FailLaunch(b) \/ CrashAgent(b)
        PROVE  RunsInv'
    BY <2>1, BeginKeeps, FailLaunchKeeps, CrashKeeps
  <2>2. CASE RefuseRelaunch \/ RecordLaunch \/ Ready \/ ConfirmStopped
    BY <2>2, RefuseKeeps, RecordKeeps, ReadyKeeps, ConfirmKeeps
  <2>3. ASSUME NEW c \in Commands, Command(c) PROVE RunsInv'
    BY <2>3, CommandKeeps
  <2>4. ASSUME NEW r \in RunId, OpenChild(r) \/ CloseRun(r) PROVE RunsInv'
    BY <2>4, OpenChildKeeps, CloseKeeps
  <2>5. CASE RemoveAgent \/ EngineDown \/ PublishInitial \/ Adopt \/ Sweep
    BY <2>5, RemoveKeeps, DownKeeps, PublishInitialKeeps, AdoptKeeps, SweepKeeps
  <2>6. CASE UNCHANGED runsVars
    <3>1. OpenOwners' = OpenOwners
      BY <2>6, Owners DEF runsVars
    <3> QED BY <2>6, <3>1 DEF runsVars, RunsInv, RunsTyped, Rowless, Kept, Shown, Exact,
                              Truth, Lingers
  <2> QED BY <2>1, <2>2, <2>3, <2>4, <2>5, <2>6 DEF RunsNext
<1> QED BY <1>1, <1>2, PTL DEF RunsSpec

\* A child Run lives and holds with the process that hosts it, however the
\* Runs between were closed and whichever writes failed (ops.rs, move_to,
\* cascade, ensure_supervised).
THEOREM TreesFollowTheirOwner == RunsSpec => []TreeFollowsOwner
<1>1. RunsInv => TreeFollowsOwner
  <2> SUFFICES ASSUME RunsInv PROVE TreeFollowsOwner
    OBVIOUS
  <2>1. Tree(runs) /\ OpenOwners = OwnersIn(runs)
    BY Owners DEF RunsInv
  <2>2. Cardinality(OpenOwners) <= 1
    <3>1. CASE OpenOwners = {}
      BY <3>1, FS_EmptySet
    <3>2. CASE OpenOwners # {}
      <4>1. PICK o \in OpenOwners : OpenOwners = {o}
        BY <2>1, <3>2 DEF Tree, OneOwner
      <4> QED BY <4>1, FS_Singleton
    <3> QED BY <3>1, <3>2
  <2> QED BY <2>1, <2>2 DEF TreeFollowsOwner, Tree, Below
<1> QED BY <1>1, RunsInvariance, PTL

\* The snapshot of the data path is exact, though each job changes only the
\* records it touched (snapshot.rs, RunSnapshot::with).
THEOREM SnapshotsAreExact == RunsSpec => []SnapshotExact
<1>1. RunsInv => SnapshotExact
  BY DEF RunsInv, Shown, Exact, Entry, SnapshotExact
<1> QED BY <1>1, RunsInvariance, PTL

\* The Run tells the truth about its process unless a write of it failed
\* (commit.rs, project_transition; registry.rs, end_runs_without_a_process).
THEOREM RunsTellTheTruth == RunsSpec => []RunFollowsProcess
<1>1. RunsInv => RunFollowsProcess
  BY Owners DEF RunsInv, Kept, Truth, Says, Lingers, RunFollowsProcess
<1> QED BY <1>1, RunsInvariance, PTL
=============================================================================
