---------------------------- MODULE ServersProofs ----------------------------
(***************************************************************************)
(* Theorems about what the console saves and the bot reads: the registry   *)
(* of nodes, the routing profiles, the files written for Marzban, and the  *)
(* price list with the dialogue that sells from it, for any number of      *)
(* rows, nodes, pages, requests, tariffs and prices.                       *)
(***************************************************************************)
EXTENDS MCSettings, Sums, FiniteSetTheorems, TLAPS

(***************************************************************************)
(* The registry of nodes.  A row that has a source and is not missing says *)
(* of it what the last sync that committed had read; a row about which the *)
(* admins were alarmed has failed at least as often as the threshold, so   *)
(* it does not meet the threshold again before a good probe; and names and *)
(* sources are unique because a sync that would make two of one refuses to *)
(* commit.                                                                 *)
(***************************************************************************)
RowType ==
  [there : BOOLEAN, name : Names \cup {"none"}, source : Sources \cup {NoSource}, state : States,
   status : NodeStatuses, enabled : BOOLEAN, default : BOOLEAN, health : Healths,
   fails : 0..(Threshold + 1)]
PanelType == [there : BOOLEAN, name : Names \cup {"none"}, status : NodeStatuses]

NodeTypes ==
  /\ node \in [Rows -> RowType]
  /\ panelNode \in [Sources -> PanelType]
  /\ syncing.at \in {"idle", "read"} /\ syncing.seen \in [Sources -> PanelType]
  /\ probing.at \in {"idle", "read", Failure}
  /\ turns \in 0..MaxTurns /\ cooling \in BOOLEAN
  /\ alerts \in [Rows -> Nat]

\* What a read of the panel can have shown.
PanelIsProper(seen) ==
  /\ \A x \in Sources : seen[x].there => seen[x].status \in {"active", "disabled"}
  /\ \A x, y \in Sources : seen[x].there /\ seen[y].there /\ seen[x].name = seen[y].name => x = y

RowsDiffer ==
  /\ \A r \in Rows : ~node[r].there => node[r].source = NoSource /\ node[r].fails = 0
  /\ \A r, q \in Rows :
       /\ node[r].there /\ node[q].there /\ node[r].name = node[q].name => r = q
       /\ node[r].source = node[q].source /\ node[r].source # NoSource => r = q

\* A row of which the panel has a node says what the last sync had read of it.
Follows(r) ==
  node[r].source # NoSource /\ node[r].state # "missing" =>
    /\ listed[node[r].source].there
    /\ node[r].status = listed[node[r].source].status

AlarmsCounted(r) == alerts[r] = 0 \/ (alerts[r] = 1 /\ node[r].fails >= Threshold)

NodesInv ==
  /\ NodeTypes
  /\ PanelIsProper(panelNode) /\ PanelIsProper(syncing.seen) /\ PanelIsProper(listed)
  /\ RowsDiffer
  /\ \A r \in Rows : Follows(r) /\ AlarmsCounted(r)

USE NodesAssumption, NoSourceAssumption

LEMMA MinOfTwo ==
  ASSUME NEW a \in Int, NEW b \in Int
  PROVE Min({a, b}) = IF a <= b THEN a ELSE b
  BY DEF Min

LEMMA NoNodeType == NoNode \in RowType /\ NoPanelNode \in PanelType
  BY DEF NoNode, NoPanelNode, RowType, PanelType, States, NodeStatuses, Healths

LEMMA NodesInitInv == NodesInit => NodesInv
<1> SUFFICES ASSUME NodesInit PROVE NodesInv
  OBVIOUS
<1> USE DEF NodesInit
<1>1. NodeTypes
  <2>1. node \in [Rows -> RowType] /\ panelNode \in [Sources -> PanelType]
    BY NoNodeType
  <2>2. syncing.seen \in [Sources -> PanelType]
    BY NoNodeType DEF IdleSync
  <2>3. syncing.at = "idle" /\ probing.at = "idle"
    BY DEF IdleSync
  <2>4. alerts \in [Rows -> Nat]
    OBVIOUS
  <2>5. turns \in 0..MaxTurns
    OBVIOUS
  <2>6. cooling \in BOOLEAN
    OBVIOUS
  <2> QED
    BY <2>1, <2>2, <2>3, <2>4, <2>5, <2>6 DEF NodeTypes
<1>2. PanelIsProper([x \in Sources |-> NoPanelNode])
  BY DEF PanelIsProper, NoPanelNode
<1>3. RowsDiffer
  BY DEF RowsDiffer, NoNode
<1>4. \A r \in Rows : Follows(r) /\ AlarmsCounted(r)
  BY DEF Follows, AlarmsCounted, NoNode
<1> QED
  BY <1>1, <1>2, <1>3, <1>4 DEF NodesInv, IdleSync

\* A step of the panel.
LEMMA PanelInv ==
  ASSUME NodesInv, NEW x \in Sources,
         (\E name \in Names : PanelAdds(x, name)) \/ PanelChanges(x)
  PROVE NodesInv'
<1> USE DEF NodesInv, NodeTypes
<1>1. UNCHANGED <<node, syncing, probing, nodePage, cooling, nodeHistory>> /\ turns' \in 0..MaxTurns
  BY DEF PanelAdds, PanelChanges, Turn
<1>2. panelNode' \in [Sources -> PanelType] /\ PanelIsProper(panelNode')
  <2>1. ASSUME NEW name \in Names, PanelAdds(x, name)
        PROVE panelNode' \in [Sources -> PanelType] /\ PanelIsProper(panelNode')
    <3>1. [there |-> TRUE, name |-> name, status |-> "active"] \in PanelType
      BY DEF PanelType, NodeStatuses
    <3> QED
      BY <2>1, <3>1 DEF PanelAdds, PanelIsProper
  <2>2. CASE panelNode' = [panelNode EXCEPT ![x] = NoPanelNode]
    BY <2>2, NoNodeType DEF PanelIsProper, NoPanelNode
  <2>3. CASE panelNode' = [panelNode EXCEPT ![x].status = IF @ = "active" THEN "disabled" ELSE "active"]
    BY <2>3 DEF PanelIsProper, PanelType, NodeStatuses
  <2> QED
    BY <2>1, <2>2, <2>3 DEF PanelChanges
<1> QED
  BY <1>1, <1>2 DEF RowsDiffer, Follows, AlarmsCounted, nodeHistory

\* A step that leaves the rows, the panel and what was listed alone.
LEMMA RegistryKept ==
  ASSUME NodesInv, UNCHANGED <<node, panelNode, listed, alerts>>,
         syncing' = syncing \/ syncing' = IdleSync \/ syncing' = [at |-> "read", seen |-> panelNode],
         probing'.at \in {"idle", "read", Failure}, turns' \in 0..MaxTurns, cooling' \in BOOLEAN
  PROVE NodesInv'
<1> USE DEF NodesInv, NodeTypes
<1>1. PanelIsProper([x \in Sources |-> NoPanelNode])
  BY DEF PanelIsProper, NoPanelNode
<1>2. syncing'.at \in {"idle", "read"} /\ syncing'.seen \in [Sources -> PanelType]
      /\ PanelIsProper(syncing'.seen)
  BY <1>1, NoNodeType DEF IdleSync
<1> QED
  BY <1>2 DEF RowsDiffer, Follows, AlarmsCounted

LEMMA ProbeInv ==
  ASSUME NodesInv, ProbeCommits
  PROVE NodesInv'
<1> USE DEF NodesInv, NodeTypes
<1> DEFINE Fails(r) == IF ProbeOk(r) THEN 0 ELSE Min({node[r].fails + 1, Threshold + 1})
<1>1. /\ node' = [r \in Rows |-> IF r \notin Probed THEN node[r] ELSE [node[r] EXCEPT !.fails = Fails(r)]]
      /\ UNCHANGED <<panelNode, syncing, nodePage, turns, listed>>
  BY DEF ProbeCommits
<1>2. PICK sent \in Alerts({r \in Probed : Alarmed(r)}) :
         /\ alerts' = [r \in Rows |-> IF r \in sent THEN alerts[r] + 1
                                      ELSE IF r \in Probed /\ ProbeOk(r) THEN 0 ELSE alerts[r]]
         /\ cooling' = (cooling \/ sent # {})
  BY DEF ProbeCommits
<1>3. \A r \in sent : r \in Probed /\ Alarmed(r)
  BY <1>2 DEF Alerts
<1>4. ASSUME NEW r \in Rows
      PROVE /\ Fails(r) \in 0..(Threshold + 1)
            /\ ~ProbeOk(r) => Fails(r) = IF node[r].fails < Threshold THEN node[r].fails + 1
                                         ELSE Threshold + 1
  <2>1. node[r].fails \in 0..(Threshold + 1)
    BY DEF RowType
  <2>2. Min({node[r].fails + 1, Threshold + 1}) = IF node[r].fails + 1 <= Threshold + 1
                                                 THEN node[r].fails + 1 ELSE Threshold + 1
    BY <2>1, MinOfTwo
  <2> QED
    BY <2>1, <2>2
<1>5. ASSUME NEW r \in Rows
      PROVE /\ node'[r] \in RowType
            /\ node'[r].there = node[r].there /\ node'[r].name = node[r].name
            /\ node'[r].source = node[r].source /\ node'[r].state = node[r].state
            /\ node'[r].status = node[r].status
            /\ node'[r].fails = IF r \in Probed THEN Fails(r) ELSE node[r].fails
            /\ r \notin Probed => node'[r] = node[r]
  <2>1. node[r] \in RowType /\ Fails(r) \in 0..(Threshold + 1)
    BY <1>4
  <2> HIDE DEF Fails
  <2>2. CASE r \in Probed
    <3>1. node'[r] = [node[r] EXCEPT !.fails = Fails(r)]
      BY <1>1, <2>2
    <3> QED
      BY <2>1, <2>2, <3>1 DEF RowType
  <2>3. CASE r \notin Probed
    BY <1>1, <2>1, <2>3
  <2> QED
    BY <2>2, <2>3
<1>6. NodeTypes'
  <2>1. node' \in [Rows -> RowType]
    BY <1>1, <1>5
  <2>2. alerts' \in [Rows -> Nat]
    BY <1>2
  <2>3. probing'.at = "idle"
    BY DEF ProbeCommits, IdleSync
  <2> QED
    BY <1>1, <1>2, <2>1, <2>2, <2>3
<1>7. RowsDiffer'
  <2>1. ASSUME NEW r \in Rows, ~node'[r].there
        PROVE node'[r].source = NoSource /\ node'[r].fails = 0
    <3>1. ~node[r].there /\ r \notin Probed
      BY <1>5, <2>1 DEF Probed
    <3> QED
      BY <1>5, <3>1 DEF RowsDiffer
  <2>2. ASSUME NEW r \in Rows, NEW q \in Rows
        PROVE /\ node'[r].there /\ node'[q].there /\ node'[r].name = node'[q].name => r = q
              /\ node'[r].source = node'[q].source /\ node'[r].source # NoSource => r = q
    <3>1. /\ node'[r].there = node[r].there /\ node'[r].name = node[r].name
          /\ node'[q].there = node[q].there /\ node'[q].name = node[q].name
          /\ node'[r].source = node[r].source /\ node'[q].source = node[q].source
      BY <1>5
    <3> QED
      BY <3>1 DEF RowsDiffer
  <2> QED
    BY <2>1, <2>2 DEF RowsDiffer
<1>8. ASSUME NEW r \in Rows PROVE Follows(r)'
  BY <1>1, <1>5 DEF Follows
<1>9. ASSUME NEW r \in Rows PROVE AlarmsCounted(r)'
  <2>1. AlarmsCounted(r) /\ node[r].fails \in 0..(Threshold + 1) /\ alerts[r] \in Nat
    BY DEF RowType
  <2>2. CASE r \in sent
    <3>1. r \in Probed /\ ~ProbeOk(r) /\ node[r].fails + 1 = Threshold
      BY <1>3, <2>2 DEF Alarmed
    <3>2. alerts[r] = 0 /\ alerts'[r] = 1
      BY <1>2, <2>1, <2>2, <3>1 DEF AlarmsCounted
    <3>3. Fails(r) = Threshold
      BY <1>4, <2>1, <3>1
    <3> QED
      BY <1>5, <3>1, <3>2, <3>3 DEF AlarmsCounted
  <2>3. CASE r \notin sent
    <3>1. CASE r \in Probed /\ ProbeOk(r)
      BY <1>2, <2>3, <3>1 DEF AlarmsCounted
    <3>2. CASE r \in Probed /\ ~ProbeOk(r)
      <4>1. alerts'[r] = alerts[r]
        BY <1>2, <2>3, <3>2
      <4>2. node[r].fails >= Threshold => Fails(r) >= Threshold
        BY <1>4, <2>1, <3>2
      <4>3. node'[r].fails = Fails(r)
        BY <1>5, <3>2
      <4> QED
        BY <2>1, <4>1, <4>2, <4>3 DEF AlarmsCounted
    <3>3. CASE r \notin Probed
      <4>1. alerts'[r] = alerts[r] /\ node'[r].fails = node[r].fails
        BY <1>2, <1>5, <2>3, <3>3
      <4> QED
        BY <2>1, <4>1 DEF AlarmsCounted
    <3> QED
      BY <3>1, <3>2, <3>3
  <2> QED
    BY <2>2, <2>3
<1> QED
  BY <1>1, <1>6, <1>7, <1>8, <1>9

\* A sync gives each node it has read a row of its own.
LEMMA SyncInv ==
  ASSUME NodesInv, SyncCommits
  PROVE NodesInv'
<1> USE DEF NodesInv, NodeTypes
<1> DEFINE Read == {x \in Sources : Seen(x)}
           Saw(x) == syncing.seen[x]
<1>1. PICK place \in [Read -> Rows] :
        /\ \A x, y \in DOMAIN place : place[x] = place[y] => x = y
        /\ \A x \in DOMAIN place :
             IF RowOf(x) # {} THEN place[x] \in RowOf(x)
             ELSE IF Adoptable(x) # {} THEN place[x] \in Adoptable(x)
             ELSE ~node[place[x]].there
        /\ node' = [r \in Rows |->
                      IF \E x \in DOMAIN place : place[x] = r
                      THEN Fetched(r, CHOOSE x \in DOMAIN place : place[x] = r)
                      ELSE Unseen(r)]
  BY DEF SyncCommits
<1>2. /\ syncing' = IdleSync /\ listed' = syncing.seen /\ \A x \in Sources : ~Collides(x)
      /\ UNCHANGED <<panelNode, probing, nodePage, cooling, turns, alerts>>
  BY DEF SyncCommits
<1>3. DOMAIN place = Read /\ Read \subseteq Sources /\ \A x \in Read : Saw(x).there
  BY DEF Seen
<1>4. \A x \in Read : node'[place[x]] = Fetched(place[x], x)
  BY <1>1, <1>3
<1>5. \A r \in Rows : (\A x \in Read : place[x] # r) => node'[r] = Unseen(r)
  BY <1>1, <1>3
<1> HIDE DEF Read
\* What becomes of a row that is fetched.
<1>6. ASSUME NEW x \in Read
      PROVE /\ node'[place[x]] \in RowType /\ place[x] \in Rows
            /\ node'[place[x]].there /\ node'[place[x]].source = x
            /\ node'[place[x]].state = "synced" /\ node'[place[x]].status = Saw(x).status
            /\ node'[place[x]].name = IF node[place[x]].there THEN node[place[x]].name ELSE Saw(x).name
            /\ node'[place[x]].fails = node[place[x]].fails
  <2> DEFINE r == place[x]
  <2>1. r \in Rows /\ node[r] \in RowType /\ Saw(x) \in PanelType /\ x \in Sources
    BY <1>1, <1>3
  <2>2. node'[r] = Fetched(r, x)
    BY <1>4
  <2> HIDE DEF r
  <2> QED
    BY <2>1, <2>2 DEF Fetched, RowType, PanelType, States, NodeStatuses, Healths, r
\* ... and of one that is not.
<1>7. ASSUME NEW r \in Rows, \A x \in Read : place[x] # r
      PROVE /\ node'[r] \in RowType
            /\ node'[r].there = node[r].there /\ node'[r].source = node[r].source
            /\ node'[r].source # NoSource => node'[r].state = "missing"
            /\ node'[r].name = node[r].name /\ node'[r].fails = node[r].fails
            /\ node[r].source = NoSource => node'[r] = node[r]
  <2>1. node'[r] = Unseen(r) /\ node[r] \in RowType
    BY <1>5, <1>7
  <2> QED
    BY <2>1 DEF Unseen, RowType, States
\* The row a node gets is its own or nobody's.
<1>8. ASSUME NEW x \in Read
      PROVE /\ node[place[x]].source \in {x, NoSource}
            /\ \A q \in Rows : node[q].source = x => q = place[x]
            /\ ~node[place[x]].there => Held(Saw(x).name) = {}
  <2>1. x \in Sources /\ Seen(x) /\ ~Collides(x) /\ place[x] \in Rows
    BY <1>1, <1>2, <1>3 DEF Seen
  <2>2. \A q \in Rows : node[q].source = x => q \in RowOf(x)
    BY <2>1 DEF RowOf, RowsDiffer, NoNode
  <2>3. CASE RowOf(x) # {}
    <3>1. place[x] \in RowOf(x)
      BY <1>1, <1>3, <2>3
    <3>2. node[place[x]].there /\ node[place[x]].source = x
      BY <3>1 DEF RowOf
    <3> QED
      BY <2>1, <3>2 DEF RowsDiffer
  <2>4. CASE RowOf(x) = {} /\ Adoptable(x) # {}
    <3>1. place[x] \in Adoptable(x)
      BY <1>1, <1>3, <2>4
    <3> QED
      BY <2>2, <2>4, <3>1 DEF Adoptable, Held
  <2>5. CASE RowOf(x) = {} /\ Adoptable(x) = {}
    <3>1. ~node[place[x]].there
      BY <1>1, <1>3, <2>5
    <3>2. node[place[x]].source = NoSource
      BY <2>1, <3>1 DEF RowsDiffer, NoNode
    <3>3. Held(Saw(x).name) = {}
      BY <2>1, <2>5 DEF Collides
    <3> QED
      BY <2>2, <2>5, <3>2, <3>3
  <2> QED
    BY <2>3, <2>4, <2>5
<1>9. NodeTypes'
  <2>1. node' \in [Rows -> RowType]
    BY <1>1, <1>6, <1>7
  <2>2. syncing'.at = "idle" /\ syncing'.seen \in [Sources -> PanelType]
    BY <1>2, NoNodeType DEF IdleSync
  <2> QED
    BY <1>2, <2>1, <2>2
<1>10. PanelIsProper(syncing'.seen) /\ PanelIsProper(listed') /\ PanelIsProper(panelNode')
  BY <1>2 DEF PanelIsProper, IdleSync, NoPanelNode
<1> DEFINE Taken(r) == \E x \in Read : place[x] = r
<1>11. ASSUME NEW r \in Rows, NEW q \in Rows, node'[r].there, node'[q].there,
              node'[r].name = node'[q].name
       PROVE r = q
  <2>1. CASE ~Taken(r) /\ ~Taken(q)
    BY <1>7, <1>11, <2>1 DEF RowsDiffer
  <2>2. CASE Taken(r) /\ Taken(q)
    <3>1. PICK x \in Read, y \in Read : place[x] = r /\ place[y] = q
      BY <2>2
    <3>2. CASE node[r].there /\ node[q].there
      BY <1>6, <1>11, <3>1, <3>2 DEF RowsDiffer
    <3>3. CASE ~node[r].there /\ ~node[q].there
      <4>1. Saw(x).name = Saw(y).name /\ Saw(x).there /\ Saw(y).there
        BY <1>3, <1>6, <1>11, <3>1, <3>3
      <4> QED
        BY <1>3, <3>1, <4>1 DEF PanelIsProper
    <3>4. CASE ~node[r].there /\ node[q].there
      <4>1. node[q].name = Saw(x).name
        BY <1>6, <1>11, <3>1, <3>4
      <4> QED
        BY <1>8, <3>1, <3>4, <4>1 DEF Held
    <3>5. CASE node[r].there /\ ~node[q].there
      <4>1. node[r].name = Saw(y).name
        BY <1>6, <1>11, <3>1, <3>5
      <4> QED
        BY <1>8, <3>1, <3>5, <4>1 DEF Held
    <3> QED
      BY <3>2, <3>3, <3>4, <3>5
  <2>3. ASSUME NEW a \in Rows, NEW b \in Rows, node'[a].there, node'[b].there,
               node'[a].name = node'[b].name, Taken(a), ~Taken(b)
        PROVE a = b
    <3>1. PICK x \in Read : place[x] = a
      BY <2>3
    <3>2. node[b].there /\ node[b].name = node'[a].name
      BY <1>7, <2>3
    <3>3. CASE node[a].there
      BY <1>6, <3>1, <3>2, <3>3 DEF RowsDiffer
    <3>4. CASE ~node[a].there
      BY <1>6, <1>8, <3>1, <3>2, <3>4 DEF Held
    <3> QED
      BY <3>3, <3>4
  <2> QED
    BY <1>11, <2>1, <2>2, <2>3
<1>12. ASSUME NEW r \in Rows, NEW q \in Rows, node'[r].source = node'[q].source,
              node'[r].source # NoSource
       PROVE r = q
  <2>1. CASE ~Taken(r) /\ ~Taken(q)
    BY <1>7, <1>12, <2>1 DEF RowsDiffer
  <2>2. CASE Taken(r) /\ Taken(q)
    BY <1>6, <1>12, <2>2
  <2>3. CASE Taken(r) /\ ~Taken(q)
    <3>1. PICK x \in Read : place[x] = r
      BY <2>3
    <3> QED
      BY <1>6, <1>7, <1>8, <1>12, <2>3, <3>1
  <2>4. CASE ~Taken(r) /\ Taken(q)
    <3>1. PICK x \in Read : place[x] = q
      BY <2>4
    <3> QED
      BY <1>6, <1>7, <1>8, <1>12, <2>4, <3>1
  <2> QED
    BY <2>1, <2>2, <2>3, <2>4
<1>13. ASSUME NEW r \in Rows, ~node'[r].there
       PROVE node'[r].source = NoSource /\ node'[r].fails = 0
  <2>1. ~Taken(r)
    BY <1>6, <1>13
  <2>2. ~node[r].there
    BY <1>7, <1>13, <2>1
  <2>3. node[r].fails = 0 /\ node[r].source = NoSource
    BY <2>2 DEF RowsDiffer
  <2> QED
    BY <1>7, <2>1, <2>3
<1>14. ASSUME NEW r \in Rows PROVE Follows(r)' /\ AlarmsCounted(r)'
  <2>1. CASE Taken(r)
    <3>1. PICK x \in Read : place[x] = r
      BY <2>1
    <3>2. Follows(r)'
      BY <1>2, <1>3, <1>6, <3>1 DEF Follows
    <3> QED
      BY <1>2, <1>6, <3>1, <3>2 DEF AlarmsCounted
  <2>2. CASE ~Taken(r)
    BY <1>2, <1>7, <2>2 DEF Follows, AlarmsCounted
  <2> QED
    BY <2>1, <2>2
<1> QED
  BY <1>9, <1>10, <1>11, <1>12, <1>13, <1>14 DEF RowsDiffer

\* A page that edits a row leaves what the sync and the probe know of it.
LEMMA RowsEdited ==
  ASSUME NodesInv, UNCHANGED <<panelNode, syncing, probing, cooling, nodeHistory>>,
         turns' \in 0..MaxTurns, node' \in [Rows -> RowType],
         \A r \in Rows :
           /\ node'[r].there = node[r].there /\ node'[r].name = node[r].name
           /\ node'[r].source = node[r].source /\ node'[r].state = node[r].state
           /\ node'[r].status = node[r].status /\ node'[r].fails = node[r].fails
  PROVE NodesInv'
<1> USE DEF NodesInv, NodeTypes, nodeHistory
<1>1. RowsDiffer'
  <2>1. ASSUME NEW r \in Rows, ~node'[r].there
        PROVE node'[r].source = NoSource /\ node'[r].fails = 0
    BY <2>1 DEF RowsDiffer
  <2>2. ASSUME NEW r \in Rows, NEW q \in Rows, node'[r].there, node'[q].there,
               node'[r].name = node'[q].name
        PROVE r = q
    BY <2>2 DEF RowsDiffer
  <2>3. ASSUME NEW r \in Rows, NEW q \in Rows, node'[r].source = node'[q].source,
               node'[r].source # NoSource
        PROVE r = q
    BY <2>3 DEF RowsDiffer
  <2> QED
    BY <2>1, <2>2, <2>3 DEF RowsDiffer
<1>2. \A r \in Rows : Follows(r)' /\ AlarmsCounted(r)'
  BY DEF Follows, AlarmsCounted
<1> QED
  BY <1>1, <1>2

LEMMA CreatesInv ==
  ASSUME NodesInv, NEW r \in Rows, NEW name \in Names, PageCreates(r, name)
  PROVE NodesInv'
<1> USE DEF NodesInv, NodeTypes, nodeHistory
<1> DEFINE new == [NoNode EXCEPT !.there = TRUE, !.name = name, !.enabled = TRUE]
<1>1. /\ new \in RowType /\ new.there /\ new.name = name /\ new.source = NoSource /\ new.fails = 0
  BY NoNodeType DEF RowType, NoNode
<1>2. /\ node' = [node EXCEPT ![r] = new] /\ ~node[r].there /\ Held(name) = {}
      /\ turns' \in 0..MaxTurns
      /\ UNCHANGED <<panelNode, syncing, probing, nodePage, cooling, nodeHistory>>
  BY DEF PageCreates, Turn
<1> HIDE DEF new
<1>3. \A q \in Rows : node'[q] = IF q = r THEN new ELSE node[q]
  BY <1>2
<1>4. \A q \in Rows : node[q].there => node[q].name # name
  BY <1>2 DEF Held
<1>5. RowsDiffer'
  BY <1>1, <1>3, <1>4 DEF RowsDiffer
<1>6. alerts[r] = 0
  <2>1. node[r].fails = 0 /\ AlarmsCounted(r)
    BY <1>2 DEF RowsDiffer
  <2> QED
    BY <2>1 DEF AlarmsCounted
<1>7. \A q \in Rows : Follows(q)' /\ AlarmsCounted(q)'
  BY <1>1, <1>2, <1>3, <1>6 DEF Follows, AlarmsCounted
<1> QED
  BY <1>1, <1>2, <1>5, <1>7

LEMMA EditsInv ==
  ASSUME NodesInv, NEW r \in Rows, NEW enabled \in BOOLEAN, NEW health \in Healths,
         PageEdits(r, enabled, health)
  PROVE NodesInv'
<1>1. PICK default \in {FALSE, node[r].default} :
        node' = [node EXCEPT ![r].enabled = enabled, ![r].health = health, ![r].default = default]
  BY DEF PageEdits
<1> DEFINE new == [node[r] EXCEPT !.enabled = enabled, !.health = health, !.default = default]
<1>2. node \in [Rows -> RowType] /\ node[r] \in RowType /\ default \in BOOLEAN
  BY DEF NodesInv, NodeTypes, RowType
<1>3. node' = [node EXCEPT ![r] = new]
  BY <1>1, <1>2 DEF RowType
<1>4. new \in RowType /\ new.there = node[r].there /\ new.name = node[r].name
      /\ new.source = node[r].source /\ new.state = node[r].state
      /\ new.status = node[r].status /\ new.fails = node[r].fails
  BY <1>2 DEF RowType
<1> HIDE DEF new
<1>5. UNCHANGED <<panelNode, syncing, probing, cooling, nodeHistory>> /\ turns' \in 0..MaxTurns
  BY DEF PageEdits, Turn, NodesInv, NodeTypes
<1>6. node' \in [Rows -> RowType] /\ \A q \in Rows : node'[q] = IF q = r THEN new ELSE node[q]
  BY <1>2, <1>3, <1>4
<1> QED
  BY <1>4, <1>5, <1>6, RowsEdited

LEMMA DefaultInv ==
  ASSUME NodesInv, NEW g \in NodePages, PageSetsDefault(g)
  PROVE NodesInv'
<1> DEFINE b(r) == r = nodePage[g].row \/ (node[r].default /\ r \notin nodePage[g].clears)
<1>1. node' = [r \in Rows |-> [node[r] EXCEPT !.default = b(r)]]
  BY DEF PageSetsDefault
<1>2. node \in [Rows -> RowType]
  BY DEF NodesInv, NodeTypes
<1>3. \A r \in Rows : b(r) \in BOOLEAN
  OBVIOUS
<1>4. UNCHANGED <<panelNode, syncing, probing, cooling, nodeHistory>> /\ turns' \in 0..MaxTurns
  BY DEF PageSetsDefault, NodesInv, NodeTypes
<1> HIDE DEF b
<1>5. ASSUME NEW r \in Rows
      PROVE /\ node'[r] \in RowType
            /\ node'[r].there = node[r].there /\ node'[r].name = node[r].name
            /\ node'[r].source = node[r].source /\ node'[r].state = node[r].state
            /\ node'[r].status = node[r].status /\ node'[r].fails = node[r].fails
  <2>1. node[r] \in RowType /\ node'[r] = [node[r] EXCEPT !.default = b(r)] /\ b(r) \in BOOLEAN
    BY <1>1, <1>2, <1>3
  <2> QED
    BY <2>1 DEF RowType
<1>6. node' \in [Rows -> RowType]
  BY <1>1, <1>5
<1> QED
  BY <1>4, <1>5, <1>6, RowsEdited

LEMMA NodesNextInv == NodesInv /\ [NodesNext]_nodeVars => NodesInv'
<1> SUFFICES ASSUME NodesInv, [NodesNext]_nodeVars PROVE NodesInv'
  OBVIOUS
<1>1. ASSUME \/ SyncReads \/ SyncFails
             \/ \E outcome \in {"read", Failure} : ProbeReads(outcome)
             \/ ProbeFails \/ AlertCooldownEnds
             \/ \E g \in NodePages, r \in Rows : PageClearsDefault(g, r)
             \/ UNCHANGED nodeVars
      PROVE NodesInv'
  <2>1. UNCHANGED <<node, panelNode, listed, alerts>>
    BY <1>1 DEF SyncReads, SyncFails, ProbeReads, ProbeFails, AlertCooldownEnds,
                PageClearsDefault, nodeVars, nodeHistory
  <2>2. \/ syncing' = syncing \/ syncing' = IdleSync \/ syncing' = [at |-> "read", seen |-> panelNode]
    BY <1>1 DEF SyncReads, SyncFails, ProbeReads, ProbeFails, AlertCooldownEnds,
                PageClearsDefault, nodeVars
  <2>3. probing'.at \in {"idle", "read", Failure}
    BY <1>1 DEF SyncReads, SyncFails, ProbeReads, ProbeFails, AlertCooldownEnds,
                PageClearsDefault, nodeVars, NodesInv, NodeTypes, IdleSync
  <2>4. turns' \in 0..MaxTurns
    BY <1>1 DEF SyncReads, SyncFails, ProbeReads, ProbeFails, AlertCooldownEnds,
                PageClearsDefault, nodeVars, NodesInv, NodeTypes, Turn
  <2>5. cooling' \in BOOLEAN
    BY <1>1 DEF SyncReads, SyncFails, ProbeReads, ProbeFails, AlertCooldownEnds,
                PageClearsDefault, nodeVars, NodesInv, NodeTypes
  <2> QED
    BY <2>1, <2>2, <2>3, <2>4, <2>5, RegistryKept
<1> QED
  BY <1>1, PanelInv, SyncInv, ProbeInv, CreatesInv, EditsInv, DefaultInv DEF NodesNext

LEMMA NodesInvProps == NodesInv => NodesTypeOK /\ RegistryIsTrusted
<1> SUFFICES ASSUME NodesInv PROVE NodesTypeOK /\ RegistryIsTrusted
  OBVIOUS
<1>1. NodesTypeOK
  BY DEF NodesInv, NodeTypes, RowsDiffer, NodesTypeOK, RowType
<1>2. AlertOncePerStreak
  BY DEF NodesInv, AlertOncePerStreak, AlarmsCounted
<1>3. ASSUME NEW matching \in SUBSET Rows, NEW r \in Selected(matching), node[r].source # NoSource
      PROVE listed[node[r].source].status = "active"
  <2>1. r \in Rows /\ Routable(r)
    BY DEF Selected
  <2>2. /\ node[r] \in RowType /\ listed[node[r].source].there
        /\ node[r].status = listed[node[r].source].status /\ node[r].source \in Sources
    BY <1>3, <2>1 DEF Routable, NodesInv, NodeTypes, Follows, RowType
  <2>3. listed[node[r].source].status \in {"active", "disabled"}
    BY <2>2 DEF NodesInv, PanelIsProper
  <2> QED
    BY <2>1, <2>2, <2>3 DEF Routable
<1> QED
  BY <1>1, <1>2, <1>3 DEF RegistryIsTrusted, SelectedWasListed

\* A run of failed probes alarms once, and no node is offered that the last sync did not see
\* active, whatever the panel, the sync, the probe and the pages do in between
\* (sync_node_registry, probe_all, select_node).
THEOREM RegistryStaysTrusted == NodesSpec => []RegistryIsTrusted
<1>1. NodesSpec => []NodesInv
  BY NodesInitInv, NodesNextInv, PTL DEF NodesSpec
<1> QED
  BY <1>1, NodesInvProps, PTL

-----------------------------------------------------------------------------
(***************************************************************************)
(* The routing profiles.  A page holds the rows it changes, so what it     *)
(* read of them is what they are until it commits; a page that names a     *)
(* default holds one row at most and, once it has read which others are    *)
(* the default, has cleared or is to clear each, unless another that names *)
(* one has committed since; and the others take the default neither from a *)
(* row nor from the profiles that are on.                                  *)
(***************************************************************************)
FormType == [enabled : BOOLEAN, default : BOOLEAN, marks : SUBSET Marks]
RoutingRow == [there : BOOLEAN, enabled : BOOLEAN, default : BOOLEAN, marks : SUBSET Marks]
RowMaps == UNION {[D -> RoutingRow] : D \in SUBSET Profiles}
RoutingOps == {"none", "save", "set_default", "delete", "copy", "toggle"}
PageType == [op : RoutingOps, form : FormType, todo : Seq(Profiles), rows : RowMaps,
             read : BOOLEAN, due : SUBSET Profiles, cleared : SUBSET Profiles, passed : BOOLEAN]

\* A page other than a bulk switch is about one row, and a copy is never the default.
AboutOneRow(page) ==
  /\ page.op # "toggle" =>
       /\ \A i, j \in DOMAIN page.rows : i = j
       /\ page.todo # <<>> => DOMAIN page.rows = {} /\ Tail(page.todo) = <<>>
  /\ page.op = "copy" => ~page.form.default
  /\ page.read => NamesDefault(page) /\ page.todo = <<>>
  /\ ~page.read => page.due = {} /\ page.cleared = {}

\* What a page makes of a row that is `old`.
Makes(page, old, new) ==
  /\ page.op = "toggle" => /\ old.there /\ new.there /\ new.default = old.default
                           /\ old.default /\ old.enabled => new.enabled
  /\ page.op = "delete" => ~old.default /\ ~new.default
  /\ page.op = "copy" => ~old.there /\ ~new.default
  /\ page.op = "save" /\ ~page.form.default => ~new.default
  /\ new.default => new.there

PageIsSound(page) ==
  /\ AboutOneRow(page)
  /\ \A i \in DOMAIN page.rows : Makes(page, profiles[i], page.rows[i])
  /\ page.read /\ ~page.passed =>
       \A i \in Profiles : profiles[i].default => i \in DOMAIN page.rows \cup page.due \cup page.cleared

RoutingInv ==
  /\ profiles \in [Profiles -> RoutingRow]
  /\ editor \in [Editors -> PageType]
  /\ forms \in 0..MaxForms
  /\ \A i \in Profiles : profiles[i].default => profiles[i].there
  /\ doubled \/ \A i, j \in Profiles : profiles[i].default /\ profiles[j].default => i = j
  /\ \A c, d \in Editors : c # d => HeldBy(editor[c]) \cap HeldBy(editor[d]) = {}
  /\ \A c \in Editors : PageIsSound(editor[c])
  /\ spoiled \subseteq {"save", "set_default"}

LEMMA NoRowsType == NoRows \in RowMaps /\ DOMAIN NoRows = {}
<1>1. NoRows \in [{} -> RoutingRow]
  BY DEF NoRows
<1> QED
  BY <1>1 DEF RowMaps, NoRows

LEMMA RowMapType ==
  ASSUME NEW rows \in RowMaps
  PROVE DOMAIN rows \subseteq Profiles /\ \A i \in DOMAIN rows : rows[i] \in RoutingRow
  BY DEF RowMaps

LEMMA OpenedType ==
  ASSUME NEW op \in RoutingOps, NEW form \in FormType, NEW todo \in Seq(Profiles)
  PROVE /\ Opened(op, form, todo) \in PageType
        /\ Opened(op, form, todo).op = op /\ Opened(op, form, todo).form = form
        /\ Opened(op, form, todo).todo = todo /\ ~Opened(op, form, todo).read
        /\ Opened(op, form, todo).due = {}
        /\ DOMAIN Opened(op, form, todo).rows = {} /\ HeldBy(Opened(op, form, todo)) = {}
<1>1. Opened(op, form, todo) = [op |-> op, form |-> form, todo |-> todo, rows |-> NoRows,
                                read |-> FALSE, due |-> {}, cleared |-> {}, passed |-> FALSE]
  BY DEF Opened
<1>2. HeldBy(Opened(op, form, todo)) = {}
  BY <1>1, NoRowsType DEF HeldBy
<1>3. /\ Opened(op, form, todo).op = op /\ Opened(op, form, todo).form = form
      /\ Opened(op, form, todo).todo = todo /\ ~Opened(op, form, todo).read
      /\ Opened(op, form, todo).due = {} /\ DOMAIN Opened(op, form, todo).rows = {}
  BY <1>1, NoRowsType
<1>4. Opened(op, form, todo) \in PageType
  BY <1>1, NoRowsType DEF PageType
<1> QED
  BY <1>2, <1>3, <1>4

LEMMA AtEaseType ==
  /\ AtEase \in PageType /\ AtEase.todo = <<>> /\ ~AtEase.read /\ AtEase.due = {}
  /\ DOMAIN AtEase.rows = {} /\ HeldBy(AtEase) = {} /\ AtEase.cleared = {}
  /\ AtEase.op = "none" /\ ~NamesDefault(AtEase) /\ AboutOneRow(AtEase)
<1>1. NoForm \in FormType /\ "none" \in RoutingOps /\ <<>> \in Seq(Profiles)
  BY DEF NoForm, FormType, RoutingOps
<1>4. AtEase = [op |-> "none", form |-> NoForm, todo |-> <<>>, rows |-> NoRows,
                read |-> FALSE, due |-> {}, cleared |-> {}, passed |-> FALSE]
  BY DEF AtEase, Opened
<1>5. AtEase \in PageType
  BY <1>1, <1>4, NoRowsType DEF PageType
<1>2. /\ AtEase.todo = <<>> /\ ~AtEase.read /\ AtEase.due = {}
      /\ DOMAIN AtEase.rows = {} /\ AtEase.op = "none" /\ AtEase.cleared = {}
  BY <1>4, NoRowsType
<1>3. HeldBy(AtEase) = {}
  BY <1>2 DEF HeldBy
<1> QED
  BY <1>2, <1>3, <1>5 DEF AboutOneRow, NamesDefault

\* One more row among those a page holds.
LEMMA RowAdded ==
  ASSUME NEW rows \in RowMaps, NEW i \in Profiles, NEW new \in RoutingRow
  PROVE /\ AndRow(rows, i, new) \in RowMaps
        /\ DOMAIN AndRow(rows, i, new) = {i} \cup DOMAIN rows
        /\ AndRow(rows, i, new)[i] = new
        /\ \A j \in DOMAIN rows : j # i => AndRow(rows, i, new)[j] = rows[j]
<1>1. {i} \cup DOMAIN rows \in SUBSET Profiles
  BY RowMapType
<1>2. AndRow(rows, i, new) \in [{i} \cup DOMAIN rows -> RoutingRow]
  BY RowMapType DEF AndRow
<1> QED
  BY <1>1, <1>2 DEF RowMaps, AndRow

LEMMA RoutingInitInv == RoutingInit => RoutingInv
<1> SUFFICES ASSUME RoutingInit PROVE RoutingInv
  OBVIOUS
<1>1. /\ [there |-> TRUE, enabled |-> TRUE, default |-> TRUE, marks |-> {}] \in RoutingRow
      /\ Unmade \in RoutingRow
  BY DEF RoutingRow, Unmade
<1>2. profiles \in [Profiles -> RoutingRow]
  BY <1>1 DEF RoutingInit
<1>3. \A i \in Profiles : profiles[i].default => i = First /\ profiles[i].there
  BY DEF RoutingInit, Unmade
<1>4. \A c \in Editors : editor[c] = AtEase /\ HeldBy(editor[c]) = {}
  BY AtEaseType DEF RoutingInit
<1>7. PageIsSound(AtEase)
  BY AtEaseType DEF PageIsSound
<1>5. editor \in [Editors -> PageType]
  BY AtEaseType DEF RoutingInit
<1>6. forms \in 0..MaxForms /\ spoiled = {}
  BY RoutingBoundsAssumption DEF RoutingInit
<1> QED
  BY <1>2, <1>3, <1>4, <1>5, <1>6, <1>7 DEF RoutingInv

\* A step of one page that commits nothing.
LEMMA PageInv ==
  ASSUME RoutingInv, NEW c \in Editors, NEW page \in PageType,
         editor' = [editor EXCEPT ![c] = page],
         UNCHANGED <<profiles, spoiled, doubled>>, forms' \in 0..MaxForms,
         PageIsSound(page),
         \A i \in HeldBy(page) : i \in HeldBy(editor[c]) \/ ~Locked(i)
  PROVE RoutingInv'
<1>1. editor' \in [Editors -> PageType] /\ editor'[c] = page
      /\ \A d \in Editors : d # c => editor'[d] = editor[d]
  BY DEF RoutingInv
<1>2. \A d, e \in Editors : d # e => HeldBy(editor'[d]) \cap HeldBy(editor'[e]) = {}
  <2>1. \A d \in Editors : d # c => HeldBy(page) \cap HeldBy(editor[d]) = {}
    BY DEF RoutingInv, Locked
  <2>2. \A d, e \in Editors : d # e => HeldBy(editor[d]) \cap HeldBy(editor[e]) = {}
    BY DEF RoutingInv
  <2> QED
    BY <1>1, <2>1, <2>2
<1>4. ASSUME NEW d \in Editors PROVE PageIsSound(editor[d])'
  <2>1. CASE d = c
    BY <1>1, <2>1 DEF PageIsSound
  <2>2. CASE d # c
    BY <1>1, <2>2 DEF RoutingInv, PageIsSound
  <2> QED
    BY <2>1, <2>2
<1> QED
  BY <1>1, <1>2, <1>4 DEF RoutingInv

LEMMA LeaveInv ==
  ASSUME RoutingInv, NEW c \in Editors, Leave(c), UNCHANGED <<profiles, spoiled, doubled, forms>>
  PROVE RoutingInv'
<1>1. PageIsSound(AtEase)
  BY AtEaseType DEF PageIsSound
<1> QED
  BY <1>1, AtEaseType, PageInv DEF Leave, RoutingInv

LEMMA OpenFormInv ==
  ASSUME RoutingInv, NEW c \in Editors, NEW op \in RoutingOps, NEW form \in FormType,
         NEW todo \in Seq(Profiles), op # "toggle" => Tail(todo) = <<>>, op = "copy" => ~form.default,
         OpenForm(c, op, form, todo)
  PROVE RoutingInv'
<1> DEFINE page == Opened(op, form, todo)
<1>1. /\ page \in PageType /\ DOMAIN page.rows = {} /\ HeldBy(page) = {} /\ ~page.read /\ page.due = {}
      /\ page.op = op /\ page.form = form /\ page.todo = todo
  BY OpenedType
<1>3. /\ editor' = [editor EXCEPT ![c] = page] /\ forms' \in 0..MaxForms
      /\ UNCHANGED <<profiles, spoiled, doubled>>
  BY RoutingBoundsAssumption DEF OpenForm, RoutingInv
<1> HIDE DEF page
<1>2. PageIsSound(page)
  BY <1>1 DEF PageIsSound, AboutOneRow, HeldBy
<1> QED
  BY <1>1, <1>2, <1>3, PageInv

\* A row is locked and changed.
LEMMA RowInv ==
  ASSUME RoutingInv, NEW c \in Editors, NEW i \in Profiles, NEW new \in RoutingRow,
         editor[c].todo # <<>>, i = Head(editor[c].todo), ~Locked(i),
         Makes(editor[c], profiles[i], new),
         editor' = [editor EXCEPT ![c].todo = Tail(@), ![c].rows = AndRow(@, i, new)],
         UNCHANGED <<profiles, spoiled, doubled, forms>>
  PROVE RoutingInv'
<1> DEFINE old == editor[c]
           left == Tail(old.todo)
           rows == AndRow(old.rows, i, new)
           page == [old EXCEPT !.todo = left, !.rows = rows]
<1>1. old \in PageType /\ old.rows \in RowMaps /\ old.todo \in Seq(Profiles)
      /\ editor \in [Editors -> PageType]
  BY DEF RoutingInv, PageType
<1>2. left \in Seq(Profiles)
  BY <1>1
<1> HIDE DEF left
<1>3. /\ rows \in RowMaps /\ DOMAIN rows = {i} \cup DOMAIN old.rows /\ rows[i] = new
      /\ \A j \in DOMAIN old.rows : j # i => rows[j] = old.rows[j]
  <2> DEFINE before == old.rows
  <2>1. before \in RowMaps
    BY <1>1
  <2> HIDE DEF before
  <2>2. /\ AndRow(before, i, new) \in RowMaps
        /\ DOMAIN AndRow(before, i, new) = {i} \cup DOMAIN before
        /\ AndRow(before, i, new)[i] = new
        /\ \A j \in DOMAIN before : j # i => AndRow(before, i, new)[j] = before[j]
    BY <2>1, RowAdded
  <2> QED
    BY <2>2 DEF before
<1> HIDE DEF rows
<1>11. page = [old EXCEPT !.todo = left, !.rows = rows]
  OBVIOUS
<1> HIDE DEF page
<1> HIDE DEF old
<1>4. /\ page \in PageType
      /\ page.op = old.op /\ page.form = old.form /\ page.todo = left /\ page.rows = rows
      /\ page.read = old.read /\ page.due = old.due /\ page.cleared = old.cleared
      /\ page.passed = old.passed
  BY <1>1, <1>2, <1>3, <1>11 DEF PageType
<1> USE DEF old
<1>5. editor' = [editor EXCEPT ![c] = page]
  <2>1. editor' = [editor EXCEPT ![c].todo = left, ![c].rows = rows]
    BY <1>1 DEF left, rows, PageType
  <2> QED
    BY <1>1, <1>11, <2>1
<1>6. /\ page.op = old.op /\ page.form = old.form /\ page.todo = left /\ page.rows = rows
      /\ page.read = old.read /\ page.due = old.due /\ page.cleared = old.cleared
      /\ page.passed = old.passed
  BY <1>4
<1>7. AboutOneRow(old) /\ \A j \in DOMAIN old.rows : Makes(old, profiles[j], old.rows[j])
  BY DEF RoutingInv, PageIsSound
<1>12. ~old.read
  BY <1>7 DEF AboutOneRow
<1>8. AboutOneRow(page)
  BY <1>3, <1>6, <1>7, <1>12 DEF AboutOneRow, left
<1>9. ASSUME NEW j \in DOMAIN page.rows
      PROVE Makes(page, profiles[j], page.rows[j]) /\ (j \in DOMAIN old.rows \/ ~Locked(j))
  <2>1. CASE j = i
    BY <1>3, <1>6, <2>1 DEF Makes
  <2>2. CASE j # i
    BY <1>3, <1>6, <1>7, <2>2 DEF Makes
  <2> QED
    BY <2>1, <2>2
<1>13. PageIsSound(page)
  BY <1>6, <1>8, <1>9, <1>12 DEF PageIsSound
<1>14. \A j \in HeldBy(page) : j \in HeldBy(old) \/ ~Locked(j)
  BY <1>6, <1>9 DEF HeldBy
<1>10. forms' \in 0..MaxForms
  BY DEF RoutingInv
<1> HIDE DEF old
<1> QED
  BY <1>4, <1>5, <1>10, <1>13, <1>14, PageInv DEF old

LEMMA TakeRowInv ==
  ASSUME RoutingInv, NEW c \in Editors, TakeRow(c)
  PROVE RoutingInv'
<1> DEFINE page == editor[c]
           i == Head(page.todo)
           row == profiles[i]
<1>1. /\ page \in PageType /\ page.todo # <<>> /\ i \in Profiles /\ row \in RoutingRow /\ ~Locked(i)
      /\ row.default => row.there
      /\ UNCHANGED <<profiles, spoiled, doubled, forms>>
  BY DEF TakeRow, RoutingInv, PageType
<1>2. page.op # "toggle" => Tail(page.todo) = <<>>
  BY <1>1 DEF RoutingInv, PageIsSound, AboutOneRow
<1>3. page.form \in FormType /\ Saved(row, page) \in RoutingRow
  BY <1>1 DEF Saved, RoutingRow, PageType, FormType
<1>4. page.op = "toggle" /\ row.there =>
        Toggled(row, page) \in RoutingRow /\ Makes(page, row, Toggled(row, page))
  BY <1>1, <1>3 DEF Toggled, Makes, RoutingRow, FormType
<1>5. page.op \in {"save", "set_default"} /\ (page.op = "save" \/ row.there) =>
        Makes(page, row, Saved(row, page))
  BY <1>1, <1>3 DEF Saved, Makes, RoutingRow, FormType
<1>10. page.op = "delete" /\ MayErase(row, page) => Makes(page, row, Unmade)
  BY DEF Makes, Unmade, MayErase
<1>11. Unmade \in RoutingRow
  BY DEF RoutingRow, Unmade
<1>6. page.op = "copy" /\ ~row.there => Makes(page, row, Saved(row, page))
  <2>1. ASSUME page.op = "copy"
        PROVE Saved(row, page).there /\ ~Saved(row, page).default
    <3>2. ~page.form.default
      BY <2>1 DEF RoutingInv, PageIsSound, AboutOneRow
    <3>1. Saved(row, page) = [there |-> TRUE, enabled |-> page.form.enabled,
                              default |-> page.form.default, marks |-> page.form.marks]
      BY <2>1 DEF Saved
    <3> QED
      BY <3>1, <3>2
  <2> QED
    BY <2>1, Zenon DEF Makes
<1> DEFINE Skips == editor' = [editor EXCEPT ![c].todo = Tail(@)]
           With(new) == editor' = [editor EXCEPT ![c].todo = Tail(@), ![c].rows = AndRow(@, i, new)]
<1>7. ASSUME NEW new \in RoutingRow, With(new), Makes(page, row, new)
      PROVE RoutingInv'
  BY <1>1, <1>7, RowInv
<1>8. ASSUME Skips, page.op = "toggle"
      PROVE RoutingInv'
  <2> DEFINE skipped == [page EXCEPT !.todo = Tail(page.todo)]
  <2>1. editor' = [editor EXCEPT ![c] = skipped]
    BY <1>8 DEF RoutingInv
  <2>6. skipped = [page EXCEPT !.todo = Tail(page.todo)] /\ Tail(page.todo) \in Seq(Profiles)
    BY <1>1 DEF PageType
  <2> HIDE DEF skipped, page
  <2>2. skipped \in PageType /\ skipped.op = page.op /\ skipped.form = page.form
        /\ skipped.rows = page.rows /\ skipped.read = page.read /\ skipped.due = page.due
        /\ skipped.cleared = page.cleared /\ skipped.passed = page.passed
    BY <1>1, <2>6 DEF PageType
  <2> USE DEF page
  <2>3. AboutOneRow(skipped)
    <3>1. ~page.read /\ page.due = {} /\ page.cleared = {}
      BY <1>1 DEF RoutingInv, PageIsSound, AboutOneRow
    <3> QED
      BY <1>8, <2>2, <3>1 DEF AboutOneRow
  <2>4. PageIsSound(skipped)
    BY <2>2, <2>3 DEF RoutingInv, PageIsSound, Makes
  <2>5. forms' \in 0..MaxForms
    BY <1>1 DEF RoutingInv
  <2>7. HeldBy(skipped) = HeldBy(page)
    BY <2>2 DEF HeldBy
  <2> QED
    BY <1>1, <2>1, <2>2, <2>4, <2>5, <2>7, PageInv
<1>9. \/ page.op = "toggle" /\ row.there /\ With(Toggled(row, page))
      \/ Skips /\ page.op = "toggle"
      \/ page.op \in {"save", "set_default"} /\ (page.op = "save" \/ row.there) /\ With(Saved(row, page))
      \/ page.op = "copy" /\ ~row.there /\ With(Saved(row, page))
      \/ page.op = "delete" /\ MayErase(row, page) /\ With(Unmade)
      \/ Leave(c)
  BY DEF TakeRow
<1> HIDE DEF With, Skips
<1> QED
  BY <1>1, <1>3, <1>4, <1>5, <1>6, <1>7, <1>8, <1>9, <1>10, <1>11, LeaveInv

LEMMA FindDefaultsInv ==
  ASSUME RoutingInv, NEW c \in Editors, FindDefaults(c)
  PROVE RoutingInv'
<1> DEFINE others == Others(profiles, DOMAIN editor[c].rows)
<1>1. PICK old \in PageType : old = editor[c]
  BY DEF RoutingInv
<1>2. others \in SUBSET Profiles
  BY DEF Others, DefaultRows
<1>3. PICK found \in SUBSET Profiles : found = others
  BY <1>2
<1> DEFINE page == [old EXCEPT !.read = TRUE, !.due = found]
<1>4. editor' = [editor EXCEPT ![c] = page]
  BY <1>1, <1>3 DEF FindDefaults, RoutingInv
<1>5. /\ page \in PageType /\ page.op = old.op /\ page.form = old.form /\ page.todo = old.todo
      /\ page.rows = old.rows /\ page.read /\ page.due = found /\ page.cleared = old.cleared
  BY DEF PageType
<1>6. /\ NamesDefault(old) /\ old.todo = <<>> /\ PageIsSound(old)
      /\ UNCHANGED <<profiles, spoiled, doubled, forms>>
  BY <1>1 DEF FindDefaults, RoutingInv
<1> HIDE DEF page
<1>7. HeldBy(page) = HeldBy(old) /\ NamesDefault(page)
  BY <1>5, <1>6 DEF HeldBy, NamesDefault
<1>8. \A i \in Profiles : profiles[i].default => i \in DOMAIN page.rows \cup page.due
  <2> SUFFICES ASSUME NEW i \in Profiles, profiles[i].default
               PROVE i \in DOMAIN page.rows \cup page.due
    OBVIOUS
  <2>1. profiles[i].there
    BY DEF RoutingInv
  <2> QED
    BY <1>1, <1>3, <1>5, <2>1 DEF Others, DefaultRows
<1>9. PageIsSound(page)
  BY <1>5, <1>6, <1>7, <1>8 DEF PageIsSound, AboutOneRow, Makes
<1>10. forms' \in 0..MaxForms
  BY <1>6 DEF RoutingInv
<1> QED
  BY <1>1, <1>4, <1>5, <1>6, <1>7, <1>9, <1>10, PageInv

LEMMA ClearRowInv ==
  ASSUME RoutingInv, NEW c \in Editors, ClearRow(c)
  PROVE RoutingInv'
<1>1. PICK old \in PageType : old = editor[c]
  BY DEF RoutingInv
<1>2. UNCHANGED <<profiles, spoiled, doubled, forms>>
  BY DEF ClearRow
<1>3. PICK i \in old.due :
        /\ ~Locked(i)
        /\ \/ editor' = [editor EXCEPT ![c].due = @ \ {i}, ![c].cleared = @ \cup {i}]
           \/ Leave(c)
  BY <1>1 DEF ClearRow
<1>4. CASE Leave(c)
  BY <1>2, <1>4, LeaveInv
<1>5. CASE editor' = [editor EXCEPT ![c].due = @ \ {i}, ![c].cleared = @ \cup {i}]
  <2> DEFINE page == [old EXCEPT !.due = old.due \ {i}, !.cleared = old.cleared \cup {i}]
  <2>1. editor' = [editor EXCEPT ![c] = page]
    BY <1>1, <1>5 DEF RoutingInv
  <2>2. /\ page \in PageType /\ page.op = old.op /\ page.form = old.form /\ page.todo = old.todo
        /\ page.rows = old.rows /\ page.read = old.read /\ page.due = old.due \ {i}
        /\ page.cleared = old.cleared \cup {i} /\ page.passed = old.passed
    BY DEF PageType
  <2> HIDE DEF page
  <2>3. PageIsSound(old)
    BY <1>1 DEF RoutingInv
  <2>4. old.read
    BY <2>3 DEF PageIsSound, AboutOneRow
  <2>5. HeldBy(page) = HeldBy(old) \cup {i} /\ (NamesDefault(page) <=> NamesDefault(old))
    BY <2>2 DEF HeldBy, NamesDefault
  <2>6. PageIsSound(page)
    BY <2>2, <2>3, <2>4, <2>5 DEF PageIsSound, AboutOneRow, Makes
  <2>7. forms' \in 0..MaxForms
    BY <1>2 DEF RoutingInv
  <2> QED
    BY <1>1, <1>2, <1>3, <2>1, <2>2, <2>5, <2>6, <2>7, PageInv
<1> QED
  BY <1>3, <1>4, <1>5

\* Without tags the choice is the first default, if it is on.
LEMMA FallbackChoice ==
  ASSUME NEW rows \in [Profiles -> RoutingRow]
  PROVE Choice(rows, {}) = {i \in DefaultRows(rows) : /\ rows[i].enabled
                                                     /\ \A j \in DefaultRows(rows) : i <= j}
<1>1. {i \in EnabledRows(rows) : rows[i].marks # {} /\ rows[i].marks \subseteq {}} = {}
  OBVIOUS
<1> QED
  BY <1>1 DEF Choice, DefaultRows, EnabledRows

LEMMA CommitFormInv ==
  ASSUME RoutingInv, NEW c \in Editors, CommitForm(c)
  PROVE RoutingInv'
<1> DEFINE page == editor[c]
           mine == DOMAIN page.rows
           cleared == page.cleared \ mine
<1>1. /\ page \in PageType /\ page.rows \in RowMaps /\ mine \subseteq Profiles
      /\ \A i \in mine : page.rows[i] \in RoutingRow /\ Makes(page, profiles[i], page.rows[i])
      /\ cleared \subseteq Profiles /\ cleared \cap mine = {}
      /\ PageIsSound(page) /\ AboutOneRow(page) /\ page.op # "none"
      /\ NamesDefault(page) => page.read /\ page.due = {}
      /\ doubled' = (doubled \/ page.passed)
  BY RowMapType DEF RoutingInv, PageIsSound, PageType, CommitForm, Finished
<1>2. /\ HeldBy(page) = mine \cup cleared
      /\ editor' = [d \in Editors |-> IF d = c THEN AtEase ELSE Passed(editor[d], page)]
      /\ forms' = forms
  BY DEF CommitForm, HeldBy
<1>3. DOMAIN profiles' = Profiles
  BY DEF CommitForm
<1>4. ASSUME NEW i \in mine
      PROVE profiles'[i] = page.rows[i]
  BY <1>1, <1>4, Zenon DEF CommitForm
<1>5. ASSUME NEW i \in cleared
      PROVE profiles'[i] = [profiles[i] EXCEPT !.default = FALSE]
  BY <1>1, <1>5, Zenon DEF CommitForm
<1>6. ASSUME NEW i \in Profiles, i \notin mine, i \notin cleared
      PROVE profiles'[i] = profiles[i]
  BY <1>1, <1>6, Zenon DEF CommitForm
<1>7. spoiled' = IF Choice(profiles, {}) # {} /\ Choice(profiles', {}) = {}
                 THEN spoiled \cup {page.op} ELSE spoiled
  BY DEF CommitForm
<1>8. profiles' \in [Profiles -> RoutingRow]
  <2>1. \A i \in Profiles : profiles'[i] \in RoutingRow
    <3> SUFFICES ASSUME NEW i \in Profiles PROVE profiles'[i] \in RoutingRow
      OBVIOUS
    <3>1. profiles[i] \in RoutingRow
      BY DEF RoutingInv
    <3>2. [profiles[i] EXCEPT !.default = FALSE] \in RoutingRow
      BY <3>1 DEF RoutingRow
    <3> QED
      BY <1>1, <1>4, <1>5, <1>6, <3>1, <3>2
  <2>2. profiles' = [i \in Profiles |-> profiles'[i]]
    BY DEF CommitForm
  <2> QED
    BY <2>1, <2>2
<1>9. \A i \in Profiles : profiles'[i].default => profiles'[i].there
  <2> SUFFICES ASSUME NEW i \in Profiles, profiles'[i].default PROVE profiles'[i].there
    OBVIOUS
  <2>1. profiles[i] \in RoutingRow /\ (profiles[i].default => profiles[i].there)
    BY DEF RoutingInv
  <2>2. i \notin cleared
    BY <1>5, <2>1 DEF RoutingRow
  <2> QED
    BY <1>1, <1>4, <1>6, <2>1, <2>2 DEF Makes
\* A form that names a default leaves one at most; another leaves those there were.
<1>10. ASSUME NEW i \in Profiles, profiles'[i].default, NamesDefault(page), ~page.passed
       PROVE i \in mine
  <2>1. profiles[i] \in RoutingRow /\ (profiles[i].default => profiles[i].there)
    BY DEF RoutingInv
  <2>2. i \notin cleared
    BY <1>5, <1>10, <2>1 DEF RoutingRow
  <2>3. profiles[i].default => i \in cleared \/ i \in mine
    BY <1>1, <1>10 DEF PageIsSound
  <2> QED
    BY <1>6, <1>10, <2>2, <2>3
<1>11. ASSUME NEW i \in Profiles, profiles'[i].default, ~NamesDefault(page)
       PROVE profiles[i].default
  <2>1. CASE i \in mine
    <3>1. Makes(page, profiles[i], page.rows[i]) /\ page.rows[i].default
      BY <1>1, <1>4, <1>11, <2>1
    <3>2. page.op \in {"toggle", "delete", "copy"} \/ (page.op = "save" /\ ~page.form.default)
      BY <1>1, <1>11 DEF PageType, RoutingOps, NamesDefault
    <3> QED
      BY <3>1, <3>2, Zenon DEF Makes
  <2>2. CASE i \notin mine
    <3>1. i \notin cleared
      BY <1>1, <1>11 DEF AboutOneRow
    <3> QED
      BY <1>6, <1>11, <2>2, <3>1
  <2> QED
    BY <2>1, <2>2
<1>12. ASSUME NEW i \in Profiles, NEW j \in Profiles, profiles'[i].default, profiles'[j].default,
              ~doubled'
       PROVE i = j
  <2>0. ~doubled /\ ~page.passed
    BY <1>1, <1>12, Zenon
  <2>1. CASE NamesDefault(page)
    <3>1. i \in mine /\ j \in mine
      BY <1>10, <1>12, <2>0, <2>1
    <3>2. page.op # "toggle"
      BY <2>1 DEF NamesDefault
    <3> QED
      BY <1>1, <3>1, <3>2 DEF AboutOneRow
  <2>2. CASE ~NamesDefault(page)
    <3>1. profiles[i].default /\ profiles[j].default
      BY <1>11, <1>12, <2>2
    <3> QED
      BY <2>0, <3>1 DEF RoutingInv
  <2> QED
    BY <2>1, <2>2
\* A form that is neither a save nor a choice of the default leaves the defaults, and on.
<1>13. ASSUME page.op \notin {"save", "set_default"}, Choice(profiles, {}) # {}
       PROVE Choice(profiles', {}) # {}
  <2>0. profiles \in [Profiles -> RoutingRow]
    BY DEF RoutingInv
  <2>1. PICK i \in DefaultRows(profiles) :
          profiles[i].enabled /\ \A j \in DefaultRows(profiles) : i <= j
    BY <1>13, <2>0, FallbackChoice
  <2>2. cleared = {} /\ ~NamesDefault(page)
    BY <1>1, <1>13 DEF NamesDefault, AboutOneRow
  <2>6. i \in Profiles /\ profiles[i].there /\ profiles[i].default
    BY <2>1 DEF DefaultRows
  <2>5. profiles'[i].there /\ profiles'[i].enabled /\ profiles'[i].default
    <3>1. CASE i \in mine
      <4>1. Makes(page, profiles[i], page.rows[i]) /\ profiles'[i] = page.rows[i]
        BY <1>1, <1>4, <3>1
      <4>2. page.op \in {"toggle", "delete", "copy"}
        BY <1>1, <1>13 DEF PageType, RoutingOps
      <4>3. page.op = "toggle"
        BY <2>6, <4>1, <4>2 DEF Makes
      <4> QED
        BY <2>1, <2>6, <4>1, <4>3 DEF Makes
    <3>2. CASE i \notin mine
      BY <1>6, <2>1, <2>2, <2>6, <3>2
    <3> QED
      BY <3>1, <3>2
  <2>7. DefaultRows(profiles') \subseteq DefaultRows(profiles)
    BY <1>9, <1>11, <2>2 DEF DefaultRows, RoutingInv
  <2>8. i \in DefaultRows(profiles')
    BY <2>5, <2>6 DEF DefaultRows
  <2>9. i \in Choice(profiles', {})
    BY <1>8, <2>1, <2>5, <2>7, <2>8, FallbackChoice
  <2> QED
    BY <2>9
<1>14. spoiled' \subseteq {"save", "set_default"}
  BY <1>7, <1>13 DEF RoutingInv
\* The other pages go on as they were, but for what they have not seen.
<1>15. ASSUME NEW d \in Editors, d # c
       PROVE /\ editor'[d] \in PageType /\ HeldBy(editor'[d]) = HeldBy(editor[d])
             /\ editor'[d].op = editor[d].op /\ editor'[d].form = editor[d].form
             /\ editor'[d].todo = editor[d].todo /\ editor'[d].rows = editor[d].rows
             /\ editor'[d].read = editor[d].read /\ editor'[d].due = editor[d].due
             /\ editor'[d].cleared = editor[d].cleared
             /\ ~editor'[d].passed => ~editor[d].passed
             /\ ~editor'[d].passed /\ editor[d].read => ~NamesDefault(page)
  <2>1. PICK other \in PageType : other = editor[d]
    BY DEF RoutingInv
  <2>2. editor'[d] = IF other.read /\ NamesDefault(page) THEN [other EXCEPT !.passed = TRUE] ELSE other
    BY <1>2, <1>15, <2>1 DEF Passed
  <2>3. CASE other.read /\ NamesDefault(page)
    <3>1. PICK new : new = [other EXCEPT !.passed = TRUE]
      OBVIOUS
    <3>2. /\ new \in PageType /\ new.op = other.op /\ new.form = other.form /\ new.todo = other.todo
          /\ new.rows = other.rows /\ new.read = other.read /\ new.due = other.due
          /\ new.cleared = other.cleared /\ new.passed
      BY <3>1 DEF PageType
    <3>3. HeldBy(new) = HeldBy(other)
      BY <3>2 DEF HeldBy
    <3> QED
      BY <2>1, <2>2, <2>3, <3>1, <3>2, <3>3
  <2>4. CASE ~(other.read /\ NamesDefault(page))
    BY <2>1, <2>2, <2>4
  <2> QED
    BY <2>3, <2>4
<1>19. editor'[c] = AtEase /\ HeldBy(editor'[c]) = {}
  BY <1>2, AtEaseType
<1>20. editor' \in [Editors -> PageType]
  <2>1. \A d \in Editors : editor'[d] \in PageType
    BY <1>15, <1>19, AtEaseType
  <2>2. editor' = [d \in Editors |-> editor'[d]]
    BY <1>2
  <2> QED
    BY <2>1, <2>2
<1>16. \A d, e \in Editors : d # e => HeldBy(editor'[d]) \cap HeldBy(editor'[e]) = {}
  BY <1>15, <1>19 DEF RoutingInv
<1>17. ASSUME NEW d \in Editors
       PROVE PageIsSound(editor[d])'
  <2>1. CASE d = c
    BY <1>19, <2>1, AtEaseType DEF PageIsSound
  <2>2. CASE d # c
    <3>1. PICK other \in PageType, new \in PageType : other = editor[d] /\ new = editor'[d]
      BY <1>15, <2>2 DEF RoutingInv
    <3>6. /\ new.op = other.op /\ new.form = other.form /\ new.todo = other.todo
          /\ new.rows = other.rows /\ new.read = other.read /\ new.due = other.due
          /\ new.cleared = other.cleared
          /\ ~new.passed => ~other.passed
          /\ ~new.passed /\ other.read => ~NamesDefault(page)
      BY <1>15, <2>2, <3>1
    <3>2. ASSUME NEW i \in DOMAIN other.rows
          PROVE profiles'[i] = profiles[i]
      <4>1. i \in Profiles
        BY RowMapType DEF PageType
      <4>2. i \notin HeldBy(page)
        BY <2>2, <3>1 DEF RoutingInv, HeldBy
      <4> QED
        BY <1>2, <1>6, <4>1, <4>2
    <3>3. PageIsSound(other)
      BY <3>1 DEF RoutingInv
    <3>4. ASSUME new.read, ~new.passed, NEW i \in Profiles, profiles'[i].default
          PROVE i \in DOMAIN new.rows \cup new.due \cup new.cleared
      BY <1>11, <3>3, <3>4, <3>6 DEF PageIsSound
    <3>5. AboutOneRow(new)
      BY <3>3, <3>6 DEF PageIsSound, AboutOneRow, NamesDefault
    <3>7. \A i \in DOMAIN new.rows : Makes(new, profiles'[i], new.rows[i])
      BY <3>2, <3>3, <3>6 DEF PageIsSound, Makes
    <3> QED
      BY <3>1, <3>4, <3>5, <3>7 DEF PageIsSound
  <2> QED
    BY <2>1, <2>2
<1>18. forms' \in 0..MaxForms
  BY <1>2 DEF RoutingInv
<1> HIDE DEF page, mine, cleared
<1> QED
  BY <1>8, <1>9, <1>12, <1>14, <1>16, <1>17, <1>18, <1>20 DEF RoutingInv

LEMMA FormsAreProper ==
  /\ NoForm \in FormType
  /\ \A e, d \in BOOLEAN, m \in SUBSET Marks : Form(e, d, m) \in FormType
  /\ \A i \in Profiles : <<i>> \in Seq(Profiles) /\ Tail(<<i>>) = <<>>
  /\ \A o \in Orders : o \in Seq(Profiles)
<1>1. NoForm \in FormType /\ \A e, d \in BOOLEAN, m \in SUBSET Marks : Form(e, d, m) \in FormType
  BY DEF NoForm, Form, FormType
<1>2. \A i \in Profiles : <<i>> \in Seq(Profiles) /\ Tail(<<i>>) = <<>>
  OBVIOUS
<1>3. ASSUME NEW o \in Orders PROVE o \in Seq(Profiles)
  <2>1. PICK n \in 1..2 : o \in [1..n -> Profiles]
    BY DEF Orders
  <2> QED
    BY <2>1
<1> QED
  BY <1>1, <1>2, <1>3

LEMMA RoutingNextInv == RoutingInv /\ [RoutingNext]_routingVars => RoutingInv'
<1> SUFFICES ASSUME RoutingInv, [RoutingNext]_routingVars PROVE RoutingInv'
  OBVIOUS
<1>1. CASE UNCHANGED routingVars
  BY <1>1 DEF RoutingInv, PageIsSound, routingVars
<1>2. ASSUME NEW c \in Editors, NEW i \in Profiles, NEW e \in BOOLEAN, NEW d \in BOOLEAN,
             NEW m \in SUBSET Marks, OpenForm(c, "save", Form(e, d, m), <<i>>)
      PROVE RoutingInv'
  BY <1>2, FormsAreProper, OpenFormInv DEF RoutingOps
<1>3. ASSUME NEW c \in Editors, NEW i \in Profiles, OpenForm(c, "set_default", NoForm, <<i>>)
      PROVE RoutingInv'
  BY <1>3, FormsAreProper, OpenFormInv DEF RoutingOps
<1>4. ASSUME NEW c \in Editors, NEW i \in Profiles,
             OpenForm(c, "delete", Form(FALSE, profiles[i].default, {}), <<i>>)
      PROVE RoutingInv'
  <2>1. profiles[i].default \in BOOLEAN
    BY DEF RoutingInv, RoutingRow
  <2>2. Form(FALSE, profiles[i].default, {}) \in FormType
    BY <2>1, FormsAreProper
  <2> QED
    BY <1>4, <2>2, FormsAreProper, OpenFormInv DEF RoutingOps
<1>5. ASSUME NEW c \in Editors, NEW i \in Profiles, NEW j \in Profiles,
             OpenForm(c, "copy", Form(FALSE, FALSE, profiles[j].marks), <<i>>)
      PROVE RoutingInv'
  <2>1. profiles[j].marks \in SUBSET Marks
    BY DEF RoutingInv, RoutingRow
  <2>2. Form(FALSE, FALSE, profiles[j].marks) \in FormType
    BY <2>1, FormsAreProper
  <2> QED
    BY <1>5, <2>2, FormsAreProper, OpenFormInv DEF RoutingOps, Form
<1>6. ASSUME NEW c \in Editors, NEW e \in BOOLEAN, NEW o \in Orders,
             OpenForm(c, "toggle", Form(e, FALSE, {}), o)
      PROVE RoutingInv'
  BY <1>6, FormsAreProper, OpenFormInv DEF RoutingOps
<1>7. ASSUME NEW c \in Editors, TakeRow(c) \/ FindDefaults(c) \/ ClearRow(c) \/ CommitForm(c) \/ Victimised(c)
      PROVE RoutingInv'
  BY <1>7, TakeRowInv, FindDefaultsInv, ClearRowInv, CommitFormInv, LeaveInv DEF Victimised
<1> QED
  BY <1>1, <1>2, <1>3, <1>4, <1>5, <1>6, <1>7 DEF RoutingNext

LEMMA RoutingInvProps == RoutingInv => RoutingTypeOK /\ RoutingHasDefault
<1> SUFFICES ASSUME RoutingInv PROVE RoutingTypeOK /\ RoutingHasDefault
  OBVIOUS
<1>1. RoutingTypeOK
  BY DEF RoutingInv, RoutingTypeOK, RoutingRow
<1>2. doubled \/ \A i, j \in DefaultRows(profiles) : i = j
  BY DEF RoutingInv, DefaultRows
<1>3. ASSUME ~doubled PROVE Cardinality(DefaultRows(profiles)) <= 1
  <2>1. CASE DefaultRows(profiles) = {}
    BY <2>1, FS_EmptySet
  <2>2. CASE DefaultRows(profiles) # {}
    <3>1. PICK i : DefaultRows(profiles) = {i}
      BY <1>2, <1>3, <2>2
    <3>2. Cardinality({i}) = 1
      BY FS_Singleton
    <3> QED
      BY <3>1, <3>2
  <2> QED
    BY <2>1, <2>2
<1> QED
  BY <1>1, <1>3 DEF RoutingInv, RoutingHasDefault

\* One routing profile at most is the default until two pages that name one cross, and no
\* bulk switch, deletion or copy leaves routing without one to fall back on, however the
\* pages overlap and whichever of them the database rolls back
\* (bulk_toggle, clear_default, admin_routing_profiles_update).
THEOREM RoutingKeepsItsDefault == RoutingSpec => []RoutingHasDefault
<1>1. RoutingSpec => []RoutingInv
  BY RoutingInitInv, RoutingNextInv, PTL DEF RoutingSpec
<1> QED
  BY <1>1, RoutingInvProps, PTL

-----------------------------------------------------------------------------
(***************************************************************************)
(* The files deployed for Marzban.  While one request at a time works on a *)
(* file, it knows what the file was: what it read of it, its copy and what *)
(* it keeps of the other parts are those of the last request that          *)
(* succeeded.  A copy tells how many contents were replaced when it was    *)
(* made, which is the place of its content among them; for the geodata,    *)
(* unless one was copied in vain, no two copies tell the same, so the      *)
(* copies that are pruned are those of the oldest contents.                *)
(***************************************************************************)
Stages == {"none", "asking", "ready", "backed", "written"}
RequestType ==
  [at : Stages, file : Files \cup {"page"}, new : Contents, parts : SUBSET Parts,
   copy : 0..LastStamp, sum : [Parts -> Values] \cup {NoFile}]

DeployTypes ==
  /\ about \in Files /\ stamp \in 1..LastStamp
  /\ live \in [Files -> Contents \cup {NoFile}] /\ wanted \in [Files -> Contents \cup {NoFile}]
  /\ DOMAIN backups \subseteq Files \X (1..LastStamp)
  /\ \A b \in DOMAIN backups : backups[b].content \in Contents /\ backups[b].age \in Nat
  /\ pageSettings \in [Parts -> Values] /\ upstream \in [Parts -> Values]
  /\ request \in [Deployers -> RequestType]
  /\ replaced \in [Files -> Seq(Contents)]
  /\ crossed \subseteq Files /\ hasty \subseteq Files
  /\ wasted \in BOOLEAN
  /\ deploys \in 0..MaxDeploys

\* What a request knows of its file, if nothing crossed it.
KeepsTheRest(r) ==
  \A p \in Parts \ r.parts :
    r.new[p] = IF wanted[r.file] = NoFile THEN Blank[p] ELSE wanted[r.file][p]
HasItsCopy(r) ==
  IF wanted[r.file] = NoFile THEN r.copy = 0
  ELSE /\ r.copy # 0 /\ <<r.file, r.copy>> \in DOMAIN backups
       /\ backups[<<r.file, r.copy>>].content = wanted[r.file]
       /\ r.at = "backed" => backups[<<r.file, r.copy>>].age = Len(replaced[r.file])
OnCourse(r) ==
  /\ live[r.file] = IF r.at = "written" THEN r.new ELSE wanted[r.file]
  /\ r.at # "asking" => KeepsTheRest(r)
  /\ r.at = "asking" => r.parts = Parts
  /\ r.at \in {"asking", "ready"} => r.copy = 0
  /\ r.at \in {"backed", "written"} => HasItsCopy(r)

RequestSound(j) ==
  request[j].at # "none" =>
    /\ request[j].file = about
    /\ about = "geo" /\ request[j].at # "asking" /\ request[j].sum # NoFile =>
         request[j].new[2] # Broken
    /\ about # "geo" /\ request[j].copy # 0 => <<about, request[j].copy>> \in DOMAIN backups
    /\ about \notin crossed => /\ OnCourse(request[j])
                               /\ \A k \in Deployers : request[k].at # "none" => k = j

\* A copy of a file holds what its age says.
CopySound(f, b) ==
  /\ backups[b].age <= Len(replaced[f])
  /\ backups[b].age < Len(replaced[f]) => backups[b].content = replaced[f][backups[b].age + 1]
  /\ backups[b].age = Len(replaced[f]) => /\ live[f] # NoFile /\ backups[b].content = live[f]
                                          /\ \A j \in Busy(f) : request[j].at # "written"
\* The contents of which a copy is kept.
Owed(f, i) == i > Len(replaced[f]) - (IF f # "geo" THEN Len(replaced[f]) ELSE IF wasted THEN 1 ELSE KeepCount)
CopiesOf(f) == {b \in DOMAIN backups : b[1] = f}
Archive(f) ==
  /\ \A b \in CopiesOf(f) : CopySound(f, b)
  /\ f \notin hasty => \A i \in 1..Len(replaced[f]) : Owed(f, i) => \E b \in CopiesOf(f) : backups[b].age = i - 1
  /\ f = "geo" /\ ~wasted =>
       /\ \A b, c \in CopiesOf(f) : backups[b].age = backups[c].age => b = c
       /\ \A b \in CopiesOf(f) : backups[b].age = Len(replaced[f]) =>
            \E j \in Busy(f) : request[j].at = "backed"

DeployInv ==
  /\ DeployTypes
  /\ \A j \in Deployers : RequestSound(j)
  /\ FailureLeavesNothing
  /\ \A f \in Files \ crossed : Archive(f)
  /\ CheckedIsWhole

LEMMA BlankType == Blank \in [Parts -> Values] /\ Blank \in Contents /\ Blank[2] # Broken
<1>1. (CHOOSE v \in Values : TRUE) \in Values
  BY FilesAssumption
<1> QED
  BY <1>1, FilesAssumption DEF Blank, Contents, Parts

LEMMA NoRequestType ==
  NoRequest \in RequestType /\ NoRequest.at = "none" /\ NoRequest.file = "page" /\ NoRequest.copy = 0
  BY BlankType, DeployBoundsAssumption DEF NoRequest, RequestType, Stages

LEMMA DeployInitInv == DeployInit => DeployInv
<1> SUFFICES ASSUME DeployInit PROVE DeployInv
  OBVIOUS
<1>1. DeployTypes
  <2>1. live \in [Files -> Contents \cup {NoFile}] /\ wanted \in [Files -> Contents \cup {NoFile}]
    BY BlankType DEF DeployInit
  <2>2. request \in [Deployers -> RequestType]
    BY NoRequestType DEF DeployInit
  <2>3. replaced \in [Files -> Seq(Contents)]
    BY DEF DeployInit
  <2>4. DOMAIN backups = {}
    BY DEF DeployInit
  <2>5. pageSettings \in [Parts -> Values] /\ upstream \in [Parts -> Values]
    BY BlankType DEF DeployInit
  <2>6. about \in Files /\ stamp \in 1..LastStamp /\ crossed = {} /\ hasty = {} /\ deploys \in 0..MaxDeploys
    BY DeployBoundsAssumption DEF DeployInit
  <2>7. wasted \in BOOLEAN
    BY DEF DeployInit
  <2> QED
    BY <2>1, <2>2, <2>3, <2>4, <2>5, <2>6, <2>7 DEF DeployTypes
<1>2. \A j \in Deployers : request[j].at = "none"
  BY NoRequestType DEF DeployInit
<1>3. FailureLeavesNothing
  BY DEF FailureLeavesNothing, DeployInit
<1>4. ASSUME NEW f \in Files PROVE Archive(f)
  <2>1. CopiesOf(f) = {} /\ Len(replaced[f]) = 0
    BY <1>4 DEF DeployInit, CopiesOf
  <2> QED
    BY <2>1 DEF Archive
<1>5. CheckedIsWhole
  BY BlankType DEF DeployInit, CheckedIsWhole
<1> QED
  BY <1>1, <1>2, <1>3, <1>4, <1>5 DEF DeployInv, RequestSound

\* A request begins.
LEMMA BeginInv ==
  ASSUME DeployInv, NEW j \in Deployers, NEW record \in RequestType,
         Begin(j, record),
         record.at \in {"asking", "ready"}, record.copy = 0, record.at = "asking" => record.parts = Parts,
         record.file = "geo" => record.at = "asking",
         record.at = "ready" =>
           \A p \in Parts \ record.parts :
             record.new[p] = IF live[record.file] = NoFile THEN Blank[p] ELSE live[record.file][p]
  PROVE DeployInv'
<1>1. /\ request[j] = NoRequest /\ record.file = about
      /\ request' = [request EXCEPT ![j] = record]
      /\ crossed' = IF Busy(about) = {} THEN crossed ELSE crossed \cup {about}
      /\ UNCHANGED <<about, stamp, live, backups, pageSettings, upstream, wanted, replaced, hasty,
                     wasted, unchecked>>
      /\ deploys' \in 0..MaxDeploys
  BY DeployBoundsAssumption DEF Begin, DeployInv, DeployTypes
<1>2. DeployTypes'
  BY <1>1 DEF DeployInv, DeployTypes
<1>3. /\ \A k \in Deployers : k # j => request'[k] = request[k]
      /\ request'[j] = record /\ request[j].at = "none" /\ crossed \subseteq crossed'
  BY <1>1, NoRequestType DEF DeployInv, DeployTypes
<1>4. about \notin crossed' =>
        /\ about \notin crossed /\ live[about] = wanted[about]
        /\ \A k \in Deployers : k # j => request[k].at = "none"
  <2> SUFFICES ASSUME about \notin crossed'
               PROVE /\ about \notin crossed /\ live[about] = wanted[about]
                     /\ \A k \in Deployers : k # j => request[k].at = "none"
    OBVIOUS
  <2>1. Busy(about) = {} /\ about \notin crossed
    BY <1>1
  <2>2. about \in Files /\ \A k \in Deployers : request[k].at # "none" => request[k].file = about
    BY DEF DeployInv, DeployTypes, RequestSound
  <2>3. live[about] = wanted[about]
    BY <2>1, <2>2 DEF DeployInv, FailureLeavesNothing
  <2>4. \A k \in Deployers : request[k].at = "none"
    BY <2>1, <2>2 DEF Busy
  <2> QED
    BY <2>1, <2>3, <2>4
<1>5. ASSUME NEW k \in Deployers PROVE RequestSound(k)'
  <2>1. CASE k = j
    <3>1. about \notin crossed' => OnCourse(record)'
      BY <1>1, <1>4 DEF OnCourse, KeepsTheRest
    <3> QED
      BY <1>1, <1>3, <1>4, <2>1, <3>1 DEF RequestSound
  <2>2. CASE k # j
    <3>1. RequestSound(k) /\ request'[k] = request[k]
      BY <1>3, <2>2 DEF DeployInv
    <3>2. OnCourse(request[k]) => OnCourse(request[k])'
      BY <1>1, <3>1 DEF OnCourse, KeepsTheRest, HasItsCopy
    <3> QED
      BY <1>1, <1>3, <1>4, <2>2, <3>1, <3>2 DEF RequestSound
  <2> QED
    BY <2>1, <2>2
<1>6. FailureLeavesNothing'
  <2>1. \A f \in Files : Busy(f) \subseteq Busy(f)'
    BY <1>3 DEF Busy
  <2> QED
    BY <1>1, <1>3, <2>1 DEF DeployInv, FailureLeavesNothing
<1>7. ASSUME NEW f \in Files, f \notin crossed' PROVE Archive(f)'
  <2>1. Archive(f)
    BY <1>3, <1>7 DEF DeployInv
  <2>2. /\ \A k \in Busy(f) : k \in Busy(f)' /\ request'[k] = request[k]
        /\ \A k \in Busy(f)' : request'[k].at = "written" => k \in Busy(f) /\ request[k].at = "written"
    BY <1>3 DEF Busy
  <2>3. \A b \in CopiesOf(f) : CopySound(f, b)'
    BY <1>1, <2>1, <2>2 DEF Archive, CopySound
  <2> QED
    BY <1>1, <2>1, <2>2, <2>3 DEF Archive, CopiesOf, Owed
<1>8. CheckedIsWhole'
  BY <1>1 DEF DeployInv, CheckedIsWhole
<1> QED
  BY <1>2, <1>5, <1>6, <1>7, <1>8 DEF DeployInv

\* A step of request j, as the others and the files it is not about see it.
LEMMA OthersSound ==
  ASSUME DeployInv, NEW j \in Deployers, request[j].at # "none", NEW d \in RequestType,
         request' = [request EXCEPT ![j] = d], d.at # "none" => d.file = about,
         about' = about, crossed \subseteq crossed',
         about # "geo" => DOMAIN backups \subseteq DOMAIN backups'
  PROVE /\ request'[j] = d /\ request[j].file = about
        /\ \A k \in Deployers : k # j => /\ request'[k] = request[k] /\ RequestSound(k)'
                                         /\ about \notin crossed' => request[k].at = "none"
        /\ d.at = "none" => RequestSound(j)'
        /\ \A f \in Files : f # about => Busy(f) = {} /\ Busy(f)' = {}
        /\ about \notin crossed => Busy(about) = {j} /\ OnCourse(request[j])
        /\ about \notin crossed => Busy(about)' = IF d.at = "none" THEN {} ELSE {j}
<1>1. /\ request'[j] = d /\ \A k \in Deployers : k # j => request'[k] = request[k]
      /\ request[j].file = about
  BY DEF DeployInv, DeployTypes, RequestSound
<1>2. ASSUME NEW k \in Deployers, k # j, about \notin crossed
      PROVE request[k].at = "none"
  BY <1>2 DEF DeployInv, RequestSound
<1>3. ASSUME NEW k \in Deployers, k # j PROVE RequestSound(k)'
  <2>1. RequestSound(k) /\ request'[k] = request[k]
    BY <1>1, <1>3 DEF DeployInv
  <2>2. CASE about \in crossed'
    BY <2>1, <2>2 DEF RequestSound
  <2>3. CASE about \notin crossed'
    BY <1>2, <1>3, <2>1, <2>3 DEF RequestSound
  <2> QED
    BY <2>2, <2>3
<1>4. d.at = "none" => RequestSound(j)'
  BY <1>1 DEF RequestSound
<1>5. \A k \in Deployers : /\ request[k].at # "none" => request[k].file = about
                           /\ request'[k].at # "none" => request'[k].file = about
  BY <1>1 DEF DeployInv, RequestSound
<1>6. \A f \in Files : f # about => Busy(f) = {} /\ Busy(f)' = {}
  BY <1>5 DEF Busy
<1>7. about \notin crossed => OnCourse(request[j])
  BY DEF DeployInv, RequestSound
<1>8. about \notin crossed => Busy(about) = {j} /\ Busy(about)' = IF d.at = "none" THEN {} ELSE {j}
  BY <1>1, <1>2, <1>5 DEF Busy
<1> QED
  BY <1>1, <1>2, <1>3, <1>4, <1>6, <1>7, <1>8

LEMMA ArchiveKept ==
  ASSUME DeployInv, NEW f \in Files, f \notin crossed,
         live'[f] = live[f], replaced'[f] = replaced[f],
         CopiesOf(f)' = CopiesOf(f), \A b \in CopiesOf(f) : backups'[b] = backups[b],
         f \in hasty => f \in hasty', wasted => wasted',
         \A k \in Busy(f)' : request'[k].at = "written" => k \in Busy(f) /\ request[k].at = "written",
         f = "geo" /\ ~wasted' /\ live[f] # NoFile =>
           \A k \in Busy(f) : request[k].at = "backed" => k \in Busy(f)' /\ request'[k].at = "backed"
  PROVE Archive(f)'
<1>1. Archive(f)
  BY DEF DeployInv
<1>2. \A b \in CopiesOf(f)' : CopySound(f, b)'
  BY <1>1 DEF Archive, CopySound
<1>3. ASSUME NEW i \in 1..Len(replaced[f]), Owed(f, i)' PROVE Owed(f, i)
  <2> DEFINE n == Len(replaced[f])
  <2>1. n \in Nat /\ i \in Nat /\ Len(replaced'[f]) = n
    BY DEF DeployInv, DeployTypes
  <2> HIDE DEF n
  <2>3. CASE f # "geo"
    BY <1>3, <2>1, <2>3, Zenon DEF Owed, n
  <2>4. CASE f = "geo" /\ wasted
    BY <1>3, <2>1, <2>4, Zenon DEF Owed, n
  <2>5. CASE f = "geo" /\ ~wasted
    <3>1. i > n - 1 \/ i > n - KeepCount
      BY <1>3, <2>1, <2>5, Zenon DEF Owed, n
    <3>2. i > n - KeepCount
      BY <2>1, <3>1, KeepAssumption
    <3> QED
      BY <2>5, <3>2, Zenon DEF Owed, n
  <2> QED
    BY <2>3, <2>4, <2>5
<1>4. f \notin hasty' => \A i \in 1..Len(replaced'[f]) : Owed(f, i)' => \E b \in CopiesOf(f)' : backups'[b].age = i - 1
  BY <1>1, <1>3 DEF Archive
<1>5. f = "geo" /\ ~wasted' => \A b, c \in CopiesOf(f)' : backups'[b].age = backups'[c].age => b = c
  BY <1>1 DEF Archive
<1>6. f = "geo" /\ ~wasted' =>
        \A b \in CopiesOf(f)' : backups'[b].age = Len(replaced'[f]) =>
          \E j \in Busy(f)' : request'[j].at = "backed"
  BY <1>1 DEF Archive, CopySound
<1> QED
  BY <1>2, <1>4, <1>5, <1>6 DEF Archive

\* A step of request j that leaves files and backups alone: it goes on, or it ends, in vain
\* or because it failed.
LEMMA RequestMoves ==
  ASSUME DeployInv, NEW j \in Deployers, NEW d \in RequestType,
         request[j].at # "none",
         request' = [request EXCEPT ![j] = d], d.at \notin {"none", "written"} => d.file = about,
         UNCHANGED <<about, stamp, live, backups, pageSettings, upstream, wanted, replaced, hasty,
                     unchecked, deploys>>,
         crossed \subseteq crossed', crossed' \subseteq Files,
         d.at = "none" \/ d.copy = request[j].copy, wasted => wasted', wasted' \in BOOLEAN, d.at # "written",
         request[j].at = "written" => about \in crossed',
         request[j].at = "backed" /\ request[j].copy # 0 /\ about = "geo" /\ d.at # "backed" => wasted',
         about = "geo" /\ d.at \notin {"none", "asking"} /\ d.sum # NoFile => d.new[2] # Broken,
         about \notin crossed /\ d.at # "none" => OnCourse(d)
  PROVE DeployInv'
<1>1. DeployTypes'
  BY DEF DeployInv, DeployTypes
<1>2. /\ request'[j] = d /\ request[j].file = about
      /\ \A k \in Deployers : k # j => /\ request'[k] = request[k] /\ RequestSound(k)'
                                       /\ about \notin crossed' => request[k].at = "none"
      /\ d.at = "none" => RequestSound(j)'
      /\ \A f \in Files : f # about => Busy(f) = {} /\ Busy(f)' = {}
      /\ about \notin crossed => Busy(about) = {j} /\ OnCourse(request[j])
      /\ about \notin crossed => Busy(about)' = IF d.at = "none" THEN {} ELSE {j}
  BY OthersSound
<1>3. RequestSound(j)'
  <2> SUFFICES ASSUME d.at # "none" PROVE RequestSound(j)'
    BY <1>2
  <2>1. OnCourse(d) => OnCourse(d)'
    BY DEF OnCourse, KeepsTheRest, HasItsCopy
  <2> QED
    BY <1>2, <2>1 DEF RequestSound, DeployInv
<1>4. FailureLeavesNothing'
  <2> SUFFICES ASSUME NEW f \in Files, f \notin crossed', Busy(f)' = {} PROVE live[f] = wanted[f]
    BY DEF FailureLeavesNothing
  <2>1. CASE f = about
    BY <1>2, <2>1 DEF OnCourse
  <2>2. CASE f # about
    BY <1>2, <2>2 DEF DeployInv, FailureLeavesNothing
  <2> QED
    BY <2>1, <2>2
<1>5. ASSUME NEW f \in Files, f \notin crossed' PROVE Archive(f)'
  <2>1. CopiesOf(f)' = CopiesOf(f) /\ \A b \in CopiesOf(f) : backups'[b] = backups[b]
    BY DEF CopiesOf
  <2>2. \A k \in Busy(f)' : request'[k].at # "written"
    BY <1>2, <1>5
  <2>3. f = "geo" /\ ~wasted' /\ live[f] # NoFile =>
          \A k \in Busy(f) : request[k].at = "backed" => k \in Busy(f)' /\ request'[k].at = "backed"
    <3> SUFFICES ASSUME f = "geo", ~wasted', live[f] # NoFile, NEW k \in Busy(f), request[k].at = "backed"
                 PROVE k \in Busy(f)' /\ request'[k].at = "backed"
      OBVIOUS
    <3>1. k = j /\ f = about
      BY <1>2, <1>5
    <3>2. wanted[about] # NoFile /\ HasItsCopy(request[j])
      BY <1>2, <1>5, <3>1 DEF OnCourse
    <3>3. request[j].copy # 0
      BY <1>2, <3>2 DEF HasItsCopy
    <3>4. d.at = "backed"
      BY <3>1, <3>3
    <3>5. Busy(f)' = {j}
      BY <1>2, <1>5, <3>1, <3>4
    <3> QED
      BY <1>2, <3>1, <3>4, <3>5
  <2> QED
    BY <1>5, <2>1, <2>2, <2>3, ArchiveKept
<1>6. CheckedIsWhole'
  BY DEF DeployInv, CheckedIsWhole
<1> QED
  BY <1>1, <1>2, <1>3, <1>4, <1>5, <1>6 DEF DeployInv

LEMMA ContentsType ==
  /\ [Parts -> Values] \subseteq Contents
  /\ \A x \in Contents : [x EXCEPT ![2] = Broken] \in Contents
  /\ \A x \in [Parts -> Values] : x[2] # Broken
  BY FilesAssumption DEF Contents, Parts

LEMMA DownloadInv ==
  ASSUME DeployInv, NEW j \in Deployers, NEW whole \in BOOLEAN, Download(j, whole)
  PROVE DeployInv'
<1> DEFINE r == request[j]
           download == IF whole THEN upstream ELSE [upstream EXCEPT ![2] = Broken]
           d == [r EXCEPT !.at = "ready", !.new = download]
<1>1. /\ r \in RequestType /\ r.at = "asking" /\ request \in [Deployers -> RequestType]
      /\ upstream \in [Parts -> Values] /\ crossed \subseteq Files /\ wasted \in BOOLEAN
  BY DEF Download, DeployInv, DeployTypes
<1>2. download \in Contents
  BY <1>1, ContentsType
<1>3. UNCHANGED <<about, stamp, live, backups, pageSettings, upstream, wanted, replaced, crossed,
                  hasty, wasted, unchecked, deploys>>
  BY DEF Download
<1>4. CASE request' = [request EXCEPT ![j] = NoRequest]
  BY <1>1, <1>3, <1>4, NoRequestType, RequestMoves
<1>5. CASE SumAgrees(r.sum, download) /\ request' = [request EXCEPT ![j].at = "ready", ![j].new = download]
  <2>1. request' = [request EXCEPT ![j] = d]
    BY <1>1, <1>5
  <2>2. about = "geo" /\ r.sum # NoFile => download[2] # Broken
    <3>1. r.sum # NoFile => r.sum \in [Parts -> Values]
      BY <1>1 DEF RequestType
    <3> QED
      BY <1>5, <3>1, ContentsType DEF SumAgrees
  <2> HIDE DEF download
  <2>3. /\ d \in RequestType /\ d.at = "ready" /\ d.file = r.file /\ d.new = download
        /\ d.parts = r.parts /\ d.copy = r.copy /\ d.sum = r.sum
    BY <1>1, <1>2 DEF RequestType, Stages
  <2> HIDE DEF d
  <2>4. about \notin crossed => OnCourse(d)
    <3>1. about \notin crossed => OnCourse(r)
      BY <1>1 DEF DeployInv, RequestSound
    <3> QED
      BY <1>1, <2>3, <3>1 DEF OnCourse, KeepsTheRest
  <2>5. d.file = about
    BY <1>1, <2>3 DEF DeployInv, RequestSound
  <2> QED
    BY <1>1, <1>3, <2>1, <2>2, <2>3, <2>4, <2>5, RequestMoves
<1> QED
  BY <1>4, <1>5 DEF Download, EndRequest

LEMMA ReplaceFailsInv ==
  ASSUME DeployInv, NEW j \in Deployers, ReplaceFails(j)
  PROVE DeployInv'
<1>1. crossed \subseteq Files /\ wasted \in BOOLEAN /\ request[j].file = about
  BY DEF DeployInv, DeployTypes, RequestSound, ReplaceFails
<1>2. /\ request[j].at = "backed" /\ request' = [request EXCEPT ![j] = NoRequest]
      /\ UNCHANGED <<about, stamp, live, backups, pageSettings, upstream, wanted, replaced, crossed,
                     hasty, unchecked, deploys>>
      /\ wasted' = (wasted \/ (request[j].file = "geo" /\ request[j].copy # 0))
  BY DEF ReplaceFails, EndRequest
<1> QED
  BY <1>1, <1>2, NoRequestType, RequestMoves

LEMMA PageStaysInv ==
  ASSUME DeployInv, NEW j \in Deployers, PageStays(j)
  PROVE DeployInv'
<1>1. crossed \subseteq Files /\ wasted \in BOOLEAN /\ request[j].file = about /\ about \in Files
  BY DEF DeployInv, DeployTypes, RequestSound, PageStays
<1>2. /\ request[j].at = "written" /\ request' = [request EXCEPT ![j] = NoRequest]
      /\ UNCHANGED <<about, stamp, live, backups, pageSettings, upstream, wanted, replaced,
                     hasty, wasted, unchecked, deploys>>
      /\ crossed' = crossed \cup {about}
  BY <1>1 DEF PageStays, EndRequest
<1> QED
  BY <1>1, <1>2, NoRequestType, RequestMoves

\* A copy is made, or there is nothing to copy.
LEMMA BackUpInv ==
  ASSUME DeployInv, NEW j \in Deployers, BackUp(j)
  PROVE DeployInv'
<1> DEFINE r == request[j]
           name == <<about, stamp>>
<1>1. /\ r \in RequestType /\ r.at = "ready" /\ r.file = about /\ about \in Files /\ stamp \in 1..LastStamp
      /\ request \in [Deployers -> RequestType] /\ crossed \subseteq Files /\ wasted \in BOOLEAN
      /\ live \in [Files -> Contents \cup {NoFile}] /\ replaced \in [Files -> Seq(Contents)]
      /\ about = "geo" /\ r.sum # NoFile => r.new[2] # Broken
      /\ about \notin crossed => OnCourse(r)
  BY DEF BackUp, DeployInv, DeployTypes, RequestSound
<1>2. UNCHANGED <<about, stamp, live, pageSettings, upstream, wanted, replaced, crossed, wasted,
                  unchecked, deploys>>
  BY DEF BackUp
<1>3. CASE live[about] = NoFile
  <2> DEFINE d == [r EXCEPT !.at = "backed"]
  <2>1. request' = [request EXCEPT ![j] = d]
    BY <1>1, <1>3 DEF BackUp
  <2>2. /\ d \in RequestType /\ d.at = "backed" /\ d.file = r.file /\ d.new = r.new
        /\ d.parts = r.parts /\ d.copy = r.copy /\ d.sum = r.sum
    BY <1>1 DEF RequestType, Stages
  <2> HIDE DEF d
  <2>3. about \notin crossed => OnCourse(d)
    BY <1>1, <1>3, <2>2 DEF OnCourse, KeepsTheRest, HasItsCopy
  <2>4. UNCHANGED <<backups, hasty>>
    BY <1>1, <1>3 DEF BackUp
  <2> QED
    BY <1>1, <1>2, <2>1, <2>2, <2>3, <2>4, RequestMoves
<1>4. CASE live[about] # NoFile
  <2> DEFINE n == Len(replaced[about])
             new == [content |-> live[about], age |-> n]
  <2>1. PICK d \in RequestType :
          /\ request' = [request EXCEPT ![j] = d]
          /\ d.at = "backed" /\ d.file = about /\ d.new = r.new
          /\ d.parts = r.parts /\ d.copy = stamp /\ d.sum = r.sum
    <3> DEFINE e == [r EXCEPT !.at = "backed", !.copy = stamp]
    <3>1. request' = [request EXCEPT ![j].at = "backed", ![j].copy = stamp]
      BY <1>1, <1>4 DEF BackUp
    <3>2. request' = [request EXCEPT ![j] = e]
      BY <1>1, <3>1
    <3>3. stamp \in 0..LastStamp
      BY <1>1, DeployBoundsAssumption
    <3>4. /\ e \in RequestType /\ e.at = "backed" /\ e.file = about /\ e.new = r.new
          /\ e.parts = r.parts /\ e.copy = stamp /\ e.sum = r.sum
      BY <1>1, <3>3 DEF RequestType, Stages
    <3> HIDE DEF e
    <3> QED
      BY <3>2, <3>4
  <2>2. d.at = "backed" /\ d.file = about /\ d.copy = stamp /\ stamp # 0
    BY <1>1, <2>1
  <2>3. /\ DOMAIN backups' = DOMAIN backups \cup {name}
        /\ backups'[name] = new
        /\ \A b \in DOMAIN backups : b # name => backups'[b] = backups[b]
        /\ hasty' = IF name \in DOMAIN backups THEN hasty \cup {about} ELSE hasty
    BY <1>1, <1>4 DEF BackUp
  <2>4. n \in Nat /\ new.content = live[about] /\ new.age = n /\ live[about] \in Contents
    BY <1>1, <1>4
  <2>5. DeployTypes'
    <3>1. DOMAIN backups' \subseteq Files \X (1..LastStamp)
      BY <1>1, <2>3 DEF DeployInv, DeployTypes
    <3>2. \A b \in DOMAIN backups' : backups'[b].content \in Contents /\ backups'[b].age \in Nat
      BY <2>3, <2>4 DEF DeployInv, DeployTypes
    <3>3. request' \in [Deployers -> RequestType]
      BY <1>1, <2>1, <2>2
    <3>4. hasty' \subseteq Files
      BY <1>1, <2>3 DEF DeployInv, DeployTypes
    <3> QED
      BY <1>2, <3>1, <3>2, <3>3, <3>4 DEF DeployInv, DeployTypes
  <2>6. /\ request'[j] = d
        /\ \A k \in Deployers : k # j => /\ request'[k] = request[k] /\ RequestSound(k)'
                                         /\ about \notin crossed' => request[k].at = "none"
        /\ \A g \in Files : g # about => Busy(g) = {} /\ Busy(g)' = {}
        /\ about \notin crossed => Busy(about) = {j} /\ OnCourse(r)
        /\ about \notin crossed => Busy(about)' = {j}
    BY <1>1, <1>2, <2>1, <2>2, <2>3, OthersSound
  <2>7. about \notin crossed => OnCourse(d)'
    <3> SUFFICES ASSUME about \notin crossed PROVE OnCourse(d)'
      OBVIOUS
    <3>1. OnCourse(r) /\ live[about] = wanted[about] /\ KeepsTheRest(r)
      BY <1>1 DEF OnCourse
    <3>2. KeepsTheRest(d)'
      BY <1>1, <1>2, <2>1, <3>1 DEF KeepsTheRest
    <3>4. HasItsCopy(d)'
      BY <1>1, <1>2, <1>4, <2>2, <2>3, <3>1 DEF HasItsCopy
    <3> QED
      BY <1>1, <1>2, <2>2, <3>1, <3>2, <3>4 DEF OnCourse
  <2>8. RequestSound(j)'
    <3>1. name \in DOMAIN backups'
      BY <2>3
    <3>2. about = "geo" /\ d.sum # NoFile => d.new[2] # Broken
      BY <1>1, <2>1
    <3> QED
      BY <1>1, <1>2, <2>2, <2>6, <2>7, <3>1, <3>2 DEF RequestSound
  <2>9. FailureLeavesNothing'
    BY <1>1, <1>2, <2>6 DEF DeployInv, FailureLeavesNothing
  <2>10. ASSUME NEW g \in Files, g \notin crossed', g # about PROVE Archive(g)'
    <3>1. CopiesOf(g)' = CopiesOf(g) /\ \A b \in CopiesOf(g) : backups'[b] = backups[b]
      BY <1>1, <2>3, <2>10 DEF CopiesOf
    <3>2. g \in hasty => g \in hasty'
      BY <2>3
    <3> QED
      BY <1>2, <2>6, <2>10, <3>1, <3>2, ArchiveKept
  <2>11. ASSUME about \notin crossed PROVE Archive(about)'
    <3>1. Archive(about) /\ Busy(about) = {j} /\ Busy(about)' = {j}
      BY <1>1, <2>6, <2>11 DEF DeployInv
    <3>2. CopiesOf(about)' = CopiesOf(about) \cup {name}
      BY <1>2, <2>3 DEF CopiesOf
    <3>3. ASSUME NEW b \in CopiesOf(about)' PROVE CopySound(about, b)'
      <4>1. CASE b = name
        BY <1>1, <1>2, <1>4, <2>2, <2>3, <2>4, <2>6, <3>1, <4>1 DEF CopySound
      <4>2. CASE b # name
        <5>1. CopySound(about, b) /\ backups'[b] = backups[b]
          BY <2>3, <3>1, <3>2, <4>2 DEF Archive, CopiesOf
        <5> QED
          BY <1>2, <2>2, <2>6, <3>1, <5>1 DEF CopySound
      <4> QED
        BY <4>1, <4>2
    <3>4. ASSUME about \notin hasty', NEW i \in 1..n, Owed(about, i)'
          PROVE \E b \in CopiesOf(about)' : backups'[b].age = i - 1
      <4>1. about \notin hasty /\ name \notin DOMAIN backups
        BY <2>3, <3>4
      <4>2. Owed(about, i)
        BY <1>2, <3>4 DEF Owed
      <4>3. PICK b \in CopiesOf(about) : backups[b].age = i - 1
        BY <3>1, <4>1, <4>2 DEF Archive
      <4> QED
        BY <2>3, <3>2, <4>1, <4>3 DEF CopiesOf
    <3>5. ASSUME about = "geo", ~wasted'
          PROVE /\ \A b, c \in CopiesOf(about)' : backups'[b].age = backups'[c].age => b = c
                /\ \E k \in Busy(about)' : request'[k].at = "backed"
      <4>1. \A b \in CopiesOf(about) : backups[b].age # n
        BY <1>1, <1>2, <3>1, <3>5 DEF Archive
      <4>2. \A b \in CopiesOf(about)' : b # name => b \in CopiesOf(about) /\ backups'[b] = backups[b]
        BY <2>3, <3>2 DEF CopiesOf
      <4>3. \A b, c \in CopiesOf(about) : backups[b].age = backups[c].age => b = c
        BY <1>2, <3>1, <3>5 DEF Archive
      <4>4. \E k \in Busy(about)' : request'[k].at = "backed"
        BY <2>2, <2>6, <3>1
      <4> QED
        BY <2>3, <2>4, <4>1, <4>2, <4>3, <4>4
    <3>6. replaced' = replaced
      BY <1>2
    <3> QED
      BY <1>2, <3>3, <3>4, <3>5, <3>6 DEF Archive
  <2>12. CheckedIsWhole'
    BY <1>2 DEF DeployInv, CheckedIsWhole
  <2> QED
    BY <1>1, <1>2, <2>5, <2>6, <2>8, <2>9, <2>10, <2>11, <2>12 DEF DeployInv
<1> QED
  BY <1>3, <1>4

\* The file is replaced: its content is the next of those a copy is owed of.
LEMMA ReplaceInv ==
  ASSUME DeployInv, NEW j \in Deployers, Replace(j)
  PROVE DeployInv'
<1> DEFINE r == request[j]
           n == Len(replaced[about])
<1>1. /\ r \in RequestType /\ r.at = "backed" /\ r.file = about /\ about \in Files
      /\ request \in [Deployers -> RequestType] /\ wasted \in BOOLEAN
      /\ live \in [Files -> Contents \cup {NoFile}] /\ replaced \in [Files -> Seq(Contents)]
      /\ about = "geo" /\ r.sum # NoFile => r.new[2] # Broken
      /\ about # "geo" /\ r.copy # 0 => <<about, r.copy>> \in DOMAIN backups
      /\ about \notin crossed => OnCourse(r)
  BY DEF Replace, DeployInv, DeployTypes, RequestSound
<1>2. UNCHANGED <<about, stamp, backups, pageSettings, upstream, wanted, crossed, hasty, wasted, deploys>>
  BY DEF Replace
<1>3. /\ live' = [live EXCEPT ![about] = r.new]
      /\ replaced' = IF live[about] = NoFile THEN replaced
                     ELSE [replaced EXCEPT ![about] = Append(@, live[about])]
      /\ unchecked' = IF about = "geo" THEN r.sum = NoFile ELSE unchecked
  BY <1>1 DEF Replace
<1>4. PICK d \in RequestType :
        /\ request' = [request EXCEPT ![j] = d]
        /\ d.at = "written" /\ d.file = about /\ d.new = r.new
        /\ d.parts = r.parts /\ d.copy = r.copy /\ d.sum = r.sum
  <2> DEFINE e == [r EXCEPT !.at = "written"]
  <2>1. request' = [request EXCEPT ![j] = e]
    BY <1>1 DEF Replace
  <2>2. /\ e \in RequestType /\ e.at = "written" /\ e.file = about /\ e.new = r.new
        /\ e.parts = r.parts /\ e.copy = r.copy /\ e.sum = r.sum
    BY <1>1 DEF RequestType, Stages
  <2> HIDE DEF e
  <2> QED
    BY <2>1, <2>2
<1>5. r.new \in Contents
  BY <1>1 DEF RequestType
<1>6. n \in Nat /\ live[about] # NoFile => live[about] \in Contents
  BY <1>1
<1>7. /\ live[about] # NoFile => /\ replaced'[about] = Append(replaced[about], live[about])
                                 /\ Len(replaced'[about]) = n + 1
                                 /\ replaced'[about][n + 1] = live[about]
                                 /\ \A i \in 1..n : replaced'[about][i] = replaced[about][i]
      /\ live[about] = NoFile => replaced' = replaced
      /\ \A g \in Files : g # about => replaced'[g] = replaced[g] /\ live'[g] = live[g]
      /\ live'[about] = r.new
  BY <1>1, <1>3, <1>6
<1>8. DeployTypes'
  <2>1. live' \in [Files -> Contents \cup {NoFile}]
    BY <1>1, <1>3, <1>5
  <2>2. replaced' \in [Files -> Seq(Contents)]
    BY <1>1, <1>3, <1>6
  <2>3. request' \in [Deployers -> RequestType]
    BY <1>1, <1>4
  <2> QED
    BY <1>2, <2>1, <2>2, <2>3 DEF DeployInv, DeployTypes
<1>9. /\ request'[j] = d
      /\ \A k \in Deployers : k # j => /\ request'[k] = request[k] /\ RequestSound(k)'
                                       /\ about \notin crossed' => request[k].at = "none"
      /\ \A g \in Files : g # about => Busy(g) = {} /\ Busy(g)' = {}
      /\ about \notin crossed => Busy(about) = {j} /\ Busy(about)' = {j}
  BY <1>1, <1>2, <1>4, OthersSound
<1>10. about \notin crossed => OnCourse(d)'
  <2> SUFFICES ASSUME about \notin crossed PROVE OnCourse(d)'
    OBVIOUS
  <2>1. KeepsTheRest(d)'
    BY <1>1, <1>2, <1>4 DEF OnCourse, KeepsTheRest
  <2>2. HasItsCopy(d)'
    BY <1>1, <1>2, <1>4 DEF OnCourse, HasItsCopy
  <2> QED
    BY <1>1, <1>4, <1>7, <2>1, <2>2 DEF OnCourse
<1>11. RequestSound(j)'
  BY <1>1, <1>2, <1>4, <1>9, <1>10 DEF RequestSound
<1>12. FailureLeavesNothing'
  <2> SUFFICES ASSUME NEW g \in Files, g \notin crossed, Busy(g)' = {} PROVE live'[g] = wanted[g]
    BY <1>2 DEF FailureLeavesNothing
  <2>1. g # about
    <3>1. {j} # {} /\ about' = about
      BY <1>2
    <3> QED
      BY <1>9, <3>1
  <2> QED
    BY <1>7, <1>9, <2>1 DEF DeployInv, FailureLeavesNothing
<1>13. ASSUME NEW g \in Files, g \notin crossed', g # about PROVE Archive(g)'
  <2>1. CopiesOf(g)' = CopiesOf(g) /\ \A b \in CopiesOf(g) : backups'[b] = backups[b]
    BY <1>2 DEF CopiesOf
  <2> QED
    BY <1>2, <1>7, <1>9, <1>13, <2>1, ArchiveKept
<1>14. ASSUME about \notin crossed, live[about] = NoFile PROVE Archive(about)'
  <2>1. Archive(about)
    BY <1>1, <1>14 DEF DeployInv
  <2>2. \A b \in CopiesOf(about) : CopySound(about, b) /\ backups[b].age # n
    BY <1>14, <2>1 DEF Archive, CopySound
  <2>3. CopiesOf(about)' = CopiesOf(about) /\ replaced'[about] = replaced[about]
    BY <1>2, <1>7, <1>14 DEF CopiesOf
  <2>4. \A b \in CopiesOf(about)' : CopySound(about, b)'
    BY <1>2, <2>2, <2>3 DEF CopySound
  <2> QED
    BY <1>2, <2>1, <2>2, <2>3, <2>4 DEF Archive, Owed
<1>15. ASSUME about \notin crossed, live[about] # NoFile PROVE Archive(about)'
  <2>1. Archive(about) /\ CopiesOf(about)' = CopiesOf(about)
    BY <1>1, <1>2, <1>15 DEF DeployInv, CopiesOf
  <2>2. ASSUME NEW b \in CopiesOf(about) PROVE CopySound(about, b)' /\ backups[b].age # n + 1
    <3>1. CopySound(about, b) /\ backups[b].age \in Nat
      BY <2>1 DEF Archive, CopiesOf, DeployInv, DeployTypes
    <3>2. backups[b].age <= n /\ (backups[b].age = n => backups[b].content = live[about])
      BY <3>1 DEF CopySound
    <3>3. backups[b].age < n => /\ backups[b].content = replaced[about][backups[b].age + 1]
                                /\ backups[b].age + 1 \in 1..n
      BY <1>6, <1>15, <3>1 DEF CopySound
    <3>4. backups[b].content = replaced'[about][backups[b].age + 1]
      <4>1. CASE backups[b].age = n
        BY <1>7, <1>15, <3>2, <4>1
      <4>2. CASE backups[b].age < n
        BY <1>7, <1>15, <3>3, <4>2
      <4> QED
        BY <1>6, <3>1, <3>2, <4>1, <4>2
    <3> QED
      BY <1>2, <1>6, <1>7, <1>15, <3>1, <3>2, <3>4 DEF CopySound
  <2>3. ASSUME about \notin hasty, NEW i \in 1..(n + 1), Owed(about, i)'
        PROVE \E b \in CopiesOf(about) : backups[b].age = i - 1
    <3>1. CASE i = n + 1
      <4>1. HasItsCopy(r) /\ wanted[about] # NoFile
        BY <1>1, <1>15 DEF OnCourse
      <4>2. <<about, r.copy>> \in CopiesOf(about) /\ backups[<<about, r.copy>>].age = n
        BY <1>1, <4>1 DEF HasItsCopy, CopiesOf
      <4> QED
        BY <1>6, <1>15, <3>1, <4>2
    <3>2. CASE i # n + 1
      <4>1. i \in 1..n
        BY <1>6, <1>15, <3>2
      <4>2. Owed(about, i)
        <5> DEFINE m == Len(replaced'[about])
        <5>1. m = n + 1 /\ n \in Nat /\ i \in Nat /\ i > 0
          BY <1>1, <1>7, <1>15, <4>1
        <5> HIDE DEF m, n
        <5>2. CASE about # "geo"
          <6>1. i > n - n
            BY <5>1
          <6> QED
            BY <5>2, <6>1, Zenon DEF Owed, n
        <5>3. CASE about = "geo" /\ wasted
          <6>1. i > m - 1
            BY <1>2, <2>3, <5>3, Zenon DEF Owed, m
          <6>2. i > n - 1
            BY <5>1, <6>1
          <6> QED
            BY <5>3, <6>2, Zenon DEF Owed, n
        <5>4. CASE about = "geo" /\ ~wasted
          <6>1. i > m - KeepCount
            BY <1>2, <2>3, <5>4, Zenon DEF Owed, m
          <6>2. i > n - KeepCount
            BY <5>1, <6>1, KeepAssumption
          <6> QED
            BY <5>4, <6>2, Zenon DEF Owed, n
        <5> QED
          BY <5>2, <5>3, <5>4
      <4> QED
        BY <2>1, <2>3, <4>1, <4>2 DEF Archive
    <3> QED
      BY <3>1, <3>2
  <2>4. about = "geo" /\ ~wasted =>
          \A b, c \in CopiesOf(about) : backups[b].age = backups[c].age => b = c
    BY <2>1 DEF Archive
  <2> QED
    BY <1>2, <1>7, <1>15, <2>1, <2>2, <2>3, <2>4 DEF Archive
<1>16. CheckedIsWhole'
  <2>1. CASE about = "geo"
    BY <1>1, <1>3, <1>7, <2>1 DEF CheckedIsWhole
  <2>2. CASE about # "geo"
    BY <1>3, <1>7, <2>2 DEF CheckedIsWhole, DeployInv
  <2> QED
    BY <2>1, <2>2
<1> QED
  BY <1>1, <1>2, <1>8, <1>9, <1>11, <1>12, <1>13, <1>14, <1>15, <1>16 DEF DeployInv

\* The page is put back from its copy, or goes if there was none.
LEMMA PagePutBackInv ==
  ASSUME DeployInv, NEW j \in Deployers, PagePutBack(j)
  PROVE DeployInv'
<1> DEFINE r == request[j]
           back == PutBack(j)
<1>1. /\ r \in RequestType /\ r.at \in {"backed", "written"} /\ r.file = about /\ about = "page" /\ about \in Files
      /\ request \in [Deployers -> RequestType]
      /\ live \in [Files -> Contents \cup {NoFile}]
      /\ r.copy # 0 => <<about, r.copy>> \in DOMAIN backups
      /\ about \notin crossed => OnCourse(r)
  BY DEF PagePutBack, DeployInv, DeployTypes, RequestSound
<1>2. /\ UNCHANGED <<about, stamp, backups, pageSettings, upstream, wanted, replaced, crossed, hasty,
                     wasted, unchecked, deploys>>
      /\ live' = [live EXCEPT ![about] = back]
      /\ request' = [request EXCEPT ![j] = NoRequest]
  BY <1>1 DEF PagePutBack, EndRequest
<1>3. back \in Contents \cup {NoFile}
  BY <1>1 DEF PutBack, DeployInv, DeployTypes
<1>4. about \notin crossed => back = wanted[about]
  <2> SUFFICES ASSUME about \notin crossed PROVE back = wanted[about]
    OBVIOUS
  <2>1. HasItsCopy(r)
    BY <1>1 DEF OnCourse
  <2> QED
    BY <1>1, <2>1 DEF HasItsCopy, PutBack
<1> HIDE DEF back
<1>5. DeployTypes'
  <2>1. live' \in [Files -> Contents \cup {NoFile}] /\ request' \in [Deployers -> RequestType]
    BY <1>1, <1>2, <1>3, NoRequestType
  <2> QED
    BY <1>2, <2>1 DEF DeployInv, DeployTypes
<1>6. /\ \A k \in Deployers : RequestSound(k)'
      /\ \A g \in Files : g # about => Busy(g) = {} /\ Busy(g)' = {}
      /\ about \notin crossed => Busy(about) = {j} /\ Busy(about)' = {}
  BY <1>1, <1>2, NoRequestType, OthersSound
<1>7. FailureLeavesNothing'
  BY <1>1, <1>2, <1>4, <1>6 DEF DeployInv, DeployTypes, FailureLeavesNothing
<1>8. ASSUME NEW g \in Files, g \notin crossed', live'[g] = live[g] PROVE Archive(g)'
  <2>1. CopiesOf(g)' = CopiesOf(g) /\ \A b \in CopiesOf(g) : backups'[b] = backups[b]
    BY <1>2 DEF CopiesOf
  <2>2. Busy(g)' = {} /\ (g = "geo" => Busy(g) = {})
    BY <1>1, <1>2, <1>6, <1>8
  <2> QED
    BY <1>2, <1>8, <2>1, <2>2, ArchiveKept
<1>9. ASSUME about \notin crossed, live'[about] # live[about] PROVE Archive(about)'
  <2>1. Archive(about) /\ CopiesOf(about)' = CopiesOf(about) /\ r.at = "written"
    BY <1>1, <1>2, <1>4, <1>9 DEF DeployInv, CopiesOf, OnCourse
  <2>2. \A b \in CopiesOf(about) : CopySound(about, b) /\ backups[b].age # Len(replaced[about])
    BY <1>6, <1>9, <2>1 DEF Archive, CopySound
  <2>3. \A b \in CopiesOf(about)' : CopySound(about, b)'
    BY <1>2, <2>1, <2>2 DEF CopySound
  <2> QED
    BY <1>1, <1>2, <2>1, <2>3 DEF Archive, Owed
<1>10. CheckedIsWhole'
  BY <1>1, <1>2 DEF DeployInv, CheckedIsWhole
<1>11. \A g \in Files : g # about => live'[g] = live[g]
  BY <1>1, <1>2
<1> QED
  BY <1>2, <1>5, <1>6, <1>7, <1>8, <1>9, <1>10, <1>11 DEF DeployInv

LEMMA ConsoleDiesInv ==
  ASSUME DeployInv, ConsoleDies
  PROVE DeployInv'
<1>1. /\ crossed' = crossed \cup {f \in Files : \E j \in Busy(f) : request[j].at = "written"}
      /\ request' = [j \in Deployers |-> NoRequest]
      /\ UNCHANGED <<about, stamp, live, backups, pageSettings, upstream, wanted, replaced, hasty,
                     unchecked, deploys>>
      /\ wasted' = (wasted \/ \E j \in Busy("geo") : request[j].at = "backed" /\ request[j].copy # 0)
  BY DEF ConsoleDies
<1>2. DeployTypes'
  <2>1. request' \in [Deployers -> RequestType] /\ crossed' \subseteq Files /\ wasted' \in BOOLEAN
    BY <1>1, NoRequestType DEF DeployInv, DeployTypes
  <2> QED
    BY <1>1, <2>1 DEF DeployInv, DeployTypes
<1>3. \A j \in Deployers : RequestSound(j)'
  BY <1>1, NoRequestType DEF RequestSound
<1>4. ASSUME NEW f \in Files, f \notin crossed', NEW j \in Busy(f)
      PROVE j \in Deployers /\ f = about /\ about \notin crossed /\ OnCourse(request[j]) /\ request[j].at # "written"
  BY <1>1, <1>4 DEF Busy, DeployInv, RequestSound
<1>5. FailureLeavesNothing'
  <2> SUFFICES ASSUME NEW f \in Files, f \notin crossed' PROVE live[f] = wanted[f]
    BY <1>1 DEF FailureLeavesNothing
  <2>1. CASE Busy(f) = {}
    BY <1>1, <2>1 DEF DeployInv, FailureLeavesNothing
  <2>2. ASSUME NEW j \in Busy(f) PROVE live[f] = wanted[f]
    BY <1>4, <2>2 DEF OnCourse, Busy
  <2> QED
    BY <2>1, <2>2
<1>6. ASSUME NEW f \in Files, f \notin crossed' PROVE Archive(f)'
  <2>1. CopiesOf(f)' = CopiesOf(f) /\ \A b \in CopiesOf(f) : backups'[b] = backups[b]
    BY <1>1 DEF CopiesOf
  <2>2. Busy(f)' = {}
    BY <1>1, NoRequestType DEF Busy
  <2>3. ASSUME f = "geo", ~wasted', live[f] # NoFile, NEW k \in Busy(f), request[k].at = "backed"
        PROVE FALSE
    <3>1. OnCourse(request[k]) /\ request[k].file = f
      BY <1>4, <1>6 DEF Busy
    <3>2. HasItsCopy(request[k]) /\ wanted[f] # NoFile
      BY <2>3, <3>1 DEF OnCourse
    <3> QED
      BY <1>1, <2>3, <3>1, <3>2 DEF HasItsCopy
  <2> QED
    BY <1>1, <1>6, <2>1, <2>2, <2>3, ArchiveKept
<1>7. CheckedIsWhole'
  BY <1>1 DEF DeployInv, CheckedIsWhole
<1> QED
  BY <1>2, <1>3, <1>5, <1>6, <1>7 DEF DeployInv

\* The copies that are pruned leave those that are owed.
LEMMA PruningKeeps ==
  ASSUME DeployInv, "geo" \in Files, "geo" \notin crossed, "geo" \notin hasty,
         \A b \in CopiesOf("geo") : backups[b].age < Len(replaced["geo"]),
         NEW kept \in Prunings, NEW i \in 1..Len(replaced["geo"]), Owed("geo", i)
  PROVE \E b \in kept : backups[b].age = i - 1
<1> DEFINE n == Len(replaced["geo"])
<1>1. n \in Nat /\ i \in 1..n /\ CopiesOf("geo") = GeoBackups
  BY DEF DeployInv, DeployTypes, CopiesOf, GeoBackups
<1>2. PICK b \in GeoBackups : backups[b].age = i - 1
  BY <1>1 DEF DeployInv, Archive
<1>3. /\ kept \subseteq GeoBackups /\ (kept # GeoBackups => Cardinality(kept) = KeepCount) /\ Latest(kept)
  BY DEF Prunings
<1>4. SUFFICES ASSUME b \notin kept PROVE \E c \in kept : backups[c].age = i - 1
  BY <1>2
<1>5. Cardinality(kept) = KeepCount
  BY <1>2, <1>3, <1>4
<1>6. \A c \in kept : backups[c].age \in Nat /\ backups[c].age >= i - 1 /\ backups[c].age <= n - 1
  <2> SUFFICES ASSUME NEW c \in kept
               PROVE backups[c].age \in Nat /\ backups[c].age >= i - 1 /\ backups[c].age <= n - 1
    OBVIOUS
  <2>1. backups[c].age \in Nat /\ backups[c].age < n
    BY <1>1, <1>3 DEF DeployInv, DeployTypes, GeoBackups
  <2>2. backups[c].age >= backups[b].age
    BY <1>2, <1>3, <1>4 DEF Latest
  <2> QED
    BY <1>1, <1>2, <2>1, <2>2
<1> HIDE DEF n
<1>7. CASE wasted
  <2>1. i > n - 1
    BY <1>7, Zenon DEF Owed, n
  <2>2. kept # {}
    BY <1>5, FS_EmptySet, KeepAssumption
  <2> QED
    BY <1>1, <1>6, <2>1, <2>2
<1>8. CASE ~wasted
  <2>1. i > n - KeepCount
    BY <1>8, Zenon DEF Owed, n
  <2>2. \A c, d \in GeoBackups : backups[c].age = backups[d].age => c = d
    BY <1>1, <1>8 DEF DeployInv, Archive
  <2>3. \A c \in kept : backups[c].age # i - 1
    BY <1>2, <1>3, <1>4, <2>2
  <2> DEFINE age == [c \in kept |-> backups[c].age]
  <2>4. age \in [kept -> i..(n - 1)]
    <3> SUFFICES ASSUME NEW c \in kept PROVE backups[c].age \in i..(n - 1)
      OBVIOUS
    <3>1. backups[c].age \in Nat /\ backups[c].age >= i - 1 /\ backups[c].age <= n - 1 /\ backups[c].age # i - 1
      BY <1>6, <2>3
    <3> QED
      BY <1>1, <3>1
  <2>5. age \in Injection(kept, i..(n - 1))
    BY <1>3, <2>2, <2>4 DEF Injection, IsInjective
  <2>6. IsFiniteSet(i..(n - 1)) /\ Cardinality(i..(n - 1)) = n - i
    BY <1>1, FS_Interval
  <2>7. Cardinality(kept) <= n - i
    BY <2>5, <2>6, FS_Injection
  <2> QED
    BY <1>1, <1>5, <2>1, <2>7, KeepAssumption
<1> QED
  BY <1>7, <1>8

LEMMA SucceedInv ==
  ASSUME DeployInv, NEW j \in Deployers, Succeed(j)
  PROVE DeployInv'
<1> DEFINE r == request[j]
<1>1. /\ r \in RequestType /\ r.at = "written" /\ r.file = about /\ about \in Files
      /\ request \in [Deployers -> RequestType]
      /\ wanted \in [Files -> Contents \cup {NoFile}]
      /\ about \notin crossed => OnCourse(r)
  BY DEF Succeed, DeployInv, DeployTypes, RequestSound
<1>2. /\ UNCHANGED <<about, stamp, live, pageSettings, upstream, replaced, crossed, hasty, wasted,
                     unchecked, deploys>>
      /\ request' = [request EXCEPT ![j] = NoRequest]
  BY <1>1 DEF Succeed, EndRequest
<1> DEFINE made == [p \in Parts |-> IF p \in r.parts THEN r.new[p]
                                    ELSE IF wanted[about] = NoFile THEN Blank[p] ELSE wanted[about][p]]
<1>3. wanted' = [wanted EXCEPT ![about] = made]
  BY <1>1 DEF Succeed
<1>4. PICK kept \in Prunings :
        backups' = IF about # "geo" THEN backups
                   ELSE [b \in kept \cup (DOMAIN backups \ GeoBackups) |-> backups[b]]
  BY <1>1 DEF Succeed
<1>5. r.new \in Contents /\ made \in Contents
  <2>1. r.new \in [Parts -> Values \cup {Broken}]
    BY <1>1 DEF RequestType, Contents
  <2>2. Blank \in [Parts -> Values \cup {Broken}]
    BY BlankType DEF Contents
  <2>3. wanted[about] # NoFile => wanted[about] \in [Parts -> Values \cup {Broken}]
    BY <1>1 DEF Contents
  <2>4. made \in [Parts -> Values \cup {Broken}]
    BY <2>1, <2>2, <2>3
  <2> QED
    BY <2>1, <2>4 DEF Contents
<1>6. about \notin crossed => made = r.new
  <2> SUFFICES ASSUME about \notin crossed PROVE made = r.new
    OBVIOUS
  <2>1. \A p \in Parts \ r.parts : r.new[p] = IF wanted[about] = NoFile THEN Blank[p] ELSE wanted[about][p]
    BY <1>1 DEF OnCourse, KeepsTheRest
  <2>2. \A p \in Parts : made[p] = r.new[p]
    BY <2>1
  <2> QED
    BY <1>5, <2>2 DEF Contents
<1> HIDE DEF made
<1>7. /\ DOMAIN backups' \subseteq DOMAIN backups
      /\ \A b \in DOMAIN backups' : backups'[b] = backups[b]
      /\ about # "geo" => backups' = backups
  BY <1>4 DEF Prunings, GeoBackups
<1>8. DeployTypes'
  <2>1. wanted' \in [Files -> Contents \cup {NoFile}] /\ request' \in [Deployers -> RequestType]
    BY <1>1, <1>2, <1>3, <1>5, NoRequestType
  <2>2. /\ DOMAIN backups' \subseteq Files \X (1..LastStamp)
        /\ \A b \in DOMAIN backups' : backups'[b].content \in Contents /\ backups'[b].age \in Nat
    BY <1>7 DEF DeployInv, DeployTypes
  <2> QED
    BY <1>2, <2>1, <2>2 DEF DeployInv, DeployTypes
<1>9. /\ \A k \in Deployers : RequestSound(k)'
      /\ \A g \in Files : g # about => Busy(g) = {} /\ Busy(g)' = {}
      /\ about \notin crossed => Busy(about) = {j} /\ Busy(about)' = {}
  BY <1>1, <1>2, <1>7, NoRequestType, OthersSound
<1>10. FailureLeavesNothing'
  <2> SUFFICES ASSUME NEW g \in Files, g \notin crossed PROVE live[g] = wanted'[g]
    BY <1>2 DEF FailureLeavesNothing
  <2>1. CASE g = about
    BY <1>1, <1>3, <1>6, <2>1 DEF OnCourse
  <2>2. CASE g # about
    BY <1>1, <1>3, <1>9, <2>2 DEF DeployInv, FailureLeavesNothing
  <2> QED
    BY <2>1, <2>2
<1>11. ASSUME NEW g \in Files, g \notin crossed', g # about \/ about # "geo" PROVE Archive(g)'
  <2>1. CopiesOf(g)' = CopiesOf(g) /\ \A b \in CopiesOf(g) : backups'[b] = backups[b]
    BY <1>4, <1>11 DEF CopiesOf, Prunings, GeoBackups
  <2>2. Busy(g)' = {} /\ (g = "geo" => Busy(g) = {})
    BY <1>2, <1>9, <1>11
  <2> QED
    BY <1>2, <1>11, <2>1, <2>2, ArchiveKept
<1>12. ASSUME about = "geo", about \notin crossed PROVE Archive(about)'
  <2>1. Archive(about) /\ Busy(about) = {j} /\ CopiesOf(about) = GeoBackups
    BY <1>1, <1>9, <1>12 DEF DeployInv, CopiesOf, GeoBackups
  <2>2. CopiesOf(about)' = kept /\ kept \subseteq CopiesOf(about)
    BY <1>2, <1>4, <1>12, <2>1 DEF CopiesOf, Prunings, GeoBackups
  <2>3. \A b \in CopiesOf(about) : CopySound(about, b) /\ backups[b].age # Len(replaced[about])
    BY <1>1, <2>1 DEF Archive, CopySound
  <2>4. \A b \in kept : backups'[b] = backups[b]
    BY <1>7, <2>2 DEF CopiesOf
  <2>5. \A b \in kept : CopySound(about, b)'
    BY <1>2, <2>2, <2>3, <2>4 DEF CopySound
  <2>6. \A b \in CopiesOf(about) : backups[b].age < Len(replaced[about])
    <3> SUFFICES ASSUME NEW b \in CopiesOf(about) PROVE backups[b].age < Len(replaced[about])
      OBVIOUS
    <3>1. backups[b].age \in Nat /\ Len(replaced[about]) \in Nat
      BY <1>1 DEF DeployInv, DeployTypes, CopiesOf
    <3> QED
      BY <2>3, <3>1 DEF CopySound
  <2>7. ASSUME about \notin hasty', NEW i \in 1..Len(replaced'[about]), Owed(about, i)'
        PROVE \E b \in kept : backups'[b].age = i - 1
    <3>1. Owed("geo", i) /\ i \in 1..Len(replaced["geo"]) /\ "geo" \notin hasty
      BY <1>2, <1>12, <2>7 DEF Owed
    <3>2. \E b \in kept : backups[b].age = i - 1
      BY <1>1, <1>12, <2>6, <3>1, PruningKeeps
    <3> QED
      BY <2>4, <3>2
  <2>8. ~wasted' => \A b, c \in kept : backups'[b].age = backups'[c].age => b = c
    BY <1>2, <1>12, <2>1, <2>2, <2>4 DEF Archive
  <2>9. \A b \in kept : backups'[b].age # Len(replaced'[about])
    BY <1>2, <2>2, <2>3, <2>4
  <2> QED
    BY <1>2, <2>2, <2>5, <2>7, <2>8, <2>9 DEF Archive
<1>13. CheckedIsWhole'
  BY <1>2 DEF DeployInv, CheckedIsWhole
<1> QED
  BY <1>2, <1>8, <1>9, <1>10, <1>11, <1>12, <1>13 DEF DeployInv

LEMMA DeployNextInv == DeployInv /\ [DeployNext]_deployVars => DeployInv'
<1> SUFFICES ASSUME DeployInv, [DeployNext]_deployVars PROVE DeployInv'
  OBVIOUS
\* A step that no request takes part in.
<1>1. ASSUME UNCHANGED <<about, live, backups, request, wanted, replaced, crossed, hasty, wasted, unchecked>>,
             stamp' \in 1..LastStamp, pageSettings' \in [Parts -> Values],
             upstream' \in [Parts -> Values], deploys' \in 0..MaxDeploys
      PROVE DeployInv'
  <2>1. DeployTypes'
    BY <1>1 DEF DeployInv, DeployTypes
  <2>2. \A j \in Deployers : RequestSound(j)'
    BY <1>1 DEF DeployInv, RequestSound, OnCourse, KeepsTheRest, HasItsCopy
  <2>3. \A f \in Files : Busy(f)' = Busy(f) /\ CopiesOf(f)' = CopiesOf(f)
    BY <1>1 DEF Busy, CopiesOf
  <2>4. FailureLeavesNothing' /\ CheckedIsWhole'
    BY <1>1, <2>3 DEF DeployInv, FailureLeavesNothing, CheckedIsWhole
  <2>5. \A f \in Files \ crossed' : Archive(f)'
    BY <1>1, <2>3, ArchiveKept DEF DeployInv, Busy
  <2> QED
    BY <2>1, <2>2, <2>4, <2>5 DEF DeployInv
<1>2. /\ about \in Files /\ stamp \in 1..LastStamp /\ deploys \in 0..MaxDeploys
      /\ pageSettings \in [Parts -> Values] /\ upstream \in [Parts -> Values]
      /\ live \in [Files -> Contents \cup {NoFile}]
  BY DEF DeployInv, DeployTypes
<1>3. ASSUME NEW j \in Deployers, ApplyPage(j) PROVE DeployInv'
  <2> DEFINE record == [NoRequest EXCEPT !.at = "ready", !.new = pageSettings, !.parts = Parts]
  <2>1. pageSettings \in Contents
    BY <1>2, ContentsType
  <2>4. /\ record \in RequestType /\ record.at = "ready" /\ record.file = "page" /\ record.copy = 0
        /\ record.parts = Parts
    BY <2>1, NoRequestType DEF RequestType, Stages
  <2> HIDE DEF record
  <2>2. Begin(j, record)
    BY <1>3 DEF ApplyPage, record
  <2> QED
    BY <2>2, <2>4, BeginInv
<1>4. ASSUME NEW j \in Deployers, NEW parts \in SUBSET Parts, NEW v \in Values, EditEnv(j, parts, v)
      PROVE DeployInv'
  <2> DEFINE read == IF live["env"] = NoFile THEN Blank ELSE live["env"]
             new == Edited(read, parts, v)
             record == [NoRequest EXCEPT !.at = "ready", !.file = "env", !.new = new, !.parts = parts]
  <2>1. about = "env" /\ Begin(j, record)
    BY <1>4 DEF EditEnv
  <2>2. read \in Contents
    BY <1>2, <2>1, BlankType
  <2>3. new \in Contents /\ \A p \in Parts \ parts : new[p] = read[p]
    BY <2>2 DEF Edited, Contents
  <2>4. \A p \in Parts : read[p] = IF live["env"] = NoFile THEN Blank[p] ELSE live["env"][p]
    OBVIOUS
  <2> HIDE DEF new, read
  <2>5. /\ record \in RequestType /\ record.at = "ready" /\ record.file = "env" /\ record.copy = 0
        /\ record.parts = parts /\ record.new = new
    BY <1>2, <2>1, <2>3, NoRequestType DEF RequestType, Stages
  <2> HIDE DEF record
  <2>8. \A p \in Parts \ record.parts :
          record.new[p] = IF live[record.file] = NoFile THEN Blank[p] ELSE live[record.file][p]
    BY <2>3, <2>4, <2>5
  <2> QED
    BY <2>1, <2>5, <2>8, BeginInv
<1>5. ASSUME NEW j \in Deployers, NEW force \in BOOLEAN, NEW answered \in BOOLEAN, AskGeodata(j, force, answered)
      PROVE DeployInv'
  <2> DEFINE record == [NoRequest EXCEPT !.at = "asking", !.file = "geo", !.parts = Parts,
                            !.sum = IF answered THEN upstream ELSE NoFile]
  <2>1. about = "geo" /\ Begin(j, record)
    BY <1>5 DEF AskGeodata
  <2>2. (IF answered THEN upstream ELSE NoFile) \in [Parts -> Values] \cup {NoFile}
    BY <1>2
  <2>4. /\ record \in RequestType /\ record.at = "asking" /\ record.file = "geo" /\ record.copy = 0
        /\ record.parts = Parts
    BY <1>2, <2>1, <2>2, NoRequestType DEF RequestType, Stages
  <2> HIDE DEF record
  <2> QED
    BY <2>1, <2>4, BeginInv
<1>6. ASSUME NEW j \in Deployers,
             \/ \E whole \in BOOLEAN : Download(j, whole)
             \/ BackUp(j) \/ Replace(j) \/ ReplaceFails(j) \/ Succeed(j) \/ PagePutBack(j) \/ PageStays(j)
      PROVE DeployInv'
  BY <1>6, DownloadInv, BackUpInv, ReplaceInv, ReplaceFailsInv, SucceedInv, PagePutBackInv, PageStaysInv
<1>7. ASSUME NEW v \in Values, Publish(v) PROVE DeployInv'
  BY <1>1, <1>2, <1>7, DeployBoundsAssumption DEF Publish
<1>8. ASSUME NEW v \in Values, NEW p \in Parts, SavePage(p, v) PROVE DeployInv'
  BY <1>1, <1>2, <1>8, DeployBoundsAssumption DEF SavePage
<1>9. CASE ConsoleDies
  BY <1>9, ConsoleDiesInv
<1>10. CASE ASecondPasses
  <2>1. stamp' \in 1..LastStamp
    BY <1>2, <1>10, DeployBoundsAssumption DEF ASecondPasses
  <2> QED
    BY <1>1, <1>2, <1>10, <2>1 DEF ASecondPasses
<1>11. CASE UNCHANGED deployVars
  BY <1>1, <1>2, <1>11 DEF deployVars
<1> QED
  BY <1>3, <1>4, <1>5, <1>6, <1>7, <1>8, <1>9, <1>10, <1>11 DEF DeployNext

LEMMA DeployInvProps == DeployInv => DeployTypeOK /\ DeploymentIsSafe
<1> SUFFICES ASSUME DeployInv PROVE DeployTypeOK /\ DeploymentIsSafe
  OBVIOUS
<1>1. DeployTypeOK
  BY DEF DeployInv, DeployTypes, DeployTypeOK, RequestType, Stages
<1>2. WhatWasReplacedIsKept
  <2> SUFFICES ASSUME NEW f \in Files \ (crossed \cup hasty), NEW i \in 1..Len(replaced[f]),
                      Owed(f, i)
               PROVE \E b \in DOMAIN backups : b[1] = f /\ backups[b].content = replaced[f][i]
    BY DEF WhatWasReplacedIsKept, Owed
  <2>1. Archive(f) /\ Len(replaced[f]) \in Nat
    BY DEF DeployInv, DeployTypes
  <2>2. PICK b \in CopiesOf(f) : backups[b].age = i - 1
    BY <2>1 DEF Archive
  <2>3. CopySound(f, b)
    BY <2>1 DEF Archive
  <2>4. backups[b].age < Len(replaced[f]) /\ backups[b].age + 1 = i
    BY <2>1, <2>2
  <2> QED
    BY <2>3, <2>4 DEF CopySound, CopiesOf
<1> QED
  BY <1>1, <1>2 DEF DeployInv, DeploymentIsSafe

\* A file that nobody works on says what the last request that succeeded meant; what was
\* replaced is in a backup, for the geodata the last `KeepCount` contents; and geodata that
\* came with a checksum is whole: for any values, requests, seconds and numbers of backups,
\* whichever step fails or the process dies at (admin_marzban_page_apply, apply_updates,
\* _update_one, _prune_backups).
THEOREM DeploymentStaysSafe == DeploySpec => []DeploymentIsSafe
<1>1. DeploySpec => []DeployInv
  BY DeployInitInv, DeployNextInv, PTL DEF DeploySpec
<1> QED
  BY <1>1, DeployInvProps, PTL

-----------------------------------------------------------------------------
(***************************************************************************)
(* The price list and the dialogue that sells from it.  What a row sells   *)
(* costs the same for one device and for several, as its modes are never   *)
(* recognised; what is sold without a row costs more with every device;    *)
(* and up to a year a longer period adds more than its discount takes.     *)
(* The nearest of the periods never gets shorter as more months are asked  *)
(* for.  A basket does not depend on the traffic that was named, which is  *)
(* why the first screen of a renewal, which names none, says what the bill *)
(* will say.                                                               *)
(***************************************************************************)

LEMMA MaxOfTwo ==
  ASSUME NEW a \in Int, NEW b \in Int
  PROVE Max({a, b}) = IF a <= b THEN b ELSE a
  BY DEF Max

LEMMA HasLeast ==
  ASSUME NEW S \in SUBSET Nat, S # {}
  PROVE  \E m \in S : \A n \in S : m <= n
<1>1. PICK R : R = {ss \in Nat \X Nat : ss[1] < ss[2]}
  OBVIOUS
<1>2. IsWellFoundedOn(R, Nat)
  BY <1>1, NatLessThanWellFounded DEF OpToRel
<1>3. PICK m \in S : \A n \in S : ~(<<n, m>> \in R)
  BY <1>2, WFMin
<1>4. ASSUME NEW n \in S PROVE m <= n
  <2>1. ~(<<n, m>> \in R) /\ n \in Nat /\ m \in Nat
    BY <1>3
  <2> QED
    BY <1>1, <2>1
<1> QED
  BY <1>4

\* The greatest below a bound: the least of what is left up to it.
LEMMA HasGreatest ==
  ASSUME NEW S \in SUBSET Nat, S # {}, NEW bound \in Nat, \A n \in S : n <= bound
  PROVE  \E m \in S : \A n \in S : n <= m
<1>1. PICK T : T = {bound - n : n \in S}
  OBVIOUS
<1>2. T \in SUBSET Nat /\ T # {}
  <2>1. \A n \in S : bound - n \in Nat
    OBVIOUS
  <2> QED
    BY <1>1, <2>1
<1>3. PICK k \in T : \A n \in T : k <= n
  BY <1>2, HasLeast
<1>4. PICK m \in S : k = bound - m
  BY <1>1, <1>3
<1>5. ASSUME NEW n \in S PROVE n <= m
  <2>1. bound - n \in T
    BY <1>1
  <2> QED
    BY <1>3, <1>4, <2>1
<1> QED
  BY <1>5

LEMMA HasGreatestFinite ==
  ASSUME NEW S \in SUBSET Nat, IsFiniteSet(S), S # {}
  PROVE  \E m \in S : \A n \in S : n <= m
<1> DEFINE P == {s \in SUBSET S : \E b \in Nat : \A n \in s : n <= b}
<1>1. {} \in P
  BY SMT
<1>2. ASSUME NEW s \in SUBSET S, s # {}, \A x \in s : s \ {x} \in P
      PROVE s \in P
  <2>1. PICK x \in s : TRUE
    BY <1>2
  <2>2. PICK b \in Nat : \A n \in s \ {x} : n <= b
    BY <1>2, <2>1
  <2>3. b + x \in Nat /\ \A n \in s : n <= b + x
    BY <2>1, <2>2
  <2> QED
    BY <2>3
<1>3. SUBSET S \subseteq P
  <2> HIDE DEF P
  <2> QED
    BY <1>1, <1>2, SubsetInduction
<1>4. PICK b \in Nat : \A n \in S : n <= b
  BY <1>3
<1> QED
  BY <1>4, HasGreatest

LEMMA WithinIs ==
  ASSUME NEW low \in Int, NEW high \in Int, NEW n \in Int
  PROVE /\ Within(low, high, n) \in Int
        /\ low <= high => Within(low, high, n) \in low..high
        /\ n \in low..high => Within(low, high, n) = n
        /\ low <= Within(low, high, n)
<1>1. PICK m \in Int : m = Min({high, n}) /\ m = IF high <= n THEN high ELSE n
  BY MinOfTwo
<1>2. Within(low, high, n) = IF low <= m THEN m ELSE low
  BY <1>1, MaxOfTwo DEF Within
<1> QED
  BY <1>1, <1>2

LEMMA OrElseIs ==
  \A a, b : OrElse(a, b) = IF a # 0 THEN a ELSE b
  BY DEF OrElse

LEMMA ToEvenIs ==
  ASSUME NEW n \in Int, NEW d \in Nat \ {0}
  PROVE ToEven(n, d) \in Int /\ (d = 1 => ToEven(n, d) = n)
  BY DEF ToEven

LEMMA CodesAreNumbers == PackageCodes \subseteq Nat /\ NoLimit = 0 /\ NoLimit \in PackageCodes
<1>1. Packages \subseteq Nat \ {0}
  BY PackagesAssumption
<1> QED
  BY <1>1 DEF PackageCodes, NoLimit

\* A tariff that is listed has a sensible row.
LEMMA ListedRow ==
  ASSUME NEW t \in Standings
  PROVE t.row \in RowValues
  BY PriceListAssumption DEF Standings

\* What a row sells: traffic that has a limit, and devices that depend neither on
\* the traffic nor, in what they cost, on their number.
LEMMA RowTraffic ==
  ASSUME NEW r \in RowValues, NEW selected \in Nat
  PROVE NormalTraffic(OptionFromRow(r), selected) \in Nat \ {0}
<1> DEFINE o == OptionFromRow(r)
           step == OrElse(o.gb.step, 50)
           low == OrElse(OrElse(o.gb.low, o.gb.usual), step)
           high == OrElse(o.gb.high, Max({low, o.gb.usual}))
           target == Within(low, high, OrElse(selected, OrElse(o.gb.usual, low)))
<1>1. o.gb = r.gb /\ r.gb \in BandValues
  BY DEF OptionFromRow, RowValues
<1>2. step \in Nat \ {0}
  BY <1>1 DEF OrElse, BandValues
<1>3. low \in Nat \ {0}
  BY <1>1, <1>2 DEF OrElse, BandValues
<1>4. high \in Int
  <2>1. r.gb.usual \in Nat /\ r.gb.high \in Nat
    BY <1>1 DEF BandValues
  <2>2. Max({low, r.gb.usual}) \in Int
    BY <1>3, <2>1, MaxOfTwo
  <2> QED
    BY <1>1, <2>1, <2>2 DEF OrElse
<1>5. target \in Int
  <2>1. OrElse(selected, OrElse(o.gb.usual, low)) \in Int
    BY <1>1, <1>3 DEF OrElse, BandValues
  <2> QED
    BY <1>3, <1>4, <2>1, WithinIs
<1>6. NormalTraffic(o, selected) = Within(low, high, low + ToEven(target - low, step) * step)
  BY DEF NormalTraffic
<1> HIDE DEF o, step, low, high, target
<1>7. ToEven(target - low, step) \in Int
  BY <1>2, <1>3, <1>5, ToEvenIs
<1>8. low + ToEven(target - low, step) * step \in Int
  BY <1>2, <1>3, <1>7
<1>9. NormalTraffic(o, selected) \in Int /\ low <= NormalTraffic(o, selected)
  BY <1>3, <1>4, <1>6, <1>8, WithinIs
<1> QED
  BY <1>3, <1>9 DEF o

\* How many devices a choice is of.
ChoiceOf(what) ==
  \/ what = Single
  \/ what = Unmetered
  \/ what.mode = "custom" /\ what.count \in 2..MaxDevices /\ what = [mode |-> "custom", count |-> what.count]

LEMMA SeveralIs ==
  ASSUME NEW n \in 1..MaxDevices
  PROVE ChoiceOf(Several(n)) /\ Several(n).mode # "unlimited"
  BY MaxDevicesAssumption DEF ChoiceOf, Several, Single, Unmetered

LEMMA RowDevices ==
  ASSUME NEW r \in RowValues, NEW mode \in Modes, NEW count \in 0..MaxDevices
  PROVE LET what == NormalDevices(OptionFromRow(r), mode, count)
        IN /\ ChoiceOf(what)
           /\ what.mode = "unlimited" <=> mode = "unlimited"
           /\ what = Unmetered <=> mode = "unlimited"
<1> DEFINE o == OptionFromRow(r)
           low == OrElse(o.dev.low, OrElse(o.dev.usual, 1))
           high == Max({low, OrElse(o.dev.high, MaxDevices)})
           step == OrElse(o.dev.step, 1)
           desired == Within(low, high, OrElse(count, low))
           n == Within(low, high, low + ToEven(desired - low, step) * step)
<1>1. /\ o.dev = r.dev /\ r.dev \in ScaleValues
      /\ o.devices \in {"Enum.fixed", "Enum.constructor", "Enum.unlimited"}
  BY DEF OptionFromRow, RowValues, AsText
<1>2. MaxDevices \in Nat /\ MaxDevices >= 2
  BY MaxDevicesAssumption
<1>3. low \in 1..MaxDevices
  BY <1>1, <1>2 DEF OrElse, ScaleValues
<1>4. high \in low..MaxDevices
  <2>1. OrElse(r.dev.high, MaxDevices) \in 1..MaxDevices
    BY <1>1, <1>2 DEF OrElse, ScaleValues
  <2> HIDE DEF low
  <2>2. high = IF low <= OrElse(r.dev.high, MaxDevices) THEN OrElse(r.dev.high, MaxDevices) ELSE low
    BY <1>1, <1>3, <2>1, MaxOfTwo
  <2> HIDE DEF high
  <2> QED
    BY <1>3, <2>1, <2>2
<1>5. step \in Nat \ {0}
  BY <1>1 DEF OrElse, ScaleValues
<1>6. OrElse(count, low) \in Int
  BY <1>2, <1>3 DEF OrElse
<1>7. NormalDevices(o, mode, count) =
        IF mode = "unlimited" THEN Unmetered ELSE IF mode = "single" THEN Several(low) ELSE Several(n)
  BY <1>1 DEF NormalDevices
<1> HIDE DEF low, high, step
<1>8. desired \in Int
  BY <1>3, <1>4, <1>6, WithinIs
<1> HIDE DEF desired
<1>9. ToEven(desired - low, step) \in Int
  BY <1>3, <1>5, <1>8, ToEvenIs
<1>10. n \in low..high
  <2>1. low + ToEven(desired - low, step) * step \in Int
    BY <1>3, <1>5, <1>9
  <2> QED
    BY <1>3, <1>4, <2>1, WithinIs
<1> HIDE DEF n
<1>11. n \in 1..MaxDevices
  BY <1>2, <1>3, <1>4, <1>10
<1> QED
  BY <1>3, <1>7, <1>11, SeveralIs DEF ChoiceOf, Unmetered, o

LEMMA RowSells ==
  ASSUME NEW r \in RowValues, NEW mode \in Modes, NEW count \in 0..MaxDevices, NEW selected \in Nat
  PROVE LET o == OptionFromRow(r)
            what == Resolve(o, mode, count, selected)
            devices == NormalDevices(o, mode, count)
        IN /\ what.gb \in Nat \ {0}
           /\ what.mode = devices.mode /\ what.count = devices.count
<1> DEFINE o == OptionFromRow(r)
<1>1. /\ o.pricing \in {"Enum.fixed", "Enum.constructor", "Enum.unlimited"}
      /\ o.traffic \in {"Enum.fixed", "Enum.constructor", "Enum.unlimited"}
      /\ o.devices \in {"Enum.fixed", "Enum.constructor", "Enum.unlimited"}
  BY DEF OptionFromRow, AsText
<1>2. NormalTraffic(o, selected) \in Nat \ {0}
  BY RowTraffic
<1> HIDE DEF o
<1>3. Resolve(o, mode, count, selected) =
        [gb |-> NormalTraffic(o, selected), mode |-> NormalDevices(o, mode, count).mode,
         count |-> NormalDevices(o, mode, count).count]
  BY <1>1, <1>2 DEF Resolve, NoLimit
<1> QED
  BY <1>2, <1>3 DEF o

LEMMA RowCosts ==
  ASSUME NEW r \in RowValues, rules \in RuleBook, NEW gb \in Nat \ {0}, NEW mode \in Modes, NEW count
  PROVE MonthlyPrice(OptionFromRow(r), gb, mode, count) =
          OrElse(r.base, OrElse(r.single, rules.base)) + IF mode = "unlimited" THEN r.surcharge ELSE 0
<1> DEFINE o == OptionFromRow(r)
<1>1. /\ o.pricing # "fixed" /\ o.traffic # "constructor" /\ o.devices # "constructor"
      /\ o.priced /\ o.base = r.base /\ o.single = r.single /\ o.surcharge = r.surcharge
  BY DEF OptionFromRow, AsText
<1> HIDE DEF o
<1>2. PICK base : base = OrElse(r.base, OrElse(r.single, rules.base))
  OBVIOUS
<1>3. base \in Nat
  BY <1>2, PriceListAssumption DEF OrElse, RowValues, RuleValues
<1>4. MonthlyPrice(o, gb, mode, count) = base + 0 + IF mode = "unlimited" THEN r.surcharge ELSE 0
  BY <1>1, <1>2 DEF MonthlyPrice
<1> QED
  BY <1>2, <1>3, <1>4 DEF o, RowValues

\* What is sold under a code without a row.
LEMMA LegacySells ==
  ASSUME NEW code \in Packages, NEW mode \in Modes, NEW count \in 0..MaxDevices, NEW selected
  PROVE Resolve(LegacyOption(code), mode, count, selected) =
          LET devices == IF mode = "unlimited" THEN Unmetered ELSE IF mode = "single" THEN Single
                         ELSE Several(OrElse(count, 1))
          IN [gb |-> code, mode |-> devices.mode, count |-> devices.count]
<1> DEFINE o == LegacyOption(code)
<1>1. code # 0 /\ MaxDevices \in Nat /\ MaxDevices >= 2
  BY PackagesAssumption, MaxDevicesAssumption
<1>2. /\ o.pricing = "constructor" /\ o.traffic = "fixed" /\ o.devices = "constructor" /\ o.gb.usual = code
      /\ o.dev = [low |-> 1, usual |-> 1, high |-> MaxDevices, step |-> 1, price |-> 0]
  BY <1>1 DEF LegacyOption, NoLimit
<1> HIDE DEF o
<1>3. Resolve(o, mode, count, selected) =
        [gb |-> code, mode |-> NormalDevices(o, mode, count).mode, count |-> NormalDevices(o, mode, count).count]
  BY <1>1, <1>2 DEF Resolve, NoLimit
<1>4. /\ OrElse(o.dev.low, OrElse(o.dev.usual, 1)) = 1 /\ OrElse(o.dev.step, 1) = 1
      /\ OrElse(o.dev.high, MaxDevices) = MaxDevices /\ Max({1, MaxDevices}) = MaxDevices
  BY <1>1, <1>2, MaxOfTwo DEF OrElse
<1>5. PICK desired : desired = OrElse(count, 1)
  OBVIOUS
<1>6. desired \in 1..MaxDevices
  BY <1>1, <1>5 DEF OrElse
<1>7. Within(1, MaxDevices, desired) = desired
  BY <1>1, <1>6, WithinIs
<1>8. ToEven(desired - 1, 1) = desired - 1
  BY <1>6, ToEvenIs
<1>9. Within(1, MaxDevices, 1 + (desired - 1) * 1) = desired
  <2>1. 1 + (desired - 1) * 1 = desired
    BY <1>6
  <2> QED
    BY <1>7, <2>1
<1>10. NormalDevices(o, mode, count) =
         IF mode = "unlimited" THEN Unmetered ELSE IF mode = "single" THEN Several(1) ELSE Several(desired)
  BY <1>2, <1>4, <1>5, <1>7, <1>8, <1>9 DEF NormalDevices
<1> QED
  BY <1>3, <1>5, <1>10 DEF Several, o

LEMMA LegacyCosts ==
  ASSUME NEW code \in Packages, rules \in RuleBook, NEW mode \in Modes, NEW count \in 0..MaxDevices
  PROVE MonthlyPrice(LegacyOption(code), code, mode, count) =
          rules.base + IF mode = "unlimited" THEN rules.unlimitedDevices
                       ELSE IF mode = "custom" /\ count > 1 THEN (count - 1) * rules.devicePrice ELSE 0
<1> DEFINE o == LegacyOption(code)
<1>1. code # 0 /\ MaxDevices \in Nat /\ rules \in RuleValues
  BY PackagesAssumption, MaxDevicesAssumption, PriceListAssumption
<1>2. /\ o.pricing = "constructor" /\ o.traffic = "fixed" /\ o.devices = "constructor"
      /\ ~o.priced /\ o.base = 0 /\ o.single = 0
      /\ o.dev = [low |-> 1, usual |-> 1, high |-> MaxDevices, step |-> 1, price |-> 0]
  BY <1>1 DEF LegacyOption, NoLimit
<1> HIDE DEF o
<1>3. OrElse(o.base, OrElse(o.single, rules.base)) = rules.base
  BY <1>2 DEF OrElse
<1>4. PICK more : more = Max({0, count - 1})
  OBVIOUS
<1>5. more \in Nat /\ more = IF count > 1 THEN count - 1 ELSE 0
  BY <1>1, <1>4, MaxOfTwo
<1>6. /\ OrElse(o.dev.usual, OrElse(o.dev.low, 1)) = 1 /\ OrElse(o.dev.step, 1) = 1
      /\ OrElse(o.dev.price, rules.devicePrice) = rules.devicePrice
  BY <1>2 DEF OrElse
<1>7. more \div 1 = more
  BY <1>5
<1>8. MonthlyPrice(o, code, mode, count) =
        rules.base + 0 + IF mode = "custom" THEN more * rules.devicePrice
                         ELSE IF mode = "unlimited" THEN rules.unlimitedDevices ELSE 0
  BY <1>1, <1>2, <1>3, <1>4, <1>6, <1>7 DEF MonthlyPrice, NoLimit
<1>9. rules.base \in Nat /\ rules.devicePrice \in Nat /\ rules.unlimitedDevices \in Nat
  BY <1>1 DEF RuleValues
<1> QED
  BY <1>5, <1>8, <1>9 DEF Modes, o

LEMMA UnlimitedIs ==
  ASSUME NEW mode \in Modes, NEW count, NEW selected, rules \in RuleBook
  PROVE /\ Resolve(LegacyOption(NoLimit), mode, count, selected) = [gb |-> NoLimit, mode |-> "unlimited", count |-> 0]
        /\ MonthlyPrice(LegacyOption(NoLimit), NoLimit, "unlimited", 0) = rules.combo
<1> DEFINE o == LegacyOption(NoLimit)
<1>1. /\ o.pricing = "constructor" /\ o.traffic = "unlimited" /\ o.devices = "unlimited"
      /\ ~o.priced /\ o.base = 0 /\ o.single = 0
  BY DEF LegacyOption, NoLimit
<1> HIDE DEF o
<1>2. Resolve(o, mode, count, selected) = [gb |-> NoLimit, mode |-> "unlimited", count |-> 0]
  BY <1>1 DEF Resolve, Unmetered
<1>3. OrElse(o.base, OrElse(o.single, rules.base)) = rules.base
  BY <1>1 DEF OrElse
<1>4. MonthlyPrice(o, NoLimit, "unlimited", 0) = rules.base + 0 + (rules.combo - rules.base)
  BY <1>1, <1>3 DEF MonthlyPrice, NoLimit
<1>5. rules.base \in Nat /\ rules.combo \in Nat
  BY PriceListAssumption DEF RuleValues
<1> QED
  BY <1>2, <1>4, <1>5 DEF o

\* What the choice of a code, a mode and a number of devices is billed as: it does
\* not depend on the traffic that was named, and one more device never makes it
\* cheaper.
PriceOf(code, mode, count, selected) ==
  LET o == OptionOf(code)
      what == Resolve(o, mode, count, selected)
  IN MonthlyPrice(o, what.gb, what.mode, what.count)

PriceListIsTyped ==
  /\ rules \in RuleBook
  /\ tariff \in Standings \cup {NoRow}

Sells(code, mode, count, sold, price) ==
  /\ \A selected \in Nat :
       /\ Resolve(OptionOf(code), mode, count, selected).mode = sold.mode
       /\ Resolve(OptionOf(code), mode, count, selected).count = sold.count
       /\ PriceOf(code, mode, count, selected) = price
  /\ ChoiceOf(sold)
  /\ mode = "unlimited" => sold.mode = "unlimited"
  /\ mode \in {"single", "custom"} =>
       price = IF code = RowCode /\ tariff # NoRow
                 THEN OrElse(tariff.row.base, OrElse(tariff.row.single, rules.base))
               ELSE IF code = NoLimit THEN rules.combo
               ELSE rules.base + IF mode = "custom" /\ count > 1 THEN (count - 1) * rules.devicePrice ELSE 0

LEMMA SoldBy ==
  ASSUME PriceListIsTyped, NEW code \in PackageCodes, NEW mode \in Modes, NEW count \in 0..MaxDevices
  PROVE \E sold \in [mode : Modes, count : 0..MaxDevices], price \in Nat : Sells(code, mode, count, sold, price)
<1> USE DEF PriceListIsTyped
<1>0. rules \in RuleValues /\ MaxDevices \in Nat /\ MaxDevices >= 2
  BY PriceListAssumption, MaxDevicesAssumption
<1>1. CASE code = RowCode /\ tariff # NoRow
  <2>1. PICK r \in RowValues : tariff.row = r
    BY <1>1, ListedRow
  <2>2. OptionOf(code) = OptionFromRow(r)
    BY <1>1, <2>1 DEF OptionOf
  <2>3. PICK sold : sold = NormalDevices(OptionFromRow(r), mode, count)
    OBVIOUS
  <2>4. ChoiceOf(sold) /\ (sold.mode = "unlimited" <=> mode = "unlimited")
    BY <2>3, RowDevices
  <2>5. sold \in [mode : Modes, count : 0..MaxDevices] /\ sold.mode \in Modes
    BY <1>0, <2>4 DEF ChoiceOf, Modes, Single, Unmetered
  <2>6. PICK price : price = OrElse(r.base, OrElse(r.single, rules.base)) + IF mode = "unlimited" THEN r.surcharge ELSE 0
    OBVIOUS
  <2>7. /\ r.base \in Nat /\ r.single \in Nat /\ r.surcharge \in Nat /\ rules.base \in Nat
    BY <1>0 DEF RowValues, RuleValues
  <2>8. OrElse(r.base, OrElse(r.single, rules.base)) \in Nat
    BY <2>7 DEF OrElse
  <2>9. price \in Nat
    BY <2>6, <2>7, <2>8
  <2>10. ASSUME NEW selected \in Nat
         PROVE /\ Resolve(OptionOf(code), mode, count, selected).mode = sold.mode
               /\ Resolve(OptionOf(code), mode, count, selected).count = sold.count
               /\ PriceOf(code, mode, count, selected) = price
    <3>1. PICK what : what = Resolve(OptionFromRow(r), mode, count, selected)
      OBVIOUS
    <3>2. what.gb \in Nat \ {0} /\ what.mode = sold.mode /\ what.count = sold.count
      BY <2>3, <3>1, RowSells
    <3>3. what.mode \in Modes /\ (what.mode = "unlimited" <=> mode = "unlimited")
      BY <2>4, <2>5, <3>2
    <3>4. MonthlyPrice(OptionFromRow(r), what.gb, what.mode, what.count) = price
      BY <2>6, <3>2, <3>3, RowCosts
    <3> QED
      BY <2>2, <3>1, <3>2, <3>4 DEF PriceOf
  <2>11. mode \in {"single", "custom"} =>
           price = OrElse(tariff.row.base, OrElse(tariff.row.single, rules.base))
    BY <2>1, <2>6, <2>8
  <2> QED
    BY <1>1, <2>4, <2>5, <2>9, <2>10, <2>11 DEF Sells
<1>2. CASE ~(code = RowCode /\ tariff # NoRow) /\ code = NoLimit
  <2>1. OptionOf(code) = LegacyOption(NoLimit)
    BY <1>2 DEF OptionOf
  <2>2. PICK sold : sold = Unmetered
    OBVIOUS
  <2>3. sold \in [mode : Modes, count : 0..MaxDevices] /\ ChoiceOf(sold) /\ sold.mode = "unlimited" /\ sold.count = 0
    BY <1>0, <2>2 DEF ChoiceOf, Modes, Unmetered
  <2>4. ASSUME NEW selected \in Nat
        PROVE /\ Resolve(OptionOf(code), mode, count, selected).mode = sold.mode
              /\ Resolve(OptionOf(code), mode, count, selected).count = sold.count
              /\ PriceOf(code, mode, count, selected) = rules.combo
    BY <2>1, <2>3, UnlimitedIs DEF PriceOf
  <2>5. rules.combo \in Nat
    BY <1>0 DEF RuleValues
  <2>6. mode \in {"single", "custom"} => rules.combo =
          IF code = RowCode /\ tariff # NoRow THEN OrElse(tariff.row.base, OrElse(tariff.row.single, rules.base))
          ELSE IF code = NoLimit THEN rules.combo
          ELSE rules.base + IF mode = "custom" /\ count > 1 THEN (count - 1) * rules.devicePrice ELSE 0
    BY <1>2
  <2> QED
    BY <2>3, <2>4, <2>5, <2>6 DEF Sells
<1>3. CASE ~(code = RowCode /\ tariff # NoRow) /\ code # NoLimit
  <2>1. OptionOf(code) = LegacyOption(code) /\ code \in Packages
    BY <1>3 DEF OptionOf, PackageCodes
  <2>2. PICK sold : sold = IF mode = "unlimited" THEN Unmetered ELSE IF mode = "single" THEN Single
                         ELSE Several(OrElse(count, 1))
    OBVIOUS
  <2>3. ChoiceOf(sold) /\ (sold.mode = "unlimited" <=> mode = "unlimited")
    <3>1. OrElse(count, 1) \in 1..MaxDevices
      BY <1>0 DEF OrElse
    <3> QED
      BY <2>2, <3>1, SeveralIs DEF ChoiceOf, Unmetered, Single
  <2>4. sold \in [mode : Modes, count : 0..MaxDevices] /\ sold.mode \in Modes /\ sold.count \in 0..MaxDevices
    BY <1>0, <2>3 DEF ChoiceOf, Modes, Single, Unmetered
  <2>5. PICK price : price = MonthlyPrice(LegacyOption(code), code, sold.mode, sold.count)
    OBVIOUS
  <2>6. price = rules.base + IF mode = "unlimited" THEN rules.unlimitedDevices
                       ELSE IF mode = "custom" /\ count > 1 THEN (count - 1) * rules.devicePrice ELSE 0
    <3>1. price = rules.base + IF sold.mode = "unlimited" THEN rules.unlimitedDevices
                       ELSE IF sold.mode = "custom" /\ sold.count > 1 THEN (sold.count - 1) * rules.devicePrice ELSE 0
      BY <2>1, <2>4, <2>5, LegacyCosts
    <3>2. CASE mode = "unlimited"
      BY <2>3, <3>1, <3>2
    <3>3. CASE mode = "single"
      BY <2>2, <3>1, <3>3 DEF Single
    <3>4. CASE mode = "custom"
      <4>1. sold = IF count \in {0, 1} THEN Single ELSE [mode |-> "custom", count |-> count]
        BY <2>2, <3>4 DEF Several, OrElse
      <4> QED
        BY <1>0, <3>1, <3>4, <4>1 DEF Single
    <3> QED
      BY <3>2, <3>3, <3>4 DEF Modes
  <2>7. /\ rules.base \in Nat /\ rules.unlimitedDevices \in Nat /\ rules.devicePrice \in Nat
    BY <1>0 DEF RuleValues
  <2>8. price \in Nat
    <3>1. count > 1 => (count - 1) * rules.devicePrice \in Nat
      BY <1>0, <2>7
    <3> QED
      BY <2>6, <2>7, <3>1
  <2>9. ASSUME NEW selected \in Nat
        PROVE /\ Resolve(OptionOf(code), mode, count, selected).mode = sold.mode
              /\ Resolve(OptionOf(code), mode, count, selected).count = sold.count
              /\ PriceOf(code, mode, count, selected) = price
    <3>1. PICK what : what = Resolve(LegacyOption(code), mode, count, selected)
      OBVIOUS
    <3>2. what = [gb |-> code, mode |-> sold.mode, count |-> sold.count]
      BY <2>1, <2>2, <3>1, LegacySells
    <3> QED
      BY <2>1, <2>5, <3>1, <3>2 DEF PriceOf
  <2>10. mode \in {"single", "custom"} => price =
          IF code = RowCode /\ tariff # NoRow THEN OrElse(tariff.row.base, OrElse(tariff.row.single, rules.base))
          ELSE IF code = NoLimit THEN rules.combo
          ELSE rules.base + IF mode = "custom" /\ count > 1 THEN (count - 1) * rules.devicePrice ELSE 0
    BY <1>3, <2>6
  <2> QED
    BY <2>3, <2>4, <2>8, <2>9, <2>10 DEF Sells
<1> QED
  BY <1>1, <1>2, <1>3

\* A period of the plan is found, and it never gets shorter as more months are asked for.
LEMMA PeriodsOfOption ==
  ASSUME PriceListIsTyped, NEW code \in PackageCodes
  PROVE OptionOf(code).periods \in SUBSET (1..LongestPeriod) /\ OptionOf(code).periods # {}
<1> USE DEF PriceListIsTyped
<1>1. CASE code = RowCode /\ tariff # NoRow
  <2>1. PICK r \in RowValues : tariff.row = r
    BY <1>1, ListedRow
  <2>2. OptionOf(code).periods = IF r.periods # {} THEN r.periods ELSE 1..rules.maxMonths
    BY <1>1, <2>1 DEF OptionOf, OptionFromRow
  <2>3. r.periods \in SUBSET (1..LongestPeriod) /\ rules.maxMonths \in 1..LongestPeriod
    BY PriceListAssumption DEF RowValues, RuleValues
  <2>4. 1 \in 1..rules.maxMonths /\ 1..rules.maxMonths \subseteq 1..LongestPeriod
    BY <2>3 DEF LongestPeriod
  <2> QED
    BY <2>2, <2>3, <2>4
<1>2. CASE ~(code = RowCode /\ tariff # NoRow)
  BY <1>2 DEF OptionOf, LegacyOption, LongestPeriod
<1> QED
  BY <1>1, <1>2

Farness(asked, m) == IF m > asked THEN m - asked ELSE asked - m

LEMMA PeriodIs ==
  ASSUME NEW o, o.periods \in SUBSET (1..LongestPeriod), o.periods # {}, NEW months \in Nat \ {0}
  PROVE \E most \in o.periods : \E asked \in 1..LongestPeriod :
          /\ asked = IF months <= most THEN months ELSE most
          /\ \A n \in o.periods : n <= most
          /\ Period(o, months) \in o.periods
          /\ \A n \in o.periods \ {Period(o, months)} :
               \/ Farness(asked, Period(o, months)) < Farness(asked, n)
               \/ Farness(asked, Period(o, months)) = Farness(asked, n) /\ Period(o, months) < n
<1> USE DEF LongestPeriod
<1>1. \E m \in o.periods : \A n \in o.periods : n <= m
  BY HasGreatest
<1>2. PICK most \in o.periods : most = Max(o.periods) /\ \A n \in o.periods : n <= most
  <2>1. \E m \in o.periods : \A n \in o.periods : m >= n
    BY <1>1
  <2> QED
    BY <2>1 DEF Max
<1>3. PICK asked : asked = IF months <= most THEN months ELSE most
  OBVIOUS
<1>4. asked \in 1..LongestPeriod
  BY <1>2, <1>3
<1>5. Within(1, Max(o.periods), months) = asked
  <2>1. Min({most, months}) = asked
    BY <1>3, MinOfTwo
  <2>2. Max({1, asked}) = asked
    BY <1>4, MaxOfTwo
  <2> QED
    BY <1>2, <2>1, <2>2 DEF Within
<1> DEFINE Key(m) == 2 * Farness(asked, m) + IF m > asked THEN 1 ELSE 0
<1>6. \A m \in o.periods : Key(m) \in Nat
  BY <1>4 DEF Farness
<1>7. PICK T : T = {Key(m) : m \in o.periods}
  OBVIOUS
<1>8. T \in SUBSET Nat /\ T # {}
  BY <1>6, <1>7
<1>9. PICK k \in T : \A j \in T : k <= j
  BY <1>8, HasLeast
<1>10. PICK m \in o.periods : k = Key(m)
  BY <1>7, <1>9
<1>11. ASSUME NEW n \in o.periods \ {m}
       PROVE Farness(asked, m) < Farness(asked, n) \/ (Farness(asked, m) = Farness(asked, n) /\ m < n)
  <2>1. Key(m) <= Key(n)
    BY <1>7, <1>9, <1>10
  <2>2. n \in 1..12 /\ m \in 1..12 /\ n # m
    BY <1>10
  <2> QED
    BY <1>4, <2>1, <2>2 DEF Farness
<1>12. Period(o, months) =
         CHOOSE x \in o.periods : \A n \in o.periods \ {x} :
           Farness(asked, x) < Farness(asked, n) \/ (Farness(asked, x) = Farness(asked, n) /\ x < n)
  BY <1>5 DEF Period, Farness
<1>13. \E x \in o.periods : \A n \in o.periods \ {x} :
         Farness(asked, x) < Farness(asked, n) \/ (Farness(asked, x) = Farness(asked, n) /\ x < n)
  BY <1>10, <1>11
<1> HIDE DEF Key
<1>14. /\ Period(o, months) \in o.periods
       /\ \A n \in o.periods \ {Period(o, months)} :
               \/ Farness(asked, Period(o, months)) < Farness(asked, n)
               \/ Farness(asked, Period(o, months)) = Farness(asked, n) /\ Period(o, months) < n
  BY <1>12, <1>13
<1> QED
  BY <1>2, <1>3, <1>4, <1>14

LEMMA PeriodGrows ==
  ASSUME NEW o, o.periods \in SUBSET (1..LongestPeriod), o.periods # {},
         NEW a \in Nat \ {0}, NEW b \in Nat \ {0}, a <= b
  PROVE /\ Period(o, a) \in 1..LongestPeriod /\ Period(o, b) \in 1..LongestPeriod
        /\ Period(o, a) <= Period(o, b)
<1> USE DEF LongestPeriod
<1>1. PICK p : p = Period(o, a)
  OBVIOUS
<1>2. PICK q : q = Period(o, b)
  OBVIOUS
<1>3. PICK m1 \in o.periods : \E x \in 1..LongestPeriod :
          /\ x = IF a <= m1 THEN a ELSE m1
          /\ \A n \in o.periods : n <= m1
          /\ p \in o.periods
          /\ \A n \in o.periods \ {p} :
               Farness(x, p) < Farness(x, n) \/ (Farness(x, p) = Farness(x, n) /\ p < n)
  BY <1>1, PeriodIs
<1>4. PICK m2 \in o.periods : \E y \in 1..LongestPeriod :
          /\ y = IF b <= m2 THEN b ELSE m2
          /\ \A n \in o.periods : n <= m2
          /\ q \in o.periods
          /\ \A n \in o.periods \ {q} :
               Farness(y, q) < Farness(y, n) \/ (Farness(y, q) = Farness(y, n) /\ q < n)
  BY <1>2, PeriodIs
<1>5. PICK x \in 1..LongestPeriod :
          /\ x = IF a <= m1 THEN a ELSE m1
          /\ p \in o.periods
          /\ \A n \in o.periods \ {p} :
               Farness(x, p) < Farness(x, n) \/ (Farness(x, p) = Farness(x, n) /\ p < n)
  BY <1>3
<1>6. PICK y \in 1..LongestPeriod :
          /\ y = IF b <= m2 THEN b ELSE m2
          /\ q \in o.periods
          /\ \A n \in o.periods \ {q} :
               Farness(y, q) < Farness(y, n) \/ (Farness(y, q) = Farness(y, n) /\ q < n)
  BY <1>4
<1>7. p \in 1..12 /\ q \in 1..12 /\ m1 \in 1..12 /\ m2 \in 1..12 /\ m1 <= m2 /\ m2 <= m1
  BY <1>3, <1>4, <1>5, <1>6
<1>8. x <= y
  BY <1>5, <1>6, <1>7
<1>9. p <= q
  <2> SUFFICES ASSUME q < p PROVE FALSE
    BY <1>7
  <2>1. Farness(x, p) < Farness(x, q) \/ (Farness(x, p) = Farness(x, q) /\ p < q)
    BY <1>5, <1>6, <1>7
  <2>2. Farness(y, q) < Farness(y, p) \/ (Farness(y, q) = Farness(y, p) /\ q < p)
    BY <1>5, <1>6, <1>7
  <2> QED
    BY <1>7, <1>8, <2>1, <2>2 DEF Farness
<1> QED
  BY <1>1, <1>2, <1>7, <1>9

\* Two months in a row: what a longer period adds is more than what its discount takes.
LEMMA DiscountIs ==
  ASSUME rules \in RuleBook, NEW p \in 1..LongestPeriod
  PROVE \E most \in Nat : /\ most = rules.maxDiscount
                          /\ Discount(p) = IF 25 * (p - 1) <= most THEN 25 * (p - 1) ELSE most
                          /\ Discount(p) \in 0..275
<1>1. rules.maxDiscount \in Nat
  BY PriceListAssumption DEF RuleValues
<1>2. 25 * (p - 1) \in 0..275
  BY DEF LongestPeriod
<1>3. Discount(p) = IF 25 * (p - 1) <= rules.maxDiscount THEN 25 * (p - 1) ELSE rules.maxDiscount
  BY <1>1, <1>2, MinOfTwo DEF Discount
<1> QED
  BY <1>1, <1>2, <1>3

LEMMA Grows ==
  ASSUME NEW a \in Nat, NEW b \in Nat, NEW c \in Nat, NEW d \in Nat, a <= c, b <= d
  PROVE a * b <= c * d
<1>1. a * b <= c * b
  <2>1. (c - a) * b >= 0
    OBVIOUS
  <2> QED
    BY <2>1
<1>2. c * b <= c * d
  <2>1. c * (d - b) >= 0
    OBVIOUS
  <2> QED
    BY <2>1
<1> QED
  BY <1>1, <1>2

LEMMA ShareGrows ==
  ASSUME rules \in RuleBook, NEW p \in 1..LongestPeriod, NEW q \in 1..LongestPeriod, p <= q
  PROVE /\ p * (1000 - Discount(p)) \in Nat /\ q * (1000 - Discount(q)) \in Nat
        /\ p * (1000 - Discount(p)) <= q * (1000 - Discount(q))
<1> USE DEF LongestPeriod
<1>1. PICK most \in Nat : most = rules.maxDiscount
  BY PriceListAssumption DEF RuleValues
<1>2. PICK d : d = Discount(p)
  OBVIOUS
<1>3. PICK e : e = Discount(q)
  OBVIOUS
<1>4. /\ d \in 0..275 /\ d = IF 25 * (p - 1) <= most THEN 25 * (p - 1) ELSE most
      /\ e \in 0..275 /\ e = IF 25 * (q - 1) <= most THEN 25 * (q - 1) ELSE most
  BY <1>1, <1>2, <1>3, DiscountIs
<1>5. p * (1000 - d) \in Nat /\ q * (1000 - e) \in Nat
  <2>1. 1000 - d \in Nat /\ 1000 - e \in Nat /\ p \in Nat /\ q \in Nat
    BY <1>4
  <2> QED
    BY <2>1
<1>6. ASSUME d = e PROVE p * (1000 - d) <= q * (1000 - e)
  <2>1. 1000 - d \in Nat /\ 1000 - d <= 1000 - e /\ 1000 - e \in Nat /\ p \in Nat /\ q \in Nat
    BY <1>4, <1>6
  <2> QED
    BY <2>1, Grows
<1>7. ASSUME d # e PROVE p * (1000 - d) <= q * (1000 - e)
  <2>1. d = 25 * (p - 1) /\ e <= 25 * (q - 1)
    BY <1>4, <1>7
  <2>2. q * (1000 - 25 * (q - 1)) <= q * (1000 - e)
    <3>1. /\ 1000 - 25 * (q - 1) \in Nat /\ 1000 - e \in Nat /\ 1000 - 25 * (q - 1) <= 1000 - e
          /\ q \in Nat /\ q <= q
      BY <1>4, <2>1
    <3> QED
      BY <3>1, Grows
  <2>3. p * (1000 - 25 * (p - 1)) <= q * (1000 - 25 * (q - 1))
    <3>1. p \in {1, 2, 3, 4, 5, 6, 7, 8, 9, 10, 11, 12}
      OBVIOUS
    <3>2. q \in {1, 2, 3, 4, 5, 6, 7, 8, 9, 10, 11, 12}
      OBVIOUS
    <3> QED
      BY <3>1, <3>2
  <2>4. d = 25 * (p - 1) /\ q * (1000 - 25 * (q - 1)) \in Int /\ p * (1000 - d) \in Int /\ q * (1000 - e) \in Int
    BY <1>5, <2>1
  <2>5. p * (1000 - d) = p * (1000 - 25 * (p - 1))
    BY <2>4
  <2> QED
    BY <2>2, <2>3, <2>4, <2>5
<1> QED
  BY <1>2, <1>3, <1>5, <1>6, <1>7

LEMMA TotalGrows ==
  ASSUME rules \in RuleBook, NEW p \in 1..LongestPeriod, NEW q \in 1..LongestPeriod, p <= q,
         NEW a \in Nat, NEW b \in Nat, a <= b
  PROVE /\ HalfUp(a * p * (1000 - Discount(p)), 1000) \in Nat
        /\ HalfUp(a * p * (1000 - Discount(p)), 1000) <= HalfUp(b * q * (1000 - Discount(q)), 1000)
<1>1. PICK d \in 0..275 : d = Discount(p)
  BY DiscountIs
<1>2. PICK e \in 0..275 : e = Discount(q)
  BY DiscountIs
<1>3. p * (1000 - d) \in Nat /\ q * (1000 - e) \in Nat /\ p * (1000 - d) <= q * (1000 - e)
  BY <1>1, <1>2, ShareGrows
<1>4. PICK s \in Nat : s = p * (1000 - d)
  BY <1>3
<1>5. PICK t \in Nat : t = q * (1000 - e)
  BY <1>3
<1>6. a * p * (1000 - d) = a * s /\ b * q * (1000 - e) = b * t
  BY <1>4, <1>5 DEF LongestPeriod
<1>7. a * s \in Nat /\ b * t \in Nat /\ a * s <= b * t
  BY <1>3, <1>4, <1>5, Grows
<1>8. PICK n \in Nat : n = a * s
  BY <1>7
<1>9. PICK k \in Nat : k = b * t
  BY <1>7
<1>10. HalfUp(n, 1000) \in Nat /\ HalfUp(n, 1000) <= HalfUp(k, 1000)
  BY <1>7, <1>8, <1>9 DEF HalfUp
<1> QED
  BY <1>1, <1>2, <1>6, <1>8, <1>9, <1>10

LEMMA TotalIs ==
  ASSUME NEW code, NEW mode, NEW count, NEW months, NEW selected
  PROVE LET period == Period(OptionOf(code), months)
        IN Basket(code, mode, count, months, selected).total =
             HalfUp(PriceOf(code, mode, count, selected) * period * (1000 - Discount(period)), 1000)
  BY DEF Basket, PriceOf

\* The basket of a choice does not depend on the traffic that was named.
BasketType ==
  [total : Nat, months : 1..LongestPeriod, mode : Modes, count : 0..MaxDevices, discount : 0..275]

Bills(code, mode, count, months, b) ==
  /\ \/ b.mode = "single" /\ b.count = 1
     \/ b.mode = "unlimited" /\ b.count = 0
     \/ b.mode = "custom" /\ b.count \in 2..MaxDevices
  /\ mode = "unlimited" => b.mode = "unlimited"
  /\ \A selected \in Nat :
       LET basket == Basket(code, mode, count, months, selected)
       IN /\ basket.total = b.total /\ basket.months = b.months /\ basket.mode = b.mode
          /\ basket.count = b.count /\ basket.discount = b.discount

LEMMA BasketIs ==
  ASSUME PriceListIsTyped, NEW code \in PackageCodes, NEW mode \in Modes, NEW count \in 0..MaxDevices,
         NEW months \in Nat \ {0}
  PROVE \E b \in BasketType : Bills(code, mode, count, months, b)
<1>1. PICK sold \in [mode : Modes, count : 0..MaxDevices], price \in Nat : Sells(code, mode, count, sold, price)
  BY SoldBy
<1>2. /\ \A selected \in Nat :
           /\ Resolve(OptionOf(code), mode, count, selected).mode = sold.mode
           /\ Resolve(OptionOf(code), mode, count, selected).count = sold.count
           /\ PriceOf(code, mode, count, selected) = price
      /\ ChoiceOf(sold)
      /\ mode = "unlimited" => sold.mode = "unlimited"
  BY <1>1 DEF Sells
<1>3. PICK p \in 1..LongestPeriod : p = Period(OptionOf(code), months)
  <2>1. OptionOf(code).periods \in SUBSET (1..LongestPeriod) /\ OptionOf(code).periods # {}
    BY PeriodsOfOption
  <2> QED
    BY <2>1, PeriodGrows
<1>4. PICK d \in 0..275 : d = Discount(p)
  BY DiscountIs DEF PriceListIsTyped
<1>5. PICK total \in Nat : total = HalfUp(price * p * (1000 - d), 1000)
  BY <1>4, TotalGrows DEF PriceListIsTyped
<1>6. PICK b : b = [total |-> total, months |-> p, mode |-> sold.mode, count |-> sold.count, discount |-> d]
  OBVIOUS
<1>7. /\ b \in BasketType
      /\ b.mode = sold.mode /\ b.count = sold.count /\ b.months = p /\ b.total = total /\ b.discount = d
  BY <1>6 DEF BasketType
<1>8. \/ b.mode = "single" /\ b.count = 1
      \/ b.mode = "unlimited" /\ b.count = 0
      \/ b.mode = "custom" /\ b.count \in 2..MaxDevices
  BY <1>2, <1>7 DEF ChoiceOf, Single, Unmetered
<1>9. ASSUME NEW selected \in Nat
      PROVE LET basket == Basket(code, mode, count, months, selected)
            IN /\ basket.total = b.total /\ basket.months = b.months /\ basket.mode = b.mode
               /\ basket.count = b.count /\ basket.discount = b.discount
  <2>1. Basket(code, mode, count, months, selected).total = total
    BY <1>2, <1>3, <1>4, <1>5, TotalIs
  <2>2. /\ Basket(code, mode, count, months, selected).months = p
        /\ Basket(code, mode, count, months, selected).mode = sold.mode
        /\ Basket(code, mode, count, months, selected).count = sold.count
        /\ Basket(code, mode, count, months, selected).discount = d
    BY <1>2, <1>3, <1>4 DEF Basket
  <2> QED
    BY <1>7, <2>1, <2>2
<1> QED
  BY <1>2, <1>7, <1>8, <1>9 DEF Bills

LEMMA DearerDevices ==
  ASSUME PriceListIsTyped, NEW code \in PackageCodes, NEW selected \in Nat, NEW n \in 1..(MaxDevices - 1)
  PROVE LET first == PriceOf(code, IF n = 1 THEN "single" ELSE "custom", n, selected)
            more == PriceOf(code, "custom", n + 1, selected)
        IN first \in Nat /\ more \in Nat /\ first <= more
<1>1. MaxDevices \in Nat /\ n \in 0..MaxDevices /\ n + 1 \in 0..MaxDevices /\ n + 1 > 1 /\ n \in Nat
  BY MaxDevicesAssumption
<1>2. PICK mode \in {"single", "custom"} : mode = IF n = 1 THEN "single" ELSE "custom"
  OBVIOUS
<1>3. PICK first \in Nat :
        /\ first = PriceOf(code, mode, n, selected)
        /\ first = IF code = RowCode /\ tariff # NoRow
                         THEN OrElse(tariff.row.base, OrElse(tariff.row.single, rules.base))
                       ELSE IF code = NoLimit THEN rules.combo
                       ELSE rules.base + IF mode = "custom" /\ n > 1 THEN (n - 1) * rules.devicePrice ELSE 0
  <2>1. mode \in Modes
    BY <1>2 DEF Modes
  <2>2. PICK sold \in [mode : Modes, count : 0..MaxDevices], price \in Nat : Sells(code, mode, n, sold, price)
    BY <1>1, <2>1, SoldBy
  <2> QED
    BY <2>2 DEF Sells
<1>4. PICK more \in Nat :
        /\ more = PriceOf(code, "custom", n + 1, selected)
        /\ more = IF code = RowCode /\ tariff # NoRow
                         THEN OrElse(tariff.row.base, OrElse(tariff.row.single, rules.base))
                       ELSE IF code = NoLimit THEN rules.combo
                       ELSE rules.base + (n + 1 - 1) * rules.devicePrice
  <2>1. "custom" \in Modes
    BY DEF Modes
  <2>2. PICK sold \in [mode : Modes, count : 0..MaxDevices], price \in Nat : Sells(code, "custom", n + 1, sold, price)
    BY <1>1, <2>1, SoldBy
  <2> QED
    BY <1>1, <2>2 DEF Sells
<1>5. PICK price \in Nat : price = rules.devicePrice
  BY PriceListAssumption DEF PriceListIsTyped, RuleValues
<1>6. PICK base \in Nat : base = rules.base
  BY PriceListAssumption DEF PriceListIsTyped, RuleValues
<1>7. first <= more
  <2>1. CASE (code = RowCode /\ tariff # NoRow) \/ code = NoLimit
    BY <1>3, <1>4, <2>1
  <2>2. CASE ~(code = RowCode /\ tariff # NoRow) /\ code # NoLimit
    <3>1. more = base + n * price
      BY <1>1, <1>4, <1>5, <1>6, <2>2
    <3>2. first = base + (n - 1) * price
      BY <1>1, <1>2, <1>3, <1>5, <1>6, <2>2
    <3>3. n * price = (n - 1) * price + price
      BY <1>1
    <3>4. (n - 1) * price \in Int
      BY <1>1
    <3> QED
      BY <3>1, <3>2, <3>3, <3>4
  <2> QED
    BY <2>1, <2>2
<1> QED
  BY <1>2, <1>3, <1>4, <1>7

LEMMA PricesGrow ==
  ASSUME PriceListIsTyped, screen.code \in PackageCodes, screen.mode \in Modes, screen.count \in 0..MaxDevices,
         screen.months \in 1..LongestPeriod
  PROVE MoreNeverCostsLess
<1> DEFINE Costs(mode, count, months) == Basket(screen.code, mode, count, months, screen.code).total
<1>1. PICK code : code = screen.code
  OBVIOUS
<1>2. PICK o : o = OptionOf(code)
  OBVIOUS
<1>3. code \in Nat /\ code \in PackageCodes /\ MaxDevices \in Nat /\ MaxDevices >= 2
  BY <1>1, CodesAreNumbers, MaxDevicesAssumption
<1>4. o.periods \in SUBSET (1..LongestPeriod) /\ o.periods # {}
  BY <1>2, <1>3, PeriodsOfOption
<1>5. rules \in RuleBook /\ rules.maxMonths \in 1..LongestPeriod
  BY PriceListAssumption DEF PriceListIsTyped, RuleValues
<1>6. ASSUME NEW months \in Nat \ {0}
      PROVE Costs(screen.mode, screen.count, months) <= Costs(screen.mode, screen.count, months + 1)
  <2>1. PICK sold \in [mode : Modes, count : 0..MaxDevices], price \in Nat :
               Sells(code, screen.mode, screen.count, sold, price)
    BY <1>3, SoldBy
  <2>2. PriceOf(code, screen.mode, screen.count, code) = price
    BY <1>3, <2>1 DEF Sells
  <2>3. PICK p \in 1..LongestPeriod : p = Period(o, months)
    BY <1>4, PeriodGrows
  <2>4. PICK q \in 1..LongestPeriod : q = Period(o, months + 1)
    BY <1>4, PeriodGrows
  <2>5. p <= q
    BY <1>4, <2>3, <2>4, PeriodGrows
  <2>6. /\ Costs(screen.mode, screen.count, months) = HalfUp(price * p * (1000 - Discount(p)), 1000)
        /\ Costs(screen.mode, screen.count, months + 1) = HalfUp(price * q * (1000 - Discount(q)), 1000)
    BY <1>1, <1>2, <2>2, <2>3, <2>4, TotalIs
  <2> QED
    BY <1>5, <2>5, <2>6, TotalGrows
<1>7. ASSUME NEW n \in 1..(MaxDevices - 1)
      PROVE Costs(IF n = 1 THEN "single" ELSE "custom", n, screen.months) <= Costs("custom", n + 1, screen.months)
  <2>1. PICK first \in Nat : first = PriceOf(code, IF n = 1 THEN "single" ELSE "custom", n, code)
    BY <1>3, DearerDevices
  <2>2. PICK more \in Nat : more = PriceOf(code, "custom", n + 1, code)
    BY <1>3, DearerDevices
  <2>3. first <= more
    BY <1>3, <2>1, <2>2, DearerDevices
  <2>4. PICK p \in 1..LongestPeriod : p = Period(o, screen.months)
    BY <1>4, PeriodGrows DEF LongestPeriod
  <2>5. /\ Costs(IF n = 1 THEN "single" ELSE "custom", n, screen.months) = HalfUp(first * p * (1000 - Discount(p)), 1000)
        /\ Costs("custom", n + 1, screen.months) = HalfUp(more * p * (1000 - Discount(p)), 1000)
    BY <1>1, <1>2, <2>1, <2>2, <2>4, TotalIs
  <2> QED
    BY <1>5, <2>3, <2>5, TotalGrows
<1> HIDE DEF Costs
<1>8. \A months \in 1..rules.maxMonths :
        Costs(screen.mode, screen.count, months) <= Costs(screen.mode, screen.count, months + 1)
  BY <1>5, <1>6
<1>9. Costs("single", 1, screen.months) <= Costs("custom", 2, screen.months)
  <2>1. 1 \in 1..(MaxDevices - 1) /\ 1 + 1 = 2
    BY <1>3
  <2> QED
    BY <1>7, <2>1
<1>10. \A n \in 2..(MaxDevices - 1) : Costs("custom", n, screen.months) <= Costs("custom", n + 1, screen.months)
  <2> SUFFICES ASSUME NEW n \in 2..(MaxDevices - 1)
               PROVE Costs("custom", n, screen.months) <= Costs("custom", n + 1, screen.months)
    OBVIOUS
  <2>1. n \in 1..(MaxDevices - 1) /\ n # 1
    BY <1>3
  <2> QED
    BY <1>7, <2>1
<1> QED
  BY <1>8, <1>9, <1>10 DEF MoreNeverCostsLess, Costs

-----------------------------------------------------------------------------
(* The dialogue.                                                           *)

Places == {"menu", "devices", "count", "traffic", "months", "packs", "device", "amount", "bill"}
ScreenType ==
  [at : Places, code : PackageCodes, mode : Modes, count : 0..MaxDevices, months : 1..LongestPeriod,
   most : 1..LongestPeriod, early : BOOLEAN, renewal : BOOLEAN, shown : Texts, fresh : BOOLEAN,
   asked : Texts, honest : BOOLEAN, delivers : Nat]
ServiceType ==
  [alive : BOOLEAN, trial : BOOLEAN, code : PackageCodes, gb : Nat, mode : Modes, count : 0..MaxDevices,
   left : 0..Cycle]

ShopTypes ==
  /\ PriceListIsTyped
  /\ pack \in [price : Nat, enabled : BOOLEAN] \cup {NoPack}
  /\ upsell \in Upsells
  /\ screen \in ScreenType /\ service \in ServiceType /\ amount \in Nat

\* A count that goes with a mode, and a code without a limit only for any number of devices.
Agree(code, mode, count) ==
  /\ code = NoLimit => mode = "unlimited"
  /\ mode = "custom" => count \in 2..MaxDevices

\* What a screen says, as long as nothing has changed, is what the state makes of its
\* buttons; what a bill sells can be put on a service.
ScreenFits(s) ==
  /\ s.at = "count" => s.count \in 2..MaxDevices
  /\ s.at \in {"traffic", "months"} => Agree(s.code, s.mode, s.count)
  /\ s.at = "months" =>
       /\ s.shown.kind = "tariff"
       /\ s.fresh => s.months <= rules.maxMonths /\ s.shown = MonthsText(s.code, s.mode, s.count, s.months, s.code)
  /\ s.at = "packs" =>
       /\ s.shown.kind = "pack"
       /\ s.fresh => /\ pack # NoPack /\ s.shown.total = pack.price
                     /\ s.shown.months = 0 /\ s.shown.mode = "single" /\ s.shown.count = 0
  /\ s.at = "device" =>
       /\ s.shown.kind = "device"
       /\ s.fresh => service # NoService /\ s.shown = DeviceQuote
  /\ s.at = "amount" =>
       /\ s.shown.kind = "balance" /\ s.shown.months = 0 /\ s.shown.mode = "single" /\ s.shown.count = 0
       /\ s.fresh => rules.minTopup <= s.shown.total
  /\ s.at = "bill" =>
       /\ s.shown.kind # "none"
       /\ s.honest => /\ s.shown.kind = s.asked.kind /\ s.shown.total = s.asked.total
                      /\ s.shown.months = s.asked.months /\ s.shown.mode = s.asked.mode
                      /\ s.shown.count = s.asked.count
       /\ s.shown.kind = "tariff" =>
            /\ Agree(s.code, s.shown.mode, s.shown.count)
            /\ s.shown.mode = "single" => s.shown.count = 1
       /\ s.shown.kind = "device" =>
            /\ service # NoService /\ ~service.trial /\ service.code # NoLimit
            /\ s.shown.count \in 2..MaxDevices

ServiceFits ==
  service # NoService /\ ~service.trial =>
    /\ Agree(service.code, service.mode, service.count)
    /\ service.mode = "single" => service.count = 1

ShopInv == ShopTypes /\ ScreenFits(screen) /\ ServiceFits

LEMMA SilentIs == Silent \in Texts
  BY MaxDevicesAssumption DEF Silent, Texts, Modes

LEMMA SmallestIs == Smallest \in Packages /\ Smallest \in PackageCodes
<1>1. Packages \in SUBSET Nat /\ Packages # {}
  BY PackagesAssumption
<1>2. \E m \in Packages : \A n \in Packages : m <= n
  BY <1>1, HasLeast
<1> QED
  BY <1>2 DEF Smallest, Min, PackageCodes

\* What a text names does not depend on which traffic was named.
LEMMA TextIs ==
  ASSUME PriceListIsTyped, NEW code \in PackageCodes, NEW mode \in Modes, NEW count \in 0..MaxDevices,
         NEW months \in 1..LongestPeriod, NEW selected \in Nat
  PROVE /\ MonthsText(code, mode, count, months, selected) \in Texts
        /\ MonthsText(code, mode, count, months, selected).kind = "tariff"
        /\ MonthsText(code, mode, count, months, selected) = MonthsText(code, mode, count, months, code)
<1>1. PICK m \in Modes : m = IF code = NoLimit THEN "unlimited" ELSE mode
  BY DEF Modes
<1>2. months \in Nat \ {0}
  BY DEF LongestPeriod
<1>3. PICK b \in BasketType : Bills(code, m, count, months, b)
  BY <1>2, BasketIs
<1>4. \A sel \in Nat :
        MonthsText(code, mode, count, months, sel) =
          [kind |-> "tariff", total |-> b.total, months |-> months, mode |-> b.mode,
           count |-> b.count, discount |-> b.discount]
  BY <1>1, <1>3 DEF MonthsText, Bills
<1>5. code \in Nat
  BY CodesAreNumbers
<1>6. [kind |-> "tariff", total |-> b.total, months |-> months, mode |-> b.mode,
       count |-> b.count, discount |-> b.discount] \in Texts
  BY <1>2 DEF Texts, BasketType
<1> QED
  BY <1>4, <1>5, <1>6

\* Nothing a text names depends on more than the price list.
LEMMA TextStays ==
  ASSUME UNCHANGED tariffVars, NEW code, NEW mode, NEW count, NEW months, NEW selected
  PROVE MonthsText(code, mode, count, months, selected)' = MonthsText(code, mode, count, months, selected)
<1>1. rules' = rules /\ tariff' = tariff
  BY DEF tariffVars
<1>2. PICK o : o = OptionOf(code)
  OBVIOUS
<1>3. OptionOf(code)' = o
  BY <1>1, <1>2 DEF OptionOf, OptionFromRow
<1>4. PICK m : m = IF code = NoLimit THEN "unlimited" ELSE mode
  OBVIOUS
<1>5. PICK what : what = Resolve(o, m, count, selected)
  OBVIOUS
<1>6. PICK p : p = Period(o, months)
  OBVIOUS
<1>7. Discount(p)' = Discount(p)
  BY <1>1 DEF Discount
<1>8. MonthlyPrice(o, what.gb, what.mode, what.count)' = MonthlyPrice(o, what.gb, what.mode, what.count)
  BY <1>1 DEF MonthlyPrice
<1>9. Basket(code, m, count, months, selected) =
        [months |-> p, gb |-> what.gb, mode |-> what.mode, count |-> what.count, discount |-> Discount(p),
         total |-> HalfUp(MonthlyPrice(o, what.gb, what.mode, what.count) * p * (1000 - Discount(p)), 1000)]
  BY <1>2, <1>5, <1>6 DEF Basket
<1>10. Basket(code, m, count, months, selected)' =
        [months |-> p, gb |-> what.gb, mode |-> what.mode, count |-> what.count, discount |-> Discount(p)',
         total |-> HalfUp(MonthlyPrice(o, what.gb, what.mode, what.count)' * p * (1000 - Discount(p)'), 1000)]
  BY <1>3, <1>5, <1>6 DEF Basket
<1> QED
  BY <1>4, <1>7, <1>8, <1>9, <1>10 DEF MonthsText

LEMMA QuoteStays ==
  ASSUME UNCHANGED <<tariffVars, service>>
  PROVE DeviceQuote' = DeviceQuote
<1>1. rules' = rules /\ tariff' = tariff /\ upsell' = upsell /\ service' = service
  BY DEF tariffVars
<1>2. DevicePrice(service.code, service.left, Cycle)' = DevicePrice(service.code, service.left, Cycle)
  BY <1>1 DEF DevicePrice
<1> QED
  BY <1>1, <1>2 DEF DeviceQuote

\* A step that draws a screen keeps the invariant if the screen fits what is there.
LEMMA ShowKeeps ==
  ASSUME ShopInv, NEW s \in ScreenType, ScreenFits(s), screen' = s, amount' \in Nat,
         UNCHANGED <<tariffVars, service>>
  PROVE ShopInv'
<1>1. rules' = rules /\ tariff' = tariff /\ upsell' = upsell /\ pack' = pack /\ service' = service
  BY DEF tariffVars
<1>2. ShopTypes'
  BY <1>1 DEF ShopInv, ShopTypes, PriceListIsTyped
<1>3. MonthsText(s.code, s.mode, s.count, s.months, s.code)' = MonthsText(s.code, s.mode, s.count, s.months, s.code)
  <2>1. PICK code, mode, count, months : code = s.code /\ mode = s.mode /\ count = s.count /\ months = s.months
    OBVIOUS
  <2>2. MonthsText(code, mode, count, months, code)' = MonthsText(code, mode, count, months, code)
    BY TextStays
  <2> QED
    BY <2>1, <2>2
<1>4. DeviceQuote' = DeviceQuote
  BY QuoteStays
<1>5. ScreenFits(s)'
  BY <1>1, <1>3, <1>4 DEF ScreenFits, Agree
<1>6. ServiceFits'
  BY <1>1 DEF ShopInv, ServiceFits, Agree
<1> QED
  BY <1>2, <1>5, <1>6 DEF ShopInv

LEMMA MonthsScreenFits ==
  ASSUME ShopTypes, NEW code \in PackageCodes, NEW mode \in Modes, NEW count \in 0..MaxDevices,
         NEW months \in 1..rules.maxMonths, NEW early \in BOOLEAN, NEW renewal \in BOOLEAN, NEW selected \in Nat,
         Agree(code, mode, count)
  PROVE LET s == MonthsScreen(code, mode, count, months, early, renewal, selected)
        IN s \in ScreenType /\ ScreenFits(s)
<1>1. rules.maxMonths \in 1..LongestPeriod /\ months \in 1..LongestPeriod /\ months <= rules.maxMonths
  BY PriceListAssumption DEF ShopTypes, PriceListIsTyped, RuleValues, LongestPeriod
<1>2. PICK text \in Texts : /\ text = MonthsText(code, mode, count, months, selected)
                            /\ text = MonthsText(code, mode, count, months, code)
                            /\ text.kind = "tariff"
  BY <1>1, TextIs DEF ShopTypes
<1>3. PICK s : s = MonthsScreen(code, mode, count, months, early, renewal, selected)
  OBVIOUS
<1>4. s = [at |-> "months", code |-> code, mode |-> mode, count |-> count, months |-> months,
           most |-> rules.maxMonths, early |-> early, renewal |-> renewal, shown |-> text, fresh |-> TRUE,
           asked |-> Silent, honest |-> FALSE, delivers |-> 0]
  BY <1>2, <1>3 DEF MonthsScreen, Screen
<1>5. s \in ScreenType
  BY <1>1, <1>4, SilentIs DEF ScreenType, Places
<1>6. ScreenFits(s)
  BY <1>1, <1>2, <1>4 DEF ScreenFits
<1> QED
  BY <1>3, <1>5, <1>6

\* A screen without a price.
LEMMA QuietScreenFits ==
  ASSUME NEW at \in {"menu", "devices", "count", "traffic"}, NEW code \in PackageCodes, NEW mode \in Modes,
         NEW count \in 0..MaxDevices, NEW early \in BOOLEAN, NEW renewal \in BOOLEAN,
         at = "count" => count \in 2..MaxDevices, at = "traffic" => Agree(code, mode, count)
  PROVE LET s == Screen(at, code, mode, count, 1, 1, early, renewal, Silent)
        IN s \in ScreenType /\ ScreenFits(s)
<1>1. PICK s : s = Screen(at, code, mode, count, 1, 1, early, renewal, Silent)
  OBVIOUS
<1>2. s = [at |-> at, code |-> code, mode |-> mode, count |-> count, months |-> 1, most |-> 1,
           early |-> early, renewal |-> renewal, shown |-> Silent, fresh |-> TRUE,
           asked |-> Silent, honest |-> FALSE, delivers |-> 0]
  BY <1>1 DEF Screen
<1>3. s \in ScreenType
  BY <1>2, SilentIs DEF ScreenType, Places, LongestPeriod
<1>4. ScreenFits(s)
  BY <1>2 DEF ScreenFits
<1> QED
  BY <1>1, <1>3, <1>4

LEMMA ModesAre == "single" \in Modes /\ "custom" \in Modes /\ "unlimited" \in Modes
  BY DEF Modes

LEMMA MenuFits == Menu \in ScreenType /\ ScreenFits(Menu)
<1>1. PICK no \in BOOLEAN : no = FALSE
  OBVIOUS
<1>2. Menu = Screen("menu", Smallest, "single", 0, 1, 1, no, no, Silent)
  BY <1>1 DEF Menu
<1>3. 0 \in 0..MaxDevices
  BY MaxDevicesAssumption
<1> QED
  BY <1>2, <1>3, QuietScreenFits, SmallestIs, ModesAre

LEMMA DevicesScreenFits ==
  ASSUME NEW early \in BOOLEAN, NEW renewal \in BOOLEAN
  PROVE DevicesScreen(early, renewal) \in ScreenType /\ ScreenFits(DevicesScreen(early, renewal))
  BY QuietScreenFits, SmallestIs, ModesAre, MaxDevicesAssumption DEF DevicesScreen

LEMMA CountScreenFits ==
  ASSUME ShopTypes, NEW count \in 2..MaxDevices
  PROVE CountScreen(count) \in ScreenType /\ ScreenFits(CountScreen(count))
<1>1. /\ screen.code \in PackageCodes /\ screen.early \in BOOLEAN /\ screen.renewal \in BOOLEAN
      /\ count \in 0..MaxDevices
  BY MaxDevicesAssumption DEF ShopTypes, ScreenType
<1> QED
  BY <1>1, QuietScreenFits, ModesAre DEF CountScreen

LEMMA TrafficScreenFits ==
  ASSUME ShopTypes, NEW code \in PackageCodes, NEW mode \in Modes, NEW count \in 0..MaxDevices,
         Agree(code, mode, count)
  PROVE TrafficScreen(code, mode, count) \in ScreenType /\ ScreenFits(TrafficScreen(code, mode, count))
<1>1. screen.early \in BOOLEAN /\ screen.renewal \in BOOLEAN
  BY DEF ShopTypes, ScreenType
<1> QED
  BY <1>1, QuietScreenFits DEF TrafficScreen

-----------------------------------------------------------------------------
(* One lemma for each kind of step.                                        *)

LEMMA LevelsOfTraffic == Less(screen.code) \in PackageCodes /\ More(screen.code) \in PackageCodes
<1>1. /\ Packages \in SUBSET Nat /\ Packages # {} /\ IsFiniteSet(Packages)
  BY PackagesAssumption
<1>2. PICK most \in Packages : \A n \in Packages : n <= most
  <2>1. \E m \in Packages : \A n \in Packages : n <= m
    BY <1>1, HasGreatestFinite
  <2> QED
    BY <2>1
<1>3. \A S \in SUBSET Packages : S # {} => Max(S) \in S /\ Min(S) \in S
  <2> SUFFICES ASSUME NEW S \in SUBSET Packages, S # {} PROVE Max(S) \in S /\ Min(S) \in S
    OBVIOUS
  <2>1. S \in SUBSET Nat /\ most \in Nat /\ \A n \in S : n <= most
    BY <1>1, <1>2
  <2>2. \E m \in S : \A n \in S : m >= n
    <3>1. \E m \in S : \A n \in S : n <= m
      BY <2>1, HasGreatest
    <3> QED
      BY <2>1, <3>1
  <2>3. \E m \in S : \A n \in S : m <= n
    BY <2>1, HasLeast
  <2>4. Max(S) \in S
    BY <2>2 DEF Max
  <2>5. Min(S) \in S
    BY <2>3 DEF Min
  <2> QED
    BY <2>4, <2>5
<1>4. Smallest \in Packages
  BY SmallestIs
<1>5. Max(Packages) \in Packages
  BY <1>1, <1>3
<1>6. Max({p \in Packages : p < screen.code} \cup {Smallest}) \in Packages
  <2>1. {p \in Packages : p < screen.code} \cup {Smallest} \in SUBSET Packages
    BY <1>4
  <2> QED
    BY <1>3, <2>1
<1>7. Min({p \in Packages : p > screen.code} \cup {Max(Packages)}) \in Packages
  <2>1. {p \in Packages : p > screen.code} \cup {Max(Packages)} \in SUBSET Packages
    BY <1>5
  <2> QED
    BY <1>3, <2>1
<1> QED
  BY <1>5, <1>6, <1>7, CodesAreNumbers DEF Less, More, PackageCodes

LEMMA ChoosingKeeps ==
  ASSUME ShopInv,
         \/ BuyNew
         \/ \E mode \in Modes : ChooseMode(mode)
         \/ \E d \in {-1, 1} : SetCount(d)
         \/ ConfirmCount
         \/ \E code \in {Less(screen.code), More(screen.code), NoLimit} : SetTraffic(code)
         \/ BackToDevices
         \/ BillIsDropped
  PROVE ShopInv'
<1>1. /\ ShopTypes /\ ScreenFits(screen) /\ screen.code \in PackageCodes /\ screen.mode \in Modes
      /\ screen.count \in 0..MaxDevices /\ screen.early \in BOOLEAN /\ screen.renewal \in BOOLEAN
  BY DEF ShopInv, ShopTypes, ScreenType
<1>2. MaxDevices \in Nat /\ MaxDevices >= 2 /\ 0 \in Nat
  BY MaxDevicesAssumption
<1>3. ASSUME NEW s, s \in ScreenType /\ ScreenFits(s), Show(s) PROVE ShopInv'
  <2>1. screen' = s /\ amount' \in Nat /\ UNCHANGED <<tariffVars, service>>
    BY <1>2, <1>3 DEF Show
  <2> QED
    BY <1>3, <2>1, ShowKeeps
<1>4. CASE BuyNew
  <2>1. PICK no \in BOOLEAN : no = FALSE
    OBVIOUS
  <2>2. Show(DevicesScreen(no, no))
    BY <1>4, <2>1 DEF BuyNew
  <2> QED
    BY <1>3, <2>2, DevicesScreenFits
<1>5. ASSUME NEW mode \in Modes, ChooseMode(mode) PROVE ShopInv'
  <2>1. \/ Show(CountScreen(2)) \/ Show(TrafficScreen(Smallest, "single", 1))
        \/ Show(TrafficScreen(NoLimit, "unlimited", 0))
    BY <1>5 DEF ChooseMode
  <2>2. Agree(Smallest, "single", 1) /\ Agree(NoLimit, "unlimited", 0)
    <3>1. Smallest # NoLimit
      BY SmallestIs, PackagesAssumption DEF NoLimit
    <3> QED
      BY <3>1 DEF Agree
  <2>3. 2 \in 2..MaxDevices /\ 1 \in 0..MaxDevices /\ 0 \in 0..MaxDevices
    BY <1>2
  <2>4. CASE Show(CountScreen(2))
    BY <1>1, <1>3, <2>3, <2>4, CountScreenFits
  <2>5. CASE Show(TrafficScreen(Smallest, "single", 1))
    BY <1>1, <1>3, <2>2, <2>3, <2>5, SmallestIs, ModesAre, TrafficScreenFits
  <2>6. CASE Show(TrafficScreen(NoLimit, "unlimited", 0))
    BY <1>1, <1>3, <2>2, <2>3, <2>6, CodesAreNumbers, ModesAre, TrafficScreenFits
  <2> QED
    BY <2>1, <2>4, <2>5, <2>6
<1>6. ASSUME NEW d \in {-1, 1}, SetCount(d) PROVE ShopInv'
  <2>1. Within(2, MaxDevices, screen.count + d) \in 2..MaxDevices
    <3>1. PICK n \in Int : n = screen.count + d
      BY <1>1, <1>2
    <3>2. Within(2, MaxDevices, n) \in 2..MaxDevices
      BY <1>2, WithinIs
    <3> QED
      BY <3>1, <3>2
  <2> QED
    BY <1>1, <1>3, <1>6, <2>1, CountScreenFits DEF SetCount
<1>7. CASE ConfirmCount
  <2>1. At("count") /\ Show(TrafficScreen(Smallest, "custom", screen.count))
    BY <1>7 DEF ConfirmCount
  <2>2. Agree(Smallest, "custom", screen.count)
    <3>1. Smallest # NoLimit
      BY SmallestIs, PackagesAssumption DEF NoLimit
    <3> QED
      BY <1>1, <2>1, <3>1 DEF Agree, ScreenFits, At
  <2> QED
    BY <1>1, <1>3, <2>1, <2>2, SmallestIs, ModesAre, TrafficScreenFits
<1>8. ASSUME NEW code \in {Less(screen.code), More(screen.code), NoLimit}, SetTraffic(code) PROVE ShopInv'
  <2>1. code \in PackageCodes
    BY LevelsOfTraffic, CodesAreNumbers
  <2>2. CASE code = NoLimit
    <3>1. Show(TrafficScreen(code, "unlimited", 0))
      BY <1>8, <2>2 DEF SetTraffic
    <3>2. Agree(code, "unlimited", 0) /\ 0 \in 0..MaxDevices
      BY <1>2 DEF Agree
    <3> QED
      BY <1>1, <1>3, <2>1, <3>1, <3>2, ModesAre, TrafficScreenFits
  <2>3. CASE code # NoLimit
    <3>1. At("traffic") /\ Show(TrafficScreen(code, screen.mode, screen.count))
      BY <1>8, <2>3 DEF SetTraffic
    <3>2. Agree(code, screen.mode, screen.count)
      BY <1>1, <2>3, <3>1 DEF Agree, ScreenFits, At
    <3> QED
      BY <1>1, <1>3, <2>1, <3>1, <3>2, TrafficScreenFits
  <2> QED
    BY <2>2, <2>3
<1>9. CASE BackToDevices
  <2>1. \/ Show(Menu) \/ Show(CountScreen(Within(2, MaxDevices, screen.count)))
        \/ Show(DevicesScreen(screen.early, screen.renewal))
    BY <1>9 DEF BackToDevices
  <2>2. Within(2, MaxDevices, screen.count) \in 2..MaxDevices
    <3>1. PICK n \in Int : n = screen.count
      BY <1>1, <1>2
    <3> QED
      BY <1>2, <3>1, WithinIs
  <2>3. CASE Show(Menu)
    BY <1>3, <2>3, MenuFits
  <2>4. CASE Show(CountScreen(Within(2, MaxDevices, screen.count)))
    BY <1>1, <1>3, <2>2, <2>4, CountScreenFits
  <2>5. CASE Show(DevicesScreen(screen.early, screen.renewal))
    BY <1>1, <1>3, <2>5, DevicesScreenFits
  <2> QED
    BY <2>1, <2>3, <2>4, <2>5
<1>10. CASE BillIsDropped
  BY <1>3, <1>10, MenuFits DEF BillIsDropped
<1> QED
  BY <1>4, <1>5, <1>6, <1>7, <1>8, <1>9, <1>10

LEMMA MonthsKeep ==
  ASSUME ShopInv,
         \/ \E early \in BOOLEAN : Renew(early)
         \/ ConfirmTraffic
         \/ \E d \in {-1, 1} : SetMonths(d)
  PROVE ShopInv'
<1>1. /\ ShopTypes /\ ScreenFits(screen) /\ ServiceFits
      /\ screen.code \in PackageCodes /\ screen.mode \in Modes /\ screen.count \in 0..MaxDevices
      /\ screen.early \in BOOLEAN /\ screen.renewal \in BOOLEAN
      /\ screen.months \in 1..LongestPeriod /\ screen.most \in 1..LongestPeriod
      /\ service.code \in PackageCodes /\ service.mode \in Modes /\ service.count \in 0..MaxDevices
  BY DEF ShopInv, ShopTypes, ScreenType, ServiceType
<1>2. rules.maxMonths \in 1..LongestPeriod
  BY <1>1, PriceListAssumption DEF ShopTypes, PriceListIsTyped, RuleValues
<1>3. ASSUME NEW s, s \in ScreenType /\ ScreenFits(s), Show(s) PROVE ShopInv'
  <2>1. screen' = s /\ amount' \in Nat /\ UNCHANGED <<tariffVars, service>>
    BY <1>3 DEF Show
  <2> QED
    BY <1>3, <2>1, ShowKeeps
<1>4. 1 \in 1..rules.maxMonths
  BY <1>2 DEF LongestPeriod
<1>5. ASSUME NEW early \in BOOLEAN, Renew(early) PROVE ShopInv'
  <2>1. PICK yes \in BOOLEAN : yes = TRUE
    OBVIOUS
  <2>2. /\ service # NoService /\ ~service.trial
        /\ \/ Show(MonthsScreen(service.code, service.mode, service.count, 1, early, yes, 0))
           \/ Show(DevicesScreen(early, yes))
    BY <1>5, <2>1 DEF Renew
  <2>3. CASE Show(MonthsScreen(service.code, service.mode, service.count, 1, early, yes, 0))
    <3>1. Agree(service.code, service.mode, service.count)
      BY <1>1, <2>2 DEF ServiceFits
    <3>2. LET s == MonthsScreen(service.code, service.mode, service.count, 1, early, yes, 0)
          IN s \in ScreenType /\ ScreenFits(s)
      BY <1>1, <1>4, <3>1, MonthsScreenFits
    <3> QED
      BY <1>3, <2>3, <3>2
  <2>4. CASE Show(DevicesScreen(early, yes))
    BY <1>3, <2>4, DevicesScreenFits
  <2> QED
    BY <2>2, <2>3, <2>4
<1>6. screen.code \in Nat
  BY <1>1, CodesAreNumbers
<1>7. ASSUME NEW months \in 1..rules.maxMonths, At("traffic") \/ At("months"),
             Show(MonthsScreen(screen.code, screen.mode, screen.count, months, screen.early, screen.renewal, screen.code))
      PROVE ShopInv'
  <2>1. Agree(screen.code, screen.mode, screen.count)
    BY <1>1, <1>7 DEF ScreenFits, At
  <2>2. LET s == MonthsScreen(screen.code, screen.mode, screen.count, months, screen.early, screen.renewal, screen.code)
        IN s \in ScreenType /\ ScreenFits(s)
    BY <1>1, <1>6, <2>1, MonthsScreenFits
  <2> QED
    BY <1>3, <1>7, <2>2
<1>8. CASE ConfirmTraffic
  BY <1>4, <1>7, <1>8 DEF ConfirmTraffic
<1>9. ASSUME NEW d \in {-1, 1}, SetMonths(d) PROVE ShopInv'
  <2>1. PICK button : button = Within(1, screen.most, screen.months + d)
    OBVIOUS
  <2>2. PICK months : months = Within(1, rules.maxMonths, button)
    OBVIOUS
  <2>3. At("months") /\ Show(MonthsScreen(screen.code, screen.mode, screen.count, months, screen.early,
                                          screen.renewal, screen.code))
    BY <1>9, <2>1, <2>2 DEF SetMonths
  <2>4. button \in Int
    <3>1. PICK n \in Int : n = screen.months + d
      BY <1>1 DEF LongestPeriod
    <3>2. PICK most \in Int : most = screen.most
      BY <1>1 DEF LongestPeriod
    <3>3. Within(1, most, n) \in Int
      BY WithinIs
    <3> QED
      BY <2>1, <3>1, <3>2, <3>3
  <2>5. months \in 1..rules.maxMonths
    <3>1. PICK most \in 1..LongestPeriod : most = rules.maxMonths
      BY <1>2
    <3>2. most \in Int /\ 1 <= most
      BY DEF LongestPeriod
    <3>3. Within(1, most, button) \in 1..most
      BY <2>4, <3>2, WithinIs
    <3> QED
      BY <2>2, <3>1, <3>3
  <2> QED
    BY <1>7, <2>3, <2>5
<1> QED
  BY <1>5, <1>8, <1>9

\* A bill keeps the invariant if it says what a screen that is up to date had said.
LEMMA BillKeeps ==
  ASSUME ShopInv, At("months") \/ At("packs") \/ At("device") \/ At("amount"),
         NEW kind \in {"tariff", "pack", "device", "balance"}, NEW total \in Nat, NEW months \in Nat,
         NEW mode \in Modes, NEW count \in 0..MaxDevices, NEW discount \in Nat, NEW delivers \in Nat,
         NEW sold \in PackageCodes,
         Bill(kind, total, months, mode, count, discount, delivers, sold), amount' \in Nat,
         screen.fresh => /\ kind = screen.shown.kind /\ total = screen.shown.total /\ months = screen.shown.months
                         /\ mode = screen.shown.mode /\ count = screen.shown.count,
         kind = "tariff" => Agree(sold, mode, count) /\ (mode = "single" => count = 1),
         kind = "device" => /\ service # NoService /\ ~service.trial /\ service.code # NoLimit
                            /\ count \in 2..MaxDevices
  PROVE ShopInv'
<1>1. PICK text : text = [kind |-> kind, total |-> total, months |-> months, mode |-> mode,
                          count |-> count, discount |-> discount]
  OBVIOUS
<1>2. /\ text \in Texts /\ text.kind = kind /\ text.total = total /\ text.months = months
      /\ text.mode = mode /\ text.count = count
  BY <1>1 DEF Texts
<1>3. PICK fresh \in BOOLEAN : fresh = screen.fresh
  BY DEF ShopInv, ShopTypes, ScreenType
<1>4. PICK asked \in Texts : asked = screen.shown
  BY DEF ShopInv, ShopTypes, ScreenType
<1>5. PICK blank : blank = Screen("bill", sold, "single", 0, 1, 1, FALSE, FALSE, text)
  OBVIOUS
<1>6. blank \in ScreenType /\ blank.at = "bill" /\ blank.code = sold /\ blank.shown = text
  BY <1>2, <1>5, SilentIs, ModesAre, MaxDevicesAssumption DEF Screen, ScreenType, Places, LongestPeriod
<1>7. PICK s : s = [blank EXCEPT !.asked = asked, !.honest = fresh, !.delivers = delivers]
  OBVIOUS
<1>8. /\ s \in ScreenType /\ s.at = "bill" /\ s.code = sold /\ s.shown = text /\ s.asked = asked
      /\ (s.honest => screen.fresh)
  <2>1. s \in ScreenType
    BY <1>6, <1>7 DEF ScreenType
  <2>2. s.at = "bill" /\ s.code = sold /\ s.shown = text /\ s.asked = asked
    BY <1>6, <1>7 DEF ScreenType
  <2>3. s.honest => screen.fresh
    BY <1>3, <1>6, <1>7 DEF ScreenType
  <2> QED
    BY <2>1, <2>2, <2>3
<1>10. screen' = s /\ UNCHANGED <<tariffVars, service>>
  BY <1>1, <1>3, <1>4, <1>5, <1>7 DEF Bill
<1>9. ScreenFits(s)
  BY <1>2, <1>4, <1>8 DEF ScreenFits
<1> QED
  BY <1>8, <1>9, <1>10, ShowKeeps

\* The number of devices matters only to a choice of several.
LEMMA CountIgnored ==
  ASSUME NEW code, NEW mode \in {"single", "unlimited"}, NEW c, NEW d, NEW months, NEW selected
  PROVE Basket(code, mode, c, months, selected) = Basket(code, mode, d, months, selected)
<1>1. PICK o : o = OptionOf(code)
  OBVIOUS
<1>2. \A m \in {"single", "unlimited"} : NormalDevices(o, m, c) = NormalDevices(o, m, d)
  BY DEF NormalDevices
<1>3. PICK gb : gb = IF o.traffic = "unlimited" THEN NoLimit ELSE IF o.traffic = "fixed" THEN o.gb.usual
                     ELSE NormalTraffic(o, selected)
  OBVIOUS
<1>4. PICK desired \in {"single", "unlimited"} : desired = IF gb = NoLimit THEN "unlimited" ELSE mode
  OBVIOUS
<1>5. PICK normal : normal = NormalDevices(o, desired, c) /\ normal = NormalDevices(o, desired, d)
  BY <1>2
<1>6. Resolve(o, mode, c, selected) = Resolve(o, mode, d, selected)
  BY <1>3, <1>4, <1>5 DEF Resolve
<1> QED
  BY <1>1, <1>6 DEF Basket

LEMMA ConfirmMonthsKeeps == ASSUME ShopInv, ConfirmMonths PROVE ShopInv'
<1>1. /\ PriceListIsTyped /\ ScreenFits(screen) /\ amount \in Nat
      /\ screen.code \in PackageCodes /\ screen.mode \in Modes /\ screen.count \in 0..MaxDevices
      /\ screen.months \in 1..LongestPeriod
  BY DEF ShopInv, ShopTypes, ScreenType
<1>2. PICK most \in 1..LongestPeriod : most = rules.maxMonths
  BY <1>1, PriceListAssumption DEF PriceListIsTyped, RuleValues
<1>3. PICK months : months = Within(1, most, screen.months)
  OBVIOUS
<1>4. PICK asked : asked = AskedCount(screen.mode, screen.count)
  OBVIOUS
<1>5. PICK b : b = Basket(screen.code, screen.mode, asked, months, screen.code)
  OBVIOUS
<1>6. /\ At("months") /\ amount' = amount
      /\ Bill("tariff", b.total, months, b.mode, b.count, CartDiscount(b.discount), b.months, screen.code)
  BY <1>2, <1>3, <1>4, <1>5 DEF ConfirmMonths
<1>7. Agree(screen.code, screen.mode, screen.count) /\ screen.at = "months"
  BY <1>1, <1>6 DEF ScreenFits, At
<1>8. MaxDevices \in Nat /\ MaxDevices >= 2
  BY MaxDevicesAssumption
<1>9. asked \in 0..MaxDevices /\ (screen.mode = "custom" => asked = screen.count)
  <2>1. CASE screen.mode = "custom"
    <3>1. PICK n \in 2..MaxDevices : n = screen.count
      BY <1>7, <2>1 DEF Agree
    <3>2. n \in Int /\ MaxDevices \in Int
      BY <1>8
    <3>3. Within(2, MaxDevices, n) = n
      BY <3>2, WithinIs
    <3> QED
      BY <1>4, <1>8, <2>1, <3>1, <3>3 DEF AskedCount
  <2>2. CASE screen.mode # "custom"
    BY <1>4, <1>8, <2>2 DEF AskedCount
  <2> QED
    BY <2>1, <2>2
<1>10. months \in 1..most /\ (screen.months <= most => months = screen.months)
  <2>1. PICK n \in Int : n = screen.months /\ 1 <= n
    BY <1>1 DEF LongestPeriod
  <2>2. most \in Int /\ 1 <= most
    BY DEF LongestPeriod
  <2>3. Within(1, most, n) \in 1..most /\ (n \in 1..most => Within(1, most, n) = n)
    BY <2>2, WithinIs
  <2> QED
    BY <1>3, <2>1, <2>2, <2>3
<1>11. months \in Nat \ {0} /\ months \in 1..LongestPeriod
  BY <1>10 DEF LongestPeriod
<1>12. PICK sold \in BasketType : Bills(screen.code, screen.mode, asked, months, sold)
  BY <1>1, <1>9, <1>11, BasketIs
<1>13. screen.code \in Nat
  BY <1>1, CodesAreNumbers
<1>14. /\ b.total = sold.total /\ b.months = sold.months /\ b.mode = sold.mode /\ b.count = sold.count
       /\ b.discount = sold.discount
  BY <1>5, <1>12, <1>13 DEF Bills
<1>15. /\ b.total \in Nat /\ b.months \in Nat /\ b.mode \in Modes /\ b.count \in 0..MaxDevices
       /\ b.discount \in 0..275
  BY <1>14 DEF BasketType, LongestPeriod
<1>16. CartDiscount(b.discount) \in Nat
  BY <1>15 DEF CartDiscount, HalfUp
<1>17. Agree(screen.code, b.mode, b.count) /\ (b.mode = "single" => b.count = 1)
  BY <1>7, <1>12, <1>14 DEF Bills, Agree
<1>18. ASSUME screen.fresh
       PROVE /\ "tariff" = screen.shown.kind /\ b.total = screen.shown.total /\ months = screen.shown.months
             /\ b.mode = screen.shown.mode /\ b.count = screen.shown.count
  <2>1. /\ screen.months <= most
        /\ screen.shown = MonthsText(screen.code, screen.mode, screen.count, screen.months, screen.code)
    BY <1>1, <1>2, <1>7, <1>18 DEF ScreenFits
  <2>2. months = screen.months
    BY <1>10, <2>1
  <2>3. (IF screen.code = NoLimit THEN "unlimited" ELSE screen.mode) = screen.mode
    BY <1>7 DEF Agree
  <2>4. Basket(screen.code, screen.mode, screen.count, months, screen.code) = b
    <3>1. CASE screen.mode = "custom"
      BY <1>5, <1>9, <3>1
    <3>2. CASE screen.mode # "custom"
      <4>1. screen.mode \in {"single", "unlimited"}
        BY <1>1, <3>2 DEF Modes
      <4> QED
        BY <1>5, <4>1, CountIgnored
    <3> QED
      BY <3>1, <3>2
  <2> QED
    BY <2>1, <2>2, <2>3, <2>4 DEF MonthsText
<1> HIDE DEF Modes
<1> QED
  BY <1>1, <1>6, <1>11, <1>15, <1>16, <1>17, <1>18, BillKeeps

LEMMA QuoteIs ==
  ASSUME ShopTypes, DeviceOnOffer, ServiceFits
  PROVE /\ DeviceQuote \in Texts
        /\ DeviceQuote.kind = "device" /\ DeviceQuote.months = 0 /\ DeviceQuote.mode = "custom"
        /\ DeviceQuote.count = service.count + 1
        /\ DeviceQuote.total = DevicePrice(service.code, service.left, Cycle)
        /\ service.count + 1 \in 2..MaxDevices
        /\ service # NoService /\ ~service.trial /\ service.code # NoLimit
<1>1. /\ service.alive /\ ~service.trial /\ service.mode # "unlimited" /\ service.count + 1 <= MaxDevices
  BY DEF DeviceOnOffer, Running
<1>2. service # NoService
  BY <1>1 DEF NoService
<1>3. /\ Agree(service.code, service.mode, service.count) /\ (service.mode = "single" => service.count = 1)
      /\ service.mode \in Modes /\ service.count \in 0..MaxDevices /\ service.left \in 0..Cycle
  BY <1>1, <1>2 DEF ServiceFits, ShopTypes, ServiceType
<1>4. service.code # NoLimit /\ service.count + 1 \in 2..MaxDevices
  BY <1>1, <1>3, MaxDevicesAssumption DEF Agree, Modes
<1>5. PICK price : price = DevicePrice(service.code, service.left, Cycle)
  OBVIOUS
<1>6. price \in Nat
  <2>1. /\ upsell \in [enabled : BOOLEAN, mode : {"fixed", "prorated"}, fixed : Nat]
        /\ rules \in RuleValues /\ tariff \in Standings \cup {NoRow}
    BY PriceListAssumption DEF ShopTypes, PriceListIsTyped
  <2>2. PICK own : own = IF service.code = RowCode /\ tariff # NoRow THEN tariff.row.dev.price ELSE 0
    OBVIOUS
  <2>3. own \in Nat
    <3>1. CASE service.code = RowCode /\ tariff # NoRow
      <4>1. PICK r \in RowValues : tariff.row = r
        BY <2>1, <3>1, ListedRow
      <4>2. r.dev \in ScaleValues
        BY DEF RowValues
      <4> QED
        BY <2>2, <3>1, <4>1, <4>2 DEF ScaleValues
    <3>2. CASE ~(service.code = RowCode /\ tariff # NoRow)
      BY <2>2, <3>2
    <3> QED
      BY <3>1, <3>2
  <2>4. PICK each \in Nat : each = OrElse(own, rules.devicePrice)
    BY <2>1, <2>3 DEF OrElse, RuleValues
  <2>5. PICK left \in Nat : left = service.left
    BY <1>3, CycleAssumption
  <2>6. PICK c \in Nat \ {0} : c = Cycle
    BY CycleAssumption
  <2>7. each * left + c * Rouble - 1 \in Nat /\ c * Rouble \in Nat \ {0}
    <3>1. each * left \in Nat
      OBVIOUS
    <3> QED
      BY <3>1 DEF Rouble
  <2>8. (each * left + c * Rouble - 1) \div (c * Rouble) \in Nat
    <3>1. PICK n \in Nat : n = each * left + c * Rouble - 1
      BY <2>7
    <3>2. PICK k \in Nat \ {0} : k = c * Rouble
      BY <2>7
    <3>3. n \div k \in Nat
      OBVIOUS
    <3> QED
      BY <3>1, <3>2, <3>3
  <2>9. price = IF upsell.mode = "fixed" THEN upsell.fixed
                ELSE Rouble * ((each * left + c * Rouble - 1) \div (c * Rouble))
    BY <1>5, <2>2, <2>4, <2>5, <2>6 DEF DevicePrice
  <2> QED
    BY <2>1, <2>8, <2>9 DEF Rouble
<1>7. PICK count : count = service.count + 1
  OBVIOUS
<1>8. DeviceQuote = [Silent EXCEPT !.kind = "device", !.total = price, !.mode = "custom", !.count = count]
  BY <1>5, <1>7 DEF DeviceQuote
<1>9. count \in 0..MaxDevices
  BY <1>4, <1>7, MaxDevicesAssumption
<1>10. DeviceQuote = [kind |-> "device", total |-> price, months |-> 0, mode |-> "custom", count |-> count, discount |-> 0]
  BY <1>8 DEF Silent
<1>11. /\ DeviceQuote \in Texts
       /\ DeviceQuote.kind = "device" /\ DeviceQuote.months = 0 /\ DeviceQuote.mode = "custom"
       /\ DeviceQuote.count = count /\ DeviceQuote.total = price
  BY <1>6, <1>9, <1>10, ModesAre DEF Texts
<1> QED
  BY <1>1, <1>2, <1>4, <1>5, <1>7, <1>11

LEMMA DeviceKeeps == ASSUME ShopInv, PreviewDevice \/ ConfirmDevice PROVE ShopInv'
<1>1. /\ ShopTypes /\ ServiceFits /\ ScreenFits(screen) /\ amount \in Nat
      /\ service.code \in PackageCodes /\ service.count \in 0..MaxDevices
  BY DEF ShopInv, ShopTypes, ServiceType
<1>2. DeviceOnOffer
  BY DEF PreviewDevice, ConfirmDevice
<1>3. PICK quote \in Texts : quote = DeviceQuote
  BY <1>1, <1>2, QuoteIs
<1>4. /\ quote.kind = "device" /\ quote.months = 0 /\ quote.mode = "custom"
      /\ quote.count = service.count + 1
      /\ service.count + 1 \in 2..MaxDevices
      /\ service # NoService /\ ~service.trial /\ service.code # NoLimit
  BY <1>1, <1>2, <1>3, QuoteIs
<1>5. CASE PreviewDevice
  <2>1. PICK no \in BOOLEAN : no = FALSE
    OBVIOUS
  <2>2. PICK s : s = Screen("device", service.code, "custom", service.count, 1, 1, no, no, quote)
    OBVIOUS
  <2>3. Show(s)
    BY <1>3, <1>5, <2>1, <2>2 DEF PreviewDevice
  <2>4. s = [at |-> "device", code |-> service.code, mode |-> "custom", count |-> service.count, months |-> 1,
             most |-> 1, early |-> no, renewal |-> no, shown |-> quote, fresh |-> TRUE,
             asked |-> Silent, honest |-> FALSE, delivers |-> 0]
    BY <2>2 DEF Screen
  <2>5. s \in ScreenType
    BY <1>1, <2>4, SilentIs, ModesAre DEF ScreenType, Places, LongestPeriod
  <2>6. s.at = "device" /\ s.shown = quote
    BY <2>4
  <2>7. ScreenFits(s)
    BY <1>3, <1>4, <2>6 DEF ScreenFits
  <2>8. screen' = s /\ amount' \in Nat /\ UNCHANGED <<tariffVars, service>>
    BY <2>3 DEF Show
  <2> QED
    BY <2>5, <2>7, <2>8, ShowKeeps
<1>6. CASE ConfirmDevice
  <2>1. /\ At("device") /\ amount' = amount
        /\ Bill("device", quote.total, 0, "custom", service.count + 1, 0, 0, service.code)
    BY <1>3, <1>6 DEF ConfirmDevice
  <2>2. quote.total \in Nat /\ 0 \in Nat /\ service.count + 1 \in 0..MaxDevices
    BY <1>3, <1>4, MaxDevicesAssumption DEF Texts
  <2>3. screen.fresh => screen.shown = quote
    BY <1>1, <1>3, <2>1 DEF ScreenFits, At
  <2>4. screen.fresh => /\ "device" = screen.shown.kind /\ quote.total = screen.shown.total
                        /\ 0 = screen.shown.months /\ "custom" = screen.shown.mode
                        /\ service.count + 1 = screen.shown.count
    BY <1>4, <2>3
  <2> QED
    BY <1>1, <1>4, <2>1, <2>2, <2>4, ModesAre, BillKeeps
<1> QED
  BY <1>5, <1>6

LEMMA PackKeeps == ASSUME ShopInv, OpenPacks \/ BuyPack PROVE ShopInv'
<1>1. /\ ShopTypes /\ ScreenFits(screen) /\ amount \in Nat /\ service.code \in PackageCodes
  BY DEF ShopInv, ShopTypes, ServiceType
<1>2. pack # NoPack /\ pack \in [price : Nat, enabled : BOOLEAN]
  BY <1>1 DEF OpenPacks, BuyPack, ShopTypes
<1>3. PICK price \in Nat : price = pack.price
  BY <1>2
<1>4. 0 \in 0..MaxDevices
  BY MaxDevicesAssumption
<1>5. CASE OpenPacks
  <2>1. PICK no \in BOOLEAN : no = FALSE
    OBVIOUS
  <2>2. PICK text : text = [Silent EXCEPT !.kind = "pack", !.total = price]
    OBVIOUS
  <2>3. text = [kind |-> "pack", total |-> price, months |-> 0, mode |-> "single", count |-> 0, discount |-> 0]
    BY <2>2 DEF Silent
  <2>4. /\ text \in Texts /\ text.kind = "pack" /\ text.total = price /\ text.months = 0
        /\ text.mode = "single" /\ text.count = 0
    BY <1>4, <2>3, ModesAre DEF Texts
  <2>5. PICK s : s = Screen("packs", service.code, "single", 0, 1, 1, no, no, text)
    OBVIOUS
  <2>6. Show(s)
    BY <1>3, <1>5, <2>1, <2>2, <2>5 DEF OpenPacks
  <2>7. s = [at |-> "packs", code |-> service.code, mode |-> "single", count |-> 0, months |-> 1,
             most |-> 1, early |-> no, renewal |-> no, shown |-> text, fresh |-> TRUE,
             asked |-> Silent, honest |-> FALSE, delivers |-> 0]
    BY <2>5 DEF Screen
  <2>8. s \in ScreenType
    BY <1>1, <1>4, <2>4, <2>7, SilentIs, ModesAre DEF ScreenType, Places, LongestPeriod
  <2>9. s.at = "packs" /\ s.shown = text
    BY <2>7
  <2>10. ScreenFits(s)
    BY <1>2, <1>3, <2>4, <2>9 DEF ScreenFits
  <2>11. screen' = s /\ amount' \in Nat /\ UNCHANGED <<tariffVars, service>>
    BY <2>6 DEF Show
  <2> QED
    BY <2>8, <2>10, <2>11, ShowKeeps
<1>6. CASE BuyPack
  <2>1. /\ At("packs") /\ amount' = amount
        /\ Bill("pack", price, 0, "single", 0, 0, 0, service.code)
    BY <1>3, <1>6 DEF BuyPack
  <2>2. screen.fresh => /\ "pack" = screen.shown.kind /\ price = screen.shown.total
                        /\ 0 = screen.shown.months /\ "single" = screen.shown.mode
                        /\ 0 = screen.shown.count
    BY <1>1, <1>3, <2>1 DEF ScreenFits, At
  <2> QED
    BY <1>1, <1>4, <2>1, <2>2, ModesAre, BillKeeps
<1> QED
  BY <1>5, <1>6

LEMMA AmountKeeps ==
  ASSUME ShopInv,
         OpenTopup \/ CancelTopup \/ ConfirmAmount \/ \E a \in Sums : TypeAmount(a) \/ StepAmount(a)
  PROVE ShopInv'
<1>1. ShopTypes /\ ScreenFits(screen) /\ amount \in Nat /\ screen.shown \in Texts
  BY DEF ShopInv, ShopTypes, ScreenType
<1>2. PICK least \in Nat : least = rules.minTopup
  BY <1>1, PriceListAssumption DEF ShopTypes, PriceListIsTyped, RuleValues
<1>3. 0 \in 0..MaxDevices /\ Sums \in SUBSET Nat /\ Sums # {}
  BY MaxDevicesAssumption, SumsAssumption
<1>4. ASSUME NEW a \in Nat, least <= a, Ask(a) PROVE ShopInv'
  <2>1. PICK no \in BOOLEAN : no = FALSE
    OBVIOUS
  <2>2. PICK text : text = [Silent EXCEPT !.kind = "balance", !.total = a]
    OBVIOUS
  <2>3. text = [kind |-> "balance", total |-> a, months |-> 0, mode |-> "single", count |-> 0, discount |-> 0]
    BY <2>2 DEF Silent
  <2>4. /\ text \in Texts /\ text.kind = "balance" /\ text.total = a /\ text.months = 0
        /\ text.mode = "single" /\ text.count = 0
    BY <1>3, <2>3, ModesAre DEF Texts
  <2>5. PICK s : s = Screen("amount", Smallest, "single", 0, 1, 1, no, no, text)
    OBVIOUS
  <2>6. screen' = s /\ amount' = a /\ UNCHANGED <<tariffVars, service>>
    BY <1>4, <2>1, <2>2, <2>5 DEF Ask, AmountScreen
  <2>7. s = [at |-> "amount", code |-> Smallest, mode |-> "single", count |-> 0, months |-> 1,
             most |-> 1, early |-> no, renewal |-> no, shown |-> text, fresh |-> TRUE,
             asked |-> Silent, honest |-> FALSE, delivers |-> 0]
    BY <2>5 DEF Screen
  <2>8. s \in ScreenType
    BY <1>3, <2>4, <2>7, SilentIs, SmallestIs, ModesAre DEF ScreenType, Places, LongestPeriod
  <2>9. s.at = "amount" /\ s.shown = text
    BY <2>7
  <2>10. ScreenFits(s)
    BY <1>2, <1>4, <2>4, <2>9 DEF ScreenFits
  <2> QED
    BY <2>6, <2>8, <2>10, ShowKeeps
<1>5. \A a \in Nat : Max({least, a}) \in Nat /\ least <= Max({least, a}) /\ (least <= a => Max({least, a}) = a)
      /\ Max({a, least}) = Max({least, a})
  BY MaxOfTwo
<1>6. CASE OpenTopup
  <2>1. PICK a \in Nat : a = Min(Sums)
    <3>1. \E m \in Sums : \A n \in Sums : m <= n
      BY <1>3, HasLeast
    <3> QED
      BY <1>3, <3>1 DEF Min
  <2> QED
    BY <1>2, <1>4, <1>5, <1>6, <2>1 DEF OpenTopup
<1>7. ASSUME NEW a \in Sums, TypeAmount(a) \/ StepAmount(a) PROVE ShopInv'
  <2>1. a \in Nat
    BY <1>3
  <2>2. CASE TypeAmount(a)
    BY <1>2, <1>4, <2>1, <2>2 DEF TypeAmount
  <2>3. CASE StepAmount(a)
    BY <1>2, <1>4, <1>5, <2>1, <2>3 DEF StepAmount
  <2> QED
    BY <1>7, <2>2, <2>3
<1>8. CASE CancelTopup
  <2>1. screen' = Menu /\ amount' \in Nat /\ UNCHANGED <<tariffVars, service>>
    BY <1>8 DEF CancelTopup
  <2> QED
    BY <2>1, MenuFits, ShowKeeps
<1>9. CASE ConfirmAmount
  <2>1. PICK a \in Nat : a = screen.shown.total
    BY <1>1 DEF Texts
  <2>2. PICK total \in Nat : total = Max({least, a})
    BY <1>5
  <2>3. At("amount") /\ amount' \in Nat /\ Bill("balance", total, 0, "single", 0, 0, 0, Smallest)
    BY <1>2, <1>9, <2>1, <2>2 DEF ConfirmAmount
  <2>4. screen.fresh => /\ "balance" = screen.shown.kind /\ total = screen.shown.total
                        /\ 0 = screen.shown.months /\ "single" = screen.shown.mode
                        /\ 0 = screen.shown.count
    BY <1>1, <1>2, <1>5, <2>1, <2>2, <2>3 DEF ScreenFits, At
  <2> QED
    BY <1>3, <2>3, <2>4, SmallestIs, ModesAre, BillKeeps
<1> QED
  BY <1>6, <1>7, <1>8, <1>9

LEMMA TrafficOfSale ==
  ASSUME PriceListIsTyped, NEW code \in PackageCodes, NEW mode \in Modes, NEW count \in 0..MaxDevices
  PROVE Resolve(OptionOf(code), mode, count, code).gb \in Nat
<1>1. code \in Nat
  BY CodesAreNumbers
<1>2. CASE code = RowCode /\ tariff # NoRow
  <2>1. PICK r \in RowValues : tariff.row = r
    BY <1>2, ListedRow DEF PriceListIsTyped
  <2>2. OptionOf(code) = OptionFromRow(r)
    BY <1>2, <2>1 DEF OptionOf
  <2> QED
    BY <1>1, <2>2, RowSells
<1>3. CASE ~(code = RowCode /\ tariff # NoRow) /\ code = NoLimit
  BY <1>3, CodesAreNumbers, UnlimitedIs DEF OptionOf, PriceListIsTyped
<1>4. CASE ~(code = RowCode /\ tariff # NoRow) /\ code # NoLimit
  <2>1. OptionOf(code) = LegacyOption(code) /\ code \in Packages
    BY <1>4 DEF OptionOf, PackageCodes
  <2> QED
    BY <1>1, <2>1, LegacySells
<1> QED
  BY <1>2, <1>3, <1>4

LEMMA PaidKeeps == ASSUME ShopInv, BillIsPaid PROVE ShopInv'
<1>1. /\ ShopTypes /\ ServiceFits /\ ScreenFits(screen) /\ screen.shown \in Texts /\ screen.code \in PackageCodes
      /\ service \in ServiceType /\ screen.at = "bill"
  BY DEF ShopInv, ShopTypes, ScreenType, BillIsPaid, At
<1>2. rules' = rules /\ tariff' = tariff /\ upsell' = upsell /\ pack' = pack /\ amount' = amount /\ screen' = Menu
  BY DEF BillIsPaid, tariffVars
<1>3. PICK mode \in Modes, count \in 0..MaxDevices : mode = screen.shown.mode /\ count = screen.shown.count
  BY <1>1 DEF Texts
<1>4. service' \in ServiceType /\ ServiceFits'
  <2>1. CASE screen.shown.kind = "tariff"
    <3>1. PICK gb \in Nat : gb = Resolve(OptionOf(screen.code), mode, count, screen.code).gb
      BY <1>1, TrafficOfSale DEF ShopTypes
    <3>2. PICK s : s = [alive |-> TRUE, trial |-> FALSE, code |-> screen.code, gb |-> gb,
                        mode |-> mode, count |-> count, left |-> Cycle]
      OBVIOUS
    <3>3. service' = s
      BY <1>3, <2>1, <3>1, <3>2 DEF BillIsPaid
    <3>4. s \in ServiceType
      BY <1>1, <3>2, CycleAssumption DEF ServiceType
    <3>5. Agree(screen.code, mode, count) /\ (mode = "single" => count = 1)
      BY <1>1, <1>3, <2>1 DEF ScreenFits
    <3>6. s.code = screen.code /\ s.mode = mode /\ s.count = count
      BY <3>2
    <3>7. ServiceFits'
      BY <3>3, <3>5, <3>6 DEF ServiceFits, Agree
    <3> QED
      BY <3>3, <3>4, <3>7
  <2>2. CASE screen.shown.kind = "device" /\ service.alive
    <3>1. PICK s : s = [service EXCEPT !.mode = "custom", !.count = count]
      OBVIOUS
    <3>2. service' = s
      BY <1>3, <2>2, <3>1 DEF BillIsPaid
    <3>3. s \in ServiceType
      BY <1>1, <3>1, ModesAre DEF ServiceType
    <3>4. s.code = service.code /\ s.mode = "custom" /\ s.count = count
      BY <1>1, <3>1 DEF ServiceType
    <3>5. service.code # NoLimit /\ count \in 2..MaxDevices
      BY <1>1, <1>3, <2>2 DEF ScreenFits
    <3>6. ServiceFits'
      BY <3>2, <3>4, <3>5 DEF ServiceFits, Agree
    <3> QED
      BY <3>2, <3>3, <3>6
  <2>3. CASE screen.shown.kind # "tariff" /\ ~(screen.shown.kind = "device" /\ service.alive)
    <3>1. service' = service
      BY <2>3 DEF BillIsPaid
    <3> QED
      BY <1>1, <3>1 DEF ServiceFits, Agree
  <2> QED
    BY <2>1, <2>2, <2>3
<1>5. Menu \in ScreenType /\ Menu.at = "menu"
  BY MenuFits DEF Menu, Screen
<1>6. ShopTypes'
  BY <1>1, <1>2, <1>4, <1>5 DEF ShopTypes, PriceListIsTyped
<1>7. ScreenFits(screen)'
  <2>1. PICK s : s = Menu /\ s.at = "menu"
    BY <1>5
  <2>2. ScreenFits(s)'
    BY <2>1 DEF ScreenFits
  <2>3. screen' = s
    BY <1>2, <2>1
  <2> QED
    BY <2>2, <2>3 DEF ScreenFits
<1> QED
  BY <1>4, <1>6, <1>7 DEF ShopInv

\* Whatever is saved in the console is a price list.
LEMMA ConsoleTypes ==
  ASSUME PriceListIsTyped, pack \in [price : Nat, enabled : BOOLEAN] \cup {NoPack}, upsell \in Upsells,
         ConsoleNext
  PROVE /\ rules' \in RuleBook /\ tariff' \in Standings \cup {NoRow}
        /\ pack' \in [price : Nat, enabled : BOOLEAN] \cup {NoPack} /\ upsell' \in Upsells
<1> USE DEF PriceListIsTyped
<1>1. ASSUME NEW r \in RuleBook, SaveRules(r)
      PROVE rules' \in RuleBook /\ UNCHANGED <<tariff, pack, upsell>>
  BY <1>1 DEF SaveRules
<1>2. ASSUME NEW r \in TariffRows, NEW k \in Ticks, CreateTariff(r, k) \/ UpdateTariff(r, k)
      PROVE tariff' \in Standings /\ UNCHANGED <<rules, pack, upsell>>
  <2>1. k.active \in BOOLEAN /\ k.public \in BOOLEAN /\ k.archived \in BOOLEAN
    BY PriceListAssumption
  <2>2. Standing(r, k) \in Standings
    BY <2>1 DEF Standing, Standings
  <2>3. PICK t \in Standings : t = Standing(r, k)
    BY <2>2
  <2>4. CASE CreateTariff(r, k)
    BY <2>2, <2>4 DEF CreateTariff
  <2>5. CASE UpdateTariff(r, k)
    <3>1. PICK a \in BOOLEAN, p \in BOOLEAN : a = (t.active /\ ~k.archived) /\ p = (t.public /\ ~k.archived)
      BY Zenon
    <3>2. tariff' = [t EXCEPT !.active = a, !.public = p]
      BY <2>3, <2>5, <3>1 DEF UpdateTariff
    <3>3. [t EXCEPT !.active = a, !.public = p] \in Standings
      BY DEF Standings
    <3> QED
      BY <2>5, <3>2, <3>3 DEF UpdateTariff
  <2> QED
    BY <1>2, <2>4, <2>5
<1>3. CASE ArchiveTariff \/ ReactivateTariff
  <2>1. tariff \in Standings /\ UNCHANGED <<rules, pack, upsell>>
    BY <1>3 DEF ArchiveTariff, ReactivateTariff
  <2>2. tariff' \in Standings
    BY <1>3, <2>1 DEF ArchiveTariff, ReactivateTariff, Standings
  <2> QED
    BY <2>1, <2>2
<1>4. ASSUME NEW p \in Packs, SavePack(p)
      PROVE pack' \in [price : Nat, enabled : BOOLEAN] /\ UNCHANGED <<rules, tariff, upsell>>
  BY <1>4, PriceListAssumption DEF SavePack
<1>5. CASE TogglePack \/ DeletePack
  <2>1. UNCHANGED <<rules, tariff, upsell>>
    BY <1>5 DEF TogglePack, DeletePack
  <2>2. CASE TogglePack
    BY <2>2 DEF TogglePack
  <2>3. CASE DeletePack
    BY <2>3 DEF DeletePack
  <2> QED
    BY <1>5, <2>1, <2>2, <2>3
<1>6. ASSUME NEW u \in Upsells, SaveUpsell(u)
      PROVE upsell' \in Upsells /\ UNCHANGED <<rules, tariff, pack>>
  BY <1>6 DEF SaveUpsell
<1> QED
  BY <1>1, <1>2, <1>3, <1>4, <1>5, <1>6 DEF ConsoleNext

\* A screen after something changed around it.
LEMMA OutdatedIs ==
  ASSUME ShopInv
  PROVE /\ Outdated \in ScreenType
        /\ Outdated.at = screen.at /\ Outdated.code = screen.code /\ Outdated.mode = screen.mode
        /\ Outdated.count = screen.count
        /\ Outdated.shown.kind = screen.shown.kind /\ Outdated.shown.mode = screen.shown.mode
        /\ Outdated.shown.count = screen.shown.count
        /\ screen.at \in {"months", "packs", "device", "amount", "bill"} => ~Outdated.fresh /\ ~Outdated.honest
        /\ screen.at = "amount" => Outdated.shown.months = 0
<1>1. screen \in ScreenType /\ screen.shown \in Texts /\ ScreenFits(screen)
  BY DEF ShopInv, ShopTypes, ScreenType
<1>2. screen.at \in {"months", "packs", "device", "amount", "bill"} => screen.shown.kind # "none"
  BY <1>1 DEF ScreenFits
<1>3. CASE screen.shown.kind = "none"
  <2>1. Outdated = screen
    BY <1>3 DEF Outdated
  <2> QED
    BY <1>1, <1>2, <1>3, <2>1
<1>4. CASE screen.shown.kind # "none"
  <2>1. PICK total \in Nat : total = IF At("amount") THEN screen.shown.total ELSE 0
    BY <1>1 DEF Texts
  <2>2. PICK text : text = [screen.shown EXCEPT !.total = total, !.months = 0, !.discount = 0]
    OBVIOUS
  <2>3. /\ text \in Texts /\ text.kind = screen.shown.kind /\ text.mode = screen.shown.mode
        /\ text.count = screen.shown.count /\ text.months = 0
    BY <1>1, <2>2 DEF Texts
  <2>4. PICK s : s = [screen EXCEPT !.fresh = FALSE, !.honest = FALSE, !.asked = Silent, !.shown = text]
    OBVIOUS
  <2>5. Outdated = s
    BY <1>1, <1>4, <2>1, <2>2, <2>4 DEF Outdated, ScreenType, Texts
  <2>6. s \in ScreenType
    BY <1>1, <2>3, <2>4, SilentIs DEF ScreenType
  <2>7. s.at = screen.at /\ s.code = screen.code /\ s.mode = screen.mode /\ s.count = screen.count /\ s.shown = text
    BY <1>1, <2>4 DEF ScreenType
  <2>8. ~s.fresh /\ ~s.honest
    BY <1>1, <2>4 DEF ScreenType
  <2> QED
    BY <2>3, <2>5, <2>6, <2>7, <2>8
<1> QED
  BY <1>3, <1>4

LEMMA OutdatedFits ==
  ASSUME ShopInv, screen' = Outdated,
         service # NoService => /\ service' # NoService /\ (service'.trial <=> service.trial)
                                /\ service'.code = service.code
  PROVE screen' \in ScreenType /\ ScreenFits(screen)'
<1>1. ScreenFits(screen)
  BY DEF ShopInv
<1>2. PICK s : s = Outdated
  OBVIOUS
<1>3. /\ s \in ScreenType
      /\ s.at = screen.at /\ s.code = screen.code /\ s.mode = screen.mode /\ s.count = screen.count
      /\ s.shown.kind = screen.shown.kind /\ s.shown.mode = screen.shown.mode
      /\ s.shown.count = screen.shown.count
      /\ screen.at \in {"months", "packs", "device", "amount", "bill"} => ~s.fresh /\ ~s.honest
      /\ screen.at = "amount" => s.shown.months = 0
  BY <1>2, OutdatedIs
<1>4. ScreenFits(s)'
  BY <1>1, <1>3 DEF ScreenFits, Agree
<1>5. screen' = s
  BY <1>2
<1> QED
  BY <1>3, <1>4, <1>5 DEF ScreenFits

LEMMA AroundKeeps == ASSUME ShopInv, TakeTrial \/ DaysPass \/ PricesChange PROVE ShopInv'
<1>1. /\ ShopTypes /\ ServiceFits /\ ScreenFits(screen) /\ screen \in ScreenType /\ service \in ServiceType
  BY DEF ShopInv, ShopTypes
<1>2. CASE TakeTrial
  <2>1. /\ service = NoService /\ screen' = screen /\ amount' = amount /\ UNCHANGED tariffVars
        /\ service' = [NoService EXCEPT !.alive = TRUE, !.trial = TRUE, !.gb = Smallest, !.count = 1, !.left = 1]
    BY <1>2 DEF TakeTrial
  <2>2. rules' = rules /\ tariff' = tariff /\ upsell' = upsell /\ pack' = pack
    BY <2>1 DEF tariffVars
  <2>3. service' = [alive |-> TRUE, trial |-> TRUE, code |-> NoLimit, gb |-> Smallest, mode |-> "single",
                    count |-> 1, left |-> 1]
    BY <2>1 DEF NoService
  <2>4. Smallest \in Nat
    BY SmallestIs, CodesAreNumbers
  <2>5. service' \in ServiceType /\ service'.trial
    BY <2>3, <2>4, CodesAreNumbers, ModesAre, CycleAssumption, MaxDevicesAssumption DEF ServiceType
  <2>6. ShopTypes'
    BY <1>1, <2>1, <2>2, <2>5 DEF ShopTypes, PriceListIsTyped
  <2>7. ScreenFits(screen)'
    <3>1. screen.at = "device" => ~screen.fresh
      BY <1>1, <2>1 DEF ScreenFits
    <3>2. screen.at = "bill" => screen.shown.kind # "device"
      BY <1>1, <2>1 DEF ScreenFits
    <3>3. PICK text : text = MonthsText(screen.code, screen.mode, screen.count, screen.months, screen.code)
      OBVIOUS
    <3>4. MonthsText(screen.code, screen.mode, screen.count, screen.months, screen.code)' = text
      <4>1. PICK code, mode, count, months :
              code = screen.code /\ mode = screen.mode /\ count = screen.count /\ months = screen.months
        OBVIOUS
      <4>2. MonthsText(code, mode, count, months, code)' = MonthsText(code, mode, count, months, code)
        BY <2>1, TextStays
      <4> QED
        BY <2>1, <3>3, <4>1, <4>2
    <3> QED
      BY <1>1, <2>1, <2>2, <3>1, <3>2, <3>3, <3>4 DEF ScreenFits, Agree
  <2>8. ServiceFits'
    BY <2>5 DEF ServiceFits
  <2> QED
    BY <2>6, <2>7, <2>8 DEF ShopInv
<1>3. CASE DaysPass
  <2>1. /\ service.alive /\ screen' = Outdated /\ amount' = amount /\ UNCHANGED tariffVars
        /\ service' = IF service.left = 1 THEN [service EXCEPT !.alive = FALSE, !.left = 0]
                      ELSE [service EXCEPT !.left = 1]
    BY <1>3 DEF DaysPass
  <2>2. rules' = rules /\ tariff' = tariff /\ upsell' = upsell /\ pack' = pack
    BY <2>1 DEF tariffVars
  <2>3. service # NoService
    BY <2>1 DEF NoService
  <2>4. service' \in ServiceType
    <3>1. 0 \in 0..Cycle /\ 1 \in 0..Cycle
      BY CycleAssumption
    <3>2. [service EXCEPT !.alive = FALSE, !.left = 0] \in ServiceType
      BY <1>1, <3>1 DEF ServiceType
    <3>3. [service EXCEPT !.left = 1] \in ServiceType
      BY <1>1, <3>1 DEF ServiceType
    <3> QED
      BY <2>1, <3>2, <3>3
  <2>5. /\ service'.code = service.code /\ service'.mode = service.mode /\ service'.count = service.count
        /\ (service'.trial <=> service.trial)
    BY <1>1, <2>1 DEF ServiceType
  <2>6. ServiceFits' /\ service' # NoService
    <3>1. ~service.trial => /\ Agree(service.code, service.mode, service.count)
                            /\ (service.mode = "single" => service.count = 1)
      BY <1>1, <2>3 DEF ServiceFits
    <3>2. ServiceFits'
      BY <2>5, <3>1 DEF ServiceFits, Agree
    <3>3. service' # NoService
      <4>1. NoService.mode = "single" /\ NoService.count = 0 /\ ~NoService.trial
        BY DEF NoService
      <4> QED
        BY <2>5, <3>1, <4>1
    <3> QED
      BY <3>2, <3>3
  <2>7. screen' \in ScreenType /\ ScreenFits(screen)'
    BY <2>1, <2>3, <2>5, <2>6, OutdatedFits
  <2>8. ShopTypes'
    BY <1>1, <2>1, <2>2, <2>4, <2>7 DEF ShopTypes, PriceListIsTyped
  <2> QED
    BY <2>6, <2>7, <2>8 DEF ShopInv
<1>4. CASE PricesChange
  <2>1. ConsoleNext /\ screen' = Outdated /\ service' = service /\ amount' = amount
    BY <1>4 DEF PricesChange
  <2>2. screen' \in ScreenType /\ ScreenFits(screen)'
    BY <2>1, OutdatedFits
  <2>3. /\ rules' \in RuleBook /\ tariff' \in Standings \cup {NoRow}
        /\ pack' \in [price : Nat, enabled : BOOLEAN] \cup {NoPack} /\ upsell' \in Upsells
    BY <1>1, <2>1, ConsoleTypes DEF ShopTypes
  <2>4. ServiceFits' /\ ShopTypes'
    BY <1>1, <2>1, <2>2, <2>3 DEF ShopTypes, PriceListIsTyped, ServiceFits, Agree
  <2> QED
    BY <2>2, <2>4 DEF ShopInv
<1> QED
  BY <1>2, <1>3, <1>4

LEMMA ShopInitInv == ShopInit => ShopInv
<1> SUFFICES ASSUME ShopInit PROVE ShopInv
  OBVIOUS
<1>1. rules \in RuleBook /\ tariff = NoRow /\ pack \in Packs /\ upsell \in Upsells
  BY DEF ShopInit, TariffsInit
<1>2. screen = Menu /\ service = NoService /\ amount = 0
  BY DEF ShopInit
<1>3. NoService \in ServiceType
  BY CodesAreNumbers, ModesAre, MaxDevicesAssumption, CycleAssumption DEF NoService, ServiceType
<1>4. ShopTypes
  BY <1>1, <1>2, <1>3, MenuFits, PriceListAssumption DEF ShopTypes, PriceListIsTyped
<1> QED
  BY <1>2, <1>4, MenuFits DEF ShopInv, ServiceFits

LEMMA ShopNextInv == ShopInv /\ [ShopNext]_shopVars => ShopInv'
<1> SUFFICES ASSUME ShopInv, [ShopNext]_shopVars PROVE ShopInv'
  OBVIOUS
<1>1. ASSUME \/ BuyNew
             \/ \E mode \in Modes : ChooseMode(mode)
             \/ \E d \in {-1, 1} : SetCount(d)
             \/ ConfirmCount
             \/ \E code \in {Less(screen.code), More(screen.code), NoLimit} : SetTraffic(code)
             \/ BackToDevices
             \/ BillIsDropped
      PROVE ShopInv'
  BY <1>1, ChoosingKeeps
<1>2. ASSUME \/ \E early \in BOOLEAN : Renew(early)
             \/ ConfirmTraffic
             \/ \E d \in {-1, 1} : SetMonths(d)
      PROVE ShopInv'
  BY <1>2, MonthsKeep
<1>3. ASSUME ConfirmMonths \/ OpenPacks \/ BuyPack \/ PreviewDevice \/ ConfirmDevice PROVE ShopInv'
  BY <1>3, ConfirmMonthsKeeps, PackKeeps, DeviceKeeps
<1>4. ASSUME OpenTopup \/ CancelTopup \/ ConfirmAmount \/ \E a \in Sums : TypeAmount(a) \/ StepAmount(a)
      PROVE ShopInv'
  BY <1>4, AmountKeeps
<1>5. ASSUME BillIsPaid \/ TakeTrial \/ DaysPass \/ PricesChange PROVE ShopInv'
  BY <1>5, PaidKeeps, AroundKeeps
<1>6. CASE UNCHANGED shopVars
  <2>1. screen' = screen /\ amount' = amount /\ UNCHANGED <<tariffVars, service>>
    BY <1>6 DEF shopVars
  <2>2. screen \in ScreenType /\ ScreenFits(screen) /\ amount \in Nat
    BY DEF ShopInv, ShopTypes
  <2> QED
    BY <2>1, <2>2, ShowKeeps
<1> QED
  BY <1>1, <1>2, <1>3, <1>4, <1>5, <1>6 DEF ShopNext

LEMMA ShopInvProps == ShopInv => ShopTypeOK /\ ShopIsHonest
<1> SUFFICES ASSUME ShopInv PROVE ShopTypeOK /\ ShopIsHonest
  OBVIOUS
<1>1. ShopTypes /\ PriceListIsTyped /\ screen \in ScreenType /\ service \in ServiceType
  BY DEF ShopInv, ShopTypes
<1>2. ShopTypeOK
  <2>1. /\ rules \in RuleBook /\ tariff \in Standings \cup {NoRow}
        /\ pack \in Packs \cup {NoPack} \cup [price : Nat, enabled : BOOLEAN]
        /\ upsell \in Upsells /\ amount \in Nat
    BY <1>1 DEF ShopTypes, PriceListIsTyped
  <2>2. /\ screen.at \in {"menu", "devices", "count", "traffic", "months", "packs", "device", "amount", "bill"}
        /\ screen.code \in PackageCodes /\ screen.mode \in Modes /\ screen.count \in 0..MaxDevices
        /\ screen.months \in 1..LongestPeriod /\ screen.most \in 1..LongestPeriod
        /\ screen.shown \in Texts /\ screen.asked \in Texts
    BY <1>1 DEF ScreenType, Places
  <2>3. /\ service.code \in PackageCodes /\ service.mode \in Modes /\ service.count \in 0..MaxDevices
        /\ service.left \in 0..Cycle
    BY <1>1 DEF ServiceType
  <2> QED
    BY <2>1, <2>2, <2>3 DEF ShopTypeOK
<1>3. SoldAsShown
  BY DEF ShopInv, ScreenFits, SoldAsShown, At
<1>4. MoreNeverCostsLess
  BY <1>1, PricesGrow DEF ScreenType
<1> QED
  BY <1>2, <1>3, <1>4 DEF ShopIsHonest

\* A bill says what the screen it was asked for on had said - the sum, the months, the
\* devices - unless something the price depends on changed in between, and of two choices
\* the one that includes the other never costs less: for any price list on the shop's scale,
\* whatever is saved in the console meanwhile and whichever old button is pressed
\* (choose_months, confirm_add_device, calculate_tariff_basket).
THEOREM ShopStaysHonest == ShopSpec => []ShopIsHonest
<1>1. ShopSpec => []ShopInv
  BY ShopInitInv, ShopNextInv, PTL DEF ShopSpec
<1> QED
  BY <1>1, ShopInvProps, PTL

-----------------------------------------------------------------------------
(* The four components side by side.                                       *)

\* Rows, backups, pages, prices and screens are well-formed: names and sources of nodes
\* are unique, every backup is of a file that was there, no profile is locked twice, and
\* every choice a screen carries is one of the shop.
THEOREM SettingsTypeCorrect == SettingsSpec => []SettingsTypeOK
<1> DEFINE All == NodesInv /\ DeployInv /\ RoutingInv /\ ShopInv
<1>1. SettingsInit => All
  BY NodesInitInv, DeployInitInv, RoutingInitInv, ShopInitInv
     DEF SettingsInit, ConsoleInit
<1>2. All /\ [SettingsNext]_settingsVars => All'
  <2> SUFFICES ASSUME All, [SettingsNext]_settingsVars PROVE All'
    OBVIOUS
  <2>1. [NodesNext]_nodeVars /\ [DeployNext]_deployVars /\ [RoutingNext]_routingVars /\ [ShopNext]_shopVars
    BY DEF SettingsNext, settingsVars, consoleVars
  <2> QED
    BY <2>1, NodesNextInv, DeployNextInv, RoutingNextInv, ShopNextInv
<1>3. All => SettingsTypeOK
  BY NodesInvProps, DeployInvProps, RoutingInvProps, ShopInvProps DEF SettingsTypeOK
<1> QED
  BY <1>1, <1>2, <1>3, PTL DEF SettingsSpec
=============================================================================
