--------------------------------- MODULE Nodes ---------------------------------
(***************************************************************************)
(* The registry of VPN nodes: the sync with the panel (sync_node_registry  *)
(* in src/app/services/marzban.py and                                      *)
(* src/app/db/repositories/node_registry.py), the probe with its alert     *)
(* (src/app/services/node_probe.py), the selection of a node               *)
(* (src/app/services/node_policy.py) and the node page of                  *)
(* src/app/web/routes.py.                                                  *)
(*                                                                         *)
(* The panel is read over HTTP before the rows are: its nodes may come,    *)
(* go, be disabled or be created anew, with a new id and the old name, in  *)
(* between.  A sync is one transaction: a node whose code another row      *)
(* holds breaks the session, and the whole sync is rolled back.            *)
(*                                                                         *)
(* Tags, locations, transports and weights of the selection are one tag,   *)
(* and the order among equals is a choice.                                 *)
(***************************************************************************)
EXTENDS Naturals, FiniteSets, FiniteSetsExt

CONSTANTS Rows,       \* ids of node_registry
          Sources,    \* ids of nodes in the panel
          Names,      \* codes, made from the names of the nodes
          NodePages,      \* node pages of the console
          Threshold,  \* NODE_DOWN_ALERT_THRESHOLD
          MaxTurns    \* bound on the changes of the panel and by admins

ASSUME NodesAssumption == Threshold \in Nat \ {0} /\ MaxTurns \in Nat

NoSource == "none"
Failure == "error"

ASSUME NoSourceAssumption == NoSource \notin Sources

States == {"never_synced", "synced", "missing"}
NodeStatuses == {"unknown", "active", "disabled"}
Healths == {"unknown", "healthy", "disabled"}

VARIABLES node,      \* rows: [there, name, source, state, status, enabled, default, health, fails]
          panelNode,     \* the panel: [there, name, status] by source
          syncing,   \* the sync: what it read of the panel, or the marker "idle"
          probing,   \* the probe: what it read, Failure, or "idle"
          nodePage,  \* a page that sets the default: its row, and the rows it will clear
          cooling,   \* the cooldown of node_down runs
          turns,     \* changes so far
          listed,    \* history: what the last sync that committed had read
          alerts     \* history: alerts since the last good probe, by row

nodeHistory == <<listed, alerts>>
nodeVars == <<node, panelNode, syncing, probing, nodePage, cooling, turns, nodeHistory>>

NoNode == [there |-> FALSE, name |-> "none", source |-> NoSource, state |-> "never_synced",
           status |-> "unknown", enabled |-> FALSE, default |-> FALSE,
           health |-> "unknown", fails |-> 0]
NoPanelNode == [there |-> FALSE, name |-> "none", status |-> "unknown"]
IdleSync == [at |-> "idle", seen |-> [x \in Sources |-> NoPanelNode]]
NoChoice == [row |-> 0, clears |-> {}]

NodesInit ==
  /\ node = [r \in Rows |-> NoNode]
  /\ panelNode = [x \in Sources |-> NoPanelNode]
  /\ syncing = IdleSync
  /\ probing = IdleSync
  /\ nodePage = [g \in NodePages |-> NoChoice]
  /\ cooling = FALSE
  /\ turns = 0
  /\ listed = panelNode
  /\ alerts = [r \in Rows |-> 0]

Turn == turns < MaxTurns /\ turns' = turns + 1
Held(name) == {r \in Rows : node[r].there /\ node[r].name = name}
RowOf(x) == {r \in Rows : node[r].there /\ node[r].source = x}
Defaults == {r \in Rows : node[r].default}

-----------------------------------------------------------------------------
(* The panel                                                               *)

\* A node is added; names are unique in the panel, and free again when a node
\* is removed.
PanelAdds(x, name) ==
  /\ ~panelNode[x].there
  /\ \A y \in Sources : panelNode[y].there => panelNode[y].name # name
  /\ Turn
  /\ panelNode' = [panelNode EXCEPT ![x] = [there |-> TRUE, name |-> name, status |-> "active"]]
  /\ UNCHANGED <<node, syncing, probing, nodePage, cooling, nodeHistory>>

PanelChanges(x) ==
  /\ panelNode[x].there
  /\ Turn
  /\ \/ panelNode' = [panelNode EXCEPT ![x] = NoPanelNode]
     \/ panelNode' = [panelNode EXCEPT ![x].status = IF @ = "active" THEN "disabled" ELSE "active"]
  /\ UNCHANGED <<node, syncing, probing, nodePage, cooling, nodeHistory>>

-----------------------------------------------------------------------------
(* sync_node_registry                                                      *)

SyncReads ==
  /\ syncing.at = "idle"
  /\ syncing' = [at |-> "read", seen |-> panelNode]
  /\ UNCHANGED <<node, panelNode, probing, nodePage, cooling, turns, nodeHistory>>

Seen(x) == syncing.seen[x].there
Adoptable(x) == {r \in Held(syncing.seen[x].name) : node[r].source = NoSource}

\* mutation: two rows may share a code
CollidesNever(x) == FALSE

\* The code of a node that is new is held by the row of another node.
Collides(x) == Seen(x) /\ RowOf(x) = {} /\ Held(syncing.seen[x].name) \ Adoptable(x) # {}

\* sync_from_source: the row of the source, or of its code when that has none.
Fetched(r, x) ==
  [node[r] EXCEPT !.there = TRUE, !.source = x, !.state = "synced",
                  !.status = syncing.seen[x].status,
                  !.name = IF node[r].there THEN @ ELSE syncing.seen[x].name,
                  !.enabled = @ \/ ~node[r].there,
                  !.health = IF @ = "unknown" /\ syncing.seen[x].status = "active"
                             THEN "healthy" ELSE @]

\* mutation: rows of nodes that are gone keep their state
StillThere(r) == node[r]

Unseen(r) == IF node[r].source = NoSource THEN node[r] ELSE [node[r] EXCEPT !.state = "missing"]

\* A row for each node that was read; a node that is new takes a free row.
SyncCommits ==
  /\ syncing.at = "read"
  /\ \A x \in Sources : ~Collides(x)
  /\ \E place \in [{x \in Sources : Seen(x)} -> Rows] :
       /\ \A x, y \in DOMAIN place : place[x] = place[y] => x = y
       /\ \A x \in DOMAIN place :
            IF RowOf(x) # {} THEN place[x] \in RowOf(x)
            ELSE IF Adoptable(x) # {} THEN place[x] \in Adoptable(x)
            ELSE ~node[place[x]].there
       /\ node' = [r \in Rows |->
                     IF \E x \in DOMAIN place : place[x] = r
                     THEN Fetched(r, CHOOSE x \in DOMAIN place : place[x] = r)
                     ELSE Unseen(r)]
  /\ syncing' = IdleSync
  /\ listed' = syncing.seen
  /\ UNCHANGED <<panelNode, probing, nodePage, cooling, turns, alerts>>

\* A collision, or an error of the panel or the database.
SyncFails ==
  /\ syncing.at = "read"
  /\ syncing' = IdleSync
  /\ UNCHANGED <<node, panelNode, probing, nodePage, cooling, turns, nodeHistory>>

-----------------------------------------------------------------------------
(* probe_all                                                               *)

ProbeReads(outcome) ==
  /\ probing.at = "idle"
  /\ probing' = [at |-> outcome, seen |-> IF outcome = Failure THEN probing.seen ELSE panelNode]
  /\ UNCHANGED <<node, panelNode, syncing, nodePage, cooling, turns, nodeHistory>>

\* _resolve_probe_status.
ProbeOk(r) ==
  /\ probing.at = "read"
  /\ node[r].source # NoSource
  /\ probing.seen[node[r].source].status = "active"

Probed == {r \in Rows : node[r].there /\ node[r].enabled}

\* mutation: the alert is for every failure from the threshold on
AlarmedOften(r) == ~ProbeOk(r) /\ node[r].fails + 1 >= Threshold

Alarmed(r) == ~ProbeOk(r) /\ node[r].fails + 1 = Threshold

\* All alarms of a tick ask for one cooldown, that of the admin: the first
\* gets it.
Alerts(A) == IF cooling \/ A = {} THEN {{}} ELSE {{r} : r \in A}

ProbeCommits ==
  /\ probing.at # "idle"
  /\ node' = [r \in Rows |->
                IF r \notin Probed THEN node[r]
                ELSE [node[r] EXCEPT !.fails = IF ProbeOk(r) THEN 0 ELSE Min({@ + 1, Threshold + 1})]]
  /\ \E sent \in Alerts({r \in Probed : Alarmed(r)}) :
       /\ alerts' = [r \in Rows |-> IF r \in sent THEN alerts[r] + 1
                                    ELSE IF r \in Probed /\ ProbeOk(r) THEN 0 ELSE alerts[r]]
       /\ cooling' = (cooling \/ sent # {})
  /\ probing' = IdleSync
  /\ UNCHANGED <<panelNode, syncing, nodePage, turns, listed>>

\* The transaction is rolled back; a cooldown it took in Redis stays.
ProbeFails ==
  /\ probing.at # "idle"
  /\ cooling' = (cooling \/ \E r \in Probed : Alarmed(r))
  /\ probing' = IdleSync
  /\ UNCHANGED <<node, panelNode, syncing, nodePage, turns, nodeHistory>>

AlertCooldownEnds ==
  /\ cooling
  /\ cooling' = FALSE
  /\ UNCHANGED <<node, panelNode, syncing, probing, nodePage, turns, nodeHistory>>

-----------------------------------------------------------------------------
(* The console                                                             *)

\* upsert of a new node, without a source.
PageCreates(r, name) ==
  /\ ~node[r].there /\ Held(name) = {}
  /\ Turn
  /\ node' = [node EXCEPT ![r] = [NoNode EXCEPT !.there = TRUE, !.name = name, !.enabled = TRUE]]
  /\ UNCHANGED <<panelNode, syncing, probing, nodePage, cooling, nodeHistory>>

\* upsert of an existing node, whose form clears the default unless it is
\* ticked, and set_health, which leaves it.
PageEdits(r, enabled, health) ==
  /\ node[r].there
  /\ Turn
  /\ \E default \in {FALSE, node[r].default} :
       node' = [node EXCEPT ![r].enabled = enabled, ![r].health = health, ![r].default = default]
  /\ UNCHANGED <<panelNode, syncing, probing, nodePage, cooling, nodeHistory>>

\* set_default, and an upsert with the tick: the page locks its row and reads
\* which rows to clear; it writes them before it commits.
PageClearsDefault(g, r) ==
  /\ nodePage[g] = NoChoice
  /\ node[r].there
  /\ \A h \in NodePages : nodePage[h].row # r
  /\ Turn
  /\ nodePage' = [nodePage EXCEPT ![g] = [row |-> r, clears |-> Defaults \ {r}]]
  /\ UNCHANGED <<node, panelNode, syncing, probing, cooling, nodeHistory>>

PageSetsDefault(g) ==
  /\ nodePage[g] # NoChoice
  /\ node' = [r \in Rows |->
                [node[r] EXCEPT !.default = r = nodePage[g].row \/ (@ /\ r \notin nodePage[g].clears)]]
  /\ nodePage' = [nodePage EXCEPT ![g] = NoChoice]
  /\ UNCHANGED <<panelNode, syncing, probing, cooling, turns, nodeHistory>>

-----------------------------------------------------------------------------
(* select_node, for a request that does not allow missing sources          *)

\* _is_routable: allow_degraded makes no difference, and both healths are one.
Routable(r) ==
  /\ node[r].there
  /\ node[r].enabled
  /\ node[r].health = "healthy"
  /\ node[r].status # "disabled"
  /\ node[r].state # "missing"

\* The rows that may be chosen when those in matching meet the request: the
\* best of them, else the default, else any.
Selected(matching) ==
  LET routable == {r \in Rows : Routable(r)}
      first == {r \in Defaults : \A d \in Defaults : r <= d}
  IN  IF matching \cap routable # {} THEN matching \cap routable
      ELSE IF first # {} /\ first \subseteq routable THEN first
      ELSE routable

-----------------------------------------------------------------------------
NodesNext ==
  \/ \E x \in Sources, name \in Names : PanelAdds(x, name)
  \/ \E x \in Sources : PanelChanges(x)
  \/ SyncReads \/ SyncCommits \/ SyncFails
  \/ \E outcome \in {"read", Failure} : ProbeReads(outcome)
  \/ ProbeCommits \/ ProbeFails \/ AlertCooldownEnds
  \/ \E r \in Rows, name \in Names : PageCreates(r, name)
  \/ \E r \in Rows, enabled \in BOOLEAN, health \in Healths : PageEdits(r, enabled, health)
  \/ \E g \in NodePages, r \in Rows : PageClearsDefault(g, r)
  \/ \E g \in NodePages : PageSetsDefault(g)

NodesSpec == NodesInit /\ [][NodesNext]_nodeVars

-----------------------------------------------------------------------------
(* Properties                                                              *)

\* Types; no two rows have one code or one source, the unique columns of
\* node_registry, which neither the sync nor the page may run into.
NodesTypeOK ==
  /\ node \in [Rows -> [there : BOOLEAN, name : Names \cup {"none"},
                        source : Sources \cup {NoSource}, state : States, status : NodeStatuses,
                        enabled : BOOLEAN, default : BOOLEAN, health : Healths,
                        fails : 0..(Threshold + 1)]]
  /\ syncing.at \in {"idle", "read"} /\ probing.at \in {"idle", "read", Failure}
  /\ turns \in 0..MaxTurns /\ cooling \in BOOLEAN
  /\ \A r, q \in Rows :
       /\ node[r].there /\ node[q].there /\ node[r].name = node[q].name => r = q
       /\ node[r].source = node[q].source /\ node[r].source # NoSource => r = q

\* A run of failed probes alarms the admins once at most, however long it
\* lasts and whatever the panel, the sync and the admins do meanwhile.
AlertOncePerStreak == \A r \in Rows : alerts[r] <= 1

\* A node is not chosen unless the last sync that was committed had seen its
\* source in the panel, and not disabled: a node that was removed, or whose
\* row the sync failed to follow, is never given to a user.
SelectedWasListed ==
  \A matching \in SUBSET Rows : \A r \in Selected(matching) :
    node[r].source # NoSource => listed[node[r].source].status = "active"

\* What the registry concludes from old news is right: whom it alarms about,
\* and whom it offers.
RegistryIsTrusted == AlertOncePerStreak /\ SelectedWasListed
=============================================================================
