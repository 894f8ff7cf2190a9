----------------------------- MODULE MCSettings ------------------------------
(***************************************************************************)
(* What administrators set up in the console, side by side - the nodes,    *)
(* the files of Marzban, the routing profiles, and the price list with the *)
(* dialogue that sells from it.                                            *)
(***************************************************************************)
EXTENDS MCFocus, Nodes, Deployment, RoutingProfiles, MCShop

CONSTANTS n1, e1, e2

OneNodePage == {n1}
TwoEditors == {e1, e2}

consoleVars == <<nodeVars, deployVars, routingVars, shopVars>>
settingsVars == <<focus, consoleVars>>

ConsoleInit ==
  /\ NodesInit /\ RoutingInit
  /\ ShopInit /\ (On("shop") \/ rules = UsualRules)
  /\ DeployInit /\ (On("deployment") \/ (about = "env" /\ live["env"] = Blank))

SettingsInit == focus \in {"nodes", "deployment", "routing", "shop"} /\ ConsoleInit

SettingsNext ==
  /\ UNCHANGED focus
  /\ \/ On("nodes") /\ NodesNext /\ UNCHANGED <<deployVars, routingVars, shopVars>>
     \/ On("deployment") /\ DeployNext /\ UNCHANGED <<nodeVars, routingVars, shopVars>>
     \/ On("routing") /\ RoutingNext /\ UNCHANGED <<nodeVars, deployVars, shopVars>>
     \/ On("shop") /\ ShopNext /\ UNCHANGED <<nodeVars, deployVars, routingVars>>

SettingsSpec == SettingsInit /\ [][SettingsNext]_settingsVars

\* The type invariants of all four.
SettingsTypeOK == NodesTypeOK /\ DeployTypeOK /\ RoutingTypeOK /\ ShopTypeOK
=============================================================================
