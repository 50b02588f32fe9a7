----------------------------- MODULE MCContent ------------------------------
(***************************************************************************)
(* One instance of what orders and dispatches change outside the database  *)
(* of orders: a cluster, StackStorm, repositories and the files in them,   *)
(* the steps of recipes and the shipped recipes of the remediation.  As in *)
(* MCServices one of them is in the focus.  Each has its types in the      *)
(* property that is proved of it.                                          *)
(***************************************************************************)
EXTENDS Cluster, StackStorm, Proposals, RecipeSteps, RuleDocuments, Remediation

VARIABLE focus   \* the one that changes

Changed ==
  { "cluster", "StackStorm", "proposals", "recipe steps", "rule documents", "remediation" }

adapterSide == << clusterVars, stackStormVars, proposalVars >>
recipeSide == << recipeVars, documentVars, remediationVars >>

Only(part, others) == focus = part /\ UNCHANGED focus /\ UNCHANGED others

(* One that is out of the focus stays in a first state, one of them.       *)
Pinned(part, first) == focus # part => first

ContentInit ==
  /\ focus \in Changed
  /\ ClusterInit
  /\ StackStormInit /\ Pinned("StackStorm", \A a \in ShippedActions : definitions[a] = "shipped")
  /\ ProposalsInit
  /\ Pinned("proposals", \A d \in GitHubDispatches : proposer[d].branch = CHOOSE b \in Branches : TRUE)
  /\ RecipesInit /\ Pinned("recipe steps", owner = "nobody")
  /\ DocumentsInit
  /\ RemediationInit /\ Pinned("remediation", plugins = CorePlugins /\ workflows = {})

ContentNext ==
  \/ Only("cluster", << stackStormVars, proposalVars, recipeSide >>) /\ ClusterNext
  \/ Only("StackStorm", << clusterVars, proposalVars, recipeSide >>) /\ StackStormNext
  \/ Only("proposals", << clusterVars, stackStormVars, recipeSide >>) /\ ProposalsNext
  \/ Only("recipe steps", << documentVars, remediationVars, adapterSide >>) /\ RecipesNext
  \/ Only("rule documents", << recipeVars, remediationVars, adapterSide >>) /\ DocumentsNext
  \/ Only("remediation", << recipeVars, documentVars, adapterSide >>) /\ RemediationNext

contentVars == << focus, adapterSide, recipeSide >>

ContentSpec == ContentInit /\ [][ContentNext]_contentVars
=============================================================================
