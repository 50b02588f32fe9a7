---------------------------- MODULE RecipeSteps -----------------------------
(***************************************************************************)
(* The steps of a recipe, those who write them, and the dish planned from  *)
(* them while they do:                                                     *)
(*   - the ingredient registry retires an ingredient when the code ships   *)
(*     another contract for it, so that recipes name a retired one;        *)
(*   - the Dishwasher registers the ingredients, writes the communications *)
(*     policy and then the recipe templates of the plugins, round by round;*)
(*   - the content sync of genestack_monitoring writes the recipes it      *)
(*     manages; operators edit all of them;                                *)
(*   - the dispatch of a resolving order plans the recipe's steps into the *)
(*     order's dish again and again, each step once.                       *)
(*                                                                         *)
(* A step is known by its recipe and its key; it names an ingredient by    *)
(* the version of its contract.  A step that is deleted loses the rows     *)
(* that were planned from it (they are detached), so that one made anew    *)
(* under the same key is another step.                                     *)
(***************************************************************************)
EXTENDS Naturals, FiniteSets

CONSTANTS
  Routes,       \* the communication routes that the plugins offer
  MaxUpgrades,  \* bound on the contracts that change
  MaxRows       \* bound on the rows of the dish

ASSUME RecipeAssumption ==
  /\ Routes # {} /\ IsFiniteSet(Routes)
  /\ Routes \cap {"act1", "act2", "own"} = {}
  /\ MaxUpgrades \in Nat /\ MaxRows \in Nat

VARIABLES
  owner,        \* who ships the recipe "flow"
  shipped,      \* the contracts in the code
  active,       \* the active ingredients
  wanted,       \* the steps that the content sync derives from the repository
  recipe,       \* each recipe: absent, disabled or enabled
  managed,      \* the description of "flow" has the mark of the content sync
  named,         \* the contract that each step names, 0 without the step
  on,           \* the route of the step is enabled
  dishwasher,   \* the Dishwasher's round
  rows,         \* of each step: the rows in the order's dish, and one is linked to it
  calm          \* since the first row nobody changed what is to be planned

recipeVars == << owner, shipped, active, wanted, recipe, managed, named, on,
                 dishwasher, rows, calm >>

Kinds == {"act", "talk"}
ActKeys == {"act1", "act2", "own"}
StepKeys == ActKeys \cup Routes
RecipeNames == {"policy", "fallback", "flow"}
Versions == 0 .. MaxUpgrades + 1
Contracts == [Kinds -> Versions]

StepRows == [planned : 0 .. MaxRows, linked : BOOLEAN]
Round == [at : {"idle", "registered", "looking", "patching"},
          ids : Contracts, clean : BOOLEAN]

RecipesTypeOK ==
  /\ owner \in {"template", "managed", "nobody"}
  /\ shipped \in Contracts /\ active \in Contracts
  /\ wanted \in {{"act1"}, {"act1", "act2"}}
  /\ recipe \in [RecipeNames -> {"absent", "disabled", "enabled"}]
  /\ managed \in BOOLEAN /\ calm \in BOOLEAN
  /\ named \in [RecipeNames -> [StepKeys -> Versions]]
  /\ on \in [RecipeNames -> [Routes -> BOOLEAN]]
  /\ dishwasher \in Round
  /\ rows \in [RecipeNames -> [StepKeys -> StepRows]]

NoSteps == [k \in StepKeys |-> 0]

RecipesInit ==
  /\ owner \in {"template", "managed", "nobody"}
  /\ shipped = [k \in Kinds |-> 1]
  /\ active = [k \in Kinds |-> 0]
  /\ wanted = {"act1"}
  /\ recipe = [n \in RecipeNames |-> "absent"]
  /\ managed = FALSE /\ calm = FALSE
  /\ named = [n \in RecipeNames |-> NoSteps]
  /\ on = [n \in RecipeNames |-> [r \in Routes |-> FALSE]]
  /\ dishwasher = [at |-> "idle", ids |-> active, clean |-> FALSE]
  /\ rows = [n \in RecipeNames |-> [k \in StepKeys |-> [planned |-> 0, linked |-> FALSE]]]

Ships(keys) == [k \in StepKeys |-> IF k \in keys THEN active["act"] ELSE 0]
OwnRoutes(n) == {r \in Routes : named[n][r] # 0}
Enabled(n) == {r \in OwnRoutes(n) : on[n][r]}

(* delete_recipe_ingredients_safely, detach_recipe_ingredient_ids_safely   *)
Detached(n, keys) ==
  [k \in StepKeys |-> [rows[n][k] EXCEPT !.linked = @ /\ k \notin keys]]

-----------------------------------------------------------------------------
(* Ingredients.                                                            *)

Upgrade(k) ==
  /\ shipped["act"] + shipped["talk"] < 2 + MaxUpgrades
  /\ shipped' = [shipped EXCEPT ![k] = @ + 1]
  /\ UNCHANGED << owner, active, wanted, recipe, managed, named, on, dishwasher, rows, calm >>

(* register_ingredient_templates: another contract retires the ingredient. *)
Register ==
  /\ active' = shipped
  /\ calm' = (calm /\ active = shipped)
  /\ UNCHANGED << owner, shipped, wanted, recipe, managed, named, on, rows >>

BootstrapIngredients == Register /\ UNCHANGED dishwasher

(* run_sync, its first call. *)
StartSync ==
  /\ dishwasher.at = "idle"
  /\ Register
  /\ dishwasher' = [at |-> "registered", ids |-> shipped, clean |-> TRUE]

SyncFails ==
  /\ dishwasher.at # "idle"
  /\ dishwasher' = [dishwasher EXCEPT !.at = "idle", !.clean = FALSE]
  /\ UNCHANGED << owner, shipped, active, wanted, recipe, managed, named, on, rows, calm >>

-----------------------------------------------------------------------------
(* Communications.                                                         *)

(* replace_recipe_communication_steps: a step that is kept is changed in   *)
(* its place, one that is not is deleted.                                  *)
AllReplaced(n, routes) == Detached(n, OwnRoutes(n))
Kept(n, routes) == Detached(n, OwnRoutes(n) \ routes)

WithRoutes(n, routes) ==
  [k \in StepKeys |-> IF k \in ActKeys THEN named[n][k]
                      ELSE IF k \in routes THEN active["talk"] ELSE 0]

(* put_communications_policy: sync_global_policy_routes writes every       *)
(* route, sync_fallback_policy_recipe the enabled ones; one transaction.   *)
PutPolicy(routes, enabled) ==
  /\ routes # {} => active["talk"] # 0
  /\ named' = [named EXCEPT !["policy"] = WithRoutes("policy", routes),
                          !["fallback"] = WithRoutes("fallback", enabled)]
  /\ on' = [on EXCEPT !["policy"] = [r \in Routes |-> r \in enabled],
                      !["fallback"] = [r \in Routes |-> r \in enabled]]
  /\ recipe' = [recipe EXCEPT !["policy"] = "enabled",
                              !["fallback"] = IF enabled = {} THEN "disabled" ELSE "enabled"]
  /\ rows' = [rows EXCEPT !["policy"] = Kept("policy", routes),
                          !["fallback"] = Kept("fallback", enabled)]
  /\ UNCHANGED << owner, shipped, active, wanted, managed >>

AdminPutsPolicy ==
  /\ \E routes \in SUBSET Routes : \E enabled \in SUBSET routes : PutPolicy(routes, enabled)
  /\ calm' = FALSE
  /\ UNCHANGED dishwasher

(* sync_plugin_communication_routes: the plugins' routes, all enabled.  The *)
(* round goes on when they are refused.                                    *)
AfterPolicy == IF owner = "template" THEN "looking" ELSE "idle"
SyncPolicy ==
  /\ dishwasher.at = "registered"
  /\ PutPolicy(Routes, Routes)
  /\ dishwasher' = [dishwasher EXCEPT !.at = AfterPolicy]
  /\ UNCHANGED calm

SyncPolicyRefused ==
  /\ dishwasher.at = "registered"
  /\ dishwasher' = [dishwasher EXCEPT !.at = AfterPolicy, !.clean = FALSE]
  /\ UNCHANGED << owner, shipped, active, wanted, recipe, managed, named, on, rows, calm >>

-----------------------------------------------------------------------------
(* The recipe.                                                             *)

(* _validate_effective_communications *)
Communicates(routes, enabled) ==
  IF routes # {} THEN enabled # {} ELSE Enabled("policy") # {}

(* update_recipe and create_recipe with steps: all are deleted and made    *)
(* again, the communication steps as they are.                             *)
WriteSteps(keys, state) ==
  /\ active["act"] # 0
  /\ state = "enabled" => Communicates(OwnRoutes("flow"), Enabled("flow"))
  /\ named' = [named EXCEPT !["flow"] =
       [k \in StepKeys |-> IF k \in Routes THEN @[k] ELSE Ships(keys)[k]]]
  /\ recipe' = [recipe EXCEPT !["flow"] = state]
  /\ rows' = [rows EXCEPT !["flow"] = Detached("flow", StepKeys)]
  /\ UNCHANGED << owner, shipped, active, wanted, on >>

EditSteps ==
  /\ \E keys \in {{"act1"}, {"act1", "own"}}, state \in {"disabled", "enabled"} :
       WriteSteps(keys, state)
  /\ managed' \in {FALSE, managed}      \* the description may be edited
  /\ calm' = FALSE
  /\ UNCHANGED dishwasher

(* update_recipe with communications: local routes, or the policy's.       *)
EditCommunications ==
  /\ recipe["flow"] # "absent"
  /\ \E routes \in SUBSET Routes : \E enabled \in SUBSET routes :
       /\ recipe["flow"] = "enabled" => Communicates(routes, enabled)
       /\ routes # {} => active["talk"] # 0
       /\ named' = [named EXCEPT !["flow"] = WithRoutes("flow", routes)]
       /\ on' = [on EXCEPT !["flow"] = [r \in Routes |-> r \in enabled]]
  /\ rows' = [rows EXCEPT !["flow"] = Detached("flow", StepKeys)]
  /\ calm' = FALSE
  /\ UNCHANGED << owner, shipped, active, wanted, recipe, managed, dishwasher >>

(* delete_recipe only disables. *)
DisableRecipe ==
  /\ recipe["flow"] = "enabled"
  /\ recipe' = [recipe EXCEPT !["flow"] = "disabled"]
  /\ calm' = FALSE
  /\ UNCHANGED << owner, shipped, active, wanted, managed, named, on, dishwasher, rows >>

(* _recipe_contracts_match: the steps name the ingredients of this round.  *)
MatchesByKey ==
  /\ recipe["flow"] = "enabled"
  /\ \A k \in ActKeys : named["flow"][k] # 0 <=> k = "act1"
Matches ==
  /\ recipe["flow"] = "enabled"
  /\ \A k \in ActKeys : named["flow"][k] = (IF k = "act1" THEN dishwasher.ids["act"] ELSE 0)

(* _sync_plugin_recipes looks a recipe up by its name; the POST or PATCH   *)
(* is another call and refused when its ingredients are retired by then.   *)
LookUpRecipe ==
  /\ dishwasher.at = "looking"
  /\ dishwasher' = [dishwasher EXCEPT !.at = IF Matches THEN "idle" ELSE "patching"]
  /\ UNCHANGED << owner, shipped, active, wanted, recipe, managed, named, on, rows, calm >>

PatchRecipe ==
  /\ dishwasher.at = "patching"
  /\ active["act"] = dishwasher.ids["act"]
  /\ WriteSteps({"act1"}, "enabled")
  /\ dishwasher' = [dishwasher EXCEPT !.at = "idle"]
  /\ UNCHANGED << managed, calm >>

-----------------------------------------------------------------------------
(* The content sync.                                                       *)

RepositoryChanges ==
  /\ owner = "managed"
  /\ wanted' = (IF wanted = {"act1"} THEN {"act1", "act2"} ELSE {"act1"})
  /\ calm' = FALSE
  /\ UNCHANGED << owner, shipped, active, recipe, managed, named, on, dishwasher, rows >>

(* upsert_recipes, one transaction: its steps are matched by their index,  *)
(* the others left alone.  A stale step is deleted without detaching its   *)
(* rows: the database refuses when there are any, and nothing is written.  *)
Stale == {k \in {"act1", "act2"} \ wanted : named["flow"][k] # 0}
SyncContent ==
  /\ owner = "managed" /\ active["act"] # 0
  /\ recipe["flow"] = "absent" \/ managed
  /\ \A k \in Stale : ~rows["flow"][k].linked
  /\ named' = [named EXCEPT !["flow"] =
       [k \in StepKeys |-> IF k \in {"act1", "act2"} THEN Ships(wanted)[k] ELSE @[k]]]
  /\ recipe' = [recipe EXCEPT !["flow"] = "enabled"]
  /\ managed' = TRUE
  /\ UNCHANGED << owner, shipped, active, wanted, on, dishwasher, rows, calm >>

-----------------------------------------------------------------------------
(* Planning.                                                               *)

(* _inactive_ingredients *)
Executable(own) ==
  \A k \in StepKeys : own[k] \in {0, IF k \in Routes THEN active["talk"] ELSE active["act"]}

(* build_dish_plan: the policy's steps are inherited when no route of the  *)
(* recipe is enabled, and left out when it has a communication step.       *)
Inherits(own) == Enabled("policy") # {} /\ \A r \in Routes : own[r] = 0

(* seed_dish_ingredients_for_phase: a row for each step that has none.     *)
Seeded(was, steps) ==
  [k \in StepKeys |-> IF steps[k] = 0 \/ was[k].linked THEN was[k]
                      ELSE [planned |-> was[k].planned + 1, linked |-> TRUE]]

(* What the owners of the recipes would write is what is there.            *)
Settled ==
  /\ dishwasher.at # "patching"
  /\ active = shipped /\ Enabled("policy") = Routes
  /\ CASE owner = "template" -> Matches /\ OwnRoutes("flow") = {}
       [] owner = "managed" -> /\ recipe["flow"] = "enabled" /\ managed
                               /\ \A k \in ActKeys : named["flow"][k] = Ships(wanted)[k]
       [] OTHER -> recipe["flow"] = "absent"

NothingPlanned == \A n \in RecipeNames, k \in StepKeys : rows[n][k].planned = 0

RowCount ==
  Cardinality({x \in RecipeNames \X StepKeys \X (0 .. MaxRows) : rows[x[1]][x[2]].planned > x[3]})

(* _dispatch_order_once for a resolving order; a recipe with a retired     *)
(* ingredient is refused.                                                  *)
PlanWith(n, was, own) ==
  /\ Executable(own)
  /\ rows' = [rows EXCEPT ![n] = Seeded(was, own),
                          !["policy"] = IF Inherits(own) THEN Seeded(@, named["policy"]) ELSE @]
  /\ RowCount' <= MaxRows
  /\ calm' = IF NothingPlanned THEN Settled ELSE calm

DispatchRecipe ==
  /\ recipe["flow"] = "enabled"
  /\ PlanWith("flow", rows["flow"], named["flow"])
  /\ UNCHANGED << owner, shipped, active, wanted, recipe, managed, named, on, dishwasher >>

(* ensure_fallback_recipe writes the fallback recipe from the policy's     *)
(* enabled routes first; without any the order stays without a recipe.     *)
DispatchFallback ==
  /\ recipe["flow"] # "enabled"
  /\ LET routes == Enabled("policy") IN
     /\ named' = [named EXCEPT !["fallback"] = WithRoutes("fallback", routes)]
     /\ on' = [on EXCEPT !["fallback"] = [r \in Routes |-> r \in routes]]
     /\ recipe' = [recipe EXCEPT !["fallback"] = IF routes = {} THEN "disabled" ELSE "enabled"]
     /\ IF routes = {}
        THEN /\ rows' = [rows EXCEPT !["fallback"] = Kept("fallback", {})]
             /\ UNCHANGED calm
        ELSE PlanWith("fallback", Kept("fallback", routes), named'["fallback"])
  /\ UNCHANGED << owner, shipped, active, wanted, managed, dishwasher >>

RecipesNext ==
  \/ \E k \in Kinds : Upgrade(k)
  \/ BootstrapIngredients \/ StartSync \/ SyncFails
  \/ AdminPutsPolicy \/ SyncPolicy \/ SyncPolicyRefused
  \/ EditSteps \/ EditCommunications \/ DisableRecipe
  \/ LookUpRecipe \/ PatchRecipe
  \/ RepositoryChanges \/ SyncContent
  \/ DispatchRecipe \/ DispatchFallback

RecipesSpec == RecipesInit /\ [][RecipesNext]_recipeVars

-----------------------------------------------------------------------------
(* While nobody changes the recipe, the routes or the contracts, the order *)
(* gets each step once, however often it is dispatched and whatever rounds *)
(* of the Dishwasher and content syncs go on in between.                   *)
PlannedOnce ==
  calm => \A n \in RecipeNames, k \in StepKeys : rows[n][k].planned <= 1

(* After a round of the Dishwasher without an error the template's recipe  *)
(* and the policy name no retired ingredient.  (Local routes that were     *)
(* added to the template's recipe are kept as they are and may.)           *)
SyncedExecutable ==
  dishwasher.at = "idle" /\ dishwasher.clean /\ owner = "template" /\ active = dishwasher.ids =>
    /\ \A k \in ActKeys : named["flow"][k] \in {0, active["act"]}
    /\ \A r \in Routes : named["policy"][r] \in {0, active["talk"]}

(* recipes.py, dish_planner.py, dishwasher.py: all of it, with the types.  *)
RecipesKept == RecipesTypeOK /\ PlannedOnce /\ SyncedExecutable
=============================================================================
